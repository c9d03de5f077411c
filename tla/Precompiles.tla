------------------------------ MODULE Precompiles ------------------------------
(***************************************************************************)
(* The precompiled contracts (src/src/precompiles.rs) and the call that    *)
(* runs one (executor.rs).                                                 *)
(*                                                                         *)
(* The checks, conversions and costs are the code's; the groups of the     *)
(* elliptic curves, which libraries implement, are the integers modulo N,  *)
(* with 1 as the generator: a point is its logarithm.  A byte has ByteBits *)
(* bits and the head of an exponent HeadLen bytes, so that lengths on both *)
(* sides of every limit are small.                                         *)
(***************************************************************************)
EXTENDS Integers, Sequences, SequencesExt

CONSTANTS
  N,          \* order of the groups, an odd prime
  ByteBits,   \* bits of a byte (8)
  HeadLen,    \* bytes of an exponent that are looked at for its cost (32)
  LimbLen,    \* bytes of a word of the multiplication (8)
  MaxLen,     \* MODEXP_MAX_INPUT_LEN
  U64,        \* the first number that is no u64
  Usize,      \* the first number that is no usize
  MaxInput,   \* bytes of an input, which is in the memory of the caller
  MinGas,     \* MIN_GAS of MODEXP
  Limit,      \* gas of the calling frame
  BaseCost,   \* cost of the call instruction itself
  Inputs      \* calls: records with the function and its input

ASSUME GroupAssumption == N \in Nat \ {0, 1} /\ N % 2 = 1 /\ \A k \in 2..(N - 1) : N % k # 0

ASSUME WidthAssumption ==
  /\ {ByteBits, HeadLen, LimbLen, MaxLen} \subseteq Nat \ {0}
  /\ Usize \in Nat /\ U64 \in Nat /\ MaxLen < Usize /\ Usize <= U64
  /\ MinGas \in Nat /\ Limit \in Nat /\ BaseCost \in Nat \ {0} /\ BaseCost <= Limit

VARIABLES
  call,     \* the call made last
  result,   \* what the precompile did
  ret,      \* Executor::ret, the return data
  used,     \* Evm::gas.used
  status    \* "running", "halted" or "panicked"

vars == <<call, result, ret, used, status>>

-----------------------------------------------------------------------------
(* Results *)

Ok(data) == <<"ok", data>>
Err      == <<"err">>
Panic    == <<"panic">>

ZeroWord == <<"word", 0>>
OneWord  == <<"word", 1>>

-----------------------------------------------------------------------------
(* The group (external) *)

InvMod(a) == CHOOSE b \in 1..(N - 1) : (a * b) % N = 1

\* A point and its negation share their first coordinate and differ in the parity
\* of the second.
Half      == (N - 1) \div 2
X(p)      == IF p <= Half THEN p ELSE N - p
Parity(p) == IF p <= Half THEN 0 ELSE 1

\* The point with the coordinate r and a parity, 0 if there is none.
Lift(r, parity) == IF r \notin 1..Half THEN 0 ELSE IF parity = 0 THEN r ELSE N - r

\* ECDSA: signature of the digest z by the key d with the nonce k, and the
\* equation that verifies it.
Sign(d, k, z) ==
  [r |-> X(k), s |-> (InvMod(k) * (z + X(k) * d)) % N, v |-> 27 + Parity(k)]

Verify(q, z, r, s) ==
  LET p == (InvMod(s) * (z + r * q)) % N
  IN  p # 0 /\ X(p) = r

\* Signature::from_slice and VerifyingKey::recover_from_prehash of the library,
\* which verifies what it has recovered and accepts no high s.
RecoverFromPrehash(z, r, s, id) ==
  LET p == Lift(r, id)
      q == (InvMod(r) * ((s * p) - z)) % N
  IN  IF r \notin 1..(N - 1) \/ s \notin 1..Half \/ p = 0 \/ q = 0 THEN Err
      ELSE Ok(<<"address", q>>)

-----------------------------------------------------------------------------
(* 0x01 ecrecover, 0x100 p256verify *)

\* (mutant) n/2 counts as high.
IsHighHalf(s) == s >= Half

IsHigh(s) == s > Half

Ecrecover(in) ==
  LET high == IsHigh(in.s)
      low  == IF high THEN N - in.s ELSE in.s
      id   == IF high THEN 1 - (in.v - 27) ELSE in.v - 27
  IN  IF in.len # 128 \/ in.v \notin {27, 28} THEN Ok(ZeroWord)
      ELSE IF low < 0 THEN Panic   \* n - s of unsigned numbers
      ELSE RecoverFromPrehash(in.z, in.r, low, id)

\* q is the logarithm of the public key, 0 if it is no point.
P256verify(in) ==
  IF /\ in.len = 160
     /\ {in.r, in.s} \subseteq 1..(N - 1)
     /\ in.q # 0
     /\ Verify(in.q, in.z, in.r, in.s)
  THEN Ok(OneWord) ELSE Ok(<<>>)

-----------------------------------------------------------------------------
(* 0x05 modexp: lengths and the bytes after them *)

Pow2[n \in Nat] == IF n = 0 THEN 1 ELSE 2 * Pow2[n - 1]

Base == Pow2[ByteBits]
Byte == 0..(Base - 1)

\* Base to the power of n.
BasePow(n) == Pow2[ByteBits * n]

\* BigUint::from_bytes_be.
FromBytes(bytes) ==
  LET v[i \in 0..Len(bytes)] == IF i = 0 THEN 0 ELSE v[i - 1] * Base + bytes[i]
  IN  v[Len(bytes)]

\* BigUint::to_bytes_be: the shortest form, one byte for a zero.
ToBytes(v) ==
  LET n == CHOOSE i \in 1..(MaxLen + 1) : v < BasePow(i) /\ (i = 1 \/ v >= BasePow(i - 1))
  IN  [i \in 1..n |-> (v \div BasePow(n - i)) % Base]

\* BigUint::modpow.
ModPow(b, e, m) ==
  LET pow[i \in 0..e] == IF i = 0 THEN 1 % m ELSE (pow[i - 1] * b) % m
  IN  pow[e]

Zeros(n) == [i \in 1..n |-> 0]

\* try_into().unwrap_or(0).
Length(n, bound) == IF n < bound THEN n ELSE 0

\* The length fields as integers below bound.
Lengths(in, bound) ==
  [ b |-> Length(in.b, bound), e |-> Length(in.e, bound), m |-> Length(in.m, bound) ]

Oversized(l) == l.b > MaxLen \/ l.e > MaxLen \/ l.m > MaxLen

Slice(s, from, n) == SubSeq(s, from + 1, from + n)

\* (mutant) Leading zeros are left out.
PadShort(bytes, n) == bytes

Pad(bytes, n) == Zeros(n - Len(bytes)) \o bytes

Modexp(in) ==
  LET l == Lengths(in, Usize)
      b == FromBytes(Slice(in.data, 0, l.b))
      e == FromBytes(Slice(in.data, l.b, l.e))
      m == FromBytes(Slice(in.data, l.b + l.e, l.m))
  IN  IF in.short THEN Ok(<<>>)
      ELSE IF Oversized(l) THEN Err
      ELSE IF l.b + l.e + l.m > Len(in.data) THEN Ok(<<>>)
      ELSE IF m = 0 THEN Ok(Zeros(l.m))
      ELSE Ok(Pad(ToBytes(ModPow(b, e, m)), l.m))

-----------------------------------------------------------------------------
(* The cost of modexp *)

DivCeil(a, b) == (a + b - 1) \div b

MaxOf(a, b) == IF a >= b THEN a ELSE b

LeadingZeros(byte) == CHOOSE n \in 0..ByteBits : byte < Pow2[ByteBits - n]
                        /\ (n = ByteBits \/ byte >= Pow2[ByteBits - n - 1])

\* (mutant) The byte that is not zero counts in full.
ScanBitsFull(bytes) ==
  LET ones == {i \in DOMAIN bytes : bytes[i] # 0}
      i    == CHOOSE j \in ones : \A k \in ones : j <= k
  IN  IF ones = {} THEN 0 ELSE (Len(bytes) - i) * ByteBits + ByteBits

\* The loop over the bytes up to the first that is not zero.
ScanBits(bytes) ==
  LET ones == {i \in DOMAIN bytes : bytes[i] # 0}
      i    == CHOOSE j \in ones : \A k \in ones : j <= k
  IN  IF ones = {} THEN 0
      ELSE (Len(bytes) - i) * ByteBits + ByteBits - LeadingZeros(bytes[i])

IterationCount(in, l) ==
  LET size == Len(in.data)
  IN  IF l.e <= HeadLen /\ size >= l.b + l.e
      THEN MaxOf(ScanBits(Slice(in.data, l.b, l.e)) - 1, 0)
      ELSE IF l.e > HeadLen
      THEN 16 * (l.e - HeadLen)
             + (IF size >= l.b + HeadLen
                THEN MaxOf(ScanBits(Slice(in.data, l.b, HeadLen)) - 1, 0) ELSE 0)
      ELSE 1

\* (mutant) The length of the modulus is not checked.
ModexpGasCostModulus(in) ==
  LET l     == Lengths(in, U64)
      words == DivCeil(MaxOf(l.b, l.m), LimbLen)
  IN  IF in.short THEN MinGas
      ELSE IF l.b > MaxLen \/ l.e > MaxLen THEN U64 - 1
      ELSE MaxOf(words * words * MaxOf(IterationCount(in, l), 1), MinGas)

ModexpGasCost(in) ==
  LET l     == Lengths(in, U64)
      words == DivCeil(MaxOf(l.b, l.m), LimbLen)
  IN  IF in.short THEN MinGas
      ELSE IF Oversized(l) THEN U64 - 1
      ELSE MaxOf(words * words * MaxOf(IterationCount(in, l), 1), MinGas)

-----------------------------------------------------------------------------
(* 0x06 - 0x08 bn128: a point is given by two coordinates *)

\* "zero" (both words zero), "point", "alias" (the same modulo the field, not
\* reduced) or "off" the curve; G1Affine::new panics off the curve.
Coordinates == [form: {"zero", "off"}, p: {0}] \cup [form: {"point", "alias"}, p: 1..(N - 1)]

OffCurve(c) == c.form = "off"

\* (mutant) Infinity is no special case.
EncodeAffine(p) == [form |-> IF p = 0 THEN "off" ELSE "point", p |-> p]

\* fq_to_bytes, and zeros for infinity.
Encode(p) == [form |-> IF p = 0 THEN "zero" ELSE "point", p |-> p]

Bn128Add(in) ==
  IF OffCurve(in.p1) \/ OffCurve(in.p2) THEN Panic
  ELSE Ok(Encode((in.p1.p + in.p2.p) % N))

\* The scalar is reduced.
Bn128Mul(in) ==
  IF OffCurve(in.p1) THEN Panic ELSE Ok(Encode((in.p1.p * in.scalar) % N))

\* pairs of points of the two groups; rest tells that bytes are left over.
Bn128Pairing(in) ==
  IF in.rest THEN Err
  ELSE IF \E i \in DOMAIN in.pairs : OffCurve(in.pairs[i][1]) \/ OffCurve(in.pairs[i][2])
  THEN Panic
  ELSE LET sum == FoldLeft(LAMBDA a, pq : (a + pq[1].p * pq[2].p) % N, 0, in.pairs)
       IN  Ok(IF sum = 0 THEN OneWord ELSE ZeroWord)

-----------------------------------------------------------------------------
(* 0x09 blake2f, 0x0A point evaluation, and those that only hash or copy *)

\* The permutation of a round: SIGMA has ten, and the first two again.
Sigma(round) == (round % 12) % 10

Blake2f(in) ==
  IF in.len # 213 THEN Err
  ELSE Ok(<<"blake", [i \in 1..in.rounds |-> Sigma(i - 1)], in.final # 0>>)

Blake2fGasCost(in) == IF in.len < 4 THEN 0 ELSE in.rounds

\* get_tau_g2_trusted_setup stands in for the point of the ceremony.
Tau == 1

\* Commitment and proof are points, -1 if they cannot be decoded; the versioned
\* hash is not looked at.
KzgPointEvaluation(in) ==
  IF in.len # 192 \/ -1 \in {in.commitment, in.proof} THEN Err
  ELSE IF (in.proof * (Tau - in.z)) % N # (in.commitment - in.y) % N THEN Err
  ELSE Ok(<<"kzg">>)

Words(len) == DivCeil(len, 32)

-----------------------------------------------------------------------------
(* execute and gas_cost *)

Execute(in) ==
  CASE in.fn = "ecrecover"     -> Ecrecover(in)
    [] in.fn \in {"sha256", "ripemd160", "identity"} -> Ok(<<in.fn, in.len>>)
    [] in.fn = "modexp"        -> Modexp(in)
    [] in.fn = "bn128_add"     -> Bn128Add(in)
    [] in.fn = "bn128_mul"     -> Bn128Mul(in)
    [] in.fn = "bn128_pairing" -> Bn128Pairing(in)
    [] in.fn = "blake2f"       -> Blake2f(in)
    [] in.fn = "kzg"           -> KzgPointEvaluation(in)
    [] in.fn = "p256verify"    -> P256verify(in)

\* The cast of a u64 to an i64.
AsI64(n) == IF n < U64 \div 2 THEN n ELSE n - U64

GasCost(in) == AsI64(
  CASE in.fn = "ecrecover"     -> 3000
    [] in.fn = "sha256"        -> 60 + 12 * Words(in.len)
    [] in.fn = "ripemd160"     -> 600 + 120 * Words(in.len)
    [] in.fn = "identity"      -> 15 + 3 * Words(in.len)
    [] in.fn = "modexp"        -> ModexpGasCost(in)
    [] in.fn = "bn128_add"     -> 150
    [] in.fn = "bn128_mul"     -> 6000
    [] in.fn = "bn128_pairing" -> 45000 + 34000 * Len(in.pairs)
    [] in.fn = "blake2f"       -> Blake2fGasCost(in)
    [] in.fn = "kzg"           -> 50000
    [] in.fn = "p256verify"    -> 6900)

-----------------------------------------------------------------------------
(* Inputs *)

\* What the functions read out of an input, by its length in bytes; the rounds of
\* blake2f are a u32.
Calls ==
  [ fn: {"ecrecover"}, len: 0..MaxInput, z: Nat, r: Nat, s: Nat, v: Nat ]
  \cup [ fn: {"p256verify"}, len: 0..MaxInput, z: Nat, r: Nat, s: Nat, q: 0..(N - 1) ]
  \cup [ fn: {"sha256", "ripemd160", "identity"}, len: 0..MaxInput ]
  \cup [ fn: {"modexp"}, short: BOOLEAN, b: Nat, e: Nat, m: Nat, data: Seq(Byte) ]
  \cup [ fn: {"bn128_add"}, p1: Coordinates, p2: Coordinates ]
  \cup [ fn: {"bn128_mul"}, p1: Coordinates, scalar: Nat ]
  \cup [ fn: {"bn128_pairing"}, rest: BOOLEAN, pairs: Seq(Coordinates \X Coordinates) ]
  \cup [ fn: {"blake2f"}, len: 0..MaxInput, rounds: 0..(U64 \div 2 - 1), final: Nat ]
  \cup [ fn: {"kzg"}, len: 0..MaxInput, z: Nat, y: Nat,
          commitment: -1..(N - 1), proof: -1..(N - 1) ]

ASSUME InputAssumption ==
  /\ Inputs \subseteq Calls
  /\ \A in \in Inputs : in.fn = "bn128_pairing" => 192 * Len(in.pairs) <= MaxInput

\* The cost of what is not refused is far from the end of an i64.
ASSUME CostAssumption ==
  /\ MaxInput \in Nat
  /\ 50000 + 34000 * MaxInput < U64 \div 2
  /\ MinGas < U64 \div 2
  /\ LET words == DivCeil(MaxLen, LimbLen)
     IN  words * words * (16 * MaxLen + ByteBits * HeadLen + 1) < U64 \div 2

-----------------------------------------------------------------------------
(* A frame that calls a precompile *)

NoCall == [fn |-> "none"]

\* Return data of an earlier call.
Earlier == <<"earlier">>

Init ==
  /\ call = NoCall
  /\ result = Ok(<<>>)
  /\ ret \in {<<>>, Earlier}
  /\ used = 0
  /\ status = "running"

\* (mutant) The cost is not compared with the gas that is left.
ChargeUnchecked(cost) == used' = used + cost + BaseCost /\ status' = status

\* Evm::gas with the cost of the precompile, and after the instruction with its
\* own; a frame that cannot pay halts and all its gas is taken.
Charge(cost) ==
  IF cost > Limit - used \/ BaseCost > Limit - used - cost
  THEN used' = Limit /\ status' = "halted"
  ELSE used' = used + cost + BaseCost /\ status' = status

\* Executor::call of a precompile, the base cost being covered: it runs before it
\* is paid for, and an error leaves the return data as they were.
CallPrecompile(in) ==
  /\ status = "running"
  /\ call = NoCall
  /\ BaseCost <= Limit - used
  /\ call' = in
  /\ result' = Execute(in)
  /\ ret' = IF result'[1] = "ok" THEN result'[2] ELSE ret
  /\ IF result' = Panic THEN status' = "panicked" /\ UNCHANGED used ELSE Charge(GasCost(in))

\* Another frame.
Return ==
  /\ call # NoCall
  /\ call' = NoCall
  /\ result' = Ok(<<>>)
  /\ ret' \in {<<>>, Earlier}
  /\ used' = 0
  /\ status' = "running"

Next == Return \/ \E in \in Inputs : CallPrecompile(in)

Spec == Init /\ [][Next]_vars

-----------------------------------------------------------------------------
(* Properties *)

\* The gas of a frame stays within its limit although a precompile runs before it
\* is paid for and its cost may be negative.
TypeOK ==
  /\ result[1] \in {"ok", "err", "panic"}
  /\ used \in 0..Limit
  /\ status \in {"running", "halted", "panicked"}

\* ecrecover finds the signer, and of a signature with a high s too, which is
\* turned into the one with a low s: whoever signs with any key and nonce gets the
\* own address back, and no other address ever comes back.
RecoversSigner ==
  call.fn = "ecrecover" /\ call.len = 128 /\ call.s # 0 =>
    /\ \A d, k \in 1..(N - 1) :
         [r |-> call.r, s |-> call.s, v |-> call.v] = Sign(d, k, call.z) =>
           result = Ok(<<"address", d>>)
    /\ \A q \in 1..(N - 1) :
         result = Ok(<<"address", q>>) => Verify(q, call.z, call.r, call.s)

\* The number of bits of a number.
BitLength(n) == CHOOSE i \in 0..(ByteBits * MaxLen) : n < Pow2[i] /\ (i = 0 \/ n >= Pow2[i - 1])

\* The input of modexp that is complete: b, e and m are its numbers.
Complete == /\ call.fn = "modexp"
            /\ ~call.short
            /\ ~Oversized(Lengths(call, U64))
            /\ LET l == Lengths(call, U64) IN l.b + l.e + l.m <= Len(call.data)

\* The scan of the bytes of an exponent counts its bits: of all of a short one, of
\* the head of a long one, to which each byte beyond adds 16.  A bit but the highest
\* costs what the code takes for a multiplication, words * words as in EIP-2565.
ModexpPriced ==
  Complete =>
    LET l     == Lengths(call, U64)
        head  == FromBytes(Slice(call.data, l.b, IF l.e < HeadLen THEN l.e ELSE HeadLen))
        bits  == MaxOf(BitLength(head) - 1, 0) + 16 * MaxOf(l.e - HeadLen, 0)
        words == DivCeil(MaxOf(l.b, l.m), LimbLen)
    IN  GasCost(call) = MaxOf(MinGas, words * words * MaxOf(bits, 1))

\* The price of EIP-7883, whose multiplication costs 16 up to 32 bytes and twice
\* the square of the words above.
PricedAsEip7883 ==
  Complete =>
    LET l     == Lengths(call, U64)
        head  == FromBytes(Slice(call.data, l.b, IF l.e < HeadLen THEN l.e ELSE HeadLen))
        bits  == MaxOf(BitLength(head) - 1, 0) + 16 * MaxOf(l.e - HeadLen, 0)
        Square(len) == DivCeil(len, LimbLen) * DivCeil(len, LimbLen)
        len   == MaxOf(l.b, l.m)
        complexity == IF len <= HeadLen THEN Square(HeadLen) ELSE 2 * Square(len)
    IN  GasCost(call) = MaxOf(MinGas, complexity * MaxOf(bits, 1))

\* modexp returns the power in as many bytes as the modulus has, be it zero or
\* shorter than that.
ModexpResult ==
  Complete =>
    LET l == Lengths(call, U64)
        b == FromBytes(Slice(call.data, 0, l.b))
        e == FromBytes(Slice(call.data, l.b, l.e))
        m == FromBytes(Slice(call.data, l.b + l.e, l.m))
    IN  /\ result[1] = "ok"
        /\ Len(result[2]) = l.m
        /\ FromBytes(result[2]) = IF m = 0 THEN 0 ELSE ModPow(b, e, m)

\* The two readings of the lengths agree: what modexp refuses for its size is what
\* has the cost of a refused input.
RejectedTogether ==
  call.fn = "modexp" => (result = Err <=> GasCost(call) = AsI64(U64 - 1))

\* What bn128_add and bn128_mul return is again a point for them, infinity too.
BnClosed ==
  call.fn \in {"bn128_add", "bn128_mul"} /\ result[1] = "ok" =>
    \A c \in Coordinates : ~OffCurve(c) =>
      Bn128Add([p1 |-> result[2], p2 |-> c]) = Ok(Encode((result[2].p + c.p) % N))

\* A modexp with an input that is too large consumes all gas.
OversizedConsumesAll ==
  call.fn = "modexp" /\ ~call.short /\ Oversized(Lengths(call, U64)) =>
    used = Limit /\ status = "halted"

\* A precompile that fails leaves no return data.
FailureReturnsNothing == result = Err => ret = <<>>

\* No input stops the process.
NoPanic == status # "panicked"

\* The rounds of blake2f go through its ten permutations in turn.
BlakeSchedule ==
  call.fn = "blake2f" /\ result # Err =>
    \A i \in DOMAIN result[2][2] : result[2][2][i] = (i - 1) % 10
=============================================================================
