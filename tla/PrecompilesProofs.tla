-------------------------- MODULE PrecompilesProofs --------------------------
(***************************************************************************)
(* For every prime order of the groups, every width of a byte and a word,  *)
(* every limit and every input: ecrecover finds the signer and nobody      *)
(* else, modexp computes the power and costs what its exponent is worth,   *)
(* what it refuses is priced as refused, and gas stays within the limit.   *)
(***************************************************************************)
EXTENDS Precompiles, WellFoundedInduction, TLAPS

-----------------------------------------------------------------------------
(* Integers *)

\* A non-empty set of numbers has a least element.
LEMMA LeastElement ==
  ASSUME NEW I, I \subseteq Nat, I # {}
  PROVE  \E i \in I : \A j \in I : i <= j
<1> DEFINE R == OpToRel(<, Nat)
<1>1. IsWellFoundedOn(R, Nat)
  BY NatLessThanWellFounded
<1>2. PICK i \in I : \A j \in I : ~(<<j, i>> \in R)
  <2> HIDE DEF R
  <2> QED BY <1>1, WFMin, Zenon
<1>3. ASSUME NEW j \in I
      PROVE  i <= j
  <2>1. ~(j < i)
    BY <1>2 DEF OpToRel
  <2> QED BY <2>1
<1> QED BY <1>3

\* Induction, on membership in a set.
LEMMA SetInduction ==
  ASSUME NEW S, 0 \in S, \A n \in Nat : n \in S => n + 1 \in S
  PROVE  Nat \subseteq S
<1> SUFFICES ASSUME Nat \ S # {}
             PROVE  FALSE
  OBVIOUS
<1>1. PICK m \in Nat \ S : \A j \in Nat \ S : m <= j
  BY LeastElement
<1>2. m # 0 /\ m - 1 \in Nat
  BY <1>1
<1>3. m - 1 \in S
  BY <1>1, <1>2
<1> QED BY <1>1, <1>2, <1>3

\* Quotient and remainder.
LEMMA DivMod ==
  ASSUME NEW a \in Int, NEW n \in Nat \ {0}
  PROVE  /\ a \div n \in Int
         /\ a % n \in 0..(n - 1)
         /\ a = (n * (a \div n)) + (a % n)
OBVIOUS

LEMMA DivModUnique ==
  ASSUME NEW a \in Int, NEW n \in Nat \ {0}, NEW q \in Int, NEW r \in 0..(n - 1),
         a = (n * q) + r
  PROVE  a \div n = q /\ a % n = r
OBVIOUS

LEMMA MultLeft ==
  ASSUME NEW a \in Int, NEW b \in Int, NEW c \in Nat, a <= b
  PROVE  a * c <= b * c
OBVIOUS

-----------------------------------------------------------------------------
(* Numbers modulo N *)

Cong(a, b) == \E k \in Int : a - b = k * N

LEMMA CongRefl ==
  ASSUME NEW a \in Int
  PROVE  Cong(a, a)
<1>1. a - a = 0 * N
  BY GroupAssumption
<1> QED BY <1>1 DEF Cong

LEMMA CongSym ==
  ASSUME NEW a \in Int, NEW b \in Int, Cong(a, b)
  PROVE  Cong(b, a)
<1>1. PICK k \in Int : a - b = k * N
  BY DEF Cong
<1>2. b - a = (0 - k) * N
  BY <1>1, GroupAssumption
<1> QED BY <1>2 DEF Cong

LEMMA CongTrans ==
  ASSUME NEW a \in Int, NEW b \in Int, NEW c \in Int, Cong(a, b), Cong(b, c)
  PROVE  Cong(a, c)
<1>1. PICK k \in Int : a - b = k * N
  BY DEF Cong
<1>2. PICK l \in Int : b - c = l * N
  BY DEF Cong
<1>3. a - c = (k + l) * N
  BY <1>1, <1>2, GroupAssumption
<1>4. k + l \in Int
  OBVIOUS
<1> QED BY <1>3, <1>4 DEF Cong

LEMMA CongSum ==
  ASSUME NEW a \in Int, NEW b \in Int, NEW c \in Int, NEW d \in Int, Cong(a, b), Cong(c, d)
  PROVE  Cong(a + c, b + d) /\ Cong(a - c, b - d)
<1>1. PICK k \in Int : a - b = k * N
  BY DEF Cong
<1>2. PICK l \in Int : c - d = l * N
  BY DEF Cong
<1>3. (a + c) - (b + d) = (k + l) * N /\ (a - c) - (b - d) = (k - l) * N
  BY <1>1, <1>2, GroupAssumption
<1>4. k + l \in Int /\ k - l \in Int
  OBVIOUS
<1> QED BY <1>3, <1>4 DEF Cong

LEMMA CongProd ==
  ASSUME NEW a \in Int, NEW b \in Int, NEW c \in Int, NEW d \in Int, Cong(a, b), Cong(c, d)
  PROVE  Cong(a * c, b * d)
<1>1. PICK k \in Int : a - b = k * N
  BY DEF Cong
<1>2. PICK l \in Int : c - d = l * N
  BY DEF Cong
<1>3. ASSUME NEW n \in Int, a - b = k * n, c - d = l * n
      PROVE  (a * c) - (b * d) = ((k * c) + (b * l)) * n
  BY <1>3
<1>4. (a * c) - (b * d) = ((k * c) + (b * l)) * N
  BY <1>1, <1>2, <1>3, GroupAssumption
<1>5. (k * c) + (b * l) \in Int
  OBVIOUS
<1> QED BY <1>4, <1>5 DEF Cong

\* The remainder is the representative below N, and the only one.
LEMMA CongMod ==
  ASSUME NEW a \in Int
  PROVE  a % N \in 0..(N - 1) /\ Cong(a % N, a)
<1> DEFINE q == a \div N
<1>1. q \in Int /\ a % N \in 0..(N - 1) /\ a = (N * q) + (a % N)
  BY DivMod, GroupAssumption
<1>2. ASSUME NEW r \in Int, a = (N * q) + r
      PROVE  r - a = (0 - q) * N
  BY <1>1, <1>2, GroupAssumption
<1>3. (a % N) - a = (0 - q) * N
  BY <1>1, <1>2
<1>4. 0 - q \in Int
  BY <1>1
<1> QED BY <1>1, <1>3, <1>4 DEF Cong

LEMMA CongEqual ==
  ASSUME NEW a \in 0..(N - 1), NEW b \in 0..(N - 1), Cong(a, b)
  PROVE  a = b
<1>1. PICK k \in Int : a - b = k * N
  BY DEF Cong
<1>2. N \in Nat
  BY GroupAssumption
<1>3. ASSUME k >= 1
      PROVE  FALSE
  <2>1. k * N >= N
    BY <1>2, <1>3
  <2> QED BY <1>1, <1>2, <2>1
<1>4. ASSUME k <= -1
      PROVE  FALSE
  <2>1. k * N <= 0 - N
    BY <1>2, <1>4
  <2> QED BY <1>1, <1>2, <2>1
<1>5. k = 0
  BY <1>3, <1>4
<1> QED BY <1>1, <1>2, <1>5

LEMMA ModOfCong ==
  ASSUME NEW a \in Int, NEW b \in 0..(N - 1), Cong(a, b)
  PROVE  a % N = b
<1>1. a % N \in 0..(N - 1) /\ Cong(a % N, a) /\ a % N \in Int
  BY CongMod
<1>2. Cong(a % N, b)
  BY <1>1, CongTrans
<1> QED BY <1>1, <1>2, CongEqual

\* N is a prime, so every number that is not zero has an inverse: the least one
\* without would have that of N modulo it.
LEMMA InverseExists ==
  ASSUME NEW a \in 1..(N - 1)
  PROVE  \E b \in 1..(N - 1) : Cong(a * b, 1)
<1> DEFINE Lacks == {c \in 1..(N - 1) : ~\E b \in 1..(N - 1) : Cong(c * b, 1)}
<1> SUFFICES ASSUME Lacks # {}
             PROVE  FALSE
  OBVIOUS
<1>1. N \in Nat /\ N > 1
  BY GroupAssumption
<1>2. PICK c \in Lacks : \A j \in Lacks : c <= j
  <2>1. Lacks \subseteq Nat
    OBVIOUS
  <2> HIDE DEF Lacks
  <2> QED BY <2>1, LeastElement
<1>3. c # 1
  <2>1. Cong(1 * 1, 1)
    BY CongRefl
  <2> QED BY <1>1, <2>1
<1>4. c \in 2..(N - 1) /\ c \in Nat \ {0}
  BY <1>1, <1>3
<1> DEFINE r == N % c
           q == N \div c
<1>5. r # 0
  BY <1>4, GroupAssumption
<1>6. q \in Int /\ r \in 0..(c - 1) /\ N = (c * q) + r
  BY <1>1, <1>4, DivMod
<1> HIDE DEF r, q
<1>7. r \in 1..(N - 1) /\ r < c /\ r \in Int
  BY <1>1, <1>4, <1>5, <1>6
<1>8. PICK b \in 1..(N - 1) : Cong(r * b, 1)
  <2>1. r \notin Lacks
    BY <1>2, <1>7
  <2> QED BY <1>7, <2>1
<1> DEFINE i == (0 - (q * b)) % N
<1>9. 0 - (q * b) \in Int
  BY <1>6
<1>10. i \in 0..(N - 1) /\ Cong(i, 0 - (q * b))
  <2> HIDE DEF Cong
  <2> QED BY <1>9, CongMod
<1>11. Cong(c * i, c * (0 - (q * b)))
  <2>1. Cong(c, c) /\ i \in Int /\ c \in Int
    BY <1>4, <1>10, CongRefl
  <2> HIDE DEF i
  <2> QED BY <1>9, <1>10, <2>1, CongProd
<1>12. Cong(c * (0 - (q * b)), r * b)
  <2>1. ASSUME NEW x \in Int, NEW y \in Int, NEW w \in Int, NEW n \in Int, NEW m \in Int,
               n = (x * y) + w
        PROVE  (x * (0 - (y * m))) - (w * m) = (0 - m) * n
    <3>1. w = n - (x * y)
      BY <2>1
    <3>2. w * m = (n * m) - ((x * y) * m)
      BY <3>1
    <3> QED BY <3>2
  <2>2. (c * (0 - (q * b))) - (r * b) = (0 - b) * N
    BY <1>1, <1>4, <1>6, <1>7, <2>1
  <2>3. 0 - b \in Int
    OBVIOUS
  <2> QED BY <2>2, <2>3 DEF Cong
<1>13. Cong(c * i, 1)
  <2>1. c * i \in Int /\ c * (0 - (q * b)) \in Int /\ r * b \in Int
    BY <1>4, <1>7, <1>9, <1>10
  <2>2. Cong(c * i, r * b)
    BY <1>11, <1>12, <2>1, CongTrans
  <2> QED BY <1>8, <2>1, <2>2, CongTrans
<1>14. i # 0
  <2> SUFFICES ASSUME i = 0
               PROVE  FALSE
    OBVIOUS
  <2>1. c * i = 0
    BY <1>4
  <2>2. Cong(0, 1)
    BY <1>13, <2>1
  <2>3. 0 \in 0..(N - 1) /\ 1 \in 0..(N - 1)
    BY <1>1
  <2>4. 0 = 1
    BY <2>2, <2>3, CongEqual
  <2> QED BY <2>4
<1>15. i \in 1..(N - 1)
  BY <1>10, <1>14
<1> HIDE DEF i
<1> QED BY <1>13, <1>15

LEMMA InvModFacts ==
  ASSUME NEW a \in 1..(N - 1)
  PROVE  InvMod(a) \in 1..(N - 1) /\ Cong(InvMod(a) * a, 1)
<1>1. PICK b \in 1..(N - 1) : Cong(a * b, 1)
  BY InverseExists
<1>2. 1 \in 0..(N - 1)
  BY GroupAssumption
<1>3. (a * b) % N = 1
  BY <1>1, <1>2, ModOfCong
<1>4. InvMod(a) \in 1..(N - 1) /\ (a * InvMod(a)) % N = 1
  BY <1>3 DEF InvMod
<1> DEFINE i == InvMod(a)
<1>5. i \in 1..(N - 1) /\ (a * i) % N = 1
  BY <1>4
<1> HIDE DEF i
<1>6. Cong(1, a * i)
  BY <1>5, CongMod
<1>7. a * i = i * a /\ a * i \in Int
  BY <1>5
<1>8. Cong(i * a, 1)
  BY <1>6, <1>7, CongSym
<1> QED BY <1>5, <1>8 DEF i

\* An inverse undoes the product.
LEMMA InvModCancels ==
  ASSUME NEW a \in 1..(N - 1), NEW x \in Int, NEW y \in Int, Cong(x, a * y)
  PROVE  Cong(InvMod(a) * x, y)
<1> DEFINE i == InvMod(a)
<1>1. i \in Int /\ Cong(i * a, 1)
  BY InvModFacts
<1> HIDE DEF i
<1>2. Cong(i * x, i * (a * y))
  <2>1. Cong(i, i) /\ a * y \in Int
    BY <1>1, CongRefl
  <2> QED BY <1>1, <2>1, CongProd
<1>3. Cong((i * a) * y, 1 * y)
  <2>1. Cong(y, y) /\ i * a \in Int /\ 1 \in Int
    BY <1>1, CongRefl
  <2> QED BY <1>1, <2>1, CongProd
<1>4. i * (a * y) = (i * a) * y /\ 1 * y = y /\ i * x \in Int /\ (i * a) * y \in Int
  BY <1>1
<1>5. Cong(i * x, y)
  BY <1>2, <1>3, <1>4, CongTrans
<1> QED BY <1>5 DEF i

-----------------------------------------------------------------------------
(* ecrecover *)

LEMMA HalfFacts ==
  /\ N \in Nat /\ N > 2
  /\ Half \in Nat \ {0}
  /\ N = (2 * Half) + 1
<1>1. N \in Nat /\ N > 2 /\ N % 2 = 1
  BY GroupAssumption
<1>2. N = (2 * (N \div 2)) + 1 /\ N \div 2 \in Int
  BY <1>1, DivMod
<1>3. (N - 1) \div 2 = N \div 2
  BY <1>1, <1>2, DivModUnique
<1> QED BY <1>1, <1>2, <1>3 DEF Half

\* A point is found from its coordinate and its parity, its negation from the
\* other parity.
LEMMA LiftOfX ==
  ASSUME NEW k \in 1..(N - 1)
  PROVE  /\ X(k) \in 1..Half
         /\ Parity(k) \in {0, 1}
         /\ Lift(X(k), Parity(k)) = k
         /\ Lift(X(k), 1 - Parity(k)) = N - k
         /\ X(N - k) = X(k)
BY HalfFacts DEF X, Parity, Lift

LEMMA XOfLift ==
  ASSUME NEW r \in 1..Half, NEW b \in {0, 1}
  PROVE  Lift(r, b) \in 1..(N - 1) /\ X(Lift(r, b)) = r
BY HalfFacts DEF X, Lift

\* The digest, the coordinate and the key of a signature are related by its s and
\* its nonce.
LEMMA SignEquation ==
  ASSUME NEW d \in 1..(N - 1), NEW k \in 1..(N - 1), NEW z \in Int,
         NEW s \in Int, s = Sign(d, k, z).s
  PROVE  s \in 0..(N - 1) /\ Cong(s * k, z + (X(k) * d))
<1> DEFINE t == z + (X(k) * d)
           i == InvMod(k)
<1>1. t \in Int /\ i \in 1..(N - 1)
  BY LiftOfX, HalfFacts, InvModFacts
<1>2. s = (i * t) % N
  BY DEF Sign
<1>3. Cong(i * k, 1)
  BY InvModFacts
<1> HIDE DEF t, i
<1>4. i * t \in Int
  BY <1>1
<1>5. s \in 0..(N - 1) /\ Cong(s, i * t)
  BY <1>2, <1>4, CongMod
<1>6. Cong(s * k, (i * t) * k)
  <2>1. Cong(k, k) /\ k \in Int
    BY CongRefl
  <2> QED BY <1>4, <1>5, <2>1, CongProd
<1>7. Cong((i * k) * t, 1 * t)
  <2>1. Cong(t, t) /\ i * k \in Int /\ 1 \in Int
    BY <1>1, CongRefl
  <2> QED BY <1>1, <1>3, <2>1, CongProd
<1>8. (i * t) * k = (i * k) * t /\ 1 * t = t
  BY <1>1
<1>9. s * k \in Int /\ (i * t) * k \in Int
  BY <1>1
<1>10. Cong(s * k, t)
  BY <1>1, <1>6, <1>7, <1>8, <1>9, CongTrans
<1> QED BY <1>5, <1>10 DEF t

\* Both signs at once: of s and the point.
LEMMA NegatedProduct ==
  ASSUME NEW s \in Int, NEW p \in Int
  PROVE  Cong((N - s) * (N - p), s * p)
<1>1. N \in Int
  BY GroupAssumption
<1>2. ASSUME NEW n \in Int
      PROVE  ((n - s) * (n - p)) - (s * p) = ((n - s) - p) * n
  OBVIOUS
<1>3. ((N - s) * (N - p)) - (s * p) = ((N - s) - p) * N /\ (N - s) - p \in Int
  BY <1>1, <1>2
<1> QED BY <1>3 DEF Cong

\* The library finds the key that has the equation of the signature.
LEMMA RecoverFinds ==
  ASSUME NEW d \in 1..(N - 1), NEW p \in 1..(N - 1), NEW z \in Int,
         NEW low \in 1..Half, NEW id, Lift(X(p), id) = p,
         Cong(low * p, z + (X(p) * d))
  PROVE  RecoverFromPrehash(z, X(p), low, id) = Ok(<<"address", d>>)
<1> DEFINE r == X(p)
           q == (InvMod(r) * ((low * p) - z)) % N
<1>1. r \in 1..Half /\ r \in 1..(N - 1)
  BY LiftOfX, HalfFacts
<1>2. low \in Int /\ p \in Int /\ d \in Int /\ d \in 0..(N - 1)
  BY HalfFacts
<1>3. Cong((low * p) - z, r * d)
  <2>1. Cong(low * p, z + (r * d)) /\ Cong(z, z) /\ low * p \in Int
    BY <1>2, CongRefl
  <2> HIDE DEF r
  <2>2. r * d \in Int /\ z + (r * d) \in Int /\ (z + (r * d)) - z = r * d
    BY <1>1, <1>2
  <2>3. Cong((low * p) - z, (z + (r * d)) - z)
    BY <2>1, <2>2, CongSum
  <2> QED BY <2>2, <2>3
<1>4. q = d
  <2>1. (low * p) - z \in Int /\ InvMod(r) \in Int
    BY <1>1, <1>2, InvModFacts
  <2> HIDE DEF r
  <2>2. Cong(InvMod(r) * ((low * p) - z), d)
    BY <1>1, <1>2, <1>3, <2>1, InvModCancels
  <2>3. InvMod(r) * ((low * p) - z) \in Int
    BY <2>1
  <2> QED BY <1>2, <2>2, <2>3, ModOfCong
<1>5. r \in 1..(N - 1) /\ p # 0 /\ q # 0
  BY <1>1, <1>4
<1> HIDE DEF r, q
<1>6. RecoverFromPrehash(z, r, low, id) = Ok(<<"address", q>>)
  BY <1>5 DEF RecoverFromPrehash, r, q
<1> QED BY <1>4, <1>6 DEF r

\* Whoever signs is found.
LEMMA SignerFound ==
  ASSUME NEW d \in 1..(N - 1), NEW k \in 1..(N - 1), NEW in,
         in.z \in Nat, in.s \in Nat, in.len = 128,
         in.r = Sign(d, k, in.z).r, in.s = Sign(d, k, in.z).s, in.v = Sign(d, k, in.z).v,
         in.s # 0
  PROVE  Ecrecover(in) = Ok(<<"address", d>>)
<1>1. in.r = X(k) /\ in.v = 27 + Parity(k)
  BY DEF Sign
<1>2. in.s \in 1..(N - 1) /\ Cong(in.s * k, in.z + (X(k) * d))
  BY SignEquation
<1>3. X(k) \in 1..Half /\ Parity(k) \in {0, 1} /\ in.v \in {27, 28}
  BY <1>1, LiftOfX
<1>4. CASE ~IsHigh(in.s)
  <2>1. in.s \in 1..Half /\ in.s >= 0
    BY <1>2, <1>4, HalfFacts DEF IsHigh
  <2>2. Lift(X(k), in.v - 27) = k
    BY <1>1, <1>3, LiftOfX
  <2>3. RecoverFromPrehash(in.z, X(k), in.s, in.v - 27) = Ok(<<"address", d>>)
    BY <1>2, <2>1, <2>2, RecoverFinds
  <2> QED BY <1>1, <1>3, <1>4, <2>1, <2>3 DEF Ecrecover
<1>5. CASE IsHigh(in.s)
  <2> DEFINE low == N - in.s
             p   == N - k
             id  == 1 - (in.v - 27)
  <2>1. low \in 1..Half /\ low >= 0 /\ p \in 1..(N - 1) /\ N - p = k
    BY <1>2, <1>5, HalfFacts DEF IsHigh
  <2>2. X(p) = X(k) /\ Lift(X(p), id) = p
    BY <1>1, <1>3, LiftOfX
  <2>3. Cong(low * p, in.z + (X(p) * d))
    <3>1. Cong(low * p, in.s * k)
      <4>1. in.s \in Int /\ k \in Int
        OBVIOUS
      <4> QED BY <4>1, NegatedProduct
    <3>2. low * p \in Int /\ in.s * k \in Int /\ in.z + (X(k) * d) \in Int
      BY <1>3, HalfFacts
    <3> HIDE DEF low, p
    <3> QED BY <1>2, <2>2, <3>1, <3>2, CongTrans
  <2> HIDE DEF low, p, id
  <2>4. RecoverFromPrehash(in.z, X(p), low, id) = Ok(<<"address", d>>)
    BY <2>1, <2>2, <2>3, RecoverFinds
  <2>5. Ecrecover(in) = RecoverFromPrehash(in.z, in.r, low, id)
    BY <1>1, <1>3, <1>5, <2>1 DEF Ecrecover, low, id
  <2> QED BY <1>1, <2>2, <2>4, <2>5
<1> QED BY <1>4, <1>5

\* What the library finds has the equation of a signature.
LEMMA RecoveredEquation ==
  ASSUME NEW z \in Int, NEW r \in Int, NEW low \in Int, NEW id \in {0, 1}, NEW q,
         RecoverFromPrehash(z, r, low, id) = Ok(<<"address", q>>)
  PROVE  /\ r \in 1..Half
         /\ low \in 1..Half
         /\ Lift(r, id) \in 1..(N - 1) /\ X(Lift(r, id)) = r
         /\ q \in 1..(N - 1)
         /\ Cong(z + (r * q), low * Lift(r, id))
<1> DEFINE p == Lift(r, id)
           found == (InvMod(r) * ((low * p) - z)) % N
<1>1. r \in 1..(N - 1) /\ low \in 1..Half /\ p # 0 /\ found # 0 /\ q = found
  <2>1. RecoverFromPrehash(z, r, low, id)
           = IF r \notin 1..(N - 1) \/ low \notin 1..Half \/ p = 0 \/ found = 0 THEN Err
             ELSE Ok(<<"address", found>>)
    BY DEF RecoverFromPrehash
  <2> HIDE DEF p, found
  <2>2. Err # Ok(<<"address", q>>)
    BY DEF Err, Ok
  <2>3. ASSUME Ok(<<"address", found>>) = Ok(<<"address", q>>)
        PROVE  found = q
    BY <2>3 DEF Ok
  <2> QED BY <2>1, <2>2, <2>3
<1>2. r \in 1..Half
  BY <1>1 DEF Lift
<1>3. p \in 1..(N - 1) /\ X(p) = r
  BY <1>2, XOfLift
<1> HIDE DEF p
<1> DEFINE t == (low * p) - z
           i == InvMod(r)
<1>4. t \in Int /\ i \in 1..(N - 1) /\ Cong(i * r, 1) /\ i * t \in Int
  BY <1>1, <1>3, InvModFacts
<1>5. q \in 1..(N - 1) /\ Cong(q, i * t)
  <2>1. found = (i * t) % N
    OBVIOUS
  <2> HIDE DEF t, i, found
  <2>2. (i * t) % N \in 0..(N - 1) /\ Cong((i * t) % N, i * t)
    BY <1>4, CongMod
  <2> QED BY <1>1, <2>1, <2>2
<1> HIDE DEF t, i, found
<1>6. Cong(r * q, r * (i * t))
  BY <1>4, <1>5, CongRefl, CongProd
<1>7. Cong((i * r) * t, 1 * t)
  <2>1. Cong(t, t) /\ i * r \in Int /\ 1 \in Int
    BY <1>4, CongRefl
  <2> QED BY <1>4, <2>1, CongProd
<1>8. /\ r * (i * t) = (i * r) * t /\ 1 * t = t
      /\ r * q \in Int /\ (i * r) * t \in Int
  BY <1>4, <1>5
<1>9. Cong(r * q, t)
  BY <1>4, <1>6, <1>7, <1>8, CongTrans
<1>10. Cong(z + (r * q), z + t)
  <2>1. Cong(z, z)
    BY CongRefl
  <2> QED BY <1>4, <1>8, <1>9, <2>1, CongSum
<1>11. z + t = low * p
  BY <1>1, <1>3 DEF t
<1> QED BY <1>1, <1>2, <1>3, <1>5, <1>10, <1>11 DEF p

\* A key with the equation of the signature verifies it.
LEMMA EquationVerifies ==
  ASSUME NEW z \in Int, NEW s \in 1..(N - 1), NEW p \in 1..(N - 1), NEW q \in 1..(N - 1),
         X(p) \in Int, Cong(z + (X(p) * q), s * p)
  PROVE  Verify(q, z, X(p), s)
<1> DEFINE t == z + (X(p) * q)
<1>1. t \in Int /\ InvMod(s) * t \in Int
  BY InvModFacts
<1> HIDE DEF t
<1>2. Cong(InvMod(s) * t, p)
  <2>1. Cong(t, s * p) /\ p \in Int
    BY DEF t
  <2> QED BY <1>1, <2>1, InvModCancels
<1>3. p \in 0..(N - 1)
  OBVIOUS
<1>4. (InvMod(s) * t) % N = p
  BY <1>1, <1>2, <1>3, ModOfCong
<1>5. (InvMod(s) * (z + (X(p) * q))) % N = p
  BY <1>4 DEF t
<1> QED BY <1>5 DEF Verify

\* Nobody else is found.
LEMMA FoundIsSigner ==
  ASSUME NEW in, NEW q, in.z \in Nat, in.r \in Nat, in.s \in Nat, in.v \in Nat, in.len = 128,
         Ecrecover(in) = Ok(<<"address", q>>)
  PROVE  Verify(q, in.z, in.r, in.s)
<1> DEFINE low == IF IsHigh(in.s) THEN N - in.s ELSE in.s
           id  == IF IsHigh(in.s) THEN 1 - (in.v - 27) ELSE in.v - 27
           p   == Lift(in.r, id)
<1>1. in.v \in {27, 28} /\ RecoverFromPrehash(in.z, in.r, low, id) = Ok(<<"address", q>>)
  <2>1. Ecrecover(in) = IF in.len # 128 \/ in.v \notin {27, 28} THEN Ok(ZeroWord)
                        ELSE IF low < 0 THEN Panic
                        ELSE RecoverFromPrehash(in.z, in.r, low, id)
    BY DEF Ecrecover
  <2> HIDE DEF low, id
  <2>2. Ok(ZeroWord) # Ok(<<"address", q>>)
    BY DEF Ok, ZeroWord
  <2>3. Panic # Ok(<<"address", q>>)
    BY DEF Ok, Panic
  <2> QED BY <2>1, <2>2, <2>3
<1>2. id \in {0, 1} /\ low \in Int /\ in.z \in Int /\ in.r \in Int
  BY <1>1, HalfFacts
<1>3. /\ low \in 1..Half /\ p \in 1..(N - 1) /\ X(p) = in.r /\ q \in 1..(N - 1)
      /\ Cong(in.z + (in.r * q), low * p)
  <2> HIDE DEF low, id
  <2> QED BY <1>1, <1>2, RecoveredEquation
<1> HIDE DEF id, p
<1>4. CASE ~IsHigh(in.s)
  <2>1. low = in.s /\ in.s \in 1..(N - 1)
    BY <1>3, <1>4, HalfFacts
  <2> HIDE DEF low
  <2> QED BY <1>2, <1>3, <2>1, EquationVerifies
<1>5. CASE IsHigh(in.s)
  <2>1. low = N - in.s /\ in.s \in 1..(N - 1) /\ N - p \in 1..(N - 1) /\ X(N - p) = in.r
    BY <1>3, <1>5, HalfFacts, LiftOfX
  <2>2. Cong(in.z + (in.r * q), in.s * (N - p))
    <3>1. Cong(low * p, in.s * (N - p))
      <4>1. low \in Int /\ p \in Int /\ N - low = in.s
        BY <1>2, <1>3, <2>1, HalfFacts
      <4> HIDE DEF low
      <4>2. Cong((N - low) * (N - p), low * p)
        BY <4>1, NegatedProduct
      <4>3. (N - low) * (N - p) \in Int /\ low * p \in Int
        BY <4>1, HalfFacts
      <4>4. Cong(low * p, (N - low) * (N - p))
        BY <4>2, <4>3, CongSym
      <4> QED BY <4>1, <4>4
    <3>2. in.z + (in.r * q) \in Int /\ low * p \in Int /\ in.s * (N - p) \in Int
      <4> HIDE DEF low
      <4> QED BY <1>2, <1>3, <2>1
    <3> HIDE DEF low
    <3> QED BY <1>3, <3>1, <3>2, CongTrans
  <2> HIDE DEF low
  <2>3. X(N - p) \in Int
    BY <1>2, <2>1
  <2>4. Verify(q, in.z, X(N - p), in.s)
    BY <1>2, <1>3, <2>1, <2>2, <2>3, EquationVerifies
  <2> QED BY <2>1, <2>4
<1> QED BY <1>4, <1>5

-----------------------------------------------------------------------------
(* Recursive functions *)

Steps(S) == [Nat \X S -> S]

\* What repeated steps lead to.
Iterates(f, S, base, step) ==
  /\ f \in [Nat -> S]
  /\ f[0] = base
  /\ \A n \in Nat : f[n + 1] = step[<<n, f[n]>>]

\* Repeated steps make a function.
LEMMA Iteration ==
  ASSUME NEW S, NEW base \in S, NEW step \in Steps(S)
  PROVE  \E f : Iterates(f, S, base, step)
<1> DEFINE Upto(f, n) == /\ f \in [0..n -> S]
                         /\ f[0] = base
                         /\ \A i \in 0..(n - 1) : f[i + 1] = step[<<i, f[i]>>]
           Defined == {n \in Nat : \E f : Upto(f, n)}
           part(n) == CHOOSE f : Upto(f, n)
           all == [n \in Nat |-> part(n)[n]]
<1>1. ASSUME NEW n \in Nat
      PROVE  Upto(part(n), n)
  <2>1. 0 \in Defined
    <3>1. Upto([i \in 0..0 |-> base], 0)
      OBVIOUS
    <3> QED BY <3>1
  <2>2. ASSUME NEW m \in Nat, m \in Defined
        PROVE  m + 1 \in Defined
    <3>1. PICK g : Upto(g, m)
      BY <2>2
    <3> DEFINE last == step[<<m, g[m]>>]
               h == [i \in 0..(m + 1) |-> IF i <= m THEN g[i] ELSE last]
    <3>2. last \in S
      <4>1. g[m] \in S
        BY <3>1
      <4> QED BY <4>1 DEF Steps
    <3> HIDE DEF last
    <3>3. h \in [0..(m + 1) -> S] /\ h[0] = base
      BY <3>1, <3>2
    <3>4. ASSUME NEW i \in 0..((m + 1) - 1)
          PROVE  h[i + 1] = step[<<i, h[i]>>]
      <4>1. CASE i < m
        <5>1. i \in 0..(m - 1) /\ h[i + 1] = g[i + 1] /\ h[i] = g[i]
          BY <4>1
        <5> QED BY <3>1, <5>1
      <4>2. CASE i = m
        <5>1. h[i] = g[i] /\ h[i + 1] = last
          BY <4>2
        <5> QED BY <4>2, <5>1 DEF last
      <4> QED BY <4>1, <4>2
    <3> HIDE DEF h
    <3>5. Upto(h, m + 1) /\ m + 1 \in Nat
      BY <3>3, <3>4
    <3> HIDE DEF Upto
    <3> QED BY <3>5, Zenon
  <2>3. Nat \subseteq Defined
    <3> HIDE DEF Defined
    <3> QED BY <2>1, <2>2, SetInduction
  <2> HIDE DEF Upto
  <2> QED BY <2>3
<1>2. ASSUME NEW n \in Nat, NEW f, NEW g, Upto(f, n), Upto(g, n + 1)
      PROVE  f[n] = g[n]
  <2> DEFINE Agree == {i \in Nat : i <= n => f[i] = g[i]}
  <2>1. 0 \in Agree
    BY <1>2
  <2>2. ASSUME NEW i \in Nat, i \in Agree
        PROVE  i + 1 \in Agree
    <3> SUFFICES ASSUME i + 1 <= n
                 PROVE  f[i + 1] = g[i + 1]
      OBVIOUS
    <3>1. f[i] = g[i] /\ i \in 0..(n - 1) /\ i \in 0..((n + 1) - 1)
      BY <2>2
    <3> QED BY <1>2, <3>1
  <2>3. Nat \subseteq Agree
    <3> HIDE DEF Agree
    <3> QED BY <2>1, <2>2, SetInduction
  <2> QED BY <2>3
<1>3. \A n \in Nat : all[n] = part(n)[n] /\ all[n] \in S
  <2>1. ASSUME NEW n \in Nat
        PROVE  part(n)[n] \in S
    <3> HIDE DEF part
    <3> QED BY <1>1
  <2> QED BY <2>1
<1>4. all[0] = base
  <2>1. part(0)[0] = base
    <3> HIDE DEF part
    <3> QED BY <1>1
  <2> QED BY <2>1
<1>5. ASSUME NEW n \in Nat
      PROVE  all[n + 1] = step[<<n, all[n]>>]
  <2> DEFINE f == part(n)
             g == part(n + 1)
  <2>1. Upto(f, n) /\ Upto(g, n + 1) /\ n + 1 \in Nat
    <3>1. n + 1 \in Nat
      OBVIOUS
    <3> HIDE DEF Upto, part
    <3> QED BY <1>1, <3>1
  <2>2. all[n] = f[n] /\ all[n + 1] = g[n + 1]
    BY <2>1
  <2> HIDE DEF f, g, all
  <2>3. f[n] = g[n]
    <3> HIDE DEF Upto
    <3> QED BY <1>2, <2>1
  <2>4. g[n + 1] = step[<<n, g[n]>>]
    BY <2>1
  <2> QED BY <2>2, <2>3, <2>4
<1>6. all \in [Nat -> S]
  BY <1>3
<1> HIDE DEF all
<1> QED BY <1>4, <1>5, <1>6 DEF Iterates

\* The powers of two are what their definition says.
LEMMA Pow2Facts ==
  /\ Pow2[0] = 1
  /\ \A n \in Nat : Pow2[n] \in Nat \ {0} /\ Pow2[n + 1] = 2 * Pow2[n]
<1> DEFINE P == Nat \ {0}
           step == [p \in Nat \X P |-> 2 * p[2]]
           Doubles(f) == f = [n \in Nat |-> IF n = 0 THEN 1 ELSE 2 * f[n - 1]]
<1>1. step \in Steps(P)
  BY DEF Steps
<1>2. \A n \in Nat, m \in Nat \ {0} : step[<<n, m>>] = 2 * m
  OBVIOUS
<1> HIDE DEF step
<1>3. PICK f : Iterates(f, P, 1, step)
  <2>1. 1 \in P
    OBVIOUS
  <2> HIDE DEF P
  <2> QED BY <1>1, <2>1, Iteration
<1>4. ASSUME NEW n \in Nat
      PROVE  f[n] = IF n = 0 THEN 1 ELSE 2 * f[n - 1]
  <2>1. CASE n = 0
    BY <1>3, <2>1 DEF Iterates
  <2>2. CASE n # 0
    <3>1. n - 1 \in Nat /\ (n - 1) + 1 = n
      BY <2>2
    <3>2. f[n] = step[<<n - 1, f[n - 1]>>] /\ f[n - 1] \in P
      BY <1>3, <3>1 DEF Iterates
    <3> QED BY <1>2, <2>2, <3>1, <3>2
  <2> QED BY <2>1, <2>2
<1>5. f = [n \in Nat |-> f[n]]
  BY <1>3 DEF Iterates
<1>6. Doubles(f)
  BY <1>4, <1>5
<1>7. Doubles(Pow2)
  <2>1. Pow2 = CHOOSE g : Doubles(g)
    BY DEF Pow2
  <2> HIDE DEF Doubles
  <2> QED BY <1>6, <2>1
<1>8. \A n \in Nat : Pow2[n] = IF n = 0 THEN 1 ELSE 2 * Pow2[n - 1]
  BY <1>7
<1>9. Pow2[0] = 1
  BY <1>8
<1>10. \A n \in Nat : Pow2[n + 1] = 2 * Pow2[n]
  <2> SUFFICES ASSUME NEW n \in Nat
               PROVE  Pow2[n + 1] = 2 * Pow2[n]
    OBVIOUS
  <2>1. n + 1 \in Nat /\ n + 1 # 0 /\ (n + 1) - 1 = n
    OBVIOUS
  <2> QED BY <1>8, <2>1
<1> DEFINE Positive == {n \in Nat : Pow2[n] \in Nat \ {0}}
<1>11. Nat \subseteq Positive
  <2>1. 0 \in Positive
    BY <1>9
  <2>2. ASSUME NEW n \in Nat, n \in Positive
        PROVE  n + 1 \in Positive
    BY <1>10, <2>2
  <2> HIDE DEF Positive
  <2> QED BY <2>1, <2>2, SetInduction
<1> QED BY <1>9, <1>10, <1>11

LEMMA Pow2Sum ==
  ASSUME NEW a \in Nat, NEW b \in Nat
  PROVE  Pow2[a + b] = Pow2[a] * Pow2[b]
<1> DEFINE Sums == {n \in Nat : Pow2[a + n] = Pow2[a] * Pow2[n]}
<1>1. 0 \in Sums
  BY Pow2Facts
<1>2. ASSUME NEW n \in Nat, n \in Sums
      PROVE  n + 1 \in Sums
  <2>1. a + n \in Nat /\ a + (n + 1) = (a + n) + 1
    OBVIOUS
  <2>2. Pow2[a + (n + 1)] = 2 * Pow2[a + n] /\ Pow2[n + 1] = 2 * Pow2[n]
    BY <2>1, Pow2Facts
  <2>3. Pow2[a] \in Nat /\ Pow2[n] \in Nat
    BY Pow2Facts
  <2>4. 2 * (Pow2[a] * Pow2[n]) = Pow2[a] * (2 * Pow2[n])
    BY <2>3
  <2> QED BY <1>2, <2>2, <2>4
<1>3. Nat \subseteq Sums
  <2> HIDE DEF Sums
  <2> QED BY <1>1, <1>2, SetInduction
<1> QED BY <1>3

LEMMA Pow2Monotone ==
  ASSUME NEW a \in Nat, NEW b \in Nat, a <= b
  PROVE  Pow2[a] <= Pow2[b]
<1>1. b - a \in Nat /\ a + (b - a) = b
  OBVIOUS
<1>2. Pow2[b] = Pow2[a] * Pow2[b - a]
  BY <1>1, Pow2Sum
<1>3. Pow2[a] \in Nat /\ Pow2[b - a] \in Nat /\ Pow2[b - a] >= 1
  BY <1>1, Pow2Facts
<1>4. ASSUME NEW x \in Nat, NEW y \in Nat, y >= 1
      PROVE  x <= x * y
  BY <1>4
<1> QED BY <1>2, <1>3, <1>4

\* Powers of two have no upper bound.
LEMMA Pow2Unbounded ==
  ASSUME NEW n \in Nat
  PROVE  n < Pow2[n]
<1> DEFINE Below == {i \in Nat : i < Pow2[i]}
<1>1. 0 \in Below
  BY Pow2Facts
<1>2. ASSUME NEW i \in Nat, i \in Below
      PROVE  i + 1 \in Below
  BY <1>2, Pow2Facts
<1>3. Nat \subseteq Below
  <2> HIDE DEF Below
  <2> QED BY <1>1, <1>2, SetInduction
<1> QED BY <1>3

\* A number has one length in bits.
LEMMA BitsUnique ==
  ASSUME NEW n \in Nat, NEW i \in Nat, NEW j \in Nat,
         n < Pow2[i], i = 0 \/ n >= Pow2[i - 1],
         n < Pow2[j], j = 0 \/ n >= Pow2[j - 1]
  PROVE  i = j
<1>1. ASSUME NEW a \in Nat, NEW b \in Nat, a < b, n < Pow2[a], n >= Pow2[b - 1]
      PROVE  FALSE
  <2>1. b - 1 \in Nat /\ a <= b - 1
    BY <1>1
  <2>2. Pow2[a] <= Pow2[b - 1] /\ Pow2[a] \in Nat /\ Pow2[b - 1] \in Nat
    BY <2>1, Pow2Monotone, Pow2Facts
  <2> QED BY <1>1, <2>2
<1>2. CASE i < j
  BY <1>1, <1>2
<1>3. CASE j < i
  BY <1>1, <1>3
<1> QED BY <1>2, <1>3

-----------------------------------------------------------------------------
(* Numbers and their bytes *)

LEMMA WidthFacts ==
  /\ ByteBits \in Nat \ {0} /\ HeadLen \in Nat \ {0} /\ LimbLen \in Nat \ {0} /\ MaxLen \in Nat \ {0}
  /\ Usize \in Nat /\ U64 \in Nat /\ MaxLen < Usize /\ Usize <= U64
  /\ MinGas \in Nat /\ Limit \in Nat /\ BaseCost \in Nat \ {0} /\ BaseCost <= Limit
BY WidthAssumption

LEMMA BasePowFacts ==
  /\ BasePow(0) = 1
  /\ Base \in Nat /\ Base >= 2
  /\ \A n \in Nat : BasePow(n) \in Nat \ {0} /\ BasePow(n + 1) = BasePow(n) * Base
<1>1. ByteBits \in Nat \ {0}
  BY WidthFacts
<1>2. BasePow(0) = 1
  <2>1. ByteBits * 0 = 0
    BY <1>1
  <2> QED BY <2>1, Pow2Facts DEF BasePow
<1>3. Base \in Nat /\ Base >= 2
  <2>1. Pow2[ByteBits] > ByteBits /\ Pow2[ByteBits] \in Nat
    BY <1>1, Pow2Unbounded, Pow2Facts
  <2> QED BY <1>1, <2>1 DEF Base
<1>4. ASSUME NEW n \in Nat
      PROVE  BasePow(n) \in Nat \ {0} /\ BasePow(n + 1) = BasePow(n) * Base
  <2>1. ByteBits * n \in Nat /\ ByteBits * (n + 1) = (ByteBits * n) + ByteBits
    BY <1>1
  <2> QED BY <1>1, <2>1, Pow2Facts, Pow2Sum DEF BasePow, Base
<1> QED BY <1>2, <1>3, <1>4

LEMMA ByteFacts ==
  /\ Base \in Nat /\ Base >= 2
  /\ Byte \subseteq Nat
  /\ \A b \in Byte : b < Base
BY BasePowFacts DEF Byte

\* One more byte.
LEMMA NextByte ==
  ASSUME NEW n \in Nat, NEW b \in Nat
  PROVE  (n * Base) + b \in Nat
<1>1. n * Base \in Nat
  BY ByteFacts
<1> QED BY <1>1

\* The values of the leading bytes.
Digits(v, bytes) ==
  /\ v[0] = 0
  /\ \A i \in 1..Len(bytes) : v[i] = (v[i - 1] * Base) + bytes[i]

LEMMA FromBytesDigits ==
  ASSUME NEW bytes \in Seq(Byte)
  PROVE  \E v : /\ Digits(v, bytes)
                /\ \A i \in 0..Len(bytes) : v[i] \in Nat
                /\ FromBytes(bytes) = v[Len(bytes)]
<1> DEFINE digit(n) == IF n + 1 \in 1..Len(bytes) THEN bytes[n + 1] ELSE 0
           step == [p \in Nat \X Nat |-> (p[2] * Base) + digit(p[1])]
           Value(v) == v = [i \in 0..Len(bytes) |->
                              IF i = 0 THEN 0 ELSE (v[i - 1] * Base) + bytes[i]]
           word == CHOOSE v : Value(v)
<1>1. \A n \in Nat : digit(n) \in Nat
  <2>1. \A i \in 1..Len(bytes) : bytes[i] \in Byte
    OBVIOUS
  <2> QED BY <2>1, ByteFacts
<1>2. step \in Steps(Nat)
  <2>1. ASSUME NEW n \in Nat, NEW m \in Nat
        PROVE  (m * Base) + digit(n) \in Nat
    <3> HIDE DEF digit
    <3> QED BY <1>1, NextByte
  <2> HIDE DEF digit
  <2> QED BY <2>1 DEF Steps
<1>3. \A n \in Nat, m \in Nat : step[<<n, m>>] = (m * Base) + digit(n)
  OBVIOUS
<1> HIDE DEF step
<1>4. PICK f : Iterates(f, Nat, 0, step)
  BY <1>2, Iteration
<1>5. \A n \in Nat : f[n] \in Nat /\ f[n + 1] = (f[n] * Base) + digit(n)
  <2> HIDE DEF digit
  <2> QED BY <1>3, <1>4 DEF Iterates
<1> DEFINE g == [i \in 0..Len(bytes) |-> f[i]]
<1>6. ASSUME NEW i \in 0..Len(bytes)
      PROVE  g[i] = IF i = 0 THEN 0 ELSE (g[i - 1] * Base) + bytes[i]
  <2>1. CASE i = 0
    BY <1>4, <2>1 DEF Iterates
  <2>2. CASE i # 0
    <3>1. i - 1 \in Nat /\ i - 1 \in 0..Len(bytes) /\ (i - 1) + 1 = i /\ i \in 1..Len(bytes)
      BY <2>2
    <3>2. f[i] = (f[i - 1] * Base) + bytes[i]
      BY <1>5, <3>1
    <3> QED BY <2>2, <3>1, <3>2
  <2> QED BY <2>1, <2>2
<1>7. g = [i \in 0..Len(bytes) |-> g[i]]
  OBVIOUS
<1> HIDE DEF g
<1>8. Value(g)
  BY <1>6, <1>7
<1>9. Value(word)
  <2> HIDE DEF Value
  <2> QED BY <1>8
<1>10. FromBytes(bytes) = word[Len(bytes)]
  BY DEF FromBytes
<1> HIDE DEF word
<1>11. Len(bytes) \in Nat
  OBVIOUS
<1>12. Digits(word, bytes)
  <2>1. word[0] = 0
    BY <1>9, <1>11
  <2>2. ASSUME NEW i \in 1..Len(bytes)
        PROVE  word[i] = (word[i - 1] * Base) + bytes[i]
    <3>1. i \in 0..Len(bytes) /\ i # 0
      OBVIOUS
    <3> QED BY <1>9, <3>1
  <2> QED BY <2>1, <2>2 DEF Digits
<1> DEFINE Whole == {n \in Nat : n <= Len(bytes) => word[n] \in Nat}
<1>13. Nat \subseteq Whole
  <2>1. 0 \in Whole
    BY <1>12 DEF Digits
  <2>2. ASSUME NEW n \in Nat, n \in Whole
        PROVE  n + 1 \in Whole
    <3> SUFFICES ASSUME n + 1 <= Len(bytes)
                 PROVE  word[n + 1] \in Nat
      OBVIOUS
    <3>1. n + 1 \in 1..Len(bytes) /\ (n + 1) - 1 = n
      BY <1>11
    <3>2. word[n + 1] = (word[n] * Base) + bytes[n + 1]
      BY <1>12, <3>1 DEF Digits
    <3>3. word[n] \in Nat
      BY <1>11, <2>2, <3>1
    <3>4. bytes[n + 1] \in Nat
      <4>1. bytes[n + 1] \in Byte
        BY <3>1
      <4> QED BY <4>1, ByteFacts
    <3> HIDE DEF word
    <3> QED BY <3>2, <3>3, <3>4, NextByte
  <2> HIDE DEF Whole
  <2> QED BY <2>1, <2>2, SetInduction
<1>14. \A i \in 0..Len(bytes) : word[i] \in Nat
  BY <1>13
<1> QED BY <1>10, <1>12, <1>14

\* Whatever has the digits has the value.
LEMMA FromBytesUnique ==
  ASSUME NEW bytes \in Seq(Byte), NEW w, Digits(w, bytes)
  PROVE  FromBytes(bytes) = w[Len(bytes)]
<1>1. PICK v : Digits(v, bytes) /\ FromBytes(bytes) = v[Len(bytes)]
  BY FromBytesDigits
<1>2. Len(bytes) \in Nat
  OBVIOUS
<1> DEFINE Agree == {n \in Nat : n <= Len(bytes) => v[n] = w[n]}
<1>3. 0 \in Agree
  BY <1>1 DEF Digits
<1>4. ASSUME NEW n \in Nat, n \in Agree
      PROVE  n + 1 \in Agree
  <2> SUFFICES ASSUME n + 1 <= Len(bytes)
               PROVE  v[n + 1] = w[n + 1]
    OBVIOUS
  <2>1. n + 1 \in 1..Len(bytes) /\ (n + 1) - 1 = n /\ v[n] = w[n]
    BY <1>2, <1>4
  <2> QED BY <1>1, <2>1 DEF Digits
<1>5. Len(bytes) \in Agree
  <2> HIDE DEF Agree
  <2> QED BY <1>2, <1>3, <1>4, SetInduction
<1> QED BY <1>1, <1>2, <1>5

\* A number of n bytes is below the n-th power of the base.
LEMMA FromBytesBound ==
  ASSUME NEW bytes \in Seq(Byte)
  PROVE  FromBytes(bytes) \in Nat /\ FromBytes(bytes) < BasePow(Len(bytes))
<1>1. PICK v : /\ Digits(v, bytes)
               /\ \A i \in 0..Len(bytes) : v[i] \in Nat
               /\ FromBytes(bytes) = v[Len(bytes)]
  BY FromBytesDigits
<1>2. Len(bytes) \in Nat
  OBVIOUS
<1> DEFINE Below == {n \in Nat : n <= Len(bytes) => v[n] < BasePow(n)}
<1>3. 0 \in Below
  <2>1. v[0] = 0 /\ BasePow(0) = 1
    BY <1>1, BasePowFacts DEF Digits
  <2> QED BY <2>1
<1>4. ASSUME NEW n \in Nat, n \in Below
      PROVE  n + 1 \in Below
  <2> SUFFICES ASSUME n + 1 <= Len(bytes)
               PROVE  v[n + 1] < BasePow(n + 1)
    OBVIOUS
  <2>1. n + 1 \in 1..Len(bytes) /\ (n + 1) - 1 = n /\ v[n] < BasePow(n) /\ v[n] \in Nat
    BY <1>1, <1>2, <1>4
  <2>2. v[n + 1] = (v[n] * Base) + bytes[n + 1] /\ bytes[n + 1] \in 0..(Base - 1)
    <3>1. bytes[n + 1] \in Byte
      BY <2>1
    <3>2. v[n + 1] = (v[n] * Base) + bytes[n + 1]
      BY <1>1, <2>1 DEF Digits
    <3> QED BY <3>1, <3>2 DEF Byte
  <2>3. BasePow(n + 1) = BasePow(n) * Base /\ BasePow(n) \in Nat /\ Base \in Nat
    BY BasePowFacts
  <2>4. (v[n] + 1) * Base <= BasePow(n) * Base
    BY <2>1, <2>3, MultLeft
  <2>5. (v[n] + 1) * Base = (v[n] * Base) + Base
    BY <2>1, <2>3
  <2>6. v[n] * Base \in Nat
    BY <2>1, <2>3
  <2>7. BasePow(n) * Base \in Nat
    BY <2>3
  <2> QED BY <2>2, <2>3, <2>4, <2>5, <2>6, <2>7
<1>5. Len(bytes) \in Below
  <2> HIDE DEF Below
  <2> QED BY <1>2, <1>3, <1>4, SetInduction
<1> QED BY <1>1, <1>2, <1>5

\* Zeros in front change nothing.
LEMMA FromBytesPadded ==
  ASSUME NEW bytes \in Seq(Byte), NEW n \in Nat
  PROVE  /\ Zeros(n) \o bytes \in Seq(Byte)
         /\ Len(Zeros(n) \o bytes) = n + Len(bytes)
         /\ FromBytes(Zeros(n) \o bytes) = FromBytes(bytes)
<1> DEFINE padded == Zeros(n) \o bytes
           m == Len(bytes)
<1>1. Zeros(n) \in Seq(Byte) /\ Len(Zeros(n)) = n /\ \A i \in 1..n : Zeros(n)[i] = 0
  BY ByteFacts DEF Zeros, Byte
<1>2. /\ padded \in Seq(Byte) /\ Len(padded) = n + m /\ m \in Nat
      /\ \A i \in 1..n : padded[i] = 0
      /\ \A i \in (n + 1)..(n + m) : padded[i] = bytes[i - n]
  BY <1>1
<1> HIDE DEF padded
<1>3. PICK v : Digits(v, bytes) /\ FromBytes(bytes) = v[m]
  BY FromBytesDigits
<1> DEFINE w == [i \in 0..(n + m) |-> IF i <= n THEN 0 ELSE v[i - n]]
<1>4. v[0] = 0 /\ \A i \in 1..m : v[i] = (v[i - 1] * Base) + bytes[i]
  BY <1>3 DEF Digits
<1>5. w[0] = 0
  BY <1>2
<1>6. ASSUME NEW i \in 1..(n + m)
      PROVE  w[i] = (w[i - 1] * Base) + padded[i]
  <2>1. i - 1 \in 0..(n + m) /\ i \in 0..(n + m)
    BY <1>2
  <2>2. CASE i <= n
    <3>1. w[i] = 0 /\ w[i - 1] = 0 /\ padded[i] = 0
      BY <1>2, <2>1, <2>2
    <3> QED BY <3>1, ByteFacts
  <2>3. CASE i > n
    <3>1. i - n \in 1..m /\ i \in (n + 1)..(n + m)
      BY <1>2, <2>3
    <3>2. w[i] = v[i - n] /\ padded[i] = bytes[i - n]
      BY <1>2, <2>1, <2>3, <3>1
    <3>3. w[i - 1] = v[(i - n) - 1]
      <4>1. CASE i - 1 = n
        <5>1. w[i - 1] = 0 /\ (i - n) - 1 = 0
          BY <2>1, <4>1
        <5> QED BY <1>4, <5>1
      <4>2. CASE i - 1 > n
        <5>1. (i - 1) - n = (i - n) - 1
          BY <1>2
        <5> QED BY <2>1, <4>2, <5>1
      <4> QED BY <2>3, <4>1, <4>2
    <3> HIDE DEF w
    <3> QED BY <1>4, <3>1, <3>2, <3>3
  <2> HIDE DEF w
  <2> QED BY <1>2, <2>2, <2>3
<1>7. w[n + m] = v[m]
  <2>1. CASE m = 0
    BY <1>2, <1>4, <2>1
  <2>2. CASE m # 0
    <3>1. n + m \in 0..(n + m) /\ ~(n + m <= n) /\ (n + m) - n = m
      BY <1>2, <2>2
    <3> QED BY <3>1
  <2> QED BY <2>1, <2>2
<1> HIDE DEF w
<1>8. Digits(w, padded)
  BY <1>2, <1>5, <1>6 DEF Digits
<1>9. FromBytes(padded) = w[n + m]
  BY <1>2, <1>8, FromBytesUnique
<1> QED BY <1>2, <1>3, <1>7, <1>9 DEF padded

LEMMA FromZeros ==
  ASSUME NEW n \in Nat
  PROVE  Zeros(n) \in Seq(Byte) /\ Len(Zeros(n)) = n /\ FromBytes(Zeros(n)) = 0
<1>1. Zeros(n) \in Seq(Byte) /\ Len(Zeros(n)) = n /\ \A i \in 1..n : Zeros(n)[i] = 0
  BY ByteFacts DEF Zeros, Byte
<1> DEFINE w == [i \in 0..n |-> 0]
<1>2. Digits(w, Zeros(n))
  <2>1. w[0] = 0
    OBVIOUS
  <2>2. ASSUME NEW i \in 1..n
        PROVE  w[i] = (w[i - 1] * Base) + Zeros(n)[i]
    <3>1. w[i] = 0 /\ w[i - 1] = 0 /\ Zeros(n)[i] = 0
      BY <1>1
    <3> QED BY <3>1, ByteFacts
  <2> QED BY <1>1, <2>1, <2>2 DEF Digits
<1>3. w[n] = 0
  OBVIOUS
<1> HIDE DEF w
<1> QED BY <1>1, <1>2, <1>3, FromBytesUnique

\* Dividing twice is dividing by the product.
LEMMA DivTwice ==
  ASSUME NEW v \in Nat, NEW p \in Nat \ {0}, NEW b \in Nat \ {0}
  PROVE  v \div (p * b) = (v \div p) \div b
<1> DEFINE x == v \div p
           r == v % p
           y == x \div b
           s == x % b
<1>1. x \in Int /\ r \in 0..(p - 1) /\ v = (p * x) + r
  BY DivMod
<1>2. y \in Int /\ s \in 0..(b - 1) /\ x = (b * y) + s
  BY <1>1, DivMod
<1> HIDE DEF x, r, y, s
<1>3. v = ((p * b) * y) + ((p * s) + r)
  <2>1. p * x = (p * (b * y)) + (p * s)
    BY <1>2
  <2>2. p * (b * y) = (p * b) * y
    BY <1>2
  <2>3. p * s \in Int /\ (p * b) * y \in Int
    BY <1>2
  <2> QED BY <1>1, <2>1, <2>2, <2>3
<1>4. (p * s) + r \in 0..((p * b) - 1) /\ p * b \in Nat \ {0}
  <2>1. s * p <= (b - 1) * p
    BY <1>2, MultLeft
  <2>2. s * p = p * s /\ (b - 1) * p = (p * b) - p
    BY <1>2
  <2>3. p * s \in Nat
    BY <1>2
  <2>4. p * b \in Nat \ {0}
    OBVIOUS
  <2> QED BY <1>1, <2>1, <2>2, <2>3, <2>4
<1>5. v \div (p * b) = y
  BY <1>2, <1>3, <1>4, DivModUnique
<1> QED BY <1>5 DEF x, y

LEMMA BasePowMonotone ==
  ASSUME NEW a \in Nat, NEW b \in Nat, a <= b
  PROVE  BasePow(a) <= BasePow(b)
<1>1. ByteBits \in Nat
  BY WidthFacts
<1>2. ByteBits * a \in Nat /\ ByteBits * b \in Nat /\ ByteBits * a <= ByteBits * b
  BY <1>1
<1> QED BY <1>2, Pow2Monotone DEF BasePow

\* The bytes of a number have its value, and are no more than it needs.
LEMMA ToBytesFacts ==
  ASSUME NEW v \in Nat, NEW most \in 1..MaxLen, v < BasePow(most)
  PROVE  /\ ToBytes(v) \in Seq(Byte)
         /\ Len(ToBytes(v)) \in 1..most
         /\ FromBytes(ToBytes(v)) = v
<1> DEFINE Fits(i) == v < BasePow(i) /\ (i = 1 \/ v >= BasePow(i - 1))
           n == CHOOSE i \in 1..(MaxLen + 1) : Fits(i)
<1>1. MaxLen \in Nat
  BY WidthFacts
<1>2. \E i \in 1..(MaxLen + 1) : Fits(i)
  <2> DEFINE I == {i \in 1..(MaxLen + 1) : v < BasePow(i)}
  <2>1. most \in I /\ I \subseteq Nat
    BY <1>1
  <2>2. PICK i \in I : \A j \in I : i <= j
    <3> HIDE DEF I
    <3> QED BY <2>1, LeastElement
  <2>3. ASSUME i # 1
        PROVE  v >= BasePow(i - 1)
    <3>1. i - 1 \in 1..(MaxLen + 1) /\ ~(i <= i - 1) /\ i - 1 \in Nat
      BY <1>1, <2>3
    <3>2. ~(v < BasePow(i - 1))
      BY <2>2, <3>1
    <3>3. BasePow(i - 1) \in Nat
      BY <3>1, BasePowFacts
    <3> QED BY <3>2, <3>3
  <2> QED BY <2>3
<1>3. n \in 1..(MaxLen + 1) /\ Fits(n)
  <2> HIDE DEF Fits
  <2> QED BY <1>2
<1>4. ToBytes(v) = [i \in 1..n |-> (v \div BasePow(n - i)) % Base]
  BY DEF ToBytes
<1> HIDE DEF n
<1>5. n \in 1..most
  <2> SUFFICES ASSUME n > most
               PROVE  FALSE
    BY <1>1, <1>3
  <2>1. n - 1 \in Nat /\ most \in Nat /\ most <= n - 1 /\ n # 1
    BY <1>1, <1>3
  <2>2. BasePow(most) <= BasePow(n - 1) /\ BasePow(most) \in Nat /\ BasePow(n - 1) \in Nat
    BY <2>1, BasePowMonotone, BasePowFacts
  <2> QED BY <1>3, <2>1, <2>2
<1> DEFINE w == [i \in 0..n |-> v \div BasePow(n - i)]
           bytes == ToBytes(v)
<1>6. ASSUME NEW i \in 0..n
      PROVE  v \div BasePow(n - i) \in Int /\ BasePow(n - i) \in Nat \ {0}
  <2>1. n - i \in Nat
    BY <1>5
  <2>2. BasePow(n - i) \in Nat \ {0}
    BY <2>1, BasePowFacts
  <2>3. v \div BasePow(n - i) \in Int
    <3> DEFINE d == BasePow(n - i)
    <3>1. v \in Int /\ d \in Nat \ {0}
      BY <2>2
    <3> HIDE DEF d
    <3>2. v \div d \in Int
      BY <3>1, DivMod
    <3> QED BY <3>2 DEF d
  <2> QED BY <2>2, <2>3
<1>7. /\ bytes \in Seq(Byte) /\ Len(bytes) = n
      /\ \A i \in 1..n : bytes[i] = (v \div BasePow(n - i)) % Base
  <2>1. ASSUME NEW i \in 1..n
        PROVE  (v \div BasePow(n - i)) % Base \in Byte
    <3>1. v \div BasePow(n - i) \in Int
      BY <1>6
    <3>2. Base \in Nat \ {0}
      BY ByteFacts
    <3> QED BY <3>1, <3>2, DivMod DEF Byte
  <2>2. n \in Nat
    BY <1>5
  <2> QED BY <1>4, <2>1, <2>2
<1>8. w[0] = 0
  <2>1. v < BasePow(n) /\ BasePow(n) \in Nat \ {0}
    BY <1>3, <1>6
  <2>2. v = (BasePow(n) * 0) + v /\ v \in 0..(BasePow(n) - 1)
    BY <2>1
  <2>3. v \div BasePow(n) = 0
    BY <2>1, <2>2, DivModUnique
  <2>4. w[0] = v \div BasePow(n - 0) /\ n - 0 = n
    BY <1>5
  <2> QED BY <2>3, <2>4
<1>9. ASSUME NEW i \in 1..n
      PROVE  w[i] = (w[i - 1] * Base) + bytes[i]
  <2> DEFINE p == BasePow(n - i)
             x == v \div p
  <2>1. n - i \in Nat /\ n - (i - 1) = (n - i) + 1 /\ i \in 0..n /\ i - 1 \in 0..n
    BY <1>5
  <2>2. BasePow(n - (i - 1)) = p * Base /\ p \in Nat \ {0} /\ Base \in Nat \ {0}
    BY <2>1, BasePowFacts
  <2>3. w[i] = x /\ w[i - 1] = v \div (p * Base)
    BY <2>1, <2>2
  <2>4. v \div (p * Base) = x \div Base
    BY <2>2, DivTwice
  <2>5. bytes[i] = x % Base /\ x \in Int
    BY <1>6, <1>7, <2>1
  <2> HIDE DEF p, x, w
  <2>6. x = (Base * (x \div Base)) + (x % Base) /\ x \div Base \in Int
    BY <2>2, <2>5, DivMod
  <2>7. Base * (x \div Base) = (x \div Base) * Base
    BY <2>2, <2>6
  <2> QED BY <2>3, <2>4, <2>5, <2>6, <2>7
<1>10. w[n] = v
  <2>1. n \in 0..n /\ n - n = 0
    BY <1>5
  <2>2. v \div 1 = v
    OBVIOUS
  <2> QED BY <2>1, <2>2, BasePowFacts
<1> HIDE DEF w, bytes
<1>11. Digits(w, bytes)
  BY <1>7, <1>8, <1>9 DEF Digits
<1>12. FromBytes(bytes) = v
  BY <1>7, <1>10, <1>11, FromBytesUnique
<1> QED BY <1>5, <1>7, <1>12 DEF bytes

-----------------------------------------------------------------------------
(* modexp *)

LEMMA ModPowRange ==
  ASSUME NEW b \in Nat, NEW e \in Nat, NEW m \in Nat \ {0}
  PROVE  ModPow(b, e, m) \in 0..(m - 1)
<1> DEFINE R == 0..(m - 1)
           one == 1 % m
           step == [p \in Nat \X R |-> (p[2] * b) % m]
           Power(w) == w = [i \in 0..e |-> IF i = 0 THEN 1 % m ELSE (w[i - 1] * b) % m]
           pow == CHOOSE w : Power(w)
<1>1. one \in R
  BY DivMod
<1>2. step \in Steps(R)
  <2>1. ASSUME NEW r \in R
        PROVE  (r * b) % m \in R
    <3>1. r * b \in Int
      OBVIOUS
    <3> QED BY <3>1, DivMod
  <2> HIDE DEF R
  <2> QED BY <2>1 DEF Steps
<1>3. \A n \in Nat, r \in R : step[<<n, r>>] = (r * b) % m
  OBVIOUS
<1> HIDE DEF step
<1>4. PICK f : Iterates(f, R, one, step)
  <2> HIDE DEF R, one
  <2> QED BY <1>1, <1>2, Iteration
<1>5. f[0] = one /\ \A n \in Nat : f[n] \in R /\ f[n + 1] = (f[n] * b) % m
  <2> HIDE DEF R, one
  <2> QED BY <1>3, <1>4 DEF Iterates
<1> DEFINE g == [i \in 0..e |-> f[i]]
<1>6. ASSUME NEW i \in 0..e
      PROVE  g[i] = IF i = 0 THEN 1 % m ELSE (g[i - 1] * b) % m
  <2>1. CASE i = 0
    BY <1>5, <2>1
  <2>2. CASE i # 0
    <3>1. i - 1 \in Nat /\ i - 1 \in 0..e /\ (i - 1) + 1 = i
      BY <2>2
    <3> QED BY <1>5, <2>2, <3>1
  <2> QED BY <2>1, <2>2
<1>7. g = [i \in 0..e |-> g[i]]
  OBVIOUS
<1> HIDE DEF g
<1>8. Power(g)
  BY <1>6, <1>7
<1>9. Power(pow)
  <2> HIDE DEF Power
  <2> QED BY <1>8
<1>10. ModPow(b, e, m) = pow[e]
  BY DEF ModPow
<1> HIDE DEF pow
<1> DEFINE Small == {n \in Nat : n <= e => pow[n] \in R}
<1>11. 0 \in Small
  BY <1>1, <1>9
<1>12. ASSUME NEW n \in Nat, n \in Small
       PROVE  n + 1 \in Small
  <2> SUFFICES ASSUME n + 1 <= e
               PROVE  pow[n + 1] \in R
    OBVIOUS
  <2>1. n + 1 \in 0..e /\ n + 1 # 0 /\ (n + 1) - 1 = n
    OBVIOUS
  <2>2. pow[n + 1] = (pow[n] * b) % m
    BY <1>9, <2>1
  <2>3. pow[n] * b \in Int
    BY <1>12
  <2> QED BY <2>2, <2>3, DivMod
<1>13. e \in Small
  <2> HIDE DEF Small
  <2> QED BY <1>11, <1>12, SetInduction
<1> QED BY <1>10, <1>13

LEMMA SliceFacts ==
  ASSUME NEW s \in Seq(Byte), NEW from \in Nat, NEW n \in Nat, from + n <= Len(s)
  PROVE  /\ Slice(s, from, n) \in Seq(Byte)
         /\ Len(Slice(s, from, n)) = n
         /\ \A i \in 1..n : Slice(s, from, n)[i] = s[from + i]
BY DEF Slice

\* What modexp reads out of an input.
ModexpInput(in) ==
  /\ in.short \in BOOLEAN
  /\ in.b \in Nat /\ in.e \in Nat /\ in.m \in Nat
  /\ in.data \in Seq(Byte)

LEMMA LengthsFacts ==
  ASSUME NEW in, ModexpInput(in), NEW bound \in Nat \ {0}
  PROVE  /\ Lengths(in, bound).b \in Nat
         /\ Lengths(in, bound).e \in Nat
         /\ Lengths(in, bound).m \in Nat
BY DEF Lengths, Length, ModexpInput

\* Where no length is too large, it does not matter how they are read.
LEMMA LengthsAgree ==
  ASSUME NEW in, ModexpInput(in), ~Oversized(Lengths(in, U64))
  PROVE  Lengths(in, Usize) = Lengths(in, U64)
<1>1. ASSUME NEW n \in Nat, Length(n, U64) <= MaxLen
      PROVE  Length(n, Usize) = Length(n, U64)
  BY <1>1, WidthFacts DEF Length
<1>2. U64 \in Nat \ {0}
  BY WidthFacts
<1>3. /\ Lengths(in, U64).b <= MaxLen
      /\ Lengths(in, U64).e <= MaxLen
      /\ Lengths(in, U64).m <= MaxLen
  BY <1>2, LengthsFacts, WidthFacts DEF Oversized
<1>4. /\ Length(in.b, Usize) = Length(in.b, U64)
      /\ Length(in.e, Usize) = Length(in.e, U64)
      /\ Length(in.m, Usize) = Length(in.m, U64)
  BY <1>1, <1>3 DEF Lengths, ModexpInput
<1> QED BY <1>4 DEF Lengths

\* The bytes of what modexp returns.
LEMMA ModexpOutput ==
  ASSUME NEW lm \in 0..MaxLen, NEW b \in Nat, NEW e \in Nat, NEW m \in Nat, m < BasePow(lm)
  PROVE  LET out == IF m = 0 THEN Zeros(lm) ELSE Pad(ToBytes(ModPow(b, e, m)), lm)
         IN  /\ out \in Seq(Byte)
             /\ Len(out) = lm
             /\ FromBytes(out) = IF m = 0 THEN 0 ELSE ModPow(b, e, m)
<1>1. CASE m = 0
  BY <1>1, FromZeros, WidthFacts
<1>2. CASE m # 0
  <2> DEFINE v == ModPow(b, e, m)
             bytes == ToBytes(v)
  <2>1. v \in 0..(m - 1)
    BY <1>2, ModPowRange
  <2> HIDE DEF v, bytes
  <2>2. lm \in 1..MaxLen
    BY <1>2, BasePowFacts, WidthFacts
  <2>3. v \in Nat /\ v < BasePow(lm)
    BY <2>1, <2>2, BasePowFacts
  <2>4. bytes \in Seq(Byte) /\ Len(bytes) \in 1..lm /\ FromBytes(bytes) = v
    BY <2>2, <2>3, ToBytesFacts DEF bytes
  <2>5. lm - Len(bytes) \in Nat
    BY <2>2, <2>4, WidthFacts
  <2>6. /\ Pad(bytes, lm) \in Seq(Byte)
        /\ Len(Pad(bytes, lm)) = (lm - Len(bytes)) + Len(bytes)
        /\ FromBytes(Pad(bytes, lm)) = v
    BY <2>4, <2>5, FromBytesPadded DEF Pad
  <2>7. (lm - Len(bytes)) + Len(bytes) = lm
    BY <2>2, <2>4, WidthFacts
  <2> QED BY <1>2, <2>6, <2>7 DEF bytes, v
<1> QED BY <1>1, <1>2

\* On a complete input modexp returns the power in as many bytes as the modulus has.
LEMMA ModexpComputes ==
  ASSUME NEW in, ModexpInput(in), ~in.short, ~Oversized(Lengths(in, U64)),
         NEW l, l = Lengths(in, U64), l.b + l.e + l.m <= Len(in.data),
         NEW b, b = FromBytes(Slice(in.data, 0, l.b)),
         NEW e, e = FromBytes(Slice(in.data, l.b, l.e)),
         NEW m, m = FromBytes(Slice(in.data, l.b + l.e, l.m))
  PROVE  \E out \in Seq(Byte) : /\ Modexp(in) = Ok(out)
                                /\ Len(out) = l.m
                                /\ FromBytes(out) = IF m = 0 THEN 0 ELSE ModPow(b, e, m)
<1>1. U64 \in Nat \ {0} /\ MaxLen \in Nat
  BY WidthFacts
<1>2. /\ l.b \in Nat /\ l.e \in Nat /\ l.m \in Nat
      /\ l.b <= MaxLen /\ l.e <= MaxLen /\ l.m <= MaxLen
  BY <1>1, LengthsFacts DEF Oversized
<1>3. Lengths(in, Usize) = l
  BY LengthsAgree
<1>4. in.data \in Seq(Byte) /\ Len(in.data) \in Nat
  BY DEF ModexpInput
<1>5. /\ Slice(in.data, 0, l.b) \in Seq(Byte)
      /\ Slice(in.data, l.b, l.e) \in Seq(Byte)
      /\ Slice(in.data, l.b + l.e, l.m) \in Seq(Byte)
      /\ Len(Slice(in.data, l.b + l.e, l.m)) = l.m
  <2>1. /\ 0 \in Nat /\ l.b + l.e \in Nat
        /\ 0 + l.b <= Len(in.data) /\ l.b + l.e <= Len(in.data)
        /\ (l.b + l.e) + l.m <= Len(in.data)
    BY <1>2, <1>4
  <2> QED BY <1>2, <1>4, <2>1, SliceFacts
<1>6. b \in Nat /\ e \in Nat /\ m \in Nat /\ m < BasePow(l.m)
  BY <1>5, FromBytesBound
<1> DEFINE out == IF m = 0 THEN Zeros(l.m) ELSE Pad(ToBytes(ModPow(b, e, m)), l.m)
<1>7. Modexp(in) = Ok(out)
  <2>1. ~(l.b + l.e + l.m > Len(in.data)) /\ ~Oversized(l)
    BY <1>2, <1>4
  <2> QED BY <1>3, <2>1 DEF Modexp
<1>8. l.m \in 0..MaxLen
  BY <1>1, <1>2
<1>9. /\ out \in Seq(Byte) /\ Len(out) = l.m
      /\ FromBytes(out) = IF m = 0 THEN 0 ELSE ModPow(b, e, m)
  BY <1>6, <1>8, ModexpOutput
<1> HIDE DEF out
<1> QED BY <1>7, <1>9

-----------------------------------------------------------------------------
(* The length of an exponent in bits *)

\* A number below a power of two has a length.
LEMMA BitsExist ==
  ASSUME NEW n \in Nat, NEW most \in Nat, n < Pow2[most]
  PROVE  \E k \in 0..most : n < Pow2[k] /\ (k = 0 \/ n >= Pow2[k - 1])
<1> DEFINE I == {k \in 0..most : n < Pow2[k]}
<1>1. most \in I /\ I \subseteq Nat
  OBVIOUS
<1>2. PICK k \in I : \A j \in I : k <= j
  <2> HIDE DEF I
  <2> QED BY <1>1, LeastElement
<1>3. ASSUME k # 0
      PROVE  n >= Pow2[k - 1]
  <2>1. k - 1 \in 0..most /\ ~(k <= k - 1) /\ k - 1 \in Nat
    BY <1>3
  <2>2. ~(n < Pow2[k - 1])
    BY <1>2, <2>1
  <2>3. Pow2[k - 1] \in Nat
    BY <2>1, Pow2Facts
  <2> QED BY <2>2, <2>3
<1> QED BY <1>3

LEMMA LeadingZerosFacts ==
  ASSUME NEW byte \in Byte
  PROVE  LET k == ByteBits - LeadingZeros(byte)
         IN  /\ LeadingZeros(byte) \in 0..ByteBits
             /\ k \in 0..ByteBits /\ byte < Pow2[k] /\ (k = 0 \/ byte >= Pow2[k - 1])
<1>1. ByteBits \in Nat /\ byte \in Nat /\ byte < Pow2[ByteBits]
  BY WidthFacts, ByteFacts DEF Base
<1>2. PICK k \in 0..ByteBits : byte < Pow2[k] /\ (k = 0 \/ byte >= Pow2[k - 1])
  BY <1>1, BitsExist
<1> DEFINE Zeroed(n) == byte < Pow2[ByteBits - n]
                          /\ (n = ByteBits \/ byte >= Pow2[(ByteBits - n) - 1])
           z == CHOOSE n \in 0..ByteBits : Zeroed(n)
<1>3. ByteBits - k \in 0..ByteBits /\ Zeroed(ByteBits - k)
  <2>1. ByteBits - (ByteBits - k) = k /\ ByteBits - k \in 0..ByteBits
    BY <1>1
  <2>2. k = 0 => ByteBits - k = ByteBits
    BY <1>1
  <2> QED BY <1>2, <2>1, <2>2
<1>4. z \in 0..ByteBits /\ Zeroed(z)
  <2> HIDE DEF Zeroed
  <2> QED BY <1>3
<1>5. LeadingZeros(byte) = z
  BY DEF LeadingZeros
<1> HIDE DEF z
<1>6. ByteBits - z \in 0..ByteBits /\ (z = ByteBits => ByteBits - z = 0)
  BY <1>1, <1>4
<1> QED BY <1>4, <1>5, <1>6

\* Zero bytes are worth nothing.
LEMMA FromNothing ==
  ASSUME NEW bytes \in Seq(Byte), \A i \in DOMAIN bytes : bytes[i] = 0
  PROVE  FromBytes(bytes) = 0
<1>1. bytes = Zeros(Len(bytes)) /\ Len(bytes) \in Nat
  BY DEF Zeros
<1> QED BY <1>1, FromZeros

\* The byte i, behind zeros, fixes the number up to the bytes that follow.
LEMMA FromLeadingByte ==
  ASSUME NEW bytes \in Seq(Byte), NEW i \in DOMAIN bytes,
         \A j \in DOMAIN bytes : j < i => bytes[j] = 0
  PROVE  /\ FromBytes(bytes) \in Nat
         /\ bytes[i] * BasePow(Len(bytes) - i) <= FromBytes(bytes)
         /\ FromBytes(bytes) < (bytes[i] + 1) * BasePow(Len(bytes) - i)
<1> DEFINE n == Len(bytes)
           c == bytes[i]
<1>1. PICK v : /\ Digits(v, bytes)
               /\ \A j \in 0..n : v[j] \in Nat
               /\ FromBytes(bytes) = v[n]
  BY FromBytesDigits
<1>2. n \in Nat /\ i \in 1..n /\ c \in Nat
  <2>1. n \in Nat /\ i \in 1..n /\ c \in Byte
    OBVIOUS
  <2> HIDE DEF c
  <2> QED BY <2>1, ByteFacts
<1>3. v[0] = 0 /\ \A j \in 1..n : v[j] = (v[j - 1] * Base) + bytes[j]
  BY <1>1 DEF Digits
<1> DEFINE Nil == {j \in Nat : j < i => v[j] = 0}
<1>4. i - 1 \in Nil
  <2>1. 0 \in Nil
    BY <1>3
  <2>2. ASSUME NEW j \in Nat, j \in Nil
        PROVE  j + 1 \in Nil
    <3> SUFFICES ASSUME j + 1 < i
                 PROVE  v[j + 1] = 0
      OBVIOUS
    <3>1. j + 1 \in 1..n /\ (j + 1) - 1 = j /\ v[j] = 0
      BY <1>2, <2>2
    <3>2. bytes[j + 1] = 0
      BY <1>2, <3>1
    <3>3. v[j + 1] = (0 * Base) + 0
      BY <1>3, <3>1, <3>2
    <3> QED BY <3>3, ByteFacts
  <2>3. i - 1 \in Nat
    BY <1>2
  <2> HIDE DEF Nil
  <2> QED BY <2>1, <2>2, <2>3, SetInduction
<1>5. v[i] = c
  <2>1. i - 1 \in Nat /\ i - 1 < i /\ v[i] = (v[i - 1] * Base) + c
    BY <1>2, <1>3
  <2>2. v[i - 1] = 0
    BY <1>4, <2>1
  <2> QED BY <1>2, <2>1, <2>2, ByteFacts
<1> DEFINE Between == {t \in Nat : i + t <= n => /\ c * BasePow(t) <= v[i + t]
                                                 /\ v[i + t] < (c + 1) * BasePow(t)}
<1>6. 0 \in Between
  <2>1. BasePow(0) = 1 /\ i + 0 = i
    BY <1>2, BasePowFacts
  <2> HIDE DEF c
  <2>2. c * BasePow(0) = c /\ (c + 1) * BasePow(0) = c + 1
    BY <1>2, <2>1
  <2> QED BY <1>2, <1>5, <2>1, <2>2
<1>7. ASSUME NEW t \in Nat, t \in Between
      PROVE  t + 1 \in Between
  <2> SUFFICES ASSUME i + (t + 1) <= n
               PROVE  /\ c * BasePow(t + 1) <= v[i + (t + 1)]
                      /\ v[i + (t + 1)] < (c + 1) * BasePow(t + 1)
    OBVIOUS
  <2> DEFINE w == v[i + t]
             p == BasePow(t)
             d == bytes[i + (t + 1)]
  <2>1. /\ i + (t + 1) \in 1..n /\ (i + (t + 1)) - 1 = i + t
        /\ i + t <= n /\ i + t \in 0..n
    BY <1>2
  <2>2. c * p <= w /\ w < (c + 1) * p /\ w \in Nat
    BY <1>1, <1>7, <2>1
  <2>3. d \in Byte
    BY <2>1
  <2>4. d \in Nat /\ d < Base /\ Base \in Nat
    BY <2>3, ByteFacts
  <2>5. v[i + (t + 1)] = (w * Base) + d
    BY <1>3, <2>1
  <2>6. p \in Nat /\ BasePow(t + 1) = p * Base
    BY BasePowFacts
  <2> HIDE DEF w, p, d, c
  <2>7. c * p \in Int /\ (c + 1) * p \in Int
    BY <1>2, <2>6
  <2>8. (c * p) * Base <= w * Base /\ (w + 1) * Base <= ((c + 1) * p) * Base
    <3> DEFINE x == c * p
               y == (c + 1) * p
    <3>1. x \in Int /\ y \in Int /\ x <= w /\ w + 1 <= y /\ w \in Int /\ w + 1 \in Int
      BY <2>2, <2>7
    <3> HIDE DEF x, y
    <3>2. x * Base <= w * Base /\ (w + 1) * Base <= y * Base
      BY <2>4, <3>1, MultLeft
    <3> QED BY <3>2 DEF x, y
  <2>9. /\ (c * p) * Base = c * (p * Base)
        /\ ((c + 1) * p) * Base = (c + 1) * (p * Base)
        /\ (w + 1) * Base = (w * Base) + Base
        /\ w * Base \in Int /\ (c * p) * Base \in Int /\ ((c + 1) * p) * Base \in Int
    BY <1>2, <2>2, <2>4, <2>6
  <2> QED BY <2>4, <2>5, <2>6, <2>8, <2>9
<1>8. n - i \in Between
  <2>1. n - i \in Nat
    BY <1>2
  <2> HIDE DEF Between
  <2> QED BY <1>6, <1>7, <2>1, SetInduction
<1>9. i + (n - i) = n /\ n - i \in Nat /\ v[n] \in Nat
  BY <1>1, <1>2
<1> QED BY <1>1, <1>8, <1>9

\* The scan finds the length of the number in bits.
LEMMA ScanBitsFacts ==
  ASSUME NEW bytes \in Seq(Byte)
  PROVE  LET n == ScanBits(bytes)
         IN  /\ n \in 0..(ByteBits * Len(bytes))
             /\ FromBytes(bytes) < Pow2[n]
             /\ n = 0 \/ FromBytes(bytes) >= Pow2[n - 1]
<1> DEFINE ones == {i \in DOMAIN bytes : bytes[i] # 0}
           First(j) == \A k \in ones : j <= k
           i == CHOOSE j \in ones : First(j)
           len == Len(bytes)
<1>1. ByteBits \in Nat \ {0} /\ len \in Nat /\ ones \subseteq Nat
  BY WidthFacts
<1>2. CASE ones = {}
  <2>1. ScanBits(bytes) = 0
    BY <1>2 DEF ScanBits
  <2>2. FromBytes(bytes) = 0
    BY <1>2, FromNothing
  <2>3. 0 \in 0..(ByteBits * len)
    BY <1>1
  <2> QED BY <2>1, <2>2, <2>3, Pow2Facts
<1>3. CASE ones # {}
  <2>1. i \in ones /\ First(i)
    <3>1. \E j \in ones : First(j)
      <4> HIDE DEF ones
      <4> QED BY <1>1, <1>3, LeastElement
    <3> HIDE DEF First
    <3> QED BY <3>1
  <2> DEFINE c == bytes[i]
             k == ByteBits - LeadingZeros(c)
             t == len - i
             v == FromBytes(bytes)
             n == ScanBits(bytes)
  <2>2. n = (t * ByteBits) + ByteBits - LeadingZeros(c)
    BY <1>3 DEF ScanBits
  <2> HIDE DEF i
  <2>3. /\ i \in DOMAIN bytes /\ i \in 1..len /\ c \in Byte /\ c # 0
        /\ \A j \in DOMAIN bytes : j < i => bytes[j] = 0
    <3>1. i \in DOMAIN bytes /\ c # 0
      BY <2>1
    <3>2. ASSUME NEW j \in DOMAIN bytes, j < i
          PROVE  bytes[j] = 0
      <4>1. ~(i <= j)
        BY <3>1, <3>2
      <4> QED BY <2>1, <4>1
    <3> QED BY <3>1, <3>2
  <2>4. c \in Nat /\ c >= 1 /\ t \in Nat /\ t <= len - 1
    <3>1. t \in Nat /\ t <= len - 1
      BY <1>1, <2>3
    <3>2. c \in Nat
      <4> HIDE DEF c
      <4> QED BY <2>3, ByteFacts
    <3> HIDE DEF c
    <3> QED BY <2>3, <3>1, <3>2
  <2>5. v \in Nat /\ c * BasePow(t) <= v /\ v < (c + 1) * BasePow(t)
    BY <2>3, FromLeadingByte
  <2>6. k \in 0..ByteBits /\ c < Pow2[k] /\ (k = 0 \/ c >= Pow2[k - 1])
    <3> HIDE DEF c
    <3> QED BY <2>3, LeadingZerosFacts
  <2>7. k # 0
    <3> HIDE DEF c, k
    <3>1. Pow2[0] = 1
      BY Pow2Facts
    <3> QED BY <2>4, <2>6, <3>1
  <2> HIDE DEF c, t, v
  <2>8. LeadingZeros(c) = ByteBits - k
    <3>1. LeadingZeros(c) \in Int
      <4>1. c \in Byte
        BY <2>3 DEF c
      <4> QED BY <1>1, <4>1, LeadingZerosFacts
    <3> QED BY <1>1, <3>1
  <2> HIDE DEF k, n
  <2>9. n = (ByteBits * t) + k
    <3>1. t * ByteBits = ByteBits * t /\ ByteBits * t \in Int
      BY <1>1, <2>4
    <3> QED BY <1>1, <2>2, <2>6, <2>8, <3>1
  <2>10. ByteBits * t \in Nat /\ k \in Nat /\ k - 1 \in Nat
    BY <1>1, <2>4, <2>6, <2>7
  <2> DEFINE p == Pow2[ByteBits * t]
  <2>11. /\ Pow2[n] = p * Pow2[k] /\ Pow2[n - 1] = p * Pow2[k - 1]
         /\ p \in Nat /\ Pow2[k] \in Nat /\ Pow2[k - 1] \in Nat
    <3>1. n - 1 = (ByteBits * t) + (k - 1)
      BY <2>9, <2>10
    <3> DEFINE a == ByteBits * t
    <3>2. a \in Nat /\ n = a + k /\ n - 1 = a + (k - 1)
      BY <2>9, <2>10, <3>1
    <3> HIDE DEF a
    <3>3. Pow2[a + k] = Pow2[a] * Pow2[k] /\ Pow2[a + (k - 1)] = Pow2[a] * Pow2[k - 1]
      BY <2>10, <3>2, Pow2Sum
    <3>4. Pow2[a] \in Nat /\ Pow2[k] \in Nat /\ Pow2[k - 1] \in Nat
      BY <2>10, <3>2, Pow2Facts
    <3> QED BY <3>2, <3>3, <3>4 DEF a
  <2>12. BasePow(t) = p
    BY DEF BasePow
  <2> HIDE DEF p
  <2>13. (c + 1) * p <= Pow2[k] * p /\ Pow2[k - 1] * p <= c * p
    <3> DEFINE x == Pow2[k]
               y == Pow2[k - 1]
    <3>1. /\ x \in Int /\ y \in Int /\ c \in Int /\ c + 1 \in Int /\ p \in Nat
          /\ c + 1 <= x /\ y <= c
      BY <2>4, <2>6, <2>7, <2>11
    <3> HIDE DEF x, y
    <3>2. (c + 1) * p <= x * p /\ y * p <= c * p
      BY <3>1, MultLeft
    <3> QED BY <3>2 DEF x, y
  <2>14. v < Pow2[n] /\ v >= Pow2[n - 1]
    <3>1. /\ Pow2[k] * p = p * Pow2[k] /\ Pow2[k - 1] * p = p * Pow2[k - 1]
          /\ (c + 1) * p \in Int /\ c * p \in Int
          /\ p * Pow2[k] \in Int /\ p * Pow2[k - 1] \in Int
      BY <2>4, <2>11
    <3> QED BY <2>5, <2>11, <2>12, <2>13, <3>1
  <2>15. n \in 0..(ByteBits * len)
    <3>1. ByteBits * t <= ByteBits * (len - 1) /\ ByteBits * (len - 1) = (ByteBits * len) - ByteBits
      <4>1. ASSUME NEW a \in Nat, NEW b \in Int, NEW d \in Int, b <= d - 1
            PROVE  a * b <= a * (d - 1) /\ a * (d - 1) = (a * d) - a
        BY <4>1
      <4>2. ByteBits \in Nat /\ t \in Int /\ len \in Int /\ t <= len - 1
        BY <1>1, <2>4
      <4> HIDE DEF len
      <4> QED BY <4>1, <4>2
    <3>2. ByteBits * len \in Int
      BY <1>1
    <3> QED BY <1>1, <2>6, <2>9, <2>10, <3>1, <3>2
  <2> QED BY <2>14, <2>15 DEF v, n
<1> QED BY <1>2, <1>3

\* The scan agrees with the definition of the length.
LEMMA BitLengthIsScan ==
  ASSUME NEW bytes \in Seq(Byte), Len(bytes) <= MaxLen
  PROVE  BitLength(FromBytes(bytes)) = ScanBits(bytes)
<1> DEFINE v == FromBytes(bytes)
           n == ScanBits(bytes)
           Bits(i) == v < Pow2[i] /\ (i = 0 \/ v >= Pow2[i - 1])
           i == CHOOSE j \in 0..(ByteBits * MaxLen) : Bits(j)
<1>1. v \in Nat
  BY FromBytesBound
<1>2. n \in 0..(ByteBits * Len(bytes)) /\ Bits(n)
  BY ScanBitsFacts
<1>3. /\ ByteBits \in Nat /\ MaxLen \in Nat /\ Len(bytes) \in Nat
      /\ ByteBits * Len(bytes) \in Nat /\ ByteBits * MaxLen \in Nat
      /\ ByteBits * Len(bytes) <= ByteBits * MaxLen
  BY WidthFacts
<1>4. n \in 0..(ByteBits * MaxLen)
  BY <1>2, <1>3
<1>5. i \in 0..(ByteBits * MaxLen) /\ Bits(i)
  <2> HIDE DEF Bits, n
  <2> QED BY <1>2, <1>4
<1>6. BitLength(v) = i
  BY DEF BitLength
<1>7. i = n
  <2>1. i \in Nat /\ n \in Nat
    BY <1>2, <1>3, <1>5
  <2> HIDE DEF i, n, v
  <2> QED BY <1>1, <1>2, <1>5, <2>1, BitsUnique
<1> QED BY <1>6, <1>7

-----------------------------------------------------------------------------
(* The cost of modexp *)

LEMMA DivCeilFacts ==
  ASSUME NEW a \in Nat, NEW b \in Nat, NEW n \in Nat \ {0}, a <= b
  PROVE  DivCeil(a, n) \in Nat /\ DivCeil(b, n) \in Nat /\ DivCeil(a, n) <= DivCeil(b, n)
<1>1. ASSUME NEW x \in Nat
      PROVE  DivCeil(x, n) \in Nat
  <2>1. (x + n) - 1 \in Nat
    OBVIOUS
  <2>2. ((x + n) - 1) \div n \in Nat
    <3> DEFINE y == (x + n) - 1
    <3>1. y \div n \in Int /\ y % n \in 0..(n - 1) /\ y = (n * (y \div n)) + (y % n)
      BY <2>1, DivMod
    <3> DEFINE q == y \div n
    <3> HIDE DEF q
    <3>2. ASSUME q <= -1
          PROVE  FALSE
      <4>1. n * q <= 0 - n
        BY <3>1, <3>2 DEF q
      <4> QED BY <2>1, <3>1, <4>1 DEF q
    <3> QED BY <3>1, <3>2 DEF q
  <2> QED BY <2>2 DEF DivCeil
<1> DEFINE y == (a + n) - 1
           z == (b + n) - 1
           q == y \div n
           r == z \div n
<1>2. y \in Nat /\ z \in Nat /\ y <= z
  OBVIOUS
<1>3. /\ q \in Int /\ y % n \in 0..(n - 1) /\ y = (n * q) + (y % n)
      /\ r \in Int /\ z % n \in 0..(n - 1) /\ z = (n * r) + (z % n)
  <2> HIDE DEF y, z
  <2> QED BY <1>2, DivMod
<1>4. DivCeil(a, n) = q /\ DivCeil(b, n) = r
  BY DEF DivCeil
<1> HIDE DEF y, z, q, r
<1>5. q <= r
  <2> SUFFICES ASSUME q >= r + 1
               PROVE  FALSE
    BY <1>3
  <2>1. n * (r + 1) <= n * q /\ n * (r + 1) = (n * r) + n
    BY <1>3
  <2>2. n * q \in Int /\ n * r \in Int
    BY <1>3
  <2> QED BY <1>2, <1>3, <2>1, <2>2
<1> QED BY <1>1, <1>4, <1>5

LEMMA MaxOfFacts ==
  ASSUME NEW a \in Int, NEW b \in Int
  PROVE  /\ MaxOf(a, b) \in {a, b}
         /\ a <= MaxOf(a, b) /\ b <= MaxOf(a, b)
         /\ MaxOf(a, b) = MaxOf(b, a)
BY DEF MaxOf

\* The most iterations any exponent is worth.
MostIterations == 16 * MaxLen + ByteBits * HeadLen + 1

LEMMA IterationBound ==
  ASSUME NEW in, ModexpInput(in), NEW l, l = Lengths(in, U64), ~Oversized(l)
  PROVE  IterationCount(in, l) \in 0..MostIterations /\ MostIterations \in Nat
<1>1. /\ ByteBits \in Nat \ {0} /\ HeadLen \in Nat \ {0} /\ MaxLen \in Nat /\ U64 \in Nat \ {0}
      /\ ByteBits * HeadLen \in Nat
  BY WidthFacts
<1>2. /\ l.b \in Nat /\ l.e \in Nat /\ l.e <= MaxLen
      /\ in.data \in Seq(Byte) /\ Len(in.data) \in Nat
  BY <1>1, LengthsFacts DEF Oversized, ModexpInput
<1>3. ASSUME NEW n \in 0..HeadLen, l.b + n <= Len(in.data)
      PROVE  MaxOf(ScanBits(Slice(in.data, l.b, n)) - 1, 0) \in 0..(ByteBits * HeadLen)
  <2> DEFINE s == Slice(in.data, l.b, n)
             bits == ScanBits(s)
  <2>1. n \in Nat
    BY <1>1
  <2>2. s \in Seq(Byte) /\ Len(s) = n
    BY <1>2, <1>3, <2>1, SliceFacts
  <2>3. bits \in 0..(ByteBits * n)
    BY <2>2, ScanBitsFacts
  <2>4. ByteBits * n <= ByteBits * HeadLen /\ ByteBits * n \in Nat
    <3>1. ASSUME NEW a \in Nat, NEW b \in Nat, NEW c \in Nat, b <= c
          PROVE  a * b <= a * c /\ a * b \in Nat
      BY <3>1
    <3> QED BY <1>1, <2>1, <3>1
  <2> HIDE DEF bits
  <2>5. bits - 1 \in Int /\ bits - 1 <= ByteBits * HeadLen
    BY <1>1, <2>3, <2>4
  <2> QED BY <1>1, <2>5 DEF MaxOf, bits
<1> DEFINE count == IterationCount(in, l)
<1>4. CASE l.e <= HeadLen /\ Len(in.data) >= l.b + l.e
  <2>1. count = MaxOf(ScanBits(Slice(in.data, l.b, l.e)) - 1, 0)
    BY <1>4 DEF IterationCount
  <2>2. l.e \in 0..HeadLen /\ l.b + l.e <= Len(in.data)
    BY <1>1, <1>2, <1>4
  <2>3. count \in 0..(ByteBits * HeadLen)
    BY <1>3, <2>1, <2>2
  <2> HIDE DEF count
  <2> QED BY <1>1, <2>3 DEF MostIterations, count
<1>5. CASE ~(l.e <= HeadLen /\ Len(in.data) >= l.b + l.e) /\ l.e > HeadLen
  <2> DEFINE head == IF Len(in.data) >= l.b + HeadLen
                     THEN MaxOf(ScanBits(Slice(in.data, l.b, HeadLen)) - 1, 0) ELSE 0
  <2>1. count = 16 * (l.e - HeadLen) + head
    BY <1>5 DEF IterationCount
  <2>2. head \in 0..(ByteBits * HeadLen)
    <3>1. HeadLen \in 0..HeadLen
      BY <1>1
    <3> QED BY <1>1, <1>2, <1>3, <3>1
  <2> HIDE DEF head, count
  <2> QED BY <1>1, <1>2, <1>5, <2>1, <2>2 DEF MostIterations, count
<1>6. CASE ~(l.e <= HeadLen /\ Len(in.data) >= l.b + l.e) /\ ~(l.e > HeadLen)
  <2>1. count = 1
    BY <1>6 DEF IterationCount
  <2> QED BY <1>1, <2>1 DEF MostIterations
<1> QED BY <1>1, <1>4, <1>5, <1>6 DEF MostIterations

\* What is not refused costs less than half of a u64.
LEMMA ModexpCostBound ==
  ASSUME NEW in, ModexpInput(in), in.short \/ ~Oversized(Lengths(in, U64))
  PROVE  ModexpGasCost(in) \in 0..(U64 \div 2 - 1)
<1> DEFINE l == Lengths(in, U64)
           words == DivCeil(MaxOf(l.b, l.m), LimbLen)
           most == DivCeil(MaxLen, LimbLen)
           count == MaxOf(IterationCount(in, l), 1)
<1>1. MinGas \in Nat /\ MinGas < U64 \div 2 /\ U64 \div 2 \in Int
  BY WidthFacts, CostAssumption
<1>2. CASE in.short
  BY <1>1, <1>2 DEF ModexpGasCost
<1>3. CASE ~in.short
  <2>1. ~Oversized(l)
    BY <1>3
  <2>2. U64 \in Nat \ {0} /\ LimbLen \in Nat \ {0} /\ MaxLen \in Nat
    BY WidthFacts
  <2>3. l.b \in Nat /\ l.m \in Nat /\ l.b <= MaxLen /\ l.m <= MaxLen
    BY <2>1, <2>2, LengthsFacts DEF Oversized
  <2>4. MaxOf(l.b, l.m) \in Nat /\ MaxOf(l.b, l.m) <= MaxLen
    BY <2>3 DEF MaxOf
  <2>5. words \in Nat /\ most \in Nat /\ words <= most
    <3> HIDE DEF l
    <3> QED BY <2>2, <2>4, DivCeilFacts
  <2>6. IterationCount(in, l) \in 0..MostIterations /\ MostIterations \in Nat
    BY <2>1, IterationBound
  <2>7. count \in Nat /\ count <= MostIterations
    <3>1. MostIterations >= 1
      <4>1. ByteBits \in Nat /\ HeadLen \in Nat /\ ByteBits * HeadLen \in Nat
        BY WidthFacts
      <4> QED BY <2>2, <4>1 DEF MostIterations
    <3> HIDE DEF l
    <3> QED BY <2>6, <3>1 DEF MaxOf
  <2>8. most * most * MostIterations < U64 \div 2
    BY CostAssumption DEF MostIterations
  <2>9. ModexpGasCost(in) = MaxOf(words * words * count, MinGas)
    BY <1>3, <2>1 DEF ModexpGasCost
  <2> HIDE DEF l, words, most, count
  <2>10. words * words * count \in Nat /\ words * words * count <= most * most * MostIterations
    <3>1. ASSUME NEW a \in Nat, NEW b \in Nat, NEW c \in Nat, NEW d \in Nat, a <= b, c <= d
          PROVE  a * c \in Nat /\ a * c <= b * d /\ b * d \in Nat
      <4>1. a * c <= b * c
        BY <3>1, MultLeft
      <4>2. c * b <= d * b
        BY <3>1, MultLeft
      <4>3. c * b = b * c /\ d * b = b * d /\ a * c \in Nat /\ b * c \in Nat /\ b * d \in Nat
        OBVIOUS
      <4> QED BY <4>1, <4>2, <4>3
    <3> DEFINE x == words * words
               y == most * most
    <3>2. x \in Nat /\ x <= y /\ y \in Nat
      BY <2>5, <3>1
    <3> HIDE DEF x, y
    <3>3. x * count \in Nat /\ x * count <= y * MostIterations
      BY <2>6, <2>7, <3>1, <3>2
    <3> QED BY <3>3 DEF x, y
  <2> DEFINE cost == words * words * count
  <2>11. cost \in Nat /\ cost < U64 \div 2
    <3> DEFINE bound == most * most * MostIterations
    <3>1. bound \in Int
      BY <2>5, <2>6
    <3> HIDE DEF bound, cost
    <3> QED BY <1>1, <2>8, <2>10, <3>1 DEF bound, cost
  <2> HIDE DEF cost
  <2> QED BY <1>1, <2>9, <2>11 DEF MaxOf, cost
<1> QED BY <1>2, <1>3

-----------------------------------------------------------------------------
(* Costs and results of all precompiles *)

LEMMA AsI64Facts ==
  /\ \A n \in 0..(U64 \div 2 - 1) : AsI64(n) = n
  /\ AsI64(U64 - 1) = -1
<1>1. U64 \in Nat /\ U64 >= 2
  BY WidthFacts
<1>2. ~(U64 - 1 < U64 \div 2)
  BY <1>1, DivMod
<1> QED BY <1>1, <1>2 DEF AsI64

LEMMA InputFacts ==
  ASSUME NEW in \in Inputs
  PROVE  /\ in \in Calls
         /\ in.fn \in {"ecrecover", "p256verify", "sha256", "ripemd160", "identity", "modexp",
                       "bn128_add", "bn128_mul", "bn128_pairing", "blake2f", "kzg"}
         /\ in.fn = "modexp" => ModexpInput(in)
         /\ in.fn = "ecrecover" => in.z \in Nat /\ in.r \in Nat /\ in.s \in Nat /\ in.v \in Nat
         /\ in.fn \in {"sha256", "ripemd160", "identity"} => in.len \in 0..MaxInput
         /\ in.fn = "blake2f" => in.rounds \in 0..(U64 \div 2 - 1)
         /\ in.fn = "bn128_pairing" => Len(in.pairs) \in 0..MaxInput
         /\ in.fn = "bn128_add" => in.p1 \in Coordinates /\ in.p2 \in Coordinates
         /\ in.fn = "bn128_mul" => in.p1 \in Coordinates /\ in.scalar \in Nat
<1>1. in \in Calls /\ (in.fn = "bn128_pairing" => 192 * Len(in.pairs) <= MaxInput)
  BY InputAssumption
<1>2. CASE in \in [ fn: {"ecrecover"}, len: 0..MaxInput, z: Nat, r: Nat, s: Nat, v: Nat ]
  BY <1>1, <1>2
<1>3. CASE in \in [ fn: {"p256verify"}, len: 0..MaxInput, z: Nat, r: Nat, s: Nat, q: 0..(N - 1) ]
  BY <1>1, <1>3
<1>4. CASE in \in [ fn: {"sha256", "ripemd160", "identity"}, len: 0..MaxInput ]
  BY <1>1, <1>4
<1>5. CASE in \in [ fn: {"modexp"}, short: BOOLEAN, b: Nat, e: Nat, m: Nat, data: Seq(Byte) ]
  BY <1>1, <1>5 DEF ModexpInput
<1>6. CASE in \in [ fn: {"bn128_add"}, p1: Coordinates, p2: Coordinates ]
  BY <1>1, <1>6
<1>7. CASE in \in [ fn: {"bn128_mul"}, p1: Coordinates, scalar: Nat ]
  BY <1>1, <1>7
<1>8. CASE in \in [ fn: {"bn128_pairing"}, rest: BOOLEAN, pairs: Seq(Coordinates \X Coordinates) ]
  <2>1. Len(in.pairs) \in Nat /\ in.fn = "bn128_pairing"
    BY <1>8
  <2>2. Len(in.pairs) \in 0..MaxInput
    BY <1>1, <2>1, CostAssumption
  <2> QED BY <1>1, <2>1, <2>2
<1>9. CASE in \in [ fn: {"blake2f"}, len: 0..MaxInput, rounds: 0..(U64 \div 2 - 1), final: Nat ]
  BY <1>1, <1>9
<1>10. CASE in \in [ fn: {"kzg"}, len: 0..MaxInput, z: Nat, y: Nat,
                     commitment: -1..(N - 1), proof: -1..(N - 1) ]
  BY <1>1, <1>10
<1> QED BY <1>1, <1>2, <1>3, <1>4, <1>5, <1>6, <1>7, <1>8, <1>9, <1>10 DEF Calls

\* modexp is the only one whose cost is not what its function says, and that cost
\* is the -1 of an input that is refused.
LEMMA ModexpCosts ==
  ASSUME NEW in \in Inputs, in.fn = "modexp"
  PROVE  IF ~in.short /\ Oversized(Lengths(in, U64))
         THEN GasCost(in) = -1
         ELSE GasCost(in) = ModexpGasCost(in) /\ ModexpGasCost(in) \in Nat
<1>1. GasCost(in) = AsI64(ModexpGasCost(in)) /\ ModexpInput(in)
  BY InputFacts DEF GasCost
<1>2. CASE ~in.short /\ Oversized(Lengths(in, U64))
  <2>1. ModexpGasCost(in) = U64 - 1
    BY <1>2 DEF ModexpGasCost
  <2> QED BY <1>1, <1>2, <2>1, AsI64Facts
<1>3. CASE ~(~in.short /\ Oversized(Lengths(in, U64)))
  <2>1. in.short \/ ~Oversized(Lengths(in, U64))
    BY <1>1, <1>3 DEF ModexpInput
  <2>2. ModexpGasCost(in) \in 0..(U64 \div 2 - 1)
    BY <1>1, <2>1, ModexpCostBound
  <2>3. ModexpGasCost(in) \in Nat
    BY <2>2
  <2> HIDE DEF ModexpGasCost
  <2> QED BY <1>1, <1>3, <2>2, <2>3, AsI64Facts
<1> QED BY <1>2, <1>3

LEMMA CostAtLeast ==
  ASSUME NEW in \in Inputs
  PROVE  GasCost(in) \in Int /\ GasCost(in) >= -1
<1> DEFINE Half64 == U64 \div 2
           Cheap(n) == n \in 0..(Half64 - 1)
<1>1. /\ Half64 \in Nat /\ MaxInput \in Nat
      /\ 50000 + 34000 * MaxInput < Half64
  BY WidthFacts, CostAssumption
<1>2. ASSUME NEW n, Cheap(n), GasCost(in) = AsI64(n)
      PROVE  GasCost(in) \in Int /\ GasCost(in) >= -1
  BY <1>1, <1>2, AsI64Facts
<1> HIDE DEF Half64
<1>3. ASSUME NEW len \in 0..MaxInput
      PROVE  Words(len) \in 0..MaxInput
  BY <1>1, <1>3 DEF Words, DivCeil
<1>4. CASE in.fn = "modexp"
  BY <1>4, ModexpCosts
<1>5. CASE in.fn = "ecrecover"
  <2>1. GasCost(in) = AsI64(3000) /\ Cheap(3000)
    BY <1>1, <1>5 DEF GasCost
  <2> QED BY <1>2, <2>1
<1>6. CASE in.fn = "sha256"
  <2>1. GasCost(in) = AsI64(60 + 12 * Words(in.len)) /\ in.len \in 0..MaxInput
    BY <1>6, InputFacts DEF GasCost
  <2>2. Cheap(60 + 12 * Words(in.len))
    BY <1>1, <1>3, <2>1
  <2> QED BY <1>2, <2>1, <2>2
<1>7. CASE in.fn = "ripemd160"
  <2>1. GasCost(in) = AsI64(600 + 120 * Words(in.len)) /\ in.len \in 0..MaxInput
    BY <1>7, InputFacts DEF GasCost
  <2>2. Cheap(600 + 120 * Words(in.len))
    BY <1>1, <1>3, <2>1
  <2> QED BY <1>2, <2>1, <2>2
<1>8. CASE in.fn = "identity"
  <2>1. GasCost(in) = AsI64(15 + 3 * Words(in.len)) /\ in.len \in 0..MaxInput
    BY <1>8, InputFacts DEF GasCost
  <2>2. Cheap(15 + 3 * Words(in.len))
    BY <1>1, <1>3, <2>1
  <2> QED BY <1>2, <2>1, <2>2
<1>9. CASE in.fn = "bn128_add"
  <2>1. GasCost(in) = AsI64(150) /\ Cheap(150)
    BY <1>1, <1>9 DEF GasCost
  <2> QED BY <1>2, <2>1
<1>10. CASE in.fn = "bn128_mul"
  <2>1. GasCost(in) = AsI64(6000) /\ Cheap(6000)
    BY <1>1, <1>10 DEF GasCost
  <2> QED BY <1>2, <2>1
<1>11. CASE in.fn = "bn128_pairing"
  <2>1. GasCost(in) = AsI64(45000 + 34000 * Len(in.pairs)) /\ Len(in.pairs) \in 0..MaxInput
    BY <1>11, InputFacts DEF GasCost
  <2>2. Cheap(45000 + 34000 * Len(in.pairs))
    BY <1>1, <2>1
  <2> QED BY <1>2, <2>1, <2>2
<1>12. CASE in.fn = "blake2f"
  <2>1. GasCost(in) = AsI64(Blake2fGasCost(in)) /\ in.rounds \in 0..(Half64 - 1)
    BY <1>12, InputFacts DEF GasCost, Half64
  <2>2. Cheap(Blake2fGasCost(in))
    BY <1>1, <2>1 DEF Blake2fGasCost
  <2> QED BY <1>2, <2>1, <2>2
<1>13. CASE in.fn = "kzg"
  <2>1. GasCost(in) = AsI64(50000) /\ Cheap(50000)
    BY <1>1, <1>13 DEF GasCost
  <2> QED BY <1>2, <2>1
<1>14. CASE in.fn = "p256verify"
  <2>1. GasCost(in) = AsI64(6900) /\ Cheap(6900)
    BY <1>1, <1>14 DEF GasCost
  <2> QED BY <1>2, <2>1
<1> QED BY <1>4, <1>5, <1>6, <1>7, <1>8, <1>9, <1>10, <1>11, <1>12, <1>13, <1>14, InputFacts

-----------------------------------------------------------------------------
(* The invariant *)

\* What a frame has of a precompile is what the precompile makes of its input.
Ran == call # NoCall => call \in Inputs /\ result = Execute(call)

PrecompilesInv == TypeOK /\ Ran

LEMMA ResultKinds ==
  /\ Err[1] = "err" /\ Panic[1] = "panic" /\ Err # Panic
  /\ \A data : Ok(data)[1] = "ok" /\ Ok(data)[2] = data /\ Ok(data) # Err /\ Ok(data) # Panic
  /\ \A a, b : Ok(a) = Ok(b) => a = b
BY DEF Ok, Err, Panic

Finished(r) == r = Err \/ r = Panic \/ \E data : r = Ok(data)

LEMMA FinishedKind ==
  ASSUME NEW r, Finished(r)
  PROVE  r[1] \in {"ok", "err", "panic"}
BY ResultKinds DEF Finished

LEMMA ExecuteFinishes ==
  ASSUME NEW in \in Inputs
  PROVE  Execute(in)[1] \in {"ok", "err", "panic"}
<1>1. CASE in.fn = "ecrecover"
  <2>1. Finished(Ecrecover(in))
    BY Zenon DEF Finished, Ecrecover, RecoverFromPrehash
  <2>2. Execute(in) = Ecrecover(in)
    BY <1>1 DEF Execute
  <2> QED BY <2>1, <2>2, FinishedKind
<1>2. CASE in.fn \in {"sha256", "ripemd160", "identity"}
  <2>1. Execute(in) = Ok(<<in.fn, in.len>>)
    BY <1>2 DEF Execute
  <2> QED BY <2>1, ResultKinds
<1>3. CASE in.fn = "modexp"
  <2>1. Finished(Modexp(in))
    BY Zenon DEF Finished, Modexp
  <2>2. Execute(in) = Modexp(in)
    BY <1>3 DEF Execute
  <2> QED BY <2>1, <2>2, FinishedKind
<1>4. CASE in.fn = "bn128_add"
  <2>1. Finished(Bn128Add(in))
    BY Zenon DEF Finished, Bn128Add
  <2>2. Execute(in) = Bn128Add(in)
    BY <1>4 DEF Execute
  <2> QED BY <2>1, <2>2, FinishedKind
<1>5. CASE in.fn = "bn128_mul"
  <2>1. Finished(Bn128Mul(in))
    BY Zenon DEF Finished, Bn128Mul
  <2>2. Execute(in) = Bn128Mul(in)
    BY <1>5 DEF Execute
  <2> QED BY <2>1, <2>2, FinishedKind
<1>6. CASE in.fn = "bn128_pairing"
  <2>1. Finished(Bn128Pairing(in))
    BY Zenon DEF Finished, Bn128Pairing
  <2>2. Execute(in) = Bn128Pairing(in)
    BY <1>6 DEF Execute
  <2> QED BY <2>1, <2>2, FinishedKind
<1>7. CASE in.fn = "blake2f"
  <2> DEFINE state == <<"blake", [i \in 1..in.rounds |-> Sigma(i - 1)], in.final # 0>>
  <2>1. Finished(Blake2f(in))
    <3>1. Blake2f(in) = IF in.len # 213 THEN Err ELSE Ok(state)
      BY Zenon DEF Blake2f
    <3> HIDE DEF state
    <3> QED BY <3>1, Zenon DEF Finished
  <2>2. Execute(in) = Blake2f(in)
    BY <1>7 DEF Execute
  <2> QED BY <2>1, <2>2, FinishedKind
<1>8. CASE in.fn = "kzg"
  <2>1. Finished(KzgPointEvaluation(in))
    BY Zenon DEF Finished, KzgPointEvaluation
  <2>2. Execute(in) = KzgPointEvaluation(in)
    BY <1>8 DEF Execute
  <2> QED BY <2>1, <2>2, FinishedKind
<1>9. CASE in.fn = "p256verify"
  <2>1. Finished(P256verify(in))
    BY Zenon DEF Finished, P256verify
  <2>2. Execute(in) = P256verify(in)
    BY <1>9 DEF Execute
  <2> QED BY <2>1, <2>2, FinishedKind
<1> QED BY <1>1, <1>2, <1>3, <1>4, <1>5, <1>6, <1>7, <1>8, <1>9, InputFacts

\* A cost of -1 takes no more than the instruction has covered.
LEMMA ChargeWithinLimit ==
  ASSUME TypeOK, BaseCost <= Limit - used,
         NEW cost \in Int, cost >= -1, Charge(cost)
  PROVE  used' \in 0..Limit /\ status' \in {"running", "halted", "panicked"}
<1>1. used \in Nat /\ used <= Limit /\ Limit \in Nat /\ BaseCost \in Nat /\ BaseCost >= 1
  BY WidthFacts DEF TypeOK
<1>2. CASE cost > Limit - used \/ BaseCost > Limit - used - cost
  BY <1>1, <1>2 DEF Charge
<1>3. CASE ~(cost > Limit - used \/ BaseCost > Limit - used - cost)
  <2>1. used' = used + cost + BaseCost /\ status' = status
    BY <1>3 DEF Charge
  <2>2. used + cost + BaseCost \in 0..Limit
    BY <1>1, <1>3
  <2> QED BY <2>1, <2>2 DEF TypeOK
<1> QED BY <1>2, <1>3

LEMMA InitInv == Init => PrecompilesInv
<1> SUFFICES ASSUME Init
             PROVE  PrecompilesInv
  OBVIOUS
<1>1. result[1] = "ok" /\ used \in 0..Limit
  BY ResultKinds, WidthFacts DEF Init
<1> QED BY <1>1 DEF Init, PrecompilesInv, TypeOK, Ran

LEMMA CallKeepsInv ==
  ASSUME PrecompilesInv, NEW in \in Inputs, CallPrecompile(in)
  PROVE  PrecompilesInv'
<1>1. call' = in /\ result' = Execute(in)
  BY DEF CallPrecompile
<1>2. result'[1] \in {"ok", "err", "panic"}
  BY <1>1, ExecuteFinishes
<1>3. used' \in 0..Limit /\ status' \in {"running", "halted", "panicked"}
  <2>1. CASE result' = Panic
    BY <2>1 DEF CallPrecompile, PrecompilesInv, TypeOK
  <2>2. CASE result' # Panic
    <3>1. Charge(GasCost(in)) /\ BaseCost <= Limit - used
      BY <2>2 DEF CallPrecompile
    <3>2. GasCost(in) \in Int /\ GasCost(in) >= -1
      BY CostAtLeast
    <3> QED BY <3>1, <3>2, ChargeWithinLimit DEF PrecompilesInv
  <2> QED BY <2>1, <2>2
<1>4. TypeOK'
  BY <1>2, <1>3 DEF TypeOK
<1>5. Ran'
  BY <1>1 DEF Ran
<1> QED BY <1>4, <1>5 DEF PrecompilesInv

LEMMA ReturnKeepsInv ==
  ASSUME PrecompilesInv, Return
  PROVE  PrecompilesInv'
<1>1. call' = NoCall /\ result' = Ok(<<>>) /\ used' = 0 /\ status' = "running"
  BY DEF Return
<1>2. result'[1] = "ok" /\ used' \in 0..Limit
  BY <1>1, ResultKinds, WidthFacts
<1> QED BY <1>1, <1>2 DEF PrecompilesInv, TypeOK, Ran

\* Whatever precompile ran, its result is the one of its input, and the gas of the
\* frame stays in its limit (Executor::call).
THEOREM PrecompilesInvariance == Spec => []PrecompilesInv
<1>1. Init => PrecompilesInv
  BY InitInv
<1>2. PrecompilesInv /\ [Next]_vars => PrecompilesInv'
  <2> SUFFICES ASSUME PrecompilesInv, [Next]_vars
               PROVE  PrecompilesInv'
    OBVIOUS
  <2>1. CASE Return
    BY <2>1, ReturnKeepsInv
  <2>2. CASE \E in \in Inputs : CallPrecompile(in)
    BY <2>2, CallKeepsInv
  <2>3. CASE UNCHANGED vars
    BY <2>3 DEF vars, PrecompilesInv, TypeOK, Ran
  <2> QED BY <2>1, <2>2, <2>3 DEF Next
<1> QED BY <1>1, <1>2, PTL DEF Spec

\* A call of a function is no NoCall.
LEMMA RanCall ==
  ASSUME Ran, call.fn # "none"
  PROVE  call \in Inputs /\ result = Execute(call)
BY DEF Ran, NoCall

\* The gas a frame has used never exceeds its limit and never falls below zero,
\* although a precompile runs before its cost is known to be covered, and the cost
\* of what modexp refuses is -1 (Evm::gas, gas_cost).
THEOREM PrecompilesTypeCorrect == Spec => []TypeOK
<1>1. PrecompilesInv => TypeOK
  BY DEF PrecompilesInv
<1> QED BY <1>1, PrecompilesInvariance, PTL

-----------------------------------------------------------------------------
(* ecrecover *)

LEMMA EcrecoverResult ==
  ASSUME Ran, call.fn = "ecrecover"
  PROVE  /\ call.z \in Nat /\ call.r \in Nat /\ call.s \in Nat /\ call.v \in Nat
         /\ result = Ecrecover(call)
<1>1. call \in Inputs /\ result = Execute(call)
  BY RanCall
<1>2. Execute(call) = Ecrecover(call)
  BY DEF Execute
<1> QED BY <1>1, <1>2, InputFacts

LEMMA RanRecovers == Ran => RecoversSigner
<1> SUFFICES ASSUME Ran, call.fn = "ecrecover", call.len = 128, call.s # 0
             PROVE  /\ \A d, k \in 1..(N - 1) :
                         [r |-> call.r, s |-> call.s, v |-> call.v] = Sign(d, k, call.z) =>
                           result = Ok(<<"address", d>>)
                    /\ \A q \in 1..(N - 1) :
                         result = Ok(<<"address", q>>) => Verify(q, call.z, call.r, call.s)
  BY Zenon DEF RecoversSigner
<1>1. /\ call.z \in Nat /\ call.r \in Nat /\ call.s \in Nat /\ call.v \in Nat
      /\ result = Ecrecover(call)
  BY EcrecoverResult
<1>2. ASSUME NEW d \in 1..(N - 1), NEW k \in 1..(N - 1),
             [r |-> call.r, s |-> call.s, v |-> call.v] = Sign(d, k, call.z)
      PROVE  result = Ok(<<"address", d>>)
  <2> DEFINE signed == Sign(d, k, call.z)
  <2>1. call.r = signed.r /\ call.s = signed.s /\ call.v = signed.v
    <3> HIDE DEF signed
    <3>1. [r |-> call.r, s |-> call.s, v |-> call.v] = signed
      BY <1>2 DEF signed
    <3> QED BY <3>1
  <2> QED BY <1>1, <2>1, SignerFound
<1>3. ASSUME NEW q \in 1..(N - 1), result = Ok(<<"address", q>>)
      PROVE  Verify(q, call.z, call.r, call.s)
  BY <1>1, <1>3, FoundIsSigner
<1> QED BY <1>2, <1>3

\* For a group of every prime order: whoever signs any digest with any key and any
\* nonce gets the own address back from ecrecover, and of a signature with a high
\* s too; an address that comes back has a key that verifies the signature.
THEOREM SignerAlwaysRecovered == Spec => []RecoversSigner
<1>1. PrecompilesInv => RecoversSigner
  BY RanRecovers DEF PrecompilesInv
<1> QED BY <1>1, PrecompilesInvariance, PTL

-----------------------------------------------------------------------------
(* modexp *)

LEMMA CompleteFacts ==
  ASSUME Ran, Complete
  PROVE  /\ call \in Inputs /\ call.fn = "modexp" /\ ModexpInput(call)
         /\ ~call.short /\ ~Oversized(Lengths(call, U64))
         /\ Lengths(call, U64).b + Lengths(call, U64).e + Lengths(call, U64).m <= Len(call.data)
         /\ result = Modexp(call)
         /\ Len(call.data) \in Nat
<1>1. call.fn = "modexp"
  BY DEF Complete
<1>2. call \in Inputs /\ result = Execute(call)
  BY <1>1, RanCall
<1>3. Execute(call) = Modexp(call)
  BY <1>1 DEF Execute
<1>4. ModexpInput(call)
  BY <1>1, <1>2, InputFacts
<1>5. Len(call.data) \in Nat
  BY <1>4 DEF ModexpInput
<1> QED BY <1>1, <1>2, <1>3, <1>4, <1>5 DEF Complete

LEMMA RanComputes == Ran => ModexpResult
<1> DEFINE l == Lengths(call, U64)
           b == FromBytes(Slice(call.data, 0, l.b))
           e == FromBytes(Slice(call.data, l.b, l.e))
           m == FromBytes(Slice(call.data, l.b + l.e, l.m))
<1> SUFFICES ASSUME Ran, Complete
             PROVE  /\ result[1] = "ok"
                    /\ Len(result[2]) = l.m
                    /\ FromBytes(result[2]) = IF m = 0 THEN 0 ELSE ModPow(b, e, m)
  BY Zenon DEF ModexpResult
<1>1. \E out \in Seq(Byte) : /\ Modexp(call) = Ok(out)
                             /\ Len(out) = l.m
                             /\ FromBytes(out) = IF m = 0 THEN 0 ELSE ModPow(b, e, m)
  BY CompleteFacts, ModexpComputes
<1>2. result = Modexp(call)
  BY CompleteFacts
<1> HIDE DEF l, b, e, m
<1> QED BY <1>1, <1>2, ResultKinds

\* Of every input that is complete modexp returns the power, in as many bytes as
\* the modulus has, whatever the width of a byte and the limit of the lengths.
THEOREM ModexpAlwaysRight == Spec => []ModexpResult
<1>1. PrecompilesInv => ModexpResult
  BY RanComputes DEF PrecompilesInv
<1> QED BY <1>1, PrecompilesInvariance, PTL

\* The iterations are the bits of the exponent, of its first bytes if it is long.
LEMMA IterationsAreBits ==
  ASSUME NEW in, ModexpInput(in), NEW l, l = Lengths(in, U64), ~Oversized(l),
         l.b + l.e + l.m <= Len(in.data),
         NEW head, head = FromBytes(Slice(in.data, l.b, IF l.e < HeadLen THEN l.e ELSE HeadLen))
  PROVE  IterationCount(in, l) = MaxOf(BitLength(head) - 1, 0) + 16 * MaxOf(l.e - HeadLen, 0)
<1> DEFINE n == IF l.e < HeadLen THEN l.e ELSE HeadLen
           s == Slice(in.data, l.b, n)
           bits == MaxOf(ScanBits(s) - 1, 0)
<1>1. HeadLen \in Nat \ {0} /\ MaxLen \in Nat /\ U64 \in Nat \ {0}
  BY WidthFacts
<1>2. /\ l.b \in Nat /\ l.e \in Nat /\ l.m \in Nat /\ l.e <= MaxLen
      /\ in.data \in Seq(Byte) /\ Len(in.data) \in Nat
  BY <1>1, LengthsFacts DEF Oversized, ModexpInput
<1>3. n \in Nat /\ n <= l.e /\ n <= MaxLen /\ l.b + n <= Len(in.data)
  BY <1>1, <1>2
<1>4. s \in Seq(Byte) /\ Len(s) = n
  <2> HIDE DEF n
  <2> QED BY <1>2, <1>3, SliceFacts
<1>5. BitLength(head) = ScanBits(s)
  <2>1. head = FromBytes(s)
    OBVIOUS
  <2> HIDE DEF n, s
  <2> QED BY <1>3, <1>4, <2>1, BitLengthIsScan
<1>6. bits \in Nat
  <2>1. ScanBits(s) \in Nat
    <3>1. ScanBits(s) \in 0..(ByteBits * Len(s)) /\ ByteBits * Len(s) \in Nat
      <4>1. Len(s) \in Nat /\ ByteBits \in Nat
        BY <1>3, <1>4, WidthFacts
      <4> HIDE DEF s
      <4>2. ScanBits(s) \in 0..(ByteBits * Len(s))
        BY <1>4, ScanBitsFacts
      <4> QED BY <4>1, <4>2
    <3> HIDE DEF s
    <3> QED BY <3>1
  <2> HIDE DEF s
  <2> QED BY <2>1 DEF MaxOf
<1>7. CASE l.e <= HeadLen
  <2>1. n = l.e
    BY <1>1, <1>2, <1>7
  <2>2. Len(in.data) >= l.b + l.e
    BY <1>2
  <2>3. IterationCount(in, l) = bits
    BY <1>7, <2>1, <2>2 DEF IterationCount
  <2>4. 16 * MaxOf(l.e - HeadLen, 0) = 0
    BY <1>1, <1>2, <1>7 DEF MaxOf
  <2> HIDE DEF n, s
  <2> QED BY <1>5, <1>6, <2>3, <2>4
<1>8. CASE l.e > HeadLen
  <2>1. n = HeadLen
    BY <1>1, <1>2, <1>8
  <2>2. Len(in.data) >= l.b + HeadLen /\ ~(l.e <= HeadLen)
    BY <1>1, <1>2, <1>8
  <2>3. IterationCount(in, l) = 16 * (l.e - HeadLen) + bits
    BY <1>8, <2>1, <2>2 DEF IterationCount
  <2>4. MaxOf(l.e - HeadLen, 0) = l.e - HeadLen
    BY <1>1, <1>2, <1>8 DEF MaxOf
  <2> HIDE DEF n, s, bits
  <2>5. 16 * (l.e - HeadLen) + bits = bits + 16 * (l.e - HeadLen)
    BY <1>1, <1>2, <1>6
  <2> QED BY <1>5, <2>3, <2>4, <2>5 DEF bits
<1> QED BY <1>1, <1>2, <1>7, <1>8

LEMMA RanPriced == Ran => ModexpPriced
<1> DEFINE l     == Lengths(call, U64)
           head  == FromBytes(Slice(call.data, l.b, IF l.e < HeadLen THEN l.e ELSE HeadLen))
           bits  == MaxOf(BitLength(head) - 1, 0) + 16 * MaxOf(l.e - HeadLen, 0)
           words == DivCeil(MaxOf(l.b, l.m), LimbLen)
           price == words * words * MaxOf(bits, 1)
<1> SUFFICES ASSUME Ran, Complete
             PROVE  GasCost(call) = MaxOf(MinGas, price)
  BY Zenon DEF ModexpPriced
<1>1. /\ call \in Inputs /\ call.fn = "modexp" /\ ModexpInput(call)
      /\ ~call.short /\ ~Oversized(l) /\ l.b + l.e + l.m <= Len(call.data)
  BY CompleteFacts
<1>2. IterationCount(call, l) = bits
  BY <1>1, IterationsAreBits
<1>3. ModexpGasCost(call) = MaxOf(words * words * MaxOf(IterationCount(call, l), 1), MinGas)
  BY <1>1, Zenon DEF ModexpGasCost
<1>4. ModexpGasCost(call) = MaxOf(price, MinGas)
  BY <1>2, <1>3
<1>5. GasCost(call) = ModexpGasCost(call)
  BY <1>1, ModexpCosts
<1>6. price \in Int /\ MinGas \in Int
  <2>1. l.b \in Nat /\ l.m \in Nat
    BY <1>1, WidthFacts, LengthsFacts
  <2>2. MaxOf(l.b, l.m) \in Nat /\ LimbLen \in Nat \ {0}
    BY <2>1, WidthFacts DEF MaxOf
  <2>3. words \in Nat
    <3> HIDE DEF l
    <3> QED BY <2>2, DivCeilFacts
  <2>4. bits \in Int
    <3>1. IterationCount(call, l) \in 0..MostIterations /\ MostIterations \in Nat
      BY <1>1, IterationBound
    <3> HIDE DEF bits, l
    <3> QED BY <1>2, <3>1
  <2> HIDE DEF words, bits
  <2>5. MaxOf(bits, 1) \in Int
    BY <2>4 DEF MaxOf
  <2> QED BY <2>3, <2>5, WidthFacts
<1> HIDE DEF price
<1> QED BY <1>4, <1>5, <1>6, MaxOfFacts

\* The scan of the bytes of an exponent (iteration_count) counts its bits, and 16 for
\* each byte beyond the head, for every width of a byte, length of a head and limit.
\* What one of them costs is the code's own formula.
THEOREM ModexpAlwaysPriced == Spec => []ModexpPriced
<1>1. PrecompilesInv => ModexpPriced
  BY RanPriced DEF PrecompilesInv
<1> QED BY <1>1, PrecompilesInvariance, PTL

\* What is refused has the lengths that are too large, read as they are for the
\* cost.
LEMMA RefusedIsOversized ==
  ASSUME NEW in, Usize = U64
  PROVE  Modexp(in) = Err <=> (~in.short /\ Oversized(Lengths(in, U64)))
BY ResultKinds, Zenon DEF Modexp

LEMMA RanRejects == ASSUME Usize = U64 PROVE Ran => RejectedTogether
<1> SUFFICES ASSUME Ran, call.fn = "modexp"
             PROVE  result = Err <=> GasCost(call) = AsI64(U64 - 1)
  BY Zenon DEF RejectedTogether
<1>1. call \in Inputs /\ result = Execute(call)
  BY RanCall
<1>2. result = Modexp(call)
  BY <1>1 DEF Execute
<1>3. result = Err <=> (~call.short /\ Oversized(Lengths(call, U64)))
  BY <1>2, RefusedIsOversized
<1>4. AsI64(U64 - 1) = -1
  BY AsI64Facts
<1>5. CASE ~call.short /\ Oversized(Lengths(call, U64))
  BY <1>1, <1>3, <1>4, <1>5, ModexpCosts
<1>6. CASE ~(~call.short /\ Oversized(Lengths(call, U64)))
  <2>1. GasCost(call) \in Nat
    BY <1>1, <1>6, ModexpCosts
  <2> QED BY <1>3, <1>4, <1>6, <2>1
<1> QED BY <1>5, <1>6

\* Where a usize has the width of a u64, the cost and the result read the lengths
\* alike: modexp refuses exactly what has the cost of a refused input. (It does not
\* where a usize is narrower: MCPrecompilesWasm.cfg.)
THEOREM AlwaysRejectedTogether ==
  ASSUME Usize = U64
  PROVE  Spec => []RejectedTogether
<1>1. PrecompilesInv => RejectedTogether
  BY RanRejects DEF PrecompilesInv
<1> QED BY <1>1, PrecompilesInvariance, PTL

-----------------------------------------------------------------------------
(* bn128 *)

\* What a point is encoded as is on the curve.
LEMMA EncodeOnCurve ==
  ASSUME NEW p
  PROVE  ~OffCurve(Encode(p)) /\ Encode(p).p = p
BY DEF OffCurve, Encode

LEMMA RanClosed == Ran => BnClosed
<1> SUFFICES ASSUME Ran, call.fn \in {"bn128_add", "bn128_mul"}, result[1] = "ok",
                    NEW c \in Coordinates, ~OffCurve(c)
             PROVE  Bn128Add([p1 |-> result[2], p2 |-> c])
                      = Ok(Encode((result[2].p + c.p) % N))
  BY Zenon DEF BnClosed
<1>1. call \in Inputs /\ result = Execute(call)
  BY RanCall
<1>2. \E p : result[2] = Encode(p)
  <2>1. CASE call.fn = "bn128_add"
    <3>1. result = Bn128Add(call)
      BY <1>1, <2>1 DEF Execute
    <3>2. result = Ok(Encode((call.p1.p + call.p2.p) % N))
      BY <3>1, ResultKinds DEF Bn128Add
    <3> QED BY <3>2, ResultKinds
  <2>2. CASE call.fn = "bn128_mul"
    <3>1. result = Bn128Mul(call)
      BY <1>1, <2>2 DEF Execute
    <3>2. result = Ok(Encode((call.p1.p * call.scalar) % N))
      BY <3>1, ResultKinds DEF Bn128Mul
    <3> QED BY <3>2, ResultKinds
  <2> QED BY <2>1, <2>2
<1>3. ~OffCurve(result[2])
  BY <1>2, EncodeOnCurve
<1> DEFINE in == [p1 |-> result[2], p2 |-> c]
<1>4. in.p1 = result[2] /\ in.p2 = c
  OBVIOUS
<1> HIDE DEF in
<1>5. Bn128Add(in) = Ok(Encode((in.p1.p + in.p2.p) % N))
  BY <1>3, <1>4 DEF Bn128Add
<1> QED BY <1>4, <1>5 DEF in

\* What bn128_add and bn128_mul return is on the curve for bn128_add (encode of an
\* affine point), infinity too: another call can be given it.
THEOREM BnAlwaysClosed == Spec => []BnClosed
<1>1. PrecompilesInv => BnClosed
  BY RanClosed DEF PrecompilesInv
<1> QED BY <1>1, PrecompilesInvariance, PTL
=============================================================================
