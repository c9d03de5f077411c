----------------------------- MODULE MCPrecompiles -----------------------------
(***************************************************************************)
(* Instances of module Precompiles for TLC.                                *)
(***************************************************************************)
EXTENDS Precompiles

\* Zero, one too many, and everything between.
Signatures ==
  [ fn: {"ecrecover"}, len: {128}, z: 0..(N - 1), r: 0..N, s: 0..(N + 1), v: 26..28 ]
  \cup [ fn: {"ecrecover"}, len: {127}, z: {1}, r: {1}, s: {1}, v: {27} ]
  \cup [ fn: {"p256verify"}, len: {159, 160}, z: {1, 2}, r: 0..N, s: 0..N, q: 0..(N - 1) ]

\* Lengths around HeadLen and MaxLen and beyond the integers.
Powers ==
  [ fn: {"modexp"}, short: {FALSE}, b: {0, 1, 2}, e: 0..(HeadLen + 1), m: {0, 1, 2},
    data: UNION {[1..n -> {0, 1, Base - 1}] : n \in 0..5} ]
  \cup [ fn: {"modexp"}, short: BOOLEAN, b: {0, 1, MaxLen + 1, Usize, U64},
          e: {1, MaxLen + 1, Usize, U64}, m: {1, MaxLen + 1, Usize, U64}, data: {<<>>, <<1, 2, 3>>} ]

Points ==
  [ fn: {"bn128_add"}, p1: Coordinates, p2: Coordinates ]
  \cup [ fn: {"bn128_mul"}, p1: Coordinates, scalar: 0..N ]
  \cup [ fn: {"bn128_pairing"}, rest: BOOLEAN,
          pairs: {<<>>} \cup {<< <<p, q>> >> : p, q \in {Encode(0), Encode(2), [form |-> "off", p |-> 0]}}
                   \cup {<< <<Encode(1), Encode(2)>>, <<p, q>> >> : p, q \in {Encode(1), Encode(N - 2)}} ]

Others ==
  [ fn: {"sha256", "ripemd160", "identity"}, len: {0, 1, 32, 33} ]
  \cup [ fn: {"blake2f"}, len: {0, 213}, rounds: {0, 12, 13}, final: 0..2 ]
  \cup [ fn: {"kzg"}, len: {191, 192}, z: {0, 1}, y: {0, 1}, commitment: -1..2, proof: -1..2 ]

AllInputs == Signatures \cup Powers \cup Points \cup Others
=============================================================================
