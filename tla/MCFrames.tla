------------------------------ MODULE MCFrames ------------------------------
(***************************************************************************)
(* Frames on a small world: u signs transactions, a and b are contracts    *)
(* (d delegates to b), c is where a creates, p is a precompile.            *)
(***************************************************************************)
EXTENDS Frames

CONSTANTS u, a, b, c, d, p, k

MCValues == {0, 1}

\* a holds one unit of value and has its only slot set.
MCGenesis ==
  [ storage |-> [s \in Slots |-> IF s[1] = a THEN 1 ELSE 0],
    balance |-> [x \in Addr |-> CASE x = u -> 2 [] x = a -> 1 [] OTHER -> 0],
    nonce   |-> [x \in Addr |-> IF x \in {a, b} THEN 1 ELSE 0],
    code    |-> [x \in Addr |-> IF x \in {a, b} THEN Contract
                                ELSE IF x = d THEN b ELSE Empty] ]

MCLocalGenesis ==
  [MCGenesis EXCEPT !.storage = [s \in Slots |-> 0]]

MCCreateAddr == [x \in Addr |-> [n \in 0..MaxNonce |-> c]]

MCCreate2Addr == [x \in Addr |-> c]
=============================================================================
