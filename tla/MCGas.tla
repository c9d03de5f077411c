-------------------------------- MODULE MCGas --------------------------------
(***************************************************************************)
(* Instances of module Gas for TLC.                                        *)
(***************************************************************************)
EXTENDS Gas

\* No calldata.
Bare == {<<0, 0>>}

\* Calldata of a few bytes, and enough of it for the floor to matter.
Light == {<<3, 2>>}
Bulky == {<<0, 20>>}

\* Precompiles that can be paid for or not, and one whose cost is u64::MAX.
Precompiled == {3000, 30000, -1}
=============================================================================
