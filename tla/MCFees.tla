-------------------------------- MODULE MCFees --------------------------------
(***************************************************************************)
(* Instances of module Fees for TLC.                                       *)
(***************************************************************************)
EXTENDS Fees

CONSTANTS sender, contract, fresh
=============================================================================
