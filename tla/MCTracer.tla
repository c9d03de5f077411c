------------------------------- MODULE MCTracer -------------------------------
(***************************************************************************)
(* Instances of module Tracer for TLC.                                     *)
(***************************************************************************)
EXTENDS Tracer
=============================================================================
