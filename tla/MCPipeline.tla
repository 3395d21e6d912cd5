----------------------------- MODULE MCPipeline -----------------------------
(***************************************************************************)
(* Finite instances of Pipeline.                                           *)
(***************************************************************************)
EXTENDS Pipeline, TLC

CONSTANTS k1, k2

TwoKeys == {k1, k2}
=============================================================================
