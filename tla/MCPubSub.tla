------------------------------ MODULE MCPubSub ------------------------------
(***************************************************************************)
(* Finite instances of PubSub.                                             *)
(***************************************************************************)
EXTENDS PubSub

CONSTANTS c1, c2

TwoChannels == {c1, c2}
=============================================================================
