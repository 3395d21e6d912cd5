------------------------------- MODULE MCLock -------------------------------
(***************************************************************************)
(* Finite instances of Lock.                                               *)
(***************************************************************************)
EXTENDS Lock, TLC

CONSTANTS t1, t2

TwoThreads == {t1, t2}
OneMore == {1}
Once == [t \in Threads |-> 1]
TwiceAndOnce == (t1 :> 2) @@ (t2 :> 1)
=============================================================================
