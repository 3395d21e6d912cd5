------------------------- MODULE MCCommandExecution -------------------------
(***************************************************************************)
(* Finite instances of CommandExecution.                                   *)
(***************************************************************************)
EXTENDS CommandExecution, TLC

CONSTANTS t1, t2

TwoThreads == {t1, t2}
NoErrors == {}
TimeoutOnly == {"timeout"}
AllErrors == {"conn", "timeout"}

Symmetry == Permutations(Threads)
=============================================================================
