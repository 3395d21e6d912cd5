---------------------- MODULE MCBlockingConnectionPool ----------------------
(***************************************************************************)
(* Finite instances of BlockingConnectionPool.                             *)
(***************************************************************************)
EXTENDS BlockingConnectionPool, TLC

CONSTANTS t1, t2, t3, c1, c2, c3, c4, c5

TwoThreads == {t1, t2}
ThreeThreads == {t1, t2, t3}
TwoConns == {c1, c2}
ThreeConns == {c1, c2, c3}
FiveConns == {c1, c2, c3, c4, c5}

\* Threads and connections are interchangeable.
Symmetry == Permutations(Conns) \cup Permutations(Threads)
=============================================================================
