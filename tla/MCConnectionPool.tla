-------------------------- MODULE MCConnectionPool --------------------------
(***************************************************************************)
(* Finite instances of ConnectionPool.                                     *)
(***************************************************************************)
EXTENDS ConnectionPool, TLC

CONSTANTS t1, t2, t3, c1, c2, c3, c4

TwoThreads == {t1, t2}
ThreeThreads == {t1, t2, t3}
TwoConns == {c1, c2}
FourConns == {c1, c2, c3, c4}

\* Threads and connections are interchangeable in the safety runs.
Symmetry == Permutations(Conns) \cup Permutations(Threads)
=============================================================================
