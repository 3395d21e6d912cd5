--------------------------- MODULE MCClientCache ---------------------------
(***************************************************************************)
(* Finite instances of ClientCache.                                        *)
(***************************************************************************)
EXTENDS ClientCache, TLC

CONSTANTS t1, t2, c1, c2, k1, k2

OneThread == {t1}
TwoThreads == {t1, t2}
TwoConns == {c1, c2}
TwoKeys == {k1, k2}
Symmetry == Permutations(TwoConns) \cup Permutations(TwoKeys)
=============================================================================
