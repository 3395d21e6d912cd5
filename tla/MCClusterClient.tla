-------------------------- MODULE MCClusterClient --------------------------
(***************************************************************************)
(* Finite instances of ClusterClient.                                      *)
(***************************************************************************)
EXTENDS ClusterClient, TLC

CONSTANTS t1, t2, A, B, C

OneThread == {t1}
TwoThreads == {t1, t2}
TwoNodes == {A, B}
ThreeNodes == {A, B, C}
OneSlot == {0}
TwoSlots == {0, 1}
OnePipeline == {<<1, 0>>}
OtherOrder == {<<0, 1>>}
SameNode == {<<0, 0>>}
NoPipeline == {}

NoAsk == 0 :> None @@ 1 :> None
Migrating == [slots |-> 0 :> <<A, B>> @@ 1 :> <<A, B>>, ask |-> 0 :> C @@ 1 :> None]
Migrated == [slots |-> 0 :> <<C, A>> @@ 1 :> <<>>, ask |-> NoAsk]

ShortBefore == [slots |-> 0 :> <<A, B>>, ask |-> 0 :> None]
ShortAfter == [slots |-> 0 :> <<B, A>>, ask |-> 0 :> None]
Short == <<ShortBefore, ShortAfter>>
Resharding == <<Migrating, Migrated>>
=============================================================================
