------------------------ MODULE ClusterClientProofs ------------------------
(***************************************************************************)
(* What a RedisCluster client guarantees for any number of threads, nodes  *)
(* and slots, any sequence of layouts of the cluster and any pipelines.    *)
(***************************************************************************)
EXTENDS ClusterClient, FiniteSetTheorems, SequenceTheorems, WellFoundedInduction, TLAPS

(***************************************************************************)
(* Facts about the operators the model is built from.                      *)
(***************************************************************************)
\* The lists a slot may have.
Lists == {l \in Seq(Nodes) : Len(l) <= Cardinality(Nodes)}

LEMMA MinLemma ==
  ASSUME NEW S, S \subseteq Nat, S # {}
  PROVE  Min(S) \in S
<1>1. PICK x \in S : \A y \in S : ~(<<y, x>> \in OpToRel(<, Nat))
  BY NatLessThanWellFounded, WFMin
<1>2. \A y \in S : ~(y < x)
  BY <1>1, Zenon DEF OpToRel
<1>3. \A y \in S : x <= y
  BY <1>2
<1> QED
  BY <1>3 DEF Min

LEMMA ModLemma ==
  ASSUME NEW a \in Nat, NEW b \in Nat \ {0}
  PROVE  a % b \in 0..(b - 1)
BY SMT

\* A list that loses its first n is one shorter.
LEMMA RemoveFirstLemma ==
  ASSUME NEW s \in Seq(Nodes), NEW n, Contains(s, n)
  PROVE  RemoveFirst(s, n) \in Seq(Nodes) /\ Len(RemoveFirst(s, n)) = Len(s) - 1
<1> DEFINE I == {i \in 1..Len(s) : s[i] = n}
           k == Min(I)
<1>1. Len(s) \in Nat
  BY LenProperties
<1>2. I # {} /\ I \subseteq Nat
  BY <1>1 DEF Contains
<1>3. k \in 1..Len(s)
  BY <1>2, MinLemma
<1>4. RemoveFirst(s, n) = SubSeq(s, 1, k - 1) \o SubSeq(s, k + 1, Len(s))
  BY <1>2 DEF RemoveFirst, RemoveAt, SelectInSeq, Contains
<1> HIDE DEF k
<1>5. SubSeq(s, 1, k - 1) \in Seq(Nodes) /\ Len(SubSeq(s, 1, k - 1)) = k - 1
  BY <1>1, <1>3, SubSeqProperties, ElementOfSeq
<1>6. SubSeq(s, k + 1, Len(s)) \in Seq(Nodes) /\ Len(SubSeq(s, k + 1, Len(s))) = Len(s) - k
  BY <1>1, <1>3, SubSeqProperties, ElementOfSeq
<1>7. /\ RemoveFirst(s, n) \in Seq(Nodes)
      /\ Len(RemoveFirst(s, n)) = Len(SubSeq(s, 1, k - 1)) + Len(SubSeq(s, k + 1, Len(s)))
  BY <1>4, <1>5, <1>6, ConcatProperties
<1>8. (k - 1) + (Len(s) - k) = Len(s) - 1
  BY <1>1, <1>3
<1> QED
  BY <1>5, <1>6, <1>7, <1>8, Zenon

\* A MOVED error leaves a slot with a list, no longer than before.
LEMMA PatchedLemma ==
  ASSUME NEW l \in Lists, l # <<>>, NEW n \in Nodes
  PROVE  PatchedList(l, n) \in Lists /\ PatchedList(l, n) # <<>>
<1>1. Len(l) \in Nat \ {0} /\ l[1] \in Nodes /\ l \in Seq(Nodes) /\ Len(l) <= Cardinality(Nodes)
  BY EmptySeq, ElementOfSeq, LenProperties DEF Lists
<1>2. Cardinality(Nodes) \in Nat
  BY FS_CardinalityType, NodesManagerAssumption
<1>3. CASE Contains(l, n)
  <2> DEFINE a == Append(l, l[1])
             r == RemoveFirst(a, n)
             p == [r EXCEPT ![1] = n]
  <2>1. a \in Seq(Nodes) /\ Len(a) = Len(l) + 1 /\ \A i \in 1..Len(l) : a[i] = l[i]
    BY <1>1, AppendProperties
  <2>2. Contains(a, n)
    BY <1>1, <1>3, <2>1 DEF Contains
  <2> HIDE DEF a
  <2>3. r \in Seq(Nodes) /\ Len(r) = Len(l)
    <3>1. r \in Seq(Nodes) /\ Len(r) = Len(a) - 1
      BY <2>1, <2>2, RemoveFirstLemma
    <3> QED
      BY <1>1, <2>1, <3>1
  <2>4. PatchedList(l, n) = p
    BY <1>3 DEF PatchedList, a
  <2> HIDE DEF r
  <2>5. p \in Seq(Nodes) /\ Len(p) = Len(l)
    BY <1>1, <2>3, ExceptSeq
  <2>6. p # <<>>
    BY <1>1, <2>5
  <2> QED
    BY <1>1, <2>4, <2>5, <2>6 DEF Lists
<1>4. CASE ~Contains(l, n)
  <2>1. PatchedList(l, n) = <<n>>
    BY <1>4 DEF PatchedList
  <2>2. <<n>> \in Seq(Nodes) /\ Len(<<n>>) = 1 /\ <<n>> # <<>>
    OBVIOUS
  <2> QED
    BY <1>1, <1>2, <2>1, <2>2 DEF Lists
<1> QED
  BY <1>3, <1>4
-----------------------------------------------------------------------------
(***************************************************************************)
(* The shared tables keep their types.                                     *)
(***************************************************************************)
InitFields ==
  {"at", "todo", "size", "live", "nodes", "slots", "shares", "disagree", "error"}

\* The local variables of initialize().
Initializing(r) ==
  /\ r = [f \in InitFields |-> r[f]]
  /\ r.at \in {"off", "query", "swap", "done", "failed"}
  /\ r.todo \subseteq Nodes
  /\ r.nodes \subseteq Nodes
  /\ r.slots \in [Slots -> Lists]
  /\ r.shares \in [Slots -> SUBSET Slots]
  /\ r.error \in InitErrors

Tables ==
  /\ nodes_cache \subseteq Nodes
  /\ server_type \in [Nodes -> {"primary", "replica"}]
  /\ slots_cache \in [Slots -> Lists]
  /\ shares \in [Slots -> SUBSET Slots]
  /\ startup_nodes \subseteq Nodes
  /\ default_node \in Nodes
  /\ moved \in Moved \cup {None}

Balancer == primary_to_idx \in [Nodes -> 0..(Cardinality(Nodes) - 1)]

Initializations ==
  /\ ini = [t \in Threads |-> ini[t]]
  /\ \A t \in Threads : Initializing(ini[t])

Servers == epoch \in [Nodes -> 1..Len(Layouts)] /\ faults \in 0..MaxFaults

\* require_full_coverage: a table without a slot is never installed.
Complete == FullCoverage => Covered(slots_cache)

Manager == Servers /\ Tables /\ Balancer /\ Initializations /\ Complete
-----------------------------------------------------------------------------
\* Every layout gives every slot a list of nodes.
LEMMA ViewLemma ==
  ASSUME Servers, NEW n \in Nodes
  PROVE  /\ View(n).slots \in [Slots -> Lists]
         /\ View(n).ask \in [Slots -> Nodes \cup {None}]
<1>1. epoch[n] \in DOMAIN Layouts /\ View(n) = Layouts[epoch[n]]
  BY NodesManagerAssumption DEF Servers, View
<1>2. View(n) \in Layout
  BY <1>1, NodesManagerAssumption
<1>3. \A s \in Slots : Len(View(n).slots[s]) <= Cardinality(Nodes)
  BY <1>1, NodesManagerAssumption
<1> QED
  BY <1>2, <1>3 DEF Layout, Lists

LEMMA ListLemma ==
  ASSUME NEW l \in Lists
  PROVE  /\ l \in Seq(Nodes) /\ Len(l) \in Nat /\ DOMAIN l = 1..Len(l)
         /\ ToSet(l) \subseteq Nodes
         /\ \A i \in 1..Len(l) : l[i] \in Nodes
         /\ l # <<>> => Len(l) > 0 /\ l[1] \in Nodes
BY DEF Lists, ToSet

LEMMA MembersLemma ==
  ASSUME NEW slots \in [Slots -> Lists]
  PROVE  Members(slots) \subseteq Nodes /\ PrimariesOf(slots) \subseteq Nodes
<1>1. \A s \in Slots : slots[s] \in Lists
  OBVIOUS
<1> QED
  BY <1>1, ListLemma DEF Members, PrimariesOf

LEMMA NoListLemma == <<>> \in Lists
<1>1. Cardinality(Nodes) \in Nat
  BY FS_CardinalityType, NodesManagerAssumption
<1> QED
  BY <1>1 DEF Lists

\* What initialize() starts with, and what is left of it.
LEMMA InitializingLemma ==
  /\ Initializing(NotInitializing)
  /\ \A startup \in SUBSET Nodes : \A k :
       Initializing([NotInitializing EXCEPT !.at = "query", !.todo = startup,
                       !.size = k, !.live = TRUE])
  /\ \A e \in InitErrors :
       Initializing([NotInitializing EXCEPT !.at = "failed", !.error = e])
  /\ Initializing([NotInitializing EXCEPT !.at = "done"])
  /\ \A r : Initializing(r) => Initializing([r EXCEPT !.at = "swap"])
  /\ \A r, T : Initializing(r) => Initializing([r EXCEPT !.todo = r.todo \ T])
  /\ \A r, b : Initializing(r) => Initializing([r EXCEPT !.live = b])
<1> USE DEF Initializing, InitFields, InitErrors
<1>1. Initializing(NotInitializing)
  <2>1. [s \in Slots |-> <<>>] \in [Slots -> Lists]
    BY NoListLemma
  <2>2. [s \in Slots |-> {s}] \in [Slots -> SUBSET Slots]
    OBVIOUS
  <2> QED
    BY <2>1, <2>2 DEF NotInitializing
<1> HIDE DEF NotInitializing
<1>2. ASSUME NEW startup \in SUBSET Nodes, NEW k
      PROVE  Initializing([NotInitializing EXCEPT !.at = "query", !.todo = startup,
                             !.size = k, !.live = TRUE])
  BY <1>1
<1>3. ASSUME NEW e \in InitErrors
      PROVE  Initializing([NotInitializing EXCEPT !.at = "failed", !.error = e])
  BY <1>1
<1>4. Initializing([NotInitializing EXCEPT !.at = "done"])
  BY <1>1
<1>5. ASSUME NEW r, Initializing(r) PROVE Initializing([r EXCEPT !.at = "swap"])
  BY <1>5
<1>6. ASSUME NEW r, NEW T, Initializing(r) PROVE Initializing([r EXCEPT !.todo = r.todo \ T])
  BY <1>6
<1>7. ASSUME NEW r, NEW b, Initializing(r) PROVE Initializing([r EXCEPT !.live = b])
  BY <1>7
<1> HIDE DEF Initializing
<1> QED
  BY <1>1, <1>2, <1>3, <1>4, <1>5, <1>6, <1>7

\* What an answer to CLUSTER SLOTS adds.
LEMMA MergedLemma ==
  ASSUME Servers, NEW r, Initializing(r), NEW n \in Nodes
  PROVE  Initializing(Merged(r, n))
<1> DEFINE new == View(n).slots
           fresh == {s \in Slots : r.slots[s] = <<>>}
           slots == [s \in Slots |-> IF s \in fresh THEN new[s] ELSE r.slots[s]]
           part == [s \in Slots |-> IF s \in fresh THEN RangeOf(new, s) \cap fresh
                                                   ELSE r.shares[s]]
           differ == {s \in Slots : /\ r.slots[s] # <<>> /\ new[s] # <<>>
                                    /\ r.slots[s][1] # new[s][1]}
           k == r.disagree + Cardinality(differ)
<1>1. new \in [Slots -> Lists] /\ Members(new) \subseteq Nodes
  BY ViewLemma, MembersLemma
<1>2. slots \in [Slots -> Lists]
  BY <1>1 DEF Initializing
<1>3. part \in [Slots -> SUBSET Slots]
  BY DEF Initializing
<1>4. Merged(r, n) = [r EXCEPT !.todo = r.todo \ {n}, !.nodes = r.nodes \cup Members(new),
                               !.slots = slots, !.shares = part, !.disagree = k]
  BY DEF Merged
<1> HIDE DEF slots, part, k, new
<1>5. r.nodes \cup Members(new) \subseteq Nodes /\ r.todo \ {n} \subseteq Nodes
  BY <1>1 DEF Initializing
<1> QED
  BY <1>2, <1>3, <1>4, <1>5 DEF Initializing, InitFields

\* A server learns of a layout.
LEMMA LearnStep ==
  ASSUME Manager, NEW n \in Nodes, Learn(n)
  PROVE  Manager'
<1>1. Len(Layouts) \in Nat
  BY NodesManagerAssumption
<1>2. Servers'
  BY <1>1 DEF Manager, Servers, Learn
<1> QED
  BY <1>2 DEF Manager, Tables, Balancer, Initializations, Complete, Covered, Learn, tableVars

\* One round of initialize().
LEMMA QueryStep ==
  ASSUME Manager, NEW t \in Threads, QueryStartupNode(t)
  PROVE  Manager'
<1> DEFINE rec == ini[t]
<1>1. Initializing(rec) /\ rec.todo \subseteq Nodes
  BY DEF Manager, Initializations, Initializing
<1>2. ASSUME NEW r, Initializing(r), ini' = [ini EXCEPT ![t] = r] PROVE Initializations'
  BY <1>2 DEF Manager, Initializations
<1>3. ASSUME NEW e \in InitErrors, ini' = InitFailed(t, e) PROVE Initializations'
  BY <1>2, <1>3, InitializingLemma DEF InitFailed
<1>4. UNCHANGED <<epoch, primary_to_idx, nodes_cache, slots_cache, shares, startup_nodes,
                  default_node, moved>>
  BY DEF QueryStartupNode, InitFails, tableVars
<1>5. faults' \in 0..MaxFaults
  BY NodesManagerAssumption
  DEF QueryStartupNode, InitFails, Fault, NoFault, Manager, Servers
<1>6. server_type' \in [Nodes -> {"primary", "replica"}]
  <2>1. \A n \in Nodes : \A met : Roles(rec, n, met) \in [Nodes -> {"primary", "replica"}]
    BY DEF Roles, Manager, Tables
  <2> QED
    BY <1>1, <2>1 DEF QueryStartupNode, InitFails, tableVars, Manager, Tables
<1>7. Initializations'
  <2> HIDE DEF rec
  <2>1. ASSUME NEW e \in {"RuntimeError", "RedisClusterException"},
               ini' = InitFailed(t, e)
        PROVE  Initializations'
    BY <1>3, <2>1 DEF InitErrors
  <2>2. ASSUME ini' = [ini EXCEPT ![t].at = "swap"] PROVE Initializations'
    BY <1>1, <1>2, <2>2, InitializingLemma DEF rec
  <2>3. ASSUME NEW n \in Nodes, ini' = [ini EXCEPT ![t].todo = @ \ {n}]
        PROVE  Initializations'
    BY <1>1, <1>2, <2>3, InitializingLemma DEF rec
  <2>4. ASSUME NEW n \in Nodes,
               ini' = [ini EXCEPT ![t] =
                  IF Covered(Merged(rec, n).slots) THEN [Merged(rec, n) EXCEPT !.at = "swap"]
                                                   ELSE Merged(rec, n)]
        PROVE  Initializations'
    <3>1. Initializing(Merged(rec, n))
      BY <1>1, MergedLemma DEF Manager
    <3>2. Initializing([Merged(rec, n) EXCEPT !.at = "swap"])
      BY <3>1, InitializingLemma
    <3> QED
      BY <1>2, <2>4, <3>1, <3>2
  <2> QED
    BY <1>1, <2>1, <2>2, <2>3, <2>4 DEF QueryStartupNode, InitFails, rec
<1> QED
  BY <1>4, <1>5, <1>6, <1>7 DEF Manager, Servers, Tables, Balancer, Complete, Covered

\* The temporary tables become the real ones, if they are complete enough.
LEMMA SwapStep ==
  ASSUME Manager, NEW t \in Threads, SwapTables(t)
  PROVE  Manager'
<1> DEFINE rec == ini[t]
           primaries == {n \in rec.nodes : server_type[n] = "primary"}
           failed(e) == [NotInitializing EXCEPT !.at = "failed", !.error = e]
<1>1. \A u \in Threads : Initializing(ini[u])
  BY DEF Manager, Initializations
<1>2. /\ Initializing(failed("RedisClusterException")) /\ Initializing(failed("IndexError"))
      /\ Initializing([NotInitializing EXCEPT !.at = "done"])
      /\ \A u \in Threads : \A b : Initializing([ini[u] EXCEPT !.live = b])
  BY <1>1, InitializingLemma DEF InitErrors
<1>3. rec.slots \in [Slots -> Lists] /\ rec.shares \in [Slots -> SUBSET Slots]
      /\ rec.nodes \subseteq Nodes /\ primaries \subseteq Nodes
  BY <1>1 DEF Initializing
<1>4. Servers' /\ Balancer'
  BY DEF SwapTables, serverVars, Manager, Servers, Balancer
<1>5. CASE /\ FullCoverage /\ ~Covered(rec.slots)
           /\ ini' = [ini EXCEPT ![t] = failed("RedisClusterException")]
           /\ UNCHANGED <<nodes_cache, slots_cache, shares, default_node, moved>>
  <2>1. Initializations'
    BY <1>2, <1>5 DEF Manager, Initializations
  <2> QED
    BY <1>4, <1>5, <2>1 DEF SwapTables, Manager, Tables, Complete, Covered
<1>6. CASE /\ ~FullCoverage \/ Covered(rec.slots)
           /\ nodes_cache' = rec.nodes
           /\ slots_cache' = rec.slots
           /\ shares' = rec.shares
           /\ IF primaries = {} THEN UNCHANGED <<default_node, moved>>
                                ELSE default_node' \in primaries /\ moved' = None
           /\ ini' = [u \in Threads |->
                IF u = t THEN IF primaries = {} THEN failed("IndexError")
                              ELSE [NotInitializing EXCEPT !.at = "done"]
                ELSE [ini[u] EXCEPT !.live = @ /\ ~Dynamic]]
  <2> HIDE DEF rec, failed
  <2>1. Initializations'
    BY <1>2, <1>6 DEF Initializations
  <2>2. Tables'
    BY <1>3, <1>6 DEF SwapTables, Manager, Tables
  <2>3. Complete'
    BY <1>6 DEF Complete, Covered
  <2> QED
    BY <1>4, <2>1, <2>2, <2>3 DEF Manager
<1> QED
  BY <1>5, <1>6 DEF SwapTables

\* A pending MOVED error is applied to the tables.
LEMMA PatchStep ==
  ASSUME Tables, Complete, moved # None, slots_cache[moved.slot] # <<>>, UpdateMovedSlots
  PROVE  Tables' /\ Complete'
<1> DEFINE s == moved.slot
           n == moved.node
           list == slots_cache[s]
           p == PatchedList(list, n)
           failover == Contains(list, n)
<1>1. s \in Slots /\ n \in Nodes
  BY DEF Tables, Moved
<1>2. list \in Lists /\ list # <<>> /\ list[1] \in Nodes
  BY <1>1, ListLemma DEF Tables
<1>3. p \in Lists /\ p # <<>>
  BY <1>1, <1>2, PatchedLemma
<1>4. nodes_cache' = nodes_cache \cup {n} /\ moved' = None /\ UNCHANGED startup_nodes
  BY DEF UpdateMovedSlots
<1>5. server_type' \in [Nodes -> {"primary", "replica"}]
  BY <1>1, <1>2 DEF UpdateMovedSlots, Tables
<1>6. slots_cache' = [u \in Slots |-> IF u = s \/ (failover /\ u \in shares[s])
                                        THEN p ELSE slots_cache[u]]
  BY DEF UpdateMovedSlots
<1>7. shares' \in [Slots -> SUBSET Slots]
  <2>1. CASE failover
    BY <2>1 DEF UpdateMovedSlots, Tables
  <2>2. CASE ~failover
    BY <1>1, <2>2 DEF UpdateMovedSlots, Tables
  <2> QED
    BY <2>1, <2>2
<1>8. default_node' \in Nodes
  BY <1>1 DEF UpdateMovedSlots, Tables
<1> HIDE DEF p, failover
<1>9. slots_cache' \in [Slots -> Lists] /\ Complete'
  BY <1>3, <1>6 DEF Tables, Complete, Covered
<1> QED
  BY <1>1, <1>4, <1>5, <1>7, <1>8, <1>9 DEF Tables

LEMMA KeyErrorStep ==
  ASSUME Tables, Complete, moved # None, UpdateMovedKeyError
  PROVE  Tables' /\ Complete'
<1>1. moved.node \in Nodes
  BY DEF Tables, Moved
<1> QED
  BY <1>1 DEF UpdateMovedKeyError, Tables, Complete, Covered

\* initialize() begins.
LEMMA StartStep ==
  ASSUME Balancer, Initializations, NEW t \in Threads, NEW S, S \subseteq Nodes,
         StartInitialize(t, S)
  PROVE  Balancer' /\ Initializations'
<1>1. Cardinality(Nodes) \in Nat
  BY FS_CardinalityType, NodesManagerAssumption
<1>2. ASSUME NEW n \in Nodes PROVE Cardinality(Nodes) > 0
  BY <1>1, FS_EmptySet, NodesManagerAssumption
<1>3. Balancer'
  BY <1>1, <1>2 DEF Balancer, StartInitialize
<1>4. Initializations'
  <2>1. PICK r : /\ Initializing(r)
                 /\ ini' = [ini EXCEPT ![t] = r]
    BY InitializingLemma DEF StartInitialize
  <2> QED
    BY <2>1 DEF Initializations
<1> QED
  BY <1>3, <1>4

\* The load balancer's index stays within every list.
LEMMA ServerIndexLemma ==
  ASSUME Balancer, NEW l \in Lists, l # <<>>, NEW read, NEW x \in ServerIndex(l, read)
  PROVE  /\ x.index \in Nat
         /\ x.next \in 0..(Cardinality(Nodes) - 1)
         /\ ~read => x.index = 0
<1>1. Len(l) \in Nat \ {0} /\ Len(l) <= Cardinality(Nodes) /\ l[1] \in Nodes
  BY ListLemma DEF Lists
<1>2. Cardinality(Nodes) \in Nat
  BY FS_CardinalityType, NodesManagerAssumption
<1>3. primary_to_idx[l[1]] \in 0..(Cardinality(Nodes) - 1)
  BY <1>1 DEF Balancer
<1> DEFINE stay(i) == [index |-> i, next |-> primary_to_idx[l[1]]]
<1>4. CASE x = stay(0)
  BY <1>3, <1>4
<1>5. CASE \E i \in 1..(Len(l) - 1) : x = stay(i) /\ read
  BY <1>1, <1>3, <1>5
<1>6. ASSUME NEW o, x = RoundRobinIndex(l[1], Len(l), o), read
      PROVE  x.index \in Nat /\ x.next \in 0..(Cardinality(Nodes) - 1)
  <2> DEFINE i == IF o /\ primary_to_idx[l[1]] = 0 THEN 1 ELSE primary_to_idx[l[1]]
  <2>1. i \in Nat
    BY <1>2, <1>3
  <2>2. x.index = i /\ x.next = (i + 1) % Len(l)
    BY <1>6 DEF RoundRobinIndex
  <2> HIDE DEF i
  <2>3. (i + 1) % Len(l) \in 0..(Len(l) - 1)
    <3>1. i + 1 \in Nat /\ Len(l) \in Nat \ {0}
      BY <1>1, <2>1
    <3> QED
      BY <3>1, ModLemma, Zenon
  <2> QED
    BY <1>1, <1>2, <2>1, <2>2, <2>3
<1> QED
  BY <1>4, <1>5, <1>6 DEF ServerIndex
-----------------------------------------------------------------------------
(***************************************************************************)
(* The calls: what each of them may hold where.                            *)
(***************************************************************************)
CallFields ==
  {"pc", "pipe", "kind", "cmds", "i", "read", "given", "res", "fx", "got", "tries",
   "passes", "todo", "target", "ttl", "asking", "redirect", "held", "left", "bad",
   "isDefault", "batch", "redo", "count", "error", "after"}

Shaped(c) == c = [f \in CallFields |-> c[f]]

Typed(c) ==
  /\ c.todo \subseteq Nodes /\ c.held \subseteq Nodes /\ c.left \subseteq Nodes
  /\ c.ttl \in 0..TTL /\ c.tries \in 0..RetryAttempts
  /\ c.target \in Nodes \cup {None} /\ c.redirect \in Nodes \cup {None}
  /\ c.count \in Nat /\ c.passes \in Nat /\ c.kind \in {"key", "default", "primaries"}
  /\ c.cmds \in Seq(Slots)
  /\ DOMAIN c.res = DOMAIN c.cmds /\ c.redo \subseteq DOMAIN c.cmds
  /\ c.fx \in [DOMAIN c.cmds -> Nat]

\* A call that is under way has a command, and no other unless it is a pipeline;
\* one that talks to a node has a node, and one that a MOVED error redirects has
\* the node it is redirected to.
Placed(c) ==
  /\ c.pc # "idle" => c.i \in DOMAIN c.cmds
  /\ ~c.pipe => DOMAIN c.fx \subseteq {c.i}
  /\ c.pc \in {"exchange", "broken", "batch", "loop", "count", "decide", "down"}
       => c.target \in Nodes
  /\ c.pc = "init" /\ c.after = "loop" => c.target \in Nodes
  /\ c.pc \in {"determine", "pick"} /\ c.ttl > 0 => c.target \in Nodes
  /\ c.pc \in {"count", "decide"} => c.redirect \in Nodes

\* A time to live is counted only inside the redirection loop, and only a
\* command with a key is redirected.  Batches are made by pipelines alone.
Timed(c) ==
  /\ c.ttl > 0 =>
       /\ c.after # "batch"
       /\ \/ c.pc \in {"exchange", "loop", "count", "decide", "down", "broken"}
          \/ c.pc \in {"determine", "pick"} /\ c.kind = "key"
          \/ c.pc = "init" /\ c.after = "loop"
  /\ c.redirect # None => c.kind = "key"
  /\ c.pc = "pick" => c.kind = "key"
  /\ c.after = "batch" => c.pipe /\ c.pc \in {"determine", "pick", "batch"}
  /\ c.pc = "batch" => c.after = "batch"
  /\ c.pc \in {"pass", "write", "retry"} => c.pipe
  /\ c.pc = "init" => c.after \in {"loop", "raise", "pass", "retry"}
  /\ c.pc = "init" /\ c.after \in {"pass", "retry"} => c.pipe

\* No lookup of a node can raise: every slot has nodes, every command a slot, and
\* nobody has to be asked for it.
Certain == FullCoverage /\ ~Unroutable /\ Movable = {}

\* Connections are held by a pipeline that is making its batches, or that is
\* sending them; and none was left behind, if no lookup can raise.
Releases(c) ==
  /\ c.pipe => c.kind = "key" /\ ~c.read
  /\ Certain => c.left = {} /\ c.bad = {}
  /\ c.held # {} =>
       /\ c.pipe
       /\ \/ c.pc = "write"
          \/ c.pc \in {"determine", "pick", "batch"} /\ c.after = "batch"

(***************************************************************************)
(* How often a call may still execute its command number j: now, and in    *)
(* the attempts or the passes it has left.                                 *)
(***************************************************************************)
Width(c) == IF ~c.pipe /\ c.kind = "primaries" THEN Cardinality(Nodes) ELSE 1

Bound(c) ==
  IF c.pipe THEN (RetryAttempts + 1) * (RetryAttempts + 2)
  ELSE (IF c.given THEN 1 ELSE RetryAttempts + 1)
       * (IF c.kind = "primaries" THEN Cardinality(Nodes) ELSE 1)

Later(c) == IF c.pipe THEN c.passes * (RetryAttempts + 2) ELSE c.tries * Width(c)

Looping(c) ==
  \/ c.pc \in {"exchange", "loop", "count", "decide"}
  \/ c.pc \in {"determine", "pick"} /\ c.ttl > 0
  \/ c.pc = "init" /\ c.after = "loop"

\* The present attempt: one more for the node it is talking to.
Turn(c) ==
  IF Looping(c) THEN Cardinality(c.todo) + 1
  ELSE IF c.pc = "next" THEN Cardinality(c.todo)
  ELSE IF c.pc \in {"determine", "pick"} THEN Width(c)
  ELSE 0

\* The present pass of a pipeline: the batch, then its turn among the failed.
Passing(c) == c.pc = "pass" \/ (c.pc = "init" /\ c.after = "pass")
Between(c) == c.pc = "retry" \/ (c.pc = "init" /\ c.after = "retry")
Pass(c, j) ==
  IF Passing(c) THEN 0
  ELSE IF c.after = "batch" THEN RetryAttempts + 2
  ELSE IF c.pc = "write"
    THEN IF c.batch[j] \in c.todo THEN RetryAttempts + 2 ELSE RetryAttempts + 1
  ELSE (IF j \in c.redo THEN RetryAttempts + 1 ELSE 0)
       + (IF j = c.i /\ ~Between(c) THEN Turn(c) + c.tries ELSE 0)

Now(c, j) == IF c.pipe THEN Pass(c, j) ELSE Turn(c)

Budgeted(c) == \A j \in DOMAIN c.fx : c.fx[j] + Now(c, j) + Later(c) <= Bound(c)

Good(c) ==
  Shaped(c) /\ Typed(c) /\ Placed(c) /\ Timed(c) /\ Releases(c) /\ Budgeted(c)

Calls ==
  /\ call = [t \in Threads |-> call[t]]
  /\ \A t \in Threads : Good(call[t])
  /\ counter \in Nat
-----------------------------------------------------------------------------
\* What an update leaves alone: the call itself, and the work done so far.
SameCall(c, d) ==
  /\ d.pipe = c.pipe /\ d.kind = c.kind /\ d.cmds = c.cmds
  /\ d.read = c.read /\ d.given = c.given /\ d.bad = c.bad

SameWork(c, d) ==
  /\ d.i = c.i /\ d.res = c.res /\ d.fx = c.fx /\ d.redo = c.redo /\ d.batch = c.batch
  /\ d.passes = c.passes /\ d.held = c.held /\ d.left = c.left
  /\ d.count = c.count

LEMMA SizeLemma ==
  ASSUME NEW S, S \subseteq Nodes
  PROVE  /\ IsFiniteSet(S) /\ Cardinality(S) \in Nat /\ Cardinality(Nodes) \in Nat
         /\ Cardinality(S) <= Cardinality(Nodes)
         /\ \A n \in S : Cardinality(S \ {n}) = Cardinality(S) - 1
<1>1. IsFiniteSet(Nodes)
  BY NodesManagerAssumption
<1>2. IsFiniteSet(S) /\ Cardinality(S) <= Cardinality(Nodes)
  BY <1>1, FS_Subset
<1>3. \A n \in S : Cardinality(S \ {n}) = Cardinality(S) - 1
  BY <1>2, FS_RemoveElement
<1> QED
  BY <1>1, <1>2, <1>3, FS_CardinalityType

LEMMA ProductLemma ==
  ASSUME NEW a \in Nat, NEW b \in Nat
  PROVE  a * b \in Nat
BY SMT

LEMMA AmountLemma ==
  ASSUME NEW c, Typed(c), NEW j
  PROVE  /\ Width(c) \in Nat /\ Bound(c) \in Nat /\ Later(c) \in Nat
         /\ Cardinality(c.todo) \in Nat /\ Turn(c) \in Nat
         /\ c.tries \in Nat /\ c.ttl \in Nat /\ RetryAttempts \in Nat
         /\ Now(c, j) \in Nat
<1>1. RetryAttempts \in Nat /\ TTL \in Nat
  BY ClusterClientAssumption
<1>2. Cardinality(c.todo) \in Nat /\ Cardinality(Nodes) \in Nat
  BY SizeLemma DEF Typed
<1>3. Width(c) \in Nat
  BY <1>2 DEF Width
<1>4. c.tries \in Nat /\ c.ttl \in Nat /\ c.passes \in Nat
  BY <1>1 DEF Typed
<1>5. Turn(c) \in Nat
  BY <1>2, <1>3 DEF Turn
<1>6. Later(c) \in Nat
  <2>1. RetryAttempts + 2 \in Nat
    BY <1>1
  <2> QED
    BY <1>3, <1>4, <2>1, ProductLemma DEF Later
<1>7. Bound(c) \in Nat
  <2>1. RetryAttempts + 2 \in Nat /\ RetryAttempts + 1 \in Nat /\ 1 \in Nat
    BY <1>1
  <2> QED
    BY <1>2, <2>1, ProductLemma DEF Bound
<1>8. Now(c, j) \in Nat
  BY <1>1, <1>4, <1>5 DEF Now, Pass
<1> QED
  BY <1>1, <1>2, <1>3, <1>4, <1>5, <1>6, <1>7, <1>8

LEMMA SameLemma ==
  ASSUME NEW c, NEW d, d.pipe = c.pipe, d.kind = c.kind, d.given = c.given
  PROVE  Width(d) = Width(c) /\ Bound(d) = Bound(c)
BY DEF Width, Bound

\* What the steps of the calls need of these numbers.
Amounts(c, d) ==
  /\ Good(c) /\ Typed(d)
  /\ Width(d) = Width(c) /\ Bound(d) = Bound(c)
  /\ RetryAttempts \in Nat /\ Width(c) \in Nat /\ Cardinality(c.todo) \in Nat
  /\ c.tries \in Nat /\ Turn(c) \in Nat /\ Turn(d) \in Nat

LEMMA AmountsLemma ==
  ASSUME NEW c, Good(c), NEW d, Typed(d),
         d.pipe = c.pipe, d.kind = c.kind, d.given = c.given
  PROVE  Amounts(c, d)
BY AmountLemma, SameLemma DEF Good, Amounts

\* An execution has been counted before it happens.
LEMMA SpentLemma ==
  ASSUME NEW c, NEW d, Amounts(c, d), d.pipe = c.pipe, d.passes = c.passes,
         c.pipe \/ d.tries = c.tries, DOMAIN d.fx = DOMAIN c.fx,
         \A j \in DOMAIN c.fx : d.fx[j] + Now(d, j) <= c.fx[j] + Now(c, j)
  PROVE  Budgeted(d)
<1> SUFFICES ASSUME NEW j \in DOMAIN d.fx
             PROVE  d.fx[j] + Now(d, j) + Later(d) <= Bound(d)
  BY DEF Budgeted
<1>1. /\ c.fx[j] \in Nat /\ d.fx[j] \in Nat /\ Now(c, j) \in Nat /\ Now(d, j) \in Nat
      /\ Later(c) \in Nat /\ Bound(c) \in Nat /\ Bound(d) = Bound(c)
  BY AmountLemma DEF Amounts, Good, Typed
<1>2. c.fx[j] + Now(c, j) + Later(c) <= Bound(c)
  BY DEF Amounts, Good, Budgeted
<1>3. d.fx[j] + Now(d, j) <= c.fx[j] + Now(c, j)
  OBVIOUS
<1>4. Later(d) = Later(c)
  BY DEF Amounts, Later
<1> QED
  BY <1>1, <1>2, <1>3, <1>4

\* A step that executes nothing and adds nothing to come keeps the bound.
LEMMA KeptLemma ==
  ASSUME NEW c, NEW d, Amounts(c, d), d.pipe = c.pipe, d.passes = c.passes,
         c.pipe \/ d.tries = c.tries, d.fx = c.fx,
         \A j \in DOMAIN c.fx : Now(d, j) <= Now(c, j)
  PROVE  Budgeted(d)
<1>1. ASSUME NEW j \in DOMAIN c.fx PROVE d.fx[j] + Now(d, j) <= c.fx[j] + Now(c, j)
  <2>1. c.fx[j] \in Nat /\ Now(c, j) \in Nat /\ Now(d, j) \in Nat
    BY AmountLemma DEF Amounts, Good, Typed
  <2> QED
    BY <2>1
<1> QED
  BY <1>1, SpentLemma

LEMMA OneLessLemma ==
  ASSUME NEW a \in Nat \ {0}, NEW b \in Nat
  PROVE  a * b = (a - 1) * b + b
BY SMT

LEMMA CallLemma ==
  ASSUME Calls, counter' \in Nat, NEW t \in Threads, NEW d, Good(d),
         call' = [call EXCEPT ![t] = d]
  PROVE  Calls'
BY DEF Calls

\* The call is over, or fails, with nothing held.
LEMMA IdleLemma ==
  ASSUME NEW l, l \subseteq Nodes, Certain => l = {}
  PROVE  Good([Idle EXCEPT !.left = l])
<1> DEFINE d == [Idle EXCEPT !.left = l]
<1>1. Shaped(Idle)
  BY DEF Shaped, CallFields, Idle
<1>2. Shaped(d)
  BY <1>1 DEF Shaped
<1>3. /\ d.pc = "idle" /\ d.pipe = FALSE /\ d.kind = "key" /\ d.cmds = <<>>
      /\ d.res = <<>> /\ d.tries = 0
      /\ d.todo = {} /\ d.target = None /\ d.ttl = 0 /\ d.redirect = None /\ d.held = {}
      /\ d.left = l /\ d.bad = {} /\ d.redo = {} /\ d.count = 0 /\ d.passes = 0
      /\ d.fx = <<>> /\ d.after = "none"
  BY DEF Idle
<1> HIDE DEF d
<1>4. <<>> \in Seq(Slots) /\ 0 \in 0..TTL /\ 0 \in 0..RetryAttempts
  BY ClusterClientAssumption
<1>5. DOMAIN d.fx = {} /\ d.fx \in [DOMAIN d.cmds -> Nat]
  BY <1>3
<1>6. Typed(d) /\ Placed(d) /\ Timed(d) /\ Releases(d)
  BY <1>3, <1>4, <1>5 DEF Typed, Placed, Timed, Releases
<1>7. Budgeted(d)
  BY <1>5 DEF Budgeted
<1> QED
  BY <1>2, <1>6, <1>7 DEF Good, d

LEMMA FailLemma ==
  ASSUME NEW c, Good(c), c.pc # "idle",
         ~(c.pipe /\ c.after = "batch"), c.pc \notin {"pass", "retry", "write"},
         c.pc = "init" => c.after \in {"loop", "raise"}, NEW e
  PROVE  Good([c EXCEPT !.pc = "raise", !.error = e, !.ttl = 0, !.target = None,
                   !.redirect = None, !.asking = FALSE, !.after = "none"])
<1> DEFINE d == [c EXCEPT !.pc = "raise", !.error = e, !.ttl = 0, !.target = None,
                          !.redirect = None, !.asking = FALSE, !.after = "none"]
<1>1. Shaped(d)
  BY DEF Good, Shaped
<1>2. /\ SameCall(c, d) /\ SameWork(c, d) /\ d.pc = "raise" /\ d.after = "none"
      /\ d.target = None /\ d.redirect = None /\ d.todo = c.todo /\ d.ttl = 0
      /\ d.tries = c.tries
  BY DEF Good, Shaped, CallFields, SameCall, SameWork
<1> HIDE DEF d
<1>3. Typed(d)
  BY <1>2, ClusterClientAssumption DEF Good, Typed, SameCall, SameWork
<1>4. Placed(d) /\ Timed(d) /\ Releases(d)
  BY <1>2, ClusterClientAssumption
  DEF Good, Typed, Placed, Timed, Releases, SameCall, SameWork
<1>5. Amounts(c, d)
  BY <1>2, <1>3, AmountsLemma DEF Good, SameCall
<1>6. Turn(d) <= Turn(c)
  BY <1>2, <1>5
  DEF Good, Typed, Timed, Amounts, Turn, Looping, SameCall, SameWork
<1>7. ASSUME NEW j \in DOMAIN c.fx PROVE Now(d, j) <= Now(c, j)
  BY <1>2, <1>5, <1>6
  DEF Good, Timed, Amounts, Now, Pass, Passing, Between, SameCall, SameWork
<1>8. Budgeted(d)
  BY <1>2, <1>3, <1>5, <1>7, KeptLemma DEF SameCall, SameWork
<1> QED
  BY <1>1, <1>3, <1>4, <1>8 DEF Good, d

\* _determine_nodes: at most as many nodes as the call may have.
LEMMA TargetsLemma ==
  ASSUME NEW c, Good(c), c.pc \in {"determine", "pick"}, c.ttl = 0, c.after # "batch",
         NEW nodes, nodes \subseteq Nodes, Cardinality(nodes) <= Width(c), NEW b
  PROVE  Good([c EXCEPT !.pc = "next", !.todo = nodes, !.isDefault = b])
<1> DEFINE d == [c EXCEPT !.pc = "next", !.todo = nodes, !.isDefault = b]
<1>1. Shaped(d)
  BY DEF Good, Shaped
<1>2. /\ SameCall(c, d) /\ SameWork(c, d) /\ d.pc = "next" /\ d.after = c.after
      /\ d.target = c.target /\ d.redirect = c.redirect /\ d.todo = nodes /\ d.ttl = c.ttl
      /\ d.tries = c.tries
  BY DEF Good, Shaped, CallFields, SameCall, SameWork
<1> HIDE DEF d
<1>0. Cardinality(nodes) \in Nat
  BY SizeLemma
<1>3. Typed(d)
  BY <1>2, <1>0, ClusterClientAssumption DEF Good, Typed, SameCall, SameWork
<1>4. Placed(d) /\ Timed(d) /\ Releases(d)
  BY <1>2, <1>0, ClusterClientAssumption
  DEF Good, Typed, Placed, Timed, Releases, SameCall, SameWork
<1>5. Amounts(c, d)
  BY <1>2, <1>3, AmountsLemma DEF Good, SameCall
<1>6. Turn(d) <= Turn(c)
  <2>1. Turn(d) = Cardinality(nodes)
    BY <1>2 DEF Turn, Looping
  <2>2. Turn(c) = Width(c)
    BY <1>5 DEF Amounts, Turn, Looping
  <2> QED
    BY <2>1, <2>2
<1>7. ASSUME NEW j \in DOMAIN c.fx PROVE Now(d, j) <= Now(c, j)
  BY <1>2, <1>5, <1>6
  DEF Good, Timed, Amounts, Now, Pass, Passing, Between, SameCall, SameWork
<1>8. Budgeted(d)
  BY <1>2, <1>3, <1>5, <1>7, KeptLemma DEF SameCall, SameWork
<1> QED
  BY <1>1, <1>3, <1>4, <1>8 DEF Good, d

LEMMA BatchLemma ==
  ASSUME NEW c, Good(c), c.pc \in {"determine", "pick"}, c.kind = "key",
         c.after = "batch", NEW n \in Nodes, NEW b
  PROVE  Good([c EXCEPT !.pc = "batch", !.target = n, !.isDefault = b])
<1> DEFINE d == [c EXCEPT !.pc = "batch", !.target = n, !.isDefault = b]
<1>1. Shaped(d)
  BY DEF Good, Shaped
<1>2. /\ SameCall(c, d) /\ SameWork(c, d) /\ d.pc = "batch" /\ d.after = c.after
      /\ d.target = n /\ d.redirect = c.redirect /\ d.todo = c.todo /\ d.ttl = c.ttl
      /\ d.tries = c.tries
  BY DEF Good, Shaped, CallFields, SameCall, SameWork
<1> HIDE DEF d
<1>3. Typed(d)
  BY <1>2, ClusterClientAssumption DEF Good, Typed, SameCall, SameWork
<1>4. Placed(d) /\ Timed(d) /\ Releases(d)
  BY <1>2, ClusterClientAssumption
  DEF Good, Typed, Placed, Timed, Releases, SameCall, SameWork
<1>5. Amounts(c, d)
  BY <1>2, <1>3, AmountsLemma DEF Good, SameCall
<1>6. Turn(d) <= Turn(c)
  BY <1>2, <1>5
  DEF Good, Typed, Timed, Amounts, Turn, Looping, SameCall, SameWork
<1>7. ASSUME NEW j \in DOMAIN c.fx PROVE Now(d, j) <= Now(c, j)
  BY <1>2, <1>5, <1>6
  DEF Good, Timed, Amounts, Now, Pass, Passing, Between, SameCall, SameWork
<1>8. Budgeted(d)
  BY <1>2, <1>3, <1>5, <1>7, KeptLemma DEF SameCall, SameWork
<1> QED
  BY <1>1, <1>3, <1>4, <1>8 DEF Good, d

LEMMA RedirectLemma ==
  ASSUME NEW c, Good(c), c.pc \in {"determine", "pick"}, c.ttl > 0, NEW n \in Nodes
  PROVE  Good([c EXCEPT !.pc = "exchange", !.target = n])
<1> DEFINE d == [c EXCEPT !.pc = "exchange", !.target = n]
<1>1. Shaped(d)
  BY DEF Good, Shaped
<1>2. /\ SameCall(c, d) /\ SameWork(c, d) /\ d.pc = "exchange" /\ d.after = c.after
      /\ d.target = n /\ d.redirect = c.redirect /\ d.todo = c.todo /\ d.ttl = c.ttl
      /\ d.tries = c.tries
  BY DEF Good, Shaped, CallFields, SameCall, SameWork
<1> HIDE DEF d
<1>3. Typed(d)
  BY <1>2, ClusterClientAssumption DEF Good, Typed, SameCall, SameWork
<1>4. Placed(d) /\ Timed(d) /\ Releases(d)
  BY <1>2, ClusterClientAssumption
  DEF Good, Typed, Placed, Timed, Releases, SameCall, SameWork
<1>5. Amounts(c, d)
  BY <1>2, <1>3, AmountsLemma DEF Good, SameCall
<1>6. Turn(d) <= Turn(c)
  BY <1>2, <1>5
  DEF Good, Typed, Timed, Amounts, Turn, Looping, SameCall, SameWork
<1>7. ASSUME NEW j \in DOMAIN c.fx PROVE Now(d, j) <= Now(c, j)
  BY <1>2, <1>5, <1>6
  DEF Good, Timed, Amounts, Now, Pass, Passing, Between, SameCall, SameWork
<1>8. Budgeted(d)
  BY <1>2, <1>3, <1>5, <1>7, KeptLemma DEF SameCall, SameWork
<1> QED
  BY <1>1, <1>3, <1>4, <1>8 DEF Good, d

LEMMA PatchLemma ==
  ASSUME NEW c, Good(c), c.pc = "determine", c.kind = "key"
  PROVE  Good([c EXCEPT !.pc = "pick"])
<1> DEFINE d == [c EXCEPT !.pc = "pick"]
<1>1. Shaped(d)
  BY DEF Good, Shaped
<1>2. /\ SameCall(c, d) /\ SameWork(c, d) /\ d.pc = "pick" /\ d.after = c.after
      /\ d.target = c.target /\ d.redirect = c.redirect /\ d.todo = c.todo
      /\ d.ttl = c.ttl /\ d.tries = c.tries
  BY DEF Good, Shaped, CallFields, SameCall, SameWork
<1> HIDE DEF d
<1>3. Typed(d)
  BY <1>2, ClusterClientAssumption DEF Good, Typed, SameCall, SameWork
<1>4. Placed(d) /\ Timed(d) /\ Releases(d)
  BY <1>2, ClusterClientAssumption
  DEF Good, Typed, Placed, Timed, Releases, SameCall, SameWork
<1>5. Amounts(c, d)
  BY <1>2, <1>3, AmountsLemma DEF Good, SameCall
<1>6. Turn(d) <= Turn(c)
  BY <1>2, <1>5
  DEF Good, Typed, Timed, Amounts, Turn, Looping, SameCall, SameWork
<1>7. ASSUME NEW j \in DOMAIN c.fx PROVE Now(d, j) <= Now(c, j)
  BY <1>2, <1>5, <1>6
  DEF Good, Timed, Amounts, Now, Pass, Passing, Between, SameCall, SameWork
<1>8. Budgeted(d)
  BY <1>2, <1>3, <1>5, <1>7, KeptLemma DEF SameCall, SameWork
<1> QED
  BY <1>1, <1>3, <1>4, <1>8 DEF Good, d

\* COMMAND GETKEYS fails: in the redirection loop, and between two connections.
LEMMA LookupLemma ==
  ASSUME NEW c, Good(c), c.pc = "determine", c.ttl > 0
  PROVE  Good([c EXCEPT !.pc = "broken"])
<1> DEFINE d == [c EXCEPT !.pc = "broken"]
<1>1. Shaped(d)
  BY DEF Good, Shaped
<1>2. /\ SameCall(c, d) /\ SameWork(c, d) /\ d.pc = "broken" /\ d.after = c.after
      /\ d.target = c.target /\ d.redirect = c.redirect /\ d.todo = c.todo
      /\ d.ttl = c.ttl /\ d.tries = c.tries
  BY DEF Good, Shaped, CallFields, SameCall, SameWork
<1> HIDE DEF d
<1>3. Typed(d)
  BY <1>2, ClusterClientAssumption DEF Good, Typed, SameCall, SameWork
<1>4. Placed(d) /\ Timed(d) /\ Releases(d)
  BY <1>2, ClusterClientAssumption
  DEF Good, Typed, Placed, Timed, Releases, SameCall, SameWork
<1>5. Amounts(c, d)
  BY <1>2, <1>3, AmountsLemma DEF Good, SameCall
<1>6. Turn(d) <= Turn(c)
  BY <1>2, <1>5
  DEF Good, Typed, Timed, Amounts, Turn, Looping, SameCall, SameWork
<1>7. ASSUME NEW j \in DOMAIN c.fx PROVE Now(d, j) <= Now(c, j)
  BY <1>2, <1>5, <1>6
  DEF Good, Timed, Amounts, Now, Pass, Passing, Between, SameCall, SameWork
<1>8. Budgeted(d)
  BY <1>2, <1>3, <1>5, <1>7, KeptLemma DEF SameCall, SameWork
<1> QED
  BY <1>1, <1>3, <1>4, <1>8 DEF Good, d

LEMMA AbandonedLemma ==
  ASSUME NEW c, Good(c), c.pc = "determine", c.pipe, c.after = "batch", ~Certain
  PROVE  Good([Left(c) EXCEPT !.pc = "pass", !.after = "none"])
<1> DEFINE d == [Left(c) EXCEPT !.pc = "pass", !.after = "none"]
<1>1. Shaped(d)
  BY DEF Good, Shaped, Left
<1>2. /\ SameCall(c, d) /\ d.i = c.i /\ d.res = c.res /\ d.fx = c.fx /\ d.redo = c.redo
      /\ d.batch = c.batch /\ d.passes = c.passes /\ d.held = {}
      /\ d.left = c.left \cup c.held /\ d.count = c.count /\ d.pc = "pass"
      /\ d.after = "none" /\ d.target = c.target /\ d.redirect = c.redirect
      /\ d.todo = c.todo /\ d.ttl = c.ttl /\ d.tries = c.tries
  BY DEF Good, Shaped, CallFields, SameCall, Left
<1> HIDE DEF d
<1>3. Typed(d)
  BY <1>2, ClusterClientAssumption DEF Good, Typed, SameCall, SameWork
<1>4. Placed(d) /\ Timed(d) /\ Releases(d)
  BY <1>2, ClusterClientAssumption
  DEF Good, Typed, Placed, Timed, Releases, SameCall, SameWork
<1>5. Amounts(c, d)
  BY <1>2, <1>3, AmountsLemma DEF Good, SameCall
<1>6. Turn(d) <= Turn(c)
  BY <1>2, <1>5
  DEF Good, Typed, Timed, Amounts, Turn, Looping, SameCall, SameWork
<1>7. ASSUME NEW j \in DOMAIN c.fx PROVE Now(d, j) <= Now(c, j)
  BY <1>2, <1>5, <1>6
  DEF Good, Timed, Amounts, Now, Pass, Passing, Between, SameCall, SameWork
<1>8. Budgeted(d)
  BY <1>2, <1>3, <1>5, <1>7, KeptLemma DEF SameCall, SameWork
<1> QED
  BY <1>1, <1>3, <1>4, <1>8 DEF Good, d

\* The next node of the present attempt.
LEMMA TakeLemma ==
  ASSUME NEW c, Good(c), c.pc = "next", NEW n \in c.todo
  PROVE  Good([c EXCEPT !.pc = "exchange", !.target = n, !.todo = c.todo \ {n}, !.ttl = TTL])
<1> DEFINE d == [c EXCEPT !.pc = "exchange", !.target = n, !.todo = c.todo \ {n},
                          !.ttl = TTL]
<1>1. Shaped(d)
  BY DEF Good, Shaped
<1>2. /\ SameCall(c, d) /\ SameWork(c, d) /\ d.pc = "exchange" /\ d.after = c.after
      /\ d.target = n /\ d.redirect = c.redirect /\ d.todo = c.todo \ {n} /\ d.ttl = TTL
      /\ d.tries = c.tries
  BY DEF Good, Shaped, CallFields, SameCall, SameWork
<1> HIDE DEF d
<1>0. TTL \in 0..TTL /\ n \in Nodes
  BY ClusterClientAssumption DEF Good, Typed
<1>3. Typed(d)
  BY <1>2, <1>0, ClusterClientAssumption DEF Good, Typed, SameCall, SameWork
<1>4. Placed(d) /\ Timed(d) /\ Releases(d)
  <2>1. c.after # "batch"
    BY DEF Good, Timed
  <2> QED
    BY <1>2, <1>0, <2>1 DEF Good, Placed, Timed, Releases, SameCall, SameWork
<1>5. Amounts(c, d)
  BY <1>2, <1>3, AmountsLemma DEF Good, SameCall
<1>6. Turn(d) <= Turn(c)
  <2>1. Cardinality(d.todo) = Cardinality(c.todo) - 1
    BY <1>2, SizeLemma DEF Good, Typed
  <2> QED
    BY <1>2, <1>5, <2>1 DEF Amounts, Turn, Looping
<1>7. ASSUME NEW j \in DOMAIN c.fx PROVE Now(d, j) <= Now(c, j)
  BY <1>2, <1>5, <1>6
  DEF Good, Timed, Amounts, Now, Pass, Passing, Between, SameCall, SameWork
<1>8. Budgeted(d)
  BY <1>2, <1>3, <1>5, <1>7, KeptLemma DEF SameCall, SameWork
<1> QED
  BY <1>1, <1>3, <1>4, <1>8 DEF Good, d

LEMMA AnswerLemma ==
  ASSUME NEW c, Good(c), c.pc = "next", c.pipe, NEW g
  PROVE  Good([c EXCEPT !.res = [c.res EXCEPT ![c.i] = "ok"], !.pc = "retry", !.got = g])
<1> DEFINE d == [c EXCEPT !.res = [c.res EXCEPT ![c.i] = "ok"], !.pc = "retry", !.got = g]
<1>1. Shaped(d)
  BY DEF Good, Shaped
<1>2. /\ SameCall(c, d) /\ d.i = c.i /\ d.res = [c.res EXCEPT ![c.i] = "ok"]
      /\ d.fx = c.fx /\ d.redo = c.redo /\ d.batch = c.batch /\ d.passes = c.passes
      /\ d.held = c.held /\ d.left = c.left /\ d.count = c.count /\ d.pc = "retry"
      /\ d.after = c.after
      /\ d.target = c.target /\ d.redirect = c.redirect /\ d.todo = c.todo
      /\ d.ttl = c.ttl /\ d.tries = c.tries
  BY DEF Good, Shaped, CallFields, SameCall, SameWork
<1> HIDE DEF d
<1>3. Typed(d)
  BY <1>2, ClusterClientAssumption DEF Good, Typed, SameCall, SameWork
<1>4. Placed(d) /\ Timed(d) /\ Releases(d)
  BY <1>2, ClusterClientAssumption
  DEF Good, Typed, Placed, Timed, Releases, SameCall, SameWork
<1>5. Amounts(c, d)
  BY <1>2, <1>3, AmountsLemma DEF Good, SameCall
<1>6. Turn(d) <= Turn(c)
  BY <1>2, <1>5
  DEF Good, Typed, Timed, Amounts, Turn, Looping, SameCall, SameWork
<1>7. ASSUME NEW j \in DOMAIN c.fx PROVE Now(d, j) <= Now(c, j)
  BY <1>2, <1>5, <1>6
  DEF Good, Timed, Amounts, Now, Pass, Passing, Between, SameCall, SameWork
<1>8. Budgeted(d)
  BY <1>2, <1>3, <1>5, <1>7, KeptLemma DEF SameCall, SameWork
<1> QED
  BY <1>1, <1>3, <1>4, <1>8 DEF Good, d

\* Another round of the redirection loop.
LEMMA AskedLemma ==
  ASSUME NEW c, Good(c), c.pc = "loop", c.ttl > 1, c.redirect \in Nodes
  PROVE  Good([c EXCEPT !.pc = "exchange", !.ttl = c.ttl - 1, !.target = c.redirect,
                   !.redirect = None])
<1> DEFINE d == [c EXCEPT !.pc = "exchange", !.ttl = c.ttl - 1, !.target = c.redirect,
                          !.redirect = None]
<1>1. Shaped(d)
  BY DEF Good, Shaped
<1>2. /\ SameCall(c, d) /\ SameWork(c, d) /\ d.pc = "exchange" /\ d.after = c.after
      /\ d.target = c.redirect /\ d.redirect = None /\ d.todo = c.todo
      /\ d.ttl = c.ttl - 1 /\ d.tries = c.tries
  BY DEF Good, Shaped, CallFields, SameCall, SameWork
<1> HIDE DEF d
<1>0. c.ttl - 1 \in 0..TTL /\ c.ttl - 1 > 0
  BY ClusterClientAssumption DEF Good, Typed
<1>3. Typed(d)
  BY <1>2, <1>0, ClusterClientAssumption DEF Good, Typed, SameCall, SameWork
<1>4. Placed(d) /\ Timed(d) /\ Releases(d)
  BY <1>2, <1>0, ClusterClientAssumption
  DEF Good, Typed, Placed, Timed, Releases, SameCall, SameWork
<1>5. Amounts(c, d)
  BY <1>2, <1>3, AmountsLemma DEF Good, SameCall
<1>6. Turn(d) <= Turn(c)
  BY <1>2, <1>5, <1>0
  DEF Good, Typed, Timed, Amounts, Turn, Looping, SameCall, SameWork
<1>7. ASSUME NEW j \in DOMAIN c.fx PROVE Now(d, j) <= Now(c, j)
  BY <1>2, <1>5, <1>6
  DEF Good, Timed, Amounts, Now, Pass, Passing, Between, SameCall, SameWork
<1>8. Budgeted(d)
  BY <1>2, <1>3, <1>5, <1>7, KeptLemma DEF SameCall, SameWork
<1> QED
  BY <1>1, <1>3, <1>4, <1>8 DEF Good, d

LEMMA AgainLemma ==
  ASSUME NEW c, Good(c), c.pc = "loop", c.ttl > 1, NEW label,
         label = IF c.redirect = None THEN "exchange" ELSE "determine"
  PROVE  Good([c EXCEPT !.ttl = c.ttl - 1, !.redirect = None, !.pc = label])
<1> DEFINE d == [c EXCEPT !.ttl = c.ttl - 1, !.redirect = None, !.pc = label]
<1>1. Shaped(d)
  BY DEF Good, Shaped
<1>2. /\ SameCall(c, d) /\ SameWork(c, d) /\ d.pc = label /\ d.after = c.after
      /\ d.target = c.target /\ d.redirect = None /\ d.todo = c.todo /\ d.ttl = c.ttl - 1
      /\ d.tries = c.tries
  BY DEF Good, Shaped, CallFields, SameCall, SameWork
<1> HIDE DEF d
<1>0. c.ttl - 1 \in 0..TTL /\ c.ttl - 1 > 0
  BY ClusterClientAssumption DEF Good, Typed
<1>3. Typed(d)
  BY <1>2, <1>0, ClusterClientAssumption DEF Good, Typed, SameCall, SameWork
<1>4. Placed(d) /\ Timed(d) /\ Releases(d)
  BY <1>2, <1>0, ClusterClientAssumption
  DEF Good, Typed, Placed, Timed, Releases, SameCall, SameWork
<1>5. Amounts(c, d)
  BY <1>2, <1>3, AmountsLemma DEF Good, SameCall
<1>6. Turn(d) <= Turn(c)
  BY <1>2, <1>5, <1>0
  DEF Good, Typed, Timed, Amounts, Turn, Looping, SameCall, SameWork
<1>7. ASSUME NEW j \in DOMAIN c.fx PROVE Now(d, j) <= Now(c, j)
  BY <1>2, <1>5, <1>6
  DEF Good, Timed, Amounts, Now, Pass, Passing, Between, SameCall, SameWork
<1>8. Budgeted(d)
  BY <1>2, <1>3, <1>5, <1>7, KeptLemma DEF SameCall, SameWork
<1> QED
  BY <1>1, <1>3, <1>4, <1>8 DEF Good, d

\* The command was executed, and answered or not.
LEMMA ExecutedLemma ==
  ASSUME NEW c, Good(c), c.pc = "exchange"
  PROVE  Good([c EXCEPT !.fx = [c.fx EXCEPT ![c.i] = c.fx[c.i] + 1], !.pc = "next", !.ttl = 0,
                   !.target = None, !.asking = FALSE])
<1> DEFINE d == [c EXCEPT !.fx = [c.fx EXCEPT ![c.i] = c.fx[c.i] + 1], !.pc = "next",
                          !.ttl = 0, !.target = None, !.asking = FALSE]
<1>1. Shaped(d)
  BY DEF Good, Shaped
<1>2. /\ SameCall(c, d) /\ d.i = c.i /\ d.res = c.res
      /\ d.fx = [c.fx EXCEPT ![c.i] = c.fx[c.i] + 1] /\ d.redo = c.redo
      /\ d.batch = c.batch /\ d.passes = c.passes /\ d.held = c.held /\ d.left = c.left
      /\ d.count = c.count
      /\ d.pc = "next" /\ d.after = c.after /\ d.target = None /\ d.redirect = c.redirect
      /\ d.todo = c.todo /\ d.ttl = 0 /\ d.tries = c.tries
  BY DEF Good, Shaped, CallFields, SameCall, SameWork
<1> HIDE DEF d
<1>0. d.fx \in [DOMAIN c.cmds -> Nat]
  BY <1>2 DEF Good, Typed, Placed
<1>3. Typed(d)
  BY <1>2, <1>0, ClusterClientAssumption DEF Good, Typed, SameCall, SameWork
<1>4. Placed(d) /\ Timed(d) /\ Releases(d)
  BY <1>2, <1>0, ClusterClientAssumption
  DEF Good, Typed, Placed, Timed, Releases, SameCall, SameWork
<1>5. Amounts(c, d)
  BY <1>2, <1>3, AmountsLemma DEF Good, SameCall
<1>6. Turn(d) + 1 <= Turn(c)
  BY <1>2, <1>5 DEF Amounts, Turn, Looping
<1>7. ASSUME NEW j \in DOMAIN c.fx PROVE d.fx[j] + Now(d, j) <= c.fx[j] + Now(c, j)
  <2>1. c.fx[j] \in Nat
    BY DEF Good, Typed
  <2>2. d.fx[j] = IF j = c.i THEN c.fx[j] + 1 ELSE c.fx[j]
    BY <1>2
  <2>3. CASE c.pipe
    BY <1>2, <1>5, <1>6, <2>1, <2>2, <2>3
    DEF Good, Timed, Amounts, Now, Pass, Passing, Between, SameCall
  <2>4. CASE ~c.pipe
    <3>1. j = c.i
      BY <2>4 DEF Good, Placed
    <3> QED
      BY <1>2, <1>5, <1>6, <2>1, <2>2, <2>4, <3>1 DEF Amounts, Now, SameCall
  <2> QED
    BY <2>3, <2>4
<1>8. Budgeted(d)
  BY <1>0, <1>2, <1>3, <1>5, <1>7, SpentLemma DEF Good, Typed, SameCall
<1> QED
  BY <1>1, <1>3, <1>4, <1>8 DEF Good, d

LEMMA LostLemma ==
  ASSUME NEW c, Good(c), c.pc = "exchange"
  PROVE  Good([c EXCEPT !.fx = [c.fx EXCEPT ![c.i] = c.fx[c.i] + 1], !.pc = "broken"])
<1> DEFINE d == [c EXCEPT !.fx = [c.fx EXCEPT ![c.i] = c.fx[c.i] + 1], !.pc = "broken"]
<1>1. Shaped(d)
  BY DEF Good, Shaped
<1>2. /\ SameCall(c, d) /\ d.i = c.i /\ d.res = c.res
      /\ d.fx = [c.fx EXCEPT ![c.i] = c.fx[c.i] + 1] /\ d.redo = c.redo
      /\ d.batch = c.batch /\ d.passes = c.passes /\ d.held = c.held /\ d.left = c.left
      /\ d.count = c.count
      /\ d.pc = "broken" /\ d.after = c.after /\ d.target = c.target
      /\ d.redirect = c.redirect /\ d.todo = c.todo /\ d.ttl = c.ttl /\ d.tries = c.tries
  BY DEF Good, Shaped, CallFields, SameCall, SameWork
<1> HIDE DEF d
<1>0. d.fx \in [DOMAIN c.cmds -> Nat]
  BY <1>2 DEF Good, Typed, Placed
<1>3. Typed(d)
  BY <1>2, <1>0, ClusterClientAssumption DEF Good, Typed, SameCall, SameWork
<1>4. Placed(d) /\ Timed(d) /\ Releases(d)
  BY <1>2, <1>0, ClusterClientAssumption
  DEF Good, Typed, Placed, Timed, Releases, SameCall, SameWork
<1>5. Amounts(c, d)
  BY <1>2, <1>3, AmountsLemma DEF Good, SameCall
<1>6. Turn(d) + 1 <= Turn(c)
  BY <1>2, <1>5 DEF Amounts, Turn, Looping
<1>7. ASSUME NEW j \in DOMAIN c.fx PROVE d.fx[j] + Now(d, j) <= c.fx[j] + Now(c, j)
  <2>1. c.fx[j] \in Nat
    BY DEF Good, Typed
  <2>2. d.fx[j] = IF j = c.i THEN c.fx[j] + 1 ELSE c.fx[j]
    BY <1>2
  <2>3. CASE c.pipe
    BY <1>2, <1>5, <1>6, <2>1, <2>2, <2>3
    DEF Good, Timed, Amounts, Now, Pass, Passing, Between, SameCall
  <2>4. CASE ~c.pipe
    <3>1. j = c.i
      BY <2>4 DEF Good, Placed
    <3> QED
      BY <1>2, <1>5, <1>6, <2>1, <2>2, <2>4, <3>1 DEF Amounts, Now, SameCall
  <2> QED
    BY <2>3, <2>4
<1>8. Budgeted(d)
  BY <1>0, <1>2, <1>3, <1>5, <1>7, SpentLemma DEF Good, Typed, SameCall
<1> QED
  BY <1>1, <1>3, <1>4, <1>8 DEF Good, d

LEMMA BrokenLemma ==
  ASSUME NEW c, Good(c), c.pc = "exchange"
  PROVE  Good([c EXCEPT !.pc = "broken"])
<1> DEFINE d == [c EXCEPT !.pc = "broken"]
<1>1. Shaped(d)
  BY DEF Good, Shaped
<1>2. /\ SameCall(c, d) /\ SameWork(c, d) /\ d.pc = "broken" /\ d.after = c.after
      /\ d.target = c.target /\ d.redirect = c.redirect /\ d.todo = c.todo
      /\ d.ttl = c.ttl /\ d.tries = c.tries
  BY DEF Good, Shaped, CallFields, SameCall, SameWork
<1> HIDE DEF d
<1>3. Typed(d)
  BY <1>2, ClusterClientAssumption DEF Good, Typed, SameCall, SameWork
<1>4. Placed(d) /\ Timed(d) /\ Releases(d)
  BY <1>2, ClusterClientAssumption
  DEF Good, Typed, Placed, Timed, Releases, SameCall, SameWork
<1>5. Amounts(c, d)
  BY <1>2, <1>3, AmountsLemma DEF Good, SameCall
<1>6. Turn(d) <= Turn(c)
  BY <1>2, <1>5
  DEF Good, Typed, Timed, Amounts, Turn, Looping, SameCall, SameWork
<1>7. ASSUME NEW j \in DOMAIN c.fx PROVE Now(d, j) <= Now(c, j)
  BY <1>2, <1>5, <1>6
  DEF Good, Timed, Amounts, Now, Pass, Passing, Between, SameCall, SameWork
<1>8. Budgeted(d)
  BY <1>2, <1>3, <1>5, <1>7, KeptLemma DEF SameCall, SameWork
<1> QED
  BY <1>1, <1>3, <1>4, <1>8 DEF Good, d

\* The server answers with an error.
LEMMA MovedLemma ==
  ASSUME NEW c, Good(c), c.pc = "exchange", c.kind = "key", NEW n \in Nodes
  PROVE  Good([c EXCEPT !.pc = "count", !.asking = FALSE, !.redirect = n])
<1> DEFINE d == [c EXCEPT !.pc = "count", !.asking = FALSE, !.redirect = n]
<1>1. Shaped(d)
  BY DEF Good, Shaped
<1>2. /\ SameCall(c, d) /\ SameWork(c, d) /\ d.pc = "count" /\ d.after = c.after
      /\ d.target = c.target /\ d.redirect = n /\ d.todo = c.todo /\ d.ttl = c.ttl
      /\ d.tries = c.tries
  BY DEF Good, Shaped, CallFields, SameCall, SameWork
<1> HIDE DEF d
<1>3. Typed(d)
  BY <1>2, ClusterClientAssumption DEF Good, Typed, SameCall, SameWork
<1>4. Placed(d) /\ Timed(d) /\ Releases(d)
  BY <1>2, ClusterClientAssumption
  DEF Good, Typed, Placed, Timed, Releases, SameCall, SameWork
<1>5. Amounts(c, d)
  BY <1>2, <1>3, AmountsLemma DEF Good, SameCall
<1>6. Turn(d) <= Turn(c)
  BY <1>2, <1>5
  DEF Good, Typed, Timed, Amounts, Turn, Looping, SameCall, SameWork
<1>7. ASSUME NEW j \in DOMAIN c.fx PROVE Now(d, j) <= Now(c, j)
  BY <1>2, <1>5, <1>6
  DEF Good, Timed, Amounts, Now, Pass, Passing, Between, SameCall, SameWork
<1>8. Budgeted(d)
  BY <1>2, <1>3, <1>5, <1>7, KeptLemma DEF SameCall, SameWork
<1> QED
  BY <1>1, <1>3, <1>4, <1>8 DEF Good, d

LEMMA AskLemma ==
  ASSUME NEW c, Good(c), c.pc = "exchange", c.kind = "key", NEW n \in Nodes
  PROVE  Good([c EXCEPT !.pc = "loop", !.asking = TRUE, !.redirect = n])
<1> DEFINE d == [c EXCEPT !.pc = "loop", !.asking = TRUE, !.redirect = n]
<1>1. Shaped(d)
  BY DEF Good, Shaped
<1>2. /\ SameCall(c, d) /\ SameWork(c, d) /\ d.pc = "loop" /\ d.after = c.after
      /\ d.target = c.target /\ d.redirect = n /\ d.todo = c.todo /\ d.ttl = c.ttl
      /\ d.tries = c.tries
  BY DEF Good, Shaped, CallFields, SameCall, SameWork
<1> HIDE DEF d
<1>3. Typed(d)
  BY <1>2, ClusterClientAssumption DEF Good, Typed, SameCall, SameWork
<1>4. Placed(d) /\ Timed(d) /\ Releases(d)
  BY <1>2, ClusterClientAssumption
  DEF Good, Typed, Placed, Timed, Releases, SameCall, SameWork
<1>5. Amounts(c, d)
  BY <1>2, <1>3, AmountsLemma DEF Good, SameCall
<1>6. Turn(d) <= Turn(c)
  BY <1>2, <1>5
  DEF Good, Typed, Timed, Amounts, Turn, Looping, SameCall, SameWork
<1>7. ASSUME NEW j \in DOMAIN c.fx PROVE Now(d, j) <= Now(c, j)
  BY <1>2, <1>5, <1>6
  DEF Good, Timed, Amounts, Now, Pass, Passing, Between, SameCall, SameWork
<1>8. Budgeted(d)
  BY <1>2, <1>3, <1>5, <1>7, KeptLemma DEF SameCall, SameWork
<1> QED
  BY <1>1, <1>3, <1>4, <1>8 DEF Good, d

LEMMA RepeatLemma ==
  ASSUME NEW c, Good(c), c.pc = "exchange", NEW label \in {"loop", "down"}
  PROVE  Good([c EXCEPT !.pc = label, !.asking = FALSE])
<1> DEFINE d == [c EXCEPT !.pc = label, !.asking = FALSE]
<1>1. Shaped(d)
  BY DEF Good, Shaped
<1>2. /\ SameCall(c, d) /\ SameWork(c, d) /\ d.pc = label /\ d.after = c.after
      /\ d.target = c.target /\ d.redirect = c.redirect /\ d.todo = c.todo
      /\ d.ttl = c.ttl /\ d.tries = c.tries
  BY DEF Good, Shaped, CallFields, SameCall, SameWork
<1> HIDE DEF d
<1>3. Typed(d)
  BY <1>2, ClusterClientAssumption DEF Good, Typed, SameCall, SameWork
<1>4. Placed(d) /\ Timed(d) /\ Releases(d)
  BY <1>2, ClusterClientAssumption
  DEF Good, Typed, Placed, Timed, Releases, SameCall, SameWork
<1>5. Amounts(c, d)
  BY <1>2, <1>3, AmountsLemma DEF Good, SameCall
<1>6. Turn(d) <= Turn(c)
  BY <1>2, <1>5
  DEF Good, Typed, Timed, Amounts, Turn, Looping, SameCall, SameWork
<1>7. ASSUME NEW j \in DOMAIN c.fx PROVE Now(d, j) <= Now(c, j)
  BY <1>2, <1>5, <1>6
  DEF Good, Timed, Amounts, Now, Pass, Passing, Between, SameCall, SameWork
<1>8. Budgeted(d)
  BY <1>2, <1>3, <1>5, <1>7, KeptLemma DEF SameCall, SameWork
<1> QED
  BY <1>1, <1>3, <1>4, <1>8 DEF Good, d

\* initialize() before the error goes on.
LEMMA InitializeLemma ==
  ASSUME NEW c, Good(c), c.pc \in {"broken", "down"}, NEW e
  PROVE  Good([c EXCEPT !.pc = "init", !.after = "raise", !.error = e, !.ttl = 0,
                   !.target = None, !.asking = FALSE])
<1> DEFINE d == [c EXCEPT !.pc = "init", !.after = "raise", !.error = e, !.ttl = 0,
                          !.target = None, !.asking = FALSE]
<1>1. Shaped(d)
  BY DEF Good, Shaped
<1>2. /\ SameCall(c, d) /\ SameWork(c, d) /\ d.pc = "init" /\ d.after = "raise"
      /\ d.target = None /\ d.redirect = c.redirect /\ d.todo = c.todo /\ d.ttl = 0
      /\ d.tries = c.tries
  BY DEF Good, Shaped, CallFields, SameCall, SameWork
<1> HIDE DEF d
<1>3. Typed(d)
  BY <1>2, ClusterClientAssumption DEF Good, Typed, SameCall, SameWork
<1>4. Placed(d) /\ Timed(d) /\ Releases(d)
  BY <1>2, ClusterClientAssumption
  DEF Good, Typed, Placed, Timed, Releases, SameCall, SameWork
<1>5. Amounts(c, d)
  BY <1>2, <1>3, AmountsLemma DEF Good, SameCall
<1>6. Turn(d) <= Turn(c)
  BY <1>2, <1>5
  DEF Good, Typed, Timed, Amounts, Turn, Looping, SameCall, SameWork
<1>7. ASSUME NEW j \in DOMAIN c.fx PROVE Now(d, j) <= Now(c, j)
  BY <1>2, <1>5, <1>6
  DEF Good, Timed, Amounts, Now, Pass, Passing, Between, SameCall, SameWork
<1>8. Budgeted(d)
  BY <1>2, <1>3, <1>5, <1>7, KeptLemma DEF SameCall, SameWork
<1> QED
  BY <1>1, <1>3, <1>4, <1>8 DEF Good, d

\* reinitialize_counter of a pipeline.
LEMMA CountLemma ==
  ASSUME NEW c, Good(c), NEW k \in Nat
  PROVE  Good([c EXCEPT !.count = k])
<1> DEFINE d == [c EXCEPT !.count = k]
<1>1. Shaped(d)
  BY DEF Good, Shaped
<1>2. /\ SameCall(c, d) /\ d.i = c.i /\ d.res = c.res /\ d.fx = c.fx /\ d.redo = c.redo
      /\ d.batch = c.batch /\ d.passes = c.passes /\ d.held = c.held /\ d.left = c.left
      /\ d.count = k
      /\ d.pc = c.pc /\ d.after = c.after /\ d.target = c.target
      /\ d.redirect = c.redirect /\ d.todo = c.todo /\ d.ttl = c.ttl /\ d.tries = c.tries
  BY DEF Good, Shaped, CallFields, SameCall, SameWork
<1> HIDE DEF d
<1>3. Typed(d)
  BY <1>2, ClusterClientAssumption DEF Good, Typed, SameCall, SameWork
<1>4. Placed(d) /\ Timed(d) /\ Releases(d)
  BY <1>2, ClusterClientAssumption
  DEF Good, Typed, Placed, Timed, Releases, SameCall, SameWork
<1>5. Amounts(c, d)
  BY <1>2, <1>3, AmountsLemma DEF Good, SameCall
<1>6. Turn(d) <= Turn(c)
  BY <1>2, <1>5
  DEF Good, Typed, Timed, Amounts, Turn, Looping, SameCall, SameWork
<1>7. ASSUME NEW j \in DOMAIN c.fx PROVE Now(d, j) <= Now(c, j)
  BY <1>2, <1>5, <1>6
  DEF Good, Timed, Amounts, Now, Pass, Passing, Between, SameCall, SameWork
<1>8. Budgeted(d)
  BY <1>2, <1>3, <1>5, <1>7, KeptLemma DEF SameCall, SameWork
<1> QED
  BY <1>1, <1>3, <1>4, <1>8 DEF Good, d

LEMMA CountedLemma ==
  ASSUME NEW c, Good(c), c.pc = "count"
  PROVE  Good([c EXCEPT !.pc = "decide"])
<1> DEFINE d == [c EXCEPT !.pc = "decide"]
<1>1. Shaped(d)
  BY DEF Good, Shaped
<1>2. /\ SameCall(c, d) /\ SameWork(c, d) /\ d.pc = "decide" /\ d.after = c.after
      /\ d.target = c.target /\ d.redirect = c.redirect /\ d.todo = c.todo
      /\ d.ttl = c.ttl /\ d.tries = c.tries
  BY DEF Good, Shaped, CallFields, SameCall, SameWork
<1> HIDE DEF d
<1>3. Typed(d)
  BY <1>2, ClusterClientAssumption DEF Good, Typed, SameCall, SameWork
<1>4. Placed(d) /\ Timed(d) /\ Releases(d)
  BY <1>2, ClusterClientAssumption
  DEF Good, Typed, Placed, Timed, Releases, SameCall, SameWork
<1>5. Amounts(c, d)
  BY <1>2, <1>3, AmountsLemma DEF Good, SameCall
<1>6. Turn(d) <= Turn(c)
  BY <1>2, <1>5
  DEF Good, Typed, Timed, Amounts, Turn, Looping, SameCall, SameWork
<1>7. ASSUME NEW j \in DOMAIN c.fx PROVE Now(d, j) <= Now(c, j)
  BY <1>2, <1>5, <1>6
  DEF Good, Timed, Amounts, Now, Pass, Passing, Between, SameCall, SameWork
<1>8. Budgeted(d)
  BY <1>2, <1>3, <1>5, <1>7, KeptLemma DEF SameCall, SameWork
<1> QED
  BY <1>1, <1>3, <1>4, <1>8 DEF Good, d

LEMMA RenewLemma ==
  ASSUME NEW c, Good(c), c.pc = "decide"
  PROVE  Good([c EXCEPT !.pc = "init", !.after = "loop"])
<1> DEFINE d == [c EXCEPT !.pc = "init", !.after = "loop"]
<1>1. Shaped(d)
  BY DEF Good, Shaped
<1>2. /\ SameCall(c, d) /\ SameWork(c, d) /\ d.pc = "init" /\ d.after = "loop"
      /\ d.target = c.target /\ d.redirect = c.redirect /\ d.todo = c.todo
      /\ d.ttl = c.ttl /\ d.tries = c.tries
  BY DEF Good, Shaped, CallFields, SameCall, SameWork
<1> HIDE DEF d
<1>3. Typed(d)
  BY <1>2, ClusterClientAssumption DEF Good, Typed, SameCall, SameWork
<1>4. Placed(d) /\ Timed(d) /\ Releases(d)
  BY <1>2, ClusterClientAssumption
  DEF Good, Typed, Placed, Timed, Releases, SameCall, SameWork
<1>5. Amounts(c, d)
  BY <1>2, <1>3, AmountsLemma DEF Good, SameCall
<1>6. Turn(d) <= Turn(c)
  BY <1>2, <1>5
  DEF Good, Typed, Timed, Amounts, Turn, Looping, SameCall, SameWork
<1>7. ASSUME NEW j \in DOMAIN c.fx PROVE Now(d, j) <= Now(c, j)
  BY <1>2, <1>5, <1>6
  DEF Good, Timed, Amounts, Now, Pass, Passing, Between, SameCall, SameWork
<1>8. Budgeted(d)
  BY <1>2, <1>3, <1>5, <1>7, KeptLemma DEF SameCall, SameWork
<1> QED
  BY <1>1, <1>3, <1>4, <1>8 DEF Good, d

LEMMA LeftLemma ==
  ASSUME NEW c, Good(c), c.pc = "decide"
  PROVE  Good([c EXCEPT !.pc = "loop"])
<1> DEFINE d == [c EXCEPT !.pc = "loop"]
<1>1. Shaped(d)
  BY DEF Good, Shaped
<1>2. /\ SameCall(c, d) /\ SameWork(c, d) /\ d.pc = "loop" /\ d.after = c.after
      /\ d.target = c.target /\ d.redirect = c.redirect /\ d.todo = c.todo
      /\ d.ttl = c.ttl /\ d.tries = c.tries
  BY DEF Good, Shaped, CallFields, SameCall, SameWork
<1> HIDE DEF d
<1>3. Typed(d)
  BY <1>2, ClusterClientAssumption DEF Good, Typed, SameCall, SameWork
<1>4. Placed(d) /\ Timed(d) /\ Releases(d)
  BY <1>2, ClusterClientAssumption
  DEF Good, Typed, Placed, Timed, Releases, SameCall, SameWork
<1>5. Amounts(c, d)
  BY <1>2, <1>3, AmountsLemma DEF Good, SameCall
<1>6. Turn(d) <= Turn(c)
  BY <1>2, <1>5
  DEF Good, Typed, Timed, Amounts, Turn, Looping, SameCall, SameWork
<1>7. ASSUME NEW j \in DOMAIN c.fx PROVE Now(d, j) <= Now(c, j)
  BY <1>2, <1>5, <1>6
  DEF Good, Timed, Amounts, Now, Pass, Passing, Between, SameCall, SameWork
<1>8. Budgeted(d)
  BY <1>2, <1>3, <1>5, <1>7, KeptLemma DEF SameCall, SameWork
<1> QED
  BY <1>1, <1>3, <1>4, <1>8 DEF Good, d

\* initialize() is over.
LEMMA InitializedLemma ==
  ASSUME NEW c, Good(c), c.pc = "init", NEW label, label = c.after
  PROVE  Good([c EXCEPT !.pc = label, !.after = "none"])
<1> DEFINE d == [c EXCEPT !.pc = label, !.after = "none"]
<1>1. Shaped(d)
  BY DEF Good, Shaped
<1>2. /\ SameCall(c, d) /\ SameWork(c, d) /\ d.pc = label /\ d.after = "none"
      /\ d.target = c.target /\ d.redirect = c.redirect /\ d.todo = c.todo
      /\ d.ttl = c.ttl /\ d.tries = c.tries
  BY DEF Good, Shaped, CallFields, SameCall, SameWork
<1> HIDE DEF d
<1>3. Typed(d)
  BY <1>2, ClusterClientAssumption DEF Good, Typed, SameCall, SameWork
<1>4. Placed(d) /\ Timed(d) /\ Releases(d)
  BY <1>2, ClusterClientAssumption
  DEF Good, Typed, Placed, Timed, Releases, SameCall, SameWork
<1>5. Amounts(c, d)
  BY <1>2, <1>3, AmountsLemma DEF Good, SameCall
<1>6. Turn(d) <= Turn(c)
  BY <1>2, <1>5
  DEF Good, Typed, Timed, Amounts, Turn, Looping, SameCall, SameWork
<1>7. ASSUME NEW j \in DOMAIN c.fx PROVE Now(d, j) <= Now(c, j)
  BY <1>2, <1>5, <1>6
  DEF Good, Timed, Amounts, Now, Pass, Passing, Between, SameCall, SameWork
<1>8. Budgeted(d)
  BY <1>2, <1>3, <1>5, <1>7, KeptLemma DEF SameCall, SameWork
<1> QED
  BY <1>1, <1>3, <1>4, <1>8 DEF Good, d

\* An attempt less.
LEMMA AttemptLemma ==
  ASSUME NEW c, Good(c), c.pc = "raise", c.tries > 0
  PROVE  Good([c EXCEPT !.pc = "determine", !.error = "none", !.tries = c.tries - 1,
                   !.todo = {}])
<1> DEFINE d == [c EXCEPT !.pc = "determine", !.error = "none", !.tries = c.tries - 1,
                          !.todo = {}]
<1>1. Shaped(d)
  BY DEF Good, Shaped
<1>2. /\ SameCall(c, d) /\ SameWork(c, d) /\ d.pc = "determine" /\ d.after = c.after
      /\ d.target = c.target /\ d.redirect = c.redirect /\ d.todo = {} /\ d.ttl = c.ttl
      /\ d.tries = c.tries - 1
  BY DEF Good, Shaped, CallFields, SameCall, SameWork
<1> HIDE DEF d
<1>0. c.tries - 1 \in 0..RetryAttempts /\ c.tries \in Nat \ {0} /\ c.ttl = 0
  BY ClusterClientAssumption DEF Good, Typed, Timed
<1>3. Typed(d)
  BY <1>2, <1>0, ClusterClientAssumption DEF Good, Typed, SameCall, SameWork
<1>4. Placed(d) /\ Timed(d) /\ Releases(d)
  BY <1>2, <1>0, ClusterClientAssumption
  DEF Good, Typed, Placed, Timed, Releases, SameCall, SameWork
<1>5. Width(d) = Width(c) /\ Bound(d) = Bound(c)
  BY <1>2, SameLemma DEF SameCall
<1>6. d.fx = c.fx /\ d.pipe = c.pipe /\ Turn(c) = 0 /\ Turn(d) = Width(c)
  BY <1>2, <1>0, <1>5 DEF Turn, Looping, SameCall, SameWork
<1>7. /\ Later(c) \in Nat /\ Later(d) \in Nat /\ Width(c) \in Nat /\ RetryAttempts \in Nat
      /\ \A j \in DOMAIN c.fx : Now(d, j) \in Nat /\ Now(c, j) \in Nat
  BY <1>3, AmountLemma DEF Good
<1>8. Budgeted(d)
  <2>1. CASE c.pipe
    <3>1. Later(d) = Later(c) /\ Width(c) = 1
      BY <1>2, <1>6, <2>1 DEF Later, Width, SameWork
    <3>2. c.after # "batch"
      BY DEF Good, Timed
    <3>3. ASSUME NEW j \in DOMAIN c.fx PROVE Now(d, j) <= Now(c, j)
      BY <1>2, <1>0, <1>6, <1>7, <2>1, <3>1, <3>2 DEF Now, Pass, Passing, Between, SameWork
    <3>4. Amounts(c, d)
      BY <1>2, <1>3, AmountsLemma DEF SameCall
    <3> QED
      BY <1>2, <1>6, <2>1, <3>3, <3>4, KeptLemma DEF SameWork
  <2>2. CASE ~c.pipe
    <3>1. Later(c) = Later(d) + Width(c)
      <4>1. Later(c) = c.tries * Width(c) /\ Later(d) = (c.tries - 1) * Width(c)
        BY <1>2, <1>5, <1>6, <2>2 DEF Later
      <4> QED
        BY <1>0, <1>7, <4>1, OneLessLemma
    <3>2. ASSUME NEW j \in DOMAIN d.fx PROVE d.fx[j] + Now(d, j) + Later(d) <= Bound(d)
      <4>1. Now(d, j) = Width(c) /\ Now(c, j) = 0
        BY <1>6, <2>2 DEF Now
      <4>2. c.fx[j] + Now(c, j) + Later(c) <= Bound(c) /\ c.fx[j] \in Nat
        BY <1>6 DEF Good, Budgeted, Typed
      <4> QED
        BY <1>5, <1>6, <1>7, <3>1, <4>1, <4>2
    <3> QED
      BY <3>2 DEF Budgeted
  <2> QED
    BY <2>1, <2>2
<1> QED
  BY <1>1, <1>3, <1>4, <1>8 DEF Good, d

LEMMA GivenUpLemma ==
  ASSUME NEW c, Good(c), c.pc = "raise", c.pipe, NEW e
  PROVE  Good([c EXCEPT !.res = [c.res EXCEPT ![c.i] = e], !.pc = "retry", !.error = "none",
                   !.todo = {}])
<1> DEFINE d == [c EXCEPT !.res = [c.res EXCEPT ![c.i] = e], !.pc = "retry",
                          !.error = "none", !.todo = {}]
<1>1. Shaped(d)
  BY DEF Good, Shaped
<1>2. /\ SameCall(c, d) /\ d.i = c.i /\ d.res = [c.res EXCEPT ![c.i] = e] /\ d.fx = c.fx
      /\ d.redo = c.redo /\ d.batch = c.batch /\ d.passes = c.passes /\ d.held = c.held
      /\ d.left = c.left
      /\ d.count = c.count /\ d.pc = "retry" /\ d.after = c.after /\ d.target = c.target
      /\ d.redirect = c.redirect /\ d.todo = {} /\ d.ttl = c.ttl /\ d.tries = c.tries
  BY DEF Good, Shaped, CallFields, SameCall, SameWork
<1> HIDE DEF d
<1>3. Typed(d)
  BY <1>2, ClusterClientAssumption DEF Good, Typed, SameCall, SameWork
<1>4. Placed(d) /\ Timed(d) /\ Releases(d)
  BY <1>2, ClusterClientAssumption
  DEF Good, Typed, Placed, Timed, Releases, SameCall, SameWork
<1>5. Amounts(c, d)
  BY <1>2, <1>3, AmountsLemma DEF Good, SameCall
<1>6. Turn(d) <= Turn(c)
  BY <1>2, <1>5
  DEF Good, Typed, Timed, Amounts, Turn, Looping, SameCall, SameWork
<1>7. ASSUME NEW j \in DOMAIN c.fx PROVE Now(d, j) <= Now(c, j)
  BY <1>2, <1>5, <1>6
  DEF Good, Timed, Amounts, Now, Pass, Passing, Between, SameCall, SameWork
<1>8. Budgeted(d)
  BY <1>2, <1>3, <1>5, <1>7, KeptLemma DEF SameCall, SameWork
<1> QED
  BY <1>1, <1>3, <1>4, <1>8 DEF Good, d

\* A pass less, and the batches are made.
LEMMA PassLemma ==
  ASSUME NEW c, Good(c), c.pc = "pass", c.passes # 0
  PROVE  Good([c EXCEPT !.pc = "determine", !.after = "batch", !.i = 1,
                   !.passes = c.passes - 1, !.tries = 0, !.batch = <<>>,
                   !.isDefault = FALSE, !.error = "none"])
<1> DEFINE d == [c EXCEPT !.pc = "determine", !.after = "batch", !.i = 1,
                          !.passes = c.passes - 1, !.tries = 0, !.batch = <<>>,
                          !.isDefault = FALSE, !.error = "none"]
<1>1. Shaped(d)
  BY DEF Good, Shaped
<1>2. /\ SameCall(c, d) /\ d.i = 1 /\ d.res = c.res /\ d.fx = c.fx /\ d.redo = c.redo
      /\ d.batch = <<>> /\ d.passes = c.passes - 1 /\ d.held = c.held /\ d.left = c.left
      /\ d.count = c.count
      /\ d.pc = "determine" /\ d.after = "batch" /\ d.target = c.target
      /\ d.redirect = c.redirect /\ d.todo = c.todo /\ d.ttl = c.ttl /\ d.tries = 0
  BY DEF Good, Shaped, CallFields, SameCall, SameWork
<1> HIDE DEF d
<1>0. /\ c.passes - 1 \in Nat /\ c.passes \in Nat \ {0} /\ c.ttl = 0 /\ c.pipe /\ c.kind = "key"
      /\ c.i \in DOMAIN c.cmds /\ 1 \in DOMAIN c.cmds /\ 0 \in 0..RetryAttempts
  <2>1. c.i \in DOMAIN c.cmds /\ c.cmds \in Seq(Slots)
    BY DEF Good, Placed, Typed
  <2>2. 1 \in DOMAIN c.cmds
    BY <2>1
  <2> QED
    BY <2>1, <2>2, ClusterClientAssumption DEF Good, Typed, Timed, Releases
<1>3. Typed(d)
  BY <1>2, <1>0, ClusterClientAssumption DEF Good, Typed, SameCall, SameWork
<1>4. Placed(d) /\ Timed(d) /\ Releases(d)
  BY <1>2, <1>0, ClusterClientAssumption
  DEF Good, Typed, Placed, Timed, Releases, SameCall, SameWork
<1>5. Bound(d) = Bound(c)
  BY <1>2, SameLemma DEF SameCall
<1>6. d.fx = c.fx /\ d.pipe = c.pipe
  BY <1>2 DEF SameCall
<1>7. Later(c) \in Nat /\ Later(d) \in Nat /\ RetryAttempts + 2 \in Nat /\ Bound(c) \in Nat
  BY <1>3, AmountLemma DEF Good
<1>8. Budgeted(d)
  <2>1. Later(c) = Later(d) + (RetryAttempts + 2)
    <3>1. /\ Later(c) = c.passes * (RetryAttempts + 2)
          /\ Later(d) = (c.passes - 1) * (RetryAttempts + 2)
      BY <1>2, <1>6, <1>0 DEF Later
    <3> QED
      BY <1>0, <1>7, <3>1, OneLessLemma
  <2>2. ASSUME NEW j \in DOMAIN d.fx PROVE d.fx[j] + Now(d, j) + Later(d) <= Bound(d)
    <3>1. Now(d, j) = RetryAttempts + 2
      BY <1>2, <1>6, <1>0 DEF Now, Pass, Passing
    <3>2. Now(c, j) = 0
      BY <1>0 DEF Now, Pass, Passing
    <3>3. c.fx[j] + Now(c, j) + Later(c) <= Bound(c) /\ c.fx[j] \in Nat
      BY <1>6 DEF Good, Budgeted, Typed
    <3> QED
      BY <1>5, <1>6, <1>7, <2>1, <3>1, <3>2, <3>3
  <2> QED
    BY <2>2 DEF Budgeted
<1> QED
  BY <1>1, <1>3, <1>4, <1>8 DEF Good, d

\* A connection more.
LEMMA ConnectedLemma ==
  ASSUME NEW c, Good(c), c.pc = "batch", c.i # Len(c.cmds)
  PROVE  Good([c EXCEPT !.held = c.held \cup {c.target}, !.batch = Append(c.batch, c.target),
                   !.target = None, !.i = c.i + 1, !.pc = "determine", !.after = "batch",
                   !.todo = {}])
<1> DEFINE d == [c EXCEPT !.held = c.held \cup {c.target},
                          !.batch = Append(c.batch, c.target), !.target = None,
                          !.i = c.i + 1, !.pc = "determine", !.after = "batch",
                          !.todo = {}]
<1>1. Shaped(d)
  BY DEF Good, Shaped
<1>2. /\ SameCall(c, d) /\ d.i = c.i + 1 /\ d.res = c.res /\ d.fx = c.fx
      /\ d.redo = c.redo /\ d.batch = Append(c.batch, c.target) /\ d.passes = c.passes
      /\ d.held = c.held \cup {c.target} /\ d.left = c.left /\ d.count = c.count
      /\ d.pc = "determine"
      /\ d.after = "batch" /\ d.target = None /\ d.redirect = c.redirect /\ d.todo = {}
      /\ d.ttl = c.ttl /\ d.tries = c.tries
  BY DEF Good, Shaped, CallFields, SameCall, SameWork
<1> HIDE DEF d
<1>0. /\ c.pipe /\ c.after = "batch" /\ c.target \in Nodes /\ c.i \in DOMAIN c.cmds
      /\ c.i \in Nat /\ c.held \cup {c.target} \subseteq Nodes /\ c.ttl = 0
      /\ c.kind = "key" /\ ~c.read
      /\ c.i + 1 \in DOMAIN c.cmds
  <2>1. c.i \in DOMAIN c.cmds /\ c.cmds \in Seq(Slots) /\ DOMAIN c.cmds = 1..Len(c.cmds)
    BY DEF Good, Placed, Typed
  <2>2. c.i + 1 \in DOMAIN c.cmds /\ c.i \in Nat
    BY <2>1
  <2> QED
    BY <2>1, <2>2, ClusterClientAssumption DEF Good, Typed, Timed, Placed, Releases
<1>3. Typed(d)
  BY <1>2, <1>0, ClusterClientAssumption DEF Good, Typed, SameCall, SameWork
<1>4. Placed(d) /\ Timed(d) /\ Releases(d)
  BY <1>2, <1>0, ClusterClientAssumption
  DEF Good, Typed, Placed, Timed, Releases, SameCall, SameWork
<1>5. Amounts(c, d)
  BY <1>2, <1>3, AmountsLemma DEF Good, SameCall
<1>7. ASSUME NEW j \in DOMAIN c.fx PROVE Now(d, j) <= Now(c, j)
  BY <1>2, <1>5, <1>0
  DEF Good, Timed, Amounts, Now, Pass, Passing, Between, SameCall, SameWork
<1>8. Budgeted(d)
  BY <1>2, <1>3, <1>5, <1>7, KeptLemma DEF SameCall, SameWork
<1> QED
  BY <1>1, <1>3, <1>4, <1>8 DEF Good, d

LEMMA BatchedLemma ==
  ASSUME NEW c, Good(c), c.pc = "batch", c.i = Len(c.cmds)
  PROVE  Good([c EXCEPT !.held = c.held \cup {c.target}, !.batch = Append(c.batch, c.target),
                   !.target = None, !.i = 1, !.pc = "write", !.after = "none",
                   !.todo = c.held \cup {c.target}])
<1> DEFINE d == [c EXCEPT !.held = c.held \cup {c.target},
                          !.batch = Append(c.batch, c.target), !.target = None, !.i = 1,
                          !.pc = "write", !.after = "none",
                          !.todo = c.held \cup {c.target}]
<1>1. Shaped(d)
  BY DEF Good, Shaped
<1>2. /\ SameCall(c, d) /\ d.i = 1 /\ d.res = c.res /\ d.fx = c.fx /\ d.redo = c.redo
      /\ d.batch = Append(c.batch, c.target) /\ d.passes = c.passes
      /\ d.held = c.held \cup {c.target} /\ d.left = c.left /\ d.count = c.count /\ d.pc = "write"
      /\ d.after = "none" /\ d.target = None /\ d.redirect = c.redirect
      /\ d.todo = c.held \cup {c.target} /\ d.ttl = c.ttl /\ d.tries = c.tries
  BY DEF Good, Shaped, CallFields, SameCall, SameWork
<1> HIDE DEF d
<1>0. /\ c.pipe /\ c.after = "batch" /\ c.target \in Nodes /\ c.i \in DOMAIN c.cmds
      /\ c.i \in Nat /\ c.held \cup {c.target} \subseteq Nodes /\ c.ttl = 0
      /\ c.kind = "key" /\ ~c.read
      /\ 1 \in DOMAIN c.cmds
  <2>1. c.i \in DOMAIN c.cmds /\ c.cmds \in Seq(Slots) /\ DOMAIN c.cmds = 1..Len(c.cmds)
    BY DEF Good, Placed, Typed
  <2>2. 1 \in DOMAIN c.cmds /\ c.i \in Nat
    BY <2>1
  <2> QED
    BY <2>1, <2>2, ClusterClientAssumption DEF Good, Typed, Timed, Placed, Releases
<1>3. Typed(d)
  BY <1>2, <1>0, ClusterClientAssumption DEF Good, Typed, SameCall, SameWork
<1>4. Placed(d) /\ Timed(d) /\ Releases(d)
  BY <1>2, <1>0, ClusterClientAssumption
  DEF Good, Typed, Placed, Timed, Releases, SameCall, SameWork
<1>5. Amounts(c, d)
  BY <1>2, <1>3, AmountsLemma DEF Good, SameCall
<1>7. ASSUME NEW j \in DOMAIN c.fx PROVE Now(d, j) <= Now(c, j)
  BY <1>2, <1>5, <1>0
  DEF Good, Timed, Amounts, Now, Pass, Passing, Between, SameCall, SameWork
<1>8. Budgeted(d)
  BY <1>2, <1>3, <1>5, <1>7, KeptLemma DEF SameCall, SameWork
<1> QED
  BY <1>1, <1>3, <1>4, <1>8 DEF Good, d

LEMMA UnconnectedLemma ==
  ASSUME NEW c, Good(c), c.pc = "batch", NEW e
  PROVE  Good([c EXCEPT !.pc = "init", !.after = "pass", !.error = e, !.ttl = 0,
                   !.target = None, !.asking = FALSE, !.held = {}])
<1> DEFINE d == [c EXCEPT !.pc = "init", !.after = "pass", !.error = e, !.ttl = 0,
                          !.target = None, !.asking = FALSE, !.held = {}]
<1>1. Shaped(d)
  BY DEF Good, Shaped
<1>2. /\ SameCall(c, d) /\ d.i = c.i /\ d.res = c.res /\ d.fx = c.fx /\ d.redo = c.redo
      /\ d.batch = c.batch /\ d.passes = c.passes /\ d.held = {} /\ d.left = c.left
      /\ d.count = c.count
      /\ d.pc = "init" /\ d.after = "pass" /\ d.target = None /\ d.redirect = c.redirect
      /\ d.todo = c.todo /\ d.ttl = 0 /\ d.tries = c.tries
  BY DEF Good, Shaped, CallFields, SameCall, SameWork
<1> HIDE DEF d
<1>0. c.pipe
  BY DEF Good, Timed
<1>3. Typed(d)
  BY <1>2, <1>0, ClusterClientAssumption DEF Good, Typed, SameCall, SameWork
<1>4. Placed(d) /\ Timed(d) /\ Releases(d)
  BY <1>2, <1>0, ClusterClientAssumption
  DEF Good, Typed, Placed, Timed, Releases, SameCall, SameWork
<1>5. Amounts(c, d)
  BY <1>2, <1>3, AmountsLemma DEF Good, SameCall
<1>7. ASSUME NEW j \in DOMAIN c.fx PROVE Now(d, j) <= Now(c, j)
  BY <1>2, <1>5, <1>0
  DEF Good, Timed, Amounts, Now, Pass, Passing, Between, SameCall, SameWork
<1>8. Budgeted(d)
  BY <1>2, <1>3, <1>5, <1>7, KeptLemma DEF SameCall, SameWork
<1> QED
  BY <1>1, <1>3, <1>4, <1>8 DEF Good, d

\* The commands of one node, of which the ones in done were executed.
LEMMA SentLemma ==
  ASSUME NEW c, Good(c), c.pc = "write", NEW n \in c.todo, NEW r, DOMAIN r = DOMAIN c.res,
         NEW done, \A j \in done : j \in DOMAIN c.batch /\ c.batch[j] = n, NEW g, NEW e,
         e \in [DOMAIN c.fx -> Nat],
         \A j \in DOMAIN c.fx : e[j] = IF j \in done THEN c.fx[j] + 1 ELSE c.fx[j]
  PROVE  Good([c EXCEPT !.todo = c.todo \ {n}, !.res = r, !.fx = e, !.got = g])
<1> DEFINE d == [c EXCEPT !.todo = c.todo \ {n}, !.res = r, !.fx = e, !.got = g]
<1>1. Shaped(d)
  BY DEF Good, Shaped
<1>2. /\ SameCall(c, d) /\ d.i = c.i /\ d.res = r /\ d.fx = e /\ d.redo = c.redo
      /\ d.batch = c.batch /\ d.passes = c.passes /\ d.held = c.held /\ d.left = c.left
      /\ d.count = c.count
      /\ d.pc = c.pc /\ d.after = c.after /\ d.target = c.target
      /\ d.redirect = c.redirect /\ d.todo = c.todo \ {n} /\ d.ttl = c.ttl
      /\ d.tries = c.tries
  BY DEF Good, Shaped, CallFields, SameCall, SameWork
<1> HIDE DEF d
<1>0. /\ d.fx \in [DOMAIN c.cmds -> Nat] /\ c.pipe
      /\ DOMAIN d.fx = DOMAIN c.fx /\ c.after # "batch"
  BY <1>2 DEF Good, Typed, Timed
<1>3. Typed(d)
  BY <1>2, <1>0, ClusterClientAssumption DEF Good, Typed, SameCall, SameWork
<1>4. Placed(d) /\ Timed(d) /\ Releases(d)
  BY <1>2, <1>0, ClusterClientAssumption
  DEF Good, Typed, Placed, Timed, Releases, SameCall, SameWork
<1>5. Amounts(c, d)
  BY <1>2, <1>3, AmountsLemma DEF Good, SameCall
<1>7. ASSUME NEW j \in DOMAIN c.fx PROVE d.fx[j] + Now(d, j) <= c.fx[j] + Now(c, j)
  <2>1. c.fx[j] \in Nat
    BY DEF Good, Typed
  <2>2. d.fx[j] = IF j \in done THEN c.fx[j] + 1 ELSE c.fx[j]
    BY <1>2
  <2>3. j \in done => c.batch[j] \in c.todo /\ c.batch[j] \notin d.todo
    BY <1>2
  <2>4. d.todo \subseteq c.todo
    BY <1>2
  <2> QED
    BY <1>2, <1>0, <1>5, <2>1, <2>2, <2>3, <2>4 DEF Amounts, Now, Pass, Passing, SameCall
<1>8. Budgeted(d)
  BY <1>0, <1>2, <1>3, <1>5, <1>7, SpentLemma DEF Good, SameCall
<1> QED
  BY <1>1, <1>3, <1>4, <1>8 DEF Good, d

\* The connections are released and the failed commands are collected.
LEMMA CollectedLemma ==
  ASSUME NEW c, Good(c), c.pc = "write", c.todo = {}, NEW failed,
         failed \subseteq DOMAIN c.res, NEW k \in Nat
  PROVE  Good([c EXCEPT !.redo = failed, !.count = k, !.held = {}, !.batch = <<>>,
                   !.pc = "retry"])
<1> DEFINE d == [c EXCEPT !.redo = failed, !.count = k, !.held = {}, !.batch = <<>>,
                          !.pc = "retry"]
<1>1. Shaped(d)
  BY DEF Good, Shaped
<1>2. /\ SameCall(c, d) /\ d.i = c.i /\ d.res = c.res /\ d.fx = c.fx /\ d.redo = failed
      /\ d.batch = <<>> /\ d.passes = c.passes /\ d.held = {} /\ d.left = c.left /\ d.count = k
      /\ d.pc = "retry" /\ d.after = c.after /\ d.target = c.target
      /\ d.redirect = c.redirect /\ d.todo = c.todo /\ d.ttl = c.ttl /\ d.tries = c.tries
  BY DEF Good, Shaped, CallFields, SameCall, SameWork
<1> HIDE DEF d
<1>0. c.pipe /\ c.after # "batch"
  BY DEF Good, Timed
<1>3. Typed(d)
  BY <1>2, <1>0, ClusterClientAssumption DEF Good, Typed, SameCall, SameWork
<1>4. Placed(d) /\ Timed(d) /\ Releases(d)
  BY <1>2, <1>0, ClusterClientAssumption
  DEF Good, Typed, Placed, Timed, Releases, SameCall, SameWork
<1>5. Amounts(c, d)
  BY <1>2, <1>3, AmountsLemma DEF Good, SameCall
<1>7. ASSUME NEW j \in DOMAIN c.fx PROVE Now(d, j) <= Now(c, j)
  BY <1>2, <1>5, <1>0
  DEF Good, Timed, Amounts, Now, Pass, Passing, Between, SameCall, SameWork
<1>8. Budgeted(d)
  BY <1>2, <1>3, <1>5, <1>7, KeptLemma DEF SameCall, SameWork
<1> QED
  BY <1>1, <1>3, <1>4, <1>8 DEF Good, d

LEMMA RenewedLemma ==
  ASSUME NEW c, Good(c), c.pc = "write", c.todo = {}, NEW failed,
         failed \subseteq DOMAIN c.res, NEW k \in Nat
  PROVE  Good([c EXCEPT !.redo = failed, !.count = k, !.held = {}, !.batch = <<>>,
                   !.pc = "init", !.after = "retry"])
<1> DEFINE d == [c EXCEPT !.redo = failed, !.count = k, !.held = {}, !.batch = <<>>,
                          !.pc = "init", !.after = "retry"]
<1>1. Shaped(d)
  BY DEF Good, Shaped
<1>2. /\ SameCall(c, d) /\ d.i = c.i /\ d.res = c.res /\ d.fx = c.fx /\ d.redo = failed
      /\ d.batch = <<>> /\ d.passes = c.passes /\ d.held = {} /\ d.left = c.left /\ d.count = k
      /\ d.pc = "init" /\ d.after = "retry" /\ d.target = c.target
      /\ d.redirect = c.redirect /\ d.todo = c.todo /\ d.ttl = c.ttl /\ d.tries = c.tries
  BY DEF Good, Shaped, CallFields, SameCall, SameWork
<1> HIDE DEF d
<1>0. c.pipe /\ c.after # "batch"
  BY DEF Good, Timed
<1>3. Typed(d)
  BY <1>2, <1>0, ClusterClientAssumption DEF Good, Typed, SameCall, SameWork
<1>4. Placed(d) /\ Timed(d) /\ Releases(d)
  BY <1>2, <1>0, ClusterClientAssumption
  DEF Good, Typed, Placed, Timed, Releases, SameCall, SameWork
<1>5. Amounts(c, d)
  BY <1>2, <1>3, AmountsLemma DEF Good, SameCall
<1>7. ASSUME NEW j \in DOMAIN c.fx PROVE Now(d, j) <= Now(c, j)
  BY <1>2, <1>5, <1>0
  DEF Good, Timed, Amounts, Now, Pass, Passing, Between, SameCall, SameWork
<1>8. Budgeted(d)
  BY <1>2, <1>3, <1>5, <1>7, KeptLemma DEF SameCall, SameWork
<1> QED
  BY <1>1, <1>3, <1>4, <1>8 DEF Good, d

\* The turn of a failed command.
LEMMA RetryLemma ==
  ASSUME NEW c, Good(c), c.pc = "retry", NEW m \in c.redo
  PROVE  Good([c EXCEPT !.pc = "determine", !.i = m, !.redo = c.redo \ {m},
                   !.tries = RetryAttempts, !.isDefault = FALSE])
<1> DEFINE d == [c EXCEPT !.pc = "determine", !.i = m, !.redo = c.redo \ {m},
                          !.tries = RetryAttempts, !.isDefault = FALSE]
<1>1. Shaped(d)
  BY DEF Good, Shaped
<1>2. /\ SameCall(c, d) /\ d.i = m /\ d.res = c.res /\ d.fx = c.fx
      /\ d.redo = c.redo \ {m} /\ d.batch = c.batch /\ d.passes = c.passes
      /\ d.held = c.held /\ d.left = c.left /\ d.count = c.count /\ d.pc = "determine"
      /\ d.after = c.after
      /\ d.target = c.target /\ d.redirect = c.redirect /\ d.todo = c.todo
      /\ d.ttl = c.ttl /\ d.tries = RetryAttempts
  BY DEF Good, Shaped, CallFields, SameCall, SameWork
<1> HIDE DEF d
<1>0. /\ c.pipe /\ c.after # "batch" /\ c.ttl = 0
      /\ RetryAttempts \in 0..RetryAttempts /\ c.kind = "key"
  BY ClusterClientAssumption DEF Good, Timed, Typed, Releases
<1>3. Typed(d)
  BY <1>2, <1>0, ClusterClientAssumption DEF Good, Typed, SameCall, SameWork
<1>4. Placed(d) /\ Timed(d) /\ Releases(d)
  BY <1>2, <1>0, ClusterClientAssumption
  DEF Good, Typed, Placed, Timed, Releases, SameCall, SameWork
<1>5. Amounts(c, d)
  BY <1>2, <1>3, AmountsLemma DEF Good, SameCall
<1>6. Turn(d) = 1
  BY <1>2, <1>0 DEF Turn, Looping, Width, SameCall
<1>7. ASSUME NEW j \in DOMAIN c.fx PROVE Now(d, j) <= Now(c, j)
  BY <1>2, <1>0, <1>5, <1>6 DEF Amounts, Now, Pass, Passing, Between, SameCall
<1>8. Budgeted(d)
  BY <1>0, <1>2, <1>3, <1>5, <1>7, KeptLemma DEF SameCall
<1> QED
  BY <1>1, <1>3, <1>4, <1>8 DEF Good, d

\* The first error, which send_cluster_commands catches.
LEMMA RaisedLemma ==
  ASSUME NEW c, Good(c), c.pc = "retry", NEW e
  PROVE  Good([c EXCEPT !.pc = "pass", !.error = e])
<1> DEFINE d == [c EXCEPT !.pc = "pass", !.error = e]
<1>1. Shaped(d)
  BY DEF Good, Shaped
<1>2. /\ SameCall(c, d) /\ SameWork(c, d) /\ d.pc = "pass" /\ d.after = c.after
      /\ d.target = c.target /\ d.redirect = c.redirect /\ d.todo = c.todo
      /\ d.ttl = c.ttl /\ d.tries = c.tries
  BY DEF Good, Shaped, CallFields, SameCall, SameWork
<1> HIDE DEF d
<1>0. c.pipe
  BY DEF Good, Timed
<1>3. Typed(d)
  BY <1>2, <1>0, ClusterClientAssumption DEF Good, Typed, SameCall, SameWork
<1>4. Placed(d) /\ Timed(d) /\ Releases(d)
  BY <1>2, <1>0, ClusterClientAssumption
  DEF Good, Typed, Placed, Timed, Releases, SameCall, SameWork
<1>5. Amounts(c, d)
  BY <1>2, <1>3, AmountsLemma DEF Good, SameCall
<1>6. Turn(d) <= Turn(c)
  BY <1>2, <1>5, <1>0
  DEF Good, Typed, Timed, Amounts, Turn, Looping, SameCall, SameWork
<1>7. ASSUME NEW j \in DOMAIN c.fx PROVE Now(d, j) <= Now(c, j)
  BY <1>2, <1>5, <1>6
  DEF Good, Timed, Amounts, Now, Pass, Passing, Between, SameCall, SameWork
<1>8. Budgeted(d)
  BY <1>2, <1>3, <1>5, <1>7, KeptLemma DEF SameCall, SameWork
<1> QED
  BY <1>1, <1>3, <1>4, <1>8 DEF Good, d

LEMMA OverStep ==
  ASSUME Calls, NEW t \in Threads, call[t].held = {}, call' = Over(t), counter' \in Nat
  PROVE  Calls'
<1> DEFINE l == call[t].left
           d == [Idle EXCEPT !.left = l]
<1>1. l \subseteq Nodes /\ (Certain => l = {})
  BY DEF Calls, Good, Typed, Releases
<1>2. call' = [call EXCEPT ![t] = d]
  <2>1. [Idle EXCEPT !.held = {}] = Idle
    <3>1. \A f : f = [x \in DOMAIN f |-> f[x]] /\ f.held = {} => [f EXCEPT !.held = {}] = f
      OBVIOUS
    <3>2. Idle = [x \in DOMAIN Idle |-> Idle[x]] /\ Idle.held = {}
      BY DEF Idle
    <3> QED
      BY <3>1, <3>2
  <2>2. call' = [call EXCEPT ![t] = [[Idle EXCEPT !.held = {}] EXCEPT !.left = l]]
    <3>1. \A f, x, y : [f EXCEPT !.held = x, !.left = y] = [[f EXCEPT !.held = x] EXCEPT !.left = y]
      OBVIOUS
    <3> QED
      BY <3>1 DEF Over
  <2> QED
    BY <2>1, <2>2
<1> HIDE DEF l
<1>3. Good(d)
  BY <1>1, IdleLemma
<1> QED
  BY <1>2, <1>3, CallLemma

LEMMA FailStep ==
  ASSUME Calls, NEW t \in Threads, Certain => ~Batching(t),
         call[t].pc \notin {"idle", "pass", "retry", "write"},
         call[t].pc = "init" => call[t].after \in {"loop", "raise"},
         NEW e, Fail(t, e), counter' \in Nat
  PROVE  Calls'
<1>1. CASE Batching(t)
  <2> DEFINE l == Left(call[t]).left
  <2>1. l = call[t].left \cup call[t].held
    BY DEF Calls, Good, Shaped, CallFields, Left
  <2>2. l \subseteq Nodes
    BY <2>1 DEF Calls, Good, Typed
  <2>3. call' = [call EXCEPT ![t] = [Idle EXCEPT !.left = l]]
    BY <1>1 DEF Fail
  <2> HIDE DEF l
  <2>4. Good([Idle EXCEPT !.left = l])
    BY <1>1, <2>2, IdleLemma
  <2> QED
    BY <2>3, <2>4, CallLemma
<1>2. CASE ~Batching(t)
  <2>1. PICK d : /\ Good(d)
                 /\ call' = [call EXCEPT ![t] = d]
    <3> DEFINE d == [call[t] EXCEPT !.pc = "raise", !.error = e, !.ttl = 0, !.target = None,
                        !.redirect = None, !.asking = FALSE, !.after = "none"]
    <3>1. Good(d)
      BY <1>2, FailLemma DEF Calls, Batching
    <3>2. call' = [call EXCEPT ![t] = d]
      BY <1>2 DEF Fail, Calls
    <3> QED
      BY <3>1, <3>2
  <2> QED
    BY <2>1, CallLemma
<1> QED
  BY <1>1, <1>2
-----------------------------------------------------------------------------
(***************************************************************************)
(* A call begins.                                                          *)
(***************************************************************************)
LEMMA CommandLemma ==
  ASSUME NEW kind \in Kinds, NEW s \in Slots, NEW read, NEW given \in BOOLEAN, NEW n,
         given => n \in Nodes, NEW l, l \subseteq Nodes, Certain => l = {},
         NEW b, Certain => b = {}
  PROVE  Good([Command(kind, s, read, given, n) EXCEPT !.bad = b, !.held = {}, !.left = l])
<1> DEFINE k == Attempts(given)
           label == IF given THEN "next" ELSE "determine"
           T == IF given THEN {n} ELSE {}
           r == read /\ kind = "key"
           c == [Idle EXCEPT !.pc = label, !.kind = kind, !.cmds = <<s>>,
                             !.res = <<"none">>, !.fx = <<0>>, !.read = r,
                             !.given = given, !.todo = T, !.tries = k]
           d == [c EXCEPT !.bad = b, !.held = {}, !.left = l]
<1>0. d = [Command(kind, s, read, given, n) EXCEPT !.bad = b, !.held = {}, !.left = l]
  BY DEF Command
<1>a. (given => \E m \in Nodes : T = {m}) /\ (~given => T = {})
  OBVIOUS
<1>b. label = IF given THEN "next" ELSE "determine"
  OBVIOUS
<1> HIDE DEF r, T, label
<1>1. Shaped(Idle)
  BY DEF Shaped, CallFields, Idle
<1>2. Shaped(d)
  BY <1>1 DEF Shaped
<1>3. /\ d.pc = label /\ d.pipe = FALSE /\ d.kind = kind /\ d.cmds = <<s>> /\ d.i = 1
      /\ d.given = given /\ d.res = <<"none">> /\ d.fx = <<0>> /\ d.tries = k /\ d.todo = T
      /\ d.target = None /\ d.ttl = 0 /\ d.redirect = None /\ d.held = {} /\ d.redo = {}
      /\ d.left = l /\ d.bad = b
      /\ d.count = 0 /\ d.passes = 0 /\ d.after = "none"
  BY DEF Idle
<1> HIDE DEF d, c
<1>4. RetryAttempts \in Nat /\ 0 \in 0..TTL /\ kind \in {"key", "default", "primaries"}
  BY ClusterClientAssumption
<1>5. k \in 0..RetryAttempts /\ k = IF given THEN 0 ELSE RetryAttempts
  BY <1>4 DEF Attempts
<1> HIDE DEF k
<1>6. /\ d.cmds \in Seq(Slots) /\ DOMAIN d.cmds = {1} /\ DOMAIN d.res = {1}
      /\ DOMAIN d.fx = {1} /\ d.fx[1] = 0 /\ d.fx \in [{1} -> Nat]
  BY <1>3
<1>7. T \subseteq Nodes
  BY <1>a
<1>8. Typed(d)
  BY <1>3, <1>4, <1>5, <1>6, <1>7 DEF Typed
<1>9. Placed(d) /\ Timed(d) /\ Releases(d)
  BY <1>b, <1>3, <1>6 DEF Placed, Timed, Releases
<1>10. Budgeted(d)
  <2>1. Cardinality(Nodes) \in Nat /\ Width(d) \in Nat /\ Bound(d) \in Nat /\ Later(d) \in Nat
    BY <1>8, AmountLemma, SizeLemma
  <2>2. Now(d, 1) = Turn(d) /\ Later(d) = k * Width(d)
    BY <1>3 DEF Now, Later
  <2>3. CASE given
    <3>1. PICK m \in Nodes : T = {m}
      BY <1>a, <2>3
    <3>2. Turn(d) = 1
      <4>1. Cardinality(T) = 1
        BY <3>1, FS_Singleton
      <4>2. d.pc = "next" /\ d.todo = T
        BY <1>b, <1>3, <2>3
      <4> QED
        BY <4>1, <4>2 DEF Turn, Looping
    <3>3. Width(d) >= 1
      BY <1>3, <2>1, <3>1, FS_EmptySet, NodesManagerAssumption DEF Width
    <3>4. Later(d) = 0
      BY <1>5, <2>1, <2>2, <2>3
    <3>5. Bound(d) = Width(d)
      BY <1>3, <2>1, <2>3 DEF Bound, Width
    <3> QED
      BY <1>6, <2>1, <2>2, <3>2, <3>3, <3>4, <3>5 DEF Budgeted
  <2>4. CASE ~given
    <3>1. Turn(d) = Width(d)
      BY <1>b, <1>3, <2>4 DEF Turn, Looping
    <3>2. Bound(d) = (RetryAttempts + 1) * Width(d)
      BY <1>3, <2>4 DEF Bound, Width
    <3>3. Later(d) = RetryAttempts * Width(d)
      BY <1>5, <2>2, <2>4
    <3>4. Bound(d) = Later(d) + Width(d)
      <4>1. RetryAttempts + 1 \in Nat \ {0} /\ (RetryAttempts + 1) - 1 = RetryAttempts
        BY <1>4
      <4>2. (RetryAttempts + 1) * Width(d)
               = ((RetryAttempts + 1) - 1) * Width(d) + Width(d)
        BY <4>1, <2>1, OneLessLemma
      <4> QED
        BY <3>2, <3>3, <4>1, <4>2
    <3> QED
      BY <1>6, <2>1, <2>2, <3>1, <3>4 DEF Budgeted
  <2> QED
    BY <2>3, <2>4
<1> QED
  BY <1>0, <1>2, <1>8, <1>9, <1>10 DEF Good

LEMMA PipelineLemma ==
  ASSUME NEW p \in Pipelines, NEW l, l \subseteq Nodes, Certain => l = {},
         NEW b, Certain => b = {}
  PROVE  Good([Idle EXCEPT !.pc = "pass", !.pipe = TRUE, !.cmds = p,
                           !.res = [i \in DOMAIN p |-> "none"],
                           !.fx = [i \in DOMAIN p |-> 0], !.passes = RetryAttempts + 1,
                           !.bad = b, !.held = {}, !.left = l])
<1> DEFINE d == [Idle EXCEPT !.pc = "pass", !.pipe = TRUE, !.cmds = p,
                             !.res = [i \in DOMAIN p |-> "none"],
                             !.fx = [i \in DOMAIN p |-> 0], !.passes = RetryAttempts + 1,
                             !.bad = b, !.held = {}, !.left = l]
<1>1. Shaped(Idle)
  BY DEF Shaped, CallFields, Idle
<1>2. Shaped(d)
  BY <1>1 DEF Shaped
<1>3. /\ d.pc = "pass" /\ d.pipe = TRUE /\ d.kind = "key" /\ d.cmds = p /\ d.i = 1
      /\ d.read = FALSE /\ d.res = [i \in DOMAIN p |-> "none"]
      /\ d.fx = [i \in DOMAIN p |-> 0] /\ d.tries = 0 /\ d.todo = {} /\ d.target = None
      /\ d.ttl = 0 /\ d.redirect = None /\ d.held = {} /\ d.redo = {} /\ d.count = 0
      /\ d.left = l /\ d.bad = b
      /\ d.passes = RetryAttempts + 1 /\ d.after = "none"
  BY DEF Idle
<1> HIDE DEF d
<1>4. RetryAttempts \in Nat /\ 0 \in 0..TTL /\ 0 \in 0..RetryAttempts
  BY ClusterClientAssumption
<1>5. p \in Seq(Slots) /\ 1 \in DOMAIN p
  <2>1. p \in Seq(Slots) /\ p # <<>>
    BY ClusterClientAssumption
  <2> QED
    BY <2>1
<1>6. Typed(d)
  BY <1>3, <1>4, <1>5 DEF Typed
<1>7. Placed(d) /\ Timed(d) /\ Releases(d)
  BY <1>3, <1>5 DEF Placed, Timed, Releases
<1>8. Budgeted(d)
  <2>1. Later(d) = Bound(d) /\ Bound(d) \in Nat
    BY <1>3, <1>6, AmountLemma DEF Later, Bound
  <2>2. \A j \in DOMAIN d.fx : d.fx[j] = 0 /\ Now(d, j) = 0
    BY <1>3 DEF Now, Pass, Passing
  <2> QED
    BY <2>1, <2>2 DEF Budgeted
<1> QED
  BY <1>2, <1>6, <1>7, <1>8 DEF Good, d
-----------------------------------------------------------------------------
(***************************************************************************)
(* One lemma per action.                                                   *)
(***************************************************************************)
Inv == Manager /\ Calls

LEMMA ManagerLemma ==
  ASSUME Manager, UNCHANGED managerVars
  PROVE  Manager'
BY DEF Manager, managerVars, serverVars, tableVars, Servers, Tables, Balancer,
       Initializations, Complete, Covered

LEMMA CallGood ==
  ASSUME Calls, NEW t \in Threads
  PROVE  Good(call[t]) /\ counter \in Nat
BY DEF Calls

LEMMA ExecuteCommandStep ==
  ASSUME Inv, NEW t \in Threads, ExecuteCommand(t)
  PROVE  Inv'
<1>1. Manager' /\ counter' \in Nat
  BY ManagerLemma DEF Inv, ExecuteCommand, OnlyCall, Calls
<1> DEFINE l == call[t].left
<1>2. call[t].held = {} /\ l \subseteq Nodes /\ (Certain => l = {})
  BY DEF ExecuteCommand, At, Inv, Calls, Good, Typed, Releases
<1>3. PICK kind \in Kinds, s \in Slots, read \in Reads, given \in BOOLEAN,
           b \in Bad(<<1>>) :
        \E n \in IF given THEN nodes_cache ELSE {None} :
          /\ kind # "key" => s = Min(Slots) /\ b = {}
          /\ given => kind \in Given /\ b = {}
          /\ call' = [call EXCEPT ![t] = [Command(kind, s, read, given, n) EXCEPT
                        !.bad = b, !.held = call[t].held, !.left = call[t].left]]
  BY Zenon DEF ExecuteCommand
<1>4. PICK n \in IF given THEN nodes_cache ELSE {None} :
        call' = [call EXCEPT ![t] = [Command(kind, s, read, given, n) EXCEPT
                                        !.bad = b, !.held = {}, !.left = l]]
  BY <1>2, <1>3
<1>5. (given => n \in Nodes) /\ (Certain => b = {})
  BY DEF Inv, Manager, Tables, Bad, Certain
<1> HIDE DEF l
<1>6. Good([Command(kind, s, read, given, n) EXCEPT !.bad = b, !.held = {}, !.left = l])
  BY <1>2, <1>5, CommandLemma
<1> QED
  BY <1>1, <1>4, <1>6, CallLemma DEF Inv

LEMMA ExecuteStep ==
  ASSUME Inv, NEW t \in Threads, Execute(t)
  PROVE  Inv'
<1>1. Manager' /\ counter' \in Nat
  BY ManagerLemma DEF Inv, Execute, OnlyCall, Calls
<1> DEFINE l == call[t].left
<1>2. call[t].held = {} /\ l \subseteq Nodes /\ (Certain => l = {})
  BY DEF Execute, At, Inv, Calls, Good, Typed, Releases
<1>3. PICK p \in Pipelines : \E b \in Bad(p) : call' = [call EXCEPT ![t] =
         [Idle EXCEPT !.pc = "pass", !.pipe = TRUE, !.cmds = p,
                      !.res = [i \in DOMAIN p |-> "none"],
                      !.fx = [i \in DOMAIN p |-> 0], !.passes = RetryAttempts + 1,
                      !.bad = b, !.held = {}, !.left = l]]
  BY <1>2 DEF Execute
<1>4. PICK b \in Bad(p) : call' = [call EXCEPT ![t] =
         [Idle EXCEPT !.pc = "pass", !.pipe = TRUE, !.cmds = p,
                      !.res = [i \in DOMAIN p |-> "none"],
                      !.fx = [i \in DOMAIN p |-> 0], !.passes = RetryAttempts + 1,
                      !.bad = b, !.held = {}, !.left = l]]
  BY <1>3
<1>5. Certain => b = {}
  BY DEF Bad, Certain
<1> HIDE DEF l
<1> QED
  BY <1>1, <1>2, <1>4, <1>5, CallLemma, PipelineLemma DEF Inv

LEMMA TargetsStep ==
  ASSUME Calls, NEW t \in Threads, call[t].pc \in {"determine", "pick"}, call[t].ttl = 0,
         call[t].after # "batch", NEW nodes, nodes \subseteq Nodes,
         Cardinality(nodes) <= Width(call[t]), Targets(t, nodes), counter' \in Nat
  PROVE  Calls'
<1>1. Good(call[t])
  BY CallGood
<1>2. CASE nodes = {}
  <2>1. ~Batching(t)
    BY DEF Batching
  <2> QED
    BY <1>2, <2>1, FailStep DEF Targets
<1>3. CASE nodes # {}
  <2> DEFINE b == call[t].isDefault \/ nodes = {default_node}
             d == [call[t] EXCEPT !.pc = "next", !.todo = nodes, !.isDefault = b]
  <2>1. call' = [call EXCEPT ![t] = d]
    BY <1>3 DEF Targets, Calls
  <2> HIDE DEF b
  <2>2. Good(d)
    BY <1>1, TargetsLemma
  <2> QED
    BY <2>1, <2>2, CallLemma
<1> QED
  BY <1>2, <1>3

LEMMA DetermineNodesStep ==
  ASSUME Inv, NEW t \in Threads, DetermineNodes(t)
  PROVE  Inv'
<1>1. Manager' /\ counter' \in Nat
  BY ManagerLemma DEF Inv, DetermineNodes, OnlyCall, Calls
<1> DEFINE nodes == IF call[t].kind = "default" THEN {default_node}
                    ELSE {n \in nodes_cache : server_type[n] = "primary"}
<1>2. /\ Good(call[t]) /\ Calls /\ call[t].pc = "determine"
      /\ call[t].kind # "key" /\ Targets(t, nodes)
  BY CallGood DEF Inv, DetermineNodes, At
<1>3. call[t].ttl = 0 /\ call[t].after # "batch" /\ ~call[t].pipe
  BY <1>2, ClusterClientAssumption DEF Good, Timed, Typed, Releases
<1>4. nodes \subseteq Nodes
  BY DEF Inv, Manager, Tables
<1>5. Cardinality(nodes) <= Width(call[t])
  <2>1. CASE call[t].kind = "default"
    BY <1>3, <2>1, FS_Singleton DEF Width
  <2>2. CASE call[t].kind # "default"
    <3>1. call[t].kind = "primaries"
      BY <1>2, <2>2 DEF Good, Typed
    <3> QED
      BY <1>3, <1>4, <3>1, SizeLemma DEF Width
  <2> QED
    BY <2>1, <2>2
<1> HIDE DEF nodes
<1> QED
  BY <1>1, <1>2, <1>3, <1>4, <1>5, TargetsStep DEF Inv

LEMMA DetermineSlotFailsStep ==
  ASSUME Inv, NEW t \in Threads, DetermineSlotFails(t)
  PROVE  Inv'
<1> DEFINE c == call[t]
<1>1. /\ Good(call[t]) /\ Calls /\ counter' \in Nat /\ call[t].pc = "determine"
      /\ Manager /\ call[t].ttl \in Nat
  BY CallGood, ClusterClientAssumption DEF Inv, DetermineSlotFails, At, Good, Typed
<1>2. Manager'
  <2>1. faults' \in 0..MaxFaults
    BY <1>1, NodesManagerAssumption
    DEF DetermineSlotFails, Fault, NoFault, Manager, Servers
  <2> QED
    BY <1>1, <2>1 DEF DetermineSlotFails, tableVars, Manager, Servers, Tables, Balancer,
                      Initializations, Complete, Covered
<1>3. ASSUME NEW e, Fail(t, e), Certain => ~Batching(t) PROVE Inv'
  BY <1>1, <1>2, <1>3, FailStep DEF Inv
<1>4. CASE c.i \in c.bad /\ Fail(t, "RedisClusterException")
  <2>1. ~Certain
    BY <1>1, <1>4 DEF Good, Releases
  <2> QED
    BY <1>3, <1>4, <2>1
<1>5. CASE /\ Batching(t) /\ Slot(t) \in Movable
           /\ call' = [call EXCEPT ![t] = [Left(c) EXCEPT !.pc = "pass", !.after = "none"]]
  <2> DEFINE d == [Left(call[t]) EXCEPT !.pc = "pass", !.after = "none"]
  <2>1. Good(d)
    BY <1>1, <1>5, AbandonedLemma DEF Batching, Certain
  <2>2. call' = [call EXCEPT ![t] = d]
    BY <1>5
  <2> HIDE DEF d
  <2> QED
    BY <1>1, <1>2, <2>1, <2>2, CallLemma DEF Inv
<1>6. CASE c.ttl > 0 /\ call' = [call EXCEPT ![t].pc = "broken"]
  <2> DEFINE d == [call[t] EXCEPT !.pc = "broken"]
  <2>1. Good(d)
    BY <1>1, <1>6, LookupLemma
  <2>2. call' = [call EXCEPT ![t] = d]
    BY <1>6
  <2> QED
    BY <1>1, <1>2, <2>1, <2>2, CallLemma DEF Inv
<1>7. CASE ~Batching(t) /\ Fail(t, "conn")
  BY <1>3, <1>7
<1> QED
  BY <1>4, <1>5, <1>6, <1>7 DEF DetermineSlotFails

LEMMA PickedStep ==
  ASSUME Calls, NEW t \in Threads, call[t].pc \in {"determine", "pick"},
         call[t].kind = "key", NEW n \in Nodes, Picked(t, n), counter' \in Nat
  PROVE  Calls'
<1>1. Good(call[t]) /\ call[t].ttl \in Nat
  BY CallGood, ClusterClientAssumption DEF Good, Typed
<1>2. CASE Batching(t)
  <2> DEFINE b == call[t].isDefault \/ n = default_node
             d == [call[t] EXCEPT !.pc = "batch", !.target = n, !.isDefault = b]
  <2>1. call' = [call EXCEPT ![t] = d]
    BY <1>2 DEF Picked, Calls
  <2> HIDE DEF b
  <2>2. Good(d)
    BY <1>1, <1>2, BatchLemma DEF Batching
  <2> QED
    BY <2>1, <2>2, CallLemma
<1>3. CASE ~Batching(t) /\ call[t].ttl > 0
  <2> DEFINE d == [call[t] EXCEPT !.pc = "exchange", !.target = n]
  <2>1. call' = [call EXCEPT ![t] = d]
    BY <1>3 DEF Picked, Calls
  <2>2. Good(d)
    BY <1>1, <1>3, RedirectLemma
  <2> QED
    BY <2>1, <2>2, CallLemma
<1>4. CASE ~Batching(t) /\ ~(call[t].ttl > 0)
  <2>1. Targets(t, {n}) /\ call[t].ttl = 0
    BY <1>1, <1>4 DEF Picked
  <2>2. call[t].after # "batch"
    BY <1>1, <1>4 DEF Good, Timed, Batching
  <2>3. Cardinality({n}) <= Width(call[t])
    BY FS_Singleton DEF Width
  <2> QED
    BY <2>1, <2>2, <2>3, TargetsStep
<1> QED
  BY <1>2, <1>3, <1>4

\* With full coverage a slot has a node, and a MOVED error a slot to patch.
LEMMA PatchFirstStep ==
  ASSUME Inv, NEW t \in Threads, PatchFirst(t)
  PROVE  Inv'
<1>1. /\ Good(call[t]) /\ Calls /\ counter' \in Nat /\ call[t].pc = "determine"
      /\ call[t].kind = "key" /\ moved # None /\ Tables /\ Complete
  BY CallGood DEF Inv, Manager, PatchFirst, At
<1>2. Servers' /\ Balancer' /\ Initializations'
  BY DEF PatchFirst, Inv, Manager, serverVars, Servers, Balancer, Initializations
<1>3. CASE /\ slots_cache[moved.slot] # <<>>
           /\ UpdateMovedSlots
           /\ call' = [call EXCEPT ![t].pc = "pick"]
  <2> DEFINE d == [call[t] EXCEPT !.pc = "pick"]
  <2>1. Good(d)
    BY <1>1, PatchLemma
  <2>2. call' = [call EXCEPT ![t] = d]
    BY <1>3
  <2>3. Calls'
    BY <1>1, <2>1, <2>2, CallLemma
  <2>4. Tables' /\ Complete'
    BY <1>1, <1>3, PatchStep
  <2> QED
    BY <1>2, <2>3, <2>4 DEF Inv, Manager
<1>4. CASE /\ slots_cache[moved.slot] = <<>>
           /\ UpdateMovedKeyError
           /\ Fail(t, "KeyError")
  <2>1. ~Certain
    BY <1>1, <1>4 DEF Tables, Moved, Complete, Covered, Certain
  <2>2. Calls'
    BY <1>1, <1>4, <2>1, FailStep
  <2>3. Tables' /\ Complete'
    BY <1>1, <1>4, KeyErrorStep
  <2> QED
    BY <1>2, <2>2, <2>3 DEF Inv, Manager
<1> QED
  BY <1>3, <1>4 DEF PatchFirst

LEMMA PickStep ==
  ASSUME Inv, NEW t \in Threads, Pick(t)
  PROVE  Inv'
<1> DEFINE list == slots_cache[Slot(t)]
<1>1. /\ Good(call[t]) /\ Calls /\ counter' \in Nat /\ call[t].pc \in {"determine", "pick"}
      /\ call[t].kind = "key" /\ Tables /\ Complete /\ Balancer
  BY CallGood DEF Inv, Manager, Pick, At, Good, Timed
<1>2. Slot(t) \in Slots
  <2>1. call[t].i \in DOMAIN call[t].cmds /\ call[t].cmds \in Seq(Slots)
    BY <1>1 DEF Good, Placed, Typed
  <2> QED
    BY <2>1 DEF Slot
<1>3. list \in Lists /\ (Certain => list # <<>>)
  BY <1>1, <1>2 DEF Tables, Complete, Covered, Certain
<1>4. Servers' /\ Tables' /\ Initializations' /\ Complete'
  BY DEF Pick, Inv, Manager, serverVars, tableVars, Servers, Tables, Initializations, Complete,
         Covered
<1>5. CASE list = <<>> /\ Fail(t, "RedisClusterException") /\ UNCHANGED primary_to_idx
  <2>1. Calls'
    BY <1>1, <1>3, <1>5, FailStep
  <2> QED
    BY <1>1, <1>4, <1>5, <2>1 DEF Inv, Manager, Balancer
<1>6. CASE list # <<>> /\ \E x \in ServerIndex(list, call[t].read) :
             /\ primary_to_idx' = [primary_to_idx EXCEPT ![list[1]] = x.next]
             /\ IF x.index < Len(list) THEN Picked(t, list[x.index + 1])
                                       ELSE Fail(t, "IndexError")
  <2>1. PICK x \in ServerIndex(list, call[t].read) :
             /\ primary_to_idx' = [primary_to_idx EXCEPT ![list[1]] = x.next]
             /\ IF x.index < Len(list) THEN Picked(t, list[x.index + 1])
                                       ELSE Fail(t, "IndexError")
    BY <1>6
  <2> HIDE DEF list
  <2>2. /\ x.index \in Nat /\ x.next \in 0..(Cardinality(Nodes) - 1)
        /\ ~call[t].read => x.index = 0
    BY <1>1, <1>3, <1>6, ServerIndexLemma
  <2>3. Balancer'
    BY <1>1, <2>1, <2>2 DEF Balancer
  <2>4. Len(list) \in Nat \ {0} /\ \A k \in 1..Len(list) : list[k] \in Nodes
    BY <1>3, <1>6, ListLemma
  <2>5. CASE x.index < Len(list)
    <3>1. list[x.index + 1] \in Nodes
      BY <2>2, <2>4, <2>5
    <3>2. Picked(t, list[x.index + 1])
      BY <2>1, <2>5
    <3>3. Calls'
      BY <1>1, <3>1, <3>2, PickedStep
    <3> QED
      BY <1>4, <2>3, <3>3 DEF Inv, Manager
  <2>6. CASE ~(x.index < Len(list))
    <3>1. call[t].read
      BY <2>2, <2>4, <2>6
    <3>2. ~Batching(t)
      BY <1>1, <3>1 DEF Good, Releases, Batching
    <3>3. Fail(t, "IndexError")
      BY <2>1, <2>6
    <3>4. Calls'
      BY <1>1, <3>2, <3>3, FailStep
    <3> QED
      BY <1>4, <2>3, <3>4 DEF Inv, Manager
  <2> QED
    BY <2>5, <2>6
<1> QED
  BY <1>5, <1>6 DEF Pick

LEMMA NextTargetStep ==
  ASSUME Inv, NEW t \in Threads, NextTarget(t)
  PROVE  Inv'
<1>1. Manager' /\ counter' \in Nat
  BY ManagerLemma DEF Inv, NextTarget, OnlyCall, Calls
<1>2. Good(call[t]) /\ Calls /\ call[t].pc = "next"
  BY CallGood DEF Inv, NextTarget, At
<1>3. CASE call' = Over(t)
  <2>1. call[t].held = {}
    BY <1>2 DEF Good, Releases
  <2> QED
    BY <1>1, <1>2, <1>3, <2>1, OverStep DEF Inv
<1>4. CASE /\ call[t].pipe
           /\ call' = [call EXCEPT ![t].res[call[t].i] = "ok", ![t].pc = "retry",
                                   ![t].got = @ \cup {call[t].i}]
  <2> DEFINE g == call[t].got \cup {call[t].i}
             d == [call[t] EXCEPT !.res = [call[t].res EXCEPT ![call[t].i] = "ok"],
                                  !.pc = "retry", !.got = g]
  <2>1. call' = [call EXCEPT ![t] = d]
    BY <1>4 DEF Inv, Calls
  <2> HIDE DEF g
  <2>2. Good(d)
    BY <1>2, <1>4, AnswerLemma
  <2> QED
    BY <1>1, <1>2, <2>1, <2>2, CallLemma DEF Inv
<1>5. ASSUME NEW n \in call[t].todo,
             call' = [call EXCEPT ![t].pc = "exchange", ![t].target = n,
                                  ![t].todo = @ \ {n}, ![t].ttl = TTL]
      PROVE  Inv'
  <2> DEFINE d == [call[t] EXCEPT !.pc = "exchange", !.target = n,
                                  !.todo = call[t].todo \ {n}, !.ttl = TTL]
  <2>1. call' = [call EXCEPT ![t] = d]
    BY <1>5 DEF Inv, Calls
  <2>2. Good(d)
    BY <1>2, TakeLemma
  <2> QED
    BY <1>1, <1>2, <2>1, <2>2, CallLemma DEF Inv
<1> QED
  BY <1>3, <1>4, <1>5 DEF NextTarget

LEMMA LoopStep ==
  ASSUME Inv, NEW t \in Threads, Loop(t)
  PROVE  Inv'
<1> DEFINE c == call[t]
<1>1. Manager' /\ counter' \in Nat
  BY ManagerLemma DEF Inv, Loop, OnlyCall, Calls
<1>2. /\ Good(call[t]) /\ Calls /\ call[t].pc = "loop"
      /\ c.ttl \in Nat /\ nodes_cache \subseteq Nodes
  <2>1. Good(call[t]) /\ Calls /\ call[t].pc = "loop"
    BY CallGood DEF Inv, Loop, At
  <2>2. c.ttl \in 0..TTL /\ TTL \in Nat
    BY <2>1, ClusterClientAssumption DEF Good, Typed
  <2>3. nodes_cache \subseteq Nodes
    BY DEF Inv, Manager, Tables
  <2> QED
    BY <2>1, <2>2, <2>3
<1>3. ~Batching(t)
  BY <1>2 DEF Good, Timed, Batching
<1>4. ASSUME NEW e, Fail(t, e) PROVE Inv'
  BY <1>1, <1>2, <1>3, <1>4, FailStep DEF Inv
<1>5. CASE /\ c.ttl > 1 /\ c.asking /\ c.redirect \in nodes_cache
           /\ call' = [call EXCEPT ![t].pc = "exchange", ![t].ttl = @ - 1,
                       ![t].target = c.redirect, ![t].redirect = None]
  <2> DEFINE d == [call[t] EXCEPT !.pc = "exchange", !.ttl = call[t].ttl - 1,
                                  !.target = call[t].redirect, !.redirect = None]
  <2>1. call' = [call EXCEPT ![t] = d]
    BY <1>5 DEF Inv, Calls
  <2>2. Good(d)
    BY <1>2, <1>5, AskedLemma
  <2> QED
    BY <1>1, <1>2, <2>1, <2>2, CallLemma DEF Inv
<1>6. CASE /\ c.ttl > 1
           /\ call' = [call EXCEPT ![t].ttl = @ - 1, ![t].redirect = None,
                       ![t].pc = IF c.redirect = None THEN "exchange" ELSE "determine"]
  <2> DEFINE label == IF call[t].redirect = None THEN "exchange" ELSE "determine"
             d == [call[t] EXCEPT !.ttl = call[t].ttl - 1, !.redirect = None, !.pc = label]
  <2>1. call' = [call EXCEPT ![t] = d]
    BY <1>6 DEF Inv, Calls
  <2>2. label = IF call[t].redirect = None THEN "exchange" ELSE "determine"
    OBVIOUS
  <2> HIDE DEF label
  <2>3. Good(d)
    BY <1>2, <1>6, <2>2, AgainLemma
  <2> QED
    BY <1>1, <1>2, <2>1, <2>3, CallLemma DEF Inv
<1>7. \/ c.ttl <= 1
      \/ c.ttl > 1 /\ c.asking /\ c.redirect \in nodes_cache
      \/ c.ttl > 1 /\ c.asking /\ c.redirect \notin nodes_cache
      \/ c.ttl > 1 /\ ~c.asking
  BY <1>2
<1> QED
  BY <1>4, <1>5, <1>6, <1>7 DEF Loop
\* A redirection names a node.
LEMMA AnswersLemma ==
  ASSUME Servers, NEW n \in Nodes, NEW s \in Slots, NEW read, NEW asking,
         NEW a \in Answers(n, s, read, asking)
  PROVE  /\ a.kind \in {"ok", "moved", "ask", "tryagain", "clusterdown"}
         /\ a.kind \in {"moved", "ask"} => a.node \in Nodes
<1> DEFINE list == View(n).slots[s]
           ask == View(n).ask[s]
           Kind(k, m) == [kind |-> k, node |-> m]
<1>1. list \in Lists /\ ask \in Nodes \cup {None}
  BY ViewLemma
<1>2. list # <<>> => list[1] \in Nodes
  BY <1>1, ListLemma
<1>3. \/ a = Kind("clusterdown", None)
      \/ a = Kind("ok", n)
      \/ a = Kind("tryagain", None)
      \/ a = Kind("ask", ask) /\ ask # None
      \/ a = Kind("moved", list[1]) /\ list # <<>>
  BY DEF Answers
<1> HIDE DEF list, ask
<1> QED
  BY <1>1, <1>2, <1>3

LEMMA ExchangeStep ==
  ASSUME Inv, NEW t \in Threads, Exchange(t)
  PROVE  Inv'
<1> DEFINE c == call[t]
           answers == IF c.kind = "key" THEN Answers(c.target, Slot(t), c.read, c.asking)
                      ELSE {[kind |-> "ok", node |-> c.target]}
           Goto(label) == [call EXCEPT ![t].pc = label, ![t].asking = FALSE]
           Reply(a) ==
             CASE a.kind = "ok" -> [Executed(t) EXCEPT ![t].pc = "next", ![t].ttl = 0,
                                      ![t].target = None, ![t].asking = FALSE]
               [] a.kind = "moved" -> [Goto("count") EXCEPT ![t].redirect = a.node]
               [] a.kind = "ask" -> [Goto("loop") EXCEPT ![t].redirect = a.node,
                                                         ![t].asking = TRUE]
               [] a.kind = "tryagain" -> Goto("loop")
               [] a.kind = "clusterdown" -> Goto("down")
<1>1. /\ Good(call[t]) /\ Calls /\ c.pc = "exchange" /\ c.target \in Nodes /\ Servers
      /\ counter' \in Nat
  BY CallGood DEF Inv, Exchange, At, Good, Placed, Manager
<1>2. Manager'
  <2>1. faults' \in 0..MaxFaults
    <3>1. NoFault \/ Fault
      BY DEF Exchange
    <3> QED
      BY <1>1, <3>1, NodesManagerAssumption DEF Fault, NoFault, Servers
  <2> QED
    BY <2>1 DEF Exchange, Inv, Manager, tableVars, Servers, Tables, Balancer, Initializations,
                Complete, Covered
<1>3. ~Batching(t)
  BY <1>1 DEF Good, Timed, Batching
<1>4. ASSUME NEW d, Good(d), call' = [call EXCEPT ![t] = d] PROVE Inv'
  BY <1>1, <1>2, <1>4, CallLemma DEF Inv
<1>5. ASSUME NEW a \in answers, call' = Reply(a) PROVE Inv'
  <2>1. Slot(t) \in Slots
    <3>1. call[t].i \in DOMAIN call[t].cmds /\ call[t].cmds \in Seq(Slots)
      BY <1>1 DEF Good, Placed, Typed
    <3> QED
      BY <3>1 DEF Slot
  <2>2. /\ a.kind \in {"ok", "moved", "ask", "tryagain", "clusterdown"}
        /\ a.kind \in {"moved", "ask"} => a.node \in Nodes /\ c.kind = "key"
    <3>1. CASE c.kind = "key"
      BY <1>1, <1>5, <2>1, <3>1, AnswersLemma
    <3>2. CASE c.kind # "key"
      BY <3>2
    <3> QED
      BY <3>1, <3>2
  <2>3. CASE a.kind = "ok"
    <3> DEFINE d == [call[t] EXCEPT
                       !.fx = [call[t].fx EXCEPT ![call[t].i] = call[t].fx[call[t].i] + 1],
                       !.pc = "next", !.ttl = 0, !.target = None, !.asking = FALSE]
    <3>1. call' = [call EXCEPT ![t] = d]
      BY <1>5, <2>3 DEF Executed, Inv, Calls
    <3>2. Good(d)
      BY <1>1, ExecutedLemma
    <3> QED
      BY <1>4, <3>1, <3>2
  <2>4. CASE a.kind = "moved"
    <3> DEFINE n == a.node
               d == [call[t] EXCEPT !.pc = "count", !.asking = FALSE, !.redirect = n]
    <3>1. call' = [call EXCEPT ![t] = d]
      BY <1>5, <2>4 DEF Inv, Calls
    <3>2. Good(d)
      BY <1>1, <2>2, <2>4, MovedLemma
    <3> QED
      BY <1>4, <3>1, <3>2
  <2>5. CASE a.kind = "ask"
    <3> DEFINE n == a.node
               d == [call[t] EXCEPT !.pc = "loop", !.asking = TRUE, !.redirect = n]
    <3>1. call' = [call EXCEPT ![t] = d]
      BY <1>5, <2>5 DEF Inv, Calls
    <3>2. Good(d)
      BY <1>1, <2>2, <2>5, AskLemma
    <3> QED
      BY <1>4, <3>1, <3>2
  <2>6. CASE a.kind = "tryagain"
    <3> DEFINE d == [call[t] EXCEPT !.pc = "loop", !.asking = FALSE]
    <3>1. call' = [call EXCEPT ![t] = d]
      BY <1>5, <2>6 DEF Inv, Calls
    <3>2. Good(d)
      BY <1>1, RepeatLemma
    <3> QED
      BY <1>4, <3>1, <3>2
  <2>7. CASE a.kind = "clusterdown"
    <3> DEFINE d == [call[t] EXCEPT !.pc = "down", !.asking = FALSE]
    <3>1. call' = [call EXCEPT ![t] = d]
      BY <1>5, <2>7 DEF Inv, Calls
    <3>2. Good(d)
      BY <1>1, RepeatLemma
    <3> QED
      BY <1>4, <3>1, <3>2
  <2> QED
    BY <2>2, <2>3, <2>4, <2>5, <2>6, <2>7
<1>6. CASE Fail(t, "ResponseError")
  BY <1>1, <1>2, <1>3, <1>6, FailStep DEF Inv
<1>7. CASE call' = [call EXCEPT ![t].pc = "broken"]
  <2> DEFINE d == [call[t] EXCEPT !.pc = "broken"]
  <2>1. call' = [call EXCEPT ![t] = d]
    BY <1>7 DEF Inv, Calls
  <2>2. Good(d)
    BY <1>1, BrokenLemma
  <2> QED
    BY <1>4, <2>1, <2>2
<1>8. CASE call' = [Executed(t) EXCEPT ![t].pc = "broken"]
  <2> DEFINE d == [call[t] EXCEPT
                     !.fx = [call[t].fx EXCEPT ![call[t].i] = call[t].fx[call[t].i] + 1],
                     !.pc = "broken"]
  <2>1. call' = [call EXCEPT ![t] = d]
    BY <1>8 DEF Executed, Inv, Calls
  <2>2. Good(d)
    BY <1>1, LostLemma
  <2> QED
    BY <1>4, <2>1, <2>2
<1> QED
  BY <1>5, <1>6, <1>7, <1>8 DEF Exchange

LEMMA StartupLemma ==
  ASSUME Tables
  PROVE  Startup \subseteq Nodes
BY DEF Tables, Startup

LEMMA InitializeThenStep ==
  ASSUME Calls, NEW t \in Threads, call[t].pc \in {"broken", "down"}, NEW e,
         call' = InitializeThen(t, "raise", e), counter' \in Nat
  PROVE  Calls'
<1> DEFINE d == [call[t] EXCEPT !.pc = "init", !.after = "raise", !.error = e, !.ttl = 0,
                                !.target = None, !.asking = FALSE]
<1>1. call' = [call EXCEPT ![t] = d]
  BY DEF InitializeThen, Calls
<1>2. Good(d)
  BY CallGood, InitializeLemma
<1> QED
  BY <1>1, <1>2, CallLemma

LEMMA ConnectionErrorStep ==
  ASSUME Inv, NEW t \in Threads, ConnectionError(t)
  PROVE  Inv'
<1>1. Calls /\ counter' \in Nat /\ call[t].pc = "broken" /\ Tables /\ Manager
  BY CallGood DEF Inv, ConnectionError, At, Manager
<1>2. Calls'
  BY <1>1, InitializeThenStep DEF ConnectionError
<1>3. Balancer' /\ Initializations'
  <2>1. Startup \ {call[t].target} \subseteq Nodes
    BY <1>1, StartupLemma
  <2> QED
    BY <1>1, <2>1, StartStep DEF ConnectionError, Manager
<1>4. Tables'
  BY <1>1 DEF ConnectionError, PopStartup, Tables
<1>5. Servers' /\ Complete'
  BY <1>1 DEF ConnectionError, serverVars, Manager, Servers, Complete, Covered
<1> QED
  BY <1>2, <1>3, <1>4, <1>5 DEF Inv, Manager

LEMMA ClusterDownStep ==
  ASSUME Inv, NEW t \in Threads, ClusterDown(t)
  PROVE  Inv'
<1>1. Calls /\ counter' \in Nat /\ call[t].pc = "down" /\ Tables /\ Manager
  BY CallGood DEF Inv, ClusterDown, At, Manager
<1>2. Calls'
  BY <1>1, InitializeThenStep DEF ClusterDown
<1>3. Balancer' /\ Initializations'
  BY <1>1, StartupLemma, StartStep DEF ClusterDown, Manager
<1>4. Servers' /\ Tables' /\ Complete'
  BY <1>1 DEF ClusterDown, serverVars, tableVars, Manager, Servers, Tables, Complete, Covered
<1> QED
  BY <1>2, <1>3, <1>4 DEF Inv, Manager

LEMMA ReinitLemma ==
  ASSUME NEW k \in Nat
  PROVE  (IF ReinitSteps = 0 THEN 0 ELSE (k + 1) % ReinitSteps) \in Nat
<1>1. ReinitSteps \in Nat /\ k + 1 \in Nat
  BY ClusterClientAssumption
<1>2. CASE ReinitSteps = 0
  BY <1>2
<1>3. CASE ReinitSteps # 0
  <2>1. (k + 1) % ReinitSteps \in 0..(ReinitSteps - 1)
    BY <1>1, <1>3, ModLemma
  <2> QED
    BY <1>1, <1>3, <2>1
<1> QED
  BY <1>2, <1>3

\* The counter belongs to the client, or to the pipeline.
LEMMA SetCounterStep ==
  ASSUME Calls, NEW t \in Threads, NEW d, Good(d), NEW f, f = [call EXCEPT ![t] = d],
         NEW k \in Nat, SetCounter(t, f, k)
  PROVE  Calls'
<1>1. CASE call[t].pipe
  <2> DEFINE e == [d EXCEPT !.count = k]
  <2>1. Good(e)
    BY CountLemma
  <2>2. call' = [call EXCEPT ![t] = e]
    BY <1>1 DEF SetCounter, Calls
  <2>3. counter' \in Nat
    BY <1>1 DEF SetCounter, Calls
  <2> QED
    BY <2>1, <2>2, <2>3, CallLemma
<1>2. CASE ~call[t].pipe
  BY <1>2, CallLemma DEF SetCounter
<1> QED
  BY <1>1, <1>2

LEMMA CountMovedStep ==
  ASSUME Inv, NEW t \in Threads, CountMoved(t)
  PROVE  Inv'
<1>1. Manager'
  BY ManagerLemma DEF Inv, CountMoved
<1>2. Good(call[t]) /\ Calls /\ call[t].pc = "count" /\ counter \in Nat
  BY CallGood DEF Inv, CountMoved, At
<1> DEFINE d == [call[t] EXCEPT !.pc = "decide"]
           f == [call EXCEPT ![t].pc = "decide"]
           k == IF ReinitSteps = 0 THEN 0 ELSE (Counted(t) + 1) % ReinitSteps
<1>3. Good(d)
  BY <1>2, CountedLemma
<1>4. f = [call EXCEPT ![t] = d]
  BY <1>2 DEF Calls
<1>5. Counted(t) \in Nat
  BY <1>2 DEF Counted, Good, Typed
<1>6. k \in Nat
  BY <1>5, ReinitLemma
<1>7. SetCounter(t, f, k)
  BY DEF CountMoved
<1> HIDE DEF d, f, k
<1> QED
  BY <1>1, <1>2, <1>3, <1>4, <1>6, <1>7, SetCounterStep DEF Inv

LEMMA DecideMovedStep ==
  ASSUME Inv, NEW t \in Threads, DecideMoved(t)
  PROVE  Inv'
<1>1. /\ Good(call[t]) /\ Calls /\ call[t].pc = "decide" /\ counter' \in Nat
      /\ Tables /\ Manager /\ call[t].redirect \in Nodes
  BY CallGood DEF Inv, DecideMoved, At, Manager, Good, Placed
<1>2. Slot(t) \in Slots
  <2>1. call[t].i \in DOMAIN call[t].cmds /\ call[t].cmds \in Seq(Slots)
    BY <1>1 DEF Good, Placed, Typed
  <2> QED
    BY <2>1 DEF Slot
<1>3. Servers' /\ Complete'
  BY <1>1 DEF DecideMoved, serverVars, Manager, Servers, Complete, Covered
<1>4. CASE ShouldReinitialize(t)
  <2> DEFINE d == [call[t] EXCEPT !.pc = "init", !.after = "loop"]
  <2>1. call' = [call EXCEPT ![t] = d]
    BY <1>1, <1>4 DEF DecideMoved, Calls
  <2>2. Good(d)
    BY <1>1, RenewLemma
  <2>3. Balancer' /\ Initializations'
    BY <1>1, <1>4, StartupLemma, StartStep DEF DecideMoved, Manager
  <2>4. Tables'
    BY <1>1, <1>4 DEF DecideMoved, Tables
  <2> QED
    BY <1>1, <1>3, <2>1, <2>2, <2>3, <2>4, CallLemma DEF Inv, Manager
<1>5. CASE ~ShouldReinitialize(t)
  <2> DEFINE d == [call[t] EXCEPT !.pc = "loop"]
  <2>1. call' = [call EXCEPT ![t] = d]
    BY <1>1, <1>5 DEF DecideMoved, Calls
  <2>2. Good(d)
    BY <1>1, LeftLemma
  <2>3. Balancer' /\ Initializations'
    BY <1>1, <1>5 DEF DecideMoved, Manager, Balancer, Initializations
  <2>4. moved' \in Moved
    BY <1>1, <1>2, <1>5 DEF DecideMoved, UpdateMovedException, Moved
  <2>5. Tables'
    BY <1>1, <2>4 DEF DecideMoved, Tables
  <2> QED
    BY <1>1, <1>3, <2>1, <2>2, <2>3, <2>5, CallLemma DEF Inv, Manager
<1> QED
  BY <1>4, <1>5

LEMMA ReplaceDefaultLemma ==
  ASSUME Tables, NEW t, ReplaceDefaultNode(t)
  PROVE  default_node' \in Nodes
BY DEF Tables, ReplaceDefaultNode

LEMMA AfterInitializeStep ==
  ASSUME Inv, NEW t \in Threads, AfterInitialize(t)
  PROVE  Inv'
<1> DEFINE label == call[t].after
           f == [call EXCEPT ![t].pc = label, ![t].after = "none"]
           d == [call[t] EXCEPT !.pc = label, !.after = "none"]
<1>1. /\ Good(call[t]) /\ Calls /\ call[t].pc = "init" /\ counter \in Nat
      /\ Tables /\ Manager /\ label \in {"loop", "raise", "pass", "retry"}
  BY CallGood DEF Inv, AfterInitialize, At, Manager, Good, Timed
<1>2. call[t].held = {} /\ ~Batching(t)
  BY <1>1 DEF Good, Releases, Timed, Batching
<1>3. Initializations'
  BY <1>1, InitializingLemma DEF AfterInitialize, Manager, Initializations
<1>4. Servers' /\ Complete' /\ Balancer'
  BY <1>1 DEF AfterInitialize, serverVars, Manager, Servers, Complete, Covered, Balancer
<1>5. Tables'
  <2>1. default_node' \in Nodes
    BY <1>1, ReplaceDefaultLemma DEF AfterInitialize, Tables
  <2> QED
    BY <1>1, <2>1 DEF AfterInitialize, Tables
<1>6. Good(d) /\ f = [call EXCEPT ![t] = d]
  BY <1>1, InitializedLemma DEF Calls
<1>7. Calls'
  <2>1. CASE /\ ini[t].at = "failed"
             /\ IF label \in {"pass", "retry"} THEN call' = Over(t) ELSE Fail(t, ini[t].error)
             /\ UNCHANGED <<default_node, counter>>
    <3>1. counter' \in Nat
      BY <1>1, <2>1
    <3>2. CASE label \in {"pass", "retry"}
      BY <1>1, <1>2, <2>1, <3>1, <3>2, OverStep
    <3>3. CASE label \notin {"pass", "retry"}
      BY <1>1, <1>2, <2>1, <3>1, <3>3, FailStep
    <3> QED
      BY <3>2, <3>3
  <2>2. CASE /\ label = "loop"
             /\ SetCounter(t, [call EXCEPT ![t].pc = "loop", ![t].after = "none"], 0)
    BY <1>1, <1>6, <2>2, SetCounterStep
  <2>3. CASE /\ call' = f
             /\ UNCHANGED counter
    BY <1>1, <1>6, <2>3, CallLemma
  <2> QED
    BY <2>1, <2>2, <2>3 DEF AfterInitialize
<1> QED
  BY <1>3, <1>4, <1>5, <1>7 DEF Inv, Manager

LEMMA RaiseStep ==
  ASSUME Inv, NEW t \in Threads, Raise(t)
  PROVE  Inv'
<1> DEFINE c == call[t]
<1>1. /\ Good(call[t]) /\ Calls /\ c.pc = "raise" /\ counter' \in Nat /\ Tables /\ Manager
  BY CallGood DEF Inv, Raise, At, Manager
<1>2. call[t].held = {}
  BY <1>1 DEF Good, Releases
<1>3. Servers' /\ Complete' /\ Balancer' /\ Initializations'
  BY <1>1 DEF Raise, serverVars, Manager, Servers, Complete, Covered, Balancer, Initializations
<1>4. Tables'
  <2>1. default_node' \in Nodes
    BY <1>1, ReplaceDefaultLemma DEF Raise, Tables
  <2> QED
    BY <1>1, <2>1 DEF Raise, Tables
<1>5. Calls'
  <2>1. CASE /\ c.tries > 0
             /\ call' = [call EXCEPT ![t].pc = "determine", ![t].error = "none",
                           ![t].tries = @ - 1, ![t].todo = {}]
    <3> DEFINE d == [call[t] EXCEPT !.pc = "determine", !.error = "none",
                                    !.tries = call[t].tries - 1, !.todo = {}]
    <3>1. call' = [call EXCEPT ![t] = d]
      BY <1>1, <2>1 DEF Calls
    <3>2. Good(d)
      BY <1>1, <2>1, AttemptLemma
    <3> QED
      BY <1>1, <3>1, <3>2, CallLemma
  <2>2. CASE /\ c.pipe
             /\ call' = [call EXCEPT ![t].res[c.i] = c.error, ![t].pc = "retry",
                                     ![t].error = "none", ![t].todo = {}]
    <3> DEFINE e == call[t].error
               d == [call[t] EXCEPT !.res = [call[t].res EXCEPT ![call[t].i] = e],
                                    !.pc = "retry", !.error = "none", !.todo = {}]
    <3>1. call' = [call EXCEPT ![t] = d]
      BY <1>1, <2>2 DEF Calls
    <3>2. Good(d)
      BY <1>1, <2>2, GivenUpLemma
    <3> QED
      BY <1>1, <3>1, <3>2, CallLemma
  <2>3. CASE call' = Over(t)
    BY <1>1, <1>2, <2>3, OverStep
  <2> QED
    BY <2>1, <2>2, <2>3 DEF Raise
<1> QED
  BY <1>3, <1>4, <1>5 DEF Inv, Manager

LEMMA SendClusterCommandsStep ==
  ASSUME Inv, NEW t \in Threads, SendClusterCommands(t)
  PROVE  Inv'
<1>1. Manager' /\ counter' \in Nat
  BY ManagerLemma DEF Inv, SendClusterCommands, OnlyCall, Calls
<1>2. Good(call[t]) /\ Calls /\ call[t].pc = "pass"
  BY CallGood DEF Inv, SendClusterCommands, At
<1>3. CASE call[t].passes = 0
  <2>1. call[t].held = {}
    BY <1>2 DEF Good, Releases
  <2> QED
    BY <1>1, <1>2, <1>3, <2>1, OverStep DEF Inv, SendClusterCommands
<1>4. CASE call[t].passes # 0
  <2> DEFINE d == [call[t] EXCEPT !.pc = "determine", !.after = "batch", !.i = 1,
                      !.passes = call[t].passes - 1, !.tries = 0, !.batch = <<>>,
                      !.isDefault = FALSE, !.error = "none"]
  <2>1. call' = [call EXCEPT ![t] = d]
    BY <1>2, <1>4 DEF SendClusterCommands, PassTaken, Calls
  <2>2. Good(d)
    BY <1>2, <1>4, PassLemma
  <2> QED
    BY <1>1, <1>2, <2>1, <2>2, CallLemma DEF Inv
<1> QED
  BY <1>3, <1>4

LEMMA RetryOneStep ==
  ASSUME Inv, NEW t \in Threads, RetryOne(t)
  PROVE  Inv'
<1>1. Manager' /\ counter' \in Nat
  BY ManagerLemma DEF Inv, RetryOne, OnlyCall, Calls
<1>2. Good(call[t]) /\ Calls /\ call[t].pc = "retry" /\ call[t].redo # {}
  BY CallGood DEF Inv, RetryOne, At
<1> DEFINE m == Min(call[t].redo)
           d == [call[t] EXCEPT !.pc = "determine", !.i = m, !.redo = call[t].redo \ {m},
                                !.tries = RetryAttempts, !.isDefault = FALSE]
<1>3. m \in call[t].redo
  <2>1. call[t].redo \subseteq DOMAIN call[t].cmds /\ call[t].cmds \in Seq(Slots)
    BY <1>2 DEF Good, Typed
  <2>2. call[t].redo \subseteq Nat
    BY <2>1
  <2> QED
    BY <1>2, <2>2, MinLemma
<1>4. call' = [call EXCEPT ![t] = d]
  BY <1>2 DEF RetryOne, Calls
<1> HIDE DEF m
<1>5. Good(d)
  BY <1>2, <1>3, RetryLemma
<1> QED
  BY <1>1, <1>2, <1>4, <1>5, CallLemma DEF Inv

LEMMA RespondStep ==
  ASSUME Inv, NEW t \in Threads, Respond(t)
  PROVE  Inv'
<1>1. Manager' /\ counter' \in Nat
  BY ManagerLemma DEF Inv, Respond, OnlyCall, Calls
<1>2. Good(call[t]) /\ Calls /\ call[t].pc = "retry"
  BY CallGood DEF Inv, Respond, At
<1>3. CASE call' = Over(t)
  <2>1. call[t].held = {}
    BY <1>2 DEF Good, Releases
  <2> QED
    BY <1>1, <1>2, <1>3, <2>1, OverStep DEF Inv
<1>4. ASSUME NEW e, call' = [call EXCEPT ![t].pc = "pass", ![t].error = e]
      PROVE  Inv'
  <2> DEFINE d == [call[t] EXCEPT !.pc = "pass", !.error = e]
  <2>1. call' = [call EXCEPT ![t] = d]
    BY <1>2, <1>4 DEF Calls
  <2>2. Good(d)
    BY <1>2, RaisedLemma
  <2> QED
    BY <1>1, <1>2, <2>1, <2>2, CallLemma DEF Inv
<1> QED
  BY <1>3, <1>4 DEF Respond

LEMMA PipelineConnectStep ==
  ASSUME Inv, NEW t \in Threads, PipelineConnect(t)
  PROVE  Inv'
<1> DEFINE c == call[t]
           last == c.i = Len(c.cmds)
<1>1. /\ Good(call[t]) /\ Calls /\ c.pc = "batch" /\ counter' \in Nat /\ Tables /\ Manager
      /\ Servers
  BY CallGood DEF Inv, PipelineConnect, At, Manager
<1>2. Tables' /\ Complete'
  BY <1>1 DEF PipelineConnect, Tables, Manager, Complete, Covered
<1>3. Servers'
  <2>1. NoFault \/ Fault
    BY DEF PipelineConnect
  <2>2. UNCHANGED epoch
    BY DEF PipelineConnect
  <2>3. faults' \in 0..MaxFaults
    BY <1>1, <2>1, NodesManagerAssumption DEF Fault, NoFault, Servers
  <2> QED
    BY <1>1, <2>2, <2>3 DEF Servers
<1>4. CASE /\ call' = [call EXCEPT ![t].held = @ \cup {c.target},
             ![t].batch = Append(@, c.target), ![t].target = None,
             ![t].i = IF last THEN 1 ELSE c.i + 1,
             ![t].pc = IF last THEN "write" ELSE "determine",
             ![t].after = IF last THEN "none" ELSE "batch",
             ![t].todo = IF last THEN c.held \cup {c.target} ELSE {}]
           /\ UNCHANGED <<primary_to_idx, ini>>
  <2>1. Balancer' /\ Initializations'
    BY <1>1, <1>4 DEF Manager, Balancer, Initializations
  <2>2. CASE last
    <3> DEFINE d == [call[t] EXCEPT !.held = call[t].held \cup {call[t].target},
                        !.batch = Append(call[t].batch, call[t].target), !.target = None,
                        !.i = 1, !.pc = "write", !.after = "none",
                        !.todo = call[t].held \cup {call[t].target}]
    <3>1. call' = [call EXCEPT ![t] = d]
      BY <1>1, <1>4, <2>2 DEF Calls
    <3>2. Good(d)
      BY <1>1, <2>2, BatchedLemma
    <3> QED
      BY <1>1, <1>2, <1>3, <2>1, <3>1, <3>2, CallLemma DEF Inv, Manager
  <2>3. CASE ~last
    <3> DEFINE d == [call[t] EXCEPT !.held = call[t].held \cup {call[t].target},
                        !.batch = Append(call[t].batch, call[t].target), !.target = None,
                        !.i = call[t].i + 1, !.pc = "determine", !.after = "batch", !.todo = {}]
    <3>1. call' = [call EXCEPT ![t] = d]
      BY <1>1, <1>4, <2>3 DEF Calls
    <3>2. Good(d)
      BY <1>1, <2>3, ConnectedLemma
    <3> QED
      BY <1>1, <1>2, <1>3, <2>1, <3>1, <3>2, CallLemma DEF Inv, Manager
  <2> QED
    BY <2>2, <2>3
<1>5. CASE /\ StartInitialize(t, Startup)
           /\ call' = [InitializeThen(t, "pass", "conn") EXCEPT ![t].held = Released(@)]
  <2>1. Balancer' /\ Initializations'
    BY <1>1, <1>5, StartupLemma, StartStep DEF Manager
  <2> DEFINE d == [call[t] EXCEPT !.pc = "init", !.after = "pass", !.error = "conn", !.ttl = 0,
                                  !.target = None, !.asking = FALSE, !.held = {}]
  <2>2. call' = [call EXCEPT ![t] = d]
    BY <1>1, <1>5 DEF Calls, InitializeThen, Released
  <2>3. Good(d)
    BY <1>1, UnconnectedLemma
  <2> QED
    BY <1>1, <1>2, <1>3, <2>1, <2>2, <2>3, CallLemma DEF Inv, Manager
<1> QED
  BY <1>4, <1>5 DEF PipelineConnect

LEMMA NodeCommandsStep ==
  ASSUME Inv, NEW t \in Threads, NodeCommands(t)
  PROVE  Inv'
<1> DEFINE c == call[t]
           Mine(n) == {i \in DOMAIN c.batch : c.batch[i] = n}
           Result(n, r, done, answered) ==
             [call EXCEPT ![t].todo = @ \ {n},
                ![t].res = [i \in DOMAIN @ |-> IF i \in Mine(n) THEN r[i] ELSE @[i]],
                ![t].fx = [i \in DOMAIN @ |-> IF i \in done THEN @[i] + 1 ELSE @[i]],
                ![t].got = @ \cup answered]
           Kind(n, i) == {a.kind : a \in Answers(n, c.cmds[i], FALSE, FALSE)}
                           \cup {"ResponseError"}
<1>1. /\ Good(call[t]) /\ Calls /\ c.pc = "write" /\ counter' \in Nat /\ Servers /\ Manager
  BY CallGood DEF Inv, NodeCommands, At, Manager
<1>2. Manager'
  <2>1. NoFault \/ Fault
    BY DEF NodeCommands
  <2>2. faults' \in 0..MaxFaults
    BY <1>1, <2>1, NodesManagerAssumption DEF Fault, NoFault, Servers
  <2> QED
    BY <1>1, <2>2 DEF NodeCommands, Manager, tableVars, Servers, Tables, Balancer,
                      Initializations, Complete, Covered
<1>3. ASSUME NEW n \in c.todo, NEW r, NEW done, done \subseteq Mine(n), NEW answered,
             call' = Result(n, r, done, answered)
      PROVE  Inv'
  <2> DEFINE q == [i \in DOMAIN call[t].res |-> IF i \in Mine(n) THEN r[i] ELSE call[t].res[i]]
             g == call[t].got \cup answered
             e == [i \in DOMAIN call[t].fx |->
                     IF i \in done THEN call[t].fx[i] + 1 ELSE call[t].fx[i]]
             d == [call[t] EXCEPT !.todo = call[t].todo \ {n}, !.res = q, !.fx = e, !.got = g]
  <2>1. call' = [call EXCEPT ![t] = d]
    BY <1>1, <1>3 DEF Calls
  <2>2. DOMAIN q = DOMAIN call[t].res
    OBVIOUS
  <2>3. \A j \in done : j \in DOMAIN call[t].batch /\ call[t].batch[j] = n
    BY <1>3
  <2>4. /\ e \in [DOMAIN call[t].fx -> Nat]
        /\ \A j \in DOMAIN call[t].fx :
             e[j] = IF j \in done THEN call[t].fx[j] + 1 ELSE call[t].fx[j]
    BY <1>1 DEF Good, Typed
  <2> HIDE DEF q, g, e
  <2>5. Good(d)
    BY <1>1, <2>2, <2>3, <2>4, SentLemma
  <2> QED
    BY <1>1, <1>2, <2>1, <2>5, CallLemma DEF Inv
<1>4. PICK n \in c.todo :
       \/ /\ NoFault
          /\ \E r \in [Mine(n) -> UNION {Kind(n, i) : i \in Mine(n)}] :
               LET ok == {i \in Mine(n) : r[i] = "ok"} IN
               /\ \A i \in Mine(n) : r[i] \in Kind(n, i)
               /\ call' = Result(n, r, ok, ok)
       \/ /\ Fault
          /\ \E k \in {0} \cup Mine(n), a \in {0} \cup Mine(n) :
               /\ a <= k
               /\ LET done == {i \in Mine(n) : i <= k /\ "ok" \in Kind(n, i)} IN
                  call' = Result(n, [i \in Mine(n) |-> "conn"], done,
                                 {i \in done : i <= a})
  BY Zenon DEF NodeCommands
<1> HIDE DEF Result, Mine, Kind
<1> QED
  BY <1>3, <1>4

LEMMA CollectFailedStep ==
  ASSUME Inv, NEW t \in Threads, CollectFailed(t)
  PROVE  Inv'
<1> DEFINE c == call[t]
           failed == {i \in DOMAIN c.res : RetryableResult(c.res[i])}
           count == IF failed = {} \/ ReinitSteps = 0 THEN c.count
                    ELSE (c.count + 1) % ReinitSteps
<1>1. /\ Good(call[t]) /\ Calls /\ c.pc = "write" /\ c.todo = {} /\ counter' \in Nat /\ Manager
      /\ Tables
  BY CallGood DEF Inv, CollectFailed, At, Manager
<1>2. count \in Nat
  <2>1. c.count \in Nat
    BY <1>1 DEF Good, Typed
  <2> QED
    BY <2>1, ReinitLemma
<1>3. failed \subseteq DOMAIN call[t].res
  OBVIOUS
<1>4. Servers' /\ Tables' /\ Complete'
  BY <1>1 DEF CollectFailed, serverVars, tableVars, Manager, Servers, Tables, Complete, Covered
<1>5. CASE failed # {} /\ ReinitSteps # 0 /\ count = 0
  <2> DEFINE d == [call[t] EXCEPT !.redo = failed, !.count = count, !.held = {},
                                  !.batch = <<>>, !.pc = "init", !.after = "retry"]
  <2>1. call' = [call EXCEPT ![t] = d]
    BY <1>1, <1>5 DEF CollectFailed, Released, Calls
  <2>2. Balancer' /\ Initializations'
    BY <1>1, <1>5, StartupLemma, StartStep DEF CollectFailed, Manager
  <2> HIDE DEF failed, count
  <2>3. Good(d)
    BY <1>1, <1>2, <1>3, RenewedLemma
  <2> QED
    BY <1>1, <1>4, <2>1, <2>2, <2>3, CallLemma DEF Inv, Manager
<1>6. CASE ~(failed # {} /\ ReinitSteps # 0 /\ count = 0)
  <2> DEFINE d == [call[t] EXCEPT !.redo = failed, !.count = count, !.held = {},
                                  !.batch = <<>>, !.pc = "retry"]
  <2>1. call' = [call EXCEPT ![t] = d]
    BY <1>1, <1>6 DEF CollectFailed, Released, Calls
  <2>2. Balancer' /\ Initializations'
    BY <1>1, <1>6 DEF CollectFailed, Manager, Balancer, Initializations
  <2> HIDE DEF failed, count
  <2>3. Good(d)
    BY <1>1, <1>2, <1>3, CollectedLemma
  <2> QED
    BY <1>1, <1>4, <2>1, <2>2, <2>3, CallLemma DEF Inv, Manager
<1> QED
  BY <1>5, <1>6
-----------------------------------------------------------------------------
(***************************************************************************)
(* The invariant and what follows from it.                                 *)
(***************************************************************************)
LEMMA InitInv == Init => Inv
<1> SUFFICES ASSUME Init PROVE Inv
  OBVIOUS
<1> DEFINE first == Layouts[1].slots
<1>1. 1 \in DOMAIN Layouts /\ Len(Layouts) \in Nat \ {0}
  BY NodesManagerAssumption
<1>2. first \in [Slots -> Lists]
  <2>1. Layouts[1] \in Layout
    BY <1>1, NodesManagerAssumption
  <2>2. \A s \in Slots : Len(first[s]) <= Cardinality(Nodes)
    BY <1>1, NodesManagerAssumption
  <2> QED
    BY <2>1, <2>2 DEF Layout, Lists
<1>3. Members(first) \subseteq Nodes /\ PrimariesOf(first) \subseteq Nodes
  BY <1>2, MembersLemma
<1>4. Covered(first)
  BY NodesManagerAssumption DEF Covered
<1> USE DEF Init, ManagerInit
<1>5. Servers
  BY <1>1, NodesManagerAssumption DEF Servers
<1>6. Tables
  <2>1. shares \in [Slots -> SUBSET Slots]
    BY DEF RangeOf
  <2> QED
    BY <1>2, <1>3, <2>1 DEF Tables
<1>7. Balancer
  <2>1. ASSUME NEW n \in Nodes PROVE 0 \in 0..(Cardinality(Nodes) - 1)
    <3>1. Cardinality(Nodes) \in Nat /\ Cardinality(Nodes) # 0
      BY FS_CardinalityType, FS_EmptySet, NodesManagerAssumption
    <3> QED
      BY <3>1
  <2> QED
    BY <2>1 DEF Balancer
<1>8. Initializations
  BY InitializingLemma DEF Initializations
<1>9. Complete
  BY <1>4 DEF Complete
<1>10. Calls
  <2>1. Good([Idle EXCEPT !.left = {}])
    BY IdleLemma
  <2>2. [Idle EXCEPT !.left = {}] = Idle
    <3>1. Shaped(Idle) /\ Idle.left = {}
      BY DEF Shaped, CallFields, Idle
    <3> QED
      BY <3>1 DEF Shaped
  <2> QED
    BY <2>1, <2>2 DEF Calls
<1> QED
  BY <1>5, <1>6, <1>7, <1>8, <1>9, <1>10 DEF Inv, Manager

LEMMA NextInv == Inv /\ [Next]_vars => Inv'
<1> SUFFICES ASSUME Inv, [Next]_vars PROVE Inv'
  OBVIOUS
<1>1. ASSUME UNCHANGED <<call, counter>>, Manager' PROVE Inv'
  BY <1>1 DEF Inv, Calls
<1>2. CASE UNCHANGED vars
  BY <1>1, <1>2, ManagerLemma DEF vars, Inv
<1>3. ASSUME NEW n \in Nodes, Learn(n), UNCHANGED <<call, counter>> PROVE Inv'
  BY <1>1, <1>3, LearnStep DEF Inv
<1>4. ASSUME NEW t \in Threads, InitializeStep(t), UNCHANGED <<call, counter>> PROVE Inv'
  BY <1>1, <1>4, QueryStep, SwapStep DEF Inv, InitializeStep
<1>5. ASSUME NEW t \in Threads, ExecuteCommand(t) \/ Execute(t) PROVE Inv'
  BY <1>5, ExecuteCommandStep, ExecuteStep
<1>6. ASSUME NEW t \in Threads, Step(t) PROVE Inv'
  BY <1>4, <1>6, DetermineNodesStep, DetermineSlotFailsStep, PatchFirstStep,
     PickStep, NextTargetStep, LoopStep,
     ExchangeStep, ConnectionErrorStep, ClusterDownStep, CountMovedStep, DecideMovedStep,
     AfterInitializeStep, RaiseStep, SendClusterCommandsStep, PipelineConnectStep,
     NodeCommandsStep, CollectFailedStep, RetryOneStep, RespondStep DEF Step
<1> QED
  BY <1>2, <1>3, <1>5, <1>6 DEF Next

LEMMA InvHolds == Spec => []Inv
BY InitInv, NextInv, PTL DEF Spec

\* The shared tables and the local variables of every call have the values the
\* code gives them, whatever errors and layouts come: the load balancer's index
\* always fits, a MOVED error never empties a list, and no attempt is counted
\* below zero.
THEOREM TypeCorrect == Spec => []TypeOK
<1>1. Inv => TypeOK
  <2> SUFFICES ASSUME Inv PROVE TypeOK
    OBVIOUS
  <2>1. Lists \subseteq Seq(Nodes)
    BY DEF Lists
  <2>2. ManagerTypeOK
    <3>1. slots_cache \in [Slots -> Seq(Nodes)]
      BY <2>1 DEF Inv, Manager, Tables
    <3>2. \A t \in Threads : ini[t].slots \in [Slots -> Seq(Nodes)]
      BY <2>1 DEF Inv, Manager, Initializations, Initializing
    <3> QED
      BY <3>1, <3>2 DEF ManagerTypeOK, Inv, Manager, Servers, Tables, Balancer,
                        Initializations, Initializing
  <2> QED
    BY <2>2 DEF TypeOK, Inv, Calls, Good, Typed
<1> QED
  BY <1>1, InvHolds, PTL

\* No command is executed more often than its attempts, its nodes and the
\* passes of its pipeline allow, however redirections, lost connections and new
\* tables follow each other; a command the caller sent to a node of their
\* choice is executed there once at most.
THEOREM EffectsAreBounded == Spec => []BoundedEffects
<1>1. Inv => BoundedEffects
  <2> SUFFICES ASSUME Inv, NEW t \in Threads, NEW j \in DOMAIN call[t].fx
               PROVE  call[t].fx[j] <= Bound(call[t])
    BY DEF BoundedEffects, Bound
  <2>1. Typed(call[t]) /\ Budgeted(call[t])
    BY DEF Inv, Calls, Good
  <2>2. /\ call[t].fx[j] \in Nat /\ Now(call[t], j) \in Nat /\ Later(call[t]) \in Nat
        /\ Bound(call[t]) \in Nat
    BY <2>1, AmountLemma DEF Typed
  <2>3. call[t].fx[j] + Now(call[t], j) + Later(call[t]) <= Bound(call[t])
    BY <2>1 DEF Budgeted
  <2> QED
    BY <2>2, <2>3
<1> QED
  BY <1>1, InvHolds, PTL

\* Whatever fails in it, a call that has returned or raised holds no connection
\* that it still knows of: every failing connect, exchange and initialize(), and
\* every pass of a pipeline, comes after a release or before the first connection.
THEOREM ConnectionsReleased == Spec => []NothingHeld
<1>1. Inv => NothingHeld
  BY DEF NothingHeld, At, Inv, Calls, Good, Releases
<1> QED
  BY <1>1, InvHolds, PTL

\* A pipeline leaves no connection behind at all, if none of its lookups can
\* raise: with require_full_coverage, when every command has one slot that the
\* client finds without asking a server.
THEOREM NothingLeftBehind == ASSUME Certain PROVE Spec => []NothingLeft
<1>1. Inv => NothingLeft
  BY DEF NothingLeft, Inv, Calls, Good, Releases
<1> QED
  BY <1>1, InvHolds, PTL
-----------------------------------------------------------------------------
(***************************************************************************)
(* What a pipeline sends again.                                            *)
(***************************************************************************)
\* The call is sending one command; a pipeline, one of the failed ones.
Single(c) ==
  \/ c.pc \in {"determine", "pick", "next", "exchange", "loop", "broken", "down",
               "count", "decide", "raise"} /\ c.after # "batch"
  \/ c.pc = "init" /\ c.after \in {"loop", "raise"}

\* The pipeline has not yet collected what failed in this pass.
Sending(c) ==
  \/ c.pc \in {"pass", "write"} \/ c.after = "batch"
  \/ c.pc = "init" /\ c.after = "pass"

\* What is still to be sent again, and what is being sent, has failed.
Mends(c) ==
  c.pipe =>
    /\ Sending(c) => c.redo = {}
    /\ \A j \in c.redo : c.res[j] \in PipelineAllowRetry
    /\ Single(c) => c.res[c.i] \in PipelineAllowRetry /\ c.i \notin c.redo

Mending == \A t \in Threads : Mends(call[t])

\* A step that leaves the results alone.
Follows(c, d) ==
  /\ d.pipe = c.pipe /\ d.res = c.res /\ d.redo = c.redo
  /\ Single(d) => Single(c) /\ d.i = c.i
  /\ Sending(d) => Sending(c)

LEMMA MendsLemma ==
  ASSUME Calls, Mending, NEW t \in Threads, NEW d, call' = [call EXCEPT ![t] = d], Mends(d)
  PROVE  Mending'
<1>1. \A u \in Threads : call'[u] = IF u = t THEN d ELSE call[u]
  BY DEF Calls
<1> QED
  BY <1>1 DEF Mending

LEMMA FollowsLemma ==
  ASSUME Calls, Mending, NEW t \in Threads, NEW d, call' = [call EXCEPT ![t] = d],
         Follows(call[t], d)
  PROVE  Mending'
<1>1. Mends(d)
  BY DEF Mending, Mends, Follows
<1> QED
  BY <1>1, MendsLemma

LEMMA OverMends ==
  ASSUME Calls, Mending, NEW t \in Threads, call' = Over(t)
  PROVE  Mending'
<1> DEFINE d == [Idle EXCEPT !.held = call[t].held, !.left = call[t].left]
<1>1. call' = [call EXCEPT ![t] = d]
  BY DEF Over
<1>2. Mends(d)
  BY DEF Mends, Idle
<1> HIDE DEF d
<1> QED
  BY <1>1, <1>2, MendsLemma

LEMMA FailMends ==
  ASSUME Calls, Mending, NEW t \in Threads, NEW e, Fail(t, e),
         Single(call[t]) \/ Batching(t)
  PROVE  Mending'
<1> DEFINE c == call[t]
<1>1. Shaped(c)
  BY DEF Calls, Good
<1>2. CASE Batching(t)
  <2> DEFINE d == [Idle EXCEPT !.left = Left(c).left]
  <2>1. call' = [call EXCEPT ![t] = d]
    BY <1>2 DEF Fail
  <2>2. Mends(d)
    BY DEF Mends, Idle
  <2> HIDE DEF d
  <2> QED
    BY <2>1, <2>2, MendsLemma
<1>3. CASE ~Batching(t)
  <2> DEFINE d == [c EXCEPT !.pc = "raise", !.error = e, !.ttl = 0, !.target = None,
                            !.redirect = None, !.asking = FALSE, !.after = "none"]
  <2>1. call' = [call EXCEPT ![t] = d]
    BY <1>3 DEF Fail, Calls
  <2>2. /\ d.pipe = c.pipe /\ d.res = c.res /\ d.redo = c.redo
        /\ d.i = c.i /\ d.pc = "raise" /\ d.after = "none"
    BY <1>1 DEF Shaped, CallFields
  <2> HIDE DEF d
  <2>3. Follows(c, d)
    BY <1>3, <2>2 DEF Follows, Single, Sending
  <2> QED
    BY <2>1, <2>3, FollowsLemma
<1> QED
  BY <1>2, <1>3

LEMMA TargetsMends ==
  ASSUME Calls, Mending, NEW t \in Threads, NEW nodes, Targets(t, nodes),
         Single(call[t]), call[t].after # "batch"
  PROVE  Mending'
<1> DEFINE c == call[t]
<1>1. Shaped(c)
  BY DEF Calls, Good
<1>2. CASE nodes = {}
  BY <1>2, FailMends DEF Targets
<1>3. CASE nodes # {}
  <2> DEFINE d == [c EXCEPT !.pc = "next", !.todo = nodes,
                            !.isDefault = @ \/ nodes = {default_node}]
  <2>1. call' = [call EXCEPT ![t] = d]
    BY <1>3 DEF Targets, Calls
  <2>2. /\ d.pipe = c.pipe /\ d.res = c.res /\ d.redo = c.redo
        /\ d.i = c.i /\ d.pc = "next" /\ d.after = c.after
    BY <1>1 DEF Shaped, CallFields
  <2> HIDE DEF d
  <2>3. Follows(c, d)
    BY <2>2 DEF Follows, Single, Sending
  <2> QED
    BY <2>1, <2>3, FollowsLemma
<1> QED
  BY <1>2, <1>3

LEMMA DetermineNodesMends ==
  ASSUME Calls, Mending, NEW t \in Threads, DetermineNodes(t)
  PROVE  Mending'
<1>1. /\ Single(call[t]) /\ call[t].after # "batch"
      /\ \E nodes : Targets(t, nodes)
  BY DEF DetermineNodes, At, Single, Calls, Good, Timed, Releases
<1> QED
  BY <1>1, TargetsMends

LEMMA DetermineSlotFailsMends ==
  ASSUME Calls, Mending, NEW t \in Threads, DetermineSlotFails(t)
  PROVE  Mending'
<1> DEFINE c == call[t]
<1>1. /\ Shaped(c) /\ c.pc = "determine" /\ (Single(c) \/ Batching(t))
      /\ (c.ttl > 0 => c.after # "batch")
  BY DEF Calls, Good, Timed, DetermineSlotFails, At, Single, Batching
<1>2. ASSUME NEW e, Fail(t, e) PROVE Mending'
  BY <1>1, <1>2, FailMends
<1>3. CASE /\ Batching(t)
           /\ call' = [call EXCEPT ![t] = [Left(c) EXCEPT !.pc = "pass", !.after = "none"]]
  <2> DEFINE d == [Left(c) EXCEPT !.pc = "pass", !.after = "none"]
  <2>1. call' = [call EXCEPT ![t] = d]
    BY <1>3
  <2>2. /\ d.pipe = c.pipe /\ d.res = c.res /\ d.redo = c.redo
        /\ d.pc = "pass" /\ d.after = "none"
    BY <1>1 DEF Shaped, CallFields, Left
  <2> HIDE DEF d
  <2>3. Follows(c, d)
    BY <1>3, <2>2 DEF Follows, Single, Sending, Batching
  <2> QED
    BY <2>1, <2>3, FollowsLemma
<1>4. CASE c.ttl > 0 /\ call' = [call EXCEPT ![t].pc = "broken"]
  <2> DEFINE d == [c EXCEPT !.pc = "broken"]
  <2>1. call' = [call EXCEPT ![t] = d]
    BY <1>4 DEF Calls
  <2>2. /\ d.pipe = c.pipe /\ d.res = c.res /\ d.redo = c.redo
        /\ d.i = c.i /\ d.pc = "broken" /\ d.after = c.after
    BY <1>1 DEF Shaped, CallFields
  <2> HIDE DEF d
  <2>3. Follows(c, d)
    BY <1>1, <1>4, <2>2 DEF Follows, Single, Sending
  <2> QED
    BY <2>1, <2>3, FollowsLemma
<1> QED
  BY <1>2, <1>3, <1>4 DEF DetermineSlotFails

LEMMA PickedMends ==
  ASSUME Calls, Mending, NEW t \in Threads, NEW n, Picked(t, n),
         call[t].pc \in {"determine", "pick"}
  PROVE  Mending'
<1> DEFINE c == call[t]
<1>1. /\ Shaped(c) /\ (c.after = "batch" => c.pipe)
      /\ Batching(t) \/ (Single(c) /\ c.after # "batch")
  BY DEF Calls, Good, Timed, Batching, Single
<1>2. CASE Batching(t)
  <2> DEFINE d == [c EXCEPT !.pc = "batch", !.target = n,
                            !.isDefault = @ \/ n = default_node]
  <2>1. call' = [call EXCEPT ![t] = d]
    BY <1>2 DEF Picked, Calls
  <2>2. /\ d.pipe = c.pipe /\ d.res = c.res /\ d.redo = c.redo
        /\ d.i = c.i /\ d.pc = "batch" /\ d.after = c.after
    BY <1>1 DEF Shaped, CallFields
  <2> HIDE DEF d
  <2>3. Follows(c, d)
    BY <1>2, <2>2 DEF Follows, Single, Sending, Batching
  <2> QED
    BY <2>1, <2>3, FollowsLemma
<1>3. CASE ~Batching(t) /\ call[t].ttl > 0
  <2> DEFINE d == [c EXCEPT !.pc = "exchange", !.target = n]
  <2>1. call' = [call EXCEPT ![t] = d]
    BY <1>3 DEF Picked, Calls
  <2>2. /\ d.pipe = c.pipe /\ d.res = c.res /\ d.redo = c.redo
        /\ d.i = c.i /\ d.pc = "exchange" /\ d.after = c.after
    BY <1>1 DEF Shaped, CallFields
  <2> HIDE DEF d
  <2>3. Follows(c, d)
    BY <1>1, <1>3, <2>2 DEF Follows, Single, Sending
  <2> QED
    BY <2>1, <2>3, FollowsLemma
<1>4. CASE ~Batching(t) /\ ~(call[t].ttl > 0)
  BY <1>1, <1>4, TargetsMends DEF Picked
<1> QED
  BY <1>2, <1>3, <1>4

LEMMA PatchFirstMends ==
  ASSUME Calls, Mending, NEW t \in Threads, PatchFirst(t)
  PROVE  Mending'
<1> DEFINE c == call[t]
<1>1. /\ Shaped(c) /\ c.pc = "determine" /\ (Single(c) \/ Batching(t))
  BY DEF Calls, Good, Timed, PatchFirst, At, Single, Batching
<1>2. CASE Fail(t, "KeyError")
  BY <1>1, <1>2, FailMends
<1>3. CASE call' = [call EXCEPT ![t].pc = "pick"]
  <2> DEFINE d == [c EXCEPT !.pc = "pick"]
  <2>1. call' = [call EXCEPT ![t] = d]
    BY <1>3 DEF Calls
  <2>2. /\ d.pipe = c.pipe /\ d.res = c.res /\ d.redo = c.redo
        /\ d.i = c.i /\ d.pc = "pick" /\ d.after = c.after
    BY <1>1 DEF Shaped, CallFields
  <2> HIDE DEF d
  <2>3. Follows(c, d)
    BY <1>1, <2>2 DEF Follows, Single, Sending
  <2> QED
    BY <2>1, <2>3, FollowsLemma
<1> QED
  BY <1>2, <1>3 DEF PatchFirst

LEMMA PickMends ==
  ASSUME Calls, Mending, NEW t \in Threads, Pick(t)
  PROVE  Mending'
<1>1. /\ call[t].pc \in {"determine", "pick"} /\ (Single(call[t]) \/ Batching(t))
      /\ \/ \E e : Fail(t, e)
         \/ \E n : Picked(t, n)
  <2>1. call[t].pc \in {"determine", "pick"}
    BY DEF Pick, At
  <2>2. Single(call[t]) \/ Batching(t)
    BY <2>1 DEF Calls, Good, Timed, Single, Batching
  <2> QED
    BY <2>1, <2>2, Zenon DEF Pick
<1> QED
  BY <1>1, FailMends, PickedMends

LEMMA NextTargetMends ==
  ASSUME Calls, Mending, NEW t \in Threads, NextTarget(t)
  PROVE  Mending'
<1> DEFINE c == call[t]
<1>1. /\ Shaped(c) /\ c.pc = "next" /\ c.after # "batch" /\ Single(c) /\ Mends(c)
      /\ c.pipe => DOMAIN c.res = DOMAIN c.cmds /\ c.redo \subseteq DOMAIN c.cmds
  BY DEF Calls, Good, Typed, Timed, NextTarget, At, Single, Mending
<1>2. CASE call' = Over(t)
  BY <1>2, OverMends
<1>3. CASE c.pipe /\ call' = [call EXCEPT ![t].res[c.i] = "ok", ![t].pc = "retry",
                                          ![t].got = @ \cup {c.i}]
  <2> DEFINE r == [c.res EXCEPT ![c.i] = "ok"]
             d == [c EXCEPT !.res = r, !.pc = "retry", !.got = @ \cup {c.i}]
  <2>1. call' = [call EXCEPT ![t] = d]
    BY <1>3 DEF Calls
  <2>2. \A j \in c.redo : r[j] = c.res[j]
    BY <1>1, <1>3 DEF Mends
  <2> HIDE DEF r
  <2>3. /\ d.pipe = c.pipe /\ d.res = r /\ d.redo = c.redo
        /\ d.pc = "retry" /\ d.after = c.after
    BY <1>1 DEF Shaped, CallFields
  <2> HIDE DEF d
  <2>4. Mends(d)
    BY <1>1, <1>3, <2>2, <2>3 DEF Mends, Single, Sending
  <2> QED
    BY <2>1, <2>4, MendsLemma
<1>4. ASSUME NEW n, call' = [call EXCEPT ![t].pc = "exchange", ![t].target = n,
                               ![t].todo = @ \ {n}, ![t].ttl = TTL]
      PROVE  Mending'
  <2> DEFINE d == [c EXCEPT !.pc = "exchange", !.target = n, !.todo = @ \ {n},
                            !.ttl = TTL]
  <2>1. call' = [call EXCEPT ![t] = d]
    BY <1>4 DEF Calls
  <2>2. /\ d.pipe = c.pipe /\ d.res = c.res /\ d.redo = c.redo
        /\ d.i = c.i /\ d.pc = "exchange" /\ d.after = c.after
    BY <1>1 DEF Shaped, CallFields
  <2> HIDE DEF d
  <2>3. Follows(c, d)
    BY <1>1, <2>2 DEF Follows, Single, Sending
  <2> QED
    BY <2>1, <2>3, FollowsLemma
<1> QED
  BY <1>2, <1>3, <1>4 DEF NextTarget

LEMMA LoopMends ==
  ASSUME Calls, Mending, NEW t \in Threads, Loop(t)
  PROVE  Mending'
<1> DEFINE c == call[t]
<1>1. Shaped(c) /\ c.pc = "loop" /\ c.after # "batch" /\ Single(c)
  BY DEF Calls, Good, Timed, Loop, At, Single
<1>2. ASSUME NEW e, Fail(t, e) PROVE Mending'
  BY <1>1, <1>2, FailMends
<1>3. CASE call' = [call EXCEPT ![t].pc = "exchange", ![t].ttl = @ - 1,
                                ![t].target = c.redirect, ![t].redirect = None]
  <2> DEFINE d == [c EXCEPT !.pc = "exchange", !.ttl = @ - 1, !.target = c.redirect,
                            !.redirect = None]
  <2>1. call' = [call EXCEPT ![t] = d]
    BY <1>3 DEF Calls
  <2>2. /\ d.pipe = c.pipe /\ d.res = c.res /\ d.redo = c.redo
        /\ d.i = c.i /\ d.pc = "exchange" /\ d.after = c.after
    BY <1>1 DEF Shaped, CallFields
  <2> HIDE DEF d
  <2>3. Follows(c, d)
    BY <1>1, <2>2 DEF Follows, Single, Sending
  <2> QED
    BY <2>1, <2>3, FollowsLemma
<1>4. ASSUME NEW label \in {"exchange", "determine"},
             call' = [call EXCEPT ![t].ttl = @ - 1, ![t].redirect = None, ![t].pc = label]
      PROVE  Mending'
  <2> DEFINE d == [c EXCEPT !.ttl = @ - 1, !.redirect = None, !.pc = label]
  <2>1. call' = [call EXCEPT ![t] = d]
    BY <1>4 DEF Calls
  <2>2. /\ d.pipe = c.pipe /\ d.res = c.res /\ d.redo = c.redo
        /\ d.i = c.i /\ d.pc = label /\ d.after = c.after
    BY <1>1 DEF Shaped, CallFields
  <2> HIDE DEF d
  <2>3. Follows(c, d)
    BY <1>1, <2>2 DEF Follows, Single, Sending
  <2> QED
    BY <2>1, <2>3, FollowsLemma
<1>5. \/ \E e : Fail(t, e)
      \/ call' = [call EXCEPT ![t].pc = "exchange", ![t].ttl = @ - 1,
                              ![t].target = c.redirect, ![t].redirect = None]
      \/ call' = [call EXCEPT ![t].ttl = @ - 1, ![t].redirect = None,
                     ![t].pc = IF c.redirect = None THEN "exchange" ELSE "determine"]
  <2>1. c.ttl \in Nat
    BY ClusterClientAssumption DEF Calls, Good, Typed
  <2>2. \/ c.ttl <= 1
        \/ c.ttl > 1 /\ c.asking /\ c.redirect \in nodes_cache
        \/ c.ttl > 1 /\ c.asking /\ c.redirect \notin nodes_cache
        \/ c.ttl > 1 /\ ~c.asking
    BY <2>1
  <2> QED
    BY <2>2 DEF Loop
<1> QED
  BY <1>2, <1>3, <1>4, <1>5

LEMMA ExchangeMends ==
  ASSUME Inv, Mending, NEW t \in Threads, Exchange(t)
  PROVE  Mending'
<1> DEFINE c == call[t]
           answers == IF c.kind = "key" THEN Answers(c.target, Slot(t), c.read, c.asking)
                      ELSE {[kind |-> "ok", node |-> c.target]}
           Goto(label) == [call EXCEPT ![t].pc = label, ![t].asking = FALSE]
           Reply(a) ==
             CASE a.kind = "ok" -> [Executed(t) EXCEPT ![t].pc = "next", ![t].ttl = 0,
                                      ![t].target = None, ![t].asking = FALSE]
               [] a.kind = "moved" -> [Goto("count") EXCEPT ![t].redirect = a.node]
               [] a.kind = "ask" -> [Goto("loop") EXCEPT ![t].redirect = a.node,
                                                         ![t].asking = TRUE]
               [] a.kind = "tryagain" -> Goto("loop")
               [] a.kind = "clusterdown" -> Goto("down")
<1>1. Shaped(c) /\ c.pc = "exchange" /\ c.after # "batch" /\ Single(c)
  BY DEF Inv, Calls, Good, Timed, Exchange, At, Single
<1>2. \A a \in answers :
        a.kind \in {"ok", "moved", "ask", "tryagain", "clusterdown"}
  <2>1. Good(c) /\ c.target \in Nodes /\ Servers
    BY <1>1 DEF Inv, Calls, Manager, Good, Placed
  <2>2. Slot(t) \in Slots
    <3>1. c.i \in DOMAIN c.cmds /\ c.cmds \in Seq(Slots)
      BY <1>1, <2>1 DEF Good, Placed, Typed
    <3> QED
      BY <3>1 DEF Slot
  <2> QED
    BY <2>1, <2>2, AnswersLemma
<1> HIDE DEF answers
<1>3. ASSUME NEW d, Follows(c, d), call' = [call EXCEPT ![t] = d] PROVE Mending'
  BY <1>3, FollowsLemma DEF Inv
<1>4. ASSUME NEW label \in {"count", "loop", "down"}, NEW asking, NEW redirect
      PROVE  Follows(c, [c EXCEPT !.pc = label, !.asking = asking, !.redirect = redirect])
  <2> DEFINE d == [c EXCEPT !.pc = label, !.asking = asking, !.redirect = redirect]
  <2>1. /\ d.pipe = c.pipe /\ d.res = c.res /\ d.redo = c.redo
        /\ d.i = c.i /\ d.pc = label /\ d.after = c.after
    BY <1>1 DEF Shaped, CallFields
  <2> HIDE DEF d
  <2>2. Follows(c, d)
    BY <1>1, <2>1 DEF Follows, Single, Sending
  <2> QED
    BY <2>2 DEF d
<1>5. ASSUME NEW a \in answers, call' = Reply(a) PROVE Mending'
  <2>1. CASE a.kind = "ok"
    <3> DEFINE fx == [c.fx EXCEPT ![c.i] = @ + 1]
               d == [c EXCEPT !.fx = fx, !.pc = "next", !.ttl = 0, !.target = None,
                              !.asking = FALSE]
    <3>1. call' = [call EXCEPT ![t] = d]
      BY <1>5, <2>1 DEF Executed, Inv, Calls
    <3> HIDE DEF fx
    <3>2. /\ d.pipe = c.pipe /\ d.res = c.res /\ d.redo = c.redo
          /\ d.i = c.i /\ d.pc = "next" /\ d.after = c.after
      BY <1>1 DEF Shaped, CallFields
    <3> HIDE DEF d
    <3>3. Follows(c, d)
      BY <1>1, <3>2 DEF Follows, Single, Sending
    <3> QED
      BY <1>3, <3>1, <3>3
  <2>2. CASE a.kind = "moved"
    <3> DEFINE d == [c EXCEPT !.pc = "count", !.asking = FALSE, !.redirect = a.node]
    <3>1. call' = [call EXCEPT ![t] = d]
      BY <1>5, <2>2 DEF Inv, Calls
    <3> QED
      BY <1>3, <1>4, <3>1
  <2>3. CASE a.kind = "ask"
    <3> DEFINE d == [c EXCEPT !.pc = "loop", !.asking = TRUE, !.redirect = a.node]
    <3>1. call' = [call EXCEPT ![t] = d]
      BY <1>5, <2>3 DEF Inv, Calls
    <3> QED
      BY <1>3, <1>4, <3>1
  <2>4. CASE a.kind \in {"tryagain", "clusterdown"}
    <3>1. PICK label \in {"loop", "down"} : call' = Goto(label)
      BY <1>5, <2>4
    <3> DEFINE d == [c EXCEPT !.pc = label, !.asking = FALSE, !.redirect = c.redirect]
    <3>2. call' = [call EXCEPT ![t] = d]
      BY <1>1, <3>1 DEF Inv, Calls, Shaped, CallFields
    <3> QED
      BY <1>3, <1>4, <3>2
  <2> QED
    BY <1>2, <2>1, <2>2, <2>3, <2>4
<1>6. CASE Fail(t, "ResponseError")
  BY <1>1, <1>6, FailMends DEF Inv
<1>7. ASSUME NEW fx, call' = [call EXCEPT ![t].fx = fx, ![t].pc = "broken"]
      PROVE  Mending'
  <2> DEFINE d == [c EXCEPT !.fx = fx, !.pc = "broken"]
  <2>1. call' = [call EXCEPT ![t] = d]
    BY <1>7 DEF Inv, Calls
  <2>2. /\ d.pipe = c.pipe /\ d.res = c.res /\ d.redo = c.redo
        /\ d.i = c.i /\ d.pc = "broken" /\ d.after = c.after
    BY <1>1 DEF Shaped, CallFields
  <2> HIDE DEF d
  <2>3. Follows(c, d)
    BY <1>1, <2>2 DEF Follows, Single, Sending
  <2> QED
    BY <1>3, <2>1, <2>3
<1>8. ASSUME call' \in {[call EXCEPT ![t].pc = "broken"], [Executed(t) EXCEPT ![t].pc = "broken"]}
      PROVE  \E fx : call' = [call EXCEPT ![t].fx = fx, ![t].pc = "broken"]
  <2>1. CASE call' = [call EXCEPT ![t].pc = "broken"]
    <3>1. call' = [call EXCEPT ![t].fx = c.fx, ![t].pc = "broken"]
      BY <1>1, <2>1 DEF Inv, Calls, Shaped, CallFields
    <3> QED
      BY <3>1
  <2>2. CASE call' = [Executed(t) EXCEPT ![t].pc = "broken"]
    <3>1. call' = [call EXCEPT ![t].fx = [c.fx EXCEPT ![c.i] = @ + 1], ![t].pc = "broken"]
      BY <2>2 DEF Executed, Inv, Calls
    <3> QED
      BY <3>1
  <2> QED
    BY <1>8, <2>1, <2>2
<1> QED
  BY <1>5, <1>6, <1>7, <1>8 DEF Exchange, answers

LEMMA InitializeThenMends ==
  ASSUME Calls, Mending, NEW t \in Threads, NEW e,
         call[t].pc \in {"broken", "down"}, call' = InitializeThen(t, "raise", e)
  PROVE  Mending'
<1> DEFINE c == call[t]
<1>1. Shaped(c) /\ c.pc \in {"broken", "down"} /\ c.after # "batch" /\ Single(c)
  BY DEF Calls, Good, Timed, Single
<1> DEFINE d == [c EXCEPT !.pc = "init", !.after = "raise", !.error = e, !.ttl = 0,
                          !.target = None, !.asking = FALSE]
<1>2. call' = [call EXCEPT ![t] = d]
  BY DEF InitializeThen, Calls
<1>3. /\ d.pipe = c.pipe /\ d.res = c.res /\ d.redo = c.redo
      /\ d.i = c.i /\ d.pc = "init" /\ d.after = "raise"
  BY <1>1 DEF Shaped, CallFields
<1> HIDE DEF d
<1>4. Follows(c, d)
  BY <1>1, <1>3 DEF Follows, Single, Sending
<1> QED
  BY <1>2, <1>4, FollowsLemma

LEMMA CountMovedMends ==
  ASSUME Calls, Mending, NEW t \in Threads, CountMoved(t)
  PROVE  Mending'
<1> DEFINE c == call[t]
<1>1. Shaped(c) /\ c.pc = "count" /\ c.after # "batch" /\ Single(c)
  BY DEF Calls, Good, Timed, CountMoved, At, Single
<1>2. \E k : call' = [call EXCEPT ![t].pc = "decide", ![t].count = k]
  <2>1. CASE c.pipe
    BY <2>1 DEF CountMoved, SetCounter, Calls
  <2>2. CASE ~c.pipe
    <3>1. call' = [call EXCEPT ![t].pc = "decide"]
      BY <2>2 DEF CountMoved, SetCounter
    <3>2. call' = [call EXCEPT ![t].pc = "decide", ![t].count = c.count]
      BY <1>1, <3>1 DEF Calls, Shaped, CallFields
    <3> QED
      BY <3>2
  <2> QED
    BY <2>1, <2>2
<1>3. ASSUME NEW k, call' = [call EXCEPT ![t].pc = "decide", ![t].count = k]
      PROVE  Mending'
  <2> DEFINE d == [c EXCEPT !.pc = "decide", !.count = k]
  <2>1. call' = [call EXCEPT ![t] = d]
    BY <1>3 DEF Calls
  <2>2. /\ d.pipe = c.pipe /\ d.res = c.res /\ d.redo = c.redo
        /\ d.i = c.i /\ d.pc = "decide" /\ d.after = c.after
    BY <1>1 DEF Shaped, CallFields
  <2> HIDE DEF d
  <2>3. Follows(c, d)
    BY <1>1, <2>2 DEF Follows, Single, Sending
  <2> QED
    BY <2>1, <2>3, FollowsLemma
<1> QED
  BY <1>2, <1>3

LEMMA DecideMovedMends ==
  ASSUME Calls, Mending, NEW t \in Threads, DecideMoved(t)
  PROVE  Mending'
<1> DEFINE c == call[t]
<1>1. Shaped(c) /\ c.pc = "decide" /\ c.after # "batch" /\ Single(c)
  BY DEF Calls, Good, Timed, DecideMoved, At, Single
<1>2. CASE call' = [call EXCEPT ![t].pc = "init", ![t].after = "loop"]
  <2> DEFINE d == [c EXCEPT !.pc = "init", !.after = "loop"]
  <2>1. call' = [call EXCEPT ![t] = d]
    BY <1>2 DEF Calls
  <2>2. /\ d.pipe = c.pipe /\ d.res = c.res /\ d.redo = c.redo
        /\ d.i = c.i /\ d.pc = "init" /\ d.after = "loop"
    BY <1>1 DEF Shaped, CallFields
  <2> HIDE DEF d
  <2>3. Follows(c, d)
    BY <1>1, <2>2 DEF Follows, Single, Sending
  <2> QED
    BY <2>1, <2>3, FollowsLemma
<1>3. CASE call' = [call EXCEPT ![t].pc = "loop"]
  <2> DEFINE d == [c EXCEPT !.pc = "loop"]
  <2>1. call' = [call EXCEPT ![t] = d]
    BY <1>3 DEF Calls
  <2>2. /\ d.pipe = c.pipe /\ d.res = c.res /\ d.redo = c.redo
        /\ d.i = c.i /\ d.pc = "loop" /\ d.after = c.after
    BY <1>1 DEF Shaped, CallFields
  <2> HIDE DEF d
  <2>3. Follows(c, d)
    BY <1>1, <2>2 DEF Follows, Single, Sending
  <2> QED
    BY <2>1, <2>3, FollowsLemma
<1> QED
  BY <1>2, <1>3 DEF DecideMoved

LEMMA AfterInitializeMends ==
  ASSUME Calls, Mending, NEW t \in Threads, AfterInitialize(t)
  PROVE  Mending'
<1> DEFINE c == call[t]
           Goto(label) == [call EXCEPT ![t].pc = label, ![t].after = "none"]
<1>1. Shaped(c) /\ c.pc = "init" /\ c.after \in {"loop", "raise", "pass", "retry"}
  BY DEF Calls, Good, Timed, AfterInitialize, At
<1>2. CASE call' = Over(t)
  BY <1>2, OverMends
<1>3. CASE c.after \notin {"pass", "retry"} /\ Fail(t, ini[t].error)
  <2>1. Single(c)
    BY <1>1, <1>3 DEF Single
  <2> QED
    BY <1>3, <2>1, FailMends
<1>4. ASSUME NEW k, call' = [call EXCEPT ![t].pc = c.after, ![t].after = "none", ![t].count = k]
      PROVE  Mending'
  <2> DEFINE d == [c EXCEPT !.pc = c.after, !.after = "none", !.count = k]
  <2>1. call' = [call EXCEPT ![t] = d]
    BY <1>4 DEF Calls
  <2>2. /\ d.pipe = c.pipe /\ d.res = c.res /\ d.redo = c.redo
        /\ d.i = c.i /\ d.pc = c.after /\ d.after = "none"
    BY <1>1 DEF Shaped, CallFields
  <2> HIDE DEF d
  <2>3. Follows(c, d)
    BY <1>1, <2>2 DEF Follows, Single, Sending
  <2> QED
    BY <2>1, <2>3, FollowsLemma
<1>5. ASSUME call' = Goto(c.after)
      PROVE  Mending'
  <2>1. call' = [call EXCEPT ![t].pc = c.after, ![t].after = "none", ![t].count = c.count]
    BY <1>1, <1>5 DEF Calls, Shaped, CallFields
  <2> QED
    BY <1>4, <2>1
<1>6. CASE c.after = "loop" /\ SetCounter(t, Goto("loop"), 0)
  <2>1. CASE c.pipe
    <3>1. call' = [call EXCEPT ![t].pc = c.after, ![t].after = "none", ![t].count = 0]
      BY <1>6, <2>1 DEF SetCounter, Calls
    <3> QED
      BY <1>4, <3>1
  <2>2. CASE ~c.pipe
    BY <1>5, <1>6, <2>2 DEF SetCounter
  <2> QED
    BY <2>1, <2>2
<1> HIDE DEF Goto
<1>7. \/ call' = Over(t)
      \/ c.after \notin {"pass", "retry"} /\ Fail(t, ini[t].error)
      \/ c.after = "loop" /\ SetCounter(t, Goto("loop"), 0)
      \/ call' = Goto(c.after)
  BY DEF AfterInitialize, Goto
<1> QED
  BY <1>2, <1>3, <1>5, <1>6, <1>7

LEMMA RaiseMends ==
  ASSUME Calls, Mending, NEW t \in Threads, Raise(t)
  PROVE  Mending'
<1> DEFINE c == call[t]
<1>1. /\ Shaped(c) /\ c.pc = "raise" /\ c.after # "batch" /\ Single(c) /\ Mends(c)
      /\ DOMAIN c.res = DOMAIN c.cmds /\ c.redo \subseteq DOMAIN c.cmds
  BY DEF Calls, Good, Typed, Timed, Raise, At, Single, Mending
<1>2. CASE call' = [call EXCEPT ![t].pc = "determine", ![t].error = "none",
                                ![t].tries = @ - 1, ![t].todo = {}]
  <2> DEFINE d == [c EXCEPT !.pc = "determine", !.error = "none", !.tries = @ - 1, !.todo = {}]
  <2>1. call' = [call EXCEPT ![t] = d]
    BY <1>2 DEF Calls
  <2>2. /\ d.pipe = c.pipe /\ d.res = c.res /\ d.redo = c.redo
        /\ d.i = c.i /\ d.pc = "determine" /\ d.after = c.after
    BY <1>1 DEF Shaped, CallFields
  <2> HIDE DEF d
  <2>3. Follows(c, d)
    BY <1>1, <2>2 DEF Follows, Single, Sending
  <2> QED
    BY <2>1, <2>3, FollowsLemma
<1>3. CASE c.pipe /\ call' = [call EXCEPT ![t].res[c.i] = c.error, ![t].pc = "retry",
                                          ![t].error = "none", ![t].todo = {}]
  <2> DEFINE r == [c.res EXCEPT ![c.i] = c.error]
             d == [c EXCEPT !.res = r, !.pc = "retry", !.error = "none", !.todo = {}]
  <2>1. call' = [call EXCEPT ![t] = d]
    BY <1>3 DEF Calls
  <2>2. \A j \in c.redo : r[j] = c.res[j]
    BY <1>1, <1>3 DEF Mends
  <2> HIDE DEF r
  <2>3. /\ d.pipe = c.pipe /\ d.res = r /\ d.redo = c.redo
        /\ d.pc = "retry" /\ d.after = c.after
    BY <1>1 DEF Shaped, CallFields
  <2> HIDE DEF d
  <2>4. Mends(d)
    BY <1>1, <1>3, <2>2, <2>3 DEF Mends, Single, Sending
  <2> QED
    BY <2>1, <2>4, MendsLemma
<1>4. CASE call' = Over(t)
  BY <1>4, OverMends
<1> QED
  BY <1>2, <1>3, <1>4 DEF Raise

LEMMA SendClusterCommandsMends ==
  ASSUME Calls, Mending, NEW t \in Threads, SendClusterCommands(t)
  PROVE  Mending'
<1> DEFINE c == call[t]
<1>1. Shaped(c) /\ c.pc = "pass"
  BY DEF Calls, Good, SendClusterCommands, At
<1>2. CASE c.passes = 0
  BY <1>2, OverMends DEF SendClusterCommands
<1>3. CASE c.passes # 0
  <2> DEFINE d == [c EXCEPT !.pc = "determine", !.after = "batch", !.i = 1,
                            !.passes = PassTaken(@), !.tries = 0, !.batch = <<>>,
                            !.isDefault = FALSE, !.error = "none"]
  <2>1. call' = [call EXCEPT ![t] = d]
    BY <1>3 DEF SendClusterCommands, Calls
  <2>2. /\ d.pipe = c.pipe /\ d.res = c.res /\ d.redo = c.redo
        /\ d.pc = "determine" /\ d.after = "batch"
    BY <1>1 DEF Shaped, CallFields
  <2> HIDE DEF d
  <2>3. Follows(c, d)
    BY <1>1, <2>2 DEF Follows, Single, Sending
  <2> QED
    BY <2>1, <2>3, FollowsLemma
<1> QED
  BY <1>2, <1>3

LEMMA PipelineConnectMends ==
  ASSUME Calls, Mending, NEW t \in Threads, PipelineConnect(t)
  PROVE  Mending'
<1> DEFINE c == call[t]
           last == c.i = Len(c.cmds)
<1>1. Shaped(c) /\ c.pc = "batch" /\ c.after = "batch"
  BY DEF Calls, Good, Timed, PipelineConnect, At
<1>2. CASE call' = [call EXCEPT ![t].held = @ \cup {c.target},
                      ![t].batch = Append(@, c.target), ![t].target = None,
                      ![t].i = IF last THEN 1 ELSE c.i + 1,
                      ![t].pc = IF last THEN "write" ELSE "determine",
                      ![t].after = IF last THEN "none" ELSE "batch",
                      ![t].todo = IF last THEN c.held \cup {c.target} ELSE {}]
  <2>1. CASE last
    <3> DEFINE d == [c EXCEPT !.held = @ \cup {c.target}, !.batch = Append(@, c.target),
                              !.target = None, !.i = 1, !.pc = "write",
                              !.after = "none", !.todo = c.held \cup {c.target}]
    <3>1. call' = [call EXCEPT ![t] = d]
      BY <1>2, <2>1 DEF Calls
    <3>2. /\ d.pipe = c.pipe /\ d.res = c.res /\ d.redo = c.redo
          /\ d.pc = "write" /\ d.after = "none"
      BY <1>1 DEF Shaped, CallFields
    <3> HIDE DEF d
    <3>3. Follows(c, d)
      BY <1>1, <3>2 DEF Follows, Single, Sending
    <3> QED
      BY <3>1, <3>3, FollowsLemma
  <2>2. CASE ~last
    <3> DEFINE d == [c EXCEPT !.held = @ \cup {c.target}, !.batch = Append(@, c.target),
                              !.target = None, !.i = @ + 1, !.pc = "determine",
                              !.after = "batch", !.todo = {}]
    <3>1. call' = [call EXCEPT ![t] = d]
      BY <1>2, <2>2 DEF Calls
    <3>2. /\ d.pipe = c.pipe /\ d.res = c.res /\ d.redo = c.redo
          /\ d.pc = "determine" /\ d.after = "batch"
      BY <1>1 DEF Shaped, CallFields
    <3> HIDE DEF d
    <3>3. Follows(c, d)
      BY <1>1, <3>2 DEF Follows, Single, Sending
    <3> QED
      BY <3>1, <3>3, FollowsLemma
  <2> QED
    BY <2>1, <2>2
<1>3. CASE call' = [InitializeThen(t, "pass", "conn") EXCEPT ![t].held = Released(@)]
  <2> DEFINE d == [c EXCEPT !.pc = "init", !.after = "pass", !.error = "conn", !.ttl = 0,
                            !.target = None, !.asking = FALSE, !.held = {}]
  <2>1. call' = [call EXCEPT ![t] = d]
    BY <1>3 DEF InitializeThen, Released, Calls
  <2>2. /\ d.pipe = c.pipe /\ d.res = c.res /\ d.redo = c.redo
        /\ d.pc = "init" /\ d.after = "pass"
    BY <1>1 DEF Shaped, CallFields
  <2> HIDE DEF d
  <2>3. Follows(c, d)
    BY <1>1, <2>2 DEF Follows, Single, Sending
  <2> QED
    BY <2>1, <2>3, FollowsLemma
<1> QED
  BY <1>2, <1>3 DEF PipelineConnect

LEMMA NodeCommandsMends ==
  ASSUME Calls, Mending, NEW t \in Threads, NodeCommands(t)
  PROVE  Mending'
<1> DEFINE c == call[t]
           Mine(n) == {i \in DOMAIN c.batch : c.batch[i] = n}
           Kind(n, i) == {a.kind : a \in Answers(n, c.cmds[i], FALSE, FALSE)}
                           \cup {"ResponseError"}
           Result(n, r, done, answered) ==
             [call EXCEPT ![t].todo = @ \ {n},
                ![t].res = [i \in DOMAIN @ |-> IF i \in Mine(n) THEN r[i] ELSE @[i]],
                ![t].fx = [i \in DOMAIN @ |-> IF i \in done THEN @[i] + 1 ELSE @[i]],
                ![t].got = @ \cup answered]
<1>1. Shaped(c) /\ c.pc = "write" /\ c.after # "batch" /\ Mends(c) /\ c.pipe
  BY DEF Calls, Good, Timed, NodeCommands, At, Mending
<1>2. ASSUME NEW n, NEW r, NEW done, NEW answered, call' = Result(n, r, done, answered)
      PROVE  Mending'
  <2> DEFINE q == [i \in DOMAIN c.res |-> IF i \in Mine(n) THEN r[i] ELSE c.res[i]]
             f == [i \in DOMAIN c.fx |-> IF i \in done THEN c.fx[i] + 1 ELSE c.fx[i]]
             d == [c EXCEPT !.todo = @ \ {n}, !.res = q, !.fx = f, !.got = @ \cup answered]
  <2>1. call' = [call EXCEPT ![t] = d]
    BY <1>2 DEF Calls
  <2> HIDE DEF q, f
  <2>2. d.pipe = c.pipe /\ d.redo = c.redo /\ d.pc = "write" /\ d.after = c.after
    BY <1>1 DEF Shaped, CallFields
  <2> HIDE DEF d
  <2>3. Mends(d)
    BY <1>1, <2>2 DEF Mends, Single, Sending
  <2> QED
    BY <2>1, <2>3, MendsLemma
<1>3. \E n, r, done, answered : call' = Result(n, r, done, answered)
  <2>1. PICK n \in c.todo :
         \/ /\ NoFault
            /\ \E r \in [Mine(n) -> UNION {Kind(n, i) : i \in Mine(n)}] :
                 LET ok == {i \in Mine(n) : r[i] = "ok"} IN
                 /\ \A i \in Mine(n) : r[i] \in Kind(n, i)
                 /\ call' = Result(n, r, ok, ok)
         \/ /\ Fault
            /\ \E k \in {0} \cup Mine(n), a \in {0} \cup Mine(n) :
                 /\ a <= k
                 /\ LET done == {i \in Mine(n) : i <= k /\ "ok" \in Kind(n, i)} IN
                    call' = Result(n, [i \in Mine(n) |-> "conn"], done,
                                   {i \in done : i <= a})
    BY Zenon DEF NodeCommands
  <2> HIDE DEF Result, Mine, Kind
  <2> QED
    BY <2>1
<1> HIDE DEF Result
<1> QED
  BY <1>2, <1>3

LEMMA CollectFailedMends ==
  ASSUME Calls, Mending, NEW t \in Threads, CollectFailed(t)
  PROVE  Mending'
<1> DEFINE c == call[t]
           failed == {i \in DOMAIN c.res : RetryableResult(c.res[i])}
<1>1. Shaped(c) /\ c.pc = "write" /\ c.after # "batch" /\ c.pipe
  BY DEF Calls, Good, Timed, CollectFailed, At
<1>2. \A j \in failed : c.res[j] \in PipelineAllowRetry
  BY DEF RetryableResult
<1>3. ASSUME NEW d, d.res = c.res, d.redo = failed,
             \/ d.pc = "retry" /\ d.after = c.after
             \/ d.pc = "init" /\ d.after = "retry",
             call' = [call EXCEPT ![t] = d]
      PROVE  Mending'
  <2> HIDE DEF failed
  <2>1. Mends(d)
    BY <1>1, <1>2, <1>3 DEF Mends, Single, Sending
  <2> QED
    BY <1>3, <2>1, MendsLemma
<1> DEFINE k == IF failed = {} \/ ReinitSteps = 0 THEN c.count
                ELSE (c.count + 1) % ReinitSteps
<1>4. CASE failed # {} /\ ReinitSteps # 0 /\ k = 0
  <2> DEFINE d == [c EXCEPT !.redo = failed, !.count = k, !.held = {}, !.batch = <<>>,
                            !.pc = "init", !.after = "retry"]
  <2>1. call' = [call EXCEPT ![t] = d]
    BY <1>4 DEF CollectFailed, Released, Calls
  <2> HIDE DEF failed, k
  <2>2. d.res = c.res /\ d.redo = failed /\ d.pc = "init" /\ d.after = "retry"
    BY <1>1 DEF Shaped, CallFields
  <2> HIDE DEF d
  <2> QED
    BY <1>3, <2>1, <2>2
<1>5. CASE ~(failed # {} /\ ReinitSteps # 0 /\ k = 0)
  <2> DEFINE d == [c EXCEPT !.redo = failed, !.count = k, !.held = {}, !.batch = <<>>,
                            !.pc = "retry"]
  <2>1. call' = [call EXCEPT ![t] = d]
    BY <1>5 DEF CollectFailed, Released, Calls
  <2> HIDE DEF failed, k
  <2>2. d.res = c.res /\ d.redo = failed /\ d.pc = "retry" /\ d.after = c.after
    BY <1>1 DEF Shaped, CallFields
  <2> HIDE DEF d
  <2> QED
    BY <1>3, <2>1, <2>2
<1> QED
  BY <1>4, <1>5

LEMMA RetryOneMends ==
  ASSUME Calls, Mending, NEW t \in Threads, RetryOne(t)
  PROVE  Mending'
<1> DEFINE c == call[t]
           m == Min(c.redo)
<1>1. Shaped(c) /\ c.pc = "retry" /\ c.after # "batch" /\ Mends(c) /\ c.pipe
  BY DEF Calls, Good, Timed, RetryOne, At, Mending
<1>2. m \in c.redo
  <2>1. c.redo \subseteq DOMAIN c.cmds /\ c.cmds \in Seq(Slots) /\ c.redo # {}
    BY DEF Calls, Good, Typed, RetryOne
  <2>2. c.redo \subseteq Nat
    BY <2>1
  <2> QED
    BY <2>1, <2>2, MinLemma
<1> HIDE DEF m
<1> DEFINE d == [c EXCEPT !.pc = "determine", !.i = m, !.redo = @ \ {m},
                          !.tries = RetryAttempts, !.isDefault = FALSE]
<1>3. call' = [call EXCEPT ![t] = d]
  BY DEF RetryOne, Calls, m
<1>4. /\ d.pipe = c.pipe /\ d.res = c.res /\ d.redo = c.redo \ {m} /\ d.i = m
      /\ d.pc = "determine" /\ d.after = c.after
  BY <1>1 DEF Shaped, CallFields
<1> HIDE DEF d
<1>5. Mends(d)
  BY <1>1, <1>2, <1>4 DEF Mends, Single, Sending
<1> QED
  BY <1>3, <1>5, MendsLemma

LEMMA RespondMends ==
  ASSUME Calls, Mending, NEW t \in Threads, Respond(t)
  PROVE  Mending'
<1> DEFINE c == call[t]
<1>1. Shaped(c) /\ c.pc = "retry" /\ c.after # "batch" /\ c.redo = {} /\ c.pipe
  BY DEF Calls, Good, Timed, Respond, At
<1>2. CASE call' = Over(t)
  BY <1>2, OverMends
<1>3. ASSUME NEW e, call' = [call EXCEPT ![t].pc = "pass", ![t].error = e] PROVE Mending'
  <2> DEFINE d == [c EXCEPT !.pc = "pass", !.error = e]
  <2>1. call' = [call EXCEPT ![t] = d]
    BY <1>3 DEF Calls
  <2>2. d.redo = {} /\ d.pc = "pass" /\ d.after = c.after
    BY <1>1 DEF Shaped, CallFields
  <2> HIDE DEF d
  <2>3. Mends(d)
    BY <1>1, <2>2 DEF Mends, Single
  <2> QED
    BY <2>1, <2>3, MendsLemma
<1> QED
  BY <1>2, <1>3 DEF Respond

LEMMA CallsMends ==
  ASSUME Calls, Mending, NEW t \in Threads, ExecuteCommand(t) \/ Execute(t)
  PROVE  Mending'
<1>1. ASSUME NEW kind, NEW s, NEW read, NEW given, NEW n, NEW b, NEW h, NEW l
      PROVE  Mends([Command(kind, s, read, given, n) EXCEPT
                      !.bad = b, !.held = h, !.left = l])
  BY DEF Mends, Command, Idle
<1>2. ASSUME NEW p, NEW b, NEW h, NEW l
      PROVE  Mends([Idle EXCEPT !.pc = "pass", !.pipe = TRUE, !.cmds = p,
                      !.res = [i \in DOMAIN p |-> "none"],
                      !.fx = [i \in DOMAIN p |-> 0], !.passes = RetryAttempts + 1,
                      !.bad = b, !.held = h, !.left = l])
  BY DEF Mends, Single, Idle
<1>3. CASE ExecuteCommand(t)
  <2>0. PICK kind \in Kinds, s \in Slots, read \in Reads, given \in BOOLEAN,
             b \in Bad(<<1>>) :
          \E n \in IF given THEN nodes_cache ELSE {None} :
            /\ kind # "key" => s = Min(Slots) /\ b = {}
            /\ given => kind \in Given /\ b = {}
            /\ call' = [call EXCEPT ![t] = [Command(kind, s, read, given, n) EXCEPT
                          !.bad = b, !.held = call[t].held, !.left = call[t].left]]
    BY <1>3, Zenon DEF ExecuteCommand
  <2>1. PICK n : call' = [call EXCEPT ![t] = [Command(kind, s, read, given, n) EXCEPT
                            !.bad = b, !.held = call[t].held, !.left = call[t].left]]
    BY <2>0
  <2> DEFINE d == [Command(kind, s, read, given, n) EXCEPT
                     !.bad = b, !.held = call[t].held, !.left = call[t].left]
  <2>2. Mends(d)
    BY <1>1
  <2> HIDE DEF d
  <2> QED
    BY <2>1, <2>2, MendsLemma DEF d
<1>4. CASE Execute(t)
  <2>0. PICK p \in Pipelines : \E bad \in Bad(p) :
          call' = [call EXCEPT ![t] =
            [Idle EXCEPT !.pc = "pass", !.pipe = TRUE, !.cmds = p,
                         !.res = [i \in DOMAIN p |-> "none"],
                         !.fx = [i \in DOMAIN p |-> 0], !.passes = RetryAttempts + 1,
                         !.bad = bad, !.held = call[t].held, !.left = call[t].left]]
    BY <1>4, Zenon DEF Execute
  <2>1. PICK b \in Bad(p) :
          call' = [call EXCEPT ![t] =
            [Idle EXCEPT !.pc = "pass", !.pipe = TRUE, !.cmds = p,
                         !.res = [i \in DOMAIN p |-> "none"],
                         !.fx = [i \in DOMAIN p |-> 0], !.passes = RetryAttempts + 1,
                         !.bad = b, !.held = call[t].held, !.left = call[t].left]]
    BY <2>0
  <2> DEFINE d == [Idle EXCEPT !.pc = "pass", !.pipe = TRUE, !.cmds = p,
                         !.res = [i \in DOMAIN p |-> "none"],
                         !.fx = [i \in DOMAIN p |-> 0], !.passes = RetryAttempts + 1,
                         !.bad = b, !.held = call[t].held, !.left = call[t].left]
  <2>2. Mends(d)
    BY <1>2
  <2> HIDE DEF d
  <2> QED
    BY <2>1, <2>2, MendsLemma DEF d
<1> QED
  BY <1>3, <1>4

\* After its batches a pipeline sends again only what failed there with a lost
\* connection or a redirection, once each, whatever pipelines and clusters there
\* are and whatever becomes of the commands it sends again before.
THEOREM SendsAgainWhatFailed == Spec => []OnlyFailedRetried
<1>1. Init => Mending
  BY DEF Init, Mending, Mends, Idle
<1>2. Inv /\ Mending /\ [Next]_vars => Mending'
  <2> SUFFICES ASSUME Inv, Mending, [Next]_vars PROVE Mending'
    OBVIOUS
  <2>1. Calls
    BY DEF Inv
  <2>2. CASE UNCHANGED call
    BY <2>2 DEF Mending
  <2>3. ASSUME NEW t \in Threads, ExecuteCommand(t) \/ Execute(t) PROVE Mending'
    BY <2>1, <2>3, CallsMends
  <2>4. ASSUME NEW t \in Threads, ConnectionError(t) \/ ClusterDown(t) PROVE Mending'
    BY <2>1, <2>4, InitializeThenMends DEF ConnectionError, ClusterDown, At
  <2>5. ASSUME NEW t \in Threads, Step(t) PROVE Mending'
    BY <2>1, <2>2, <2>4, <2>5, DetermineNodesMends, DetermineSlotFailsMends,
       PatchFirstMends, PickMends, NextTargetMends, LoopMends,
       ExchangeMends, CountMovedMends, DecideMovedMends,
       AfterInitializeMends, RaiseMends, SendClusterCommandsMends, PipelineConnectMends,
       NodeCommandsMends, CollectFailedMends, RetryOneMends, RespondMends DEF Step
  <2> QED
    BY <2>2, <2>3, <2>5 DEF Next, vars
<1>3. Inv /\ Mending => OnlyFailedRetried
  <2> SUFFICES ASSUME Inv, Mending, NEW t \in Threads, call[t].pipe, call[t].pc = "exchange"
               PROVE  call[t].res[call[t].i] \in PipelineAllowRetry
    BY DEF OnlyFailedRetried, At
  <2>1. Single(call[t])
    BY DEF Single, Inv, Calls, Good, Timed
  <2> QED
    BY <2>1 DEF Mending, Mends
<1> QED
  BY <1>1, <1>2, <1>3, InvHolds, PTL DEF Spec
=============================================================================
