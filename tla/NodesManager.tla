---------------------------- MODULE NodesManager ----------------------------
(***************************************************************************)
(* redis.cluster.NodesManager and LoadBalancer: the client's picture of a  *)
(* Redis cluster, shared by all threads of one RedisCluster.               *)
(*                                                                         *)
(* The cluster itself is external: it goes through the layouts of Layouts, *)
(* and every node learns of the next layout in its own time.               *)
(*                                                                         *)
(* A ClusterNode is known by its name.  The slots of one range of CLUSTER  *)
(* SLOTS share one list object in slots_cache, which shares records.  With *)
(* dynamic_startup_nodes, startup_nodes and nodes_cache are one dict.      *)
(***************************************************************************)
EXTENDS Integers, FiniteSets, Sequences, SequencesExt

CONSTANTS
  Threads,       \* the threads that share the client
  Nodes,         \* the names of the servers
  Slots,         \* the hash slots
  Layouts,       \* what the cluster looks like, one layout after the other
  Dynamic,       \* dynamic_startup_nodes
  FullCoverage,  \* require_full_coverage
  Strategy,      \* load_balancing_strategy
  MaxDisagree,   \* how many disagreements initialize() accepts, 5 in the code
  MaxFaults,     \* bound: how many connection errors there are
  None

Layout == [slots : [Slots -> Seq(Nodes)], ask : [Slots -> Nodes \cup {None}]]

ASSUME NodesManagerAssumption ==
  /\ Slots \subseteq Nat
  /\ IsFiniteSet(Slots) /\ IsFiniteSet(Nodes) /\ IsFiniteSet(Threads)
  /\ Layouts \in Seq(Layout) \ {<<>>}
  /\ \A i \in DOMAIN Layouts, s \in Slots :
       Len(Layouts[i].slots[s]) <= Cardinality(Nodes)
  /\ \A s \in Slots : Layouts[1].slots[s] # <<>>
  /\ {Dynamic, FullCoverage} \subseteq BOOLEAN
  /\ Strategy \in {"none", "round_robin", "round_robin_replicas", "random_replica"}
  /\ {MaxDisagree, MaxFaults} \subseteq Nat
  /\ None \notin Nodes

VARIABLES
  epoch,          \* which layout each server knows
  faults,         \* how many connection errors there were
  nodes_cache,    \* the names in nodes_cache
  server_type,    \* the server_type of each ClusterNode
  slots_cache,    \* the node list of each slot, <<>> when the slot is absent
  shares,         \* the slots that have the same list object
  startup_nodes,  \* the startup nodes, when Dynamic is FALSE
  default_node,   \* the default node
  moved,          \* _moved_exception
  primary_to_idx, \* the load balancer's next index for each primary
  ini             \* where each thread is inside initialize()

serverVars == <<epoch, faults>>
tableVars == <<nodes_cache, server_type, slots_cache, shares, startup_nodes,
               default_node, moved>>
managerVars == <<serverVars, tableVars, primary_to_idx, ini>>

Moved == [slot : Slots, node : Nodes]
InitErrors == {"none", "RuntimeError", "RedisClusterException", "IndexError"}
NotInitializing ==
  [at |-> "off", todo |-> {}, size |-> 0, live |-> FALSE, nodes |-> {},
   slots |-> [s \in Slots |-> <<>>], shares |-> [s \in Slots |-> {s}],
   disagree |-> 0, error |-> "none"]
-----------------------------------------------------------------------------
(***************************************************************************)
(* The cluster.                                                            *)
(***************************************************************************)
View(n) == Layouts[epoch[n]]
Covered(slots) == \A s \in Slots : slots[s] # <<>>
Members(slots) == UNION {ToSet(slots[s]) : s \in Slots}
PrimariesOf(slots) == {slots[s][1] : s \in {u \in Slots : slots[u] # <<>>}}

\* The slots that CLUSTER SLOTS lists in one entry with s.
RangeOf(slots, s) ==
  {u \in Slots : \A v \in Slots :
     (v \in u..s \/ v \in s..u) =>
       slots[s] # <<>> /\ slots[v] # <<>> /\ slots[v][1] = slots[s][1]}

\* A server's answers to a command on slot s: it owns the slot, or replicates
\* it and the connection is READONLY, or it names the owner it knows.
Answers(n, s, read, asking) ==
  LET list == View(n).slots[s]
      ask == View(n).ask[s]
      Kind(k, m) == [kind |-> k, node |-> m]
  IN CASE list = <<>> -> {Kind("clusterdown", None)}
       [] list # <<>> /\ list[1] = n ->
            {Kind("ok", n)} \cup
            (IF ask = None THEN {} ELSE {Kind("ask", ask), Kind("tryagain", None)})
       [] list # <<>> /\ list[1] # n /\ ask = n /\ asking ->
            {Kind("ok", n), Kind("tryagain", None)}
       [] OTHER ->
            IF read /\ Strategy # "none" /\ n \in ToSet(list)
              THEN {Kind("ok", n)} ELSE {Kind("moved", list[1])}

\* A server learns of the next layout.
Learn(n) ==
  /\ epoch[n] < Len(Layouts)
  /\ epoch' = [epoch EXCEPT ![n] = @ + 1]
  /\ UNCHANGED <<faults, tableVars, primary_to_idx, ini>>

Fault == faults < MaxFaults /\ faults' = faults + 1
NoFault == faults' = faults
-----------------------------------------------------------------------------
(***************************************************************************)
(* The load balancer.                                                      *)
(***************************************************************************)
RoundRobinIndex(p, size, replicasOnly) ==
  LET i == IF replicasOnly /\ primary_to_idx[p] = 0 THEN 1 ELSE primary_to_idx[p]
  IN [index |-> i, next |-> (i + 1) % size]

\* The node index that get_node_from_slot draws, and the balancer's next one.
ServerIndex(list, read) ==
  LET p == list[1]
      stay(i) == [index |-> i, next |-> primary_to_idx[p]]
  IN IF Len(list) = 1 \/ ~read \/ Strategy = "none" THEN {stay(0)}
     ELSE IF Strategy = "random_replica" THEN {stay(i) : i \in 1..(Len(list) - 1)}
     ELSE {RoundRobinIndex(p, Len(list), Strategy = "round_robin_replicas")}
-----------------------------------------------------------------------------
(***************************************************************************)
(* MOVED errors.                                                           *)
(***************************************************************************)
\* self._moved_exception = exception
UpdateMovedException(s, n) == moved' = [slot |-> s, node |-> n]

\* A failover inside the list, or a new list for this slot alone.
PatchedList(list, n) ==
  IF Contains(list, n)
    THEN [RemoveFirst(Append(list, list[1]), n) EXCEPT ![1] = n]
    ELSE <<n>>

\* Mutant: the error is forgotten and the table not patched.
ForgetMoved ==
  /\ moved' = None
  /\ UNCHANGED <<nodes_cache, server_type, slots_cache, shares, startup_nodes,
                 default_node>>

\* A node that is not known yet joins nodes_cache.  One step: other threads that
\* patch wait for _lock; what readers without it see in between, and an error that
\* another thread stores before the last assignment, are left out.
UpdateMovedSlots ==
  LET s == moved.slot
      n == moved.node
      list == slots_cache[s]
      failover == Contains(list, n)
      old == list[1]
  IN /\ nodes_cache' = nodes_cache \cup {n}
     /\ server_type' = IF failover
                         THEN [server_type EXCEPT ![n] = "primary", ![old] = "replica"]
                         ELSE [server_type EXCEPT ![n] = "primary"]
     /\ slots_cache' = [u \in Slots |->
                          IF u = s \/ (failover /\ u \in shares[s])
                            THEN PatchedList(list, n) ELSE slots_cache[u]]
     /\ shares' = IF failover THEN shares
                  ELSE [u \in Slots |-> IF u = s THEN {s} ELSE shares[u] \ {s}]
     /\ default_node' = IF failover /\ default_node = old THEN n ELSE default_node
     /\ moved' = None
     /\ UNCHANGED startup_nodes

\* The slot is not in slots_cache: a KeyError, and the exception stays pending.
UpdateMovedKeyError ==
  /\ nodes_cache' = nodes_cache \cup {moved.node}
  /\ server_type' = [server_type EXCEPT ![moved.node] = "primary"]
  /\ UNCHANGED <<slots_cache, shares, startup_nodes, default_node, moved>>
-----------------------------------------------------------------------------
(***************************************************************************)
(* initialize().                                                           *)
(***************************************************************************)
Startup == IF Dynamic THEN nodes_cache ELSE startup_nodes

\* startup_nodes.pop(name, None)
PopStartup(n) ==
  IF Dynamic THEN nodes_cache' = nodes_cache \ {n} /\ UNCHANGED startup_nodes
             ELSE startup_nodes' = startup_nodes \ {n} /\ UNCHANGED nodes_cache

\* reset(), and the loop over startup_nodes.values() is entered.
StartInitialize(t, startup) ==
  /\ primary_to_idx' = [n \in Nodes |-> 0]
  /\ ini' = [ini EXCEPT ![t] =
       [NotInitializing EXCEPT !.at = "query", !.todo = startup,
                               !.size = Cardinality(startup), !.live = TRUE]]

InitFailed(t, e) ==
  [ini EXCEPT ![t] = [NotInitializing EXCEPT !.at = "failed", !.error = e]]

InitFails(t, e) ==
  /\ ini' = InitFailed(t, e)
  /\ UNCHANGED <<faults, tableVars>>

\* What one answer to CLUSTER SLOTS adds to tmp_slots and tmp_nodes_cache.
Merged(rec, n) ==
  LET new == View(n).slots
      fresh == {s \in Slots : rec.slots[s] = <<>>}
      differ == {s \in Slots : /\ rec.slots[s] # <<>> /\ new[s] # <<>>
                               /\ rec.slots[s][1] # new[s][1]}
  IN [rec EXCEPT !.todo = @ \ {n},
                 !.nodes = @ \cup Members(new),
                 !.slots = [s \in Slots |-> IF s \in fresh THEN new[s] ELSE @[s]],
                 !.shares = [s \in Slots |-> IF s \in fresh
                               THEN RangeOf(new, s) \cap fresh ELSE @[s]],
                 !.disagree = @ + Cardinality(differ)]

\* _get_or_create_cluster_node: the first role a node is met in is its type.  An
\* answer that disagrees too often is read in part: met are the nodes read of it.
Roles(rec, n, met) ==
  LET new == View(n).slots
  IN [m \in Nodes |-> IF m \in met \ rec.nodes
                        THEN IF m \in PrimariesOf(new) THEN "primary" ELSE "replica"
                        ELSE server_type[m]]

\* One round of the loop.  The dict iterator notices another thread's pop.  The
\* disconnect() of the queried node's pool, which may break another thread's
\* exchange, is among the connection errors that Fault counts.
QueryStartupNode(t) ==
  LET rec == ini[t] IN
  /\ rec.at = "query"
  /\ UNCHANGED <<epoch, primary_to_idx>>
  /\ \/ /\ rec.live /\ Cardinality(Startup) # rec.size
        /\ InitFails(t, "RuntimeError")
     \/ /\ ~(rec.live /\ Cardinality(Startup) # rec.size)
        /\ rec.todo = {}
        /\ IF rec.nodes = {}
             THEN InitFails(t, "RedisClusterException")
             ELSE /\ ini' = [ini EXCEPT ![t].at = "swap"]
                  /\ UNCHANGED <<faults, tableVars>>
     \/ /\ ~(rec.live /\ Cardinality(Startup) # rec.size)
        /\ \E n \in rec.todo :
             \/ /\ Fault
                /\ ini' = [ini EXCEPT ![t].todo = @ \ {n}]
                /\ UNCHANGED tableVars
             \/ LET got == Merged(rec, n) IN
                /\ NoFault
                /\ UNCHANGED <<nodes_cache, slots_cache, shares, startup_nodes,
                               default_node, moved>>
                /\ IF got.disagree > MaxDisagree
                     THEN /\ \E met \in SUBSET Members(View(n).slots) :
                               server_type' = Roles(rec, n, met)
                          /\ ini' = InitFailed(t, "RedisClusterException")
                     ELSE /\ server_type' = Roles(rec, n, Members(View(n).slots))
                          /\ ini' = [ini EXCEPT ![t] =
                               IF Covered(got.slots) THEN [got EXCEPT !.at = "swap"]
                                                     ELSE got]

\* The temporary tables become the real ones.
SwapTables(t) ==
  LET rec == ini[t]
      primaries == {n \in rec.nodes : server_type[n] = "primary"}
      failed(e) == [NotInitializing EXCEPT !.at = "failed", !.error = e]
  IN
  /\ rec.at = "swap"
  /\ UNCHANGED <<serverVars, server_type, startup_nodes, primary_to_idx>>
  /\ \/ /\ FullCoverage /\ ~Covered(rec.slots)
        /\ ini' = [ini EXCEPT ![t] = failed("RedisClusterException")]
        /\ UNCHANGED <<nodes_cache, slots_cache, shares, default_node, moved>>
     \/ /\ ~FullCoverage \/ Covered(rec.slots)
        /\ nodes_cache' = rec.nodes
        /\ slots_cache' = rec.slots
        /\ shares' = rec.shares
        /\ IF primaries = {} THEN UNCHANGED <<default_node, moved>>
                             ELSE default_node' \in primaries /\ moved' = None
        /\ ini' = [u \in Threads |->
             IF u = t THEN IF primaries = {} THEN failed("IndexError")
                           ELSE [NotInitializing EXCEPT !.at = "done"]
             ELSE [ini[u] EXCEPT !.live = @ /\ ~Dynamic]]

InitializeStep(t) == QueryStartupNode(t) \/ SwapTables(t)
-----------------------------------------------------------------------------
ManagerTypeOK ==
  /\ epoch \in [Nodes -> 1..Len(Layouts)]
  /\ faults \in 0..MaxFaults
  /\ nodes_cache \subseteq Nodes
  /\ server_type \in [Nodes -> {"primary", "replica"}]
  /\ slots_cache \in [Slots -> Seq(Nodes)]
  /\ shares \in [Slots -> SUBSET Slots]
  /\ startup_nodes \subseteq Nodes
  /\ default_node \in Nodes
  /\ moved \in Moved \cup {None}
  /\ primary_to_idx \in [Nodes -> 0..(Cardinality(Nodes) - 1)]
  /\ \A t \in Threads :
       /\ ini[t].at \in {"off", "query", "swap", "done", "failed"}
       /\ ini[t].todo \subseteq Nodes
       /\ ini[t].slots \in [Slots -> Seq(Nodes)]
       /\ ini[t].error \in InitErrors

\* After the initialize() of the constructor, on the first layout.
ManagerInit ==
  LET first == Layouts[1].slots IN
  /\ epoch = [n \in Nodes |-> 1]
  /\ faults = 0
  /\ nodes_cache = Members(first)
  /\ server_type = [n \in Nodes |->
                      IF n \in PrimariesOf(first) THEN "primary" ELSE "replica"]
  /\ slots_cache = first
  /\ shares = [s \in Slots |-> RangeOf(first, s)]
  /\ startup_nodes = Members(first)
  /\ default_node \in PrimariesOf(first)
  /\ moved = None
  /\ primary_to_idx = [n \in Nodes |-> 0]
  /\ ini = [t \in Threads |-> NotInitializing]
=============================================================================
