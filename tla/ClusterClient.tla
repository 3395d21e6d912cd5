---------------------------- MODULE ClusterClient ----------------------------
(***************************************************************************)
(* redis.cluster.RedisCluster.execute_command and ClusterPipeline.execute. *)
(*                                                                         *)
(* Threads share one client.  A call is one command, or a pipeline that    *)
(* sends its commands node by node and then repeats the failed ones like   *)
(* single commands.  call[t] is the call's local variables.                *)
(*                                                                         *)
(* An exchange is one step: a connection is taken from the node's pool,    *)
(* the server answers by what it knows then, or the connection breaks      *)
(* before or after the command was executed, and the connection goes back. *)
(***************************************************************************)
EXTENDS NodesManager, FiniteSetsExt

CONSTANTS
  RetryAttempts,  \* cluster_error_retry_attempts
  ReinitSteps,    \* reinitialize_steps
  TTL,            \* RedisClusterRequestTTL, 16 in the code
  Kinds,          \* what single commands are: "key", "default", "primaries"
  Reads,          \* whether a single command is in READ_COMMANDS
  Given,          \* the kinds for which the caller may pass target_nodes
  Pipelines,      \* the pipelines: sequences of slots
  Unroutable,     \* whether commands without a single slot or node are called
  Movable         \* the slots of commands whose keys COMMAND GETKEYS has to name

ASSUME ClusterClientAssumption ==
  /\ {RetryAttempts, ReinitSteps} \subseteq Nat /\ TTL \in Nat \ {0}
  /\ Kinds \subseteq {"key", "default", "primaries"}
  /\ Reads \subseteq BOOLEAN /\ Given \subseteq Kinds
  /\ Pipelines \subseteq Seq(Slots) \ {<<>>}
  /\ Unroutable \in BOOLEAN /\ Movable \subseteq Slots

VARIABLES
  call,     \* the call each thread is in
  counter   \* reinitialize_counter of the RedisCluster object

vars == <<managerVars, call, counter>>

\* Errors that a retry may follow; RedisErrors that a pipeline keeps as a result.
AllowRetry == {"conn", "clusterdown"}
RedisErrors == AllowRetry \cup {"ResponseError", "ClusterError"}
PipelineAllowRetry == {"conn", "moved", "ask", "tryagain"}

Idle ==
  [pc |-> "idle", pipe |-> FALSE, kind |-> "key", cmds |-> <<>>, i |-> 1,
   read |-> FALSE, given |-> FALSE, res |-> <<>>, fx |-> <<>>, got |-> {},
   tries |-> 0, passes |-> 0, todo |-> {}, target |-> None, ttl |-> 0,
   asking |-> FALSE, redirect |-> None, held |-> {}, left |-> {}, bad |-> {},
   isDefault |-> FALSE,
   batch |-> <<>>, redo |-> {}, count |-> 0, error |-> "none", after |-> "none"]

Init ==
  /\ ManagerInit
  /\ call = [t \in Threads |-> Idle]
  /\ counter = 0

At(t, label) == call[t].pc = label
Slot(t) == call[t].cmds[call[t].i]
Batching(t) == call[t].pipe /\ call[t].after = "batch"
OnlyCall == UNCHANGED <<managerVars, counter>>

\* The call returns or raises; what it still holds is lost to the pool.
Over(t) == [call EXCEPT ![t] = [Idle EXCEPT !.held = call[t].held, !.left = call[t].left]]

\* An exception between the connections of a pipeline passes no handler that
\* knows of the ones already taken: nobody releases them.
Left(c) == [c EXCEPT !.held = {}, !.left = c.left \cup c.held]

\* An exception; while a pipeline builds its batches it ends the pipeline.
Fail(t, e) ==
  call' = IF Batching(t)
          THEN [call EXCEPT ![t] = [Idle EXCEPT !.left = Left(call[t]).left]]
          ELSE [call EXCEPT ![t].pc = "raise", ![t].error = e, ![t].ttl = 0,
                  ![t].target = None, ![t].redirect = None, ![t].asking = FALSE,
                  ![t].after = "none"]
-----------------------------------------------------------------------------
(***************************************************************************)
(* execute_command: the targets.                                           *)
(***************************************************************************)
\* Mutant: commands with target nodes are retried as well.
AttemptsAlways(given) == RetryAttempts
\* retry_attempts
Attempts(given) == IF given THEN 0 ELSE RetryAttempts

\* Which commands of a call have no single slot or node: no key, keys in several
\* slots, or in a pipeline a command for several nodes.
Bad(cmds) == {{}} \cup (IF Unroutable THEN {{i} : i \in DOMAIN cmds} ELSE {})

\* The call of a single command, on a slot or on the node n the caller passed.
Command(kind, s, read, given, n) ==
  [Idle EXCEPT !.pc = IF given THEN "next" ELSE "determine",
               !.kind = kind, !.cmds = <<s>>, !.res = <<"none">>, !.fx = <<0>>,
               !.read = read /\ kind = "key", !.given = given,
               !.todo = IF given THEN {n} ELSE {}, !.tries = Attempts(given)]

ExecuteCommand(t) ==
  /\ At(t, "idle")
  /\ \E kind \in Kinds, s \in Slots, read \in Reads, given \in BOOLEAN, bad \in Bad(<<1>>) :
       \E n \in IF given THEN nodes_cache ELSE {None} :
         /\ kind # "key" => s = Min(Slots) /\ bad = {}
         /\ given => kind \in Given /\ bad = {}
         /\ call' = [call EXCEPT ![t] = [Command(kind, s, read, given, n) EXCEPT
                       !.bad = bad, !.held = call[t].held, !.left = call[t].left]]
  /\ OnlyCall

\* is_default_node is never set back.
Targets(t, nodes) ==
  IF nodes = {}
    THEN Fail(t, "RedisClusterException")
    ELSE call' = [call EXCEPT ![t].pc = "next", ![t].todo = nodes,
                              ![t].isDefault = @ \/ nodes = {default_node}]

\* _determine_nodes for a command with a flag.
DetermineNodes(t) ==
  /\ At(t, "determine")
  /\ call[t].kind # "key"
  /\ Targets(t, IF call[t].kind = "default" THEN {default_node}
                ELSE {n \in nodes_cache : server_type[n] = "primary"})
  /\ OnlyCall

\* determine_slot and the checks around it raise, or COMMAND GETKEYS cannot be
\* asked: inside the redirection loop that counts as an error of the target,
\* in a pipeline send_cluster_commands starts another pass.
DetermineSlotFails(t) ==
  LET c == call[t] IN
  /\ At(t, "determine") /\ c.kind = "key"
  /\ UNCHANGED <<epoch, tableVars, primary_to_idx, ini, counter>>
  /\ \/ /\ c.i \in c.bad
        /\ Fail(t, "RedisClusterException")
        /\ NoFault
     \/ /\ c.i \notin c.bad /\ Slot(t) \in Movable
        /\ Fault
        /\ IF Batching(t)
             THEN call' = [call EXCEPT ![t] =
                             [Left(c) EXCEPT !.pc = "pass", !.after = "none"]]
           ELSE IF c.ttl > 0 THEN call' = [call EXCEPT ![t].pc = "broken"]
           ELSE Fail(t, "conn")

\* Where the node of get_node_from_slot goes: a first target, the target after
\* a MOVED, a batch of a pipeline.
Picked(t, n) ==
  IF Batching(t)
    THEN call' = [call EXCEPT ![t].pc = "batch", ![t].target = n,
                              ![t].isDefault = @ \/ n = default_node]
  ELSE IF call[t].ttl > 0
    THEN call' = [call EXCEPT ![t].pc = "exchange", ![t].target = n]
    ELSE Targets(t, {n})

\* get_node_from_slot: a pending MOVED error is applied first, under the lock.
PatchFirst(t) ==
  /\ At(t, "determine") /\ call[t].kind = "key" /\ call[t].i \notin call[t].bad
  /\ moved # None
  /\ UNCHANGED <<serverVars, primary_to_idx, ini, counter>>
  /\ \/ /\ slots_cache[moved.slot] # <<>>
        /\ UpdateMovedSlots
        /\ call' = [call EXCEPT ![t].pc = "pick"]
     \/ /\ slots_cache[moved.slot] = <<>>
        /\ UpdateMovedKeyError
        /\ Fail(t, "KeyError")

\* The rest of get_node_from_slot.
Pick(t) ==
  LET list == slots_cache[Slot(t)] IN
  /\ \/ At(t, "pick")
     \/ /\ At(t, "determine") /\ call[t].kind = "key" /\ call[t].i \notin call[t].bad
        /\ moved = None
  /\ UNCHANGED <<serverVars, tableVars, ini, counter>>
  /\ \/ /\ list = <<>>
        /\ Fail(t, "RedisClusterException")
        /\ UNCHANGED primary_to_idx
     \/ /\ list # <<>>
        /\ \E x \in ServerIndex(list, call[t].read) :
             /\ primary_to_idx' = [primary_to_idx EXCEPT ![list[1]] = x.next]
             /\ IF x.index < Len(list) THEN Picked(t, list[x.index + 1])
                                       ELSE Fail(t, "IndexError")

\* for node in target_nodes: the next _execute_command, or the result.
NextTarget(t) ==
  /\ At(t, "next")
  /\ \/ /\ call[t].todo = {}
        /\ call' = IF ~call[t].pipe THEN Over(t)
                   ELSE [call EXCEPT ![t].res[call[t].i] = "ok", ![t].pc = "retry",
                                     ![t].got = @ \cup {call[t].i}]
     \/ \E n \in call[t].todo :
          call' = [call EXCEPT ![t].pc = "exchange", ![t].target = n,
                     ![t].todo = @ \ {n}, ![t].ttl = TTL]
  /\ OnlyCall
-----------------------------------------------------------------------------
(***************************************************************************)
(* _execute_command: the redirection loop.                                 *)
(***************************************************************************)
\* Another round: TTL exhausted, the node an ASK named (None when nodes_cache
\* does not know it), the slot's node after a MOVED, or the same node.
Loop(t) ==
  LET c == call[t] IN
  /\ At(t, "loop")
  /\ CASE c.ttl <= 1 -> Fail(t, "ClusterError")
       [] c.ttl > 1 /\ c.asking /\ c.redirect \in nodes_cache ->
            call' = [call EXCEPT ![t].pc = "exchange", ![t].ttl = @ - 1,
                       ![t].target = c.redirect, ![t].redirect = None]
       [] c.ttl > 1 /\ c.asking /\ c.redirect \notin nodes_cache ->
            Fail(t, "AttributeError")
       [] c.ttl > 1 /\ ~c.asking ->
            call' = [call EXCEPT ![t].ttl = @ - 1, ![t].redirect = None,
                       ![t].pc = IF c.redirect = None THEN "exchange" ELSE "determine"]
  /\ OnlyCall

Executed(t) == [call EXCEPT ![t].fx[call[t].i] = @ + 1]

\* A command without a key is answered by any node.
Exchange(t) ==
  LET c == call[t]
      answers == IF c.kind = "key" THEN Answers(c.target, Slot(t), c.read, c.asking)
                 ELSE {[kind |-> "ok", node |-> c.target]}
      Goto(label) == [call EXCEPT ![t].pc = label, ![t].asking = FALSE]
      Reply(a) ==
        CASE a.kind = "ok" -> [Executed(t) EXCEPT ![t].pc = "next", ![t].ttl = 0,
                                 ![t].target = None, ![t].asking = FALSE]
          [] a.kind = "moved" -> [Goto("count") EXCEPT ![t].redirect = a.node]
          [] a.kind = "ask" -> [Goto("loop") EXCEPT ![t].redirect = a.node,
                                                    ![t].asking = TRUE]
          [] a.kind = "tryagain" -> Goto("loop")
          [] a.kind = "clusterdown" -> Goto("down")
  IN
  /\ At(t, "exchange")
  /\ \/ NoFault /\ \E a \in answers : call' = Reply(a)
     \/ NoFault /\ Fail(t, "ResponseError")
     \/ Fault /\ call' \in {[call EXCEPT ![t].pc = "broken"],
                            [Executed(t) EXCEPT ![t].pc = "broken"]}
  /\ UNCHANGED <<epoch, tableVars, primary_to_idx, ini, counter>>

InitializeThen(t, label, e) ==
  [call EXCEPT ![t].pc = "init", ![t].after = label, ![t].error = e, ![t].ttl = 0,
               ![t].target = None, ![t].asking = FALSE]

\* except (ConnectionError, TimeoutError): the node is forgotten, and
\* initialize() comes before the error goes on.
ConnectionError(t) ==
  /\ At(t, "broken")
  /\ PopStartup(call[t].target)
  /\ StartInitialize(t, Startup \ {call[t].target})
  /\ call' = InitializeThen(t, "raise", "conn")
  /\ UNCHANGED <<serverVars, server_type, slots_cache, shares, default_node, moved,
                 counter>>

\* except ClusterDownError
ClusterDown(t) ==
  /\ At(t, "down")
  /\ StartInitialize(t, Startup)
  /\ call' = InitializeThen(t, "raise", "clusterdown")
  /\ UNCHANGED <<serverVars, tableVars, counter>>

\* reinitialize_counter belongs to the client, or to the pipeline object.
\* It is only compared modulo ReinitSteps, and kept modulo it.
Counted(t) == IF call[t].pipe THEN call[t].count ELSE counter
SetCounter(t, c, k) ==
  IF call[t].pipe THEN call' = [c EXCEPT ![t].count = k] /\ UNCHANGED counter
                  ELSE call' = c /\ counter' = k

\* except MovedError: self.reinitialize_counter += 1
CountMoved(t) ==
  /\ At(t, "count")
  /\ SetCounter(t, [call EXCEPT ![t].pc = "decide"],
                IF ReinitSteps = 0 THEN 0 ELSE (Counted(t) + 1) % ReinitSteps)
  /\ UNCHANGED managerVars

\* _should_reinitialized
ShouldReinitialize(t) == ReinitSteps # 0 /\ Counted(t) = 0

\* A new table, or the error is left for get_node_from_slot.
DecideMoved(t) ==
  /\ At(t, "decide")
  /\ UNCHANGED <<serverVars, nodes_cache, server_type, slots_cache, shares,
                 startup_nodes, default_node, counter>>
  /\ IF ShouldReinitialize(t)
       THEN /\ StartInitialize(t, Startup)
            /\ call' = [call EXCEPT ![t].pc = "init", ![t].after = "loop"]
            /\ UNCHANGED moved
       ELSE /\ UpdateMovedException(Slot(t), call[t].redirect)
            /\ call' = [call EXCEPT ![t].pc = "loop"]
            /\ UNCHANGED <<primary_to_idx, ini>>

\* replace_default_node, when this call went to the default node.
ReplaceDefaultNode(t) ==
  LET others(type) == {n \in nodes_cache : server_type[n] = type /\ n # default_node}
  IN IF ~call[t].isDefault \/ (others("primary") = {} /\ others("replica") = {})
       THEN UNCHANGED default_node
       ELSE default_node' \in
              IF others("primary") # {} THEN others("primary") ELSE others("replica")

\* initialize() is over.  After a MOVED, reinitialize_counter = 0.
AfterInitialize(t) ==
  LET after == call[t].after
      Goto(label) == [call EXCEPT ![t].pc = label, ![t].after = "none"]
  IN
  /\ At(t, "init")
  /\ ini' = [ini EXCEPT ![t] = NotInitializing]
  /\ UNCHANGED <<serverVars, nodes_cache, server_type, slots_cache, shares,
                 startup_nodes, moved, primary_to_idx>>
  /\ \/ /\ ini[t].at = "failed"
        /\ IF after \in {"pass", "retry"} THEN call' = Over(t)
                                          ELSE Fail(t, ini[t].error)
        /\ UNCHANGED <<default_node, counter>>
     \/ /\ ini[t].at = "done" /\ after = "loop"
        /\ SetCounter(t, Goto("loop"), 0)
        /\ UNCHANGED default_node
     \/ /\ ini[t].at = "done" /\ after = "raise"
        /\ call' = Goto("raise")
        /\ UNCHANGED <<default_node, counter>>
     \/ /\ ini[t].at = "done" /\ after \in {"pass", "retry"}
        /\ call' = Goto(after)
        /\ ReplaceDefaultNode(t)
        /\ UNCHANGED counter

\* The except clause of _internal_execute_command, and the pipeline's around it.
Raise(t) ==
  LET c == call[t] IN
  /\ At(t, "raise")
  /\ UNCHANGED <<serverVars, nodes_cache, server_type, slots_cache, shares,
                 startup_nodes, moved, primary_to_idx, ini, counter>>
  /\ IF c.tries > 0 /\ c.error \in (IF c.pipe THEN PipelineAllowRetry ELSE AllowRetry)
       THEN /\ call' = [call EXCEPT ![t].pc = "determine", ![t].error = "none",
                          ![t].tries = @ - 1, ![t].todo = {}]
            /\ ReplaceDefaultNode(t)
       ELSE /\ call' = IF c.pipe /\ c.error \in RedisErrors
                         THEN [call EXCEPT ![t].res[c.i] = c.error, ![t].pc = "retry",
                                 ![t].error = "none", ![t].todo = {}]
                         ELSE Over(t)
            /\ UNCHANGED default_node
-----------------------------------------------------------------------------
(***************************************************************************)
(* ClusterPipeline.execute.                                                *)
(***************************************************************************)
Execute(t) ==
  /\ At(t, "idle")
  /\ \E p \in Pipelines : \E bad \in Bad(p) :
       call' = [call EXCEPT ![t] =
         [Idle EXCEPT !.pc = "pass", !.pipe = TRUE, !.cmds = p,
                      !.res = [i \in DOMAIN p |-> "none"],
                      !.fx = [i \in DOMAIN p |-> 0], !.passes = RetryAttempts + 1,
                      !.bad = bad, !.held = call[t].held, !.left = call[t].left]]
  /\ OnlyCall

\* Mutant: the passes are not counted.
PassUncounted(n) == n
\* retry_attempts -= 1
PassTaken(n) == n - 1

\* Mutant: the connections stay with the pipeline.
NotReleased(held) == held
\* for n in nodes.values(): n.connection_pool.release(n.connection)
Released(held) == {}

\* send_cluster_commands: another pass over the whole stack, or the error.
SendClusterCommands(t) ==
  /\ At(t, "pass")
  /\ call' = IF call[t].passes = 0 THEN Over(t)
       ELSE [call EXCEPT ![t].pc = "determine", ![t].after = "batch", ![t].i = 1,
               ![t].passes = PassTaken(@), ![t].tries = 0, ![t].batch = <<>>,
               ![t].isDefault = FALSE, ![t].error = "none"]
  /\ OnlyCall

\* A connection for each node; without one the others are released.
PipelineConnect(t) ==
  LET c == call[t]
      last == c.i = Len(c.cmds)
  IN
  /\ At(t, "batch")
  /\ UNCHANGED <<epoch, counter, server_type, slots_cache, shares, startup_nodes,
                 default_node, moved, nodes_cache>>
  /\ \/ /\ NoFault
        /\ call' = [call EXCEPT ![t].held = @ \cup {c.target},
             ![t].batch = Append(@, c.target), ![t].target = None,
             ![t].i = IF last THEN 1 ELSE c.i + 1,
             ![t].pc = IF last THEN "write" ELSE "determine",
             ![t].after = IF last THEN "none" ELSE "batch",
             ![t].todo = IF last THEN c.held \cup {c.target} ELSE {}]
        /\ UNCHANGED <<primary_to_idx, ini>>
     \/ /\ c.target \notin c.held
        /\ Fault
        /\ StartInitialize(t, Startup)
        /\ call' = [InitializeThen(t, "pass", "conn") EXCEPT
                     ![t].held = Released(@)]

\* NodeCommands.write and read on one node.  When the connection breaks, every
\* command of the node has failed, whatever was answered before.
NodeCommands(t) ==
  LET c == call[t]
      Mine(n) == {i \in DOMAIN c.batch : c.batch[i] = n}
      Kind(n, i) == {a.kind : a \in Answers(n, c.cmds[i], FALSE, FALSE)}
                      \cup {"ResponseError"}
      \* the results r, of which the server has executed the ok ones in done
      Result(n, r, done, answered) ==
        [call EXCEPT ![t].todo = @ \ {n},
           ![t].res = [i \in DOMAIN @ |-> IF i \in Mine(n) THEN r[i] ELSE @[i]],
           ![t].fx = [i \in DOMAIN @ |-> IF i \in done THEN @[i] + 1 ELSE @[i]],
           ![t].got = @ \cup answered]
  IN
  /\ At(t, "write")
  /\ UNCHANGED <<epoch, tableVars, primary_to_idx, ini, counter>>
  /\ \E n \in c.todo :
       \/ /\ NoFault
          /\ \E r \in [Mine(n) -> UNION {Kind(n, i) : i \in Mine(n)}] :
               LET ok == {i \in Mine(n) : r[i] = "ok"} IN
               /\ \A i \in Mine(n) : r[i] \in Kind(n, i)
               /\ call' = Result(n, r, ok, ok)
       \/ /\ Fault
          /\ \E k \in {0} \cup Mine(n), a \in {0} \cup Mine(n) :
               /\ a <= k
               /\ LET done == {i \in Mine(n) : i <= k /\ "ok" \in Kind(n, i)} IN
                  call' = Result(n, [i \in Mine(n) |-> "conn"], done,
                                 {i \in done : i <= a})

\* Mutant: every error is sent again.
AnyError(r) == r # "ok"
\* isinstance(c.result, ClusterPipeline.ERRORS_ALLOW_RETRY)
RetryableResult(r) == r \in PipelineAllowRetry

\* The connections are released and the failed commands collected.
CollectFailed(t) ==
  LET c == call[t]
      failed == {i \in DOMAIN c.res : RetryableResult(c.res[i])}
      count == IF failed = {} \/ ReinitSteps = 0 THEN c.count
               ELSE (c.count + 1) % ReinitSteps
      after == [call EXCEPT ![t].redo = failed, ![t].count = count,
                            ![t].held = Released(@),
                            ![t].batch = <<>>]
  IN /\ At(t, "write")
     /\ c.todo = {}
     /\ UNCHANGED <<serverVars, tableVars, counter>>
     /\ IF failed # {} /\ ReinitSteps # 0 /\ count = 0
          THEN /\ StartInitialize(t, Startup)
               /\ call' = [after EXCEPT ![t].pc = "init", ![t].after = "retry"]
          ELSE /\ call' = [after EXCEPT ![t].pc = "retry"]
               /\ UNCHANGED <<primary_to_idx, ini>>

\* Each failed command like a single one.
RetryOne(t) ==
  /\ At(t, "retry")
  /\ call[t].redo # {}
  /\ call' = [call EXCEPT ![t].pc = "determine", ![t].i = Min(call[t].redo),
                ![t].redo = @ \ {Min(call[t].redo)}, ![t].tries = RetryAttempts,
                ![t].isDefault = FALSE]
  /\ OnlyCall

\* The answers, or raise_first_error, which send_cluster_commands may catch.
Respond(t) ==
  LET c == call[t]
      bad == {i \in DOMAIN c.res : c.res[i] # "ok"}
  IN /\ At(t, "retry")
     /\ c.redo = {}
     /\ \/ call' = Over(t)
        \/ /\ bad # {} /\ c.res[Min(bad)] \in AllowRetry
           /\ call' = [call EXCEPT ![t].pc = "pass", ![t].error = c.res[Min(bad)]]
     /\ OnlyCall
-----------------------------------------------------------------------------
Step(t) ==
  \/ DetermineNodes(t) \/ DetermineSlotFails(t) \/ PatchFirst(t) \/ Pick(t)
  \/ NextTarget(t) \/ Loop(t)
  \/ Exchange(t) \/ ConnectionError(t) \/ ClusterDown(t) \/ CountMoved(t)
  \/ DecideMoved(t) \/ AfterInitialize(t) \/ Raise(t)
  \/ SendClusterCommands(t) \/ PipelineConnect(t) \/ NodeCommands(t)
  \/ CollectFailed(t) \/ RetryOne(t) \/ Respond(t)
  \/ InitializeStep(t) /\ UNCHANGED <<call, counter>>

Next ==
  \/ \E n \in Nodes : Learn(n) /\ UNCHANGED <<call, counter>>
  \/ \E t \in Threads : ExecuteCommand(t) \/ Execute(t) \/ Step(t)

Spec == Init /\ [][Next]_vars

\* Threads go on and keep calling, and every server learns the newest layout.
FairSpec ==
  /\ Spec
  /\ \A t \in Threads : WF_vars(Step(t)) /\ WF_vars(ExecuteCommand(t) \/ Execute(t))
  /\ \A n \in Nodes : WF_vars(Learn(n) /\ UNCHANGED <<call, counter>>)
-----------------------------------------------------------------------------
TypeOK ==
  /\ ManagerTypeOK
  /\ counter \in Nat
  /\ \A t \in Threads :
       /\ call[t].todo \subseteq Nodes
       /\ call[t].held \subseteq Nodes /\ call[t].left \subseteq Nodes
       /\ call[t].ttl \in 0..TTL /\ call[t].tries \in 0..RetryAttempts
       /\ call[t].target \in Nodes \cup {None}

\* A call executes its command at most once for each attempt; a command sent to
\* nodes the caller named is not repeated; each pass of a pipeline may send a
\* command once in the batch and then once for each attempt.
BoundedEffects ==
  \A t \in Threads : \A i \in DOMAIN call[t].fx :
    call[t].fx[i] <=
      IF call[t].pipe THEN (RetryAttempts + 1) * (RetryAttempts + 2)
      ELSE (IF call[t].given THEN 1 ELSE RetryAttempts + 1)
           * (IF call[t].kind = "primaries" THEN Cardinality(Nodes) ELSE 1)

\* However a call ends, it has released its connections, over every failing
\* connect, exchange and initialize() and every further pass; the exception is a
\* pipeline whose lookup of a node raised after it had taken connections.
NothingHeld == \A t \in Threads : At(t, "idle") => call[t].held = {}

\* A lookup never raises between two connections of a pipeline.  Refuted by a slot
\* without a node, and with full coverage by a command
\* whose keys lie in several slots (cluster_crossslot.cfg).
NothingLeft == \A t \in Threads : call[t].left = {}

\* After its batches a pipeline sends again only commands whose result was a lost
\* connection or a redirection: never one that succeeded or that the server
\* refused, whatever was sent again before it.
OnlyFailedRetried ==
  \A t \in Threads : call[t].pipe /\ At(t, "exchange") =>
    call[t].res[call[t].i] \in PipelineAllowRetry

\* A command of a pipeline that was answered is not executed again.
OnlyFailedAgain ==
  [][\A t \in Threads : \A i \in call[t].got :
       i \in call'[t].got => call'[t].fx[i] = call[t].fx[i]]_vars

\* Every call comes to an end.
Terminates == \A t \in Threads : call[t].pc # "idle" ~> call[t].pc = "idle"

\* Once the cluster has settled, the client stops being redirected, except for
\* commands the caller sends to a node of their own choice.
Converges == <>[](\A t \in Threads : At(t, "count") => call[t].given)
=============================================================================
