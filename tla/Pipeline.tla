------------------------------ MODULE Pipeline ------------------------------
(***************************************************************************)
(* redis.client.Pipeline: WATCH, MULTI and EXEC, or a plain batch, on one  *)
(* connection that is kept from the first WATCH until reset().             *)
(*                                                                         *)
(* The caller may call the methods in any order, so Redis.transaction() is *)
(* one of the behaviours.  Other clients change the keys, and the server   *)
(* closes connections.  One exchange of commands and replies is one step.  *)
(***************************************************************************)
EXTENDS Integers, FiniteSets

CONSTANTS
  Keys,          \* the keys that are watched
  HealthChecks,  \* health_check_interval # 0
  RetryOnError,  \* retry_on_error names connection and timeout errors
  Retries,       \* the retries of conn.retry
  MaxChanges,    \* bound: how often a key changes
  MaxStack,      \* bound: how many commands are queued
  None

ASSUME PipelineAssumption ==
  /\ IsFiniteSet(Keys)
  /\ {HealthChecks, RetryOnError} \subseteq BOOLEAN
  /\ {Retries, MaxChanges, MaxStack} \subseteq Nat
  /\ None \notin Nat

VARIABLES
  ver,     \* how often each key has changed
  srv,     \* the server's side of the connection
  pipe,    \* the attributes of the Pipeline
  pc, cmd, key, \* where the method is, its command and the key of a WATCH
  tries,   \* the failures that call_with_retry has counted
  outcome, \* what execute() is about to return or raise
  basis,   \* what the caller has watched: each key's ver when WATCH returned
  healed,  \* a health check has replaced the connection of a watching pipeline
  lapsed   \* the UNWATCH of reset() timed out, and the pipeline goes on watching

callVars == <<pc, cmd, key, tries>>
callerVars == <<basis, healed, lapsed>>
vars == <<ver, srv, pipe, callVars, outcome, callerVars>>

NewSocket == [alive |-> TRUE, watched |-> {}, dirty |-> FALSE]
\* transaction: the argument of pipeline(), wrap in MULTI and EXEC
Empty(transaction) ==
  [conn |-> FALSE, watching |-> FALSE, explicit |-> FALSE, stack |-> 0,
   transaction |-> transaction]
Unwatched == [k \in Keys |-> None]
NoOutcome == [kind |-> "none", current |-> TRUE]

Init ==
  /\ ver = [k \in Keys |-> 0]
  /\ srv = NewSocket
  /\ pipe \in {Empty(TRUE), Empty(FALSE)}
  /\ pc = "idle" /\ cmd = "none" /\ key = None /\ tries = 0
  /\ outcome = NoOutcome
  /\ basis = Unwatched /\ healed = FALSE /\ lapsed = FALSE
-----------------------------------------------------------------------------
(***************************************************************************)
(* The server and the other clients.                                       *)
(***************************************************************************)
Change(k) ==
  /\ ver[k] < MaxChanges
  /\ ver' = [ver EXCEPT ![k] = @ + 1]
  /\ srv' = [srv EXCEPT !.dirty = @ \/ k \in srv.watched]
  /\ UNCHANGED <<pipe, callVars, outcome, callerVars>>

Close ==
  /\ srv.alive
  /\ srv' = [NewSocket EXCEPT !.alive = FALSE]
  /\ UNCHANGED <<ver, pipe, callVars, outcome, callerVars>>
-----------------------------------------------------------------------------
(***************************************************************************)
(* The methods.                                                            *)
(***************************************************************************)
Send(c, k) == pc' = "check" /\ cmd' = c /\ key' = k /\ tries' = 0

\* execute_command: at once while watching, staged otherwise.
Immediate(c) == (pipe.watching \/ c = "WATCH") /\ ~pipe.explicit

\* watch(); after multi() it raises.
Watch(k) ==
  /\ pc = "idle" /\ Immediate("WATCH")
  /\ Send("WATCH", k)
  /\ pipe' = [pipe EXCEPT !.conn = TRUE]
  /\ UNCHANGED <<ver, srv, outcome, callerVars>>

\* Any other command.
Command ==
  /\ pc = "idle"
  /\ IF Immediate("GET")
       THEN Send("GET", None) /\ UNCHANGED pipe
       ELSE /\ pipe.stack < MaxStack
            /\ pipe' = [pipe EXCEPT !.stack = @ + 1]
            /\ UNCHANGED callVars
  /\ UNCHANGED <<ver, srv, outcome, callerVars>>

\* unwatch() sends only while watching, and is staged after multi().
Unwatch ==
  /\ pc = "idle" /\ pipe.watching
  /\ IF pipe.explicit
       THEN /\ pipe.stack < MaxStack
            /\ pipe' = [pipe EXCEPT !.stack = @ + 1]
            /\ UNCHANGED callVars
       ELSE Send("UNWATCH", None) /\ UNCHANGED pipe
  /\ UNCHANGED <<ver, srv, outcome, callerVars>>

Multi ==
  /\ pc = "idle" /\ ~pipe.explicit /\ pipe.stack = 0
  /\ pipe' = [pipe EXCEPT !.explicit = TRUE]
  /\ UNCHANGED <<ver, srv, callVars, outcome, callerVars>>

\* execute(), which returns at once when there is nothing to do.
Execute ==
  /\ pc = "idle" /\ (pipe.stack > 0 \/ pipe.watching)
  /\ Send(IF pipe.transaction \/ pipe.explicit THEN "EXEC" ELSE "BATCH", None)
  /\ pipe' = [pipe EXCEPT !.conn = TRUE]
  /\ UNCHANGED <<ver, srv, outcome, callerVars>>

\* close(), __exit__, __del__
CloseCall ==
  /\ pc = "idle" /\ pipe # Empty(pipe.transaction)
  /\ pc' = "reset"
  /\ UNCHANGED <<ver, srv, pipe, cmd, key, tries, outcome, callerVars>>
-----------------------------------------------------------------------------
(***************************************************************************)
(* One exchange.                                                           *)
(***************************************************************************)
\* What the server does with it.
Served(c) ==
  CASE c = "WATCH" -> [srv EXCEPT !.watched = @ \cup {key}]
    [] c \in {"UNWATCH", "EXEC"} -> NewSocket
    [] OTHER -> srv

\* The outcome, and whether what the caller has watched is still current.
Done(kind) ==
  outcome' = [kind |-> kind, current |-> \A k \in Keys : basis[k] \in {None, ver[k]}]

\* The replies of MULTI, the commands and EXEC: the results, nil when a watched
\* key has changed, EXECABORT when a command could not be queued.
ExecReplies ==
  /\ pc' = "reset"
  /\ \/ /\ ~srv.dirty
        /\ Done("ok")
        /\ pipe' = [pipe EXCEPT !.watching = FALSE]
     \/ /\ srv.dirty
        /\ Done("WatchError")
        /\ pipe' = [pipe EXCEPT !.watching = FALSE]
     \/ /\ pipe.stack > 0
        /\ Done("ExecAbortError")
        /\ UNCHANGED pipe

\* parse_response keeps watching up to date.
Watching(c) == c = "WATCH" \/ (pipe.watching /\ c # "UNWATCH")

ImmediateReply ==
  /\ pc' = "idle"
  /\ pipe' = [pipe EXCEPT !.watching = Watching(cmd)]
  /\ UNCHANGED outcome

\* The caller has given up, or used up, what it watched.
NothingWatched == basis' = Unwatched /\ healed' = FALSE /\ lapsed' = FALSE

Exchange ==
  /\ pc = "exchange" /\ srv.alive
  /\ srv' = Served(cmd)
  /\ CASE cmd = "WATCH" -> /\ basis' = [basis EXCEPT ![key] = IF @ = None THEN ver[key] ELSE @]
                            /\ UNCHANGED <<healed, lapsed>>
       [] cmd = "UNWATCH" -> NothingWatched
       [] OTHER -> UNCHANGED callerVars
  /\ CASE cmd = "EXEC" -> ExecReplies
       [] cmd = "BATCH" -> pc' = "reset" /\ Done("batch") /\ UNCHANGED pipe
       [] OTHER -> ImmediateReply
  /\ UNCHANGED <<ver, cmd, key, tries>>

\* A connection or timeout error, before or after the server has done it.  The
\* connection disconnects; the next command opens a new one.
ExchangeFails ==
  /\ pc = "exchange"
  /\ srv' = NewSocket
  /\ pc' = "error"
  /\ UNCHANGED <<ver, pipe, cmd, key, tries, outcome, callerVars>>

\* check_health() in send_packed_command: a PING when the interval is over; when
\* it fails the connection is opened again, and the command goes on.
CheckHealth ==
  /\ pc = "check" /\ pc' = "exchange"
  /\ \/ UNCHANGED <<srv, healed>>
     \/ /\ HealthChecks /\ Retries > 0 /\ ~srv.alive
        /\ srv' = NewSocket
        /\ healed' = (healed \/ pipe.watching)
  /\ UNCHANGED <<ver, pipe, cmd, key, tries, outcome, basis, lapsed>>

\* Mutant: the watch is taken to survive the new connection.
ForgetsWatching == FALSE
\* if self.watching
WatchIsLost == pipe.watching

\* failures > self._retries
MayRetry == tries < Retries

\* Mutant: the failure is not counted.
FailureUncounted == tries
\* failures += 1
FailureCounted == tries + 1

\* _disconnect_reset_raise and _disconnect_raise_reset.  When the retries are used
\* up the error of an immediate command is raised without a reset().
Error ==
  /\ pc = "error"
  /\ \/ /\ ~WatchIsLost /\ RetryOnError /\ MayRetry
        /\ pc' = "check" /\ tries' = FailureCounted
        /\ UNCHANGED <<cmd, key, outcome>>
     \/ /\ ~WatchIsLost /\ RetryOnError /\ ~MayRetry /\ cmd \notin {"EXEC", "BATCH"}
        /\ pc' = "idle" /\ tries' = 0
        /\ cmd' = "none" /\ key' = None /\ UNCHANGED outcome
     \/ /\ WatchIsLost \/ ~RetryOnError \/ (~MayRetry /\ cmd \in {"EXEC", "BATCH"})
        /\ pc' = "reset" /\ Done("error")
        /\ UNCHANGED <<cmd, key, tries>>
  /\ UNCHANGED <<ver, srv, pipe, callerVars>>
-----------------------------------------------------------------------------
(***************************************************************************)
(* reset()                                                                 *)
(***************************************************************************)
\* Mutant: UNWATCH is left out.
SkipsUnwatch(watching) == FALSE
\* if self.watching and self.connection
MustUnwatch(watching) == watching

\* UNWATCH first, when something is watched.  A ConnectionError there closes the
\* connection; a TimeoutError, which has closed it too, leaves reset() with the
\* commands forgotten and all else as it was.
Reset ==
  /\ pc = "reset"
  /\ pc' = "idle"
  /\ outcome' = NoOutcome
  /\ cmd' = "none" /\ key' = None /\ tries' = 0
  /\ UNCHANGED ver
  /\ \/ /\ MustUnwatch(pipe.watching)
        /\ srv' = NewSocket
        /\ pipe' = Empty(pipe.transaction) /\ NothingWatched
     \/ /\ MustUnwatch(pipe.watching)
        /\ srv' = NewSocket
        /\ pipe' = [pipe EXCEPT !.stack = 0]
        /\ lapsed' = TRUE /\ UNCHANGED <<basis, healed>>
     \/ /\ ~MustUnwatch(pipe.watching)
        /\ pipe' = Empty(pipe.transaction) /\ NothingWatched
        /\ UNCHANGED srv
-----------------------------------------------------------------------------
Method ==
  \/ \E k \in Keys : Watch(k)
  \/ Command \/ Unwatch \/ Multi \/ Execute \/ CloseCall

Step == CheckHealth \/ Exchange \/ ExchangeFails \/ Error \/ Reset

Next == Method \/ Step \/ Close \/ \E k \in Keys : Change(k)

Spec == Init /\ [][Next]_vars
FairSpec == Spec /\ WF_vars(Step)
-----------------------------------------------------------------------------
Sockets == [alive : BOOLEAN, watched : SUBSET Keys, dirty : BOOLEAN]
Pipelines ==
  [conn : BOOLEAN, watching : BOOLEAN, explicit : BOOLEAN, stack : 0..MaxStack,
   transaction : BOOLEAN]

TypeOK ==
  /\ ver \in [Keys -> 0..MaxChanges]
  /\ srv \in Sockets
  /\ pipe \in Pipelines
  /\ basis \in [Keys -> Nat \cup {None}]
  /\ tries \in 0..Retries

\* A transaction that succeeds has run on the values the caller has watched,
\* unless since WATCH a health check has replaced the connection or a reset() has
\* ended in a TimeoutError.
Isolated == outcome.kind = "ok" => outcome.current \/ healed \/ lapsed

\* The same without the first exception.
IsolatedUntilTimeout == outcome.kind = "ok" => outcome.current \/ lapsed

\* The same without exception.
AlwaysIsolated == outcome.kind = "ok" => outcome.current

\* A connection that the pool has back watches nothing.
ReleasedClean == ~pipe.conn /\ pc = "idle" => srv.watched = {}

\* Every method comes to an end.
Returns == pc # "idle" ~> pc = "idle"
=============================================================================
