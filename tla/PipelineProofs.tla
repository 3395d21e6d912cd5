--------------------------- MODULE PipelineProofs ---------------------------
(***************************************************************************)
(* Proofs about Pipeline: a transaction that succeeds has run on what was  *)
(* watched, and a connection that the pool has back watches nothing.       *)
(*                                                                         *)
(* Neither is inductive.  The server's list of watched keys, the client's  *)
(* flag `watching' and what the caller believes are three accounts of the  *)
(* same watch, kept on two sides of a connection that may be replaced      *)
(* between any two commands; the invariant says how they are related.      *)
(***************************************************************************)
EXTENDS Pipeline, TLAPS

\* The method that is running, and the key of a WATCH that is on its way.
InCall == pc \in {"check", "exchange", "error"}
Calls == InCall /\ cmd = "WATCH" => key \in Keys /\ pipe.conn

\* What the server watches, the pipeline knows of, and it has the connection.
ServerWatch == srv.watched # {} => pipe.watching /\ pipe.conn

\* What the caller has watched, the pipeline knows of, until reset().
CallerWatch == pc # "reset" /\ ~pipe.watching => \A k \in Keys : basis[k] = None

\* Each key the caller has watched is watched by the server at the version the
\* caller began from; or EXEC will fail; or a health check or a timeout of reset()
\* has intervened.
Kept == \A k \in Keys : basis[k] # None => k \in srv.watched /\ basis[k] = ver[k]
Guarded ==
  pc \notin {"error", "reset"} => healed \/ lapsed \/ ~srv.alive \/ srv.dirty \/ Kept

\* An outcome is set on the way to reset(), which forgets it.
Unsettled == pc # "reset" => outcome = NoOutcome

IInv == TypeOK /\ Unsettled /\ Calls /\ ServerWatch /\ CallerWatch /\ Guarded /\ Isolated
-----------------------------------------------------------------------------
(***************************************************************************)
(* Every part of the invariant is preserved by every step.                 *)
(***************************************************************************)
\* The assumption on the constants, one by one.
LEMMA Constants ==
  Retries \in Nat /\ MaxChanges \in Nat /\ MaxStack \in Nat /\ None \notin Nat
  BY PipelineAssumption

\* Assigning one attribute keeps the record one of its type.
LEMMA PipelineUpdates ==
  \A p \in Pipelines :
    /\ \A b \in BOOLEAN : [p EXCEPT !.conn = b] \in Pipelines
    /\ \A b \in BOOLEAN : [p EXCEPT !.watching = b] \in Pipelines
    /\ \A b \in BOOLEAN : [p EXCEPT !.explicit = b] \in Pipelines
    /\ \A n \in 0..MaxStack : [p EXCEPT !.stack = n] \in Pipelines
    /\ Empty(p.transaction) \in Pipelines
<1> SUFFICES ASSUME NEW p \in Pipelines
    PROVE  /\ \A b \in BOOLEAN : [p EXCEPT !.conn = b] \in Pipelines
           /\ \A b \in BOOLEAN : [p EXCEPT !.watching = b] \in Pipelines
           /\ \A b \in BOOLEAN : [p EXCEPT !.explicit = b] \in Pipelines
           /\ \A n \in 0..MaxStack : [p EXCEPT !.stack = n] \in Pipelines
           /\ Empty(p.transaction) \in Pipelines
  OBVIOUS
<1>1. /\ \A b \in BOOLEAN : [p EXCEPT !.conn = b] \in Pipelines
      /\ \A b \in BOOLEAN : [p EXCEPT !.watching = b] \in Pipelines
      /\ \A b \in BOOLEAN : [p EXCEPT !.explicit = b] \in Pipelines
  BY DEF Pipelines
<1>2. \A n \in 0..MaxStack : [p EXCEPT !.stack = n] \in Pipelines
  BY DEF Pipelines
<1>3. Empty(p.transaction) \in Pipelines
  BY Constants DEF Pipelines, Empty
<1> QED
  BY <1>1, <1>2, <1>3

\* The same for the server's side of the connection.
LEMMA SocketUpdates ==
  /\ NewSocket \in Sockets
  /\ [NewSocket EXCEPT !.alive = FALSE] \in Sockets
  /\ \A s \in Sockets, b \in BOOLEAN, k \in Keys :
       [s EXCEPT !.dirty = b] \in Sockets /\ [s EXCEPT !.watched = @ \cup {k}] \in Sockets
  BY DEF Sockets, NewSocket

\* The attributes and the server's side keep their types.
LEMMA TypePreserved == TypeOK /\ Calls /\ [Next]_vars => TypeOK'
<1> SUFFICES ASSUME TypeOK, Calls, [Next]_vars PROVE TypeOK'
  OBVIOUS
<1> USE Constants DEF TypeOK, callVars, callerVars
<1>p. /\ pipe.conn \in BOOLEAN /\ pipe.watching \in BOOLEAN /\ pipe.explicit \in BOOLEAN
      /\ pipe.stack \in 0..MaxStack /\ srv.dirty \in BOOLEAN
  BY DEF Pipelines, Sockets
<1>1. ASSUME NEW k \in Keys, Watch(k) PROVE TypeOK'
  <2>1. pipe' \in Pipelines
    BY <1>1, PipelineUpdates DEF Watch
  <2> QED
    BY <1>1, <2>1 DEF Watch, Send
<1>2. CASE Command
  <2>1. pipe' \in Pipelines
    <3>1. \/ pipe' = pipe
          \/ pipe.stack < MaxStack /\ pipe' = [pipe EXCEPT !.stack = pipe.stack + 1]
      BY <1>2 DEF Command
    <3>2. pipe.stack < MaxStack => pipe.stack + 1 \in 0..MaxStack
      BY <1>p
    <3> QED
      BY <3>1, <3>2, PipelineUpdates
  <2> QED
    BY <1>2, <2>1 DEF Command, Send
<1>3. CASE Unwatch
  <2>1. pipe' \in Pipelines
    <3>1. \/ pipe' = pipe
          \/ pipe.stack < MaxStack /\ pipe' = [pipe EXCEPT !.stack = pipe.stack + 1]
      BY <1>3 DEF Unwatch
    <3>2. pipe.stack < MaxStack => pipe.stack + 1 \in 0..MaxStack
      BY <1>p
    <3> QED
      BY <3>1, <3>2, PipelineUpdates
  <2> QED
    BY <1>3, <2>1 DEF Unwatch, Send
<1>4. CASE Multi
  <2>1. pipe' \in Pipelines
    BY <1>4, PipelineUpdates DEF Multi
  <2> QED
    BY <1>4, <2>1 DEF Multi
<1>5. CASE Execute
  <2>1. pipe' \in Pipelines
    BY <1>5, PipelineUpdates DEF Execute
  <2> QED
    BY <1>5, <2>1 DEF Execute, Send
<1>6. CASE CloseCall
  BY <1>6 DEF CloseCall
<1>7. CASE CheckHealth
  BY <1>7, SocketUpdates DEF CheckHealth
<1>8. CASE Exchange
  <2>1. srv' \in Sockets
    BY <1>8, SocketUpdates DEF Exchange, Served, Calls, InCall
  <2>2. basis' \in [Keys -> Nat \cup {None}]
    BY <1>8 DEF Exchange, Unwatched, NothingWatched, Calls, InCall
  <2>3. pipe' \in Pipelines
    <3>1. Watching(cmd) \in BOOLEAN
      BY <1>p DEF Watching
    <3>2. \/ pipe' = pipe \/ pipe' = [pipe EXCEPT !.watching = FALSE]
          \/ pipe' = [pipe EXCEPT !.watching = Watching(cmd)]
      BY <1>8 DEF Exchange, ExecReplies, ImmediateReply
    <3> QED
      BY <3>1, <3>2, PipelineUpdates
  <2> QED
    BY <1>8, <2>1, <2>2, <2>3 DEF Exchange
<1>9. CASE ExchangeFails
  BY <1>9, SocketUpdates DEF ExchangeFails
<1>10. CASE Error
  BY <1>10 DEF Error, FailureCounted, MayRetry
<1>11. CASE Reset
  <2>1. pipe' \in Pipelines
    BY <1>11, <1>p, PipelineUpdates DEF Reset
  <2> QED
    BY <1>11, <2>1, SocketUpdates DEF Reset, Unwatched, NothingWatched
<1>12. CASE Close
  BY <1>12, SocketUpdates DEF Close
<1>13. ASSUME NEW k \in Keys, Change(k) PROVE TypeOK'
  <2>1. srv' \in Sockets
    <3>1. (srv.dirty \/ k \in srv.watched) \in BOOLEAN
      OBVIOUS
    <3>2. srv' = [srv EXCEPT !.dirty = (srv.dirty \/ k \in srv.watched)]
      BY <1>13 DEF Change
    <3> QED
      BY <3>1, <3>2, SocketUpdates
  <2> QED
    BY <1>13, <2>1 DEF Change
<1>14. CASE UNCHANGED vars
  BY <1>14 DEF vars
<1> QED
  BY <1>1, <1>2, <1>3, <1>4, <1>5, <1>6, <1>7, <1>8, <1>9, <1>10, <1>11, <1>12,
     <1>13, <1>14 DEF Next, Method, Step

\* A WATCH on its way has a key, and the pipeline has the connection.
LEMMA CallsPreserved ==
  TypeOK /\ Calls /\ [Next]_vars => Calls'
<1> SUFFICES ASSUME TypeOK, Calls, [Next]_vars PROVE Calls'
  OBVIOUS
<1> USE DEF Calls, InCall, callVars, callerVars
<1>t. pipe \in Pipelines /\ srv \in Sockets
  BY DEF TypeOK
<1>1. ASSUME NEW k \in Keys, Watch(k) PROVE Calls'
  BY <1>1, <1>t DEF Watch, Send, Pipelines, Sockets
<1>2. CASE Command
  BY <1>2, <1>t DEF Command, Send, Immediate, Pipelines, Sockets
<1>3. CASE Unwatch
  BY <1>3, <1>t DEF Unwatch, Send, Pipelines, Sockets
<1>4. CASE Multi
  BY <1>4, <1>t DEF Multi, Pipelines, Sockets
<1>5. CASE Execute
  BY <1>5, <1>t DEF Execute, Send, Pipelines, Sockets
<1>6. CASE CloseCall
  BY <1>6, <1>t DEF CloseCall, Pipelines, Sockets
<1>7. CASE CheckHealth
  BY <1>7, <1>t DEF CheckHealth, NewSocket, Pipelines, Sockets
<1>8. CASE Exchange
  BY <1>8, <1>t DEF Exchange, ExecReplies, ImmediateReply, Watching, Served,
     NewSocket, Unwatched, NothingWatched, Pipelines, Sockets
<1>9. CASE ExchangeFails
  BY <1>9, <1>t DEF ExchangeFails, NewSocket, Pipelines, Sockets
<1>10. CASE Error
  BY <1>10, <1>t DEF Error, WatchIsLost, Pipelines, Sockets
<1>11. CASE Reset
  BY <1>11, <1>t DEF Reset, MustUnwatch, Empty, NewSocket, Unwatched, NothingWatched,
     Pipelines, Sockets
<1>12. CASE Close
  BY <1>12, <1>t DEF Close, NewSocket, Pipelines, Sockets
<1>13. ASSUME NEW k \in Keys, Change(k) PROVE Calls'
  BY <1>13, <1>t DEF Change, Pipelines, Sockets
<1>14. CASE UNCHANGED vars
  BY <1>14 DEF vars
<1> QED
  BY <1>1, <1>2, <1>3, <1>4, <1>5, <1>6, <1>7, <1>8, <1>9, <1>10, <1>11, <1>12,
     <1>13, <1>14 DEF Next, Method, Step

\* The server watches only for a pipeline that knows of it.
LEMMA ServerWatchPreserved ==
  TypeOK /\ Calls /\ ServerWatch /\ [Next]_vars => ServerWatch'
<1> SUFFICES ASSUME TypeOK, Calls, ServerWatch, [Next]_vars PROVE ServerWatch'
  OBVIOUS
<1> USE DEF Calls, InCall, ServerWatch, callVars, callerVars
<1>t. pipe \in Pipelines /\ srv \in Sockets
  BY DEF TypeOK
<1>1. ASSUME NEW k \in Keys, Watch(k) PROVE ServerWatch'
  BY <1>1, <1>t DEF Watch, Send, Pipelines, Sockets
<1>2. CASE Command
  BY <1>2, <1>t DEF Command, Send, Immediate, Pipelines, Sockets
<1>3. CASE Unwatch
  BY <1>3, <1>t DEF Unwatch, Send, Pipelines, Sockets
<1>4. CASE Multi
  BY <1>4, <1>t DEF Multi, Pipelines, Sockets
<1>5. CASE Execute
  BY <1>5, <1>t DEF Execute, Send, Pipelines, Sockets
<1>6. CASE CloseCall
  BY <1>6, <1>t DEF CloseCall, Pipelines, Sockets
<1>7. CASE CheckHealth
  BY <1>7, <1>t DEF CheckHealth, NewSocket, Pipelines, Sockets
<1>8. CASE Exchange
  BY <1>8, <1>t DEF Exchange, ExecReplies, ImmediateReply, Watching, Served,
     NewSocket, Unwatched, NothingWatched, Pipelines, Sockets
<1>9. CASE ExchangeFails
  BY <1>9, <1>t DEF ExchangeFails, NewSocket, Pipelines, Sockets
<1>10. CASE Error
  BY <1>10, <1>t DEF Error, WatchIsLost, Pipelines, Sockets
<1>11. CASE Reset
  BY <1>11, <1>t DEF Reset, MustUnwatch, Empty, NewSocket, Unwatched, NothingWatched,
     Pipelines, Sockets
<1>12. CASE Close
  BY <1>12, <1>t DEF Close, NewSocket, Pipelines, Sockets
<1>13. ASSUME NEW k \in Keys, Change(k) PROVE ServerWatch'
  BY <1>13, <1>t DEF Change, Pipelines, Sockets
<1>14. CASE UNCHANGED vars
  BY <1>14 DEF vars
<1> QED
  BY <1>1, <1>2, <1>3, <1>4, <1>5, <1>6, <1>7, <1>8, <1>9, <1>10, <1>11, <1>12,
     <1>13, <1>14 DEF Next, Method, Step

\* `watching' is never cleared under what the caller has watched.
LEMMA CallerWatchPreserved ==
  TypeOK /\ CallerWatch /\ [Next]_vars => CallerWatch'
<1> SUFFICES ASSUME TypeOK, CallerWatch, [Next]_vars PROVE CallerWatch'
  OBVIOUS
<1> USE DEF CallerWatch, callVars, callerVars
<1>t. pipe \in Pipelines /\ srv \in Sockets
  BY DEF TypeOK
<1>1. ASSUME NEW k \in Keys, Watch(k) PROVE CallerWatch'
  BY <1>1, <1>t DEF Watch, Send, Pipelines, Sockets
<1>2. CASE Command
  BY <1>2, <1>t DEF Command, Send, Immediate, Pipelines, Sockets
<1>3. CASE Unwatch
  BY <1>3, <1>t DEF Unwatch, Send, Pipelines, Sockets
<1>4. CASE Multi
  BY <1>4, <1>t DEF Multi, Pipelines, Sockets
<1>5. CASE Execute
  BY <1>5, <1>t DEF Execute, Send, Pipelines, Sockets
<1>6. CASE CloseCall
  BY <1>6, <1>t DEF CloseCall, Pipelines, Sockets
<1>7. CASE CheckHealth
  BY <1>7, <1>t DEF CheckHealth, NewSocket, Pipelines, Sockets
<1>8. CASE Exchange
  BY <1>8, <1>t DEF Exchange, ExecReplies, ImmediateReply, Watching, Served,
     NewSocket, Unwatched, NothingWatched, Pipelines, Sockets
<1>9. CASE ExchangeFails
  BY <1>9, <1>t DEF ExchangeFails, NewSocket, Pipelines, Sockets
<1>10. CASE Error
  BY <1>10, <1>t DEF Error, WatchIsLost, Pipelines, Sockets
<1>11. CASE Reset
  BY <1>11, <1>t DEF Reset, MustUnwatch, Empty, NewSocket, Unwatched, NothingWatched,
     Pipelines, Sockets
<1>12. CASE Close
  BY <1>12, <1>t DEF Close, NewSocket, Pipelines, Sockets
<1>13. ASSUME NEW k \in Keys, Change(k) PROVE CallerWatch'
  BY <1>13, <1>t DEF Change, Pipelines, Sockets
<1>14. CASE UNCHANGED vars
  BY <1>14 DEF vars
<1> QED
  BY <1>1, <1>2, <1>3, <1>4, <1>5, <1>6, <1>7, <1>8, <1>9, <1>10, <1>11, <1>12,
     <1>13, <1>14 DEF Next, Method, Step

\* A lost watch is noticed: by EXEC, by the dead socket or by the error.
LEMMA GuardedPreserved ==
  TypeOK /\ Calls /\ CallerWatch /\ Guarded /\ [Next]_vars => Guarded'
<1> SUFFICES ASSUME TypeOK, Calls, CallerWatch, Guarded, [Next]_vars PROVE Guarded'
  OBVIOUS
<1> USE DEF Calls, InCall, CallerWatch, Guarded, Kept, callVars, callerVars
<1>t. pipe \in Pipelines /\ srv \in Sockets
  BY DEF TypeOK
<1>1. ASSUME NEW k \in Keys, Watch(k) PROVE Guarded'
  BY <1>1, <1>t DEF Watch, Send, Pipelines, Sockets
<1>2. CASE Command
  BY <1>2, <1>t DEF Command, Send, Immediate, Pipelines, Sockets
<1>3. CASE Unwatch
  BY <1>3, <1>t DEF Unwatch, Send, Pipelines, Sockets
<1>4. CASE Multi
  BY <1>4, <1>t DEF Multi, Pipelines, Sockets
<1>5. CASE Execute
  BY <1>5, <1>t DEF Execute, Send, Pipelines, Sockets
<1>6. CASE CloseCall
  BY <1>6, <1>t DEF CloseCall, Pipelines, Sockets
<1>7. CASE CheckHealth
  BY <1>7, <1>t DEF CheckHealth, NewSocket, Pipelines, Sockets
<1>8. CASE Exchange
  <2>1. CASE cmd \in {"EXEC", "BATCH"}
    BY <1>8, <2>1 DEF Exchange, ExecReplies
  <2>2. CASE cmd = "UNWATCH"
    BY <1>8, <2>2 DEF Exchange, NothingWatched, Unwatched
  <2>3. CASE cmd = "WATCH"
    <3>1. /\ srv' = [srv EXCEPT !.watched = @ \cup {key}]
          /\ basis' = [basis EXCEPT ![key] = IF @ = None THEN ver[key] ELSE @]
          /\ UNCHANGED <<healed, lapsed, ver>> /\ key \in Keys /\ pc = "exchange"
      BY <1>8, <2>3 DEF Exchange, Served
    <3> QED
      BY <3>1, <1>t DEF TypeOK, Sockets
  <2>4. CASE cmd \notin {"EXEC", "BATCH", "UNWATCH", "WATCH"}
    BY <1>8, <2>4 DEF Exchange, Served
  <2> QED
    BY <2>1, <2>2, <2>3, <2>4
<1>9. CASE ExchangeFails
  BY <1>9, <1>t DEF ExchangeFails, NewSocket, Pipelines, Sockets
<1>10. CASE Error
  BY <1>10, <1>t DEF Error, WatchIsLost, Pipelines, Sockets
<1>11. CASE Reset
  BY <1>11, <1>t DEF Reset, MustUnwatch, Empty, NewSocket, Unwatched, NothingWatched,
     Pipelines, Sockets
<1>12. CASE Close
  BY <1>12, <1>t DEF Close, NewSocket, Pipelines, Sockets
<1>13. ASSUME NEW k \in Keys, Change(k) PROVE Guarded'
  BY <1>13, <1>t DEF Change, Pipelines, Sockets
<1>14. CASE UNCHANGED vars
  BY <1>14 DEF vars
<1> QED
  BY <1>1, <1>2, <1>3, <1>4, <1>5, <1>6, <1>7, <1>8, <1>9, <1>10, <1>11, <1>12,
     <1>13, <1>14 DEF Next, Method, Step

\* Only what leads to reset() sets an outcome.
LEMMA UnsettledPreserved ==
  Unsettled /\ [Next]_vars => Unsettled'
<1> SUFFICES ASSUME Unsettled, [Next]_vars PROVE Unsettled'
  OBVIOUS
<1> USE DEF Unsettled, callVars
<1>1. CASE Method
  BY <1>1 DEF Method, Watch, Command, Unwatch, Multi, Execute, CloseCall, Send
<1>2. CASE CheckHealth \/ ExchangeFails \/ Reset
  BY <1>2 DEF CheckHealth, ExchangeFails, Reset
<1>3. CASE Exchange
  BY <1>3 DEF Exchange, ExecReplies, ImmediateReply
<1>4. CASE Error
  BY <1>4 DEF Error
<1>5. CASE Close \/ \E k \in Keys : Change(k)
  BY <1>5 DEF Close, Change
<1>6. CASE UNCHANGED vars
  BY <1>6 DEF vars
<1> QED
  BY <1>1, <1>2, <1>3, <1>4, <1>5, <1>6 DEF Next, Step

\* So EXEC answers with results only when nothing has changed.
LEMMA IsolatedPreserved ==
  TypeOK /\ Unsettled /\ Guarded /\ Isolated /\ [Next]_vars => Isolated'
<1> SUFFICES ASSUME TypeOK, Unsettled, Guarded, Isolated, [Next]_vars PROVE Isolated'
  OBVIOUS
<1> USE DEF Guarded, Kept, Isolated, callVars, callerVars
<1>t. pipe \in Pipelines /\ srv \in Sockets
  BY DEF TypeOK
<1>1. ASSUME NEW k \in Keys, Watch(k) PROVE Isolated'
  BY <1>1, <1>t DEF Watch, Send, Pipelines, Sockets
<1>2. CASE Command
  BY <1>2, <1>t DEF Command, Send, Immediate, Pipelines, Sockets
<1>3. CASE Unwatch
  BY <1>3, <1>t DEF Unwatch, Send, Pipelines, Sockets
<1>4. CASE Multi
  BY <1>4, <1>t DEF Multi, Pipelines, Sockets
<1>5. CASE Execute
  BY <1>5, <1>t DEF Execute, Send, Pipelines, Sockets
<1>6. CASE CloseCall
  BY <1>6, <1>t DEF CloseCall, Pipelines, Sockets
<1>7. CASE CheckHealth
  BY <1>7, <1>t DEF CheckHealth, NewSocket, Pipelines, Sockets
<1>8. CASE Exchange
  <2>1. CASE cmd = "EXEC"
    <3>1. UNCHANGED <<basis, healed, lapsed>> /\ ExecReplies /\ pc = "exchange" /\ srv.alive
      BY <1>8, <2>1 DEF Exchange
    <3> QED
      BY <3>1 DEF ExecReplies, Done
  <2>2. CASE cmd = "BATCH"
    BY <1>8, <2>2 DEF Exchange, Done
  <2>3. CASE cmd \notin {"EXEC", "BATCH"}
    <3>1. outcome' = outcome /\ pc = "exchange" /\ srv.alive
      BY <1>8, <2>3 DEF Exchange, ImmediateReply
    <3> QED
      BY <3>1 DEF Unsettled, NoOutcome
  <2> QED
    BY <2>1, <2>2, <2>3
<1>9. CASE ExchangeFails
  BY <1>9, <1>t DEF ExchangeFails, NewSocket, Pipelines, Sockets
<1>10. CASE Error
  BY <1>10 DEF Error, Done
<1>11. CASE Reset
  BY <1>11 DEF Reset, NoOutcome
<1>12. CASE Close
  BY <1>12, <1>t DEF Close, NewSocket, Pipelines, Sockets
<1>13. ASSUME NEW k \in Keys, Change(k) PROVE Isolated'
  BY <1>13, <1>t DEF Change, Pipelines, Sockets
<1>14. CASE UNCHANGED vars
  BY <1>14 DEF vars
<1> QED
  BY <1>1, <1>2, <1>3, <1>4, <1>5, <1>6, <1>7, <1>8, <1>9, <1>10, <1>11, <1>12,
     <1>13, <1>14 DEF Next, Method, Step
-----------------------------------------------------------------------------
\* The invariant holds at the start,
LEMMA InitIInv == Init => IInv
<1> SUFFICES ASSUME Init PROVE IInv
  OBVIOUS
<1>1. TypeOK
  <2>1. \A b \in BOOLEAN : Empty(b) \in Pipelines
    BY Constants DEF Empty, Pipelines
  <2>2. pipe \in Pipelines /\ srv \in Sockets
    BY <2>1, SocketUpdates DEF Init
  <2>3. ver \in [Keys -> 0..MaxChanges] /\ tries \in 0..Retries
    BY Constants DEF Init
  <2>4. basis \in [Keys -> Nat \cup {None}]
    BY DEF Init, Unwatched
  <2> QED
    BY <2>2, <2>3, <2>4 DEF TypeOK
<1>2. Unsettled /\ Calls /\ ServerWatch /\ CallerWatch /\ Guarded /\ Isolated
  BY DEF Init, Unsettled, Calls, InCall, ServerWatch, CallerWatch, Guarded, Kept, Isolated, NewSocket,
     Unwatched, NoOutcome
<1> QED
  BY <1>1, <1>2 DEF IInv

\* and in every step.
LEMMA Inductive == Spec => []IInv
<1>1. IInv /\ [Next]_vars => IInv'
  BY TypePreserved, CallsPreserved, ServerWatchPreserved, CallerWatchPreserved,
     GuardedPreserved, UnsettledPreserved, IsolatedPreserved DEF IInv
<1> QED
  BY <1>1, InitIInv, PTL DEF Spec

(***************************************************************************)
(* EXEC returns results only if nothing that WATCH covers has changed      *)
(* since, whatever was retried, timed out or closed in between, unless a   *)
(* health check has silently replaced the connection, or reset() has left  *)
(* the pipeline watching when its UNWATCH timed out.                       *)
(***************************************************************************)
THEOREM TransactionsIsolated == Spec => []Isolated
<1>1. IInv => Isolated
  BY DEF IInv
<1> QED
  BY <1>1, Inductive, PTL

(***************************************************************************)
(* reset() gives the connection back with nothing watched, on every path   *)
(* through it, so the next user's EXEC cannot fail for a foreign WATCH.    *)
(***************************************************************************)
THEOREM ConnectionReleasedClean == Spec => []ReleasedClean
<1>1. IInv => ReleasedClean
  BY DEF IInv, ServerWatch, ReleasedClean
<1> QED
  BY <1>1, Inductive, PTL

(***************************************************************************)
(* The first exception in Isolated is the health check alone: when none is *)
(* made, or a failed one is not retried, a transaction that succeeds has   *)
(* run on the values the caller has watched, until a reset() times out.    *)
(***************************************************************************)
THEOREM IsolatedUnchecked ==
  ASSUME ~HealthChecks \/ Retries = 0
  PROVE  Spec => []IsolatedUntilTimeout
<1>1. Init => ~healed
  BY DEF Init
<1>2. ~healed /\ [Next]_vars => ~healed'
  <2> SUFFICES ASSUME ~healed, [Next]_vars PROVE ~healed'
    OBVIOUS
  <2>1. CASE CheckHealth
    BY <2>1 DEF CheckHealth
  <2>2. CASE Reset
    BY <2>2 DEF Reset, NothingWatched
  <2>3. CASE Method
    BY <2>3 DEF Method, Watch, Command, Unwatch, Multi, Execute, CloseCall, callerVars
  <2>4. CASE Exchange \/ ExchangeFails \/ Error
    BY <2>4 DEF Exchange, ExchangeFails, Error, NothingWatched, callerVars
  <2>5. CASE Close \/ \E k \in Keys : Change(k)
    BY <2>5 DEF Close, Change, callerVars
  <2>6. CASE UNCHANGED vars
    BY <2>6 DEF vars, callerVars
  <2> QED
    BY <2>1, <2>2, <2>3, <2>4, <2>5, <2>6 DEF Next, Step
<1>3. ~healed /\ Isolated => IsolatedUntilTimeout
  BY DEF Isolated, IsolatedUntilTimeout
<1> QED
  BY <1>1, <1>2, <1>3, TransactionsIsolated, PTL DEF Spec
=============================================================================
