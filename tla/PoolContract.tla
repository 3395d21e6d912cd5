---------------------------- MODULE PoolContract ----------------------------
(***************************************************************************)
(* What a connection pool promises to its callers, without queues, mutexes *)
(* or resets: a caller without a connection is given one that nobody has   *)
(* and that this very process made, an old one or a new one; a process     *)
(* makes no more connections than the limit; a caller keeps what it was    *)
(* given until it gives it back.  Both pools of redis.connection implement *)
(* it.                                                                     *)
(***************************************************************************)
EXTENDS Integers, FiniteSets

CONSTANTS
  Threads,  \* the callers
  Conns,    \* the connection objects that can ever be created
  Limit,    \* max_connections
  Bounded,  \* the processes in which the limit is kept
  None      \* no connection

VARIABLES
  pid,      \* the process
  connPid,  \* the process that made each connection
  held      \* the connection each caller has

vars == <<pid, connPid, held>>

NoPid == -1

Init ==
  /\ pid = 0
  /\ connPid = [c \in Conns |-> NoPid]
  /\ held = [t \in Threads |-> None]

\* The connections this process made.
Made == {c \in Conns : connPid[c] = pid}
Free(c) == \A t \in Threads : held[t] # c

Give(t, c) ==
  /\ held[t] = None
  /\ held' = [held EXCEPT ![t] = c]

\* get_connection finds a connection that was given back.
Reuse(t, c) ==
  /\ connPid[c] = pid
  /\ Free(c)
  /\ Give(t, c)
  /\ UNCHANGED <<pid, connPid>>

\* get_connection creates a connection.
Create(t, c) ==
  /\ connPid[c] = NoPid
  /\ pid \in Bounded => Cardinality(Made) < Limit
  /\ connPid' = [connPid EXCEPT ![c] = pid]
  /\ Give(t, c)
  /\ UNCHANGED pid

GiveBack(t) ==
  /\ held[t] # None
  /\ held' = [held EXCEPT ![t] = None]
  /\ UNCHANGED <<pid, connPid>>

\* The calling thread goes on in the child, with what it had.
Fork(t) ==
  /\ pid' = pid + 1
  /\ held' = [u \in Threads |-> IF u = t THEN held[u] ELSE None]
  /\ UNCHANGED connPid

Next ==
  \E t \in Threads :
    \/ \E c \in Conns : Reuse(t, c) \/ Create(t, c)
    \/ GiveBack(t)
    \/ Fork(t)

Spec == Init /\ [][Next]_vars
=============================================================================
