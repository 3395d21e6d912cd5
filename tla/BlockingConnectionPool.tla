----------------------- MODULE BlockingConnectionPool -----------------------
(***************************************************************************)
(* redis.connection.BlockingConnectionPool: a pool that makes its callers  *)
(* wait for a free slot.                                                   *)
(*                                                                         *)
(* The pool is a thread-safe last-in first-out queue of max_connections    *)
(* slots.  A slot is an idle connection or the placeholder None; taking a  *)
(* slot is the right to use one connection, and a placeholder makes the    *)
(* taker create it.  There is no mutex of the pool's own: each queue       *)
(* operation is one atomic step.  _checkpid is the one of ConnectionPool,  *)
(* with a reset() that builds a new, full queue.  After a fork the model   *)
(* follows the child.                                                      *)
(***************************************************************************)
EXTENDS Integers, Sequences, FiniteSets

CONSTANTS
  Threads,         \* the threads of the process
  Conns,           \* the connection objects that can ever be created
  MaxConnections,  \* max_connections
  MaxForks,        \* bound: how often the process forks
  None,            \* no thread, no connection, the placeholder
  Orphan           \* the owner of a mutex that no longer exists in the child

ASSUME BlockingPoolAssumption ==
  /\ IsFiniteSet(Threads)
  /\ MaxConnections \in Nat \ {0}
  /\ MaxForks \in Nat
  /\ None \notin Threads \cup Conns
  /\ Orphan \notin Threads \cup Conns
  /\ None # Orphan

VARIABLES
  pid,          \* os.getpid()
  poolPid,      \* self.pid
  queue,        \* self.pool, the last element is taken first
  connections,  \* self._connections
  forkLock,     \* the thread that holds self._fork_lock
  connPid,      \* connection.pid, -1 before the connection is created
  open,         \* the connections with a socket
  pc,           \* where each thread is
  op,           \* the operation each thread is in
  held,         \* the connection each thread works with
  fullRaised    \* release() has raised queue.Full to its caller

poolVars == <<poolPid, queue, connections>>
connVars == <<connPid, open>>
threadVars == <<pc, op, held>>
vars == <<pid, poolVars, forkLock, connVars, threadVars, fullRaised>>

NoPid == -1
Ops == {"none", "get", "release", "disconnect"}
Labels == {"app", "checkpid", "forkwait", "recheck", "reset", "resetpid",
           "body", "make", "connect"}

TypeOK ==
  /\ pid \in Nat
  /\ poolPid \in Nat
  /\ queue \in Seq(Conns \cup {None})
  /\ connections \in SUBSET Conns
  /\ forkLock \in Threads \cup {None, Orphan}
  /\ connPid \in [Conns -> Nat \cup {NoPid}]
  /\ open \in SUBSET Conns
  /\ pc \in [Threads -> Labels]
  /\ op \in [Threads -> Ops]
  /\ held \in [Threads -> Conns \cup {None}]
  /\ fullRaised \in BOOLEAN

\* A new queue filled with placeholders until put_nowait raises Full.
FullQueue == [i \in 1..MaxConnections |-> None]

Init ==
  /\ pid = 0
  /\ poolPid = 0
  /\ queue = FullQueue
  /\ connections = {}
  /\ forkLock = None
  /\ connPid = [c \in Conns |-> NoPid]
  /\ open = {}
  /\ pc = [t \in Threads |-> "app"]
  /\ op = [t \in Threads |-> "none"]
  /\ held = [t \in Threads |-> None]
  /\ fullRaised = FALSE

Goto(t, l) == pc' = [pc EXCEPT ![t] = l]
Leave(t) == Goto(t, "app") /\ op' = [op EXCEPT ![t] = "none"]
In(t, o) == pc[t] = "body" /\ op[t] = o

Elems(s) == {s[i] : i \in 1..Len(s)}
Top(s) == s[Len(s)]
\* Mutant: the queue gives the newest slot and removes the oldest.
PopOldest(s) == SubSeq(s, 2, Len(s))
Pop(s) == SubSeq(s, 1, Len(s) - 1)
-----------------------------------------------------------------------------
\* A thread that holds no connection asks for one, a thread that holds one
\* gives it back; both may disconnect the pool.
Call(t) ==
  /\ pc[t] = "app"
  /\ \E o \in {IF held[t] = None THEN "get" ELSE "release", "disconnect"} :
       op' = [op EXCEPT ![t] = o]
  /\ Goto(t, "checkpid")
  /\ UNCHANGED <<pid, poolVars, forkLock, connVars, held, fullRaised>>

CheckPid(t) ==
  /\ pc[t] = "checkpid"
  /\ Goto(t, IF poolPid # pid THEN "forkwait" ELSE "body")
  /\ UNCHANGED <<pid, poolVars, forkLock, connVars, op, held, fullRaised>>

AcquireForkLock(t) ==
  /\ pc[t] = "forkwait"
  /\ forkLock = None
  /\ forkLock' = t
  /\ Goto(t, "recheck")
  /\ UNCHANGED <<pid, poolVars, connVars, op, held, fullRaised>>

\* _fork_lock.acquire(timeout=5) gives up: ChildDeadlockedError.
ForkLockTimeout(t) ==
  /\ pc[t] = "forkwait"
  /\ forkLock # None
  /\ Leave(t)
  /\ UNCHANGED <<pid, poolVars, forkLock, connVars, held, fullRaised>>

RecheckPid(t) ==
  /\ pc[t] = "recheck"
  /\ \/ poolPid # pid /\ Goto(t, "reset") /\ UNCHANGED forkLock
     \/ poolPid = pid /\ Goto(t, "body") /\ forkLock' = None
  /\ UNCHANGED <<pid, poolVars, connVars, op, held, fullRaised>>

ResetQueue(t) ==
  /\ pc[t] = "reset"
  /\ queue' = FullQueue
  /\ connections' = {}
  /\ Goto(t, "resetpid")
  /\ UNCHANGED <<pid, poolPid, forkLock, connVars, op, held, fullRaised>>

\* "this must be the last operation in this method"
ResetPid(t) ==
  /\ pc[t] = "resetpid"
  /\ poolPid' = pid
  /\ forkLock' = None
  /\ Goto(t, "body")
  /\ UNCHANGED <<pid, queue, connections, connVars, op, held, fullRaised>>
-----------------------------------------------------------------------------
\* self.pool.get(block=True, timeout=self.timeout) returns a slot.
GetSlot(t) ==
  /\ In(t, "get")
  /\ queue # <<>>
  /\ queue' = Pop(queue)
  /\ held' = [held EXCEPT ![t] = Top(queue)]
  /\ Goto(t, IF Top(queue) = None THEN "make" ELSE "connect")
  /\ UNCHANGED <<pid, poolPid, connections, forkLock, connVars, op, fullRaised>>

\* queue.Empty after self.timeout: ConnectionError("No connection available.")
GetTimeout(t) ==
  /\ In(t, "get")
  /\ queue = <<>>
  /\ Leave(t)
  /\ UNCHANGED <<pid, poolVars, forkLock, connVars, held, fullRaised>>

MakeConnection(t) ==
  /\ pc[t] = "make"
  /\ \E c \in Conns :
       /\ connPid[c] = NoPid
       /\ connPid' = [connPid EXCEPT ![c] = pid]
       /\ connections' = connections \cup {c}
       /\ held' = [held EXCEPT ![t] = c]
  /\ Goto(t, "connect")
  /\ UNCHANGED <<pid, poolPid, queue, forkLock, open, op, fullRaised>>

\* connect() and can_read() leave a connection that is ready.
Connected(t) ==
  /\ pc[t] = "connect"
  /\ open' = open \cup {held[t]}
  /\ Leave(t)
  /\ UNCHANGED <<pid, poolVars, forkLock, connPid, held, fullRaised>>

\* Mutant: get_connection raises without releasing the connection.
ConnectLeaks(t) ==
  /\ pc[t] = "connect"
  /\ held' = [held EXCEPT ![t] = None]
  /\ Leave(t)
  /\ UNCHANGED <<pid, poolVars, forkLock, connVars, fullRaised>>

\* Mutant: a placeholder is put back before the connection is released.
ConnectReturnsTwice(t) ==
  /\ pc[t] = "connect"
  /\ queue' = Append(queue, None)
  /\ op' = [op EXCEPT ![t] = "release"]
  /\ Goto(t, "checkpid")
  /\ UNCHANGED <<pid, poolPid, connections, forkLock, connVars, held, fullRaised>>

\* connect() fails, or the connection still has data after a reconnect:
\* "release the connection back to the pool so that we don't leak it".
ConnectFails(t) ==
  /\ pc[t] = "connect"
  /\ open' \in {open \cup {held[t]}, open \ {held[t]}}
  /\ op' = [op EXCEPT ![t] = "release"]
  /\ Goto(t, "checkpid")
  /\ UNCHANGED <<pid, poolVars, forkLock, connPid, held, fullRaised>>
-----------------------------------------------------------------------------
\* Mutant: any connection that was ever made is taken back.
OwnsAny(c) == connPid[c] # NoPid
Owns(c) == connPid[c] = poolPid
IsFull == Len(queue) >= MaxConnections

\* What a thread does when release() returns, or raises.
GivesUp(t) ==
  /\ held' = [held EXCEPT ![t] = None]
  /\ Leave(t)

\* A connection of another process is closed and a placeholder put back, with
\* put_nowait and no handler for Full.
ReleaseForeign(t) ==
  /\ In(t, "release")
  /\ ~ Owns(held[t])
  /\ open' = open \ {held[t]}
  /\ \/ ~IsFull /\ queue' = Append(queue, None) /\ UNCHANGED fullRaised
     \/ IsFull /\ fullRaised' = TRUE /\ UNCHANGED queue
  /\ GivesUp(t)
  /\ UNCHANGED <<pid, poolPid, connections, forkLock, connPid>>

\* "perhaps the pool has been reset() after a fork? regardless, we don't want
\* this connection"
ReleaseOwn(t) ==
  /\ In(t, "release")
  /\ Owns(held[t])
  /\ queue' = IF IsFull THEN queue ELSE Append(queue, held[t])
  /\ GivesUp(t)
  /\ UNCHANGED <<pid, poolPid, connections, forkLock, connVars, fullRaised>>

Disconnect(t) ==
  /\ In(t, "disconnect")
  /\ open' = open \ connections
  /\ Leave(t)
  /\ UNCHANGED <<pid, poolVars, forkLock, connPid, held, fullRaised>>
-----------------------------------------------------------------------------
\* The application sends commands, which opens a closed connection; an error
\* closes it.
UseConnection(t) ==
  /\ pc[t] = "app"
  /\ held[t] # None
  /\ open' \in {open \cup {held[t]}, open \ {held[t]}}
  /\ UNCHANGED <<pid, poolVars, forkLock, connPid, threadVars, fullRaised>>

\* os.fork(): only the calling thread lives on in the child.
Fork(t) ==
  /\ pc[t] = "app"
  /\ pid < MaxForks
  /\ pid' = pid + 1
  /\ forkLock' = IF forkLock = None THEN None ELSE Orphan
  /\ pc' = [u \in Threads |-> "app"]
  /\ op' = [u \in Threads |-> "none"]
  /\ held' = [u \in Threads |-> IF u = t THEN held[u] ELSE None]
  /\ UNCHANGED <<poolVars, connVars, fullRaised>>
-----------------------------------------------------------------------------
Step(t) ==
  \/ CheckPid(t) \/ AcquireForkLock(t) \/ ForkLockTimeout(t) \/ RecheckPid(t)
  \/ ResetQueue(t) \/ ResetPid(t)
  \/ GetSlot(t) \/ GetTimeout(t) \/ MakeConnection(t)
  \/ Connected(t) \/ ConnectFails(t)
  \/ ReleaseForeign(t) \/ ReleaseOwn(t) \/ Disconnect(t)

Next ==
  \E t \in Threads : Call(t) \/ Step(t) \/ UseConnection(t) \/ Fork(t)

Spec == Init /\ [][Next]_vars
-----------------------------------------------------------------------------
(***************************************************************************)
(* Properties.                                                             *)
(***************************************************************************)
Mine == {c \in Conns : connPid[c] = pid}

\* The slots out of the queue: a placeholder that is being replaced by a
\* connection, or a connection of this process in some thread's hands.
Taken == {t \in Threads : pc[t] = "make" \/ held[t] \in Mine}

\* The queue never hands one connection to two threads, holds each connection
\* once, and none that a thread still holds.
Exclusive ==
  /\ \A t, u \in Threads : t # u /\ held[t] # None => held[t] # held[u]
  /\ poolPid = pid =>
       /\ \A i, j \in 1..Len(queue) :
            i # j /\ queue[i] # None => queue[i] # queue[j]
       /\ \A t \in Threads : held[t] # None => held[t] \notin Elems(queue)

\* get_connection and release never lose a slot, whatever fails in between: a
\* caller that waits for a connection waits for one that exists.
NoSlotLost ==
  poolPid = pid => Len(queue) + Cardinality(Taken) >= MaxConnections

\* "Use max_connections to increase / decrease the pool size": in a process
\* that was not forked no more than max_connections slots exist, so no more
\* connections are in use.  (A child that gives back a connection of its parent
\* adds a slot.)
PoolSize ==
  pid = 0 => Len(queue) + Cardinality(Taken) <= MaxConnections

\* After a fork, get_connection works only on connections the child made, and
\* disconnect() reaches every socket the process opened.
ChildOwnsItsPool ==
  poolPid = pid =>
    /\ Elems(queue) \subseteq Mine \cup {None}
    /\ open \cap Mine \subseteq connections
    /\ \A t \in Threads : pc[t] = "connect" => held[t] \in Mine

\* The queue of slots keeps the contract of a pool: get_connection gives out a
\* connection of this process that nobody holds, and the process makes no more
\* than max_connections of them.  (A child may make more, see PoolSize.)
Contract == INSTANCE PoolContract WITH Limit <- MaxConnections, Bounded <- {0}
ImplementsPoolContract == Contract!Spec

\* release() drops what does not fit in the queue: "perhaps the pool has been
\* reset() after a fork? regardless, we don't want this connection".
ReleaseNeverRaises == ~fullRaised
=============================================================================
