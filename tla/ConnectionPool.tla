--------------------------- MODULE ConnectionPool ---------------------------
(***************************************************************************)
(* redis.connection.ConnectionPool: a pool of connections shared by the    *)
(* threads of a process that may fork.                                     *)
(*                                                                         *)
(* The pool keeps its idle connections in a list used as a stack and the   *)
(* connections its callers hold in a set, both protected by the mutex      *)
(* _lock; every entry point first calls _checkpid, which empties the pool  *)
(* when the process id has changed, under a second mutex _fork_lock.  A    *)
(* thread runs one operation at a time; pc says where it is.  Everything a *)
(* thread does under _lock is one step, because every other access to the  *)
(* two collections is under _lock too, except reset(), which has its own   *)
(* steps.  After a fork the model follows the child.                       *)
(***************************************************************************)
EXTENDS Integers, Sequences, FiniteSets

CONSTANTS
  Threads,         \* the threads of the process
  Conns,           \* the connection objects that can ever be created
  MaxConnections,  \* max_connections
  MaxForks,        \* bound: how often the process forks
  MaxTokens,       \* bound: how often the credentials are renewed
  ReleaseAuthFails,\* AUTH may fail when release() re-authenticates
  None,            \* no thread, no connection
  Orphan           \* the owner of a mutex that no longer exists in the child

ASSUME PoolAssumption ==
  /\ IsFiniteSet(Conns)
  /\ MaxConnections \in Nat \ {0}
  /\ MaxForks \in Nat
  /\ MaxTokens \in Nat
  /\ ReleaseAuthFails \in BOOLEAN
  /\ None \notin Threads \cup Conns
  /\ Orphan \notin Threads \cup Conns
  /\ None # Orphan

VARIABLES
  pid,        \* os.getpid()
  poolPid,    \* self.pid
  created,    \* self._created_connections
  available,  \* self._available_connections, the last element is popped first
  inUse,      \* self._in_use_connections
  lock,       \* the thread that holds self._lock
  forkLock,   \* the thread that holds self._fork_lock
  connPid,    \* connection.pid, -1 before the connection is created
  sock,       \* what the connection's socket would show to can_read()
  auth,       \* the token the connection authenticated with
  reAuth,     \* connection._re_auth_token, 0 when there is none
  token,      \* the token the credential provider hands out
  renewed,    \* the last re_auth_callback ran to its end
  pc,         \* where each thread is
  op,         \* the operation each thread is in
  held,       \* the connection each thread works with
  second      \* get_connection is in its second attempt to connect

poolVars == <<poolPid, created, available, inUse>>
connVars == <<connPid, sock, auth, reAuth>>
tokenVars == <<token, renewed>>
threadVars == <<pc, op, held, second>>
vars == <<pid, poolVars, lock, forkLock, connVars, tokenVars, threadVars>>

NoPid == -1
NoToken == 0

\* "closed": _sock is None; "ready": connected, nothing to read; "data": a
\* reply or a push nobody has read; "dead": the server closed its end.
SockState == {"closed", "ready", "data", "dead"}
Ops == {"none", "get", "release", "disconnect", "disconnect_idle", "reauth"}
Labels == {"app", "checkpid", "forkwait", "recheck", "reset", "resetpid",
           "lock", "crit", "connect", "handshake", "canread"}

TypeOK ==
  /\ pid \in Nat
  /\ poolPid \in Nat
  /\ created \in Nat
  /\ available \in Seq(Conns)
  /\ inUse \in SUBSET Conns
  /\ lock \in Threads \cup {None, Orphan}
  /\ forkLock \in Threads \cup {None, Orphan}
  /\ connPid \in [Conns -> Nat \cup {NoPid}]
  /\ sock \in [Conns -> SockState]
  /\ auth \in [Conns -> Nat]
  /\ reAuth \in [Conns -> Nat]
  /\ token \in Nat
  /\ renewed \in BOOLEAN
  /\ pc \in [Threads -> Labels]
  /\ op \in [Threads -> Ops]
  /\ held \in [Threads -> Conns \cup {None}]
  /\ second \in [Threads -> BOOLEAN]

Init ==
  /\ pid = 0
  /\ poolPid = 0
  /\ created = 0
  /\ available = <<>>
  /\ inUse = {}
  /\ lock = None
  /\ forkLock = None
  /\ connPid = [c \in Conns |-> NoPid]
  /\ sock = [c \in Conns |-> "closed"]
  /\ auth = [c \in Conns |-> NoToken]
  /\ reAuth = [c \in Conns |-> NoToken]
  /\ token = 1
  /\ renewed = TRUE
  /\ pc = [t \in Threads |-> "app"]
  /\ op = [t \in Threads |-> "none"]
  /\ held = [t \in Threads |-> None]
  /\ second = [t \in Threads |-> FALSE]

Goto(t, l) == pc' = [pc EXCEPT ![t] = l]

\* Return from the operation to the application, or raise out of it.
Leave(t) ==
  /\ Goto(t, "app")
  /\ op' = [op EXCEPT ![t] = "none"]

Elems(s) == {s[i] : i \in 1..Len(s)}
Top(s) == s[Len(s)]
\* Mutant: the list is used as a queue on one side only.
PopOldest(s) == SubSeq(s, 2, Len(s))
Pop(s) == SubSeq(s, 1, Len(s) - 1)
-----------------------------------------------------------------------------
(***************************************************************************)
(* The calls.  A thread that holds no connection asks for one, a thread    *)
(* that holds one gives it back; both may disconnect the pool.             *)
(***************************************************************************)
CallWith(t, o, l) ==
  /\ pc[t] = "app"
  /\ op' = [op EXCEPT ![t] = o]
  /\ Goto(t, l)

Call(t) ==
  /\ \/ held[t] = None /\ CallWith(t, "get", "checkpid")
     \/ held[t] # None /\ CallWith(t, "release", "checkpid")
     \/ CallWith(t, "disconnect", "checkpid")
     \/ CallWith(t, "disconnect_idle", "checkpid")
  /\ UNCHANGED <<pid, poolVars, lock, forkLock, connVars, tokenVars, held,
                 second>>

\* The token manager delivers a new token to re_auth_callback, which does not
\* call _checkpid.  It runs in one event loop, so one callback at a time, and
\* that loop's thread does not survive a fork.
CallReAuth(t) ==
  /\ pid = 0
  /\ token < MaxTokens
  /\ \A u \in Threads : op[u] # "reauth"
  /\ CallWith(t, "reauth", "lock")
  /\ token' = token + 1
  /\ renewed' = FALSE
  /\ UNCHANGED <<pid, poolVars, lock, forkLock, connVars, held, second>>
-----------------------------------------------------------------------------
(***************************************************************************)
(* _checkpid and reset.                                                    *)
(***************************************************************************)
\* Mutant: the pool is used as it is, whoever made it.
CheckPidSkipped(t) ==
  /\ pc[t] = "checkpid"
  /\ Goto(t, "lock")
  /\ UNCHANGED <<pid, poolVars, lock, forkLock, connVars, tokenVars, op, held,
                 second>>

CheckPid(t) ==
  /\ pc[t] = "checkpid"
  /\ Goto(t, IF poolPid # pid THEN "forkwait" ELSE "lock")
  /\ UNCHANGED <<pid, poolVars, lock, forkLock, connVars, tokenVars, op, held,
                 second>>

AcquireForkLock(t) ==
  /\ pc[t] = "forkwait"
  /\ forkLock = None
  /\ forkLock' = t
  /\ Goto(t, "recheck")
  /\ UNCHANGED <<pid, poolVars, lock, connVars, tokenVars, op, held, second>>

\* _fork_lock.acquire(timeout=5) gives up: ChildDeadlockedError.
ForkLockTimeout(t) ==
  /\ pc[t] = "forkwait"
  /\ forkLock # None
  /\ Leave(t)
  /\ UNCHANGED <<pid, poolVars, lock, forkLock, connVars, tokenVars, held,
                 second>>

RecheckPid(t) ==
  /\ pc[t] = "recheck"
  /\ \/ poolPid # pid /\ Goto(t, "reset") /\ UNCHANGED forkLock
     \/ poolPid = pid /\ Goto(t, "lock") /\ forkLock' = None
  /\ UNCHANGED <<pid, poolVars, lock, connVars, tokenVars, op, held, second>>

\* Mutant: reset() forgets the idle connections.
ResetKeepsAvailable(t) ==
  /\ pc[t] = "reset"
  /\ created' = 0
  /\ inUse' = {}
  /\ Goto(t, "resetpid")
  /\ UNCHANGED <<pid, poolPid, available, lock, forkLock, connVars, tokenVars,
                 op, held, second>>

ResetCollections(t) ==
  /\ pc[t] = "reset"
  /\ created' = 0
  /\ available' = <<>>
  /\ inUse' = {}
  /\ Goto(t, "resetpid")
  /\ UNCHANGED <<pid, poolPid, lock, forkLock, connVars, tokenVars, op, held,
                 second>>

\* "this must be the last operation in this method"
ResetPid(t) ==
  /\ pc[t] = "resetpid"
  /\ poolPid' = pid
  /\ forkLock' = None
  /\ Goto(t, "lock")
  /\ UNCHANGED <<pid, created, available, inUse, lock, connVars, tokenVars,
                 op, held, second>>

AcquireLock(t) ==
  /\ pc[t] = "lock"
  /\ lock = None
  /\ lock' = t
  /\ Goto(t, "crit")
  /\ UNCHANGED <<pid, poolVars, forkLock, connVars, tokenVars, op, held,
                 second>>

\* The critical section of operation o, ended by the release of _lock.
Critical(t, o) ==
  /\ pc[t] = "crit"
  /\ op[t] = o
  /\ lock' = None
-----------------------------------------------------------------------------
(***************************************************************************)
(* get_connection: the critical section pops or makes a connection.        *)
(***************************************************************************)
Take(t, c) ==
  /\ inUse' = inUse \cup {c}
  /\ held' = [held EXCEPT ![t] = c]
  /\ second' = [second EXCEPT ![t] = FALSE]
  /\ Goto(t, "connect")
  /\ UNCHANGED op

PopConnection(t) ==
  /\ Critical(t, "get")
  /\ available # <<>>
  /\ available' = Pop(available)
  /\ Take(t, Top(available))
  /\ UNCHANGED <<pid, poolPid, created, forkLock, connVars, tokenVars>>

\* Mutant: one connection too many.
MakeOneTooMany(t) ==
  /\ Critical(t, "get")
  /\ available = <<>>
  /\ created <= MaxConnections
  /\ created' = created + 1
  /\ \E c \in Conns :
       /\ connPid[c] = NoPid
       /\ connPid' = [connPid EXCEPT ![c] = pid]
       /\ Take(t, c)
  /\ UNCHANGED <<pid, poolPid, available, forkLock, sock, auth, reAuth,
                 tokenVars>>

MakeConnection(t) ==
  /\ Critical(t, "get")
  /\ available = <<>>
  /\ created < MaxConnections
  /\ created' = created + 1
  /\ \E c \in Conns :
       /\ connPid[c] = NoPid
       /\ connPid' = [connPid EXCEPT ![c] = pid]
       /\ Take(t, c)
  /\ UNCHANGED <<pid, poolPid, available, forkLock, sock, auth, reAuth,
                 tokenVars>>

\* Mutant: _lock stays locked when make_connection raises.
TooManyKeepsLock(t) ==
  /\ pc[t] = "crit"
  /\ op[t] = "get"
  /\ available = <<>>
  /\ created >= MaxConnections
  /\ Leave(t)
  /\ UNCHANGED <<pid, poolVars, lock, forkLock, connVars, tokenVars, held,
                 second>>

TooManyConnections(t) ==
  /\ Critical(t, "get")
  /\ available = <<>>
  /\ created >= MaxConnections
  /\ Leave(t)
  /\ UNCHANGED <<pid, poolVars, forkLock, connVars, tokenVars, held, second>>

\* connection.connect(): nothing to do when there is a socket, otherwise the
\* credentials are fetched now and presented to the server later.
Connect(t) ==
  /\ pc[t] = "connect"
  /\ \/ /\ sock[held[t]] # "closed"
        /\ Goto(t, "canread")
        /\ UNCHANGED auth
     \/ /\ sock[held[t]] = "closed"
        /\ auth' = [auth EXCEPT ![held[t]] = token]
        /\ Goto(t, "handshake")
  /\ UNCHANGED <<pid, poolVars, lock, forkLock, connPid, sock, reAuth,
                 tokenVars, op, held, second>>

Handshake(t) ==
  /\ pc[t] = "handshake"
  /\ sock' = [sock EXCEPT ![held[t]] = "ready"]
  /\ Goto(t, "canread")
  /\ UNCHANGED <<pid, poolVars, lock, forkLock, connPid, auth, reAuth,
                 tokenVars, op, held, second>>

\* Mutant: get_connection raises without releasing the connection.
HandshakeLeaks(t) ==
  /\ pc[t] = "handshake"
  /\ Leave(t)
  /\ held' = [held EXCEPT ![t] = None]
  /\ UNCHANGED <<pid, poolVars, lock, forkLock, connVars, tokenVars, second>>

\* "release the connection back to the pool so that we don't leak it", then
\* raise.
HandshakeFails(t) ==
  /\ pc[t] = "handshake"
  /\ op' = [op EXCEPT ![t] = "release"]
  /\ Goto(t, "checkpid")
  /\ UNCHANGED <<pid, poolVars, lock, forkLock, connVars, tokenVars, held,
                 second>>

\* can_read() before the connection is handed out.  can_read() connects a
\* connection that another thread has disconnected meanwhile.
CanRead(t) ==
  LET c == held[t] IN
  /\ pc[t] = "canread"
  /\ \/ /\ sock[c] = "ready"
        /\ Leave(t)
        /\ UNCHANGED <<sock, second>>
     \/ /\ sock[c] = "closed"
        /\ Goto(t, "connect")
        /\ UNCHANGED <<sock, op, second>>
     \/ /\ sock[c] \in {"data", "dead"}
        /\ ~second[t]
        /\ sock' = [sock EXCEPT ![c] = "closed"]
        /\ second' = [second EXCEPT ![t] = TRUE]
        /\ Goto(t, "connect")
        /\ UNCHANGED op
     \/ /\ sock[c] \in {"data", "dead"}
        /\ second[t]
        /\ op' = [op EXCEPT ![t] = "release"]
        /\ Goto(t, "checkpid")
        /\ UNCHANGED <<sock, second>>
  /\ UNCHANGED <<pid, poolVars, lock, forkLock, connPid, auth, reAuth,
                 tokenVars, held>>
-----------------------------------------------------------------------------
(***************************************************************************)
(* release.  The released connection is dispatched to re_auth() while      *)
(* _lock is held: a pending token is sent in AUTH and forgotten when the   *)
(* reply is read.                                                          *)
(***************************************************************************)
Owns(c) == connPid[c] = poolPid

\* What re_auth() leaves in the connection: done, failed after closing the
\* socket, or refused by the server.
ReAuthOutcome(c) ==
  \/ /\ reAuth[c] = NoToken
     /\ UNCHANGED <<sock, auth, reAuth>>
  \/ /\ reAuth[c] # NoToken
     /\ auth' = [auth EXCEPT ![c] = reAuth[c]]
     /\ reAuth' = [reAuth EXCEPT ![c] = NoToken]
     /\ sock' = [sock EXCEPT ![c] = IF @ \in {"closed", "dead"} THEN "ready" ELSE @]
  \/ /\ ReleaseAuthFails
     /\ reAuth[c] # NoToken
     /\ sock' \in {sock, [sock EXCEPT ![c] = "closed"]}
     /\ UNCHANGED <<auth, reAuth>>

ReleaseConnection(t) ==
  LET c == held[t] IN
  /\ Critical(t, "release")
  /\ c \in inUse
  /\ inUse' = inUse \ {c}
  /\ IF Owns(c)
       THEN available' = Append(available, c) /\ ReAuthOutcome(c)
       ELSE /\ sock' = [sock EXCEPT ![c] = "closed"]
            /\ UNCHANGED <<available, auth, reAuth>>
  /\ held' = [held EXCEPT ![t] = None]
  /\ Leave(t)
  /\ UNCHANGED <<pid, poolPid, created, forkLock, connPid, tokenVars, second>>

\* "Gracefully fail when a connection is returned to this pool that the pool
\* doesn't actually own"
ReleaseUnknown(t) ==
  /\ Critical(t, "release")
  /\ held[t] \notin inUse
  /\ held' = [held EXCEPT ![t] = None]
  /\ Leave(t)
  /\ UNCHANGED <<pid, poolVars, forkLock, connVars, tokenVars, second>>

Disconnect(t) ==
  /\ \E o \in {"disconnect", "disconnect_idle"} :
       LET closing == Elems(available) \cup
                        (IF o = "disconnect" THEN inUse ELSE {})
       IN /\ Critical(t, o)
          /\ sock' = [c \in Conns |->
                        IF c \in closing THEN "closed" ELSE sock[c]]
  /\ Leave(t)
  /\ UNCHANGED <<pid, poolVars, forkLock, connPid, auth, reAuth, tokenVars,
                 held, second>>

\* Mutant: re_auth_callback looks at the idle connections only.
ReAuthIdleOnly(t) ==
  /\ Critical(t, "reauth")
  /\ LET idle == Elems(available) IN
     /\ auth' = [c \in Conns |-> IF c \in idle THEN token ELSE auth[c]]
     /\ sock' = [c \in Conns |-> IF c \in idle /\ sock[c] \in {"closed", "dead"}
                                   THEN "ready" ELSE sock[c]]
  /\ renewed' = TRUE
  /\ Leave(t)
  /\ UNCHANGED <<pid, poolVars, forkLock, connPid, reAuth, token, held, second>>

\* re_auth_callback: AUTH on every idle connection, in order, then a pending
\* token on every connection in use.
ReAuthAll(t) ==
  /\ Critical(t, "reauth")
  /\ LET idle == Elems(available) IN
     /\ auth' = [c \in Conns |-> IF c \in idle THEN token ELSE auth[c]]
     /\ sock' = [c \in Conns |-> IF c \in idle /\ sock[c] \in {"closed", "dead"}
                                   THEN "ready" ELSE sock[c]]
     /\ reAuth' = [c \in Conns |-> IF c \in inUse THEN token ELSE reAuth[c]]
  /\ renewed' = TRUE
  /\ Leave(t)
  /\ UNCHANGED <<pid, poolVars, forkLock, connPid, token, held, second>>

\* AUTH fails on the n-th idle connection: the exception leaves the loop, the
\* later connections keep their token and those in use are not told.
ReAuthFails(t) ==
  /\ Critical(t, "reauth")
  /\ \E n \in 1..Len(available) :
       LET done == {available[i] : i \in 1..(n - 1)} IN
       /\ auth' = [c \in Conns |-> IF c \in done THEN token ELSE auth[c]]
       /\ sock' = [c \in Conns |->
                     IF c = available[n] THEN "closed"
                     ELSE IF c \in done /\ sock[c] \in {"closed", "dead"}
                       THEN "ready" ELSE sock[c]]
  /\ Leave(t)
  /\ UNCHANGED <<pid, poolVars, forkLock, connPid, reAuth, tokenVars, held,
                 second>>
-----------------------------------------------------------------------------
(***************************************************************************)
(* What happens outside the pool.                                          *)
(***************************************************************************)
\* The application uses the connection it holds: send_command connects when
\* there is no socket; the reply is read, left unread, or an error closes it.
UseConnection(t) ==
  LET c == held[t] IN
  /\ pc[t] = "app"
  /\ c # None
  /\ \E s \in {"ready", "data", "closed"} : sock' = [sock EXCEPT ![c] = s]
  /\ auth' = [auth EXCEPT ![c] = IF sock[c] = "closed" THEN token ELSE @]
  /\ UNCHANGED <<pid, poolVars, lock, forkLock, connPid, reAuth, tokenVars,
                 threadVars>>

\* The server closes a connection, or something arrives nobody asked for.
NetworkEvent(c) ==
  /\ sock[c] \in {"ready", "data"}
  /\ \E s \in {"data", "dead"} : sock' = [sock EXCEPT ![c] = s]
  /\ UNCHANGED <<pid, poolVars, lock, forkLock, connPid, auth, reAuth,
                 tokenVars, threadVars>>

\* os.fork(): only the calling thread lives on in the child, and a mutex that
\* another thread held stays locked.  The child starts its threads anew.
Fork(t) ==
  /\ pc[t] = "app"
  /\ pid < MaxForks
  /\ pid' = pid + 1
  /\ lock' = IF lock = None THEN None ELSE Orphan
  /\ forkLock' = IF forkLock = None THEN None ELSE Orphan
  /\ pc' = [u \in Threads |-> "app"]
  /\ op' = [u \in Threads |-> "none"]
  /\ held' = [u \in Threads |-> IF u = t THEN held[u] ELSE None]
  /\ UNCHANGED <<poolVars, connVars, tokenVars, second>>
-----------------------------------------------------------------------------
Step(t) ==
  \/ CheckPid(t) \/ AcquireForkLock(t) \/ ForkLockTimeout(t) \/ RecheckPid(t)
  \/ ResetCollections(t) \/ ResetPid(t) \/ AcquireLock(t)
  \/ PopConnection(t) \/ MakeConnection(t) \/ TooManyConnections(t)
  \/ Connect(t) \/ Handshake(t) \/ HandshakeFails(t) \/ CanRead(t)
  \/ ReleaseConnection(t) \/ ReleaseUnknown(t) \/ Disconnect(t)
  \/ ReAuthAll(t) \/ ReAuthFails(t)

Next ==
  \/ \E t \in Threads :
       Call(t) \/ CallReAuth(t) \/ Step(t) \/ UseConnection(t) \/ Fork(t)
  \/ \E c \in Conns : NetworkEvent(c)

Spec == Init /\ [][Next]_vars

\* A thread that is inside an operation is scheduled; nobody has to call the
\* pool, and the network may stay silent.
FairSpec == Spec /\ \A t \in Threads : WF_vars(Step(t))
-----------------------------------------------------------------------------
(***************************************************************************)
(* Properties.                                                             *)
(***************************************************************************)
\* The connections made by this process.
Mine == {c \in Conns : connPid[c] = pid}
Holds(t, c) == held[t] = c /\ connPid[c] = pid

\* get_connection and release never let two threads work on one connection,
\* and a connection somebody holds is not idle in the pool: the stack holds
\* each connection once and none that is in use.
Exclusive ==
  /\ \A t, u \in Threads : t # u /\ held[t] # None => held[t] # held[u]
  /\ poolPid = pid =>
       /\ \A i, j \in 1..Len(available) :
            i # j => available[i] # available[j]
       /\ Elems(available) \cap inUse = {}
       /\ \A t \in Threads : held[t] # None => held[t] \notin Elems(available)

\* After a fork, get_connection works only on connections the child made:
\* no thread that passed _checkpid is handed a socket of the parent.
HandedOutHere ==
  \A t \in Threads :
    pc[t] \in {"connect", "handshake", "canread"} => connPid[held[t]] = pid

\* A pool that has been reset for this process accounts for every connection
\* the process made: each is idle or in use, in use means held by a thread,
\* and _created_connections counts them all and stays within the limit.
Accounted ==
  poolPid = pid =>
    /\ Mine = Elems(available) \cup inUse
    /\ \A c \in inUse : \E t \in Threads : Holds(t, c)
    /\ created = Cardinality(Mine)
    /\ created <= MaxConnections

\* Once re_auth_callback has run to its end, every open connection of the pool
\* is authenticated with the new token, or will be when it is released, because
\* the token waits in the connection.
RenewalReaches ==
  renewed /\ poolPid = pid =>
    \A c \in Mine : sock[c] \in {"ready", "data"} =>
      auth[c] = token \/ reAuth[c] = token

\* The pool keeps the contract of a pool, in every process: get_connection
\* gives out a connection of this process that nobody holds, or makes one while
\* there are fewer than max_connections, and only release() takes one back.
Contract == INSTANCE PoolContract WITH Limit <- MaxConnections, Bounded <- Nat
ImplementsPoolContract == Contract!Spec

\* No thread stays in a critical section of _lock forever.
LockIsReleased ==
  \A t \in Threads : lock = t ~> lock # t

\* __init__ says that after a fork the first thread to acquire _fork_lock "will
\* reset the data structures and lock object of this pool".
LockObjectReset ==
  poolPid = pid => lock # Orphan
=============================================================================
