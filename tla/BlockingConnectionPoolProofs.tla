-------------------- MODULE BlockingConnectionPoolProofs --------------------
(***************************************************************************)
(* What BlockingConnectionPool guarantees for any number of threads,       *)
(* connections and forks and any max_connections: exclusive use, a child   *)
(* that works on its own connections, and an exact account of the slots.   *)
(*                                                                         *)
(* The pool has no mutex around its queue, so the invariant has to say     *)
(* what each thread still owes the queue while it is on its way.           *)
(***************************************************************************)
EXTENDS BlockingConnectionPool, FiniteSetTheorems, SequenceTheorems, TLAPS

(***************************************************************************)
(* The inductive invariant.                                                *)
(***************************************************************************)
BeforeTake == {"checkpid", "forkwait", "recheck", "reset", "resetpid", "body"}

\* A queue holds each connection once; placeholders may repeat.
Distinct(s) == \A i, j \in 1..Len(s) : i # j /\ s[i] # None => s[i] # s[j]

\* _fork_lock protects the reset.
ForkMutex ==
  \A t \in Threads : pc[t] \in {"recheck", "reset", "resetpid"} => forkLock = t

\* Who is past _checkpid is in a pool of this process; while a thread resets
\* the pool nobody is, and the new queue stays full until the pid is set.
Passed ==
  /\ poolPid <= pid
  /\ \A t \in Threads : pc[t] \in {"reset", "resetpid"} => poolPid # pid
  /\ \A t \in Threads : pc[t] \in {"body", "make", "connect"} => poolPid = pid
  /\ \A t \in Threads :
       pc[t] = "resetpid" => queue = FullQueue /\ connections = {}

\* No connection comes from the future; a pool that has not been reset has none
\* of this process, and one that has lists all of them.
Births ==
  /\ \A c \in Conns : connPid[c] <= pid
  /\ poolPid # pid => \A c \in Conns : connPid[c] # pid
  /\ poolPid = pid => Mine \subseteq connections

\* Who holds what: nobody asks for a slot who has a connection or creates one,
\* nobody releases nothing, who connects holds a connection of this process;
\* what is held was made, and is held once.
AsksWithNone ==
  \A t \in Threads :
    (op[t] = "get" /\ pc[t] \in BeforeTake) \/ pc[t] = "make" => held[t] = None
ReleasesSome ==
  \A t \in Threads : op[t] = "release" /\ pc[t] \in BeforeTake => held[t] # None
WorksOnMine ==
  \A t \in Threads :
    pc[t] = "connect" => held[t] # None /\ connPid[held[t]] = pid
HeldIsMade ==
  \A t \in Threads : held[t] # None => connPid[held[t]] # NoPid
HeldOnce ==
  \A t, u \in Threads : t # u /\ held[t] # None => held[t] # held[u]

Holding == AsksWithNone /\ ReleasesSome /\ WorksOnMine /\ HeldIsMade /\ HeldOnce

\* The queue of a pool of this process.
Queued ==
  poolPid = pid =>
    /\ Distinct(queue)
    /\ Elems(queue) \subseteq Mine \cup {None}
    /\ \A t \in Threads : held[t] # None => held[t] \notin Elems(queue)

IInv ==
  TypeOK /\ ForkMutex /\ Passed /\ Births /\ Holding /\ Queued /\ NoSlotLost /\ PoolSize
-----------------------------------------------------------------------------
(***************************************************************************)
(* The queue operators.                                                    *)
(***************************************************************************)
Slots == Conns \cup {None}

\* get() takes the newest slot and leaves the others.
LEMMA PopLemma ==
  ASSUME NEW s \in Seq(Slots), s # <<>>
  PROVE  /\ Top(s) \in Elems(s)
         /\ Top(s) \in Slots
         /\ Pop(s) \in Seq(Slots)
         /\ Len(Pop(s)) = Len(s) - 1
         /\ Elems(s) = Elems(Pop(s)) \cup {Top(s)}
         /\ Distinct(s) => /\ Distinct(Pop(s))
                           /\ Top(s) # None => Top(s) \notin Elems(Pop(s))
<1>1. Len(s) \in Nat \ {0}
  OBVIOUS
<1>2. /\ Pop(s) \in Seq(Slots)
      /\ Len(Pop(s)) = Len(s) - 1
      /\ \A i \in 1..(Len(s) - 1) : Pop(s)[i] = s[i]
  <2>1. \A i \in 1..(Len(s) - 1) : s[i] \in Slots
    BY <1>1
  <2>2. /\ Pop(s) \in Seq(Slots)
        /\ Len(Pop(s)) = IF 1 <= Len(s) - 1 THEN (Len(s) - 1) - 1 + 1 ELSE 0
        /\ \A i \in 1..((Len(s) - 1) - 1 + 1) : Pop(s)[i] = s[1 + i - 1]
    BY <1>1, <2>1, SubSeqProperties DEF Pop
  <2>3. Len(Pop(s)) = Len(s) - 1
    <3>1. \A n \in Nat \ {0} : (IF 1 <= n - 1 THEN (n - 1) - 1 + 1 ELSE 0) = n - 1
      OBVIOUS
    <3> QED
      BY ONLY <1>1, <2>2, <3>1, Zenon
  <2>4. ASSUME NEW i \in 1..(Len(s) - 1) PROVE Pop(s)[i] = s[i]
    <3>1. i \in 1..((Len(s) - 1) - 1 + 1) /\ 1 + i - 1 = i
      BY <1>1
    <3> QED
      BY <2>2, <3>1
  <2> QED
    BY <2>2, <2>3, <2>4
<1>3. \A i \in 1..(Len(s) - 1) : Pop(s)[i] = s[i]
  BY <1>2
<1>4. Elems(Pop(s)) = {s[i] : i \in 1..(Len(s) - 1)}
  BY <1>2, <1>3 DEF Elems
<1>5. 1..Len(s) = (1..(Len(s) - 1)) \cup {Len(s)}
  BY <1>1
<1>6. Top(s) \in Slots /\ Top(s) \in Elems(s)
  BY <1>1 DEF Top, Elems
<1>7. Elems(s) = Elems(Pop(s)) \cup {Top(s)}
  BY <1>4, <1>5 DEF Top, Elems
<1>8. ASSUME Distinct(s)
      PROVE  Distinct(Pop(s)) /\ (Top(s) # None => Top(s) \notin Elems(Pop(s)))
  <2>1. Distinct(Pop(s))
    BY <1>1, <1>2, <1>3, <1>8 DEF Distinct
  <2>2. Top(s) # None => Top(s) \notin {s[i] : i \in 1..(Len(s) - 1)}
    BY <1>1, <1>8 DEF Distinct, Top
  <2> QED
    BY <2>1, <2>2, <1>4
<1> QED
  BY <1>2, <1>6, <1>7, <1>8

\* put_nowait() adds one slot.
LEMMA AppendLemma ==
  ASSUME NEW s \in Seq(Slots), NEW c \in Slots
  PROVE  /\ Append(s, c) \in Seq(Slots)
         /\ Len(Append(s, c)) = Len(s) + 1
         /\ Elems(Append(s, c)) = Elems(s) \cup {c}
         /\ Distinct(s) /\ (c = None \/ c \notin Elems(s)) => Distinct(Append(s, c))
<1>1. Append(s, c) \in Seq(Slots) /\ Len(Append(s, c)) = Len(s) + 1
  OBVIOUS
<1>2. \A i \in 1..(Len(s) + 1) :
        Append(s, c)[i] = IF i = Len(s) + 1 THEN c ELSE s[i]
  OBVIOUS
<1>3. 1..(Len(s) + 1) = (1..Len(s)) \cup {Len(s) + 1} /\ Len(s) + 1 \notin 1..Len(s)
  OBVIOUS
<1>4. Elems(Append(s, c)) = Elems(s) \cup {c}
  BY <1>1, <1>2, <1>3 DEF Elems
<1>5. ASSUME Distinct(s), c = None \/ c \notin Elems(s) PROVE Distinct(Append(s, c))
  <2>1. \A i \in 1..Len(s) : s[i] = c => c = None
    BY <1>5 DEF Elems
  <2> SUFFICES ASSUME NEW i \in 1..(Len(s) + 1), NEW j \in 1..(Len(s) + 1), i # j,
                      Append(s, c)[i] # None
               PROVE  Append(s, c)[i] # Append(s, c)[j]
    BY <1>1 DEF Distinct
  <2>2. CASE i \in 1..Len(s) /\ j \in 1..Len(s)
    BY <1>2, <1>3, <1>5, <2>2 DEF Distinct
  <2>3. CASE i = Len(s) + 1 \/ j = Len(s) + 1
    BY <1>2, <1>3, <2>1, <2>3
  <2> QED
    BY <1>3, <2>2, <2>3
<1> QED
  BY <1>1, <1>4, <1>5

\* reset() fills the new queue with placeholders.
LEMMA FullQueueLemma ==
  /\ FullQueue \in Seq(Slots)
  /\ Len(FullQueue) = MaxConnections
  /\ Elems(FullQueue) \subseteq {None}
  /\ Distinct(FullQueue)
<1>1. FullQueue \in Seq(Slots) /\ Len(FullQueue) = MaxConnections
  BY BlockingPoolAssumption DEF FullQueue, Slots
<1>2. \A i \in 1..MaxConnections : FullQueue[i] = None
  BY DEF FullQueue
<1> QED
  BY <1>1, <1>2 DEF Elems, Distinct
-----------------------------------------------------------------------------
(***************************************************************************)
(* Each part is preserved by every step.                                   *)
(***************************************************************************)
\* The variables of the pool and of its threads keep their types.
LEMMA TypeStep == TypeOK /\ Holding /\ [Next]_vars => TypeOK'
<1> SUFFICES ASSUME TypeOK, Holding, [Next]_vars PROVE TypeOK'
  OBVIOUS
<1> USE DEF TypeOK, Labels, Ops, Goto, Leave, poolVars, connVars, threadVars
<1>1. ASSUME NEW t \in Threads, Call(t) PROVE TypeOK'
  BY <1>1 DEF Call
<1>2. ASSUME NEW t \in Threads, CheckPid(t) PROVE TypeOK'
  BY <1>2 DEF CheckPid
<1>3. ASSUME NEW t \in Threads, AcquireForkLock(t) PROVE TypeOK'
  BY <1>3 DEF AcquireForkLock
<1>4. ASSUME NEW t \in Threads, ForkLockTimeout(t) PROVE TypeOK'
  BY <1>4 DEF ForkLockTimeout
<1>5. ASSUME NEW t \in Threads, RecheckPid(t) PROVE TypeOK'
  BY <1>5 DEF RecheckPid
<1>6. ASSUME NEW t \in Threads, ResetQueue(t) PROVE TypeOK'
  BY <1>6, FullQueueLemma DEF ResetQueue, Slots
<1>7. ASSUME NEW t \in Threads, ResetPid(t) PROVE TypeOK'
  BY <1>7 DEF ResetPid
<1>8. ASSUME NEW t \in Threads, GetSlot(t) PROVE TypeOK'
  <2>1. Top(queue) \in Slots /\ Pop(queue) \in Seq(Slots)
    BY <1>8, PopLemma DEF GetSlot, Slots
  <2> QED
    BY <1>8, <2>1 DEF GetSlot, In, Slots
<1>9. ASSUME NEW t \in Threads, GetTimeout(t) PROVE TypeOK'
  BY <1>9 DEF GetTimeout, In
<1>10. ASSUME NEW t \in Threads, MakeConnection(t) PROVE TypeOK'
  BY <1>10 DEF MakeConnection
<1>11. ASSUME NEW t \in Threads, Connected(t) PROVE TypeOK'
  <2>1. held[t] \in Conns
    BY <1>11 DEF Connected, Holding, WorksOnMine
  <2> QED
    BY <1>11, <2>1 DEF Connected
<1>12. ASSUME NEW t \in Threads, ConnectFails(t) PROVE TypeOK'
  <2>1. held[t] \in Conns
    BY <1>12 DEF ConnectFails, Holding, WorksOnMine
  <2> QED
    BY <1>12, <2>1 DEF ConnectFails
<1>13. ASSUME NEW t \in Threads, ReleaseForeign(t) PROVE TypeOK'
  <2>1. queue' \in Seq(Slots)
    BY <1>13, AppendLemma DEF ReleaseForeign, Slots
  <2>2. fullRaised' \in BOOLEAN
    BY <1>13 DEF ReleaseForeign
  <2> QED
    BY <1>13, <2>1, <2>2 DEF ReleaseForeign, In, GivesUp, Slots
<1>14. ASSUME NEW t \in Threads, ReleaseOwn(t) PROVE TypeOK'
  <2>1. queue' \in Seq(Slots)
    BY <1>14, AppendLemma DEF ReleaseOwn, Slots
  <2> QED
    BY <1>14, <2>1 DEF ReleaseOwn, In, GivesUp, Slots
<1>15. ASSUME NEW t \in Threads, Disconnect(t) PROVE TypeOK'
  BY <1>15 DEF Disconnect, In
<1>16. ASSUME NEW t \in Threads, UseConnection(t) PROVE TypeOK'
  BY <1>16 DEF UseConnection
<1>17. ASSUME NEW t \in Threads, Fork(t) PROVE TypeOK'
  BY <1>17 DEF Fork
<1>18. CASE UNCHANGED vars
  BY <1>18 DEF vars
<1> QED
  BY <1>1, <1>2, <1>3, <1>4, <1>5, <1>6, <1>7, <1>8, <1>9, <1>10, <1>11, <1>12,
     <1>13, <1>14, <1>15, <1>16, <1>17, <1>18 DEF Next, Step

\* One thread at a time resets the pool.
LEMMA ForkMutexStep == TypeOK /\ ForkMutex /\ [Next]_vars => ForkMutex'
<1> SUFFICES ASSUME TypeOK, ForkMutex, [Next]_vars PROVE ForkMutex'
  OBVIOUS
<1> USE BlockingPoolAssumption DEF TypeOK, ForkMutex,
        Goto, Leave, poolVars, connVars, threadVars
<1>1. ASSUME NEW t \in Threads, Call(t) PROVE ForkMutex'
  BY <1>1 DEF Call
<1>2. ASSUME NEW t \in Threads, CheckPid(t) PROVE ForkMutex'
  BY <1>2 DEF CheckPid
<1>3. ASSUME NEW t \in Threads, AcquireForkLock(t) PROVE ForkMutex'
  BY <1>3 DEF AcquireForkLock
<1>4. ASSUME NEW t \in Threads, ForkLockTimeout(t) PROVE ForkMutex'
  BY <1>4 DEF ForkLockTimeout
<1>5. ASSUME NEW t \in Threads, RecheckPid(t) PROVE ForkMutex'
  BY <1>5 DEF RecheckPid
<1>6. ASSUME NEW t \in Threads, ResetQueue(t) PROVE ForkMutex'
  BY <1>6 DEF ResetQueue
<1>7. ASSUME NEW t \in Threads, ResetPid(t) PROVE ForkMutex'
  BY <1>7 DEF ResetPid
<1>8. ASSUME NEW t \in Threads, GetSlot(t) PROVE ForkMutex'
  BY <1>8 DEF GetSlot, In
<1>9. ASSUME NEW t \in Threads, GetTimeout(t) PROVE ForkMutex'
  BY <1>9 DEF GetTimeout, In
<1>10. ASSUME NEW t \in Threads, MakeConnection(t) PROVE ForkMutex'
  BY <1>10 DEF MakeConnection
<1>11. ASSUME NEW t \in Threads, Connected(t) PROVE ForkMutex'
  BY <1>11 DEF Connected
<1>12. ASSUME NEW t \in Threads, ConnectFails(t) PROVE ForkMutex'
  BY <1>12 DEF ConnectFails
<1>13. ASSUME NEW t \in Threads, ReleaseForeign(t) PROVE ForkMutex'
  BY <1>13 DEF ReleaseForeign, In, GivesUp
<1>14. ASSUME NEW t \in Threads, ReleaseOwn(t) PROVE ForkMutex'
  BY <1>14 DEF ReleaseOwn, In, GivesUp
<1>15. ASSUME NEW t \in Threads, Disconnect(t) PROVE ForkMutex'
  BY <1>15 DEF Disconnect, In
<1>16. ASSUME NEW t \in Threads, UseConnection(t) PROVE ForkMutex'
  BY <1>16 DEF UseConnection
<1>17. ASSUME NEW t \in Threads, Fork(t) PROVE ForkMutex'
  BY <1>17 DEF Fork
<1>18. CASE UNCHANGED vars
  BY <1>18 DEF vars
<1> QED
  BY <1>1, <1>2, <1>3, <1>4, <1>5, <1>6, <1>7, <1>8, <1>9, <1>10, <1>11, <1>12,
     <1>13, <1>14, <1>15, <1>16, <1>17, <1>18 DEF Next, Step

\* Only _checkpid lets a thread into the pool.
LEMMA PassedStep == TypeOK /\ ForkMutex /\ Passed /\ [Next]_vars => Passed'
<1> SUFFICES ASSUME TypeOK, ForkMutex, Passed, [Next]_vars PROVE Passed'
  OBVIOUS
<1> USE DEF TypeOK, ForkMutex, Passed, Goto, Leave, poolVars, connVars, threadVars
<1>1. ASSUME NEW t \in Threads, Call(t) PROVE Passed'
  BY <1>1 DEF Call
<1>2. ASSUME NEW t \in Threads, CheckPid(t) PROVE Passed'
  BY <1>2 DEF CheckPid
<1>3. ASSUME NEW t \in Threads, AcquireForkLock(t) PROVE Passed'
  BY <1>3 DEF AcquireForkLock
<1>4. ASSUME NEW t \in Threads, ForkLockTimeout(t) PROVE Passed'
  BY <1>4 DEF ForkLockTimeout
<1>5. ASSUME NEW t \in Threads, RecheckPid(t) PROVE Passed'
  BY <1>5 DEF RecheckPid
<1>6. ASSUME NEW t \in Threads, ResetQueue(t) PROVE Passed'
  BY <1>6 DEF ResetQueue
<1>7. ASSUME NEW t \in Threads, ResetPid(t) PROVE Passed'
  BY <1>7 DEF ResetPid
<1>8. ASSUME NEW t \in Threads, GetSlot(t) PROVE Passed'
  BY <1>8 DEF GetSlot, In
<1>9. ASSUME NEW t \in Threads, GetTimeout(t) PROVE Passed'
  BY <1>9 DEF GetTimeout, In
<1>10. ASSUME NEW t \in Threads, MakeConnection(t) PROVE Passed'
  BY <1>10 DEF MakeConnection
<1>11. ASSUME NEW t \in Threads, Connected(t) PROVE Passed'
  BY <1>11 DEF Connected
<1>12. ASSUME NEW t \in Threads, ConnectFails(t) PROVE Passed'
  BY <1>12 DEF ConnectFails
<1>13. ASSUME NEW t \in Threads, ReleaseForeign(t) PROVE Passed'
  BY <1>13 DEF ReleaseForeign, In, GivesUp
<1>14. ASSUME NEW t \in Threads, ReleaseOwn(t) PROVE Passed'
  BY <1>14 DEF ReleaseOwn, In, GivesUp
<1>15. ASSUME NEW t \in Threads, Disconnect(t) PROVE Passed'
  BY <1>15 DEF Disconnect, In
<1>16. ASSUME NEW t \in Threads, UseConnection(t) PROVE Passed'
  BY <1>16 DEF UseConnection
<1>17. ASSUME NEW t \in Threads, Fork(t) PROVE Passed'
  BY <1>17 DEF Fork
<1>18. CASE UNCHANGED vars
  BY <1>18 DEF vars
<1> QED
  BY <1>1, <1>2, <1>3, <1>4, <1>5, <1>6, <1>7, <1>8, <1>9, <1>10, <1>11, <1>12,
     <1>13, <1>14, <1>15, <1>16, <1>17, <1>18 DEF Next, Step

\* Connections are made only in a pool that has been reset for this process,
\* and are listed there.
LEMMA BirthsStep == TypeOK /\ Passed /\ Births /\ [Next]_vars => Births'
<1> SUFFICES ASSUME TypeOK, Passed, Births, [Next]_vars PROVE Births'
  OBVIOUS
<1> USE DEF TypeOK, Passed, Births, Mine, Goto, Leave, poolVars, connVars, threadVars
<1>1. ASSUME NEW t \in Threads, Call(t) PROVE Births'
  BY <1>1 DEF Call
<1>2. ASSUME NEW t \in Threads, CheckPid(t) PROVE Births'
  BY <1>2 DEF CheckPid
<1>3. ASSUME NEW t \in Threads, AcquireForkLock(t) PROVE Births'
  BY <1>3 DEF AcquireForkLock
<1>4. ASSUME NEW t \in Threads, ForkLockTimeout(t) PROVE Births'
  BY <1>4 DEF ForkLockTimeout
<1>5. ASSUME NEW t \in Threads, RecheckPid(t) PROVE Births'
  BY <1>5 DEF RecheckPid
<1>6. ASSUME NEW t \in Threads, ResetQueue(t) PROVE Births'
  BY <1>6 DEF ResetQueue
<1>7. ASSUME NEW t \in Threads, ResetPid(t) PROVE Births'
  BY <1>7 DEF ResetPid
<1>8. ASSUME NEW t \in Threads, GetSlot(t) PROVE Births'
  BY <1>8 DEF GetSlot, In
<1>9. ASSUME NEW t \in Threads, GetTimeout(t) PROVE Births'
  BY <1>9 DEF GetTimeout, In
<1>10. ASSUME NEW t \in Threads, MakeConnection(t) PROVE Births'
  BY <1>10 DEF MakeConnection
<1>11. ASSUME NEW t \in Threads, Connected(t) PROVE Births'
  BY <1>11 DEF Connected
<1>12. ASSUME NEW t \in Threads, ConnectFails(t) PROVE Births'
  BY <1>12 DEF ConnectFails
<1>13. ASSUME NEW t \in Threads, ReleaseForeign(t) PROVE Births'
  BY <1>13 DEF ReleaseForeign, In, GivesUp
<1>14. ASSUME NEW t \in Threads, ReleaseOwn(t) PROVE Births'
  BY <1>14 DEF ReleaseOwn, In, GivesUp
<1>15. ASSUME NEW t \in Threads, Disconnect(t) PROVE Births'
  BY <1>15 DEF Disconnect, In
<1>16. ASSUME NEW t \in Threads, UseConnection(t) PROVE Births'
  BY <1>16 DEF UseConnection
<1>17. ASSUME NEW t \in Threads, Fork(t) PROVE Births'
  <2>1. \A c \in Conns : connPid[c] \in Int /\ connPid[c] <= pid
    BY DEF NoPid
  <2>2. connPid' = connPid /\ poolPid' = poolPid /\ pid' = pid + 1
    BY <1>17 DEF Fork
  <2> QED
    BY <2>1, <2>2
<1>18. CASE UNCHANGED vars
  BY <1>18 DEF vars
<1> QED
  BY <1>1, <1>2, <1>3, <1>4, <1>5, <1>6, <1>7, <1>8, <1>9, <1>10, <1>11, <1>12,
     <1>13, <1>14, <1>15, <1>16, <1>17, <1>18 DEF Next, Step

\* No two threads hold one connection, nobody takes a second one, and who
\* connects holds one that this process made.
LEMMA HoldingStep ==
  TypeOK /\ Passed /\ Births /\ Holding /\ Queued /\ [Next]_vars => Holding'
<1> SUFFICES ASSUME TypeOK, Passed, Births, Holding, Queued, [Next]_vars PROVE Holding'
  OBVIOUS
<1> USE BlockingPoolAssumption DEF TypeOK, Passed, Births, Holding, AsksWithNone,
        ReleasesSome, WorksOnMine, HeldIsMade, HeldOnce, BeforeTake,
        Goto, Leave, poolVars, connVars, threadVars
<1>1. ASSUME NEW t \in Threads, Call(t) PROVE Holding'
  BY <1>1 DEF Call
<1>2. ASSUME NEW t \in Threads, CheckPid(t) PROVE Holding'
  BY <1>2 DEF CheckPid
<1>3. ASSUME NEW t \in Threads, AcquireForkLock(t) PROVE Holding'
  BY <1>3 DEF AcquireForkLock
<1>4. ASSUME NEW t \in Threads, ForkLockTimeout(t) PROVE Holding'
  BY <1>4 DEF ForkLockTimeout
<1>5. ASSUME NEW t \in Threads, RecheckPid(t) PROVE Holding'
  BY <1>5 DEF RecheckPid
<1>6. ASSUME NEW t \in Threads, ResetQueue(t) PROVE Holding'
  BY <1>6 DEF ResetQueue
<1>7. ASSUME NEW t \in Threads, ResetPid(t) PROVE Holding'
  BY <1>7 DEF ResetPid
<1>8. ASSUME NEW t \in Threads, GetSlot(t) PROVE Holding'
  <2> DEFINE c == Top(queue)
  <2>1. /\ UNCHANGED <<pid, connPid, op>>
        /\ held' = [held EXCEPT ![t] = c]
        /\ pc' = [pc EXCEPT ![t] = IF c = None THEN "make" ELSE "connect"]
        /\ pc[t] = "body" /\ op[t] = "get" /\ poolPid = pid
    BY <1>8 DEF GetSlot, In
  <2>2. c \in Slots /\ c \in Elems(queue)
    BY <1>8, PopLemma DEF GetSlot, Slots
  <2>3. c # None => c \in Conns /\ connPid[c] = pid /\ \A u \in Threads : held[u] # c
    BY <2>1, <2>2 DEF Queued, Mine, Slots
  <2> HIDE DEF c
  <2>4. AsksWithNone' /\ ReleasesSome' /\ WorksOnMine'
    BY <2>1, <2>3
  <2>5. HeldIsMade'
    BY <2>1, <2>3 DEF NoPid
  <2>6. HeldOnce'
    BY <2>1, <2>3
  <2> QED
    BY <2>4, <2>5, <2>6
<1>9. ASSUME NEW t \in Threads, GetTimeout(t) PROVE Holding'
  BY <1>9 DEF GetTimeout, In
<1>10. ASSUME NEW t \in Threads, MakeConnection(t) PROVE Holding'
  <2>1. PICK c \in Conns : /\ connPid[c] = NoPid
                           /\ connPid' = [connPid EXCEPT ![c] = pid]
                           /\ held' = [held EXCEPT ![t] = c]
    BY <1>10 DEF MakeConnection
  <2>2. /\ UNCHANGED <<pid, op>>
        /\ pc' = [pc EXCEPT ![t] = "connect"]
        /\ pc[t] = "make"
    BY <1>10 DEF MakeConnection
  <2>3. c # None /\ connPid'[c] = pid /\ pid # NoPid
    BY <2>1 DEF NoPid
  <2>4. \A u \in Threads : held[u] # c
    BY <2>1, <2>3
  <2>5. AsksWithNone' /\ ReleasesSome' /\ WorksOnMine'
    BY <2>1, <2>2, <2>3, <2>4
  <2>6. HeldIsMade'
    BY <2>1, <2>2, <2>3, <2>4
  <2>7. HeldOnce'
    BY <2>1, <2>2, <2>4
  <2> QED
    BY <2>5, <2>6, <2>7
<1>11. ASSUME NEW t \in Threads, Connected(t) PROVE Holding'
  BY <1>11 DEF Connected
<1>12. ASSUME NEW t \in Threads, ConnectFails(t) PROVE Holding'
  BY <1>12 DEF ConnectFails
<1>13. ASSUME NEW t \in Threads, ReleaseForeign(t) PROVE Holding'
  BY <1>13 DEF ReleaseForeign, In, GivesUp
<1>14. ASSUME NEW t \in Threads, ReleaseOwn(t) PROVE Holding'
  BY <1>14 DEF ReleaseOwn, In, GivesUp
<1>15. ASSUME NEW t \in Threads, Disconnect(t) PROVE Holding'
  BY <1>15 DEF Disconnect, In
<1>16. ASSUME NEW t \in Threads, UseConnection(t) PROVE Holding'
  BY <1>16 DEF UseConnection
<1>17. ASSUME NEW t \in Threads, Fork(t) PROVE Holding'
  BY <1>17 DEF Fork
<1>18. CASE UNCHANGED vars
  BY <1>18 DEF vars
<1> QED
  BY <1>1, <1>2, <1>3, <1>4, <1>5, <1>6, <1>7, <1>8, <1>9, <1>10, <1>11, <1>12,
     <1>13, <1>14, <1>15, <1>16, <1>17, <1>18 DEF Next, Step

(***************************************************************************)
(* Most steps leave alone what the last parts are about.                   *)
(***************************************************************************)
Quiet ==
  /\ UNCHANGED <<pid, poolPid, queue, connPid, held, fullRaised>>
  /\ \A t \in Threads : pc'[t] = "make" <=> pc[t] = "make"
Moves(t) ==
  \/ ResetQueue(t) \/ ResetPid(t) \/ GetSlot(t) \/ MakeConnection(t)
  \/ ReleaseForeign(t) \/ ReleaseOwn(t) \/ Fork(t)

\* A step touches the queue, the connections made or what threads hold only in
\* reset, get_connection, release and fork.
LEMMA QuietStep ==
  ASSUME TypeOK, [Next]_vars
  PROVE  Quiet \/ \E t \in Threads : Moves(t)
<1> USE DEF TypeOK, Quiet, Goto, Leave, poolVars, connVars, threadVars
<1>1. ASSUME NEW t \in Threads, Call(t) PROVE Quiet
  BY <1>1 DEF Call
<1>2. ASSUME NEW t \in Threads, CheckPid(t) PROVE Quiet
  BY <1>2 DEF CheckPid
<1>3. ASSUME NEW t \in Threads, AcquireForkLock(t) PROVE Quiet
  BY <1>3 DEF AcquireForkLock
<1>4. ASSUME NEW t \in Threads, ForkLockTimeout(t) PROVE Quiet
  BY <1>4 DEF ForkLockTimeout
<1>5. ASSUME NEW t \in Threads, RecheckPid(t) PROVE Quiet
  BY <1>5 DEF RecheckPid
<1>6. ASSUME NEW t \in Threads, GetTimeout(t) PROVE Quiet
  BY <1>6 DEF GetTimeout, In
<1>7. ASSUME NEW t \in Threads, Connected(t) PROVE Quiet
  BY <1>7 DEF Connected
<1>8. ASSUME NEW t \in Threads, ConnectFails(t) PROVE Quiet
  BY <1>8 DEF ConnectFails
<1>9. ASSUME NEW t \in Threads, Disconnect(t) PROVE Quiet
  BY <1>9 DEF Disconnect, In
<1>10. ASSUME NEW t \in Threads, UseConnection(t) PROVE Quiet
  BY <1>10 DEF UseConnection
<1>11. CASE UNCHANGED vars
  BY <1>11 DEF vars
<1> HIDE DEF Quiet
<1> QED
  BY <1>1, <1>2, <1>3, <1>4, <1>5, <1>6, <1>7, <1>8, <1>9, <1>10, <1>11
  DEF Next, Step, Moves

\* A connection is in the queue once or in the hands of one thread, never both.
LEMMA QueuedStep == IInv /\ [Next]_vars => Queued'
<1> SUFFICES ASSUME IInv, [Next]_vars PROVE Queued'
  OBVIOUS
<1> USE DEF IInv, TypeOK
<1>0. queue \in Seq(Slots)
  BY DEF Slots
<1>1. CASE Quiet
  BY <1>1 DEF Quiet, Queued, Mine, Distinct, Elems
<1>2. ASSUME NEW t \in Threads, ResetQueue(t) PROVE Queued'
  BY <1>2 DEF ResetQueue, Passed, Queued
<1>3. ASSUME NEW t \in Threads, ResetPid(t) PROVE Queued'
  <2>1. UNCHANGED <<queue, held>> /\ queue = FullQueue
    BY <1>3 DEF ResetPid, Passed
  <2>2. queue' = FullQueue /\ held' \in [Threads -> Slots]
    BY <2>1 DEF Slots
  <2> QED
    BY <2>2, FullQueueLemma DEF Queued
<1>4. ASSUME NEW t \in Threads, GetSlot(t) PROVE Queued'
  <2> DEFINE c == Top(queue)
  <2>1. /\ UNCHANGED <<pid, poolPid, connPid>>
        /\ poolPid = pid
        /\ queue' = Pop(queue)
        /\ held' = [held EXCEPT ![t] = c]
    BY <1>4 DEF GetSlot, In, Passed, connVars
  <2>2. /\ Elems(queue) = Elems(Pop(queue)) \cup {c}
        /\ Distinct(Pop(queue))
        /\ c # None => c \notin Elems(Pop(queue))
    BY <1>0, <1>4, <2>1, PopLemma DEF GetSlot, Queued
  <2> HIDE DEF c
  <2>3. Elems(queue)' \subseteq Mine' \cup {None}
    BY <2>1, <2>2 DEF Queued, Mine
  <2>4. \A u \in Threads : held'[u] # None => held'[u] \notin Elems(queue)'
    BY <2>1, <2>2 DEF Queued
  <2> QED
    BY <2>1, <2>2, <2>3, <2>4 DEF Queued
<1>5. ASSUME NEW t \in Threads, MakeConnection(t) PROVE Queued'
  <2>1. PICK c \in Conns : /\ connPid[c] = NoPid
                           /\ connPid' = [connPid EXCEPT ![c] = pid]
                           /\ held' = [held EXCEPT ![t] = c]
    BY <1>5 DEF MakeConnection
  <2>2. UNCHANGED <<pid, poolPid, queue>> /\ poolPid = pid
    BY <1>5 DEF MakeConnection, Passed
  <2>3. c \notin Elems(queue)
    BY <2>1, <2>2, BlockingPoolAssumption DEF Queued, Mine, NoPid
  <2>4. Mine \subseteq Mine'
    BY <2>1, <2>2 DEF Mine
  <2> QED
    BY <2>1, <2>2, <2>3, <2>4 DEF Queued
<1>6. ASSUME NEW t \in Threads, ReleaseForeign(t) PROVE Queued'
  <2>1. /\ UNCHANGED <<pid, poolPid, connPid>>
        /\ held' = [held EXCEPT ![t] = None]
        /\ queue' \in {queue, Append(queue, None)}
    BY <1>6 DEF ReleaseForeign, GivesUp
  <2>2. /\ Elems(queue)' \subseteq Elems(queue) \cup {None}
        /\ Distinct(queue) => Distinct(queue')
    BY <1>0, <2>1, AppendLemma DEF Slots
  <2>3. Mine' = Mine
    BY <2>1 DEF Mine
  <2> QED
    BY <2>1, <2>2, <2>3, BlockingPoolAssumption DEF Queued
<1>7. ASSUME NEW t \in Threads, ReleaseOwn(t) PROVE Queued'
  <2> DEFINE c == held[t]
  <2>1. /\ UNCHANGED <<pid, poolPid, connPid>>
        /\ poolPid = pid
        /\ c # None /\ connPid[c] = pid
        /\ held' = [held EXCEPT ![t] = None]
        /\ queue' \in {queue, Append(queue, c)}
    BY <1>7 DEF ReleaseOwn, In, GivesUp, Owns, Passed, Holding, ReleasesSome,
                BeforeTake, connVars
  <2>2. c \in Mine /\ c \notin Elems(queue)
    BY <2>1 DEF Queued, Mine
  <2>3. /\ Elems(queue)' \subseteq Elems(queue) \cup {c}
        /\ Distinct(queue')
    <3>1. queue \in Seq(Slots) /\ c \in Slots /\ Distinct(queue)
      BY <1>0, <2>1, <2>2 DEF Queued, Slots, Mine
    <3> HIDE DEF c
    <3>2. /\ Elems(Append(queue, c)) = Elems(queue) \cup {c}
          /\ Distinct(Append(queue, c))
      BY <2>2, <3>1, AppendLemma
    <3> QED
      BY <2>1, <3>1, <3>2
  <2>4. \A u \in Threads : u # t => held[u] # c
    BY <2>1 DEF Holding, HeldOnce
  <2> HIDE DEF c
  <2>5. Mine' = Mine
    BY <2>1 DEF Mine
  <2>6. \A u \in Threads : held'[u] # None => held'[u] \notin Elems(queue)'
    BY <2>1, <2>3, <2>4 DEF Queued
  <2> QED
    BY <2>1, <2>2, <2>3, <2>5, <2>6 DEF Queued
<1>8. ASSUME NEW t \in Threads, Fork(t) PROVE Queued'
  BY <1>8 DEF Fork, Passed, Queued, poolVars
<1> QED
  BY <1>1, <1>2, <1>3, <1>4, <1>5, <1>6, <1>7, <1>8, QuietStep DEF Moves

\* A slot leaves the queue into the hands of one thread and comes back; a full
\* queue may drop one.  Only a connection of another process brings a new one.
LEMMA SlotsStep == IInv /\ [Next]_vars => NoSlotLost' /\ PoolSize'
<1> SUFFICES ASSUME IInv, [Next]_vars PROVE NoSlotLost' /\ PoolSize'
  OBVIOUS
<1> USE DEF IInv, TypeOK
<1>0. /\ queue \in Seq(Slots) /\ Len(queue) \in Nat
      /\ MaxConnections \in Nat
      /\ pid = 0 => poolPid = pid
  BY BlockingPoolAssumption DEF Slots, Passed
<1>c. /\ IsFiniteSet(Taken) /\ Cardinality(Taken) \in Nat
      /\ \A t \in Threads : t \notin Taken =>
           Cardinality(Taken \cup {t}) = Cardinality(Taken) + 1
      /\ \A t \in Taken : Cardinality(Taken \ {t}) = Cardinality(Taken) - 1
  <2>1. IsFiniteSet(Taken)
    BY BlockingPoolAssumption, FS_Subset DEF Taken
  <2> QED
    BY <2>1, FS_CardinalityType, FS_AddElement, FS_RemoveElement
<1>1. CASE Quiet
  <2>1. Taken' = Taken
    BY <1>1 DEF Quiet, Taken, Mine
  <2> QED
    BY <1>1, <2>1 DEF Quiet, NoSlotLost, PoolSize
<1>2. ASSUME NEW t \in Threads, ResetQueue(t) PROVE NoSlotLost' /\ PoolSize'
  <2>1. UNCHANGED <<pid, poolPid>> /\ poolPid # pid
    BY <1>2 DEF ResetQueue, Passed
  <2> QED
    BY <1>0, <2>1 DEF NoSlotLost, PoolSize
<1>3. ASSUME NEW t \in Threads, ResetPid(t) PROVE NoSlotLost' /\ PoolSize'
  <2>1. /\ UNCHANGED <<pid, queue, connPid, held>>
        /\ poolPid # pid /\ queue = FullQueue
        /\ pc' = [pc EXCEPT ![t] = "body"]
    BY <1>3 DEF ResetPid, Passed, Goto, connVars
  <2>2. Taken' = {}
    BY <2>1, BlockingPoolAssumption DEF Taken, Mine, Passed, Births
  <2>3. Len(queue') = MaxConnections /\ Cardinality(Taken') = 0
    BY <2>1, <2>2, FullQueueLemma, FS_EmptySet
  <2> QED
    BY <1>0, <2>1, <2>3 DEF NoSlotLost, PoolSize
<1>4. ASSUME NEW t \in Threads, GetSlot(t) PROVE NoSlotLost' /\ PoolSize'
  <2>1. /\ UNCHANGED <<pid, poolPid, connPid>>
        /\ queue' = Pop(queue) /\ queue # <<>>
        /\ held' = [held EXCEPT ![t] = Top(queue)]
        /\ pc' = [pc EXCEPT ![t] = IF Top(queue) = None THEN "make" ELSE "connect"]
        /\ pc[t] = "body" /\ poolPid = pid /\ held[t] = None
    BY <1>4 DEF GetSlot, In, Goto, Passed, Holding, AsksWithNone, BeforeTake, connVars
  <2>2. Top(queue) \in Mine \cup {None} /\ Len(Pop(queue)) = Len(queue) - 1
    BY <1>0, <2>1, PopLemma DEF Queued
  <2>3. t \notin Taken /\ Mine' = Mine
    BY <2>1, BlockingPoolAssumption DEF Taken, Mine
  <2>4. Taken' = Taken \cup {t}
    BY <2>1, <2>2, <2>3 DEF Taken
  <2> QED
    BY <1>0, <1>c, <2>1, <2>2, <2>3, <2>4 DEF NoSlotLost, PoolSize
<1>5. ASSUME NEW t \in Threads, MakeConnection(t) PROVE NoSlotLost' /\ PoolSize'
  <2>1. PICK c \in Conns : /\ connPid[c] = NoPid
                           /\ connPid' = [connPid EXCEPT ![c] = pid]
                           /\ held' = [held EXCEPT ![t] = c]
    BY <1>5 DEF MakeConnection
  <2>2. /\ UNCHANGED <<pid, poolPid, queue>>
        /\ pc[t] = "make" /\ pc' = [pc EXCEPT ![t] = "connect"]
    BY <1>5 DEF MakeConnection, Goto
  <2>3. \A u \in Threads : held[u] # c
    BY <2>1, BlockingPoolAssumption DEF Holding, HeldIsMade
  <2>4. Mine' = Mine \cup {c}
    BY <2>1, <2>2 DEF Mine
  <2>5. Taken' = Taken
    BY <2>1, <2>2, <2>3, <2>4 DEF Taken
  <2> QED
    BY <2>2, <2>5 DEF NoSlotLost, PoolSize
<1>6. ASSUME NEW t \in Threads, ReleaseForeign(t) PROVE NoSlotLost' /\ PoolSize'
  <2>1. /\ UNCHANGED <<pid, poolPid, connPid>>
        /\ pc[t] = "body" /\ poolPid = pid
        /\ held[t] # None /\ connPid[held[t]] # pid
        /\ held' = [held EXCEPT ![t] = None]
        /\ pc' = [pc EXCEPT ![t] = "app"]
        /\ queue' \in {queue, Append(queue, None)}
    BY <1>6 DEF ReleaseForeign, In, GivesUp, Leave, Goto, Owns, Passed, Holding,
                ReleasesSome, BeforeTake
  <2>2. Taken' = Taken
    BY <2>1, BlockingPoolAssumption DEF Taken, Mine
  <2>3. Len(queue') \in {Len(queue), Len(queue) + 1}
    BY <1>0, <2>1, AppendLemma DEF Slots
  <2>4. pid # 0
    BY <2>1 DEF Births, Holding, HeldIsMade, NoPid
  <2> QED
    BY <1>0, <1>c, <2>1, <2>2, <2>3, <2>4 DEF NoSlotLost, PoolSize
<1>7. ASSUME NEW t \in Threads, ReleaseOwn(t) PROVE NoSlotLost' /\ PoolSize'
  <2>1. /\ UNCHANGED <<pid, poolPid, connPid>>
        /\ pc[t] = "body" /\ poolPid = pid
        /\ held[t] # None /\ connPid[held[t]] = pid
        /\ held' = [held EXCEPT ![t] = None]
        /\ pc' = [pc EXCEPT ![t] = "app"]
        /\ queue' = IF IsFull THEN queue ELSE Append(queue, held[t])
    BY <1>7 DEF ReleaseOwn, In, GivesUp, Leave, Goto, Owns, Passed, Holding,
                ReleasesSome, BeforeTake, connVars
  <2>2. t \in Taken /\ Mine' = Mine
    BY <2>1 DEF Taken, Mine
  <2>3. Taken' = Taken \ {t}
    BY <2>1, <2>2, BlockingPoolAssumption DEF Taken, Mine
  <2>4. \/ Len(queue) >= MaxConnections /\ Len(queue') = Len(queue)
        \/ Len(queue') = Len(queue) + 1
    BY <1>0, <2>1, AppendLemma DEF Slots, IsFull
  <2>5. Cardinality(Taken') = Cardinality(Taken) - 1 /\ Cardinality(Taken') \in Nat
    BY <1>c, <2>2, <2>3, FS_CardinalityType, FS_RemoveElement
  <2> QED
    BY <1>0, <1>c, <2>1, <2>4, <2>5 DEF NoSlotLost, PoolSize
<1>8. ASSUME NEW t \in Threads, Fork(t) PROVE NoSlotLost' /\ PoolSize'
  BY <1>8 DEF Fork, Passed, NoSlotLost, PoolSize, poolVars
<1> QED
  BY <1>1, <1>2, <1>3, <1>4, <1>5, <1>6, <1>7, <1>8, QuietStep DEF Moves
-----------------------------------------------------------------------------
\* The pool starts full, with no connection made and nothing held.
LEMMA InitIInv == Init => IInv
<1> SUFFICES ASSUME Init PROVE IInv
  OBVIOUS
<1> USE BlockingPoolAssumption DEF Init
<1>1. TypeOK
  BY FullQueueLemma DEF TypeOK, Labels, Ops, NoPid, Slots
<1>2. Mine = {} /\ Taken = {}
  BY DEF Mine, Taken, NoPid
<1>3. ForkMutex /\ Passed /\ Births /\ Holding
  BY <1>2 DEF ForkMutex, Passed, Births, NoPid, Holding, AsksWithNone, ReleasesSome,
              WorksOnMine, HeldIsMade, HeldOnce, BeforeTake
<1>4. Queued
  BY FullQueueLemma DEF Queued
<1>5. NoSlotLost /\ PoolSize
  BY <1>2, FullQueueLemma, FS_EmptySet DEF NoSlotLost, PoolSize
<1> QED
  BY <1>1, <1>3, <1>4, <1>5 DEF IInv

\* The invariant holds in every state of every behaviour.
LEMMA Inductive == Spec => []IInv
<1>1. IInv /\ [Next]_vars => IInv'
  BY TypeStep, ForkMutexStep, PassedStep, BirthsStep, HoldingStep, QueuedStep,
     SlotsStep DEF IInv
<1> QED
  BY <1>1, InitIInv, PTL DEF Spec

(***************************************************************************)
(* The queue never hands one connection to two threads, holds each one     *)
(* once, and none that a thread still holds: without a mutex, and across   *)
(* any number of forks.                                                    *)
(***************************************************************************)
THEOREM ExclusiveUse == Spec => []Exclusive
<1>1. IInv => Exclusive
  BY DEF IInv, Holding, HeldOnce, Queued, Distinct, Exclusive
<1> QED
  BY <1>1, Inductive, PTL

(***************************************************************************)
(* A pool of this process has max_connections slots at least, in the queue *)
(* or in the hands of a thread, whatever connect() or release() ran into.  *)
(***************************************************************************)
THEOREM SlotsAreKept == Spec => []NoSlotLost
<1>1. IInv => NoSlotLost
  BY DEF IInv
<1> QED
  BY <1>1, Inductive, PTL

(***************************************************************************)
(* A process that was not forked has max_connections slots at most, so     *)
(* never uses more connections.                                            *)
(***************************************************************************)
THEOREM PoolSizeKept == Spec => []PoolSize
<1>1. IInv => PoolSize
  BY DEF IInv
<1> QED
  BY <1>1, Inductive, PTL

(***************************************************************************)
(* The child's queue offers only connections the child made, and the       *)
(* child's disconnect() reaches every one of them.                         *)
(***************************************************************************)
THEOREM NoInheritedConnection == Spec => []ChildOwnsItsPool
<1>1. IInv => ChildOwnsItsPool
  BY DEF IInv, TypeOK, Queued, Births, Holding, WorksOnMine, ChildOwnsItsPool, Mine
<1> QED
  BY <1>1, Inductive, PTL

\* The variables of the pool and of its threads always have their types.
THEOREM TypeCorrect == Spec => []TypeOK
<1>1. IInv => TypeOK
  BY DEF IInv
<1> QED
  BY <1>1, Inductive, PTL
-----------------------------------------------------------------------------
(***************************************************************************)
(* A process that was not forked.  Who releases a connection holds a slot, *)
(* so the queue has room for it: release() raises nothing and drops        *)
(* nothing.                                                                *)
(***************************************************************************)
\* Every connection the process made is in the queue or in a thread's hands.
NothingDropped ==
  pid = 0 => \A c \in Mine : c \in Elems(queue) \/ \E t \in Threads : held[t] = c

NoFork == (pid = 0 => ~fullRaised) /\ NothingDropped

\* A thread that gives back a connection of this process finds room for it.
LEMMA RoomToRelease ==
  ASSUME IInv, pid = 0, NEW t \in Threads, In(t, "release")
  PROVE  held[t] \in Conns /\ Owns(held[t]) /\ ~IsFull
<1> USE DEF IInv, TypeOK
<1>1. held[t] \in Conns /\ poolPid = pid
  BY DEF In, Holding, ReleasesSome, BeforeTake, Passed
<1>2. connPid[held[t]] = 0
  BY <1>1, BlockingPoolAssumption DEF Births, Holding, HeldIsMade, NoPid
<1>3. t \in Taken
  BY <1>1, <1>2 DEF Taken, Mine
<1>4. IsFiniteSet(Taken)
  BY BlockingPoolAssumption, FS_Subset DEF Taken
<1>5. Cardinality(Taken) \in Nat /\ Cardinality(Taken) > 0
  BY <1>3, <1>4, FS_CardinalityType, FS_EmptySet
<1>6. Len(queue) + Cardinality(Taken) <= MaxConnections /\ Len(queue) \in Nat
  BY DEF PoolSize
<1> QED
  BY <1>1, <1>2, <1>5, <1>6, BlockingPoolAssumption DEF Owns, IsFull

\* The process neither raises Full nor drops a connection.
LEMMA NoForkStep == IInv /\ NoFork /\ [Next]_vars => NoFork'
<1> SUFFICES ASSUME IInv, NoFork, [Next]_vars PROVE NoFork'
  OBVIOUS
<1> USE DEF IInv, TypeOK
<1>0. queue \in Seq(Slots)
  BY DEF Slots
<1>1. CASE Quiet
  BY <1>1 DEF Quiet, NoFork, NothingDropped, Mine, Elems
<1>2. ASSUME NEW t \in Threads, ResetQueue(t) PROVE NoFork'
  <2>1. UNCHANGED <<pid, poolPid>> /\ poolPid # pid
    BY <1>2 DEF ResetQueue, Passed
  <2>2. pid # 0
    BY <2>1 DEF Passed
  <2> QED
    BY <2>1, <2>2 DEF NoFork, NothingDropped
<1>3. ASSUME NEW t \in Threads, ResetPid(t) PROVE NoFork'
  <2>1. UNCHANGED pid /\ poolPid # pid
    BY <1>3 DEF ResetPid, Passed
  <2>2. pid # 0
    BY <2>1 DEF Passed
  <2> QED
    BY <2>1, <2>2 DEF NoFork, NothingDropped
<1>4. ASSUME NEW t \in Threads, GetSlot(t) PROVE NoFork'
  <2> DEFINE c == Top(queue)
  <2>1. /\ UNCHANGED <<pid, connPid, fullRaised>>
        /\ queue' = Pop(queue)
        /\ held' = [held EXCEPT ![t] = c]
        /\ held[t] = None
    BY <1>4 DEF GetSlot, In, Holding, AsksWithNone, BeforeTake, connVars
  <2>2. Elems(queue) = Elems(Pop(queue)) \cup {c}
    BY <1>0, <1>4, PopLemma DEF GetSlot
  <2> HIDE DEF c
  <2>3. Mine' = Mine /\ Mine \subseteq Conns
    BY <2>1 DEF Mine
  <2>4. ASSUME pid = 0, NEW d \in Mine
        PROVE  d \in Elems(queue)' \/ \E u \in Threads : held'[u] = d
    <3>1. CASE d \in Elems(queue)
      BY <2>1, <2>2, <3>1
    <3>2. ASSUME NEW u \in Threads, held[u] = d PROVE held'[u] = d
      BY <2>1, <2>3, <3>2, BlockingPoolAssumption
    <3> QED
      BY <2>4, <3>1, <3>2 DEF NoFork, NothingDropped
  <2> QED
    BY <2>1, <2>3, <2>4 DEF NoFork, NothingDropped
<1>5. ASSUME NEW t \in Threads, MakeConnection(t) PROVE NoFork'
  <2>1. PICK c \in Conns : /\ connPid[c] = NoPid
                           /\ connPid' = [connPid EXCEPT ![c] = pid]
                           /\ held' = [held EXCEPT ![t] = c]
    BY <1>5 DEF MakeConnection
  <2>2. UNCHANGED <<pid, queue, fullRaised>> /\ held[t] = None
    BY <1>5 DEF MakeConnection, Holding, AsksWithNone
  <2>3. Mine' = Mine \cup {c} /\ Mine \subseteq Conns
    BY <2>1, <2>2 DEF Mine
  <2>4. ASSUME pid = 0, NEW d \in Mine
        PROVE  d \in Elems(queue) \/ \E u \in Threads : held'[u] = d
    <3>1. ASSUME NEW u \in Threads, held[u] = d PROVE held'[u] = d
      BY <2>1, <2>2, <2>3, <3>1, BlockingPoolAssumption
    <3> QED
      BY <2>4, <3>1 DEF NoFork, NothingDropped
  <2>5. held'[t] = c
    BY <2>1
  <2>6. Elems(queue)' = Elems(queue)
    BY <2>2 DEF Elems
  <2> QED
    BY <2>2, <2>3, <2>4, <2>5, <2>6 DEF NoFork, NothingDropped
<1>6. ASSUME NEW t \in Threads, ReleaseForeign(t) PROVE NoFork'
  <2>1. UNCHANGED pid /\ In(t, "release") /\ ~Owns(held[t])
    BY <1>6 DEF ReleaseForeign
  <2>2. pid # 0
    BY <2>1, RoomToRelease
  <2> QED
    BY <2>1, <2>2 DEF NoFork, NothingDropped
<1>7. ASSUME NEW t \in Threads, ReleaseOwn(t) PROVE NoFork'
  <2>1. /\ UNCHANGED <<pid, connPid, fullRaised>>
        /\ held' = [held EXCEPT ![t] = None]
        /\ In(t, "release")
    BY <1>7 DEF ReleaseOwn, GivesUp, connVars
  <2>2. CASE pid # 0
    BY <2>1, <2>2 DEF NoFork, NothingDropped
  <2>3. CASE pid = 0
    <3>1. held[t] \in Conns /\ queue' = Append(queue, held[t])
      BY <1>7, <2>1, <2>3, RoomToRelease DEF ReleaseOwn
    <3>2. Elems(queue)' = Elems(queue) \cup {held[t]}
      BY <1>0, <3>1, AppendLemma DEF Slots
    <3>3. Mine' = Mine /\ Mine \subseteq Conns
      BY <2>1 DEF Mine
    <3>4. ASSUME NEW d \in Mine
          PROVE  d \in Elems(queue)' \/ \E u \in Threads : held'[u] = d
      <4>1. ASSUME NEW u \in Threads, held[u] = d, u # t PROVE held'[u] = d
        BY <2>1, <4>1
      <4> QED
        BY <2>3, <3>2, <4>1 DEF NoFork, NothingDropped
    <3> QED
      BY <2>1, <2>3, <3>3, <3>4 DEF NoFork, NothingDropped
  <2> QED
    BY <2>2, <2>3
<1>8. ASSUME NEW t \in Threads, Fork(t) PROVE NoFork'
  <2>1. pid' # 0
    BY <1>8 DEF Fork
  <2> QED
    BY <2>1 DEF NoFork, NothingDropped
<1> QED
  BY <1>1, <1>2, <1>3, <1>4, <1>5, <1>6, <1>7, <1>8, QuietStep DEF Moves

\* Both hold in every state of every behaviour.
LEMMA NoForkInvariance == Spec => [](IInv /\ NoFork)
<1>1. Init => NoFork
  BY DEF Init, NoFork, NothingDropped, Mine, NoPid
<1> QED
  BY <1>1, NoForkStep, Inductive, PTL DEF Spec

(***************************************************************************)
(* In a process that was not forked release() never raises queue.Full:     *)
(* only a connection of another process can find the queue full.           *)
(***************************************************************************)
THEOREM OnlyAChildRaises == Spec => [](pid = 0 => ReleaseNeverRaises)
<1>1. NoFork => (pid = 0 => ReleaseNeverRaises)
  BY DEF NoFork, ReleaseNeverRaises
<1> QED
  BY <1>1, NoForkInvariance, PTL

(***************************************************************************)
(* In a process that was not forked no connection is dropped by release(): *)
(* each one the process made waits in the queue or is in use.              *)
(***************************************************************************)
THEOREM OnlyAChildDrops == Spec => []NothingDropped
<1>1. NoFork => NothingDropped
  BY DEF NoFork
<1> QED
  BY <1>1, NoForkInvariance, PTL
-----------------------------------------------------------------------------
(***************************************************************************)
(* The pool implements PoolContract.  Taking a slot with a connection is   *)
(* the contract's Reuse; taking a placeholder shows nothing, and the       *)
(* connection made for it is the Create, however much happens in between;  *)
(* release is GiveBack and a fork is Fork.                                 *)
(***************************************************************************)
\* The values of a function on a finite set are no more than its elements.
LEMMA ImageLemma ==
  ASSUME NEW S, IsFiniteSet(S), NEW f
  PROVE  /\ IsFiniteSet({f[x] : x \in S})
         /\ Cardinality({f[x] : x \in S}) <= Cardinality(S)
<1> DEFINE T == {f[x] : x \in S}
           g == [x \in S |-> f[x]]
<1>1. g \in Surjection(S, T)
  BY DEF Surjection
<1> QED
  BY <1>1, FS_Surjection

\* A thread that makes a connection holds a slot without one, so the process
\* has fewer connections than slots.
LEMMA RoomToMake ==
  ASSUME IInv, NoFork, pid = 0, NEW t \in Threads, pc[t] = "make"
  PROVE  Cardinality(Mine) < MaxConnections
<1> USE DEF IInv, TypeOK
<1> DEFINE Q == {queue[i] : i \in 1..Len(queue)}
           H == {held[u] : u \in Taken \ {t}}
<1>1. t \in Taken /\ held[t] = None
  BY DEF Taken, Holding, AsksWithNone
<1>2. IsFiniteSet(Taken)
  BY BlockingPoolAssumption, FS_Subset DEF Taken
<1>3. /\ IsFiniteSet(Taken \ {t})
      /\ Cardinality(Taken) \in Nat
      /\ Cardinality(Taken \ {t}) = Cardinality(Taken) - 1
  BY <1>1, <1>2, FS_RemoveElement, FS_CardinalityType
<1>4. IsFiniteSet(H) /\ Cardinality(H) <= Cardinality(Taken) - 1 /\ Cardinality(H) \in Nat
  BY <1>3, ImageLemma, FS_CardinalityType
<1>5. Len(queue) \in Nat
  OBVIOUS
<1>6. IsFiniteSet(1..Len(queue)) /\ Cardinality(1..Len(queue)) = Len(queue)
  BY <1>5, FS_Interval
<1>7. IsFiniteSet(Q) /\ Cardinality(Q) <= Len(queue) /\ Cardinality(Q) \in Nat
  BY <1>6, ImageLemma, FS_CardinalityType
<1>8. Mine \subseteq Q \cup H
  <2> SUFFICES ASSUME NEW c \in Mine, c \notin Q PROVE c \in H
    OBVIOUS
  <2>1. PICK u \in Threads : held[u] = c
    BY DEF NoFork, NothingDropped, Elems
  <2>2. u \in Taken /\ u # t
    BY <1>1, <2>1, BlockingPoolAssumption DEF Taken, Mine
  <2> QED
    BY <2>1, <2>2
<1> HIDE DEF Q, H
<1>9. /\ IsFiniteSet(Q \cup H)
      /\ Cardinality(Q \cup H) = Cardinality(Q) + Cardinality(H) - Cardinality(Q \cap H)
  BY <1>4, <1>7, FS_Union
<1>10. Cardinality(Q \cap H) \in Nat
  BY <1>7, FS_Subset, FS_CardinalityType
<1>11. Cardinality(Mine) <= Cardinality(Q \cup H) /\ Cardinality(Mine) \in Nat
  BY <1>8, <1>9, FS_Subset, FS_CardinalityType
<1>12. Len(queue) + Cardinality(Taken) <= MaxConnections
  BY DEF PoolSize
<1> QED
  BY <1>3, <1>4, <1>5, <1>7, <1>9, <1>10, <1>11, <1>12, BlockingPoolAssumption

\* The contract counts with the same Cardinality.
LEMMA SameCardinality == \A S : Contract!Cardinality(S) = Cardinality(S)
  BY Zenon DEF Contract!Cardinality, Cardinality

\* A slot with a connection holds one of this process that nobody has.
LEMMA GetIsReuse ==
  ASSUME IInv, NEW t \in Threads, GetSlot(t)
  PROVE  (\E c \in Conns : Contract!Reuse(t, c)) \/ UNCHANGED Contract!vars
<1> USE DEF IInv, TypeOK
<1> DEFINE c == Top(queue)
<1>1. /\ UNCHANGED <<pid, connPid>>
      /\ poolPid = pid
      /\ held' = [held EXCEPT ![t] = c]
      /\ held[t] = None
  BY DEF GetSlot, In, Passed, Holding, AsksWithNone, BeforeTake, connVars
<1>2. c \in Slots /\ c \in Elems(queue)
  BY PopLemma DEF GetSlot, Slots
<1> HIDE DEF c
<1>3. CASE c = None
  BY <1>1, <1>3 DEF Contract!vars
<1>4. CASE c # None
  <2>1. c \in Conns /\ connPid[c] = pid
    BY <1>1, <1>2, <1>4 DEF Queued, Mine, Slots
  <2>2. \A u \in Threads : held[u] # c
    BY <1>1, <1>2, <1>4 DEF Queued
  <2>3. Contract!Reuse(t, c)
    BY <1>1, <2>1, <2>2 DEF Contract!Reuse, Contract!Give, Contract!Free
  <2> QED
    BY <2>1, <2>3
<1> QED
  BY <1>3, <1>4

\* The connection made for a placeholder is within the limit.
LEMMA MakeIsCreate ==
  ASSUME IInv, NoFork, NEW t \in Threads, MakeConnection(t)
  PROVE  \E c \in Conns : Contract!Create(t, c)
<1>1. PICK c \in Conns : /\ connPid[c] = NoPid
                         /\ connPid' = [connPid EXCEPT ![c] = pid]
                         /\ held' = [held EXCEPT ![t] = c]
  BY DEF MakeConnection
<1>2. UNCHANGED pid /\ pc[t] = "make" /\ held[t] = None
  BY DEF MakeConnection, IInv, Holding, AsksWithNone
<1>3. pid \in {0} => Contract!Cardinality(Contract!Made) < MaxConnections
  BY <1>2, RoomToMake, SameCardinality DEF Mine, Contract!Made
<1>4. connPid[c] = Contract!NoPid
  BY <1>1 DEF Contract!NoPid, NoPid
<1>5. Contract!Give(t, c)
  BY <1>1, <1>2 DEF Contract!Give
<1>6. Contract!Create(t, c)
  BY ONLY <1>1, <1>2, <1>3, <1>4, <1>5 DEF Contract!Create
<1> QED
  BY <1>6

\* Who releases has something to release.
LEMMA ReleaseIsGiveBack ==
  ASSUME IInv, NEW t \in Threads, ReleaseForeign(t) \/ ReleaseOwn(t)
  PROVE  Contract!GiveBack(t)
<1>1. /\ UNCHANGED <<pid, connPid>>
      /\ held' = [held EXCEPT ![t] = None]
      /\ held[t] # None
  BY DEF ReleaseForeign, ReleaseOwn, In, GivesUp, connVars, IInv, Holding,
         ReleasesSome, BeforeTake
<1> QED
  BY <1>1 DEF Contract!GiveBack

\* Every step is one of the contract's or invisible to it.
LEMMA ContractStep ==
  ASSUME IInv, NoFork, [Next]_vars
  PROVE  [Contract!Next]_(Contract!vars)
<1>1. CASE Quiet
  BY <1>1 DEF Quiet, Contract!vars
<1>2. ASSUME NEW t \in Threads, ResetQueue(t) \/ ResetPid(t)
      PROVE  UNCHANGED Contract!vars
  BY <1>2 DEF ResetQueue, ResetPid, connVars, Contract!vars
<1>3. ASSUME NEW t \in Threads, Fork(t) PROVE Contract!Fork(t)
  BY <1>3 DEF Fork, connVars, Contract!Fork
<1>4. TypeOK
  BY DEF IInv
<1> QED
  BY <1>1, <1>2, <1>3, <1>4, QuietStep, GetIsReuse, MakeIsCreate, ReleaseIsGiveBack
  DEF Moves, Contract!Next

\* The pool of slots keeps the contract of a pool.
THEOREM KeepsTheContract == Spec => ImplementsPoolContract
<1>1. Init => Contract!Init
  BY DEF Init, Contract!Init, Contract!NoPid, NoPid
<1> QED
  BY <1>1, ContractStep, NoForkInvariance, PTL
  DEF Spec, ImplementsPoolContract, Contract!Spec
=============================================================================
