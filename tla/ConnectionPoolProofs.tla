------------------------ MODULE ConnectionPoolProofs ------------------------
(***************************************************************************)
(* What ConnectionPool guarantees for any number of threads, connections   *)
(* and forks: type correctness, exclusive use, no connection of the parent *)
(* in the child, a complete account of the connections made, and renewed   *)
(* credentials that reach all of them.                                     *)
(***************************************************************************)
EXTENDS ConnectionPool, FiniteSetTheorems, SequenceTheorems, TLAPS

(***************************************************************************)
(* The stack operators.                                                    *)
(***************************************************************************)
Injective(s) == \A i, j \in 1..Len(s) : i # j => s[i] # s[j]

\* Popping takes the top element off and leaves the others.
LEMMA PopLemma ==
  ASSUME NEW s \in Seq(Conns), s # <<>>
  PROVE  /\ Top(s) \in Conns
         /\ Top(s) \in Elems(s)
         /\ Pop(s) \in Seq(Conns)
         /\ Elems(s) = Elems(Pop(s)) \cup {Top(s)}
         /\ Injective(s) => Injective(Pop(s)) /\ Top(s) \notin Elems(Pop(s))
<1>1. Len(s) \in Nat \ {0}
  OBVIOUS
<1>2. /\ Pop(s) \in Seq(Conns)
      /\ Len(Pop(s)) = Len(s) - 1
      /\ \A i \in 1..(Len(s) - 1) : Pop(s)[i] = s[i]
  <2>1. \A i \in 1..(Len(s) - 1) : s[i] \in Conns
    BY <1>1
  <2>2. /\ Pop(s) \in Seq(Conns)
        /\ Len(Pop(s)) = IF 1 <= Len(s) - 1 THEN (Len(s) - 1) - 1 + 1 ELSE 0
        /\ \A i \in 1..((Len(s) - 1) - 1 + 1) : Pop(s)[i] = s[1 + i - 1]
    BY <1>1, <2>1, SubSeqProperties DEF Pop
  <2>3. Len(Pop(s)) = Len(s) - 1
    <3>1. \A n \in Nat \ {0} : (IF 1 <= n - 1 THEN (n - 1) - 1 + 1 ELSE 0) = n - 1
      OBVIOUS
    <3> QED
      BY ONLY <1>1, <2>2, <3>1, Zenon
  <2>4. ASSUME NEW i \in 1..(Len(s) - 1) PROVE Pop(s)[i] = s[i]
    <3>1. i \in 1..((Len(s) - 1) - 1 + 1) /\ 1 + i - 1 = i
      BY <1>1
    <3> QED
      BY <2>2, <3>1
  <2> QED
    BY <2>2, <2>3, <2>4
<1>3. \A i \in 1..(Len(s) - 1) : Pop(s)[i] = s[i]
  BY <1>2
<1>4. Elems(Pop(s)) = {s[i] : i \in 1..(Len(s) - 1)}
  BY <1>2, <1>3 DEF Elems
<1>5. 1..Len(s) = (1..(Len(s) - 1)) \cup {Len(s)}
  BY <1>1
<1>6. Top(s) \in Conns /\ Top(s) \in Elems(s)
  BY <1>1 DEF Top, Elems
<1>7. Elems(s) = Elems(Pop(s)) \cup {Top(s)}
  BY <1>4, <1>5 DEF Top, Elems
<1>8. ASSUME Injective(s)
      PROVE  Injective(Pop(s)) /\ Top(s) \notin Elems(Pop(s))
  <2>1. Injective(Pop(s))
    BY <1>1, <1>2, <1>3, <1>8 DEF Injective
  <2>2. Top(s) \notin {s[i] : i \in 1..(Len(s) - 1)}
    BY <1>1, <1>8 DEF Injective, Top
  <2> QED
    BY <2>1, <2>2, <1>4
<1> QED
  BY <1>2, <1>6, <1>7, <1>8

\* Appending puts one more element on the stack.
LEMMA AppendLemma ==
  ASSUME NEW s \in Seq(Conns), NEW c \in Conns
  PROVE  /\ Append(s, c) \in Seq(Conns)
         /\ Elems(Append(s, c)) = Elems(s) \cup {c}
         /\ Injective(s) /\ c \notin Elems(s) => Injective(Append(s, c))
<1>1. Append(s, c) \in Seq(Conns) /\ Len(Append(s, c)) = Len(s) + 1
  OBVIOUS
<1>2. \A i \in 1..(Len(s) + 1) :
        Append(s, c)[i] = IF i = Len(s) + 1 THEN c ELSE s[i]
  OBVIOUS
<1>3. 1..(Len(s) + 1) = (1..Len(s)) \cup {Len(s) + 1} /\ Len(s) + 1 \notin 1..Len(s)
  OBVIOUS
<1>4. Elems(Append(s, c)) = Elems(s) \cup {c}
  BY <1>1, <1>2, <1>3 DEF Elems
<1>5. Injective(s) /\ c \notin Elems(s) => Injective(Append(s, c))
  BY <1>1, <1>2, <1>3 DEF Elems, Injective
<1> QED
  BY <1>1, <1>4, <1>5
-----------------------------------------------------------------------------
(***************************************************************************)
(* Type correctness.                                                       *)
(***************************************************************************)
\* Every variable of the pool keeps its type in every step of the code.
LEMMA TypeStep == TypeOK /\ [Next]_vars => TypeOK'
<1> SUFFICES ASSUME TypeOK, [Next]_vars PROVE TypeOK'
  OBVIOUS
<1> USE DEF TypeOK, Goto, Leave, Labels, Ops
<1>1. ASSUME NEW t \in Threads, Call(t) PROVE TypeOK'
  BY <1>1 DEF Call, CallWith, poolVars, connVars, tokenVars
<1>2. ASSUME NEW t \in Threads, CallReAuth(t) PROVE TypeOK'
  <2>1. renewed' \in BOOLEAN
    BY <1>2 DEF CallReAuth
  <2> QED
    BY <1>2, <2>1 DEF CallReAuth, CallWith, poolVars, connVars
<1>3. ASSUME NEW t \in Threads, CheckPid(t) PROVE TypeOK'
  BY <1>3 DEF CheckPid, poolVars, connVars, tokenVars
<1>4. ASSUME NEW t \in Threads, AcquireForkLock(t) PROVE TypeOK'
  BY <1>4 DEF AcquireForkLock, poolVars, connVars, tokenVars
<1>5. ASSUME NEW t \in Threads, ForkLockTimeout(t) PROVE TypeOK'
  BY <1>5 DEF ForkLockTimeout, poolVars, connVars, tokenVars
<1>6. ASSUME NEW t \in Threads, RecheckPid(t) PROVE TypeOK'
  BY <1>6 DEF RecheckPid, poolVars, connVars, tokenVars
<1>7. ASSUME NEW t \in Threads, ResetCollections(t) PROVE TypeOK'
  BY <1>7 DEF ResetCollections, connVars, tokenVars
<1>8. ASSUME NEW t \in Threads, ResetPid(t) PROVE TypeOK'
  BY <1>8 DEF ResetPid, connVars, tokenVars
<1>9. ASSUME NEW t \in Threads, AcquireLock(t) PROVE TypeOK'
  BY <1>9 DEF AcquireLock, poolVars, connVars, tokenVars
<1>10. ASSUME NEW t \in Threads, PopConnection(t) PROVE TypeOK'
  <2>1. Top(available) \in Conns /\ Pop(available) \in Seq(Conns)
    BY <1>10, PopLemma DEF PopConnection
  <2> QED
    BY <1>10, <2>1 DEF PopConnection, Critical, Take, connVars, tokenVars
<1>11. ASSUME NEW t \in Threads, MakeConnection(t) PROVE TypeOK'
  BY <1>11 DEF MakeConnection, Critical, Take, tokenVars
<1>12. ASSUME NEW t \in Threads, TooManyConnections(t) PROVE TypeOK'
  BY <1>12 DEF TooManyConnections, Critical, poolVars, connVars, tokenVars
<1>13. ASSUME NEW t \in Threads, Connect(t) PROVE TypeOK'
  <2>1. auth' = auth \/ auth' = [auth EXCEPT ![held[t]] = token]
    BY <1>13 DEF Connect
  <2>2. auth' \in [Conns -> Nat]
    BY <2>1
  <2>3. pc' = [pc EXCEPT ![t] = "canread"] \/ pc' = [pc EXCEPT ![t] = "handshake"]
    BY <1>13 DEF Connect
  <2>4. pc' \in [Threads -> Labels]
    BY <2>3
  <2> QED
    BY <1>13, <2>2, <2>4 DEF Connect, poolVars, tokenVars
<1>14. ASSUME NEW t \in Threads, Handshake(t) PROVE TypeOK'
  BY <1>14 DEF Handshake, SockState, poolVars, tokenVars
<1>15. ASSUME NEW t \in Threads, HandshakeFails(t) PROVE TypeOK'
  BY <1>15 DEF HandshakeFails, poolVars, connVars, tokenVars
<1>16. ASSUME NEW t \in Threads, CanRead(t) PROVE TypeOK'
  BY <1>16 DEF CanRead, SockState, poolVars, tokenVars
<1>17. ASSUME NEW t \in Threads, ReleaseConnection(t) PROVE TypeOK'
  <2>1. held[t] \in Conns /\ Append(available, held[t]) \in Seq(Conns)
    BY <1>17, AppendLemma DEF ReleaseConnection
  <2>2. /\ available' \in Seq(Conns)
        /\ sock' \in [Conns -> SockState]
        /\ auth' \in [Conns -> Nat]
        /\ reAuth' \in [Conns -> Nat]
    <3>1. CASE Owns(held[t])
      <4>1. available' = Append(available, held[t]) /\ ReAuthOutcome(held[t])
        BY <1>17, <3>1 DEF ReleaseConnection
      <4>2. /\ sock' \in [Conns -> SockState]
            /\ auth' \in [Conns -> Nat]
            /\ reAuth' \in [Conns -> Nat]
        <5>1. CASE UNCHANGED <<sock, auth, reAuth>>
          BY <5>1
        <5>2. CASE /\ auth' = [auth EXCEPT ![held[t]] = reAuth[held[t]]]
                   /\ reAuth' = [reAuth EXCEPT ![held[t]] = NoToken]
                   /\ sock' = [sock EXCEPT ![held[t]] =
                                 IF @ \in {"closed", "dead"} THEN "ready" ELSE @]
          BY <2>1, <5>2 DEF SockState, NoToken
        <5>3. CASE /\ sock' \in {sock, [sock EXCEPT ![held[t]] = "closed"]}
                   /\ UNCHANGED <<auth, reAuth>>
          BY <2>1, <5>3 DEF SockState
        <5> QED
          BY <4>1, <5>1, <5>2, <5>3 DEF ReAuthOutcome
      <4> QED
        BY <4>1, <4>2, <2>1
    <3>2. CASE ~ Owns(held[t])
      BY <1>17, <2>1, <3>2 DEF ReleaseConnection, SockState
    <3> QED
      BY <3>1, <3>2
  <2> QED
    BY <1>17, <2>1, <2>2 DEF ReleaseConnection, Critical, tokenVars
<1>18. ASSUME NEW t \in Threads, ReleaseUnknown(t) PROVE TypeOK'
  BY <1>18 DEF ReleaseUnknown, Critical, poolVars, connVars, tokenVars
<1>19. ASSUME NEW t \in Threads, Disconnect(t) PROVE TypeOK'
  BY <1>19 DEF Disconnect, Critical, SockState, poolVars, tokenVars
<1>20. ASSUME NEW t \in Threads, ReAuthAll(t) PROVE TypeOK'
  BY <1>20 DEF ReAuthAll, Critical, SockState, poolVars
<1>21. ASSUME NEW t \in Threads, ReAuthFails(t) PROVE TypeOK'
  BY <1>21 DEF ReAuthFails, Critical, SockState, poolVars, tokenVars
<1>22. ASSUME NEW t \in Threads, UseConnection(t) PROVE TypeOK'
  BY <1>22 DEF UseConnection, SockState, poolVars, tokenVars, threadVars
<1>23. ASSUME NEW c \in Conns, NetworkEvent(c) PROVE TypeOK'
  BY <1>23 DEF NetworkEvent, SockState, poolVars, tokenVars, threadVars
<1>24. ASSUME NEW t \in Threads, Fork(t) PROVE TypeOK'
  BY <1>24 DEF Fork, poolVars, connVars, tokenVars
<1>25. CASE UNCHANGED vars
  BY <1>25 DEF vars, poolVars, connVars, tokenVars, threadVars
<1> QED
  BY <1>1, <1>2, <1>3, <1>4, <1>5, <1>6, <1>7, <1>8, <1>9, <1>10, <1>11, <1>12,
     <1>13, <1>14, <1>15, <1>16, <1>17, <1>18, <1>19, <1>20, <1>21, <1>22, <1>23,
     <1>24, <1>25 DEF Next, Step

\* The variables of the pool and of its threads always have their types.
THEOREM TypeCorrect == Spec => []TypeOK
<1>1. Init => TypeOK
  BY DEF Init, TypeOK, Labels, Ops, SockState, NoPid, NoToken
<1> QED
  BY <1>1, TypeStep, PTL DEF Spec
-----------------------------------------------------------------------------
(***************************************************************************)
(* The inductive invariant.                                                *)
(***************************************************************************)
BeforeTake == {"checkpid", "forkwait", "recheck", "reset", "resetpid", "lock",
               "crit"}
Working == {"connect", "handshake", "canread"}

\* The mutexes protect their sections.
Mutexes ==
  /\ \A t \in Threads : pc[t] = "crit" => lock = t
  /\ \A t \in Threads :
       pc[t] \in {"recheck", "reset", "resetpid"} => forkLock = t

\* Who is past _checkpid is in a pool of this process; while a thread resets
\* the pool nobody is, and the collections stay empty until the pid is set.
Passed ==
  /\ poolPid <= pid
  /\ \A t \in Threads : pc[t] \in {"reset", "resetpid"} => poolPid # pid
  /\ \A t \in Threads : pc[t] \in {"lock", "crit"} \cup Working => poolPid = pid
  /\ \A t \in Threads :
       pc[t] = "resetpid" => created = 0 /\ available = <<>> /\ inUse = {}

\* No connection comes from the future, and a pool that has not been reset
\* has none of this process.
Births ==
  /\ \A c \in Conns : connPid[c] <= pid
  /\ poolPid # pid => \A c \in Conns : connPid[c] # pid

\* Who holds what: nobody asks for a connection who has one; who works on one
\* holds one of this process; what is held was made, is in use if this process
\* made it, and is held once.
AsksWithNone ==
  \A t \in Threads : op[t] = "get" /\ pc[t] \in BeforeTake => held[t] = None
WorksOnMine ==
  \A t \in Threads : pc[t] \in Working => held[t] # None /\ connPid[held[t]] = pid
HeldIsMade ==
  \A t \in Threads : held[t] # None => connPid[held[t]] # NoPid
HeldIsInUse ==
  \A t \in Threads :
    held[t] # None /\ connPid[held[t]] = pid => held[t] \in inUse
HeldOnce ==
  \A t, u \in Threads : t # u /\ held[t] # None => held[t] # held[u]

Holding == AsksWithNone /\ WorksOnMine /\ HeldIsMade /\ HeldIsInUse /\ HeldOnce

\* The collections of a pool of this process.
Collections ==
  poolPid = pid =>
    /\ \A c \in Conns : connPid[c] = pid <=> c \in Elems(available) \cup inUse
    /\ Injective(available)
    /\ \A c \in inUse : c \notin Elems(available)
    /\ \A c \in inUse : \E t \in Threads : held[t] = c

Count ==
  poolPid = pid => created = Cardinality(Mine) /\ created <= MaxConnections

IInv == TypeOK /\ Mutexes /\ Passed /\ Births /\ Holding /\ Collections /\ Count
-----------------------------------------------------------------------------
(***************************************************************************)
(* Each part is preserved by every step.                                   *)
(***************************************************************************)
\* A mutex is held by the thread inside its section and by no other.
LEMMA MutexesStep == TypeOK /\ Mutexes /\ [Next]_vars => Mutexes'
<1> SUFFICES ASSUME TypeOK, Mutexes, [Next]_vars PROVE Mutexes'
  OBVIOUS
<1> USE PoolAssumption DEF TypeOK, Mutexes, Goto, Leave, poolVars, connVars,
                           tokenVars, threadVars
<1>1. ASSUME NEW t \in Threads, Call(t) PROVE Mutexes'
  BY <1>1 DEF Call, CallWith
<1>2. ASSUME NEW t \in Threads, CallReAuth(t) PROVE Mutexes'
  BY <1>2 DEF CallReAuth, CallWith
<1>3. ASSUME NEW t \in Threads, CheckPid(t) PROVE Mutexes'
  BY <1>3 DEF CheckPid
<1>4. ASSUME NEW t \in Threads, AcquireForkLock(t) PROVE Mutexes'
  BY <1>4 DEF AcquireForkLock
<1>5. ASSUME NEW t \in Threads, ForkLockTimeout(t) PROVE Mutexes'
  BY <1>5 DEF ForkLockTimeout
<1>6. ASSUME NEW t \in Threads, RecheckPid(t) PROVE Mutexes'
  BY <1>6 DEF RecheckPid
<1>7. ASSUME NEW t \in Threads, ResetCollections(t) PROVE Mutexes'
  BY <1>7 DEF ResetCollections
<1>8. ASSUME NEW t \in Threads, ResetPid(t) PROVE Mutexes'
  BY <1>8 DEF ResetPid
<1>9. ASSUME NEW t \in Threads, AcquireLock(t) PROVE Mutexes'
  BY <1>9 DEF AcquireLock
<1>10. ASSUME NEW t \in Threads, PopConnection(t) PROVE Mutexes'
  BY <1>10 DEF PopConnection, Critical, Take
<1>11. ASSUME NEW t \in Threads, MakeConnection(t) PROVE Mutexes'
  BY <1>11 DEF MakeConnection, Critical, Take
<1>12. ASSUME NEW t \in Threads, TooManyConnections(t) PROVE Mutexes'
  BY <1>12 DEF TooManyConnections, Critical
<1>13. ASSUME NEW t \in Threads, Connect(t) PROVE Mutexes'
  BY <1>13 DEF Connect
<1>14. ASSUME NEW t \in Threads, Handshake(t) PROVE Mutexes'
  BY <1>14 DEF Handshake
<1>15. ASSUME NEW t \in Threads, HandshakeFails(t) PROVE Mutexes'
  BY <1>15 DEF HandshakeFails
<1>16. ASSUME NEW t \in Threads, CanRead(t) PROVE Mutexes'
  BY <1>16 DEF CanRead
<1>17. ASSUME NEW t \in Threads, ReleaseConnection(t) PROVE Mutexes'
  BY <1>17 DEF ReleaseConnection, Critical
<1>18. ASSUME NEW t \in Threads, ReleaseUnknown(t) PROVE Mutexes'
  BY <1>18 DEF ReleaseUnknown, Critical
<1>19. ASSUME NEW t \in Threads, Disconnect(t) PROVE Mutexes'
  BY <1>19 DEF Disconnect, Critical
<1>20. ASSUME NEW t \in Threads, ReAuthAll(t) PROVE Mutexes'
  BY <1>20 DEF ReAuthAll, Critical
<1>21. ASSUME NEW t \in Threads, ReAuthFails(t) PROVE Mutexes'
  BY <1>21 DEF ReAuthFails, Critical
<1>22. ASSUME NEW t \in Threads, UseConnection(t) PROVE Mutexes'
  BY <1>22 DEF UseConnection
<1>23. ASSUME NEW t \in Threads, Fork(t) PROVE Mutexes'
  BY <1>23 DEF Fork
<1>24. ASSUME NEW c \in Conns, NetworkEvent(c) PROVE Mutexes'
  BY <1>24 DEF NetworkEvent
<1>25. CASE UNCHANGED vars
  BY <1>25 DEF vars
<1> QED
  BY <1>1, <1>2, <1>3, <1>4, <1>5, <1>6, <1>7, <1>8, <1>9, <1>10, <1>11,
     <1>12, <1>13, <1>14, <1>15, <1>16, <1>17, <1>18, <1>19, <1>20, <1>21,
     <1>22, <1>23, <1>24, <1>25 DEF Next, Step

\* Only _checkpid lets a thread into the pool, and only one thread resets it.
LEMMA PassedStep == TypeOK /\ Mutexes /\ Passed /\ [Next]_vars => Passed'
<1> SUFFICES ASSUME TypeOK, Mutexes, Passed, [Next]_vars PROVE Passed'
  OBVIOUS
<1> USE DEF TypeOK, Mutexes, Passed, Working, Goto, Leave, poolVars, connVars,
            tokenVars, threadVars
<1>1. ASSUME NEW t \in Threads, Call(t) PROVE Passed'
  BY <1>1 DEF Call, CallWith
<1>2. ASSUME NEW t \in Threads, CallReAuth(t) PROVE Passed'
  BY <1>2 DEF CallReAuth, CallWith
<1>3. ASSUME NEW t \in Threads, CheckPid(t) PROVE Passed'
  BY <1>3 DEF CheckPid
<1>4. ASSUME NEW t \in Threads, AcquireForkLock(t) PROVE Passed'
  BY <1>4 DEF AcquireForkLock
<1>5. ASSUME NEW t \in Threads, ForkLockTimeout(t) PROVE Passed'
  BY <1>5 DEF ForkLockTimeout
<1>6. ASSUME NEW t \in Threads, RecheckPid(t) PROVE Passed'
  BY <1>6 DEF RecheckPid
<1>7. ASSUME NEW t \in Threads, ResetCollections(t) PROVE Passed'
  BY <1>7 DEF ResetCollections
<1>8. ASSUME NEW t \in Threads, ResetPid(t) PROVE Passed'
  BY <1>8 DEF ResetPid
<1>9. ASSUME NEW t \in Threads, AcquireLock(t) PROVE Passed'
  BY <1>9 DEF AcquireLock
<1>10. ASSUME NEW t \in Threads, PopConnection(t) PROVE Passed'
  BY <1>10 DEF PopConnection, Critical, Take
<1>11. ASSUME NEW t \in Threads, MakeConnection(t) PROVE Passed'
  BY <1>11 DEF MakeConnection, Critical, Take
<1>12. ASSUME NEW t \in Threads, TooManyConnections(t) PROVE Passed'
  BY <1>12 DEF TooManyConnections, Critical
<1>13. ASSUME NEW t \in Threads, Connect(t) PROVE Passed'
  BY <1>13 DEF Connect
<1>14. ASSUME NEW t \in Threads, Handshake(t) PROVE Passed'
  BY <1>14 DEF Handshake
<1>15. ASSUME NEW t \in Threads, HandshakeFails(t) PROVE Passed'
  BY <1>15 DEF HandshakeFails
<1>16. ASSUME NEW t \in Threads, CanRead(t) PROVE Passed'
  BY <1>16 DEF CanRead
<1>17. ASSUME NEW t \in Threads, ReleaseConnection(t) PROVE Passed'
  BY <1>17 DEF ReleaseConnection, Critical
<1>18. ASSUME NEW t \in Threads, ReleaseUnknown(t) PROVE Passed'
  BY <1>18 DEF ReleaseUnknown, Critical
<1>19. ASSUME NEW t \in Threads, Disconnect(t) PROVE Passed'
  BY <1>19 DEF Disconnect, Critical
<1>20. ASSUME NEW t \in Threads, ReAuthAll(t) PROVE Passed'
  BY <1>20 DEF ReAuthAll, Critical
<1>21. ASSUME NEW t \in Threads, ReAuthFails(t) PROVE Passed'
  BY <1>21 DEF ReAuthFails, Critical
<1>22. ASSUME NEW t \in Threads, UseConnection(t) PROVE Passed'
  BY <1>22 DEF UseConnection
<1>23. ASSUME NEW t \in Threads, Fork(t) PROVE Passed'
  BY <1>23 DEF Fork
<1>24. ASSUME NEW c \in Conns, NetworkEvent(c) PROVE Passed'
  BY <1>24 DEF NetworkEvent
<1>25. CASE UNCHANGED vars
  BY <1>25 DEF vars
<1> QED
  BY <1>1, <1>2, <1>3, <1>4, <1>5, <1>6, <1>7, <1>8, <1>9, <1>10, <1>11,
     <1>12, <1>13, <1>14, <1>15, <1>16, <1>17, <1>18, <1>19, <1>20, <1>21,
     <1>22, <1>23, <1>24, <1>25 DEF Next, Step

\* Connections are made only in a pool that has been reset for this process.
LEMMA BirthsStep == TypeOK /\ Passed /\ Births /\ [Next]_vars => Births'
<1> SUFFICES ASSUME TypeOK, Passed, Births, [Next]_vars PROVE Births'
  OBVIOUS
<1> USE DEF TypeOK, Passed, Births, Goto, Leave, poolVars, connVars,
            tokenVars, threadVars
<1>1. ASSUME NEW t \in Threads, Call(t) PROVE Births'
  BY <1>1 DEF Call, CallWith
<1>2. ASSUME NEW t \in Threads, CallReAuth(t) PROVE Births'
  BY <1>2 DEF CallReAuth, CallWith
<1>3. ASSUME NEW t \in Threads, CheckPid(t) PROVE Births'
  BY <1>3 DEF CheckPid
<1>4. ASSUME NEW t \in Threads, AcquireForkLock(t) PROVE Births'
  BY <1>4 DEF AcquireForkLock
<1>5. ASSUME NEW t \in Threads, ForkLockTimeout(t) PROVE Births'
  BY <1>5 DEF ForkLockTimeout
<1>6. ASSUME NEW t \in Threads, RecheckPid(t) PROVE Births'
  BY <1>6 DEF RecheckPid
<1>7. ASSUME NEW t \in Threads, ResetCollections(t) PROVE Births'
  BY <1>7 DEF ResetCollections
<1>8. ASSUME NEW t \in Threads, ResetPid(t) PROVE Births'
  BY <1>8 DEF ResetPid
<1>9. ASSUME NEW t \in Threads, AcquireLock(t) PROVE Births'
  BY <1>9 DEF AcquireLock
<1>10. ASSUME NEW t \in Threads, PopConnection(t) PROVE Births'
  BY <1>10 DEF PopConnection, Critical, Take
<1>11. ASSUME NEW t \in Threads, MakeConnection(t) PROVE Births'
  BY <1>11 DEF MakeConnection, Critical, Take
<1>12. ASSUME NEW t \in Threads, TooManyConnections(t) PROVE Births'
  BY <1>12 DEF TooManyConnections, Critical
<1>13. ASSUME NEW t \in Threads, Connect(t) PROVE Births'
  BY <1>13 DEF Connect
<1>14. ASSUME NEW t \in Threads, Handshake(t) PROVE Births'
  BY <1>14 DEF Handshake
<1>15. ASSUME NEW t \in Threads, HandshakeFails(t) PROVE Births'
  BY <1>15 DEF HandshakeFails
<1>16. ASSUME NEW t \in Threads, CanRead(t) PROVE Births'
  BY <1>16 DEF CanRead
<1>17. ASSUME NEW t \in Threads, ReleaseConnection(t) PROVE Births'
  BY <1>17 DEF ReleaseConnection, Critical
<1>18. ASSUME NEW t \in Threads, ReleaseUnknown(t) PROVE Births'
  BY <1>18 DEF ReleaseUnknown, Critical
<1>19. ASSUME NEW t \in Threads, Disconnect(t) PROVE Births'
  BY <1>19 DEF Disconnect, Critical
<1>20. ASSUME NEW t \in Threads, ReAuthAll(t) PROVE Births'
  BY <1>20 DEF ReAuthAll, Critical
<1>21. ASSUME NEW t \in Threads, ReAuthFails(t) PROVE Births'
  BY <1>21 DEF ReAuthFails, Critical
<1>22. ASSUME NEW t \in Threads, UseConnection(t) PROVE Births'
  BY <1>22 DEF UseConnection
<1>23. ASSUME NEW t \in Threads, Fork(t) PROVE Births'
  <2>1. \A c \in Conns : connPid[c] \in Int /\ connPid[c] <= pid
    BY DEF NoPid
  <2>2. connPid' = connPid /\ poolPid' = poolPid /\ pid' = pid + 1
    BY <1>23 DEF Fork
  <2> QED
    BY <2>1, <2>2
<1>24. ASSUME NEW c \in Conns, NetworkEvent(c) PROVE Births'
  BY <1>24 DEF NetworkEvent
<1>25. CASE UNCHANGED vars
  BY <1>25 DEF vars
<1> QED
  BY <1>1, <1>2, <1>3, <1>4, <1>5, <1>6, <1>7, <1>8, <1>9, <1>10, <1>11,
     <1>12, <1>13, <1>14, <1>15, <1>16, <1>17, <1>18, <1>19, <1>20, <1>21,
     <1>22, <1>23, <1>24, <1>25 DEF Next, Step

\* No two threads hold one connection, and who works on a connection holds
\* one that this process made and that the pool counts as in use.
LEMMA HoldingStep ==
  TypeOK /\ Passed /\ Births /\ Holding /\ Collections /\ [Next]_vars
    => Holding'
<1> SUFFICES ASSUME TypeOK, Passed, Births, Holding, Collections, [Next]_vars
             PROVE  Holding'
  OBVIOUS
<1> USE PoolAssumption DEF TypeOK, Passed, Births, Holding, AsksWithNone,
        WorksOnMine, HeldIsMade, HeldIsInUse, HeldOnce, BeforeTake, Working, Goto, Leave, poolVars,
        connVars, tokenVars, threadVars
<1>1. ASSUME NEW t \in Threads, Call(t) PROVE Holding'
  <2>1. /\ UNCHANGED <<pid, connPid, held, inUse>>
        /\ pc' = [pc EXCEPT ![t] = "checkpid"]
        /\ pc[t] = "app"
    BY <1>1 DEF Call, CallWith
  <2>2. AsksWithNone'
    <3>1. op'[t] = "get" => held[t] = None
      BY <1>1 DEF Call, CallWith, Ops
    <3>2. \A u \in Threads : u # t => op'[u] = op[u]
      BY <1>1 DEF Call, CallWith
    <3> QED
      BY <2>1, <3>1, <3>2
  <2> QED
    BY <2>1, <2>2
<1>2. ASSUME NEW t \in Threads, CallReAuth(t) PROVE Holding'
  BY <1>2 DEF CallReAuth, CallWith
<1>3. ASSUME NEW t \in Threads, CheckPid(t) PROVE Holding'
  BY <1>3 DEF CheckPid
<1>4. ASSUME NEW t \in Threads, AcquireForkLock(t) PROVE Holding'
  BY <1>4 DEF AcquireForkLock
<1>5. ASSUME NEW t \in Threads, ForkLockTimeout(t) PROVE Holding'
  BY <1>5 DEF ForkLockTimeout
<1>6. ASSUME NEW t \in Threads, RecheckPid(t) PROVE Holding'
  BY <1>6 DEF RecheckPid
<1>7. ASSUME NEW t \in Threads, ResetCollections(t) PROVE Holding'
  BY <1>7 DEF ResetCollections
<1>8. ASSUME NEW t \in Threads, ResetPid(t) PROVE Holding'
  BY <1>8 DEF ResetPid
<1>9. ASSUME NEW t \in Threads, AcquireLock(t) PROVE Holding'
  BY <1>9 DEF AcquireLock
<1>10. ASSUME NEW t \in Threads, PopConnection(t) PROVE Holding'
  <2> DEFINE c == Top(available)
  <2>1. /\ c \in Conns
        /\ c \in Elems(available)
    BY <1>10, PopLemma DEF PopConnection
  <2>2. /\ UNCHANGED <<pid, connPid, op>>
        /\ inUse' = inUse \cup {c}
        /\ held' = [held EXCEPT ![t] = c]
        /\ pc' = [pc EXCEPT ![t] = "connect"]
        /\ pc[t] = "crit"
    BY <1>10 DEF PopConnection, Critical, Take
  <2>3. connPid[c] = pid /\ c \notin inUse
    BY <2>1, <2>2 DEF Collections
  <2>4. \A u \in Threads : held[u] # c
    BY <2>1, <2>3
  <2>5. c # None
    BY <2>1
  <2> HIDE DEF c
  <2>6. AsksWithNone' /\ WorksOnMine'
    BY <2>2, <2>3, <2>5
  <2>7. HeldIsMade' /\ HeldIsInUse'
    BY <2>1, <2>2, <2>3, <2>5 DEF NoPid
  <2>8. HeldOnce'
    BY <2>2, <2>4
  <2> QED
    BY <2>6, <2>7, <2>8
<1>11. ASSUME NEW t \in Threads, MakeConnection(t) PROVE Holding'
  <2>1. PICK c \in Conns : /\ connPid[c] = NoPid
                           /\ connPid' = [connPid EXCEPT ![c] = pid]
                           /\ Take(t, c)
    BY <1>11 DEF MakeConnection
  <2>2. /\ UNCHANGED <<pid, op>>
        /\ inUse' = inUse \cup {c}
        /\ held' = [held EXCEPT ![t] = c]
        /\ pc' = [pc EXCEPT ![t] = "connect"]
        /\ pc[t] = "crit"
    BY <1>11, <2>1 DEF MakeConnection, Critical, Take
  <2>3. c # None /\ connPid'[c] = pid /\ pid # NoPid
    BY <2>1 DEF NoPid
  <2>4. \A u \in Threads : held[u] # c
    BY <2>1, <2>3
  <2>5. AsksWithNone' /\ WorksOnMine'
    BY <2>1, <2>2, <2>3, <2>4
  <2>6. HeldIsMade' /\ HeldIsInUse'
    BY <2>1, <2>2, <2>3, <2>4
  <2>7. HeldOnce'
    BY <2>2, <2>4
  <2> QED
    BY <2>5, <2>6, <2>7
<1>12. ASSUME NEW t \in Threads, TooManyConnections(t) PROVE Holding'
  BY <1>12 DEF TooManyConnections, Critical
<1>13. ASSUME NEW t \in Threads, Connect(t) PROVE Holding'
  BY <1>13 DEF Connect
<1>14. ASSUME NEW t \in Threads, Handshake(t) PROVE Holding'
  BY <1>14 DEF Handshake
<1>15. ASSUME NEW t \in Threads, HandshakeFails(t) PROVE Holding'
  BY <1>15 DEF HandshakeFails
<1>16. ASSUME NEW t \in Threads, CanRead(t) PROVE Holding'
  <2>1. UNCHANGED <<pid, connPid, held, inUse>> /\ pc[t] = "canread"
    BY <1>16 DEF CanRead
  <2>2. \/ pc' = [pc EXCEPT ![t] = "app"] /\ op' = [op EXCEPT ![t] = "none"]
        \/ pc' = [pc EXCEPT ![t] = "connect"] /\ op' = op
        \/ pc' = [pc EXCEPT ![t] = "checkpid"] /\ op' = [op EXCEPT ![t] = "release"]
    BY <1>16 DEF CanRead
  <2>3. AsksWithNone'
    BY <2>1, <2>2
  <2>4. WorksOnMine'
    <3>1. held[t] # None /\ connPid[held[t]] = pid
      BY <2>1
    <3>2. \A u \in Threads : u # t => pc'[u] = pc[u]
      BY <2>2
    <3> QED
      BY <2>1, <3>1, <3>2
  <2> QED
    BY <2>1, <2>3, <2>4
<1>17. ASSUME NEW t \in Threads, ReleaseConnection(t) PROVE Holding'
  BY <1>17 DEF ReleaseConnection, Critical
<1>18. ASSUME NEW t \in Threads, ReleaseUnknown(t) PROVE Holding'
  BY <1>18 DEF ReleaseUnknown, Critical
<1>19. ASSUME NEW t \in Threads, Disconnect(t) PROVE Holding'
  BY <1>19 DEF Disconnect, Critical
<1>20. ASSUME NEW t \in Threads, ReAuthAll(t) PROVE Holding'
  BY <1>20 DEF ReAuthAll, Critical
<1>21. ASSUME NEW t \in Threads, ReAuthFails(t) PROVE Holding'
  BY <1>21 DEF ReAuthFails, Critical
<1>22. ASSUME NEW t \in Threads, UseConnection(t) PROVE Holding'
  BY <1>22 DEF UseConnection
<1>23. ASSUME NEW t \in Threads, Fork(t) PROVE Holding'
  BY <1>23 DEF Fork
<1>24. ASSUME NEW c \in Conns, NetworkEvent(c) PROVE Holding'
  BY <1>24 DEF NetworkEvent
<1>25. CASE UNCHANGED vars
  BY <1>25 DEF vars
<1> QED
  BY <1>1, <1>2, <1>3, <1>4, <1>5, <1>6, <1>7, <1>8, <1>9, <1>10, <1>11,
     <1>12, <1>13, <1>14, <1>15, <1>16, <1>17, <1>18, <1>19, <1>20, <1>21,
     <1>22, <1>23, <1>24, <1>25 DEF Next, Step

(***************************************************************************)
(* Most steps leave alone what the last two parts are about.               *)
(***************************************************************************)
Quiet == UNCHANGED <<pid, poolVars, connPid, held>>
Moves(t) ==
  \/ ResetCollections(t) \/ ResetPid(t) \/ PopConnection(t) \/ MakeConnection(t)
  \/ ReleaseConnection(t) \/ ReleaseUnknown(t) \/ Fork(t)

\* A step touches the collections, the connections made or what threads hold
\* only in reset, get_connection, release and fork.
LEMMA QuietStep ==
  ASSUME [Next]_vars
  PROVE  Quiet \/ \E t \in Threads : Moves(t)
<1> USE DEF Quiet, poolVars, connVars, tokenVars, threadVars
<1>1. ASSUME NEW t \in Threads, Call(t) PROVE Quiet
  BY <1>1 DEF Call, CallWith
<1>2. ASSUME NEW t \in Threads, CallReAuth(t) PROVE Quiet
  BY <1>2 DEF CallReAuth, CallWith
<1>3. ASSUME NEW t \in Threads, CheckPid(t) PROVE Quiet
  BY <1>3 DEF CheckPid
<1>4. ASSUME NEW t \in Threads, AcquireForkLock(t) PROVE Quiet
  BY <1>4 DEF AcquireForkLock
<1>5. ASSUME NEW t \in Threads, ForkLockTimeout(t) PROVE Quiet
  BY <1>5 DEF ForkLockTimeout
<1>6. ASSUME NEW t \in Threads, RecheckPid(t) PROVE Quiet
  BY <1>6 DEF RecheckPid
<1>7. ASSUME NEW t \in Threads, AcquireLock(t) PROVE Quiet
  BY <1>7 DEF AcquireLock
<1>8. ASSUME NEW t \in Threads, TooManyConnections(t) PROVE Quiet
  BY <1>8 DEF TooManyConnections, Critical
<1>9. ASSUME NEW t \in Threads, Connect(t) PROVE Quiet
  BY <1>9 DEF Connect
<1>10. ASSUME NEW t \in Threads, Handshake(t) PROVE Quiet
  BY <1>10 DEF Handshake
<1>11. ASSUME NEW t \in Threads, HandshakeFails(t) PROVE Quiet
  BY <1>11 DEF HandshakeFails
<1>12. ASSUME NEW t \in Threads, CanRead(t) PROVE Quiet
  BY <1>12 DEF CanRead
<1>13. ASSUME NEW t \in Threads, Disconnect(t) PROVE Quiet
  BY <1>13 DEF Disconnect, Critical
<1>14. ASSUME NEW t \in Threads, ReAuthAll(t) PROVE Quiet
  BY <1>14 DEF ReAuthAll, Critical
<1>15. ASSUME NEW t \in Threads, ReAuthFails(t) PROVE Quiet
  BY <1>15 DEF ReAuthFails, Critical
<1>16. ASSUME NEW t \in Threads, UseConnection(t) PROVE Quiet
  BY <1>16 DEF UseConnection
<1>17. ASSUME NEW c \in Conns, NetworkEvent(c) PROVE Quiet
  BY <1>17 DEF NetworkEvent
<1>18. CASE UNCHANGED vars
  BY <1>18 DEF vars
<1> HIDE DEF Quiet
<1> QED
  BY <1>1, <1>2, <1>3, <1>4, <1>5, <1>6, <1>7, <1>8, <1>9,
     <1>10, <1>11, <1>12, <1>13, <1>14, <1>15, <1>16, <1>17, <1>18
  DEF Next, Step, Moves

\* A connection of this process is idle once or in use by the thread that
\* holds it, never both.
LEMMA CollectionsStep ==
  IInv /\ [Next]_vars => Collections'
<1> SUFFICES ASSUME IInv, [Next]_vars PROVE Collections'
  OBVIOUS
<1> USE DEF IInv, TypeOK
<1>1. CASE Quiet
  BY <1>1 DEF Quiet, Collections, poolVars, Injective, Elems
<1>2. ASSUME NEW t \in Threads, ResetCollections(t) PROVE Collections'
  BY <1>2 DEF ResetCollections, Passed, Collections
<1>3. ASSUME NEW t \in Threads, ResetPid(t) PROVE Collections'
  <2>1. /\ pc[t] = "resetpid" /\ poolPid # pid
        /\ UNCHANGED <<pid, available, inUse, connPid>>
    BY <1>3 DEF ResetPid, Passed, connVars
  <2>2. available = <<>> /\ inUse = {} /\ \A c \in Conns : connPid[c] # pid
    BY <2>1 DEF Passed, Births
  <2>3. Elems(<<>>) = {} /\ Injective(<<>>)
    BY DEF Elems, Injective
  <2> QED
    BY <2>1, <2>2, <2>3 DEF Collections
<1>4. ASSUME NEW t \in Threads, PopConnection(t) PROVE Collections'
  <2> DEFINE c == Top(available)
  <2>1. /\ UNCHANGED <<pid, poolPid, connPid>>
        /\ poolPid = pid
        /\ available' = Pop(available)
        /\ inUse' = inUse \cup {c}
        /\ held' = [held EXCEPT ![t] = c]
        /\ held[t] = None
    BY <1>4 DEF PopConnection, Critical, Take, Passed, Holding, AsksWithNone,
                BeforeTake, connVars
  <2>2. /\ c \in Conns
        /\ c \in Elems(available)
        /\ Elems(available) = Elems(Pop(available)) \cup {c}
        /\ Injective(Pop(available))
        /\ c \notin Elems(Pop(available))
    BY <1>4, <2>1, PopLemma DEF PopConnection, Collections
  <2> HIDE DEF c
  <2>3. \A d \in Conns : connPid'[d] = pid' <=> d \in Elems(available)' \cup inUse'
    BY <2>1, <2>2 DEF Collections
  <2>4. \A d \in inUse' : d \notin Elems(available)'
    BY <2>1, <2>2 DEF Collections
  <2>5. \A d \in inUse' : \E u \in Threads : held'[u] = d
    <3> TAKE d \in inUse'
    <3>1. CASE d = c
      BY <2>1, <3>1
    <3>2. CASE d # c
      <4>1. PICK u \in Threads : held[u] = d
        BY <2>1, <3>2 DEF Collections
      <4>2. d # None /\ u # t
        BY <2>1, <3>2, <4>1, PoolAssumption
      <4> QED
        BY <2>1, <4>1, <4>2
    <3> QED
      BY <3>1, <3>2
  <2> QED
    BY <2>1, <2>2, <2>3, <2>4, <2>5 DEF Collections
<1>5. ASSUME NEW t \in Threads, MakeConnection(t) PROVE Collections'
  <2>1. PICK c \in Conns : /\ connPid[c] = NoPid
                           /\ connPid' = [connPid EXCEPT ![c] = pid]
                           /\ Take(t, c)
    BY <1>5 DEF MakeConnection
  <2>2. /\ UNCHANGED <<pid, poolPid, available>>
        /\ poolPid = pid
        /\ inUse' = inUse \cup {c}
        /\ held' = [held EXCEPT ![t] = c]
        /\ held[t] = None
    BY <1>5, <2>1 DEF MakeConnection, Critical, Take, Passed, Holding,
                      AsksWithNone, BeforeTake
  <2>3. c \notin Elems(available) /\ c \notin inUse
    BY <2>1, <2>2 DEF Collections, NoPid
  <2>4. \A d \in Conns : connPid'[d] = pid' <=> d \in Elems(available)' \cup inUse'
    BY <2>1, <2>2 DEF Collections
  <2>5. \A d \in inUse' : \E u \in Threads : held'[u] = d
    <3> TAKE d \in inUse'
    <3>1. CASE d = c
      BY <2>2, <3>1
    <3>2. CASE d # c
      <4>1. PICK u \in Threads : held[u] = d
        BY <2>2, <3>2 DEF Collections
      <4>2. d # None /\ u # t
        BY <2>2, <3>2, <4>1, PoolAssumption
      <4> QED
        BY <2>2, <4>1, <4>2
    <3> QED
      BY <3>1, <3>2
  <2> QED
    BY <2>2, <2>3, <2>4, <2>5 DEF Collections
<1>6. ASSUME NEW t \in Threads, ReleaseConnection(t) PROVE Collections'
  <2> DEFINE c == held[t]
  <2>1. /\ UNCHANGED <<pid, poolPid, connPid>>
        /\ poolPid = pid
        /\ c \in inUse
        /\ inUse' = inUse \ {c}
        /\ held' = [held EXCEPT ![t] = None]
    BY <1>6 DEF ReleaseConnection, Critical, Passed
  <2>2. c \in Conns /\ connPid[c] = pid /\ c \notin Elems(available)
    BY <2>1 DEF Collections
  <2>3. available' = Append(available, c)
    BY <1>6, <2>1, <2>2 DEF ReleaseConnection, Owns
  <2>4. /\ Elems(available') = Elems(available) \cup {c}
        /\ Injective(available')
    BY <2>1, <2>2, <2>3, AppendLemma DEF Collections
  <2>5. c # None
    BY <2>2, PoolAssumption
  <2>6. \A u \in Threads : u # t => held[u] # c
    BY <2>5 DEF Holding, HeldOnce
  <2> HIDE DEF c
  <2>7. \A d \in inUse' : \E u \in Threads : held'[u] = d
    <3> TAKE d \in inUse'
    <3>1. PICK u \in Threads : held[u] = d
      BY <2>1 DEF Collections
    <3>2. u # t
      BY <2>1, <3>1 DEF c
    <3> QED
      BY <2>1, <3>1, <3>2
  <2> QED
    BY <2>1, <2>2, <2>4, <2>7 DEF Collections
<1>7. ASSUME NEW t \in Threads, ReleaseUnknown(t) PROVE Collections'
  <2>1. /\ UNCHANGED <<pid, poolPid, available, inUse, connPid>>
        /\ held[t] \notin inUse
        /\ held' = [held EXCEPT ![t] = None]
    BY <1>7 DEF ReleaseUnknown, poolVars, connVars
  <2> QED
    BY <2>1 DEF Collections
<1>8. ASSUME NEW t \in Threads, Fork(t) PROVE Collections'
  BY <1>8 DEF Fork, Passed, Collections, poolVars
<1> QED
  BY <1>1, <1>2, <1>3, <1>4, <1>5, <1>6, <1>7, <1>8, QuietStep DEF Moves

\* _created_connections is the number of connections this process made.
LEMMA CountStep == IInv /\ [Next]_vars => Count'
<1> SUFFICES ASSUME IInv, [Next]_vars PROVE Count'
  OBVIOUS
<1> USE DEF IInv, TypeOK
<1>1. IsFiniteSet(Mine)
  BY PoolAssumption, FS_Subset DEF Mine
<1>2. CASE UNCHANGED <<pid, poolPid, created, connPid>>
  BY <1>2 DEF Count, Mine
<1>3. CASE Quiet
  BY <1>2, <1>3 DEF Quiet, poolVars
<1>4. ASSUME NEW t \in Threads, ResetCollections(t) PROVE Count'
  BY <1>4 DEF ResetCollections, Passed, Count
<1>5. ASSUME NEW t \in Threads, ResetPid(t) PROVE Count'
  <2>1. /\ pc[t] = "resetpid" /\ poolPid # pid
        /\ UNCHANGED <<pid, created, connPid>>
    BY <1>5 DEF ResetPid, Passed, connVars
  <2>2. created = 0 /\ \A c \in Conns : connPid[c] # pid
    BY <2>1 DEF Passed, Births
  <2>3. Mine' = {}
    BY <2>1, <2>2 DEF Mine
  <2> QED
    BY <2>1, <2>2, <2>3, FS_EmptySet, PoolAssumption DEF Count
<1>6. ASSUME NEW t \in Threads, PopConnection(t) PROVE Count'
  BY <1>2, <1>6 DEF PopConnection, connVars
<1>7. ASSUME NEW t \in Threads, MakeConnection(t) PROVE Count'
  <2>1. PICK c \in Conns : /\ connPid[c] = NoPid
                           /\ connPid' = [connPid EXCEPT ![c] = pid]
    BY <1>7 DEF MakeConnection
  <2>2. /\ UNCHANGED <<pid, poolPid>>
        /\ poolPid = pid
        /\ created' = created + 1
        /\ created < MaxConnections
    BY <1>7 DEF MakeConnection, Critical, Passed
  <2>3. c \notin Mine /\ Mine' = Mine \cup {c}
    BY <2>1, <2>2 DEF Mine, NoPid
  <2>4. Cardinality(Mine') = Cardinality(Mine) + 1
    BY <1>1, <2>3, FS_AddElement
  <2> QED
    BY <2>2, <2>4, PoolAssumption DEF Count
<1>8. ASSUME NEW t \in Threads, ReleaseConnection(t) PROVE Count'
  BY <1>2, <1>8 DEF ReleaseConnection
<1>9. ASSUME NEW t \in Threads, ReleaseUnknown(t) PROVE Count'
  BY <1>2, <1>9 DEF ReleaseUnknown, poolVars, connVars
<1>10. ASSUME NEW t \in Threads, Fork(t) PROVE Count'
  BY <1>10 DEF Fork, Passed, Count, poolVars
<1> QED
  BY <1>3, <1>4, <1>5, <1>6, <1>7, <1>8, <1>9, <1>10, QuietStep DEF Moves
-----------------------------------------------------------------------------
(***************************************************************************)
(* The theorems.                                                           *)
(***************************************************************************)
\* The inductive invariant holds in every state of the pool.
LEMMA Invariance == Spec => []IInv
<1>1. Init => IInv
  <2> SUFFICES ASSUME Init PROVE IInv
    OBVIOUS
  <2>1. TypeOK
    BY DEF Init, TypeOK, Labels, Ops, SockState, NoPid, NoToken
  <2>2. Mutexes /\ Passed /\ Births /\ Holding
    BY PoolAssumption DEF Init, Mutexes, Passed, Births, Holding, AsksWithNone,
       WorksOnMine, HeldIsMade, HeldIsInUse, HeldOnce, BeforeTake, Working, NoPid
  <2>3. Collections
    BY DEF Init, Collections, Elems, Injective, NoPid
  <2>4. Count
    <3>1. Mine = {}
      BY DEF Init, Mine, NoPid
    <3> QED
      BY <3>1, FS_EmptySet, PoolAssumption DEF Init, Count
  <2> QED
    BY <2>1, <2>2, <2>3, <2>4 DEF IInv
<1>2. IInv /\ [Next]_vars => IInv'
  BY TypeStep, MutexesStep, PassedStep, BirthsStep, HoldingStep,
     CollectionsStep, CountStep DEF IInv
<1> QED
  BY <1>1, <1>2, PTL DEF Spec

\* For any number of threads, connections and forks: two threads never hold
\* one connection, and a connection somebody holds is not idle in the pool.
THEOREM ExclusiveUse == Spec => []Exclusive
<1>1. IInv => Exclusive
  <2> SUFFICES ASSUME IInv PROVE Exclusive
    OBVIOUS
  <2> USE DEF IInv, TypeOK
  <2>1. \A t, u \in Threads : t # u /\ held[t] # None => held[t] # held[u]
    BY DEF Holding, HeldOnce
  <2>2. ASSUME poolPid = pid
        PROVE  /\ \A i, j \in 1..Len(available) :
                    i # j => available[i] # available[j]
               /\ Elems(available) \cap inUse = {}
    BY <2>2 DEF Collections, Injective
  <2>3. ASSUME poolPid = pid, NEW t \in Threads, held[t] # None
        PROVE  held[t] \notin Elems(available)
    <3>1. CASE connPid[held[t]] = pid
      BY <2>3, <3>1 DEF Collections, Holding, HeldIsInUse
    <3>2. CASE connPid[held[t]] # pid
      BY <2>3, <3>2 DEF Collections
    <3> QED
      BY <3>1, <3>2
  <2> QED
    BY <2>1, <2>2, <2>3 DEF Exclusive
<1> QED
  BY <1>1, Invariance, PTL

\* get_connection never works on a connection that another process made.
THEOREM NoInheritedConnection == Spec => []HandedOutHere
<1>1. IInv => HandedOutHere
  BY DEF IInv, Holding, WorksOnMine, Working, HandedOutHere
<1> QED
  BY <1>1, Invariance, PTL

\* Every connection this process made is idle or held, and they are counted.
THEOREM EveryConnectionAccounted == Spec => []Accounted
<1>1. IInv => Accounted
  <2> SUFFICES ASSUME IInv, poolPid = pid
               PROVE  /\ Mine = Elems(available) \cup inUse
                      /\ \A c \in inUse : \E t \in Threads : Holds(t, c)
                      /\ created = Cardinality(Mine)
                      /\ created <= MaxConnections
    BY DEF Accounted
  <2> USE DEF IInv, TypeOK
  <2>1. Elems(available) \subseteq Conns
    BY DEF Elems
  <2>2. Mine = Elems(available) \cup inUse
    BY <2>1 DEF Collections, Mine
  <2>3. \A c \in inUse : \E t \in Threads : Holds(t, c)
    BY DEF Collections, Holds
  <2> QED
    BY <2>2, <2>3 DEF Count
<1> QED
  BY <1>1, Invariance, PTL
-----------------------------------------------------------------------------
(***************************************************************************)
(* Renewed credentials.  re_auth_callback tells every connection of the    *)
(* pool once, the idle ones at once and the others through a pending       *)
(* token; what follows is what keeps that true until the next renewal.     *)
(***************************************************************************)
\* re_auth_callback runs once at a time, and is not over while it runs.
OneCallback ==
  /\ token # NoToken
  /\ \A t \in Threads : op[t] = "reauth" => ~renewed
  /\ \A t, u \in Threads : op[t] = "reauth" /\ op[u] = "reauth" => t = u

\* Nothing waits in a connection that is idle or not yet made.
NothingWaits ==
  /\ \A c \in Conns : connPid[c] = NoPid => sock[c] = "closed" /\ reAuth[c] = NoToken
  /\ poolPid = pid => \A c \in Elems(available) : reAuth[c] = NoToken

Told(c) == auth[c] = token \/ reAuth[c] = token

\* After a renewal no older token waits anywhere, and a connection that has a
\* socket, or is about to have one, was told.
AllTold ==
  renewed /\ poolPid = pid =>
    /\ \A c \in Mine : reAuth[c] \in {NoToken, token}
    /\ \A c \in Mine : sock[c] # "closed" => Told(c)
    /\ \A t \in Threads : pc[t] = "handshake" => Told(held[t])

Renewal == OneCallback /\ NothingWaits /\ AllTold

\* A callback begins when none runs, and only its end says renewed.
LEMMA OneCallbackStep == TypeOK /\ OneCallback /\ [Next]_vars => OneCallback'
<1> SUFFICES ASSUME TypeOK, OneCallback, [Next]_vars PROVE OneCallback'
  OBVIOUS
<1> USE DEF TypeOK, OneCallback, NoToken, Goto, Leave, poolVars, connVars,
            tokenVars, threadVars
<1>1. ASSUME NEW t \in Threads, Call(t) PROVE OneCallback'
  <2>1. /\ \A u \in Threads : op'[u] = "reauth" => op[u] = "reauth"
        /\ UNCHANGED <<token, renewed>>
    BY <1>1 DEF Call, CallWith
  <2> QED
    BY <2>1
<1>2. ASSUME NEW t \in Threads, CallReAuth(t) PROVE OneCallback'
  BY <1>2 DEF CallReAuth, CallWith
<1>3. ASSUME NEW t \in Threads, CheckPid(t) PROVE OneCallback'
  BY <1>3 DEF CheckPid
<1>4. ASSUME NEW t \in Threads, AcquireForkLock(t) PROVE OneCallback'
  BY <1>4 DEF AcquireForkLock
<1>5. ASSUME NEW t \in Threads, ForkLockTimeout(t) PROVE OneCallback'
  BY <1>5 DEF ForkLockTimeout
<1>6. ASSUME NEW t \in Threads, RecheckPid(t) PROVE OneCallback'
  BY <1>6 DEF RecheckPid
<1>7. ASSUME NEW t \in Threads, ResetCollections(t) PROVE OneCallback'
  BY <1>7 DEF ResetCollections
<1>8. ASSUME NEW t \in Threads, ResetPid(t) PROVE OneCallback'
  BY <1>8 DEF ResetPid
<1>9. ASSUME NEW t \in Threads, AcquireLock(t) PROVE OneCallback'
  BY <1>9 DEF AcquireLock
<1>10. ASSUME NEW t \in Threads, PopConnection(t) PROVE OneCallback'
  BY <1>10 DEF PopConnection, Critical, Take
<1>11. ASSUME NEW t \in Threads, MakeConnection(t) PROVE OneCallback'
  BY <1>11 DEF MakeConnection, Critical, Take
<1>12. ASSUME NEW t \in Threads, TooManyConnections(t) PROVE OneCallback'
  BY <1>12 DEF TooManyConnections, Critical
<1>13. ASSUME NEW t \in Threads, Connect(t) PROVE OneCallback'
  BY <1>13 DEF Connect
<1>14. ASSUME NEW t \in Threads, Handshake(t) PROVE OneCallback'
  BY <1>14 DEF Handshake
<1>15. ASSUME NEW t \in Threads, HandshakeFails(t) PROVE OneCallback'
  BY <1>15 DEF HandshakeFails
<1>16. ASSUME NEW t \in Threads, CanRead(t) PROVE OneCallback'
  <2>1. UNCHANGED <<token, renewed>>
    BY <1>16 DEF CanRead
  <2>2. \/ op' = [op EXCEPT ![t] = "none"]
        \/ op' = op
        \/ op' = [op EXCEPT ![t] = "release"]
    BY <1>16 DEF CanRead
  <2> QED
    BY <2>1, <2>2
<1>17. ASSUME NEW t \in Threads, ReleaseConnection(t) PROVE OneCallback'
  BY <1>17 DEF ReleaseConnection, Critical
<1>18. ASSUME NEW t \in Threads, ReleaseUnknown(t) PROVE OneCallback'
  BY <1>18 DEF ReleaseUnknown, Critical
<1>19. ASSUME NEW t \in Threads, Disconnect(t) PROVE OneCallback'
  BY <1>19 DEF Disconnect, Critical
<1>20. ASSUME NEW t \in Threads, ReAuthAll(t) PROVE OneCallback'
  BY <1>20 DEF ReAuthAll, Critical
<1>21. ASSUME NEW t \in Threads, ReAuthFails(t) PROVE OneCallback'
  BY <1>21 DEF ReAuthFails, Critical
<1>22. ASSUME NEW t \in Threads, UseConnection(t) PROVE OneCallback'
  BY <1>22 DEF UseConnection
<1>23. ASSUME NEW t \in Threads, Fork(t) PROVE OneCallback'
  BY <1>23 DEF Fork
<1>24. ASSUME NEW c \in Conns, NetworkEvent(c) PROVE OneCallback'
  BY <1>24 DEF NetworkEvent
<1>25. CASE UNCHANGED vars
  BY <1>25 DEF vars
<1> QED
  BY <1>1, <1>2, <1>3, <1>4, <1>5, <1>6, <1>7, <1>8, <1>9, <1>10, <1>11,
     <1>12, <1>13, <1>14, <1>15, <1>16, <1>17, <1>18, <1>19, <1>20, <1>21,
     <1>22, <1>23, <1>24, <1>25 DEF Next, Step

\* release() spends the token that waits, and get_connection hands out only
\* connections in which none waits.
LEMMA NothingWaitsStep ==
  ASSUME ~ReleaseAuthFails, IInv, NothingWaits, [Next]_vars
  PROVE  NothingWaits'
<1> USE PoolAssumption DEF IInv, TypeOK, NothingWaits, NoToken, Goto, Leave,
                           poolVars, connVars, tokenVars, threadVars
<1>0. \A t \in Threads : held[t] # None => held[t] \in Conns /\ connPid[held[t]] # NoPid
  BY DEF Holding, HeldIsMade
<1>m. ASSUME poolPid = pid, NEW c \in Elems(available) \cup inUse
      PROVE  c \in Conns /\ connPid[c] # NoPid
  <2>1. c \in Conns
    BY <1>m DEF Elems
  <2>2. connPid[c] = pid
    BY <1>m, <2>1 DEF Collections
  <2> QED
    BY <2>1, <2>2 DEF NoPid
<1>1. ASSUME NEW t \in Threads, Call(t) PROVE NothingWaits'
  BY <1>1 DEF Call, CallWith
<1>2. ASSUME NEW t \in Threads, CallReAuth(t) PROVE NothingWaits'
  BY <1>2 DEF CallReAuth, CallWith
<1>3. ASSUME NEW t \in Threads, CheckPid(t) PROVE NothingWaits'
  BY <1>3 DEF CheckPid
<1>4. ASSUME NEW t \in Threads, AcquireForkLock(t) PROVE NothingWaits'
  BY <1>4 DEF AcquireForkLock
<1>5. ASSUME NEW t \in Threads, ForkLockTimeout(t) PROVE NothingWaits'
  BY <1>5 DEF ForkLockTimeout
<1>6. ASSUME NEW t \in Threads, RecheckPid(t) PROVE NothingWaits'
  BY <1>6 DEF RecheckPid
<1>7. ASSUME NEW t \in Threads, ResetCollections(t) PROVE NothingWaits'
  BY <1>7 DEF ResetCollections, Passed
<1>8. ASSUME NEW t \in Threads, ResetPid(t) PROVE NothingWaits'
  <2>1. available = <<>>
    BY <1>8 DEF ResetPid, Passed
  <2>2. UNCHANGED <<available, connPid, sock, reAuth>>
    BY <1>8 DEF ResetPid
  <2>3. Elems(available') = {}
    BY <2>1, <2>2 DEF Elems
  <2> QED
    BY <2>2, <2>3
<1>9. ASSUME NEW t \in Threads, AcquireLock(t) PROVE NothingWaits'
  BY <1>9 DEF AcquireLock
<1>10. ASSUME NEW t \in Threads, PopConnection(t) PROVE NothingWaits'
  <2>1. /\ available \in Seq(Conns) /\ available # <<>>
        /\ available' = Pop(available)
        /\ UNCHANGED <<pid, poolPid, connPid, sock, reAuth>>
    BY <1>10 DEF PopConnection
  <2>2. Elems(available') \subseteq Elems(available)
    BY <2>1, PopLemma
  <2> QED
    BY <2>1, <2>2
<1>11. ASSUME NEW t \in Threads, MakeConnection(t) PROVE NothingWaits'
  BY <1>11 DEF MakeConnection, Critical, Take
<1>12. ASSUME NEW t \in Threads, TooManyConnections(t) PROVE NothingWaits'
  BY <1>12 DEF TooManyConnections, Critical
<1>13. ASSUME NEW t \in Threads, Connect(t) PROVE NothingWaits'
  BY <1>13 DEF Connect
<1>14. ASSUME NEW t \in Threads, Handshake(t) PROVE NothingWaits'
  <2>1. held[t] # None
    BY <1>14 DEF Handshake, Holding, WorksOnMine, Working
  <2> QED
    BY <1>14, <1>0, <2>1 DEF Handshake, Elems
<1>15. ASSUME NEW t \in Threads, HandshakeFails(t) PROVE NothingWaits'
  BY <1>15 DEF HandshakeFails
<1>16. ASSUME NEW t \in Threads, CanRead(t) PROVE NothingWaits'
  BY <1>16 DEF CanRead
<1>17. ASSUME NEW t \in Threads, ReleaseConnection(t) PROVE NothingWaits'
  <2> DEFINE c == held[t]
  <2>1. /\ poolPid = pid /\ c \in inUse
        /\ UNCHANGED <<pid, poolPid, connPid>>
    BY <1>17 DEF ReleaseConnection, Critical, Passed
  <2>2. c \in Conns /\ connPid[c] # NoPid
    BY <1>m, <2>1
  <2>3. Owns(c)
    BY <2>1 DEF Owns, Collections
  <2>4. available' = Append(available, c) /\ ReAuthOutcome(c)
    BY <1>17, <2>3 DEF ReleaseConnection
  <2>5. Elems(available') = Elems(available) \cup {c}
    BY <2>2, <2>4, AppendLemma
  <2> HIDE DEF c
  <2>6. /\ reAuth' \in [Conns -> Nat] /\ reAuth'[c] = NoToken
        /\ \A d \in Conns : d # c => reAuth'[d] = reAuth[d] /\ sock'[d] = sock[d]
    <3>1. CASE reAuth[c] = NoToken /\ UNCHANGED <<sock, reAuth>>
      BY <2>2, <3>1
    <3>2. CASE /\ reAuth' = [reAuth EXCEPT ![c] = NoToken]
               /\ sock' = [sock EXCEPT ![c] =
                             IF @ \in {"closed", "dead"} THEN "ready" ELSE @]
      BY <2>2, <3>2
    <3> QED
      BY <2>4, <3>1, <3>2 DEF ReAuthOutcome
  <2>7. \A d \in Elems(available) : d \in Conns
    BY <1>m, <2>1
  <2> QED
    BY <2>1, <2>2, <2>5, <2>6, <2>7
<1>18. ASSUME NEW t \in Threads, ReleaseUnknown(t) PROVE NothingWaits'
  BY <1>18 DEF ReleaseUnknown, Critical
<1>19. ASSUME NEW t \in Threads, Disconnect(t) PROVE NothingWaits'
  BY <1>19 DEF Disconnect, Critical
<1>20. ASSUME NEW t \in Threads, ReAuthAll(t) PROVE NothingWaits'
  <2>1. poolPid = pid /\ UNCHANGED <<pid, poolPid, connPid, available>>
    BY <1>20 DEF ReAuthAll, Critical, Passed
  <2>2. \A c \in Elems(available) : c \notin inUse /\ c \in Conns
    BY <1>m, <2>1 DEF Collections
  <2>3. \A c \in Conns : connPid[c] = NoPid => c \notin Elems(available) /\ c \notin inUse
    BY <1>m, <2>1
  <2> QED
    BY <1>20, <2>1, <2>2, <2>3 DEF ReAuthAll, Elems
<1>21. ASSUME NEW t \in Threads, ReAuthFails(t) PROVE NothingWaits'
  <2>1. /\ poolPid = pid
        /\ UNCHANGED <<pid, poolPid, connPid, available, reAuth>>
    BY <1>21 DEF ReAuthFails, Critical, Passed
  <2>2. PICK n \in 1..Len(available) :
          LET done == {available[i] : i \in 1..(n - 1)} IN
          sock' = [c \in Conns |->
                     IF c = available[n] THEN "closed"
                     ELSE IF c \in done /\ sock[c] \in {"closed", "dead"}
                       THEN "ready" ELSE sock[c]]
    BY <1>21 DEF ReAuthFails
  <2>3. {available[i] : i \in 1..(n - 1)} \subseteq Elems(available)
    BY DEF Elems
  <2>4. \A c \in Conns : connPid[c] = NoPid => c \notin {available[i] : i \in 1..(n - 1)}
    BY <1>m, <2>1, <2>3
  <2>5. \A c \in Conns : connPid[c] = NoPid => sock'[c] = "closed"
    BY <2>2, <2>4
  <2> QED
    BY <2>1, <2>5 DEF Elems
<1>22. ASSUME NEW t \in Threads, UseConnection(t) PROVE NothingWaits'
  BY <1>22, <1>0 DEF UseConnection, Elems
<1>23. ASSUME NEW t \in Threads, Fork(t) PROVE NothingWaits'
  BY <1>23 DEF Fork, Passed
<1>24. ASSUME NEW c \in Conns, NetworkEvent(c) PROVE NothingWaits'
  BY <1>24 DEF NetworkEvent
<1>25. CASE UNCHANGED vars
  BY <1>25 DEF vars
<1> QED
  BY <1>1, <1>2, <1>3, <1>4, <1>5, <1>6, <1>7, <1>8, <1>9, <1>10, <1>11,
     <1>12, <1>13, <1>14, <1>15, <1>16, <1>17, <1>18, <1>19, <1>20, <1>21,
     <1>22, <1>23, <1>24, <1>25 DEF Next, Step

\* Between two renewals every connection that gets a socket was told.
LEMMA AllToldStep ==
  ASSUME ~ReleaseAuthFails, IInv, Renewal, [Next]_vars
  PROVE  AllTold'
<1> USE PoolAssumption DEF IInv, TypeOK, Renewal, OneCallback, NothingWaits, AllTold,
        Told, Mine, NoToken, Goto, Leave, poolVars, connVars, tokenVars, threadVars
<1>m. ASSUME poolPid = pid, NEW c \in Conns, connPid[c] = pid
      PROVE  c \in Elems(available) \/ c \in inUse
  BY <1>m DEF Collections
<1>1. ASSUME NEW t \in Threads, Call(t) PROVE AllTold'
  BY <1>1 DEF Call, CallWith
<1>2. ASSUME NEW t \in Threads, CallReAuth(t) PROVE AllTold'
  BY <1>2 DEF CallReAuth, CallWith
<1>3. ASSUME NEW t \in Threads, CheckPid(t) PROVE AllTold'
  BY <1>3 DEF CheckPid
<1>4. ASSUME NEW t \in Threads, AcquireForkLock(t) PROVE AllTold'
  BY <1>4 DEF AcquireForkLock
<1>5. ASSUME NEW t \in Threads, ForkLockTimeout(t) PROVE AllTold'
  BY <1>5 DEF ForkLockTimeout
<1>6. ASSUME NEW t \in Threads, RecheckPid(t) PROVE AllTold'
  BY <1>6 DEF RecheckPid
<1>7. ASSUME NEW t \in Threads, ResetCollections(t) PROVE AllTold'
  BY <1>7 DEF ResetCollections
<1>8. ASSUME NEW t \in Threads, ResetPid(t) PROVE AllTold'
  <2>1. pc[t] = "resetpid" /\ pid' = pid /\ connPid' = connPid
    BY <1>8 DEF ResetPid
  <2>2. poolPid # pid
    BY <2>1 DEF Passed
  <2>3. \A c \in Conns : connPid[c] # pid
    BY <2>2 DEF Births
  <2>4. \A u \in Threads : pc'[u] # "handshake"
    BY <1>8, <2>2 DEF ResetPid, Passed, Working
  <2> QED
    BY <2>1, <2>3, <2>4
<1>9. ASSUME NEW t \in Threads, AcquireLock(t) PROVE AllTold'
  BY <1>9 DEF AcquireLock
<1>10. ASSUME NEW t \in Threads, PopConnection(t) PROVE AllTold'
  BY <1>10 DEF PopConnection, Critical, Take
<1>11. ASSUME NEW t \in Threads, MakeConnection(t) PROVE AllTold'
  BY <1>11 DEF MakeConnection, Critical, Take
<1>12. ASSUME NEW t \in Threads, TooManyConnections(t) PROVE AllTold'
  BY <1>12 DEF TooManyConnections, Critical
<1>13. ASSUME NEW t \in Threads, Connect(t) PROVE AllTold'
  <2>1. held[t] \in Conns /\ connPid[held[t]] = pid
    BY <1>13 DEF Connect, Holding, WorksOnMine, Working
  <2>2. UNCHANGED <<pid, poolPid, connPid, sock, reAuth, token, renewed, held>>
    BY <1>13 DEF Connect
  <2>3. CASE auth' = auth /\ pc' = [pc EXCEPT ![t] = "canread"]
    BY <2>2, <2>3
  <2>4. CASE /\ auth' = [auth EXCEPT ![held[t]] = token]
             /\ pc' = [pc EXCEPT ![t] = "handshake"]
    <3>1. \A c \in Conns : Told(c) => Told(c)'
      BY <2>2, <2>4
    <3>2. Told(held[t])'
      BY <2>1, <2>2, <2>4
    <3>3. \A u \in Threads : pc[u] = "handshake" => held[u] \in Conns
      BY DEF Holding, WorksOnMine, Working
    <3> HIDE DEF Told
    <3> QED
      BY <2>2, <2>4, <3>1, <3>2, <3>3
  <2> QED
    BY <1>13, <2>3, <2>4 DEF Connect
<1>14. ASSUME NEW t \in Threads, Handshake(t) PROVE AllTold'
  BY <1>14 DEF Handshake
<1>15. ASSUME NEW t \in Threads, HandshakeFails(t) PROVE AllTold'
  BY <1>15 DEF HandshakeFails
<1>16. ASSUME NEW t \in Threads, CanRead(t) PROVE AllTold'
  BY <1>16 DEF CanRead
<1>17. ASSUME NEW t \in Threads, ReleaseConnection(t) PROVE AllTold'
  <2> DEFINE c == held[t]
  <2>1. /\ poolPid = pid /\ c \in inUse /\ c \in Conns /\ pc[t] = "crit"
        /\ UNCHANGED <<pid, poolPid, connPid, token, renewed>>
        /\ held' = [held EXCEPT ![t] = None]
        /\ pc' = [pc EXCEPT ![t] = "app"]
    BY <1>17 DEF ReleaseConnection, Critical, Passed
  <2>2. Owns(c) /\ connPid[c] = pid
    BY <2>1 DEF Owns, Collections
  <2>3. ReAuthOutcome(c)
    BY <1>17, <2>2 DEF ReleaseConnection
  <2>4. ASSUME NEW u \in Threads, u # t, pc[u] = "handshake"
        PROVE  held[u] \in Conns /\ held[u] # c
    BY <2>1, <2>4 DEF Holding, WorksOnMine, Working, HeldOnce
  <2> HIDE DEF c
  <2>5. \A d \in Conns : d # c => reAuth'[d] = reAuth[d] /\ sock'[d] = sock[d]
                                  /\ auth'[d] = auth[d]
    BY <2>1, <2>3 DEF ReAuthOutcome
  <2>6. ASSUME renewed
        PROVE  reAuth'[c] = NoToken /\ (sock'[c] # "closed" => auth'[c] = token)
    <3>1. CASE reAuth[c] = NoToken /\ UNCHANGED <<sock, auth, reAuth>>
      BY <2>1, <2>2, <2>6, <3>1
    <3>2. CASE /\ reAuth[c] # NoToken
               /\ auth' = [auth EXCEPT ![c] = reAuth[c]]
               /\ reAuth' = [reAuth EXCEPT ![c] = NoToken]
      BY <2>1, <2>2, <2>6, <3>2
    <3> QED
      BY <2>3, <3>1, <3>2 DEF ReAuthOutcome
  <2>7. ASSUME renewed, NEW u \in Threads, pc'[u] = "handshake"
        PROVE  Told(held[u])'
    <3>1. u # t /\ pc[u] = "handshake"
      BY <2>1, <2>7
    <3>2. held'[u] = held[u] /\ held[u] \in Conns /\ held[u] # c
      BY <2>1, <2>4, <3>1
    <3> QED
      BY <2>1, <2>5, <2>7, <3>1, <3>2
  <2>8. ASSUME renewed, NEW d \in Mine'
        PROVE  /\ reAuth'[d] \in {NoToken, token}
               /\ sock'[d] # "closed" => Told(d)'
    <3>1. d \in Mine /\ d \in Conns
      BY <2>1 DEF Mine
    <3>2. CASE d = c
      BY <2>1, <2>6, <2>8, <3>2
    <3>3. CASE d # c
      BY <2>1, <2>5, <2>8, <3>1, <3>3
    <3> QED
      BY <3>2, <3>3
  <2> QED
    BY <2>1, <2>7, <2>8
<1>18. ASSUME NEW t \in Threads, ReleaseUnknown(t) PROVE AllTold'
  BY <1>18 DEF ReleaseUnknown, Critical
<1>19. ASSUME NEW t \in Threads, Disconnect(t) PROVE AllTold'
  BY <1>19 DEF Disconnect, Critical
<1>20. ASSUME NEW t \in Threads, ReAuthAll(t) PROVE AllTold'
  <2>1. /\ poolPid = pid
        /\ UNCHANGED <<pid, poolPid, connPid, available, inUse, token, held>>
        /\ pc' = [pc EXCEPT ![t] = "app"]
    BY <1>20 DEF ReAuthAll, Critical, Passed
  <2>2. \A c \in Conns :
          /\ c \in Elems(available) => auth'[c] = token /\ reAuth[c] = NoToken
          /\ c \in inUse => reAuth'[c] = token
          /\ c \notin inUse => reAuth'[c] = reAuth[c]
    BY <1>20, <2>1 DEF ReAuthAll
  <2>3. \A c \in Mine : Told(c)' /\ reAuth'[c] \in {NoToken, token}
    BY <1>m, <2>1, <2>2
  <2>4. \A u \in Threads : pc'[u] = "handshake" => held[u] \in Mine
    BY <2>1 DEF Holding, WorksOnMine, Working
  <2>5. Mine' = Mine
    BY <2>1
  <2> HIDE DEF Mine, Told
  <2> QED
    BY <2>1, <2>3, <2>4, <2>5
<1>21. ASSUME NEW t \in Threads, ReAuthFails(t) PROVE AllTold'
  BY <1>21 DEF ReAuthFails, Critical
<1>22. ASSUME NEW t \in Threads, UseConnection(t) PROVE AllTold'
  BY <1>22 DEF UseConnection
<1>23. ASSUME NEW t \in Threads, Fork(t) PROVE AllTold'
  BY <1>23 DEF Fork, Passed
<1>24. ASSUME NEW c \in Conns, NetworkEvent(c) PROVE AllTold'
  BY <1>24 DEF NetworkEvent
<1>25. CASE UNCHANGED vars
  BY <1>25 DEF vars
<1> QED
  BY <1>1, <1>2, <1>3, <1>4, <1>5, <1>6, <1>7, <1>8, <1>9, <1>10, <1>11,
     <1>12, <1>13, <1>14, <1>15, <1>16, <1>17, <1>18, <1>19, <1>20, <1>21,
     <1>22, <1>23, <1>24, <1>25 DEF Next, Step

\* When no AUTH fails on release, a renewal reaches every open connection of
\* the pool, for any number of threads, connections, renewals and forks.
THEOREM RenewalReachesAll ==
  ASSUME ~ReleaseAuthFails
  PROVE  Spec => []RenewalReaches
<1>1. Init => Renewal
  BY DEF Init, Renewal, OneCallback, NothingWaits, AllTold, Told, Elems, NoToken,
         NoPid, Mine
<1>2. IInv /\ Renewal /\ [Next]_vars => Renewal'
  BY OneCallbackStep, NothingWaitsStep, AllToldStep DEF Renewal, IInv
<1>3. Renewal => RenewalReaches
  BY DEF Renewal, AllTold, Told, RenewalReaches
<1> QED
  BY <1>1, <1>2, <1>3, Invariance, PTL DEF Spec
-----------------------------------------------------------------------------
(***************************************************************************)
(* The pool implements PoolContract.  Popping and making a connection in   *)
(* the critical section of get_connection are the contract's Reuse and     *)
(* Create, the two forms of release its GiveBack, a fork its Fork;         *)
(* everything else the contract does not see.                              *)
(***************************************************************************)
\* The contract counts with the same Cardinality.
LEMMA SameCardinality == \A S : Contract!Cardinality(S) = Cardinality(S)
  BY Zenon DEF Contract!Cardinality, Cardinality

\* An idle connection is one of this process that nobody holds.
LEMMA PopIsReuse ==
  ASSUME IInv, NEW t \in Threads, PopConnection(t)
  PROVE  \E c \in Conns : Contract!Reuse(t, c)
<1> USE DEF IInv, TypeOK
<1> DEFINE c == Top(available)
<1>1. /\ UNCHANGED <<pid, connPid>>
      /\ poolPid = pid
      /\ held' = [held EXCEPT ![t] = c]
      /\ held[t] = None
  BY DEF PopConnection, Critical, Take, Passed, Holding, AsksWithNone, BeforeTake,
         connVars
<1>2. c \in Conns /\ c \in Elems(available)
  BY PopLemma DEF PopConnection
<1> HIDE DEF c
<1>3. connPid[c] = pid /\ c \notin inUse
  BY <1>1, <1>2 DEF Collections
<1>4. c # None
  BY <1>2, PoolAssumption
<1>5. \A u \in Threads : held[u] # c
  BY <1>3, <1>4 DEF Holding, HeldIsInUse
<1>6. Contract!Reuse(t, c)
  BY <1>1, <1>3, <1>5 DEF Contract!Reuse, Contract!Give, Contract!Free
<1> QED
  BY <1>2, <1>6

\* make_connection counts before it creates, and the count is exact.
LEMMA MakeIsCreate ==
  ASSUME IInv, NEW t \in Threads, MakeConnection(t)
  PROVE  \E c \in Conns : Contract!Create(t, c)
<1> USE DEF IInv, TypeOK
<1>1. PICK c \in Conns : /\ connPid[c] = NoPid
                         /\ connPid' = [connPid EXCEPT ![c] = pid]
                         /\ Take(t, c)
  BY DEF MakeConnection
<1>2. /\ UNCHANGED pid
      /\ poolPid = pid
      /\ created < MaxConnections
      /\ held' = [held EXCEPT ![t] = c]
      /\ held[t] = None
  BY <1>1 DEF MakeConnection, Critical, Take, Passed, Holding, AsksWithNone,
              BeforeTake
<1>3. Contract!Cardinality(Contract!Made) < MaxConnections
  BY <1>2, SameCardinality DEF Count, Mine, Contract!Made
<1>4. Contract!Create(t, c)
  <2>1. connPid[c] = Contract!NoPid
    BY <1>1 DEF Contract!NoPid, NoPid
  <2>2. Contract!Give(t, c)
    BY <1>2 DEF Contract!Give
  <2> QED
    BY ONLY <1>1, <1>2, <1>3, <2>1, <2>2 DEF Contract!Create
<1> QED
  BY <1>4

\* Who releases has something to release, or the contract sees nothing.
LEMMA ReleaseIsGiveBack ==
  ASSUME IInv, NEW t \in Threads, ReleaseConnection(t) \/ ReleaseUnknown(t)
  PROVE  Contract!GiveBack(t) \/ UNCHANGED Contract!vars
<1> USE DEF IInv, TypeOK
<1>1. UNCHANGED <<pid, connPid>> /\ held' = [held EXCEPT ![t] = None]
  BY DEF ReleaseConnection, ReleaseUnknown, connVars
<1>2. CASE held[t] # None
  BY <1>1, <1>2 DEF Contract!GiveBack
<1>3. CASE held[t] = None
  BY <1>1, <1>3 DEF Contract!vars
<1> QED
  BY <1>2, <1>3

\* Every step is one of the contract's or invisible to it.
LEMMA ContractStep ==
  ASSUME IInv, [Next]_vars
  PROVE  [Contract!Next]_(Contract!vars)
<1>1. CASE Quiet
  BY <1>1 DEF Quiet, Contract!vars
<1>2. ASSUME NEW t \in Threads, ResetCollections(t) \/ ResetPid(t)
      PROVE  UNCHANGED Contract!vars
  BY <1>2 DEF ResetCollections, ResetPid, connVars, Contract!vars
<1>3. ASSUME NEW t \in Threads, Fork(t) PROVE Contract!Fork(t)
  BY <1>3 DEF Fork, connVars, Contract!Fork
<1> QED
  BY <1>1, <1>2, <1>3, QuietStep, PopIsReuse, MakeIsCreate, ReleaseIsGiveBack
  DEF Moves, Contract!Next

\* The pool keeps the contract of a pool, in the process that made it and in
\* every forked child.
THEOREM KeepsTheContract == Spec => ImplementsPoolContract
<1>1. Init => Contract!Init
  BY DEF Init, Contract!Init, Contract!NoPid, NoPid
<1> QED
  BY <1>1, ContractStep, Invariance, PTL
  DEF Spec, ImplementsPoolContract, Contract!Spec
=============================================================================
