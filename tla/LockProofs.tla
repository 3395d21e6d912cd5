----------------------------- MODULE LockProofs -----------------------------
(***************************************************************************)
(* What a lease is worth, for any number of threads, any timeout but 0,    *)
(* any extension, and any pattern of lost, late and repeated requests, as  *)
(* long as no request for the same token has failed (doubt).               *)
(***************************************************************************)
EXTENDS Lock, TLAPS

(***************************************************************************)
(* The inductive invariant: what the server stores (Lease) and what the    *)
(* clients may still ask of it (Requests).                                 *)
(***************************************************************************)
\* extend() and reacquire() are never sent for a lock without timeout.
Sendable(r) == r \in Request /\ (r.op \in {"extend", "reacquire"} => Timeout > 0)

Requests ==
  /\ pc \in [Threads -> {"idle", "sent", "replied", "sleep"}]
  /\ req = [t \in Threads |-> req[t]]
  /\ local = [t \in Threads |-> local[t]]
  /\ drawn \in [Threads -> Nat]
  /\ \A t \in Threads : pc[t] # "idle" => Sendable(req[t])
  /\ \A r \in stray : Sendable(r) /\ r.token \in doubt

StoreType ==
  /\ ttl \in (Nat \ {0}) \cup {Forever}
  /\ promise \in [Tokens -> Nat \cup {Forever}]

\* Only a lock without timeout is promised for ever.
NoEndOnlyWithout == \A k \in Tokens : promise[k] = Forever => Timeout = Forever

Lease == StoreType /\ NoEndOnlyWithout /\ LeaseHonoured /\ TTLCoversPromise

IInv == Requests /\ Lease
-----------------------------------------------------------------------------

\* What one request may do to the store: take a free lock, give the lock up, or
\* change how long its own token has it.
Takes(k) ==
  /\ key = None
  /\ key' = k
  /\ ttl' = Lifetime
GivesUp(k) ==
  /\ key = k
  /\ key' = None
  /\ ttl' = Forever
Renews(k) ==
  /\ key = k
  /\ key' = k
  /\ ttl' \in Nat \ {0}

\* Every request has one of these effects, or none, and says so.  What it says is
\* covered by the lease unless the token is in doubt.
LEMMA Effects ==
  ASSUME Timeout # 0, Lease, NEW r, Sendable(r), Execute(r)
  PROVE  \/ ~Reply(r).ok /\ UNCHANGED <<key, ttl>>
         \/ Reply(r).ok /\ Takes(r.token) /\ Promised(r) = Lifetime
         \/ Reply(r).ok /\ GivesUp(r.token) /\ Promised(r) = 0
         \/ /\ Reply(r).ok /\ Renews(r.token) /\ Promised(r) \in Nat
            /\ r.token \notin doubt => Promised(r) \in 0..ttl'
<1> USE LockAssumption
<1>0. r.token \in Tokens /\ r.op \in Scripts /\ r.add \in Nat /\ r.replace \in BOOLEAN
  BY DEF Sendable, Request
<1>1. CASE r.op = "set"
  BY <1>1 DEF Execute, Reply, SetNX, Promised, Takes, Unchanged
<1>2. CASE r.op = "release"
  BY <1>2 DEF Execute, Reply, ReleaseScript, Promised, GivesUp, Unchanged
<1>3. CASE r.op = "reacquire"
  <2>1. Timeout \in Nat \ {0} /\ Timeout > 0
    BY <1>3 DEF Sendable, Forever
  <2>2. Lifetime = Timeout
    BY <2>1 DEF Lifetime
  <2>3. Timeout \in 0..Timeout
    BY <2>1
  <2> QED
    BY <1>3, <2>1, <2>2, <2>3
    DEF Execute, Reply, ReacquireScript, PExpire, Promised, Renews, Unchanged
<1>4. CASE r.op = "extend"
  <2>1. CASE key # r.token \/ ttl < 0
    BY <1>4, <2>1 DEF Execute, Reply, ExtendScript, Unchanged
  <2>2. CASE ~(key # r.token \/ ttl < 0) /\ r.replace
    <3>1. Reply(r) = PExpire(r.add) /\ Promised(r) = r.add
      BY <1>4, <2>2 DEF Reply, ExtendScript, Promised
    <3>3. CASE r.add > 0
      <4>1. key' = key /\ ttl' = r.add
        BY <3>1, <3>3 DEF Execute, PExpire
      <4>2. r.add \in 0..r.add /\ r.add \in Nat \ {0}
        BY <1>0, <3>3
      <4> QED
        BY <2>2, <3>1, <4>1, <4>2 DEF Renews, PExpire
    <3>4. CASE r.add = 0
      <4>1. key' = None /\ ttl' = Forever
        BY <3>1, <3>4 DEF Execute, PExpire
      <4> QED
        BY <2>2, <3>1, <3>4, <4>1 DEF GivesUp, PExpire
    <3> QED
      BY <1>0, <3>3, <3>4
  <2>3. CASE ~(key # r.token \/ ttl < 0) /\ ~r.replace
    <3>1. Reply(r) = PExpire(r.add + ttl) /\ Promised(r) = promise[r.token] + r.add
      BY <1>4, <2>3 DEF Reply, ExtendScript, Promised
    <3>2. /\ ttl \in Nat \ {0} /\ promise[r.token] \in Nat
          /\ r.token \notin doubt => promise[r.token] \in 0..ttl
      BY <1>0, <1>4, <2>3
      DEF Lease, StoreType, NoEndOnlyWithout, TTLCoversPromise, Sendable, Forever
    <3>3. /\ r.add + ttl \in Nat \ {0}
          /\ r.add + ttl > 0
          /\ promise[r.token] + r.add \in Nat
          /\ r.token \notin doubt => promise[r.token] + r.add \in 0..(r.add + ttl)
      BY <1>0, <3>2
    <3>4. key' = r.token /\ ttl' = r.add + ttl
      BY <2>3, <3>1, <3>3 DEF Execute, PExpire
    <3> QED
      BY <2>3, <3>1, <3>3, <3>4 DEF Renews, PExpire
  <2> QED
    BY <2>1, <2>2, <2>3
<1> QED
  BY <1>0, <1>1, <1>2, <1>3, <1>4 DEF Scripts

\* A request whose caller waits, executed for the first time or again, leaves
\* every promise covered.
LEMMA AnsweredLease ==
  ASSUME Timeout # 0, Lease, NEW r, Sendable(r), Execute(r), UNCHANGED doubt,
         promise' = IF Reply(r).ok THEN [promise EXCEPT ![r.token] = Promised(r)]
                                   ELSE promise
  PROVE  Lease'
<1> DEFINE k == r.token
           p == Promised(r)
           Told == promise' = [promise EXCEPT ![k] = p]
           OthersFree == \A j \in Tokens \ doubt : j # k => promise[j] = 0
           Covered == k \notin doubt =>
                        \/ p = 0
                        \/ key' = k /\ (ttl' # Forever => p \in 1..ttl')
<1>0. k \in Tokens
  BY DEF Sendable, Request
<1>1. \/ UNCHANGED <<key, ttl, promise>>
      \/ Takes(k) /\ p = Lifetime /\ Told
      \/ GivesUp(k) /\ p = 0 /\ Told
      \/ Renews(k) /\ p \in Nat /\ (k \notin doubt => p \in 0..ttl') /\ Told
  BY Effects
<1> HIDE DEF k, p
<1>3. None \notin Tokens
  BY LockAssumption DEF Tokens
<1>4. Lifetime \in (Nat \ {0}) \cup {Forever} /\ (Lifetime = Forever => Timeout = Forever)
  BY LockAssumption DEF Lifetime, Forever
<1> USE DEF Lease, StoreType, NoEndOnlyWithout, LeaseHonoured, TTLCoversPromise, Forever
<1>5. CASE UNCHANGED <<key, ttl, promise>>
  BY <1>5
<1>6. ASSUME Told, p \in Nat \cup {Forever}, p = Forever => Timeout = Forever,
             ttl' \in (Nat \ {0}) \cup {Forever}, OthersFree, Covered
      PROVE  Lease'
  <2>1. \A j \in Tokens : promise'[j] = IF j = k THEN p ELSE promise[j]
    BY <1>0, <1>6
  <2>2. promise' \in [Tokens -> Nat \cup {Forever}]
    BY <1>0, <1>6
  <2>3. \A j \in Tokens \ doubt : promise'[j] # 0 => j = k /\ p # 0
    BY <1>6, <2>1
  <2>4. StoreType' /\ NoEndOnlyWithout' /\ LeaseHonoured'
    BY <1>6, <2>1, <2>2, <2>3
  <2>5. TTLCoversPromise'
    BY <1>6, <2>1, <2>3
  <2> QED
    BY <2>4, <2>5
<1> HIDE DEF Lease, Told, OthersFree, Covered
<1>7. CASE Takes(k) /\ p = Lifetime /\ Told
  <2>1. OthersFree
    BY <1>3, <1>7 DEF Takes, Lease, OthersFree
  <2>2. Covered
    BY <1>4, <1>7 DEF Takes, Covered
  <2> QED
    BY <1>4, <1>6, <1>7, <2>1, <2>2 DEF Takes
<1>8. CASE GivesUp(k) /\ p = 0 /\ Told
  <2>1. OthersFree
    BY <1>8 DEF GivesUp, Lease, OthersFree
  <2>2. Covered
    BY <1>8 DEF Covered
  <2> QED
    BY <1>6, <1>8, <2>1, <2>2 DEF GivesUp
<1>9. CASE Renews(k) /\ p \in Nat /\ (k \notin doubt => p \in 0..ttl') /\ Told
  <2>1. OthersFree
    BY <1>9 DEF Renews, Lease, OthersFree
  <2>2. Covered
    BY <1>9 DEF Renews, Covered
  <2> QED
    BY <1>6, <1>9, <2>1, <2>2 DEF Renews
<1> QED
  BY <1>1, <1>5, <1>7, <1>8, <1>9

\* A late request is one of a token in doubt: no other token loses by it.
LEMMA StrayLease ==
  ASSUME Timeout # 0, Lease, NEW r, Sendable(r), r.token \in doubt, Execute(r),
         UNCHANGED <<promise, doubt>>
  PROVE  Lease'
<1> DEFINE k == r.token
<1>1. UNCHANGED <<key, ttl>> \/ Takes(k) \/ GivesUp(k) \/ Renews(k)
  BY Effects
<1> HIDE DEF k
<1>2. k \in doubt
  BY DEF k
<1>3. None \notin Tokens
  BY LockAssumption DEF Tokens
<1> USE DEF Lease, StoreType, NoEndOnlyWithout, LeaseHonoured, TTLCoversPromise, Forever
<1>4. CASE UNCHANGED <<key, ttl>>
  BY <1>4
<1>5. CASE Takes(k)
  <2>1. Lifetime \in (Nat \ {0}) \cup {Forever}
    BY LockAssumption DEF Lifetime
  <2>2. \A j \in Tokens \ doubt : promise[j] = 0
    BY <1>3, <1>5 DEF Takes
  <2> QED
    BY <1>5, <2>1, <2>2 DEF Takes
<1>6. CASE GivesUp(k) \/ Renews(k)
  <2>1. \A j \in Tokens \ doubt : promise[j] = 0
    BY <1>2, <1>6 DEF GivesUp, Renews
  <2> QED
    BY <1>6, <2>1 DEF GivesUp, Renews
<1> QED
  BY <1>1, <1>4, <1>5, <1>6

\* Time shortens the lease and the promise together.
LEMMA TickLease ==
  ASSUME Lease, Tick
  PROVE  Lease'
<1> USE DEF Lease, StoreType, NoEndOnlyWithout, LeaseHonoured, TTLCoversPromise, Forever
<1>1. ttl \in Nat \ {0}
  BY DEF Tick
<1>2. ttl' \in (Nat \ {0}) \cup {Forever}
  BY <1>1 DEF Tick
<1>3. \A k \in Tokens \ doubt : promise[k] \in 0..ttl
  BY <1>1
<1>4. \A k \in Tokens : promise'[k] = IF promise[k] > 0 THEN promise[k] - 1 ELSE promise[k]
  BY DEF Tick
<1>5. \A k \in Tokens \ doubt : promise'[k] \in 0..(ttl - 1)
  BY <1>1, <1>3, <1>4
<1>6. promise' \in [Tokens -> Nat \cup {Forever}] /\ NoEndOnlyWithout'
  BY <1>4 DEF Tick
<1>7. doubt' = doubt
  BY DEF Tick
<1>8. CASE ttl = 1
  BY <1>2, <1>5, <1>6, <1>7, <1>8 DEF Tick
<1>9. CASE ttl # 1
  <2>1. key' = key /\ ttl' = ttl - 1
    BY <1>9 DEF Tick
  <2>2. \A k \in Tokens : promise'[k] # 0 => promise[k] # 0
    BY <1>4
  <2> QED
    BY <1>1, <1>2, <1>5, <1>6, <1>7, <2>1, <2>2
<1> QED
  BY <1>8, <1>9

\* Every request that is on its way is one the calls above could send.
LEMMA RequestsStep ==
  ASSUME Timeout # 0, Requests, [Next]_vars
  PROVE  Requests'
<1> USE LockAssumption DEF Requests, keyVars
<1>1. ASSUME NEW t \in Threads, Acquire(t) PROVE Requests'
  <2>1. <<t, drawn[t] + 1>> \in Tokens
    BY <1>1 DEF Acquire, Tokens
  <2> DEFINE r == [op |-> "set", token |-> <<t, drawn[t] + 1>>, add |-> 0,
                   replace |-> FALSE]
  <2>2. Sendable(r)
    BY <2>1 DEF Sendable, Request, Scripts
  <2>3. /\ UNCHANGED <<local, stray, doubt>>
        /\ pc' = [pc EXCEPT ![t] = "sent"]
        /\ req' = [req EXCEPT ![t] = r]
    BY <1>1 DEF Acquire, Send
  <2>4. drawn' \in [Threads -> Nat]
    BY <1>1 DEF Acquire
  <2> HIDE DEF r
  <2> QED
    BY <2>2, <2>3, <2>4
<1>2. ASSUME NEW t \in Threads, AcquireReply(t) PROVE Requests'
  BY <1>2 DEF AcquireReply, Finish, SetLocal
<1>3. ASSUME NEW t \in Threads, TryAgain(t) PROVE Requests'
  BY <1>3 DEF TryAgain
<1>4. ASSUME NEW t \in Threads, NoAttribute(t) PROVE Requests'
  BY <1>4 DEF NoAttribute
<1>5. ASSUME NEW t \in Threads, Refused(t) PROVE Requests'
  BY <1>5 DEF Refused
<1>6. ASSUME NEW t \in Threads, Owned(t) PROVE Requests'
  BY <1>6 DEF Owned
<1>7. ASSUME NEW t \in Threads, Release(t) PROVE Requests'
  <2>1. Sendable([op |-> "release", token |-> local[t], add |-> 0,
                  replace |-> FALSE])
    BY <1>7 DEF Release, Sendable, Request, Scripts
  <2> QED
    BY <1>7, <2>1 DEF Release, Send, SetLocal
<1>8. ASSUME NEW t \in Threads, Extend(t) PROVE Requests'
  <2>1. PICK a \in Additions, b \in BOOLEAN :
          Send(t, [op |-> "extend", token |-> local[t], add |-> a, replace |-> b])
    BY <1>8 DEF Extend
  <2>2. Timeout > 0
    BY <1>8 DEF Extend, Forever
  <2>3. Sendable([op |-> "extend", token |-> local[t], add |-> a, replace |-> b])
    BY <1>8, <2>2 DEF Extend, Sendable, Request, Scripts
  <2> QED
    BY <1>8, <2>1, <2>3 DEF Extend, Send
<1>9. ASSUME NEW t \in Threads, Reacquire(t) PROVE Requests'
  <2>1. Timeout > 0
    BY <1>9 DEF Reacquire, Forever
  <2>2. Sendable([op |-> "reacquire", token |-> local[t], add |-> 0,
                  replace |-> FALSE])
    BY <1>9, <2>1 DEF Reacquire, Sendable, Request, Scripts
  <2> QED
    BY <1>9, <2>2 DEF Reacquire, Send
<1>10. ASSUME NEW t \in Threads, ScriptReply(t) PROVE Requests'
  BY <1>10 DEF ScriptReply, Finish
<1>11. ASSUME NEW t \in Threads, ConnectionFails(t) PROVE Requests'
  BY <1>11 DEF ConnectionFails, Finish, Abandon
<1>12. ASSUME NEW t \in Threads, Resend(t) PROVE Requests'
  BY <1>12 DEF Resend, Abandon
<1>13. ASSUME NEW t \in Threads, ServerExecutes(t) PROVE Requests'
  BY <1>13 DEF ServerExecutes, Execute
<1>14. CASE ServerExecutesStray
  BY <1>14 DEF ServerExecutesStray
<1>15. CASE Tick
  BY <1>15 DEF Tick
<1>16. CASE UNCHANGED vars
  BY <1>16 DEF vars
<1> QED
  BY <1>1, <1>2, <1>3, <1>4, <1>5, <1>6, <1>7, <1>8, <1>9, <1>10, <1>11,
     <1>12, <1>13, <1>14, <1>15, <1>16 DEF Next

\* Only the server and the clock touch a lease, and release() the promise.
LEMMA LeaseStep ==
  ASSUME Timeout # 0, Requests, Lease, [Next]_vars
  PROVE  Lease'
<1> USE DEF keyVars, Lease, StoreType, NoEndOnlyWithout, LeaseHonoured,
            TTLCoversPromise
<1>1. ASSUME NEW t \in Threads, Acquire(t) PROVE Lease'
  BY <1>1 DEF Acquire, Send
<1>2. ASSUME NEW t \in Threads, AcquireReply(t) PROVE Lease'
  BY <1>2 DEF AcquireReply, Finish, SetLocal
<1>3. ASSUME NEW t \in Threads, TryAgain(t) PROVE Lease'
  BY <1>3 DEF TryAgain
<1>4. ASSUME NEW t \in Threads, NoAttribute(t) PROVE Lease'
  BY <1>4 DEF NoAttribute
<1>5. ASSUME NEW t \in Threads, Refused(t) PROVE Lease'
  BY <1>5 DEF Refused
<1>6. ASSUME NEW t \in Threads, Owned(t) PROVE Lease'
  BY <1>6 DEF Owned
<1>7. ASSUME NEW t \in Threads, Release(t) PROVE Lease'
  <2>1. CASE promise' = promise
    BY <1>7, <2>1 DEF Release
  <2>2. CASE promise' = [promise EXCEPT ![local[t]] = 0]
    BY <1>7, <2>2 DEF Release, Forever
  <2> QED
    BY <1>7, <2>1, <2>2 DEF Release
<1>8. ASSUME NEW t \in Threads, Extend(t) PROVE Lease'
  BY <1>8 DEF Extend, Send
<1>9. ASSUME NEW t \in Threads, Reacquire(t) PROVE Lease'
  BY <1>9 DEF Reacquire, Send
<1>10. ASSUME NEW t \in Threads, ScriptReply(t) PROVE Lease'
  BY <1>10 DEF ScriptReply, Finish
<1>11. ASSUME NEW t \in Threads, ConnectionFails(t) PROVE Lease'
  BY <1>11 DEF ConnectionFails, Finish
<1>12. ASSUME NEW t \in Threads, Resend(t) PROVE Lease'
  BY <1>12 DEF Resend
<1>13. ASSUME NEW t \in Threads, ServerExecutes(t) PROVE Lease'
  BY <1>13, AnsweredLease DEF ServerExecutes, Requests
<1>14. CASE ServerExecutesStray
  BY <1>14, StrayLease DEF ServerExecutesStray, Requests
<1>15. CASE Tick
  BY <1>15, TickLease
<1>16. CASE UNCHANGED vars
  BY <1>16 DEF vars
<1> QED
  BY <1>1, <1>2, <1>3, <1>4, <1>5, <1>6, <1>7, <1>8, <1>9, <1>10, <1>11,
     <1>12, <1>13, <1>14, <1>15, <1>16 DEF Next

\* The inductive invariant holds in every reachable state.
LEMMA Invariance ==
  ASSUME Timeout # 0
  PROVE  Spec => []IInv
<1>1. Init => IInv
  BY LockAssumption
  DEF Init, IInv, Requests, Tokens, Lease, StoreType, NoEndOnlyWithout, LeaseHonoured,
      TTLCoversPromise, Forever
<1>2. IInv /\ [Next]_vars => IInv'
  BY RequestsStep, LeaseStep DEF IInv
<1> QED
  BY <1>1, <1>2, PTL DEF Spec
-----------------------------------------------------------------------------

\* As long as the time promised to a token lasts and it is not released, the
\* lock is that token's, and so nobody else's, unless a request of that token
\* itself failed or may come late.
THEOREM LeasesAreHonoured ==
  ASSUME Timeout # 0
  PROVE  Spec => []LeaseHonoured
<1>1. IInv => LeaseHonoured
  BY DEF IInv, Lease
<1> QED
  BY <1>1, Invariance, PTL

\* The server never expires a lock earlier than its holder was told, or is about
\* to be told, unless a request of that token failed or may come late.
THEOREM ServerOutlivesPromise ==
  ASSUME Timeout # 0
  PROVE  Spec => []TTLCoversPromise
<1>1. IInv => TTLCoversPromise
  BY DEF IInv, Lease
<1> QED
  BY <1>1, Invariance, PTL
-----------------------------------------------------------------------------
(***************************************************************************)
(* Type correctness, for a timeout of 0 too.  A sum of a promise and an    *)
(* extension is a time only because a lock that never expires is never     *)
(* extended.                                                               *)
(***************************************************************************)
Asked == \A t \in Threads : pc[t] # "idle" => req[t] \in Request
Times ==
  /\ Timeout <= 0 => ttl = Forever
  /\ Timeout > 0 => \A k \in Tokens : promise[k] # Forever

Typed == TypeOK /\ Asked /\ Times

\* What the server stores after a request has its type.
LEMMA ExecuteTyped ==
  ASSUME Typed, NEW r \in Request, Execute(r)
  PROVE  /\ key' \in Tokens \cup {None}
         /\ ttl' \in (Nat \ {0}) \cup {Forever}
         /\ Timeout <= 0 => ttl' = Forever
         /\ Reply(r).ok \in BOOLEAN
         /\ Reply(r).ok => /\ Promised(r) \in Nat \cup {Forever}
                           /\ Timeout > 0 => Promised(r) # Forever
<1> USE LockAssumption DEF Typed, TypeOK, Times, Forever
<1>0. r.token \in Tokens /\ r.op \in Scripts /\ r.add \in Nat /\ r.replace \in BOOLEAN
  BY DEF Request
<1>1. /\ Lifetime \in (Nat \ {0}) \cup {Forever}
      /\ Lifetime = Forever <=> Timeout <= 0
  BY DEF Lifetime
<1>2. CASE r.op = "set"
  BY <1>0, <1>1, <1>2 DEF Execute, Reply, SetNX, Promised, Unchanged
<1>3. CASE r.op = "release"
  BY <1>0, <1>3 DEF Execute, Reply, ReleaseScript, Promised, Unchanged
<1>4. CASE r.op = "reacquire"
  BY <1>0, <1>1, <1>4 DEF Execute, Reply, ReacquireScript, PExpire, Promised, Unchanged
<1>5. CASE r.op = "extend"
  <2>1. CASE key # r.token \/ ttl < 0
    BY <1>0, <1>5, <2>1 DEF Execute, Reply, ExtendScript, Unchanged
  <2>2. CASE ~(key # r.token \/ ttl < 0)
    <3>1. Timeout > 0 /\ ttl \in Nat \ {0} /\ promise[r.token] \in Nat
      BY <1>0, <2>2
    <3> DEFINE ms == IF r.replace THEN r.add ELSE r.add + ttl
    <3>2. ms \in Nat /\ Promised(r) \in Nat
      BY <1>0, <1>5, <3>1 DEF Promised
    <3>3. Reply(r) = PExpire(ms)
      BY <1>5, <2>2 DEF Reply, ExtendScript
    <3> HIDE DEF ms
    <3> QED
      BY <1>0, <3>1, <3>2, <3>3 DEF Execute, PExpire
  <2> QED
    BY <2>1, <2>2
<1> QED
  BY <1>0, <1>2, <1>3, <1>4, <1>5 DEF Scripts

\* Every call, reply and failure keeps the types.
LEMMA TypedStep == Typed /\ [Next]_vars => Typed'
<1> SUFFICES ASSUME Typed, [Next]_vars PROVE Typed'
  OBVIOUS
<1> USE LockAssumption DEF Typed, TypeOK, Asked, Times, keyVars, Results
<1>1. ASSUME NEW t \in Threads, Acquire(t) PROVE Typed'
  <2>1. <<t, drawn[t] + 1>> \in Tokens
    BY <1>1 DEF Acquire, Tokens
  <2> DEFINE r == [op |-> "set", token |-> <<t, drawn[t] + 1>>, add |-> 0,
                   replace |-> FALSE]
  <2>2. r \in Request
    BY <2>1 DEF Request, Scripts
  <2>3. /\ UNCHANGED <<key, ttl, promise, doubt, local, ok, stray>>
        /\ pc' = [pc EXCEPT ![t] = "sent"]
        /\ req' = [req EXCEPT ![t] = r]
        /\ result' = [result EXCEPT ![t] = "none"]
    BY <1>1 DEF Acquire, Send
  <2>4. drawn' \in [Threads -> Nat]
    BY <1>1 DEF Acquire
  <2> HIDE DEF r
  <2> QED
    BY <2>2, <2>3, <2>4
<1>2. ASSUME NEW t \in Threads, AcquireReply(t) PROVE Typed'
  <2>1. req[t].token \in Tokens
    BY <1>2 DEF AcquireReply, Request
  <2>2. UNCHANGED <<key, ttl, promise, doubt, drawn, stray>>
    BY <1>2 DEF AcquireReply
  <2>3. local' \in [Threads -> Tokens \cup {None, Unset}]
    BY <1>2, <2>1 DEF AcquireReply, SetLocal
  <2>4. CASE \E res \in {"True", "False"} : Finish(t, res)
    BY <2>2, <2>3, <2>4 DEF Finish
  <2>5. CASE pc' = [pc EXCEPT ![t] = "sleep"] /\ UNCHANGED <<req, ok, result>>
    BY <1>2, <2>2, <2>3, <2>5 DEF AcquireReply
  <2> QED
    BY <1>2, <2>4, <2>5 DEF AcquireReply
<1>3. ASSUME NEW t \in Threads, TryAgain(t) PROVE Typed'
  BY <1>3 DEF TryAgain
<1>4. ASSUME NEW t \in Threads, NoAttribute(t) PROVE Typed'
  BY <1>4 DEF NoAttribute
<1>5. ASSUME NEW t \in Threads, Refused(t) PROVE Typed'
  BY <1>5 DEF Refused
<1>6. ASSUME NEW t \in Threads, Owned(t) PROVE Typed'
  BY <1>6 DEF Owned
<1>7. ASSUME NEW t \in Threads, Release(t) PROVE Typed'
  <2> DEFINE r == [op |-> "release", token |-> local[t], add |-> 0,
                   replace |-> FALSE]
  <2>1. r \in Request
    BY <1>7 DEF Release, Request, Scripts
  <2>2. /\ UNCHANGED <<key, ttl, doubt, ok, drawn, stray>>
        /\ pc' = [pc EXCEPT ![t] = "sent"]
        /\ req' = [req EXCEPT ![t] = r]
        /\ result' = [result EXCEPT ![t] = "none"]
    BY <1>7 DEF Release, Send
  <2>3. local' \in [Threads -> Tokens \cup {None, Unset}]
    BY <1>7 DEF Release, SetLocal
  <2>4. promise' \in [Tokens -> Nat \cup {Forever}] /\ Times'
    BY <1>7, <2>2 DEF Release, Forever
  <2> HIDE DEF r
  <2> QED
    BY <2>1, <2>2, <2>3, <2>4
<1>8. ASSUME NEW t \in Threads, Extend(t) PROVE Typed'
  <2>1. PICK a \in Additions, b \in BOOLEAN :
          Send(t, [op |-> "extend", token |-> local[t], add |-> a, replace |-> b])
    BY <1>8 DEF Extend
  <2>2. [op |-> "extend", token |-> local[t], add |-> a, replace |-> b] \in Request
    BY <1>8 DEF Extend, Request, Scripts
  <2> QED
    BY <1>8, <2>1, <2>2 DEF Extend, Send
<1>9. ASSUME NEW t \in Threads, Reacquire(t) PROVE Typed'
  <2>1. [op |-> "reacquire", token |-> local[t], add |-> 0, replace |-> FALSE] \in Request
    BY <1>9 DEF Reacquire, Request, Scripts
  <2> QED
    BY <1>9, <2>1 DEF Reacquire, Send
<1>10. ASSUME NEW t \in Threads, ScriptReply(t) PROVE Typed'
  BY <1>10 DEF ScriptReply, Finish
<1>11. ASSUME NEW t \in Threads, ConnectionFails(t) PROVE Typed'
  <2>1. req[t] \in Request /\ req[t].token \in Tokens
    BY <1>11 DEF ConnectionFails, Request
  <2> QED
    BY <1>11, <2>1 DEF ConnectionFails, Finish, Abandon
<1>12. ASSUME NEW t \in Threads, Resend(t) PROVE Typed'
  <2>1. req[t] \in Request /\ req[t].token \in Tokens
    BY <1>12 DEF Resend, Request
  <2> QED
    BY <1>12, <2>1 DEF Resend, Abandon
<1>13. ASSUME NEW t \in Threads, ServerExecutes(t) PROVE Typed'
  <2>1. req[t] \in Request /\ Execute(req[t]) /\ req[t].token \in Tokens
    BY <1>13 DEF ServerExecutes, Request
  <2>2. promise' \in [Tokens -> Nat \cup {Forever}] /\ Times'
    BY <1>13, <2>1, ExecuteTyped DEF ServerExecutes
  <2> QED
    BY <1>13, <2>1, <2>2, ExecuteTyped DEF ServerExecutes
<1>14. CASE ServerExecutesStray
  <2>1. PICK r \in stray : Execute(r) /\ stray' = stray \ {r}
    BY <1>14 DEF ServerExecutesStray
  <2>2. r \in Request
    BY <2>1
  <2> QED
    BY <1>14, <2>1, <2>2, ExecuteTyped DEF ServerExecutesStray
<1>15. CASE Tick
  BY <1>15 DEF Tick, Forever
<1>16. CASE UNCHANGED vars
  BY <1>16 DEF vars
<1> QED
  BY <1>1, <1>2, <1>3, <1>4, <1>5, <1>6, <1>7, <1>8, <1>9, <1>10, <1>11,
     <1>12, <1>13, <1>14, <1>15, <1>16 DEF Next

\* The store, the threads and the requests under way always have their types:
\* no script leaves a time to live or a promise that is not a time.
THEOREM TypeCorrect == Spec => []TypeOK
<1>1. Init => Typed
  BY LockAssumption DEF Init, Typed, TypeOK, Asked, Times, Results, Forever
<1>2. Typed => TypeOK
  BY DEF Typed
<1> QED
  BY <1>1, <1>2, TypedStep, PTL DEF Spec
-----------------------------------------------------------------------------
(***************************************************************************)
(* When requests are not sent twice, an acquire() that returns False has   *)
(* not taken the lock, for every timeout.  The token of a SET under way is *)
(* the newest of its thread, so nothing but that SET can store it.         *)
(***************************************************************************)
Acquiring(t) == pc[t] # "idle" /\ req[t].op = "set"
Untaken(t) == Acquiring(t) /\ (pc[t] # "replied" \/ ~ok[t])

NewestToken == \A t \in Threads : Acquiring(t) => req[t].token = <<t, drawn[t]>>
DrawnBefore ==
  /\ key # None => key[2] <= drawn[key[1]]
  /\ \A r \in stray : r.op = "set" => r.token[2] <= drawn[r.token[1]]
NotStored == \A t \in Threads : Untaken(t) => key # req[t].token
NotAbandoned ==
  \A t \in Threads : Acquiring(t) =>
    \A r \in stray : r.op = "set" => r.token # req[t].token

FreshTokens == NewestToken /\ DrawnBefore /\ NotStored /\ NotAbandoned

\* A request changes the stored token only to none, or a SET to its own.
LEMMA ExecuteKey ==
  ASSUME NEW r \in Request, Execute(r)
  PROVE  \/ key' \in {key, None}
         \/ r.op = "set" /\ key = None /\ key' = r.token /\ Reply(r).ok
<1>0. r.op \in Scripts
  BY DEF Request
<1>1. CASE r.op = "set"
  BY <1>1 DEF Execute, Reply, SetNX, Unchanged
<1>2. CASE r.op = "release"
  BY <1>2 DEF Execute, Reply, ReleaseScript, Unchanged
<1>3. CASE r.op = "extend"
  BY <1>3 DEF Execute, Reply, ExtendScript, PExpire, Unchanged
<1>4. CASE r.op = "reacquire"
  BY <1>4 DEF Execute, Reply, ReacquireScript, PExpire, Unchanged
<1> QED
  BY <1>0, <1>1, <1>2, <1>3, <1>4 DEF Scripts

\* A token that was drawn before is not the next one of its thread.
LEMMA NextTokenIsNew ==
  ASSUME drawn \in [Threads -> Nat], NEW k \in Tokens,
         k[2] <= drawn[k[1]], NEW t \in Threads
  PROVE  k # <<t, drawn[t] + 1>>
  BY LockAssumption DEF Tokens

\* Every call, reply and failure keeps the tokens fresh.
LEMMA FreshTokensStep ==
  ASSUME ~Resends, Typed, FreshTokens, [Next]_vars
  PROVE  FreshTokens'
<1> USE LockAssumption DEF Typed, TypeOK, Asked, keyVars, FreshTokens, NewestToken,
        DrawnBefore, NotStored, NotAbandoned, Acquiring, Untaken
<1>n. None \notin Tokens
  BY DEF Tokens
<1>1. ASSUME NEW t \in Threads, Acquire(t) PROVE FreshTokens'
  <2> DEFINE r == [op |-> "set", token |-> <<t, drawn[t] + 1>>, add |-> 0,
                   replace |-> FALSE]
  <2>1. /\ UNCHANGED <<key, ok, stray>>
        /\ pc' = [pc EXCEPT ![t] = "sent"]
        /\ req' = [req EXCEPT ![t] = r]
        /\ drawn' = [drawn EXCEPT ![t] = drawn[t] + 1]
    BY <1>1 DEF Acquire, Send
  <2>2. r.op = "set" /\ r.token = <<t, drawn[t] + 1>>
    OBVIOUS
  <2> HIDE DEF r
  <2>3. \A k \in Tokens : k[2] <= drawn[k[1]] => k # r.token /\ k[2] <= drawn'[k[1]]
    BY <2>1, <2>2, NextTokenIsNew DEF Tokens
  <2>4. \A s \in stray : s.token \in Tokens
    BY DEF Request
  <2>5. NewestToken' /\ DrawnBefore'
    BY <2>1, <2>2, <2>3, <2>4
  <2>6. NotStored'
    <3>1. None # r.token
      BY <2>2, LockAssumption
    <3>2. key # r.token
      BY <2>3, <3>1
    <3> SUFFICES ASSUME NEW u \in Threads, Untaken(u)' PROVE key' # req'[u].token
      OBVIOUS
    <3>3. CASE u = t
      BY <2>1, <3>2, <3>3
    <3>4. CASE u # t
      BY <2>1, <3>4
    <3> QED
      BY <3>3, <3>4
  <2>7. NotAbandoned'
    BY <2>1, <2>2, <2>3, <2>4
  <2> QED
    BY <2>5, <2>6, <2>7
<1>2. ASSUME NEW t \in Threads, AcquireReply(t) PROVE FreshTokens'
  BY <1>2 DEF AcquireReply, Finish
<1>3. ASSUME NEW t \in Threads, TryAgain(t) PROVE FreshTokens'
  <2>1. /\ UNCHANGED <<key, req, ok, drawn, stray>>
        /\ pc[t] = "sleep" /\ pc' = [pc EXCEPT ![t] = "sent"]
    BY <1>3 DEF TryAgain
  <2> QED
    BY <2>1
<1>4. ASSUME NEW t \in Threads, NoAttribute(t) \/ Refused(t) \/ Owned(t)
      PROVE  FreshTokens'
  BY <1>4 DEF NoAttribute, Refused, Owned
<1>5. ASSUME NEW t \in Threads, Release(t) \/ Extend(t) \/ Reacquire(t)
      PROVE  FreshTokens'
  <2>1. PICK r : /\ r.op # "set"
                 /\ pc' = [pc EXCEPT ![t] = "sent"]
                 /\ req' = [req EXCEPT ![t] = r]
    <3>1. CASE Release(t)
      BY <3>1 DEF Release, Send
    <3>2. CASE Extend(t)
      BY <3>2 DEF Extend, Send
    <3>3. CASE Reacquire(t)
      BY <3>3 DEF Reacquire, Send
    <3> QED
      BY <1>5, <3>1, <3>2, <3>3
  <2>2. UNCHANGED <<key, ok, drawn, stray>>
    BY <1>5 DEF Release, Extend, Reacquire
  <2> QED
    BY <2>1, <2>2
<1>6. ASSUME NEW t \in Threads, ScriptReply(t) PROVE FreshTokens'
  BY <1>6 DEF ScriptReply, Finish
<1>7. ASSUME NEW t \in Threads, ConnectionFails(t) PROVE FreshTokens'
  <2>1. /\ UNCHANGED <<key, drawn>>
        /\ pc[t] # "idle" /\ pc' = [pc EXCEPT ![t] = "idle"]
        /\ req' = [req EXCEPT ![t] = NoRequest]
        /\ ok' = [ok EXCEPT ![t] = FALSE]
        /\ stray' \subseteq stray \cup {req[t]}
    BY <1>7 DEF ConnectionFails, Finish, Abandon
  <2>2. req[t].op = "set" => req[t].token = <<t, drawn[t]>>
    BY <2>1
  <2>3. req[t].op = "set" => req[t].token[2] <= drawn[req[t].token[1]]
    BY <2>2
  <2>4. NewestToken' /\ NotStored'
    BY <2>1
  <2>5. DrawnBefore'
    BY <2>1, <2>3
  <2>6. NotAbandoned'
    <3> SUFFICES ASSUME NEW u \in Threads, Acquiring(u)', NEW r \in stray', r.op = "set"
                 PROVE  r.token # req'[u].token
      OBVIOUS
    <3>1. u # t /\ Acquiring(u) /\ req'[u] = req[u]
      BY <2>1
    <3>2. req[u].token = <<u, drawn[u]>>
      BY <3>1
    <3>3. CASE r \in stray
      BY <3>1, <3>3
    <3>4. CASE r = req[t]
      BY <2>2, <3>1, <3>2, <3>4
    <3> QED
      BY <2>1, <3>3, <3>4
  <2> QED
    BY <2>4, <2>5, <2>6
<1>8. ASSUME NEW t \in Threads, Resend(t) PROVE FreshTokens'
  BY <1>8 DEF Resend
<1>9. ASSUME NEW t \in Threads, ServerExecutes(t) PROVE FreshTokens'
  <2>1. /\ req[t] \in Request /\ Execute(req[t])
        /\ pc[t] = "sent" /\ pc' = [pc EXCEPT ![t] = "replied"]
        /\ ok' = [ok EXCEPT ![t] = Reply(req[t]).ok]
        /\ UNCHANGED <<req, drawn, stray>>
    BY <1>9 DEF ServerExecutes
  <2>2. NewestToken' /\ NotAbandoned'
    BY <2>1
  <2>3. req[t].op = "set" => req[t].token = <<t, drawn[t]>>
    BY <2>1
  <2>4. CASE key' \in {key, None}
    <3>1. DrawnBefore'
      BY <2>1, <2>4
    <3>2. \A u \in Threads : Acquiring(u) => req[u].token \in Tokens
      BY DEF Request
    <3>3. NotStored'
      BY <1>n, <2>1, <2>4, <3>2
    <3> QED
      BY <2>2, <3>1, <3>3
  <2>5. CASE req[t].op = "set" /\ key' = req[t].token /\ Reply(req[t]).ok
    <3>1. DrawnBefore'
      BY <2>1, <2>3, <2>5
    <3>2. NotStored'
      <4> SUFFICES ASSUME NEW u \in Threads, Untaken(u)' PROVE key' # req'[u].token
        OBVIOUS
      <4>1. u # t
        BY <2>1, <2>5
      <4>2. req'[u].token = <<u, drawn[u]>>
        BY <2>1, <4>1
      <4> QED
        BY <2>3, <2>5, <4>1, <4>2
    <3> QED
      BY <2>2, <3>1, <3>2
  <2> QED
    BY <2>1, <2>4, <2>5, ExecuteKey
<1>10. CASE ServerExecutesStray
  <2>1. PICK r \in stray : Execute(r) /\ stray' = stray \ {r}
    BY <1>10 DEF ServerExecutesStray
  <2>2. r \in Request /\ UNCHANGED <<pc, req, ok, drawn>>
    BY <1>10 DEF ServerExecutesStray
  <2>3. NewestToken' /\ NotAbandoned'
    BY <2>1, <2>2
  <2>4. CASE key' \in {key, None}
    <3>1. DrawnBefore'
      BY <2>1, <2>2, <2>4
    <3>2. \A u \in Threads : Acquiring(u) => req[u].token \in Tokens
      BY DEF Request
    <3>3. NotStored'
      BY <1>n, <2>2, <2>4, <3>2
    <3> QED
      BY <2>3, <3>1, <3>3
  <2>5. CASE r.op = "set" /\ key' = r.token
    BY <2>1, <2>2, <2>3, <2>5
  <2> QED
    BY <2>1, <2>2, <2>4, <2>5, ExecuteKey
<1>11. CASE Tick
  <2>1. key' \in {key, None} /\ UNCHANGED <<pc, req, ok, drawn, stray>>
    BY <1>11 DEF Tick
  <2>2. \A u \in Threads : Acquiring(u) => req[u].token \in Tokens
    BY DEF Request
  <2> QED
    BY <1>n, <2>1, <2>2
<1>12. CASE UNCHANGED vars
  BY <1>12 DEF vars
<1> QED
  BY <1>1, <1>2, <1>3, <1>4, <1>5, <1>6, <1>7, <1>8, <1>9, <1>10, <1>11, <1>12
  DEF Next

\* acquire() returns False only for a lock it has not taken, if the client's
\* retry policy does not send its SET a second time.
THEOREM FalseIsTrue ==
  ASSUME ~Resends
  PROVE  Spec => FalseMeansNotAcquired
<1>1. Init => Typed /\ FreshTokens
  BY LockAssumption DEF Init, Typed, TypeOK, Asked, Times, Results, Forever,
     FreshTokens, NewestToken, DrawnBefore, NotStored, NotAbandoned, Acquiring, Untaken
<1>2. Typed /\ FreshTokens /\ [Next]_vars => (Typed /\ FreshTokens)'
  BY TypedStep, FreshTokensStep
<1>3. ASSUME Typed, FreshTokens, Next
      PROVE  \A t \in Threads :
               pc[t] = "replied" /\ req[t].op = "set" /\ result'[t] = "False"
                 /\ pc'[t] = "idle" => key # req[t].token
  <2> SUFFICES ASSUME NEW t \in Threads, pc[t] = "replied", req[t].op = "set",
                      result'[t] = "False", pc'[t] = "idle"
               PROVE  key # req[t].token
    OBVIOUS
  <2> USE <1>3 DEF Typed, TypeOK
  <2>1. ASSUME NEW u \in Threads, AcquireReply(u) PROVE u = t /\ ~ok[t]
    BY <2>1 DEF AcquireReply, Finish
  <2>2. ASSUME NEW u \in Threads, Acquire(u) \/ TryAgain(u) PROVE FALSE
    BY <2>2 DEF Acquire, Send, TryAgain
  <2>3. ASSUME NEW u \in Threads, NoAttribute(u) \/ Refused(u) \/ Owned(u) PROVE FALSE
    BY <2>3 DEF NoAttribute, Refused, Owned
  <2>4. ASSUME NEW u \in Threads, Release(u) \/ Extend(u) \/ Reacquire(u) PROVE FALSE
    BY <2>4 DEF Release, Extend, Reacquire, Send
  <2>5. ASSUME NEW u \in Threads, ScriptReply(u) \/ ConnectionFails(u) PROVE FALSE
    BY <2>5 DEF ScriptReply, ConnectionFails, Finish
  <2>6. ASSUME NEW u \in Threads, Resend(u) \/ ServerExecutes(u) PROVE FALSE
    BY <2>6 DEF Resend, ServerExecutes
  <2>7. ASSUME ServerExecutesStray \/ Tick PROVE FALSE
    BY <2>7 DEF ServerExecutesStray, Tick
  <2>8. ~ok[t]
    BY <1>3, <2>1, <2>2, <2>3, <2>4, <2>5, <2>6, <2>7 DEF Next
  <2> QED
    BY <2>8 DEF FreshTokens, NotStored, Untaken, Acquiring
<1> QED
  BY <1>1, <1>2, <1>3, PTL DEF Spec, FalseMeansNotAcquired
=============================================================================
