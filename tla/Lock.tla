-------------------------------- MODULE Lock --------------------------------
(***************************************************************************)
(* redis.lock.Lock: a lease kept in one key of the server.                 *)
(*                                                                         *)
(* Threads share one Lock object.  acquire() is SET key token NX PX t with *)
(* a fresh token; release(), extend() and reacquire() are scripts that     *)
(* compare the token first.  A request is executed by the server in one    *)
(* step, some time after it was sent; its reply may be lost, the request   *)
(* may be executed after the caller has given up, and the client's retry   *)
(* policy may send it again.                                               *)
(*                                                                         *)
(* A token is a pair: the thread that drew it and a number, for a uuid1.   *)
(***************************************************************************)
EXTENDS Integers, FiniteSets

CONSTANTS
  Threads,      \* the threads that share the Lock object
  Creator,      \* the thread that ran __init__
  ThreadLocal,  \* thread_local
  Timeout,      \* timeout in milliseconds, Forever when it is None
  Additions,    \* the additional_time values passed to extend()
  Resends,      \* the client's retry policy sends a request again
  MaxAcquires,  \* bound: how many tokens each thread draws, a function
  MaxTTL,       \* bound: the longest time to live that extend() may reach
  MaxStray,     \* bound: how many requests are abandoned at a time
  None,         \* no token, no key
  Unset         \* a thread-local attribute that was never assigned

Forever == -1   \* PTTL of a key without expiry

ASSUME LockAssumption ==
  /\ Creator \in Threads
  /\ {ThreadLocal, Resends} \subseteq BOOLEAN
  /\ Timeout \in Nat \cup {Forever}
  /\ Additions \subseteq Nat
  /\ MaxAcquires \in [Threads -> Nat]
  /\ {MaxTTL, MaxStray} \subseteq Nat
  /\ None # Unset
  /\ None \notin Threads \X Nat

Tokens == UNION {{t} \X (1..MaxAcquires[t]) : t \in Threads}

VARIABLES
  key,      \* the token stored under the lock's name
  ttl,      \* its remaining time to live
  local,    \* self.local.token as each thread sees it
  pc,       \* where each thread is
  req,      \* the request each thread is waiting for
  ok,       \* what the server answered: truthy or not
  drawn,    \* how many tokens each thread has drawn
  result,   \* how each thread's last call ended
  stray,    \* abandoned requests that the server may still execute
  promise,  \* how long each token has the lock by the last answer to a caller
  doubt     \* tokens with a request that failed or that may be executed late

keyVars == <<key, ttl, promise, doubt>>
vars == <<keyVars, local, pc, req, ok, drawn, result, stray>>

Scripts == {"set", "release", "extend", "reacquire"}
Request == [op : Scripts, token : Tokens, add : Nat, replace : BOOLEAN]
NoRequest == [op |-> "none", token |-> None, add |-> 0, replace |-> FALSE]
Results == {"none", "True", "False", "LockError", "LockNotOwnedError",
            "ConnectionError", "AttributeError"}

TypeOK ==
  /\ key \in Tokens \cup {None}
  /\ ttl \in (Nat \ {0}) \cup {Forever}
  /\ local \in [Threads -> Tokens \cup {None, Unset}]
  /\ pc \in [Threads -> {"idle", "sent", "replied", "sleep"}]
  /\ req \in [Threads -> Request \cup {NoRequest}]
  /\ ok \in [Threads -> BOOLEAN]
  /\ drawn \in [Threads -> Nat]
  /\ result \in [Threads -> Results]
  /\ stray \subseteq Request
  /\ promise \in [Tokens -> Nat \cup {Forever}]
  /\ doubt \subseteq Tokens

\* __init__ assigns self.local.token in the thread that runs it.
Init ==
  /\ key = None
  /\ ttl = Forever
  /\ local = [t \in Threads |->
                IF t = Creator \/ ~ThreadLocal THEN None ELSE Unset]
  /\ pc = [t \in Threads |-> "idle"]
  /\ req = [t \in Threads |-> NoRequest]
  /\ ok = [t \in Threads |-> FALSE]
  /\ drawn = [t \in Threads |-> 0]
  /\ result = [t \in Threads |-> "none"]
  /\ stray = {}
  /\ promise = [k \in Tokens |-> 0]
  /\ doubt = {}

\* self.local.token = k: one cell for each thread, or one for all.
SetLocal(t, k) ==
  local' = [u \in Threads |-> IF u = t \/ ~ThreadLocal THEN k ELSE local[u]]

Send(t, r) ==
  /\ pc' = [pc EXCEPT ![t] = "sent"]
  /\ req' = [req EXCEPT ![t] = r]
  /\ result' = [result EXCEPT ![t] = "none"]

Finish(t, res) ==
  /\ pc' = [pc EXCEPT ![t] = "idle"]
  /\ req' = [req EXCEPT ![t] = NoRequest]
  /\ ok' = [ok EXCEPT ![t] = FALSE]
  /\ result' = [result EXCEPT ![t] = res]
-----------------------------------------------------------------------------
(***************************************************************************)
(* The server: SET NX PX and the three scripts.  A key that expires, or    *)
(* that PEXPIRE gives no time, is gone.                                    *)
(***************************************************************************)
\* Mutant: SET without PX.
LifetimeForever == Forever
\* do_acquire: px is set only when self.timeout is truthy.
Lifetime == IF Timeout > 0 THEN Timeout ELSE Forever

Unchanged == [key |-> key, ttl |-> ttl, ok |-> FALSE]
PExpire(ms) ==
  [key |-> IF ms > 0 THEN key ELSE None, ttl |-> IF ms > 0 THEN ms ELSE Forever,
   ok |-> TRUE]

SetNX(r) ==
  IF key = None THEN [key |-> r.token, ttl |-> Lifetime, ok |-> TRUE]
                ELSE Unchanged

\* Mutant: DEL without comparing the token.
ReleaseUnchecked(r) == [key |-> None, ttl |-> Forever, ok |-> key # None]

ReleaseScript(r) ==
  IF key # r.token THEN Unchanged
                   ELSE [key |-> None, ttl |-> Forever, ok |-> TRUE]

\* Mutant: the time to live is replaced when it should be added to.
ExtendReplaces(r) ==
  IF key # r.token \/ ttl < 0 THEN Unchanged ELSE PExpire(r.add)

ExtendScript(r) ==
  IF key # r.token \/ ttl < 0 THEN Unchanged
  ELSE PExpire(IF r.replace THEN r.add ELSE r.add + ttl)

ReacquireScript(r) ==
  IF key # r.token THEN Unchanged ELSE PExpire(Timeout)

Reply(r) ==
  CASE r.op = "set" -> SetNX(r)
    [] r.op = "release" -> ReleaseScript(r)
    [] r.op = "extend" -> ExtendScript(r)
    [] r.op = "reacquire" -> ReacquireScript(r)

\* What a truthy answer promises the caller: acquire() "a maximum life for the
\* lock" or no end, extend() so much more time, reacquire() "back to a timeout
\* value".
Promised(r) ==
  CASE r.op \in {"set", "reacquire"} -> Lifetime
    [] r.op = "extend" -> IF r.replace THEN r.add ELSE promise[r.token] + r.add
    [] r.op = "release" -> 0

Execute(r) ==
  /\ Reply(r).ttl <= MaxTTL
  /\ key' = Reply(r).key
  /\ ttl' = Reply(r).ttl

\* The answer is on its way to a caller that waits for it.
ServerExecutes(t) ==
  /\ pc[t] = "sent"
  /\ Execute(req[t])
  /\ Reply(req[t]).ok => Promised(req[t]) <= MaxTTL
  /\ promise' = IF Reply(req[t]).ok
                  THEN [promise EXCEPT ![req[t].token] = Promised(req[t])]
                  ELSE promise
  /\ ok' = [ok EXCEPT ![t] = Reply(req[t]).ok]
  /\ pc' = [pc EXCEPT ![t] = "replied"]
  /\ UNCHANGED <<local, req, drawn, result, stray, doubt>>

\* Nobody hears of it.
ServerExecutesStray ==
  /\ \E r \in stray : Execute(r) /\ stray' = stray \ {r}
  /\ UNCHANGED <<promise, doubt, local, pc, req, ok, drawn, result>>

\* A millisecond passes: every lease, and every promise, is that much shorter.
Tick ==
  /\ ttl > 0
  /\ key' = IF ttl = 1 THEN None ELSE key
  /\ ttl' = IF ttl = 1 THEN Forever ELSE ttl - 1
  /\ promise' = [k \in Tokens |-> IF promise[k] > 0 THEN promise[k] - 1
                                                  ELSE promise[k]]
  /\ UNCHANGED <<doubt, local, pc, req, ok, drawn, result, stray>>
-----------------------------------------------------------------------------
(***************************************************************************)
(* The calls.                                                              *)
(***************************************************************************)
Acquire(t) ==
  /\ pc[t] = "idle"
  /\ drawn[t] < MaxAcquires[t]
  /\ drawn' = [drawn EXCEPT ![t] = @ + 1]
  /\ Send(t, [op |-> "set", token |-> <<t, drawn[t] + 1>>, add |-> 0,
              replace |-> FALSE])
  /\ UNCHANGED <<keyVars, local, ok, stray>>

\* do_acquire has answered: the lock is taken, or the loop gives up (not
\* blocking, or no time left for another sleep), or it sleeps.
AcquireReply(t) ==
  /\ pc[t] = "replied"
  /\ req[t].op = "set"
  /\ \/ ok[t] /\ SetLocal(t, req[t].token) /\ Finish(t, "True")
     \/ ~ok[t] /\ Finish(t, "False") /\ UNCHANGED local
     \/ /\ ~ok[t]
        /\ pc' = [pc EXCEPT ![t] = "sleep"]
        /\ UNCHANGED <<local, req, ok, result>>
  /\ UNCHANGED <<keyVars, drawn, stray>>

\* mod_time.sleep(sleep) is over: SET again, with the same token.
TryAgain(t) ==
  /\ pc[t] = "sleep"
  /\ pc' = [pc EXCEPT ![t] = "sent"]
  /\ UNCHANGED <<keyVars, local, req, ok, drawn, result, stray>>

\* Reading self.local.token in a thread that never assigned it.
NoAttribute(t) ==
  /\ pc[t] = "idle"
  /\ local[t] = Unset
  /\ result' = [result EXCEPT ![t] = "AttributeError"]
  /\ UNCHANGED <<keyVars, local, pc, req, ok, drawn, stray>>

\* release(), extend() and reacquire() of a lock that is not held, and the
\* last two on a lock without timeout.
Refused(t) ==
  /\ pc[t] = "idle"
  /\ local[t] # Unset
  /\ local[t] = None \/ Timeout = Forever
  /\ result' = [result EXCEPT ![t] = "LockError"]
  /\ UNCHANGED <<keyVars, local, pc, req, ok, drawn, stray>>

\* The token is forgotten before the script runs, so the holder gives up its
\* promise whatever the script answers.
Release(t) ==
  /\ pc[t] = "idle"
  /\ local[t] \in Tokens
  /\ promise' = IF local[t][1] = t THEN [promise EXCEPT ![local[t]] = 0]
                                   ELSE promise
  /\ SetLocal(t, None)
  /\ Send(t, [op |-> "release", token |-> local[t], add |-> 0, replace |-> FALSE])
  /\ UNCHANGED <<key, ttl, doubt, ok, drawn, stray>>

Extend(t) ==
  /\ pc[t] = "idle"
  /\ local[t] \in Tokens
  /\ Timeout # Forever
  /\ \E a \in Additions, b \in BOOLEAN :
       Send(t, [op |-> "extend", token |-> local[t], add |-> a, replace |-> b])
  /\ UNCHANGED <<keyVars, local, ok, drawn, stray>>

Reacquire(t) ==
  /\ pc[t] = "idle"
  /\ local[t] \in Tokens
  /\ Timeout # Forever
  /\ Send(t, [op |-> "reacquire", token |-> local[t], add |-> 0,
              replace |-> FALSE])
  /\ UNCHANGED <<keyVars, local, ok, drawn, stray>>

ScriptReply(t) ==
  /\ pc[t] = "replied"
  /\ req[t].op # "set"
  /\ Finish(t, IF ok[t] THEN "True" ELSE "LockNotOwnedError")
  /\ UNCHANGED <<keyVars, local, drawn, stray>>

\* owned(): GET, then a look at self.local.token.
Owned(t) ==
  /\ pc[t] = "idle"
  /\ local[t] # Unset
  /\ result' = [result EXCEPT ![t] =
                  IF local[t] # None /\ key = local[t] THEN "True" ELSE "False"]
  /\ UNCHANGED <<keyVars, local, pc, req, ok, drawn, stray>>
-----------------------------------------------------------------------------
(***************************************************************************)
(* Failures below the lock.                                                *)
(***************************************************************************)
\* The server may still execute a request that nobody waits for any more.
Abandon(r) == Cardinality(stray) < MaxStray /\ stray' = stray \cup {r}

\* The request or its reply is lost and the exception leaves the call, which does
\* not tell the caller what has become of its lease, or will.
ConnectionFails(t) ==
  /\ pc[t] \in {"sent", "replied"}
  /\ UNCHANGED stray \/ (pc[t] = "sent" /\ Abandon(req[t]))
  /\ doubt' = doubt \cup {req[t].token}
  /\ Finish(t, "ConnectionError")
  /\ UNCHANGED <<key, ttl, promise, local, drawn>>

\* The client's retry policy sends the request again, after the reply was lost or
\* while the first copy may still be executed.
Resend(t) ==
  /\ Resends
  /\ pc[t] \in {"sent", "replied"}
  /\ \/ pc[t] = "replied" /\ UNCHANGED <<stray, doubt>>
     \/ /\ pc[t] = "sent" /\ Abandon(req[t])
        /\ doubt' = doubt \cup {req[t].token}
  /\ pc' = [pc EXCEPT ![t] = "sent"]
  /\ UNCHANGED <<key, ttl, promise, local, req, ok, drawn, result>>
-----------------------------------------------------------------------------
Next ==
  \/ \E t \in Threads :
       \/ Acquire(t) \/ AcquireReply(t) \/ TryAgain(t)
       \/ NoAttribute(t) \/ Refused(t) \/ Owned(t)
       \/ Release(t) \/ Extend(t) \/ Reacquire(t) \/ ScriptReply(t)
       \/ ConnectionFails(t) \/ Resend(t) \/ ServerExecutes(t)
  \/ ServerExecutesStray
  \/ Tick

Spec == Init /\ [][Next]_vars

\* Time passes, and threads that are inside a call go on.
FairSpec ==
  /\ Spec
  /\ WF_vars(Tick)
  /\ \A t \in Threads :
       WF_vars(ServerExecutes(t) \/ AcquireReply(t) \/ ScriptReply(t))
-----------------------------------------------------------------------------
(***************************************************************************)
(* Properties.                                                             *)
(***************************************************************************)
\* Mutual exclusion for the length of the lease: as long as the time promised
\* to a token has not run out and its holder has not released it, the lock is
\* that token's, whatever late, lost or repeated requests of others do.  A failed
\* or late request of the holder itself is the exception: it may end the lease.
LeaseHonoured ==
  \A k \in Tokens \ doubt : promise[k] # 0 => key = k

\* The server does not expire a lock before its holder was told: an answer that
\* a caller got, or is about to get, promises no more than the time to live.
\* (Again, unless a request for the same token failed or may come late.)
TTLCoversPromise ==
  \A k \in Tokens \ doubt :
    promise[k] # 0 /\ ttl # Forever => promise[k] \in 1..ttl

\* The same with no exception: a True from reacquire() or extend() is good for
\* the time it stands for.
AnswersAreKept ==
  \A k \in Tokens : promise[k] # 0 => key = k

\* acquire(): "If the lock was acquired, return True, otherwise return False".
FalseMeansNotAcquired ==
  [][\A t \in Threads :
       pc[t] = "replied" /\ req[t].op = "set" /\ result'[t] = "False"
         /\ pc'[t] = "idle" => key # req[t].token]_vars

\* No thread knows the token in the key, or is about to learn it.
Abandoned ==
  /\ key # None
  /\ \A t \in Threads : local[t] # key /\ req[t].token # key

\* With a timeout, a lock whose owner lost the reply to SET, or failed to
\* release it, does not stay locked: it expires.
AbandonedExpires == Abandoned ~> ~Abandoned
=============================================================================
