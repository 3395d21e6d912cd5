----------------------------- MODULE ClientCache -----------------------------
(***************************************************************************)
(* Client-side caching: redis.connection.CacheProxyConnection over         *)
(* redis.cache.DefaultCache with the LRU policy.                           *)
(*                                                                         *)
(* Connections share one cache.  The server tracks what a connection has   *)
(* read and pushes an invalidation into its socket when the key changes.   *)
(* A key's value is the number of its changes; an even number is nil.      *)
(*                                                                         *)
(* A block under _cache_lock is one step, and so is a drain of a socket;   *)
(* only the send of a command that is not cachable, which holds the lock   *)
(* while the inner connection checks its health, is several.  (The lock    *)
(* belongs to the proxy connection: between connections one step is an     *)
(* abstraction.)                                                           *)
(***************************************************************************)
EXTENDS Integers, FiniteSets, Sequences

CONSTANTS
  Threads,     \* the threads that send commands
  Conns,       \* the connections of the pool
  Keys,        \* the keys
  MaxSize,     \* max_size of the cache
  MaxChanges,  \* bound: how often a key changes
  MaxDrops,    \* bound: how often the server closes a connection
  HealthChecks, \* health_check_interval is set, and a failed PING is retried
  None

ASSUME ClientCacheAssumption ==
  /\ IsFiniteSet(Threads) /\ IsFiniteSet(Conns) /\ IsFiniteSet(Keys)
  /\ MaxSize \in Nat \ {0} /\ {MaxChanges, MaxDrops} \subseteq Nat
  /\ HealthChecks \in BOOLEAN
  /\ None \notin Threads \cup Conns \cup Keys

VARIABLES
  value,    \* the value of each key
  tracked,  \* what the server tracks for each connection
  asked,    \* the keys the server has not yet answered, for each connection
  sock,     \* what the server has written and nobody has read
  drops,    \* how many connections were closed
  cache,    \* the entries; each knows the keys used less recently
  call      \* the command each thread is in

serverVars == <<value, tracked, asked, drops>>
vars == <<serverVars, sock, cache, call>>

Msg(kind, k, v) == [kind |-> kind, key |-> k, val |-> v]
NoCall == [pc |-> "idle", conn |-> None, key |-> None, since |-> 0, got |-> 0,
           lost |-> FALSE]
Nil(v) == v % 2 = 0

Init ==
  /\ value \in [Keys -> {0, 1}]
  /\ tracked = [c \in Conns |-> {}]
  /\ asked = [c \in Conns |-> <<>>]
  /\ sock = [c \in Conns |-> <<>>]
  /\ drops = 0
  /\ cache = {}
  /\ call = [t \in Threads |-> NoCall]
-----------------------------------------------------------------------------
(***************************************************************************)
(* DefaultCache.                                                           *)
(***************************************************************************)
Has(cc, k) == \E e \in cc : e.key = k
Entry(cc, k) == CHOOSE e \in cc : e.key = k
Without(cc, ks) ==
  {[e EXCEPT !.older = @ \ ks] : e \in {x \in cc : x.key \notin ks}}

\* LRUPolicy.touch: the entry becomes the most recent one.
MoveToEnd(cc, e) ==
  LET rest == Without(cc, {e.key})
  IN rest \cup {[e EXCEPT !.older = {x.key : x \in rest}]}

\* get() of a key that may be there touches it.
Touch(cc, k) == IF Has(cc, k) THEN MoveToEnd(cc, Entry(cc, k)) ELSE cc

\* LRUPolicy.evict_next: popitem(last=False)
EvictNext(cc) == Without(cc, {x.key : x \in {e \in cc : e.older = {}}})

\* Mutant: the cache is allowed one entry more.
SetLate(cc, e) ==
  LET new == MoveToEnd(cc, e)
  IN IF Cardinality(new) > MaxSize + 1 THEN EvictNext(new) ELSE new

\* set(): the entry is the most recent one, and the oldest one goes.
Set(cc, e) ==
  LET new == MoveToEnd(cc, e)
  IN IF Cardinality(new) > MaxSize THEN EvictNext(new) ELSE new

\* Mutant: a flush of the database is taken for a list of keys.
FlushUnnoticed(cc, news) == Without(cc, news)

\* _on_invalidation_callback: None flushes, a list of keys deletes.
OnInvalidation(cc, news) == IF None \in news THEN {} ELSE Without(cc, news)

\* while can_read(): read_response(push_request=True)
Pushed(msgs, n) == {msgs[i].key : i \in {j \in 1..n : msgs[j].kind = "inval"}}
Drain(cc, msgs) == OnInvalidation(cc, Pushed(msgs, Len(msgs)))
Closed(msgs) == \E i \in DOMAIN msgs : msgs[i].kind = "eof"
-----------------------------------------------------------------------------
(***************************************************************************)
(* The server.                                                             *)
(***************************************************************************)
Notify(changed, m) ==
  /\ sock' = [c \in Conns |-> IF tracked[c] \cap changed # {}
                                THEN Append(sock[c], m) ELSE sock[c]]
  /\ tracked' = [c \in Conns |-> tracked[c] \ changed]

\* Somebody changes a key.
Change(k) ==
  /\ value[k] < MaxChanges
  /\ value' = [value EXCEPT ![k] = @ + 1]
  /\ Notify({k}, Msg("inval", k, 0))
  /\ UNCHANGED <<asked, drops, cache, call>>

\* FLUSHDB
FlushDB ==
  LET live == {k \in Keys : ~Nil(value[k])} IN
  /\ live # {} /\ \A k \in live : value[k] < MaxChanges
  /\ value' = [k \in Keys |-> IF k \in live THEN value[k] + 1 ELSE value[k]]
  /\ Notify(Keys, Msg("inval", None, 0))
  /\ UNCHANGED <<asked, drops, cache, call>>

\* The value, or an error (the key holds another type), which is tracked too.
Serve(c) ==
  /\ asked[c] # <<>>
  /\ LET k == Head(asked[c]) IN
     /\ \E kind \in {"reply", "error"} :
          sock' = [sock EXCEPT ![c] = Append(@, Msg(kind, k, value[k]))]
     /\ tracked' = [tracked EXCEPT ![c] = @ \cup {k}]
  /\ asked' = [asked EXCEPT ![c] = Tail(@)]
  /\ UNCHANGED <<value, drops, cache, call>>

\* The server closes a connection after what it has written.
Drop(c) ==
  /\ drops < MaxDrops /\ drops' = drops + 1
  /\ ~Closed(sock[c])
  /\ sock' = [sock EXCEPT ![c] = Append(@, Msg("eof", None, 0))]
  /\ tracked' = [tracked EXCEPT ![c] = {}]
  /\ asked' = [asked EXCEPT ![c] = <<>>]
  /\ UNCHANGED <<value, cache, call>>
-----------------------------------------------------------------------------
(***************************************************************************)
(* CacheProxyConnection.                                                   *)
(***************************************************************************)
\* Mutant: the connection is kept with what is on its way.
KeepSockets(cs) == UNCHANGED <<sock, tracked, asked>>
\* A new socket, which the server tracks nothing for.
Fresh(cs) ==
  /\ sock' = [c \in Conns |-> IF c \in cs THEN <<>> ELSE sock[c]]
  /\ tracked' = [c \in Conns |-> IF c \in cs THEN {} ELSE tracked[c]]
  /\ asked' = [c \in Conns |-> IF c \in cs THEN <<>> ELSE asked[c]]

\* Mutant: disconnect() leaves the cache alone.
KeepEntries(cc) == cc
\* disconnect(): self._cache.flush()
Flush(cc) == {}

\* A connection or timeout error: the client disconnects, and the command ends.
Disconnect(t, cs) ==
  /\ Fresh(cs)
  /\ cache' = Flush(cache)
  /\ call' = [call EXCEPT ![t] = NoCall]
  /\ UNCHANGED <<value, drops>>

Busy == {call[t].conn : t \in Threads}

\* A command that is not cachable holds the _cache_lock of its connection while
\* it is sent.
Locked(c) ==
  \E t \in Threads :
    call[t].conn = c /\ call[t].key = None /\ call[t].pc \in {"send", "write", "stuck"}

\* send_command: the pending invalidations of this connection come first.  A
\* command that is not cachable has no cache key.  (One that is sent where an
\* answer is still owed reads that answer; it is left out.)
SendCommand(t) ==
  /\ call[t].pc = "idle"
  /\ \E c \in Conns \ Busy :
       IF Closed(sock[c]) THEN Disconnect(t, {c})
       ELSE /\ \/ asked[c] = <<>>
                  /\ call' = [call EXCEPT ![t] = [NoCall EXCEPT !.pc = "send", !.conn = c]]
               \/ \E k \in Keys :
                    call' = [call EXCEPT ![t] =
                       [NoCall EXCEPT !.pc = "lookup", !.conn = c, !.key = k,
                                      !.since = value[k]]]
            /\ cache' = Drain(cache, sock[c])
            /\ sock' = [sock EXCEPT ![c] = <<>>]
            /\ UNCHANGED serverVars

\* A cached key is not asked for.  When another connection holds it, that one's
\* invalidations are read first, and nothing is looked up after that.
Cached(t) ==
  LET c == call[t].conn
      owner == Entry(cache, call[t].key).conn
  IN
  /\ call[t].pc = "lookup"
  /\ Has(cache, call[t].key)
  /\ owner = c \/ ~Locked(owner) \/ Pushed(sock[owner], Len(sock[owner])) = {}
  /\ IF owner = c \/ ~Closed(sock[owner])
       THEN /\ call' = [call EXCEPT ![t].pc = "read"]
            /\ cache' = IF owner = c THEN Touch(cache, call[t].key)
                        ELSE Drain(Touch(cache, call[t].key), sock[owner])
            /\ sock' = IF owner = c THEN sock ELSE [sock EXCEPT ![owner] = <<>>]
            /\ UNCHANGED serverVars
       ELSE Disconnect(t, {c, owner})

\* A temporary entry, before the command is sent.
Uncached(t) ==
  LET c == call[t].conn
      k == call[t].key
  IN
  /\ call[t].pc = "lookup"
  /\ ~Has(cache, k)
  /\ cache' = Set(cache, [key |-> k, val |-> 0, status |-> "IN_PROGRESS", conn |-> c,
                            older |-> {}, lost |-> FALSE])
  /\ call' = [call EXCEPT ![t].pc = "send"]
  /\ UNCHANGED <<serverVars, sock>>

\* The server no longer tracks the entries that this connection has read.
Untracked(cc, c) ==
  {[e EXCEPT !.lost = @ \/ (e.conn = c /\ e.status = "VALID")] : e \in cc}

\* self._conn.send_command: the inner connection sends a PING first.  When that
\* fails it disconnects itself and connects again: the cache is not flushed, and
\* no invalidation comes for what was read on the old socket.  A push that waits
\* before the PONG is handled by a callback that takes _cache_lock: the sender of
\* a command that is not cachable has it already.
CheckHealth(t) ==
  LET c == call[t].conn
      Reads(n) == call[t].key # None \/ Pushed(sock[c], n) = {}
  IN
  /\ HealthChecks
  /\ call[t].pc = "send"
  /\ \/ /\ ~Reads(Len(sock[c]))
        /\ call' = [call EXCEPT ![t].pc = "stuck"]
        /\ UNCHANGED <<serverVars, sock, cache>>
     \/ /\ Reads(Len(sock[c])) /\ asked[c] = <<>>
        /\ \A i \in DOMAIN sock[c] : sock[c][i].kind = "inval"
        /\ cache' = Drain(cache, sock[c])
        /\ sock' = [sock EXCEPT ![c] = <<>>]
        /\ call' = [call EXCEPT ![t].pc = "write"]
        /\ UNCHANGED serverVars
     \/ \E n \in 0..Len(sock[c]) :
        /\ Reads(n)
        /\ cache' = Untracked(OnInvalidation(cache, Pushed(sock[c], n)), c)
        /\ Fresh({c})
        /\ call' = [call EXCEPT ![t].pc = "write"]
        /\ UNCHANGED <<value, drops>>
     \/ Disconnect(t, {c})

\* The command is written to the socket.
Write(t) ==
  LET c == call[t].conn IN
  /\ call[t].pc \in {"send", "write"} /\ call[t].key # None
  /\ asked' = IF Closed(sock[c]) THEN asked
              ELSE [asked EXCEPT ![c] = Append(@, call[t].key)]
  /\ call' = [call EXCEPT ![t].pc = "read"]
  /\ UNCHANGED <<value, tracked, drops, sock, cache>>

\* A command that is not cachable is executed: it changes a key, or nothing, and
\* what the server pushes to this connection is read before the reply.
NotCachable(t) ==
  LET c == call[t].conn IN
  /\ call[t].pc \in {"send", "write"} /\ call[t].key = None
  /\ \/ /\ ~Closed(sock[c])
        /\ \E k \in Keys : \E ks \in {{}, {k}} :
             /\ k \in ks => value[k] < MaxChanges
             /\ value' = [value EXCEPT ![k] = IF k \in ks THEN @ + 1 ELSE @]
             /\ sock' = [d \in Conns |->
                            IF d = c THEN <<>>
                            ELSE IF tracked[d] \cap ks = {} THEN sock[d]
                            ELSE Append(sock[d], Msg("inval", k, 0))]
             /\ tracked' = [d \in Conns |-> tracked[d] \ ks]
             /\ cache' = OnInvalidation(Drain(cache, sock[c]), tracked[c] \cap ks)
        /\ call' = [call EXCEPT ![t] = NoCall]
        /\ UNCHANGED <<asked, drops>>
     \/ Disconnect(t, {c})

Return(t, v, l) ==
  call' = [call EXCEPT ![t] = [@ EXCEPT !.pc = "returned", !.got = v, !.lost = l]]

\* read_response: from the cache, unless the entry is in progress.
ReadCache(t) ==
  LET k == call[t].key IN
  /\ call[t].pc = "read"
  /\ cache' = Touch(cache, k)
  /\ IF Has(cache, k) /\ Entry(cache, k).status = "VALID"
       THEN Return(t, Entry(cache, k).val, Entry(cache, k).lost)
       ELSE call' = [call EXCEPT ![t].pc = "wait"]
  /\ UNCHANGED <<serverVars, sock>>

\* self._conn.read_response: invalidations on the way to the reply.  An error is
\* raised, and the temporary entry stays in the cache.
ReadSocket(t) ==
  LET c == call[t].conn IN
  /\ call[t].pc = "wait"
  /\ sock[c] # <<>>
  /\ LET m == Head(sock[c]) IN
     IF m.kind = "eof" THEN Disconnect(t, {c})
     ELSE /\ sock' = [sock EXCEPT ![c] = Tail(@)]
          /\ cache' = IF m.kind = "inval" THEN OnInvalidation(cache, {m.key}) ELSE cache
          /\ call' = IF m.kind = "reply"
                       THEN [call EXCEPT ![t].pc = "store", ![t].got = m.val]
                     ELSE IF m.kind = "error" THEN [call EXCEPT ![t] = NoCall] ELSE call
          /\ UNCHANGED serverVars

\* socket_timeout
Timeout(t) ==
  /\ call[t].pc = "wait"
  /\ sock[call[t].conn] = <<>>
  /\ Disconnect(t, {call[t].conn})

\* Nil is not kept; anything else only while the temporary entry is there.
Store(t) ==
  LET k == call[t].key
      v == call[t].got
  IN
  /\ call[t].pc = "store"
  /\ cache' = IF Nil(v) THEN Without(cache, {k})
              ELSE IF Has(cache, k)
                THEN Set(cache, [Entry(cache, k) EXCEPT !.status = "VALID", !.val = v])
                ELSE cache
  /\ Return(t, v, FALSE)
  /\ UNCHANGED <<serverVars, sock>>

\* The connection goes back to the pool.
Release(t) ==
  /\ call[t].pc = "returned"
  /\ call' = [call EXCEPT ![t] = NoCall]
  /\ UNCHANGED <<serverVars, sock, cache>>
-----------------------------------------------------------------------------
Step(t) == \/ SendCommand(t) \/ Cached(t) \/ Uncached(t)
           \/ CheckHealth(t) \/ Write(t) \/ NotCachable(t)
           \/ ReadCache(t) \/ ReadSocket(t) \/ Timeout(t) \/ Store(t) \/ Release(t)

Next ==
  \/ \E k \in Keys : Change(k)
  \/ FlushDB
  \/ \E c \in Conns : Serve(c) \/ Drop(c)
  \/ \E t \in Threads : Step(t)

Spec == Init /\ [][Next]_vars
-----------------------------------------------------------------------------
Message == [kind : {"inval", "reply", "error", "eof"}, key : Keys \cup {None}, val : Nat]
CacheEntry == [key : Keys, val : Nat, status : {"IN_PROGRESS", "VALID"}, conn : Conns,
               older : SUBSET Keys, lost : BOOLEAN]
Pcs == {"idle", "lookup", "send", "stuck", "write", "read", "wait", "store", "returned"}
Call == [pc : Pcs, conn : Conns \cup {None}, key : Keys \cup {None}, since : Nat,
         got : Nat, lost : BOOLEAN]

TypeOK ==
  /\ value \in [Keys -> Nat]
  /\ tracked \in [Conns -> SUBSET Keys]
  /\ asked \in [Conns -> Seq(Keys)]
  /\ sock \in [Conns -> Seq(Message)]
  /\ drops \in Nat
  /\ cache \subseteq CacheEntry
  /\ Cardinality(cache) <= MaxSize
  /\ \A e, f \in cache : e.key = f.key => e = f
  /\ call \in [Threads -> Call]

\* What a command returns, from the cache or from the server, was the value of
\* its key at some time since the command was called; unless the entry that it
\* was served from outlived the socket it was read on.
FreshReads ==
  \A t \in Threads : call[t].pc = "returned" /\ ~call[t].lost =>
    call[t].got \in call[t].since..value[call[t].key]

\* What a command returns was the value of its key at some time since the
\* command was called.
AlwaysFresh ==
  \A t \in Threads : call[t].pc = "returned" =>
    call[t].got \in call[t].since..value[call[t].key]

\* The news that an entry is not the server's value: an invalidation, or the end
\* of the connection, waits at the connection that has read it.
Announced(e) ==
  \E j \in DOMAIN sock[e.conn] :
    LET m == sock[e.conn][j]
    IN m.kind = "eof" \/ (m.kind = "inval" /\ m.key \in {None, e.key})

\* An entry that is served is the server's value, or the news that it is not
\* waits at its connection; unless it outlived the socket it was read on.
StaleIsAnnounced ==
  \A e \in cache : e.status = "VALID" /\ ~e.lost => e.val = value[e.key] \/ Announced(e)

\* A lost connection takes the entries it has read with it: an entry that is
\* served is the server's value, or the news that it is not is on its way.
AlwaysAnnounced ==
  \A e \in cache : e.status = "VALID" => e.val = value[e.key] \/ Announced(e)

\* A thread never waits for the _cache_lock that it holds.
NeverStuck == \A t \in Threads : call[t].pc # "stuck"

\* The reply that a command is about to read answers that command, not one that
\* was sent on the connection before and whose reply nobody read.
ReadsItsReply ==
  \A t \in Threads :
    LET s == sock[call[t].conn] IN
    call[t].pc = "wait" /\ s # <<>> =>
      (Head(s).kind \in {"reply", "error"} => Head(s).key = call[t].key)

\* A command waits at its socket only for an answer it has asked for.
WaitsForItsReply ==
  \A t \in Threads : call[t].pc = "wait" =>
    LET c == call[t].conn IN
    \/ \E i \in DOMAIN asked[c] : asked[c][i] = call[t].key
    \/ \E i \in DOMAIN sock[c] : sock[c][i].kind \in {"reply", "error", "eof"}
=============================================================================
