-------------------------- MODULE ClientCacheProofs --------------------------
(***************************************************************************)
(* What client-side caching guarantees for any number of connections and   *)
(* keys, any size of the cache, and any changes and lost connections: the  *)
(* cache keeps its size and its order for any number of callers, and one   *)
(* caller is served a stale value only from an entry that outlived the     *)
(* socket it was read on, which only a failed health check leaves behind.  *)
(***************************************************************************)
EXTENDS ClientCache, FiniteSetTheorems, SequenceTheorems, TLAPS

(***************************************************************************)
(* The cache is a linear order of entries with different keys, no more of  *)
(* them than MaxSize.                                                      *)
(***************************************************************************)
Ordered(cc) ==
  /\ cc \subseteq CacheEntry
  /\ IsFiniteSet(cc)
  /\ \A e, f \in cc : e.key = f.key => e = f
  /\ \A e \in cc : e.key \notin e.older
  /\ \A e \in cc : \A k \in e.older : \E f \in cc : f.key = k /\ f.older \subseteq e.older

Bounded(cc) == Ordered(cc) /\ Cardinality(cc) <= MaxSize

\* Two entries that differ at most in when they were used.
Same(e, f) ==
  /\ e.key = f.key /\ e.val = f.val /\ e.status = f.status /\ e.conn = f.conn
  /\ e.lost = f.lost

(***************************************************************************)
(* The news about key k in what is left to read: message i of a socket,    *)
(* or a later one, says that k may have changed.                           *)
(***************************************************************************)
Announces(m, k) == m.kind = "eof" \/ (m.kind = "inval" /\ m.key \in {None, k})
NewsFrom(s, i, k) == \E j \in 1..Len(s) : j >= i /\ Announces(s[j], k)
News(s, k) == NewsFrom(s, 1, k)

\* v is what the server would answer now, and it will tell of a change.
Current(c, k, v) == v = value[k] /\ k \in tracked[c]

(***************************************************************************)
(* The inductive invariant.                                                *)
(***************************************************************************)
InCall ==
  \A t \in Threads :
    /\ call[t].pc # "idle" => call[t].conn \in Conns
    /\ call[t].pc \in {"lookup", "read", "wait", "store", "returned"} => call[t].key \in Keys

\* An entry that is served is current, or the news is on its way, or the socket
\* that it was read on is lost.
Known(e) ==
  e.lost \/ Current(e.conn, e.key, e.val) \/ News(sock[e.conn], e.key)
Entries == \A e \in cache : e.status = "VALID" => e.val <= value[e.key] /\ Known(e)

\* The cache has nothing for the command of t but the entry it has put there.
Own(t) ==
  \A e \in cache : e.key = call[t].key =>
    e.status = "IN_PROGRESS" /\ e.conn = call[t].conn /\ ~e.lost

\* The command of t may have been sent.
Sent(t) == call[t].pc \in {"read", "wait"} /\ Own(t)

\* An answer: a value or an error.
IsReply(m) == m.kind \in {"reply", "error"}

\* The server owes an answer only to the command under way, and at most one.
Requests ==
  \A c \in Conns : asked[c] # <<>> =>
    /\ \E t \in Threads : Sent(t) /\ c = call[t].conn /\ asked[c] = <<call[t].key>>
    /\ \A i \in 1..Len(sock[c]) : ~IsReply(sock[c][i])

\* A reply on its way is to the command under way; it is current or the news
\* comes behind it.
Answers(c, i, m) ==
  /\ \E t \in Threads :
       /\ Sent(t) /\ c = call[t].conn /\ m.key = call[t].key
       /\ call[t].since <= m.val
  /\ m.key \in Keys
  /\ m.val <= value[m.key]
  /\ Current(c, m.key, m.val) \/ NewsFrom(sock[c], i + 1, m.key)
  /\ \A j \in 1..Len(sock[c]) : IsReply(sock[c][j]) => j = i
Replies ==
  \A c \in Conns : \A i \in 1..Len(sock[c]) :
    IsReply(sock[c][i]) => Answers(c, i, sock[c][i])

\* What the command has found, or is about to find, is no older than the call.
Serves(e, t) == e.key = call[t].key /\ e.status = "VALID"
Recent ==
  \A t \in Threads :
    /\ call[t].pc # "idle" /\ call[t].key # None => call[t].since <= value[call[t].key]
    /\ call[t].pc = "lookup" =>
         \A e \in cache : Serves(e, t) /\ e.conn = call[t].conn /\ ~e.lost =>
           call[t].since <= e.val
    /\ call[t].pc \in {"send", "write"} => Own(t)
    /\ call[t].pc = "read" =>
         \A e \in cache : Serves(e, t) /\ ~e.lost => call[t].since <= e.val
    /\ call[t].pc = "wait" => \A e \in cache : ~Serves(e, t)
    /\ call[t].pc = "store" \/ (call[t].pc = "returned" /\ ~call[t].lost) =>
         call[t].got \in call[t].since..value[call[t].key]
    /\ call[t].pc = "store" =>
         /\ Own(t)
         /\ \/ Current(call[t].conn, call[t].key, call[t].got)
            \/ News(sock[call[t].conn], call[t].key)

Coherent == InCall /\ Entries /\ Requests /\ Replies /\ Recent
-----------------------------------------------------------------------------
(***************************************************************************)
(* The operations of the cache.                                            *)
(***************************************************************************)
\* Deleting keys keeps the other entries and their order.
LEMMA WithoutEntries ==
  ASSUME NEW cc, cc \subseteq CacheEntry, NEW ks
  PROVE  /\ Without(cc, ks) \subseteq CacheEntry
         /\ \A f \in Without(cc, ks) :
              f.key \notin ks /\ \E e \in cc : Same(e, f) /\ f.older = e.older \ ks
         /\ \A e \in cc : e.key \notin ks =>
              \E f \in Without(cc, ks) : Same(e, f) /\ f.older = e.older \ ks
<1> DEFINE Later(e) == [e EXCEPT !.older = @ \ ks]
<1>1. ASSUME NEW e \in cc
      PROVE  /\ Later(e) \in CacheEntry /\ Same(e, Later(e))
             /\ Later(e).older = e.older \ ks /\ Later(e).key = e.key
  BY DEF CacheEntry, Same
<1>2. Without(cc, ks) = {Later(e) : e \in {x \in cc : x.key \notin ks}}
  BY DEF Without
<1> HIDE DEF Later
<1>3. ASSUME NEW f \in Without(cc, ks)
      PROVE  /\ f \in CacheEntry /\ f.key \notin ks
             /\ \E e \in cc : Same(e, f) /\ f.older = e.older \ ks
  <2>1. PICK e \in cc : e.key \notin ks /\ f = Later(e)
    BY <1>2
  <2> QED
    BY <1>1, <2>1
<1>4. ASSUME NEW e \in cc, e.key \notin ks
      PROVE  \E f \in Without(cc, ks) : Same(e, f) /\ f.older = e.older \ ks
  <2>1. Later(e) \in Without(cc, ks)
    BY <1>2, <1>4
  <2> QED
    BY <1>1, <2>1
<1> QED
  BY <1>3, <1>4

LEMMA WithoutOrdered ==
  ASSUME NEW cc, Ordered(cc), NEW ks
  PROVE  /\ Ordered(Without(cc, ks))
         /\ Cardinality(Without(cc, ks)) <= Cardinality(cc)
         /\ (\E e \in cc : e.key \in ks) =>
              Cardinality(Without(cc, ks)) < Cardinality(cc)
<1> DEFINE kept == {x \in cc : x.key \notin ks}
           new == Without(cc, ks)
           Later(e) == [e EXCEPT !.older = @ \ ks]
<1>1. cc \subseteq CacheEntry /\ IsFiniteSet(cc)
  BY DEF Ordered
<1>2. /\ IsFiniteSet(kept) /\ Cardinality(kept) <= Cardinality(cc)
      /\ kept # cc => Cardinality(kept) < Cardinality(cc)
  <2>1. kept \in SUBSET cc
    OBVIOUS
  <2>2. /\ IsFiniteSet(kept) /\ Cardinality(kept) <= Cardinality(cc)
        /\ Cardinality(cc) = Cardinality(kept) => cc = kept
    BY <1>1, <2>1, FS_Subset
  <2>3. Cardinality(cc) \in Nat /\ Cardinality(kept) \in Nat
    BY <1>1, <2>2, FS_CardinalityType
  <2> QED
    BY <2>2, <2>3
<1>3. IsFiniteSet(new) /\ Cardinality(new) <= Cardinality(kept)
  <2> DEFINE f == [e \in kept |-> Later(e)]
  <2>1. f \in Surjection(kept, new)
    BY DEF Surjection, Without
  <2> HIDE DEF f
  <2> QED
    BY <1>2, <2>1, FS_Surjection
<1>4. Cardinality(cc) \in Nat /\ Cardinality(kept) \in Nat /\ Cardinality(new) \in Nat
  BY <1>1, <1>2, <1>3, FS_CardinalityType
<1>5. (\E e \in cc : e.key \in ks) => kept # cc
  OBVIOUS
<1> HIDE DEF kept, new
<1>6. /\ new \subseteq CacheEntry
      /\ \A f \in new :
           f.key \notin ks /\ \E e \in cc : Same(e, f) /\ f.older = e.older \ ks
      /\ \A e \in cc : e.key \notin ks =>
           \E f \in new : Same(e, f) /\ f.older = e.older \ ks
  BY <1>1, WithoutEntries DEF new
<1>7. ASSUME NEW e \in new, NEW f \in new, e.key = f.key PROVE e = f
  <2>1. PICK x \in cc : e = Later(x)
    BY DEF new, Without
  <2>2. PICK y \in cc : f = Later(y)
    BY DEF new, Without
  <2>3. x.key = e.key /\ y.key = f.key
    BY <1>1, <2>1, <2>2 DEF CacheEntry
  <2>4. x = y
    BY <1>7, <2>3 DEF Ordered
  <2> QED
    BY <2>1, <2>2, <2>4
<1>8. \A e \in new : e.key \notin e.older
  BY <1>6 DEF Ordered, Same
<1>9. ASSUME NEW e \in new, NEW k \in e.older
      PROVE  \E f \in new : f.key = k /\ f.older \subseteq e.older
  <2>1. PICK d \in cc : Same(d, e) /\ e.older = d.older \ ks
    BY <1>6
  <2>2. PICK x \in cc : x.key = k /\ x.older \subseteq d.older
    BY <1>9, <2>1 DEF Ordered
  <2>3. PICK f \in new : Same(x, f) /\ f.older = x.older \ ks
    BY <1>6, <1>9, <2>1, <2>2
  <2> QED
    BY <2>1, <2>2, <2>3 DEF Same
<1>10. Ordered(new)
  BY <1>3, <1>6, <1>7, <1>8, <1>9 DEF Ordered
<1> QED
  BY <1>2, <1>3, <1>4, <1>5, <1>10 DEF new

\* A touched entry is the most recent one, and the others stay.
LEMMA MoveToEndOrdered ==
  ASSUME NEW cc, Ordered(cc), NEW e \in CacheEntry
  PROVE  /\ Ordered(MoveToEnd(cc, e))
         /\ Cardinality(MoveToEnd(cc, e)) <= Cardinality(cc) + 1
         /\ (\E d \in cc : d.key = e.key) =>
              Cardinality(MoveToEnd(cc, e)) <= Cardinality(cc)
         /\ \A f \in MoveToEnd(cc, e) :
              Same(e, f) \/ (f.key # e.key /\ \E d \in cc : Same(d, f))
<1> DEFINE rest == Without(cc, {e.key})
           keys == {x.key : x \in rest}
           last == [e EXCEPT !.older = keys]
<1>1. /\ Ordered(rest)
      /\ Cardinality(rest) <= Cardinality(cc)
      /\ (\E d \in cc : d.key = e.key) => Cardinality(rest) < Cardinality(cc)
  BY WithoutOrdered
<1>2. \A f \in rest : f.key # e.key /\ \E d \in cc : Same(d, f)
  <2>1. cc \subseteq CacheEntry
    BY DEF Ordered
  <2> QED
    BY <2>1, WithoutEntries
<1>3. MoveToEnd(cc, e) = rest \cup {last}
  BY DEF MoveToEnd
<1> HIDE DEF rest
<1>4. keys \subseteq Keys
  BY <1>1 DEF Ordered, CacheEntry
<1>5. last \in CacheEntry /\ Same(e, last) /\ last.older = keys /\ last.key = e.key
  BY <1>4 DEF CacheEntry, Same
<1>6. e.key \notin keys
  BY <1>2
<1> HIDE DEF last
<1>7. last \notin rest
  BY <1>2, <1>5
<1>8. /\ IsFiniteSet(rest \cup {last})
      /\ Cardinality(rest \cup {last}) = Cardinality(rest) + 1
  BY <1>1, <1>7, FS_AddElement DEF Ordered
<1>9. Cardinality(rest) \in Nat /\ Cardinality(cc) \in Nat
  BY <1>1, FS_CardinalityType DEF Ordered
<1>10. \A x, y \in rest \cup {last} : x.key = y.key => x = y
  BY <1>1, <1>2, <1>5 DEF Ordered
<1>11. \A x \in rest \cup {last} : x.key \notin x.older
  BY <1>1, <1>5, <1>6 DEF Ordered
<1>12. ASSUME NEW x \in rest \cup {last}, NEW k \in x.older
       PROVE  \E f \in rest \cup {last} : f.key = k /\ f.older \subseteq x.older
  <2>1. CASE x \in rest
    BY <1>1, <1>12, <2>1 DEF Ordered
  <2>2. CASE x = last
    <3>1. PICK f \in rest : f.key = k
      BY <1>5, <1>12, <2>2
    <3>2. f.older \subseteq keys
      BY <1>1, <3>1 DEF Ordered
    <3> QED
      BY <1>5, <2>2, <3>1, <3>2
  <2> QED
    BY <2>1, <2>2
<1>13. Ordered(rest \cup {last})
  BY <1>1, <1>5, <1>8, <1>10, <1>11, <1>12 DEF Ordered
<1> HIDE DEF keys
<1> QED
  BY <1>1, <1>2, <1>3, <1>5, <1>8, <1>9, <1>13

\* There is an entry that was used less recently than all others.
LEMMA OldestExists ==
  ASSUME NEW cc, Ordered(cc), cc # {}
  PROVE  \E e \in cc : e.older = {}
<1> DEFINE sets == {e.older : e \in cc}
<1>1. sets \subseteq FiniteSubsetsOf(Keys)
  <2>1. \A e \in cc : e.older \in SUBSET Keys
    BY DEF Ordered, CacheEntry
  <2> QED
    BY <2>1, ClientCacheAssumption, FS_FiniteSubsetsOfFinite
<1>2. sets # {}
  OBVIOUS
<1> HIDE DEF sets
<1>3. PICK x \in sets : \A y \in sets : ~ (<<y, x>> \in StrictSubsetOrdering(Keys))
  <2>1. IsWellFoundedOn(StrictSubsetOrdering(Keys), FiniteSubsetsOf(Keys))
    BY FS_StrictSubsetOrderingWellFounded
  <2> QED
    BY <1>1, <1>2, <2>1, WFMin
<1>4. PICK e \in cc : x = e.older
  BY <1>3 DEF sets
<1>5. ASSUME NEW k \in e.older PROVE FALSE
  <2>1. PICK f \in cc : f.key = k /\ f.older \subseteq e.older
    BY <1>5 DEF Ordered
  <2>2. f.key \notin f.older
    BY DEF Ordered
  <2>3. f.older \in SUBSET Keys /\ e.older \in SUBSET Keys
    BY DEF Ordered, CacheEntry
  <2>4. <<f.older, e.older>> \in StrictSubsetOrdering(Keys)
    BY <1>5, <2>1, <2>2, <2>3 DEF StrictSubsetOrdering
  <2> QED
    BY <1>3, <1>4, <2>4 DEF sets
<1> QED
  BY <1>5

\* set() stores the entry and never exceeds max_size.
LEMMA SetBounded ==
  ASSUME NEW cc, Bounded(cc), NEW e \in CacheEntry
  PROVE  /\ Bounded(Set(cc, e))
         /\ \A f \in Set(cc, e) :
              Same(e, f) \/ (f.key # e.key /\ \E d \in cc : Same(d, f))
<1> DEFINE new == MoveToEnd(cc, e)
           oldest == {x.key : x \in {y \in new : y.older = {}}}
<1>1. /\ Ordered(new)
      /\ Cardinality(new) <= Cardinality(cc) + 1
      /\ \A f \in new : Same(e, f) \/ (f.key # e.key /\ \E d \in cc : Same(d, f))
  BY MoveToEndOrdered DEF Bounded
<1>2. Set(cc, e) = IF Cardinality(new) > MaxSize THEN Without(new, oldest) ELSE new
  BY DEF Set, EvictNext
<1>3. Cardinality(new) \in Nat /\ Cardinality(cc) \in Nat /\ MaxSize \in Nat
  BY <1>1, FS_CardinalityType, ClientCacheAssumption DEF Ordered, Bounded
<1>4. new # {}
  BY DEF MoveToEnd
<1> HIDE DEF new
<1>5. \E x \in new : x.key \in oldest
  BY <1>1, <1>4, OldestExists
<1> HIDE DEF oldest
<1>6. Ordered(Without(new, oldest)) /\ Cardinality(Without(new, oldest)) < Cardinality(new)
  BY <1>1, <1>5, WithoutOrdered
<1>7. Cardinality(Without(new, oldest)) \in Nat
  BY <1>6, FS_CardinalityType DEF Ordered
<1>8. \A f \in Without(new, oldest) : \E d \in new : Same(d, f)
  <2>1. new \subseteq CacheEntry
    BY <1>1 DEF Ordered
  <2> QED
    BY <2>1, WithoutEntries
<1>9. CASE Cardinality(new) > MaxSize
  <2>1. Cardinality(Without(new, oldest)) <= MaxSize
    BY <1>1, <1>3, <1>6, <1>7 DEF Bounded
  <2> QED
    BY <1>1, <1>2, <1>6, <1>8, <1>9, <2>1 DEF Bounded, Same
<1>10. CASE ~(Cardinality(new) > MaxSize)
  BY <1>1, <1>2, <1>3, <1>10 DEF Bounded
<1> QED
  BY <1>9, <1>10

\* get() changes nothing but the order.
LEMMA TouchBounded ==
  ASSUME NEW cc, Bounded(cc), NEW k
  PROVE  Bounded(Touch(cc, k)) /\ \A f \in Touch(cc, k) : \E d \in cc : Same(d, f)
<1>1. CASE ~Has(cc, k)
  BY <1>1 DEF Touch, Same
<1>2. CASE Has(cc, k)
  <2> DEFINE e == Entry(cc, k)
  <2>1. e \in cc /\ e.key = k
    BY <1>2 DEF Has, Entry
  <2>2. e \in CacheEntry /\ Ordered(cc)
    BY <2>1 DEF Bounded, Ordered
  <2>3. Touch(cc, k) = MoveToEnd(cc, e)
    BY <1>2 DEF Touch
  <2> HIDE DEF e
  <2>4. /\ Ordered(MoveToEnd(cc, e))
        /\ Cardinality(MoveToEnd(cc, e)) <= Cardinality(cc)
        /\ \A f \in MoveToEnd(cc, e) : Same(e, f) \/ \E d \in cc : Same(d, f)
    BY <2>1, <2>2, MoveToEndOrdered
  <2>5. Cardinality(MoveToEnd(cc, e)) \in Nat /\ Cardinality(cc) \in Nat /\ MaxSize \in Nat
    BY <2>2, <2>4, FS_CardinalityType, ClientCacheAssumption DEF Ordered
  <2>6. Cardinality(MoveToEnd(cc, e)) <= MaxSize
    BY <2>4, <2>5 DEF Bounded
  <2> QED
    BY <2>1, <2>3, <2>4, <2>6 DEF Bounded
<1> QED
  BY <1>1, <1>2

LEMMA EmptyBounded == Bounded({})
<1>1. IsFiniteSet({}) /\ Cardinality({}) = 0
  BY FS_EmptySet
<1> QED
  BY <1>1, ClientCacheAssumption DEF Bounded, Ordered

\* An invalidation removes what it names and nothing else.
LEMMA OnInvalidationBounded ==
  ASSUME NEW cc, Bounded(cc), NEW news
  PROVE  /\ Bounded(OnInvalidation(cc, news))
         /\ \A f \in OnInvalidation(cc, news) :
              /\ None \notin news /\ f.key \notin news
              /\ \E d \in cc : Same(d, f)
<1>1. CASE None \in news
  BY <1>1, EmptyBounded DEF OnInvalidation
<1>2. CASE None \notin news
  <2>1. OnInvalidation(cc, news) = Without(cc, news)
    BY <1>2 DEF OnInvalidation
  <2>2. Ordered(cc) /\ cc \subseteq CacheEntry
    BY DEF Bounded, Ordered
  <2>3. /\ Ordered(Without(cc, news))
        /\ Cardinality(Without(cc, news)) <= Cardinality(cc)
    BY <2>2, WithoutOrdered
  <2>4. \A f \in Without(cc, news) : f.key \notin news /\ \E d \in cc : Same(d, f)
    BY <2>2, WithoutEntries
  <2>5. Cardinality(Without(cc, news)) <= MaxSize
    <3>1. Cardinality(Without(cc, news)) \in Nat /\ Cardinality(cc) \in Nat /\ MaxSize \in Nat
      BY <2>2, <2>3, FS_CardinalityType, ClientCacheAssumption DEF Ordered
    <3> QED
      BY <2>3, <3>1 DEF Bounded
  <2> QED
    BY <1>2, <2>1, <2>3, <2>4, <2>5 DEF Bounded
<1> QED
  BY <1>1, <1>2

\* After a drain, no entry is left of which the messages had news.
LEMMA DrainBounded ==
  ASSUME NEW cc, Bounded(cc), NEW s \in Seq(Message)
  PROVE  /\ Bounded(Drain(cc, s))
         /\ \A f \in Drain(cc, s) :
              (~Closed(s) => ~News(s, f.key)) /\ \E d \in cc : Same(d, f)
<1> DEFINE news == Pushed(s, Len(s))
<1>1. Drain(cc, s) = OnInvalidation(cc, news)
  BY DEF Drain
<1>2. DOMAIN s = 1..Len(s)
  OBVIOUS
<1>3. ASSUME NEW k, ~Closed(s), News(s, k) PROVE None \in news \/ k \in news
  BY <1>2, <1>3 DEF News, NewsFrom, Announces, Closed, Pushed
<1> HIDE DEF news
<1>4. /\ Bounded(OnInvalidation(cc, news))
      /\ \A f \in OnInvalidation(cc, news) :
           /\ None \notin news /\ f.key \notin news
           /\ \E d \in cc : Same(d, f)
  BY OnInvalidationBounded
<1> QED
  BY <1>1, <1>3, <1>4

\* A lost socket marks the entries that were read on it, and changes no other.
LEMMA UntrackedBounded ==
  ASSUME NEW cc, Bounded(cc), NEW c
  PROVE  /\ Bounded(Untracked(cc, c))
         /\ \A f \in Untracked(cc, c) : \E e \in cc :
              /\ e.key = f.key /\ e.val = f.val /\ e.status = f.status /\ e.conn = f.conn
              /\ f.lost = (e.lost \/ (e.conn = c /\ e.status = "VALID"))
<1> DEFINE new == Untracked(cc, c)
           Mark(e) == [e EXCEPT !.lost = @ \/ (e.conn = c /\ e.status = "VALID")]
<1>1. cc \subseteq CacheEntry /\ IsFiniteSet(cc)
  BY DEF Bounded, Ordered
<1>2. ASSUME NEW e \in cc
      PROVE  /\ Mark(e) \in CacheEntry
             /\ Mark(e).key = e.key /\ Mark(e).val = e.val /\ Mark(e).status = e.status
             /\ Mark(e).conn = e.conn /\ Mark(e).older = e.older
             /\ Mark(e).lost = (e.lost \/ (e.conn = c /\ e.status = "VALID"))
  <2>1. e \in CacheEntry
    BY <1>1
  <2> QED
    BY <2>1 DEF CacheEntry
<1>3. new = {Mark(e) : e \in cc}
  BY DEF Untracked
<1>4. IsFiniteSet(new) /\ Cardinality(new) <= Cardinality(cc)
  <2> DEFINE f == [e \in cc |-> Mark(e)]
  <2>1. f \in Surjection(cc, new)
    BY <1>3 DEF Surjection
  <2> HIDE DEF f
  <2> QED
    BY <1>1, <2>1, FS_Surjection
<1> HIDE DEF Mark, new
<1>5. new \subseteq CacheEntry
  BY <1>2, <1>3
<1>6. \A e, f \in new : e.key = f.key => e = f
  BY <1>2, <1>3 DEF Bounded, Ordered
<1>7. \A e \in new : e.key \notin e.older
  BY <1>2, <1>3 DEF Bounded, Ordered
<1>8. ASSUME NEW e \in new, NEW k \in e.older
      PROVE  \E f \in new : f.key = k /\ f.older \subseteq e.older
  <2>1. PICK x \in cc : e = Mark(x)
    BY <1>3
  <2>2. PICK y \in cc : y.key = k /\ y.older \subseteq x.older
    BY <1>2, <1>8, <2>1 DEF Bounded, Ordered
  <2> QED
    BY <1>2, <1>3, <2>1, <2>2
<1>9. Cardinality(new) <= MaxSize
  <2>1. Cardinality(new) \in Nat /\ Cardinality(cc) \in Nat /\ MaxSize \in Nat
    BY <1>1, <1>4, FS_CardinalityType, ClientCacheAssumption
  <2> QED
    BY <1>4, <2>1 DEF Bounded
<1>10. Bounded(new)
  BY <1>4, <1>5, <1>6, <1>7, <1>8, <1>9 DEF Bounded, Ordered
<1> QED
  BY <1>2, <1>3, <1>10 DEF new
-----------------------------------------------------------------------------
(***************************************************************************)
(* Type correctness, for any number of callers.                            *)
(***************************************************************************)
Plain ==
  /\ value \in [Keys -> Nat]
  /\ tracked \in [Conns -> SUBSET Keys]
  /\ asked \in [Conns -> Seq(Keys)]
  /\ sock \in [Conns -> Seq(Message)]
  /\ drops \in Nat
  /\ call \in [Threads -> Call]

Typed == Plain /\ Bounded(cache) /\ InCall

LEMMA MessageType ==
  ASSUME NEW kind \in {"inval", "reply", "error", "eof"}, NEW k \in Keys \cup {None}, NEW v \in Nat
  PROVE  /\ Msg(kind, k, v) \in Message
         /\ Msg(kind, k, v).kind = kind
         /\ Msg(kind, k, v).key = k
         /\ Msg(kind, k, v).val = v
  BY DEF Msg, Message

LEMMA NoCallType == NoCall \in Call /\ NoCall.pc = "idle" /\ NoCall.key = None
  BY DEF NoCall, Call, Pcs

LEMMA FreshTyped ==
  ASSUME Typed, NEW cs, Fresh(cs)
  PROVE  /\ sock' \in [Conns -> Seq(Message)]
         /\ tracked' \in [Conns -> SUBSET Keys]
         /\ asked' \in [Conns -> Seq(Keys)]
  BY DEF Fresh, Typed, Plain

\* disconnect() empties the cache and the connections it is about.
LEMMA DisconnectTyped ==
  ASSUME Typed, NEW t \in Threads, NEW cs, Disconnect(t, cs)
  PROVE  Typed'
<1>1. cache' = {} /\ UNCHANGED <<value, drops>> /\ call' = [call EXCEPT ![t] = NoCall]
  BY DEF Disconnect, Flush
<1>2. /\ sock' \in [Conns -> Seq(Message)]
      /\ tracked' \in [Conns -> SUBSET Keys]
      /\ asked' \in [Conns -> Seq(Keys)]
  BY FreshTyped DEF Disconnect
<1> QED
  BY <1>1, <1>2, EmptyBounded, NoCallType DEF Typed, Plain, InCall

LEMMA NotifyTyped ==
  ASSUME Typed, NEW changed, NEW m \in Message, Notify(changed, m)
  PROVE  sock' \in [Conns -> Seq(Message)] /\ tracked' \in [Conns -> SUBSET Keys]
<1>1. ASSUME NEW c \in Conns PROVE sock[c] \in Seq(Message) /\ Append(sock[c], m) \in Seq(Message)
  BY DEF Typed, Plain
<1> QED
  BY <1>1 DEF Notify, Typed, Plain

\* What a thread begins, and the two outcomes of send_command and of a command
\* that is not cachable, each with a name.
Begins(n, c) ==
  \/ n = [NoCall EXCEPT !.pc = "send", !.conn = c]
  \/ \E k \in Keys : n = [NoCall EXCEPT !.pc = "lookup", !.conn = c, !.key = k,
                                        !.since = value[k]]
Sends(t, c) ==
  IF Closed(sock[c]) THEN Disconnect(t, {c})
  ELSE /\ \E n : call' = [call EXCEPT ![t] = n] /\ Begins(n, c)
       /\ cache' = Drain(cache, sock[c])
       /\ sock' = [sock EXCEPT ![c] = <<>>]
       /\ UNCHANGED serverVars
Executes(t, k, ks) ==
  LET c == call[t].conn IN
  /\ ~Closed(sock[c])
  /\ value' = [value EXCEPT ![k] = IF k \in ks THEN @ + 1 ELSE @]
  /\ sock' = [d \in Conns |-> IF d = c THEN <<>>
                              ELSE IF tracked[d] \cap ks = {} THEN sock[d]
                              ELSE Append(sock[d], Msg("inval", k, 0))]
  /\ tracked' = [d \in Conns |-> tracked[d] \ ks]
  /\ cache' = OnInvalidation(Drain(cache, sock[c]), tracked[c] \cap ks)
  /\ call' = [call EXCEPT ![t] = NoCall]
  /\ UNCHANGED <<asked, drops>>

LEMMA BeginsLemma ==
  ASSUME Typed, NEW c \in Conns, NEW n, Begins(n, c)
  PROVE  /\ n \in Call /\ n.conn = c /\ n.pc \in {"lookup", "send"}
         /\ n.pc = "lookup" => n.key \in Keys /\ n.since = value[n.key]
         /\ n.pc = "send" => n.key = None
<1>1. CASE n = [NoCall EXCEPT !.pc = "send", !.conn = c]
  BY <1>1 DEF NoCall, Call, Pcs
<1>2. ASSUME NEW k \in Keys, n = [NoCall EXCEPT !.pc = "lookup", !.conn = c, !.key = k,
                                                !.since = value[k]]
      PROVE  /\ n \in Call /\ n.conn = c /\ n.pc = "lookup"
             /\ n.key = k /\ n.since = value[k]
  BY <1>2 DEF NoCall, Call, Pcs, Typed, Plain
<1> QED
  BY <1>1, <1>2 DEF Begins, NoCall

LEMMA TypedStep == Typed /\ [Next]_vars => Typed'
<1> SUFFICES ASSUME Typed, [Next]_vars PROVE Typed'
  OBVIOUS
<1>1. ASSUME NEW k \in Keys, Change(k) PROVE Typed'
  <2>1. value' \in [Keys -> Nat]
    BY <1>1 DEF Change, Typed, Plain
  <2>2. sock' \in [Conns -> Seq(Message)] /\ tracked' \in [Conns -> SUBSET Keys]
    BY <1>1, NotifyTyped, MessageType DEF Change
  <2> QED
    BY <1>1, <2>1, <2>2 DEF Change, Typed, Plain, InCall
<1>2. CASE FlushDB
  <2>1. value' \in [Keys -> Nat]
    BY <1>2 DEF FlushDB, Typed, Plain
  <2>2. sock' \in [Conns -> Seq(Message)] /\ tracked' \in [Conns -> SUBSET Keys]
    BY <1>2, NotifyTyped, MessageType DEF FlushDB
  <2> QED
    BY <1>2, <2>1, <2>2 DEF FlushDB, Typed, Plain, InCall
<1>3. ASSUME NEW c \in Conns, Serve(c) PROVE Typed'
  <2> DEFINE k == Head(asked[c])
  <2>a. PICK kind \in {"reply", "error"} :
          sock' = [sock EXCEPT ![c] = Append(@, Msg(kind, k, value[k]))]
    BY <1>3 DEF Serve
  <2> DEFINE m == Msg(kind, k, value[k])
  <2>0. asked[c] \in Seq(Keys) /\ asked[c] # <<>>
    BY <1>3 DEF Serve, Typed, Plain
  <2>1. k \in Keys /\ value[k] \in Nat /\ Tail(asked[c]) \in Seq(Keys)
    BY <2>0, HeadTailProperties DEF Typed, Plain
  <2>2. m \in Message
    BY <2>1, MessageType
  <2>3. sock' = [sock EXCEPT ![c] = Append(@, m)]
    BY <2>a
  <2> HIDE DEF m
  <2>4. sock' \in [Conns -> Seq(Message)]
    BY <2>2, <2>3 DEF Typed, Plain
  <2>5. asked' \in [Conns -> Seq(Keys)] /\ tracked' \in [Conns -> SUBSET Keys]
    BY <1>3, <2>1 DEF Serve, Typed, Plain
  <2> QED
    BY <1>3, <2>4, <2>5 DEF Serve, Typed, Plain, InCall
<1>4. ASSUME NEW c \in Conns, Drop(c) PROVE Typed'
  <2> DEFINE m == Msg("eof", None, 0)
  <2>1. m \in Message
    BY MessageType
  <2>2. sock' = [sock EXCEPT ![c] = Append(@, m)]
    BY <1>4 DEF Drop
  <2> HIDE DEF m
  <2>3. sock' \in [Conns -> Seq(Message)]
    BY <2>1, <2>2 DEF Typed, Plain
  <2> QED
    BY <1>4, <2>3 DEF Drop, Typed, Plain, InCall
<1>5. ASSUME NEW t \in Threads, SendCommand(t) PROVE Typed'
  <2>1. PICK c \in Conns \ Busy : Sends(t, c)
    BY <1>5 DEF SendCommand, Sends, Begins
  <2>2. CASE Closed(sock[c])
    BY <2>1, <2>2, DisconnectTyped DEF Sends
  <2>3. CASE ~Closed(sock[c])
    <3>1. PICK n : call' = [call EXCEPT ![t] = n] /\ Begins(n, c)
      BY <2>1, <2>3 DEF Sends
    <3>2. n \in Call /\ n.conn = c /\ (n.pc \in {"lookup", "send"}) /\ (n.pc = "lookup" => n.key \in Keys)
      BY <3>1, BeginsLemma
    <3>3. call' \in [Threads -> Call] /\ InCall'
      BY <3>1, <3>2 DEF Typed, Plain, InCall
    <3>4. Bounded(cache')
      BY <2>1, <2>3, DrainBounded DEF Sends, Typed, Plain
    <3>5. sock' \in [Conns -> Seq(Message)]
      <4>1. sock' = [sock EXCEPT ![c] = <<>>] /\ <<>> \in Seq(Message)
        BY <2>1, <2>3 DEF Sends
      <4> QED
        BY <4>1 DEF Typed, Plain
    <3> QED
      BY <2>1, <2>3, <3>3, <3>4, <3>5 DEF Sends, serverVars, Typed, Plain
  <2> QED
    BY <2>2, <2>3
<1>6. ASSUME NEW t \in Threads, NotCachable(t) PROVE Typed'
  <2>0. CASE Disconnect(t, {call[t].conn})
    BY <2>0, DisconnectTyped
  <2>1. ASSUME NEW k \in Keys, NEW ks \in {{}, {k}}, Executes(t, k, ks) PROVE Typed'
    <3> DEFINE c == call[t].conn
    <3>1. /\ Msg("inval", k, 0) \in Message
          /\ \A d \in Conns : sock[d] \in Seq(Message)
          /\ c \in Conns
      BY <1>6, MessageType DEF NotCachable, Typed, Plain, InCall
    <3>2. sock' \in [Conns -> Seq(Message)]
      BY <2>1, <3>1 DEF Executes
    <3>3. Bounded(Drain(cache, sock[c]))
      BY <3>1, DrainBounded DEF Typed
    <3>4. Bounded(cache')
      BY <2>1, <3>3, OnInvalidationBounded DEF Executes
    <3>5. value' \in [Keys -> Nat] /\ tracked' \in [Conns -> SUBSET Keys]
      BY <2>1 DEF Executes, Typed, Plain
    <3>6. call' \in [Threads -> Call] /\ InCall'
      BY <2>1, NoCallType DEF Executes, Typed, Plain, InCall
    <3> QED
      BY <2>1, <3>2, <3>4, <3>5, <3>6 DEF Executes, Typed, Plain
  <2> QED
    BY <1>6, <2>0, <2>1 DEF NotCachable, Executes
<1>7. ASSUME NEW t \in Threads, Cached(t) PROVE Typed'
  <2> DEFINE c == call[t].conn
             k == call[t].key
             owner == Entry(cache, k).conn
  <2>1. call[t].pc = "lookup" /\ c \in Conns /\ k \in Keys /\ Has(cache, k)
    BY <1>7 DEF Cached, Typed, InCall
  <2>2. owner \in Conns
    <3>1. Entry(cache, k) \in cache
      BY <2>1 DEF Has, Entry
    <3> QED
      BY <3>1 DEF Typed, Bounded, Ordered, CacheEntry
  <2>3. CASE owner = c \/ ~Closed(sock[owner])
    <3>1. /\ call' = [call EXCEPT ![t].pc = "read"]
          /\ cache' = IF owner = c THEN Touch(cache, k)
                      ELSE Drain(Touch(cache, k), sock[owner])
          /\ sock' = IF owner = c THEN sock ELSE [sock EXCEPT ![owner] = <<>>]
          /\ UNCHANGED serverVars
      BY <1>7, <2>3 DEF Cached
    <3>2. Bounded(Touch(cache, k))
      BY TouchBounded DEF Typed
    <3>3. Bounded(cache')
      BY <2>2, <3>1, <3>2, DrainBounded DEF Typed, Plain
    <3>4. sock' \in [Conns -> Seq(Message)]
      BY <2>2, <3>1 DEF Typed, Plain
    <3>5. call' \in [Threads -> Call] /\ InCall'
      BY <2>1, <3>1 DEF Typed, Plain, InCall, Call, Pcs
    <3> QED
      BY <3>1, <3>3, <3>4, <3>5 DEF serverVars, Typed, Plain
  <2>4. CASE ~(owner = c \/ ~Closed(sock[owner]))
    BY <1>7, <2>4, DisconnectTyped DEF Cached
  <2> QED
    BY <2>3, <2>4
<1>8. ASSUME NEW t \in Threads, Uncached(t) PROVE Typed'
  <2> DEFINE c == call[t].conn
             k == call[t].key
             e == [key |-> k, val |-> 0, status |-> "IN_PROGRESS", conn |-> c,
                   older |-> {}, lost |-> FALSE]
  <2>1. call[t].pc = "lookup" /\ c \in Conns /\ k \in Keys
    BY <1>8 DEF Uncached, Typed, InCall
  <2>2. e \in CacheEntry
    BY <2>1 DEF CacheEntry
  <2>3. cache' = Set(cache, e)
    BY <1>8 DEF Uncached
  <2> HIDE DEF e
  <2>4. Bounded(cache')
    BY <2>2, <2>3, SetBounded DEF Typed
  <2>5. call' \in [Threads -> Call] /\ InCall'
    BY <1>8, <2>1 DEF Uncached, Typed, Plain, InCall, Call, Pcs
  <2> QED
    BY <1>8, <2>4, <2>5 DEF Uncached, serverVars, Typed, Plain
<1>9. ASSUME NEW t \in Threads, ReadCache(t) PROVE Typed'
  <2> DEFINE k == call[t].key
  <2>1. Bounded(cache')
    BY <1>9, TouchBounded DEF ReadCache, Typed
  <2>2. call[t].pc = "read" /\ call[t] \in Call /\ UNCHANGED <<value, tracked, asked, drops, sock>>
    BY <1>9 DEF ReadCache, Typed, Plain, serverVars
  <2>3. CASE Has(cache, k) /\ Entry(cache, k).status = "VALID"
    <3>1. Entry(cache, k).val \in Nat /\ Entry(cache, k).lost \in BOOLEAN
      BY <2>3 DEF Has, Entry, Typed, Bounded, Ordered, CacheEntry
    <3>2. call' = [call EXCEPT ![t] = [@ EXCEPT !.pc = "returned",
                                                !.got = Entry(cache, k).val,
                                                !.lost = Entry(cache, k).lost]]
      BY <1>9, <2>3 DEF ReadCache, Return
    <3>3. call' \in [Threads -> Call] /\ InCall'
      BY <2>2, <3>1, <3>2 DEF Typed, Plain, InCall, Call, Pcs
    <3> QED
      BY <2>1, <2>2, <3>3 DEF Typed, Plain
  <2>4. CASE ~(Has(cache, k) /\ Entry(cache, k).status = "VALID")
    <3>1. call' = [call EXCEPT ![t].pc = "wait"]
      BY <1>9, <2>4 DEF ReadCache
    <3>2. call' \in [Threads -> Call] /\ InCall'
      BY <2>2, <3>1 DEF Typed, Plain, InCall, Call, Pcs
    <3> QED
      BY <2>1, <2>2, <3>2 DEF Typed, Plain
  <2> QED
    BY <2>3, <2>4
<1>10. ASSUME NEW t \in Threads, ReadSocket(t) PROVE Typed'
  <2> DEFINE c == call[t].conn
             m == Head(sock[c])
  <2>1. call[t].pc = "wait" /\ call[t] \in Call /\ c \in Conns /\ sock[c] \in Seq(Message)
        /\ sock[c] # <<>>
    BY <1>10 DEF ReadSocket, Typed, Plain, InCall
  <2>2. m \in Message /\ Tail(sock[c]) \in Seq(Message)
    BY <2>1, HeadTailProperties
  <2>3. CASE m.kind = "eof"
    BY <1>10, <2>3, DisconnectTyped DEF ReadSocket
  <2>4. CASE m.kind # "eof"
    <3>1. /\ sock' = [sock EXCEPT ![c] = Tail(@)]
          /\ cache' = IF m.kind = "inval" THEN OnInvalidation(cache, {m.key}) ELSE cache
          /\ call' = IF m.kind = "reply"
                       THEN [call EXCEPT ![t].pc = "store", ![t].got = m.val]
                     ELSE IF m.kind = "error" THEN [call EXCEPT ![t] = NoCall] ELSE call
          /\ UNCHANGED serverVars
      BY <1>10, <2>4 DEF ReadSocket
    <3>2. Bounded(cache')
      BY <3>1, OnInvalidationBounded DEF Typed
    <3>3. sock' \in [Conns -> Seq(Message)]
      BY <2>1, <2>2, <3>1 DEF Typed, Plain
    <3>4. m.val \in Nat
      BY <2>2 DEF Message
    <3>5. call' \in [Threads -> Call] /\ InCall'
      BY <2>1, <3>1, <3>4, NoCallType DEF Typed, Plain, InCall, Call, Pcs
    <3> QED
      BY <3>1, <3>2, <3>3, <3>5 DEF serverVars, Typed, Plain
  <2> QED
    BY <2>3, <2>4
<1>11. ASSUME NEW t \in Threads, Timeout(t) PROVE Typed'
  BY <1>11, DisconnectTyped DEF Timeout
<1>12. ASSUME NEW t \in Threads, Store(t) PROVE Typed'
  <2> DEFINE k == call[t].key
             v == call[t].got
             e == [Entry(cache, k) EXCEPT !.status = "VALID", !.val = v]
  <2>1. call[t].pc = "store" /\ call[t] \in Call /\ v \in Nat
    BY <1>12 DEF Store, Typed, Plain, Call
  <2>2. Has(cache, k) => e \in CacheEntry
    <3>1. Has(cache, k) => Entry(cache, k) \in CacheEntry
      BY DEF Has, Entry, Typed, Bounded, Ordered
    <3> QED
      BY <2>1, <3>1 DEF CacheEntry
  <2>3. cache' = IF Nil(v) THEN Without(cache, {k})
                 ELSE IF Has(cache, k) THEN Set(cache, e) ELSE cache
    BY <1>12 DEF Store
  <2> HIDE DEF e
  <2>4. Bounded(Without(cache, {k}))
    <3>1. k # None
      BY <2>1, ClientCacheAssumption DEF Typed, InCall
    <3>2. OnInvalidation(cache, {k}) = Without(cache, {k})
      BY <3>1 DEF OnInvalidation
    <3> QED
      BY <3>2, OnInvalidationBounded DEF Typed
  <2>5. Bounded(cache')
    BY <2>2, <2>3, <2>4, SetBounded DEF Typed
  <2>6. call' \in [Threads -> Call] /\ InCall'
    BY <1>12, <2>1 DEF Store, Return, Typed, Plain, InCall, Call, Pcs
  <2> QED
    BY <1>12, <2>5, <2>6 DEF Store, serverVars, Typed, Plain
<1>13. ASSUME NEW t \in Threads, Release(t) PROVE Typed'
  <2>1. call' \in [Threads -> Call] /\ InCall'
    BY <1>13, NoCallType DEF Release, Typed, Plain, InCall
  <2> QED
    BY <1>13, <2>1 DEF Release, serverVars, Typed, Plain
<1>14. ASSUME NEW t \in Threads, CheckHealth(t) PROVE Typed'
  <2> DEFINE c == call[t].conn
  <2>1. call[t].pc = "send" /\ c \in Conns /\ sock[c] \in Seq(Message)
    BY <1>14 DEF CheckHealth, Typed, Plain, InCall
  <2>2. ASSUME NEW p \in {"stuck", "write"}, call' = [call EXCEPT ![t].pc = p]
        PROVE  call' \in [Threads -> Call] /\ InCall'
    BY <2>1, <2>2 DEF Typed, Plain, InCall, Call, Pcs
  <2>3. CASE call' = [call EXCEPT ![t].pc = "stuck"] /\ UNCHANGED <<serverVars, sock, cache>>
    BY <2>2, <2>3 DEF serverVars, Typed, Plain
  <2>4. CASE /\ cache' = Drain(cache, sock[c])
             /\ sock' = [sock EXCEPT ![c] = <<>>]
             /\ call' = [call EXCEPT ![t].pc = "write"]
             /\ UNCHANGED serverVars
    <3>1. Bounded(cache')
      BY <2>1, <2>4, DrainBounded DEF Typed
    <3>2. sock' \in [Conns -> Seq(Message)]
      <4>1. sock' = [sock EXCEPT ![c] = <<>>] /\ <<>> \in Seq(Message)
        BY <2>4
      <4> QED
        BY <4>1 DEF Typed, Plain
    <3> QED
      BY <2>2, <2>4, <3>1, <3>2 DEF serverVars, Typed, Plain
  <2>5. ASSUME NEW n \in 0..Len(sock[c]),
               cache' = Untracked(OnInvalidation(cache, Pushed(sock[c], n)), c),
               Fresh({c}), call' = [call EXCEPT ![t].pc = "write"],
               UNCHANGED <<value, drops>>
        PROVE  Typed'
    <3>1. Bounded(cache')
      BY <2>5, OnInvalidationBounded, UntrackedBounded DEF Typed
    <3> QED
      BY <2>2, <2>5, <3>1, FreshTyped DEF Typed, Plain
  <2>6. CASE Disconnect(t, {c})
    BY <2>6, DisconnectTyped
  <2> QED
    BY <1>14, <2>3, <2>4, <2>5, <2>6 DEF CheckHealth
<1>15. ASSUME NEW t \in Threads, Write(t) PROVE Typed'
  <2>1. call[t].conn \in Conns /\ call[t].key \in Keys
    BY <1>15 DEF Write, Typed, Plain, InCall, Call
  <2>2. call' \in [Threads -> Call] /\ InCall'
    BY <1>15, <2>1 DEF Write, Typed, Plain, InCall, Call, Pcs
  <2>3. asked' \in [Conns -> Seq(Keys)]
    BY <1>15, <2>1 DEF Write, Typed, Plain
  <2> QED
    BY <1>15, <2>2, <2>3 DEF Write, Typed, Plain
<1>16. CASE UNCHANGED vars
  BY <1>16 DEF vars, serverVars, Typed, Plain, InCall
<1> QED
  BY <1>1, <1>2, <1>3, <1>4, <1>5, <1>6, <1>7, <1>8, <1>9, <1>10, <1>11, <1>12,
     <1>13, <1>14, <1>15, <1>16 DEF Next, Step

LEMMA TypedInit == Init => Typed
<1> SUFFICES ASSUME Init PROVE Typed
  OBVIOUS
<1>1. value \in [Keys -> Nat]
  BY DEF Init
<1>2. InCall
  BY NoCallType DEF Init, InCall
<1> QED
  BY <1>1, <1>2, EmptyBounded, NoCallType DEF Init, Typed, Plain

\* The cache never holds more entries than max_size, or two for one key, and all
\* variables keep their types, for any number of callers and connections.
THEOREM TypeCorrect == Spec => []TypeOK
<1>1. Typed => TypeOK
  BY DEF Typed, Plain, Bounded, Ordered, TypeOK
<1> QED
  BY <1>1, TypedInit, TypedStep, PTL DEF Spec
-----------------------------------------------------------------------------
(***************************************************************************)
(* What is left to read.                                                   *)
(***************************************************************************)
\* What the server writes comes last and takes no news away.
LEMMA NewsAppend ==
  ASSUME NEW s \in Seq(Message), NEW m \in Message
  PROVE  /\ Append(s, m) \in Seq(Message)
         /\ Len(Append(s, m)) = Len(s) + 1
         /\ \A i \in 1..Len(s) : Append(s, m)[i] = s[i]
         /\ Append(s, m)[Len(s) + 1] = m
         /\ \A i \in Nat : \A k : NewsFrom(s, i, k) => NewsFrom(Append(s, m), i, k)
         /\ \A i \in 1..(Len(s) + 1) : \A k : Announces(m, k) => NewsFrom(Append(s, m), i, k)
<1>1. /\ Append(s, m) \in Seq(Message)
      /\ Len(Append(s, m)) = Len(s) + 1
      /\ \A i \in 1..Len(s) : Append(s, m)[i] = s[i]
      /\ Append(s, m)[Len(s) + 1] = m
      /\ Len(s) \in Nat
  OBVIOUS
<1>2. ASSUME NEW i \in Nat, NEW k, NewsFrom(s, i, k) PROVE NewsFrom(Append(s, m), i, k)
  BY <1>1, <1>2 DEF NewsFrom
<1>3. ASSUME NEW i \in 1..(Len(s) + 1), NEW k, Announces(m, k)
      PROVE  NewsFrom(Append(s, m), i, k)
  BY <1>1, <1>3 DEF NewsFrom
<1> QED
  BY <1>1, <1>2, <1>3

\* Reading takes the first message only.
LEMMA NewsTail ==
  ASSUME NEW s \in Seq(Message), s # <<>>
  PROVE  /\ Head(s) = s[1] /\ Head(s) \in Message
         /\ Tail(s) \in Seq(Message)
         /\ Len(Tail(s)) = Len(s) - 1
         /\ \A i \in 1..Len(Tail(s)) : Tail(s)[i] = s[i + 1] /\ i + 1 \in 1..Len(s)
         /\ \A i \in Nat \ {0} : \A k : NewsFrom(s, i + 1, k) => NewsFrom(Tail(s), i, k)
         /\ \A k : News(s, k) /\ ~Announces(Head(s), k) => News(Tail(s), k)
<1>1. /\ Head(s) = s[1] /\ Head(s) \in Message
      /\ Tail(s) \in Seq(Message)
      /\ Len(s) \in Nat \ {0}
      /\ Len(Tail(s)) = Len(s) - 1
      /\ \A i \in 1..(Len(s) - 1) : Tail(s)[i] = s[i + 1]
  OBVIOUS
<1>2. ASSUME NEW i \in Nat \ {0}, NEW k, NewsFrom(s, i + 1, k)
      PROVE  NewsFrom(Tail(s), i, k)
  <2>1. PICK j \in 1..Len(s) : j >= i + 1 /\ Announces(s[j], k)
    BY <1>2 DEF NewsFrom
  <2>2. j - 1 \in 1..(Len(s) - 1) /\ j - 1 >= i /\ (j - 1) + 1 = j
    BY <1>1, <2>1
  <2> QED
    BY <1>1, <2>1, <2>2 DEF NewsFrom
<1>3. ASSUME NEW k, News(s, k), ~Announces(Head(s), k) PROVE News(Tail(s), k)
  <2>1. PICK j \in 1..Len(s) : Announces(s[j], k)
    BY <1>3 DEF News, NewsFrom
  <2>2. j # 1
    BY <1>1, <1>3, <2>1
  <2>3. j - 1 \in 1..(Len(s) - 1) /\ j - 1 >= 1 /\ (j - 1) + 1 = j
    BY <1>1, <2>1, <2>2
  <2> QED
    BY <1>1, <2>1, <2>3 DEF News, NewsFrom
<1>4. \A i \in 1..(Len(s) - 1) : i + 1 \in 1..Len(s)
  BY <1>1
<1> QED
  BY <1>1, <1>2, <1>3, <1>4

LEMMA NewsLater ==
  ASSUME NEW s \in Seq(Message), NEW i \in Nat \ {0}, NEW k, NewsFrom(s, i, k)
  PROVE  News(s, k)
  BY DEF NewsFrom, News
-----------------------------------------------------------------------------
(***************************************************************************)
(* One caller.  First the server, which touches neither the cache nor the  *)
(* call.                                                                   *)
(***************************************************************************)
\* The server writes something that is not a reply, to some connections; a
\* value that is no longer current is announced by what it writes.
Writes(c) ==
  \/ sock'[c] = sock[c]
  \/ \E m \in Message : ~IsReply(m) /\ sock'[c] = Append(sock[c], m)
KeepsTrack(c) ==
  \A k \in Keys : k \in tracked[c] =>
    \/ value'[k] = value[k] /\ k \in tracked'[c]
    \/ NewsFrom(sock'[c], Len(sock[c]) + 1, k)

LEMMA ServerWrites ==
  ASSUME Typed, Typed', Coherent, UNCHANGED <<cache, call>>,
         \A k \in Keys : value'[k] >= value[k],
         \A c \in Conns : asked'[c] \in {asked[c], <<>>} /\ Writes(c) /\ KeepsTrack(c)
  PROVE  Coherent'
<1> USE DEF Coherent
<1>0. /\ \A c \in Conns : sock[c] \in Seq(Message) /\ sock'[c] \in Seq(Message)
      /\ \A k \in Keys : value[k] \in Nat /\ value'[k] \in Nat
      /\ \A t \in Threads : call[t] \in Call
      /\ cache \subseteq CacheEntry
  BY DEF Typed, Plain, Bounded, Ordered
<1>1. ASSUME NEW c \in Conns
      PROVE  /\ Len(sock[c]) \in Nat
             /\ 1..Len(sock[c]) \subseteq 1..Len(sock'[c])
             /\ \A i \in 1..Len(sock[c]) : sock'[c][i] = sock[c][i]
             /\ \A i \in 1..Len(sock'[c]) :
                  IsReply(sock'[c][i]) => i \in 1..Len(sock[c])
             /\ \A i \in Nat : \A k : NewsFrom(sock[c], i, k) => NewsFrom(sock'[c], i, k)
  <2>1. CASE sock'[c] = sock[c]
    BY <1>0, <2>1
  <2>2. ASSUME NEW m \in Message, ~IsReply(m), sock'[c] = Append(sock[c], m)
        PROVE  /\ Len(sock[c]) \in Nat
               /\ 1..Len(sock[c]) \subseteq 1..Len(sock'[c])
               /\ \A i \in 1..Len(sock[c]) : sock'[c][i] = sock[c][i]
               /\ \A i \in 1..Len(sock'[c]) :
                    IsReply(sock'[c][i]) => i \in 1..Len(sock[c])
               /\ \A i \in Nat : \A k : NewsFrom(sock[c], i, k) => NewsFrom(sock'[c], i, k)
    <3>1. Len(sock[c]) \in Nat
      BY <1>0
    <3>2. /\ Len(sock'[c]) = Len(sock[c]) + 1
          /\ \A i \in 1..Len(sock[c]) : sock'[c][i] = sock[c][i]
          /\ sock'[c][Len(sock[c]) + 1] = m
          /\ \A i \in Nat : \A k : NewsFrom(sock[c], i, k) => NewsFrom(sock'[c], i, k)
      BY <1>0, <2>2, NewsAppend
    <3>3. \A n \in Nat : 1..n \subseteq 1..(n + 1)
      OBVIOUS
    <3>4. \A n \in Nat : \A i \in 1..(n + 1) : i \in 1..n \/ i = n + 1
      OBVIOUS
    <3>5. \A i \in 1..Len(sock'[c]) : IsReply(sock'[c][i]) => i \in 1..Len(sock[c])
      BY <2>2, <3>1, <3>2, <3>4
    <3> QED
      BY <3>1, <3>2, <3>3, <3>5
  <2> QED
    BY <2>1, <2>2 DEF Writes
<1>2. ASSUME NEW c \in Conns, NEW k \in Keys, NEW v, Current(c, k, v)
      PROVE  Current(c, k, v)' \/ NewsFrom(sock'[c], Len(sock[c]) + 1, k)
  BY <1>2 DEF Current, KeepsTrack
<1>3. InCall'
  BY DEF Typed
<1>4. Entries'
  <2> SUFFICES ASSUME NEW e \in cache, e.status = "VALID"
               PROVE  e.val <= value'[e.key] /\ Known(e)'
    BY DEF Entries
  <2>1. e.conn \in Conns /\ e.key \in Keys /\ e.val \in Nat
    BY <1>0 DEF CacheEntry
  <2>2. /\ e.val <= value[e.key]
        /\ e.lost \/ Current(e.conn, e.key, e.val) \/ News(sock[e.conn], e.key)
    BY DEF Entries, Known
  <2>3. CASE News(sock[e.conn], e.key)
    <3>1. News(sock'[e.conn], e.key)
      BY <1>1, <2>1, <2>3 DEF News
    <3> QED
      BY <1>0, <2>1, <2>2, <3>1 DEF Known
  <2>4. CASE Current(e.conn, e.key, e.val)
    <3>1. Len(sock[e.conn]) + 1 \in Nat \ {0}
      BY <1>1, <2>1
    <3>2. Current(e.conn, e.key, e.val)' \/ News(sock'[e.conn], e.key)
      BY <1>0, <1>2, <2>1, <2>4, <3>1, NewsLater
    <3> QED
      BY <1>0, <2>1, <2>2, <3>2 DEF Known
  <2>5. CASE e.lost
    BY <1>0, <2>1, <2>2, <2>5 DEF Known
  <2> QED
    BY <2>2, <2>3, <2>4, <2>5
<1>6. \A t \in Threads : (Sent(t) <=> Sent(t)') /\ (Own(t) <=> Own(t)')
  BY DEF Sent, Own
<1>7. Requests'
  <2> SUFFICES ASSUME NEW c \in Conns, asked'[c] # <<>>
               PROVE  /\ \E t \in Threads :
                           Sent(t)' /\ c = call[t].conn /\ asked'[c] = <<call[t].key>>
                      /\ \A i \in 1..Len(sock'[c]) : ~IsReply(sock'[c][i])
    BY DEF Requests
  <2>1. asked'[c] = asked[c] /\ asked[c] # <<>>
    OBVIOUS
  <2> QED
    BY <1>1, <1>6, <2>1 DEF Requests
<1>8. Replies'
  <2> SUFFICES ASSUME NEW c \in Conns, NEW i \in 1..Len(sock'[c]), NEW m,
                      m = sock'[c][i], IsReply(m)
               PROVE  Answers(c, i, m)'
    BY DEF Replies
  <2>1. i \in 1..Len(sock[c]) /\ m = sock[c][i]
    BY <1>1
  <2>2. Answers(c, i, m)
    BY <2>1 DEF Replies
  <2>3. m.val \in Nat /\ m.key \in Keys /\ i + 1 \in Nat
    <3>1. m \in Message /\ i \in Nat
      BY <1>0, <2>1
    <3>2. m.val \in Nat
      BY <3>1 DEF Message
    <3>3. m.key \in Keys
      BY <2>2 DEF Answers
    <3> QED
      BY <3>1, <3>2, <3>3
  <2>4. \E t \in Threads : /\ Sent(t)' /\ c = call'[t].conn /\ m.key = call'[t].key
                           /\ call'[t].since <= m.val
    BY <1>6, <2>2 DEF Answers
  <2>5. m.val <= value'[m.key]
    <3>1. m.val <= value[m.key] /\ value'[m.key] >= value[m.key]
      BY <2>2 DEF Answers
    <3>2. value[m.key] \in Nat /\ value'[m.key] \in Nat
      BY <1>0, <2>3
    <3> QED
      BY <2>3, <3>1, <3>2
  <2>6. Current(c, m.key, m.val)' \/ NewsFrom(sock'[c], i + 1, m.key)
    <3>1. CASE NewsFrom(sock[c], i + 1, m.key)
      BY <1>1, <2>3, <3>1
    <3>2. CASE NewsFrom(sock'[c], Len(sock[c]) + 1, m.key)
      BY <1>0, <1>1, <2>1, <3>2 DEF NewsFrom
    <3> QED
      BY <1>2, <2>2, <2>3, <3>1, <3>2 DEF Answers
  <2>7. ASSUME NEW j \in 1..Len(sock'[c]), IsReply(sock'[c][j]) PROVE j = i
    <3>1. j \in 1..Len(sock[c]) /\ IsReply(sock[c][j])
      BY <1>1, <2>7
    <3>2. \A n \in 1..Len(sock[c]) : IsReply(sock[c][n]) => n = i
      BY <2>2 DEF Answers
    <3> QED
      BY <3>1, <3>2
  <2> QED
    BY <2>3, <2>4, <2>5, <2>6, <2>7 DEF Answers
<1>9. Recent'
  <2> SUFFICES ASSUME NEW t \in Threads
               PROVE  /\ call[t].pc # "idle" /\ call[t].key # None =>
                           call[t].since <= value'[call[t].key]
                      /\ call[t].pc = "store" \/ (call[t].pc = "returned" /\ ~call[t].lost) =>
                           call[t].got \in call[t].since..value'[call[t].key]
                      /\ call[t].pc = "store" =>
                           \/ Current(call[t].conn, call[t].key, call[t].got)'
                           \/ News(sock'[call[t].conn], call[t].key)
    BY <1>6 DEF Recent, Serves
  <2>0. /\ call[t].since \in Nat /\ call[t].got \in Nat
        /\ call[t].key \in Keys \cup {None} /\ None \notin Keys
    BY <1>0, ClientCacheAssumption DEF Call
  <2>1. CASE call[t].pc = "idle" \/ call[t].key = None
    BY <2>0, <2>1 DEF InCall
  <2>2. CASE call[t].pc # "idle" /\ call[t].key # None
    <3>1. call[t].conn \in Conns /\ call[t].key \in Keys
      BY <2>0, <2>2 DEF InCall
    <3>2. /\ call[t].since <= value'[call[t].key]
          /\ call[t].pc = "store" \/ (call[t].pc = "returned" /\ ~call[t].lost) =>
               call[t].got \in call[t].since..value'[call[t].key]
      <4>1. value[call[t].key] \in Nat /\ value'[call[t].key] \in Nat
            /\ value'[call[t].key] >= value[call[t].key]
        BY <1>0, <3>1
      <4>2. /\ call[t].since <= value[call[t].key]
            /\ call[t].pc = "store" \/ (call[t].pc = "returned" /\ ~call[t].lost) =>
                 call[t].got \in call[t].since..value[call[t].key]
        BY <2>2 DEF Recent
      <4> QED
        BY <2>0, <4>1, <4>2
    <3>3. ASSUME call[t].pc = "store"
          PROVE  \/ Current(call[t].conn, call[t].key, call[t].got)'
                 \/ News(sock'[call[t].conn], call[t].key)
      <4>1. CASE News(sock[call[t].conn], call[t].key)
        BY <1>1, <3>1, <4>1 DEF News
      <4>2. CASE Current(call[t].conn, call[t].key, call[t].got)
        <5>1. Len(sock[call[t].conn]) + 1 \in Nat \ {0}
          BY <1>1, <3>1
        <5>2. \/ Current(call[t].conn, call[t].key, call[t].got)'
              \/ NewsFrom(sock'[call[t].conn], Len(sock[call[t].conn]) + 1, call[t].key)
          BY <1>2, <3>1, <4>2
        <5>3. sock'[call[t].conn] \in Seq(Message)
          BY <1>0, <3>1
        <5> QED
          BY <5>1, <5>2, <5>3, NewsLater
      <4> QED
        BY <3>3, <4>1, <4>2 DEF Recent
    <3> QED
      BY <3>2, <3>3
  <2> QED
    BY <2>1, <2>2
<1> QED
  BY <1>3, <1>4, <1>7, <1>8, <1>9

\* A key changes: whoever tracks it is told.
LEMMA ChangeCoherent ==
  ASSUME Typed, Typed', Coherent, NEW k \in Keys, Change(k)
  PROVE  Coherent'
<1> DEFINE m == Msg("inval", k, 0)
<1>1. m \in Message /\ m.kind = "inval" /\ m.key = k
  BY MessageType
<1>2. /\ UNCHANGED <<asked, cache, call>>
      /\ value' = [value EXCEPT ![k] = @ + 1]
      /\ Notify({k}, m)
  BY DEF Change
<1> HIDE DEF m
<1>3. \A j \in Keys : value'[j] >= value[j] /\ (j # k => value'[j] = value[j])
  BY <1>2 DEF Typed, Plain
<1>4. ASSUME NEW c \in Conns PROVE Writes(c) /\ KeepsTrack(c)
  <2>1. Writes(c)
    BY <1>1, <1>2 DEF Notify, Writes, IsReply
  <2>2. ASSUME NEW j \in Keys, j \in tracked[c]
        PROVE  \/ value'[j] = value[j] /\ j \in tracked'[c]
               \/ NewsFrom(sock'[c], Len(sock[c]) + 1, j)
    <3>1. CASE j # k
      BY <1>2, <1>3, <2>2, <3>1 DEF Notify
    <3>2. CASE j = k
      <4>1. sock'[c] = Append(sock[c], m) /\ Announces(m, j)
        BY <1>1, <1>2, <2>2, <3>2 DEF Notify, Announces
      <4>2. sock[c] \in Seq(Message) /\ Len(sock[c]) + 1 \in 1..(Len(sock[c]) + 1)
        BY DEF Typed, Plain
      <4> QED
        BY <1>1, <4>1, <4>2, NewsAppend
    <3> QED
      BY <3>1, <3>2
  <2> QED
    BY <2>1, <2>2 DEF KeepsTrack
<1> QED
  BY <1>2, <1>3, <1>4, ServerWrites

\* The database is flushed: whoever tracks anything is told.
LEMMA FlushCoherent ==
  ASSUME Typed, Typed', Coherent, FlushDB
  PROVE  Coherent'
<1> DEFINE m == Msg("inval", None, 0)
<1>1. m \in Message /\ m.kind = "inval" /\ m.key = None
  BY MessageType
<1>2. UNCHANGED <<asked, cache, call>> /\ Notify(Keys, m)
  BY DEF FlushDB
<1> HIDE DEF m
<1>3. \A j \in Keys : value'[j] >= value[j]
  BY DEF FlushDB, Typed, Plain
<1>4. ASSUME NEW c \in Conns PROVE Writes(c) /\ KeepsTrack(c)
  <2>1. Writes(c)
    BY <1>1, <1>2 DEF Notify, Writes, IsReply
  <2>2. ASSUME NEW j \in Keys, j \in tracked[c]
        PROVE  NewsFrom(sock'[c], Len(sock[c]) + 1, j)
    <3>1. sock'[c] = Append(sock[c], m) /\ Announces(m, j)
      BY <1>1, <1>2, <2>2 DEF Notify, Announces
    <3>2. sock[c] \in Seq(Message) /\ Len(sock[c]) + 1 \in 1..(Len(sock[c]) + 1)
      BY DEF Typed, Plain
    <3> QED
      BY <1>1, <3>1, <3>2, NewsAppend
  <2> QED
    BY <2>1, <2>2 DEF KeepsTrack
<1> QED
  BY <1>2, <1>3, <1>4, ServerWrites

\* The server closes a connection: its end is news of everything.
LEMMA DropCoherent ==
  ASSUME Typed, Typed', Coherent, NEW d \in Conns, Drop(d)
  PROVE  Coherent'
<1> DEFINE m == Msg("eof", None, 0)
<1>1. m \in Message /\ m.kind = "eof"
  BY MessageType
<1>2. /\ UNCHANGED <<value, cache, call>>
      /\ sock' = [sock EXCEPT ![d] = Append(@, m)]
      /\ tracked' = [tracked EXCEPT ![d] = {}]
      /\ asked' = [asked EXCEPT ![d] = <<>>]
  BY DEF Drop
<1> HIDE DEF m
<1>3. \A j \in Keys : value'[j] >= value[j]
  BY <1>2 DEF Typed, Plain
<1>4. ASSUME NEW c \in Conns
      PROVE  asked'[c] \in {asked[c], <<>>} /\ Writes(c) /\ KeepsTrack(c)
  <2>1. asked'[c] \in {asked[c], <<>>} /\ Writes(c)
    BY <1>1, <1>2 DEF Writes, IsReply, Typed, Plain
  <2>2. CASE c # d
    BY <1>2, <2>1, <2>2 DEF KeepsTrack, Typed, Plain
  <2>3. CASE c = d
    <3>1. sock'[c] = Append(sock[c], m) /\ \A j \in Keys : Announces(m, j)
      BY <1>1, <1>2, <2>3 DEF Announces, Typed, Plain
    <3>2. sock[c] \in Seq(Message) /\ Len(sock[c]) + 1 \in 1..(Len(sock[c]) + 1)
      BY DEF Typed, Plain
    <3>3. \A j \in Keys : NewsFrom(sock'[c], Len(sock[c]) + 1, j)
      BY <1>1, <3>1, <3>2, NewsAppend
    <3> QED
      BY <2>1, <3>3 DEF KeepsTrack
  <2> QED
    BY <2>2, <2>3
<1> QED
  BY <1>2, <1>3, <1>4, ServerWrites

\* Outside an exchange nobody is owed an answer.
LEMMA NothingOwed ==
  ASSUME NEW t, Threads = {t}, Coherent, call[t].pc \notin {"read", "wait"}
  PROVE  /\ \A c \in Conns : asked[c] = <<>>
         /\ \A c \in Conns : \A i \in 1..Len(sock[c]) : ~IsReply(sock[c][i])
  BY DEF Coherent, Requests, Replies, Answers, Sent

\* The server answers the command under way.
LEMMA ServeCoherent ==
  ASSUME NEW t, Threads = {t}, Typed, Typed', Coherent, NEW c \in Conns, Serve(c)
  PROVE  Coherent'
<1> USE DEF Coherent
<1>kind. PICK kind \in {"reply", "error"} :
           sock' = [sock EXCEPT ![c] =
                      Append(@, Msg(kind, Head(asked[c]), value[Head(asked[c])]))]
  BY DEF Serve
<1>0. PICK k, m : k = Head(asked[c]) /\ m = Msg(kind, k, value[k])
  OBVIOUS
<1>owed. asked[c] # <<>> /\ asked[c] \in Seq(Keys)
  BY DEF Serve, Typed, Plain
<1>one. asked[c] = <<call[t].key>>
  BY <1>owed DEF Requests
<1>its. k = call[t].key /\ k \in Keys /\ Tail(asked[c]) = <<>>
  BY <1>0, <1>owed, <1>one
<1>1. /\ value[k] \in Nat
      /\ UNCHANGED <<value, cache, call>>
      /\ sock' = [sock EXCEPT ![c] = Append(@, m)]
      /\ tracked' = [tracked EXCEPT ![c] = @ \cup {k}]
      /\ asked' = [asked EXCEPT ![c] = <<>>]
      /\ tracked \in [Conns -> SUBSET Keys] /\ asked \in [Conns -> Seq(Keys)]
      /\ sock \in [Conns -> Seq(Message)]
  BY <1>0, <1>its, <1>kind DEF Serve, Typed, Plain
<1>2. m \in Message /\ IsReply(m) /\ m.key = k /\ m.val = value[k]
  BY <1>0, <1>1, <1>its, MessageType DEF IsReply
<1>3. /\ Sent(t) /\ c = call[t].conn /\ k = call[t].key
      /\ \A i \in 1..Len(sock[c]) : ~IsReply(sock[c][i])
  BY <1>owed, <1>its DEF Requests
<1>4. \A d \in Conns : d # c =>
        /\ asked[d] = <<>> /\ sock'[d] = sock[d]
        /\ \A i \in 1..Len(sock[d]) : ~IsReply(sock[d][i])
  BY <1>1, <1>3 DEF Requests, Replies, Answers
<1>5. /\ Len(sock'[c]) = Len(sock[c]) + 1
      /\ \A i \in 1..Len(sock[c]) : sock'[c][i] = sock[c][i]
      /\ sock'[c][Len(sock[c]) + 1] = m
      /\ \A i \in Nat : \A j : NewsFrom(sock[c], i, j) => NewsFrom(sock'[c], i, j)
      /\ Len(sock[c]) \in Nat
  <2>1. sock[c] \in Seq(Message) /\ sock'[c] = Append(sock[c], m)
    BY <1>1
  <2> QED
    BY <1>2, <2>1, NewsAppend
<1>6. Sent(t)' /\ call[t].pc \in {"read", "wait"}
  BY <1>1, <1>3 DEF Sent, Own
<1>7. Entries'
  <2> SUFFICES ASSUME NEW e \in cache, e.status = "VALID", ~e.lost
               PROVE  Current(e.conn, e.key, e.val)' \/ News(sock'[e.conn], e.key)
    BY <1>1 DEF Entries, Known
  <2>1. e.conn \in Conns /\ (Current(e.conn, e.key, e.val) \/ News(sock[e.conn], e.key))
    BY DEF Entries, Known, Typed, Bounded, Ordered, CacheEntry
  <2>2. CASE Current(e.conn, e.key, e.val)
    BY <1>1, <2>1, <2>2 DEF Current
  <2>3. CASE News(sock[e.conn], e.key)
    BY <1>4, <1>5, <2>1, <2>3 DEF News
  <2> QED
    BY <2>1, <2>2, <2>3
<1>9. Requests'
  BY <1>1, <1>4 DEF Requests
<1>10. Replies'
  <2> SUFFICES ASSUME NEW d \in Conns, NEW i \in 1..Len(sock'[d]), NEW r,
                      r = sock'[d][i], IsReply(r)
               PROVE  Answers(d, i, r)'
    BY DEF Replies
  <2>1. d = c
    BY <1>4
  <2>2. \A n \in Nat : \A j \in 1..(n + 1) : j \in 1..n \/ j = n + 1
    OBVIOUS
  <2>3. \A j \in 1..Len(sock'[c]) : IsReply(sock'[c][j]) => j = Len(sock[c]) + 1
    BY <1>3, <1>5, <2>2
  <2>4. i = Len(sock[c]) + 1 /\ r = m
    BY <1>5, <2>1, <2>3
  <2>5. call[t].since <= m.val
    BY <1>2, <1>3, <1>6, <1>its, ClientCacheAssumption DEF Recent
  <2>6. Current(c, m.key, m.val)' /\ m.val <= value'[m.key]
    BY <1>1, <1>2 DEF Current
  <2> QED
    BY <1>1, <1>2, <1>3, <1>6, <1>its, <2>1, <2>3, <2>4, <2>5, <2>6 DEF Answers
<1>11. Recent'
  BY <1>1, <1>6 DEF Recent, Serves
<1> QED
  BY <1>7, <1>9, <1>10, <1>11 DEF Typed

\* disconnect() leaves nothing that could be stale.
LEMMA DisconnectCoherent ==
  ASSUME NEW t, Threads = {t}, Typed, Typed', Coherent, NEW cs, Disconnect(t, cs),
         call[t].pc = "idle" \/ call[t].conn \in cs
  PROVE  Coherent'
<1> USE DEF Coherent
<1>1. cache' = {} /\ call' = [call EXCEPT ![t] = NoCall] /\ Fresh(cs)
  BY DEF Disconnect, Flush
<1>2. call'[t].pc = "idle"
  BY <1>1, NoCallType DEF Typed, Plain
<1>3. \A c \in Conns : c \notin cs =>
        asked[c] = <<>> /\ \A i \in 1..Len(sock[c]) : ~IsReply(sock[c][i])
  BY DEF Requests, Replies, Answers, Sent
<1>4. \A c \in Conns :
        asked'[c] = <<>> /\ \A i \in 1..Len(sock'[c]) : ~IsReply(sock'[c][i])
  BY <1>1, <1>3 DEF Fresh
<1>5. Entries'
  BY <1>1 DEF Entries
<1>6. Requests' /\ Replies'
  BY <1>4 DEF Requests, Replies
<1>7. Recent'
  BY <1>2 DEF Recent
<1> QED
  BY <1>5, <1>6, <1>7 DEF Typed
-----------------------------------------------------------------------------
(***************************************************************************)
(* One caller: the steps of its commands.                                  *)
(***************************************************************************)
\* Between two commands the invalidations that wait are read; an entry of this
\* connection that survives is what the server has.
LEMMA SendCommandCoherent ==
  ASSUME NEW t, Threads = {t}, Typed, Typed', Coherent, SendCommand(t)
  PROVE  Coherent'
<1> USE DEF Coherent
<1>1. PICK c \in Conns \ Busy : Sends(t, c)
  BY DEF SendCommand, Sends, Begins
<1>2. call[t].pc = "idle"
  BY DEF SendCommand
<1>3. CASE Closed(sock[c])
  BY <1>1, <1>2, <1>3, DisconnectCoherent DEF Sends
<1>4. CASE ~Closed(sock[c])
  <2>1. /\ UNCHANGED <<value, tracked, asked>>
        /\ sock' = [sock EXCEPT ![c] = <<>>]
        /\ cache' = Drain(cache, sock[c])
        /\ sock \in [Conns -> Seq(Message)] /\ value \in [Keys -> Nat]
    BY <1>1, <1>4 DEF Sends, serverVars, Typed, Plain
  <2>2. /\ call'[t].conn = c /\ call'[t].pc \in {"lookup", "send"}
        /\ call'[t].pc = "lookup" => call'[t].since = value[call'[t].key]
        /\ call'[t].pc = "send" => call'[t].key = None
    <3>1. PICK n : call' = [call EXCEPT ![t] = n] /\ Begins(n, c)
      BY <1>1, <1>4 DEF Sends
    <3>2. call'[t] = n
      BY <3>1 DEF Typed, Plain
    <3> QED
      BY <3>1, <3>2, BeginsLemma
  <2>3. \A f \in cache' : ~News(sock[c], f.key) /\ \E e \in cache : Same(e, f)
    BY <1>4, <2>1, DrainBounded DEF Typed
  <2>4. \A d \in Conns :
          asked[d] = <<>> /\ \A i \in 1..Len(sock[d]) : ~IsReply(sock[d][i])
    BY <1>2, NothingOwed
  <2>5. ASSUME NEW f \in cache', f.status = "VALID"
        PROVE  /\ f.val <= value[f.key]
               /\ f.conn = c => f.lost \/ Current(c, f.key, f.val)
               /\ f.conn # c => f.lost \/ Current(f.conn, f.key, f.val)
                                      \/ News(sock[f.conn], f.key)
    BY <2>3, <2>5 DEF Entries, Known, Same
  <2>6. \A f \in cache' : f.conn \in Conns /\ f.key \in Keys /\ f.val \in Nat
    BY DEF Typed, Bounded, Ordered, CacheEntry
  <2>7. Entries'
    BY <2>1, <2>5, <2>6 DEF Entries, Known, Current
  <2>9. Requests' /\ Replies'
    <3>1. \A d \in Conns : sock'[d] = <<>> \/ sock'[d] = sock[d]
      BY <2>1
    <3>2. \A d \in Conns : \A i \in 1..Len(sock'[d]) : ~IsReply(sock'[d][i])
      BY <2>4, <3>1
    <3> QED
      BY <2>1, <2>4, <3>2 DEF Requests, Replies
  <2>10. Recent'
    <3>1. CASE call'[t].pc = "lookup"
      BY <2>1, <2>2, <2>5, <2>6, <3>1 DEF Recent, Serves, Current, Typed, InCall
    <3>2. CASE call'[t].pc = "send"
      <4>1. Own(t)'
        BY <2>2, <2>6, <3>2, ClientCacheAssumption DEF Own
      <4> QED
        BY <2>2, <3>2, <4>1 DEF Recent
    <3> QED
      BY <2>2, <3>1, <3>2
  <2> QED
    BY <2>7, <2>9, <2>10 DEF Typed
<1> QED
  BY <1>3, <1>4

\* A change of the caller's own: its connection reads the news at once, and the
\* others are told.
LEMMA NotCachableCoherent ==
  ASSUME NEW t, Threads = {t}, Typed, Typed', Coherent, NotCachable(t)
  PROVE  Coherent'
<1> USE DEF Coherent
<1>dis. CASE Disconnect(t, {call[t].conn})
  BY <1>dis, DisconnectCoherent
<1>exe. SUFFICES ASSUME NEW k \in Keys, NEW ks \in {{}, {k}}, Executes(t, k, ks)
                 PROVE  Coherent'
  BY <1>dis DEF NotCachable, Executes
<1>0. PICK c : c = call[t].conn
  OBVIOUS
<1>1. /\ ~Closed(sock[c])
      /\ value' = [value EXCEPT ![k] = IF k \in ks THEN @ + 1 ELSE @]
      /\ sock' = [d \in Conns |-> IF d = c THEN <<>>
                                 ELSE IF tracked[d] \cap ks = {} THEN sock[d]
                                 ELSE Append(sock[d], Msg("inval", k, 0))]
      /\ tracked' = [d \in Conns |-> tracked[d] \ ks]
      /\ cache' = OnInvalidation(Drain(cache, sock[c]), tracked[c] \cap ks)
  BY <1>0, <1>exe DEF Executes
<1>2. /\ call[t].pc \in {"send", "write"} /\ c \in Conns
      /\ call'[t].pc = "idle" /\ UNCHANGED asked
  BY <1>0, <1>exe, NoCallType DEF NotCachable, Executes, InCall, Typed, Plain
<1>3. /\ \A d \in Conns : sock[d] \in Seq(Message)
      /\ value \in [Keys -> Nat]
  BY DEF Typed, Plain
<1>4. PICK m \in Message : m = Msg("inval", k, 0) /\ m.kind = "inval" /\ m.key = k
  BY MessageType
<1>5. \A f \in cache' :
        /\ ~News(sock[c], f.key)
        /\ f.key \notin tracked[c] \cap ks
        /\ \E e \in cache : Same(e, f)
  <2> DEFINE cc == Drain(cache, sock[c])
  <2>1. /\ Bounded(cc)
        /\ \A f \in cc : ~News(sock[c], f.key) /\ \E e \in cache : Same(e, f)
    BY <1>1, <1>2, <1>3, DrainBounded DEF Typed
  <2>2. cache' = OnInvalidation(cc, tracked[c] \cap ks)
    BY <1>1
  <2> HIDE DEF cc
  <2>3. \A f \in cache' : f.key \notin tracked[c] \cap ks /\ \E e \in cc : Same(e, f)
    BY <2>1, <2>2, OnInvalidationBounded
  <2> SUFFICES ASSUME NEW f \in cache'
               PROVE  /\ ~News(sock[c], f.key) /\ f.key \notin tracked[c] \cap ks
                      /\ \E e \in cache : Same(e, f)
    OBVIOUS
  <2>4. PICK d \in cc : Same(d, f)
    BY <2>3
  <2>5. PICK e \in cache : Same(e, d)
    BY <2>1
  <2>6. Same(e, f) /\ d.key = f.key
    BY <2>4, <2>5 DEF Same
  <2> QED
    BY <2>1, <2>3, <2>6
<1>6. \A d \in Conns :
        asked[d] = <<>> /\ \A i \in 1..Len(sock[d]) : ~IsReply(sock[d][i])
  BY <1>2, NothingOwed
<1>7. ASSUME NEW f \in cache', f.status = "VALID"
      PROVE  f.val <= value'[f.key] /\ Known(f)'
  <2>1. f.conn \in Conns /\ f.key \in Keys /\ f.val \in Nat
    BY DEF Typed, Bounded, Ordered, CacheEntry
  <2>2. /\ f.val <= value[f.key]
        /\ f.lost \/ Current(f.conn, f.key, f.val) \/ News(sock[f.conn], f.key)
    BY <1>5, <1>7 DEF Entries, Known, Same
  <2>3. f.val <= value'[f.key]
    BY <1>1, <1>3, <2>1, <2>2
  <2>lost. CASE f.lost
    BY <2>3, <2>lost DEF Known
  <2>4. CASE f.conn = c /\ ~f.lost
    <3>1. Current(c, f.key, f.val) /\ f.key \notin ks
      BY <1>5, <2>2, <2>4 DEF Current
    <3>2. Current(c, f.key, f.val)'
      BY <1>1, <1>2, <1>3, <2>1, <3>1 DEF Current
    <3> QED
      BY <2>3, <2>4, <3>2 DEF Known
  <2>5. CASE f.conn # c /\ ~f.lost
    <3>1. sock'[f.conn] = IF tracked[f.conn] \cap ks = {} THEN sock[f.conn]
                          ELSE Append(sock[f.conn], m)
      BY <1>1, <1>4, <2>1, <2>5
    <3>2. CASE News(sock[f.conn], f.key)
      <4>1. News(Append(sock[f.conn], m), f.key)
        BY <1>3, <2>1, <3>2, NewsAppend DEF News
      <4> QED
        BY <2>3, <3>1, <3>2, <4>1 DEF Known
    <3>3. CASE Current(f.conn, f.key, f.val) /\ f.key \notin ks
      <4>1. Current(f.conn, f.key, f.val)'
        BY <1>1, <1>3, <2>1, <3>3 DEF Current
      <4> QED
        BY <2>3, <4>1 DEF Known
    <3>4. CASE Current(f.conn, f.key, f.val) /\ f.key \in ks
      <4>1. sock'[f.conn] = Append(sock[f.conn], m) /\ Announces(m, f.key)
        BY <1>4, <3>1, <3>4 DEF Current, Announces
      <4>2. 1 \in 1..(Len(sock[f.conn]) + 1)
        BY <1>3, <2>1
      <4>3. News(sock'[f.conn], f.key)
        BY <1>3, <2>1, <4>1, <4>2, NewsAppend DEF News
      <4> QED
        BY <2>3, <4>3 DEF Known
    <3> QED
      BY <2>2, <2>5, <3>2, <3>3, <3>4
  <2> QED
    BY <2>lost, <2>4, <2>5
<1>8. ASSUME NEW d \in Conns, NEW i \in 1..Len(sock'[d]) PROVE ~IsReply(sock'[d][i])
  <2>1. sock'[d] \in {<<>>, sock[d], Append(sock[d], m)}
    BY <1>1, <1>4
  <2>2. \A n \in Nat : \A j \in 1..(n + 1) : j \in 1..n \/ j = n + 1
    OBVIOUS
  <2>3. /\ Len(Append(sock[d], m)) = Len(sock[d]) + 1 /\ Len(sock[d]) \in Nat
        /\ \A j \in 1..Len(sock[d]) : Append(sock[d], m)[j] = sock[d][j]
        /\ Append(sock[d], m)[Len(sock[d]) + 1] = m
    BY <1>3, NewsAppend
  <2>4. CASE sock'[d] = <<>>
    BY <2>4
  <2>5. CASE sock'[d] = sock[d]
    BY <1>6, <2>5
  <2>6. CASE sock'[d] = Append(sock[d], m)
    <3>1. i \in 1..Len(sock[d]) \/ i = Len(sock[d]) + 1
      BY <2>2, <2>3, <2>6
    <3> QED
      BY <1>4, <1>6, <2>3, <2>6, <3>1 DEF IsReply
  <2> QED
    BY <2>1, <2>4, <2>5, <2>6
<1>9. Entries'
  BY <1>7 DEF Entries
<1>10. Requests' /\ Replies'
  BY <1>2, <1>6, <1>8 DEF Requests, Replies
<1>11. Recent'
  BY <1>2 DEF Recent
<1> QED
  BY <1>9, <1>10, <1>11 DEF Typed

\* The entry a command finds is this connection's own, or the news about it has
\* just been read.
LEMMA CachedCoherent ==
  ASSUME NEW t, Threads = {t}, Typed, Typed', Coherent, Cached(t)
  PROVE  Coherent'
<1> USE DEF Coherent
<1>0. PICK c, k, own : c = call[t].conn /\ k = call[t].key /\ own = Entry(cache, k)
  OBVIOUS
<1>1. /\ call[t].pc = "lookup" /\ c \in Conns /\ k \in Keys
      /\ own \in cache /\ own.key = k /\ own.conn \in Conns
  BY <1>0 DEF Cached, Has, Entry, InCall, Typed, Bounded, Ordered, CacheEntry
<1>2. \A d \in Conns :
        asked[d] = <<>> /\ \A i \in 1..Len(sock[d]) : ~IsReply(sock[d][i])
  BY <1>1, NothingOwed
<1>3. CASE ~(own.conn = c \/ ~Closed(sock[own.conn]))
  <2>1. Disconnect(t, {c, own.conn})
    BY <1>0, <1>3 DEF Cached
  <2> QED
    BY <1>0, <2>1, DisconnectCoherent
<1>4. CASE own.conn = c \/ ~Closed(sock[own.conn])
  <2>1. /\ call' = [call EXCEPT ![t].pc = "read"]
        /\ cache' = IF own.conn = c THEN Touch(cache, k)
                    ELSE Drain(Touch(cache, k), sock[own.conn])
        /\ sock' = IF own.conn = c THEN sock ELSE [sock EXCEPT ![own.conn] = <<>>]
        /\ UNCHANGED <<value, tracked, asked>>
    BY <1>0, <1>4 DEF Cached, serverVars
  <2>2. /\ call'[t].pc = "read" /\ call'[t].conn = c /\ call'[t].key = k
        /\ call'[t].since = call[t].since
    BY <1>0, <2>1 DEF Typed, Plain, Call
  <2>3. sock \in [Conns -> Seq(Message)] /\ value \in [Keys -> Nat] /\ call[t].since \in Nat
    BY DEF Typed, Plain, Call
  <2>4. ASSUME NEW f \in cache'
        PROVE  /\ \E e \in cache : Same(e, f)
               /\ own.conn # c => ~News(sock[own.conn], f.key)
    <3>1. Bounded(Touch(cache, k)) /\ \A d \in Touch(cache, k) : \E e \in cache : Same(e, d)
      BY TouchBounded DEF Typed
    <3>2. CASE own.conn = c
      BY <2>1, <2>4, <3>1, <3>2
    <3>3. CASE own.conn # c
      <4>1. cache' = Drain(Touch(cache, k), sock[own.conn]) /\ sock[own.conn] \in Seq(Message)
        BY <1>1, <2>1, <2>3, <3>3
      <4>2. ~News(sock[own.conn], f.key) /\ \E d \in Touch(cache, k) : Same(d, f)
        BY <1>4, <2>4, <3>1, <3>3, <4>1, DrainBounded
      <4> QED
        BY <3>1, <4>2 DEF Same
    <3> QED
      BY <3>2, <3>3
  <2>5. ASSUME NEW f \in cache', f.status = "VALID"
        PROVE  /\ f.val <= value[f.key]
               /\ \/ f.lost
                  \/ Current(f.conn, f.key, f.val)
                  \/ /\ News(sock[f.conn], f.key)
                     /\ own.conn # c => f.conn # own.conn
    BY <2>4, <2>5 DEF Entries, Known, Same
  <2>6. \A f \in cache' : f.conn \in Conns /\ f.key \in Keys /\ f.val \in Nat
    BY DEF Typed, Bounded, Ordered, CacheEntry
  <2>7. Entries'
    BY <1>1, <2>1, <2>3, <2>5, <2>6 DEF Entries, Known, Current
  <2>8. Requests' /\ Replies'
    BY <1>1, <1>2, <2>1, <2>3 DEF Requests, Replies
  <2>9. ASSUME NEW f \in cache', f.key = k, f.status = "VALID", ~f.lost
        PROVE  call[t].since <= f.val
    <3>1. PICK e \in cache : Same(e, f)
      BY <2>4
    <3>2. e = own
      BY <1>1, <2>9, <3>1 DEF Same, Typed, Bounded, Ordered
    <3>3. CASE own.conn = c
      BY <1>0, <1>1, <2>9, <3>1, <3>2, <3>3 DEF Recent, Serves, Same
    <3>4. CASE own.conn # c
      <4>1. f.val = value[k]
        BY <2>5, <2>9, <3>1, <3>2, <3>4 DEF Same, Current
      <4> QED
        BY <1>0, <1>1, <4>1, ClientCacheAssumption DEF Recent
    <3> QED
      BY <3>3, <3>4
  <2>10. Recent'
    <3>1. call[t].since <= value[k]
      BY <1>0, <1>1, ClientCacheAssumption DEF Recent
    <3> QED
      BY <2>1, <2>2, <2>9, <3>1 DEF Recent, Serves
  <2> QED
    BY <2>7, <2>8, <2>10 DEF Typed
<1> QED
  BY <1>3, <1>4

\* The temporary entry of a command is not served.
LEMMA UncachedCoherent ==
  ASSUME NEW t, Threads = {t}, Typed, Typed', Coherent, Uncached(t)
  PROVE  Coherent'
<1> USE DEF Coherent
<1>0. PICK c, k, e : /\ c = call[t].conn /\ k = call[t].key
                     /\ e = [key |-> k, val |-> 0, status |-> "IN_PROGRESS", conn |-> c,
                             older |-> {}, lost |-> FALSE]
  OBVIOUS
<1>1. /\ call[t].pc = "lookup" /\ c \in Conns /\ k \in Keys
      /\ e \in CacheEntry /\ e.key = k /\ e.status = "IN_PROGRESS" /\ e.conn = c /\ ~e.lost
  BY <1>0 DEF Uncached, InCall, CacheEntry
<1>2. \A d \in Conns :
        asked[d] = <<>> /\ \A i \in 1..Len(sock[d]) : ~IsReply(sock[d][i])
  BY <1>1, NothingOwed
<1>3. /\ cache' = Set(cache, e)
      /\ call' = [call EXCEPT ![t].pc = "send"]
      /\ UNCHANGED <<value, tracked, asked, sock>>
  BY <1>0 DEF Uncached, serverVars
<1>4. /\ call'[t].pc = "send" /\ call'[t].conn = c /\ call'[t].key = k
      /\ call'[t].since = call[t].since
  BY <1>0, <1>3 DEF Typed, Plain, Call
<1>5. \A f \in cache' :
        \/ f.key = k /\ f.conn = c /\ f.status = "IN_PROGRESS" /\ ~f.lost
        \/ f.key # k /\ \E d \in cache : Same(d, f)
  <2>1. \A f \in cache' : Same(e, f) \/ (f.key # e.key /\ \E d \in cache : Same(d, f))
    BY <1>1, <1>3, SetBounded DEF Typed
  <2> QED
    BY <1>1, <2>1 DEF Same
<1>6. Entries'
  BY <1>3, <1>5 DEF Entries, Known, Same, Current
<1>7. Requests' /\ Replies'
  BY <1>2, <1>3 DEF Requests, Replies
<1>8. Recent'
  <2>1. call[t].since <= value[k]
    BY <1>0, <1>1, ClientCacheAssumption DEF Recent
  <2>2. Own(t)'
    BY <1>4, <1>5 DEF Own
  <2> QED
    BY <1>3, <1>4, <2>1, <2>2 DEF Recent
<1> QED
  BY <1>6, <1>7, <1>8 DEF Typed

\* A health check reads the news that waits; when it loses the socket, what was
\* read on it is marked, and the entry of the command itself is not.
LEMMA CheckHealthCoherent ==
  ASSUME NEW t, Threads = {t}, Typed, Typed', Coherent, CheckHealth(t)
  PROVE  Coherent'
<1> USE DEF Coherent
<1>0. PICK c : c = call[t].conn
  OBVIOUS
<1>1. /\ call[t].pc = "send" /\ c \in Conns /\ Own(t)
      /\ sock \in [Conns -> Seq(Message)] /\ sock[c] \in Seq(Message)
      /\ call[t].key # None => call[t].since <= value[call[t].key]
  BY <1>0 DEF CheckHealth, InCall, Recent, Typed, Plain
<1>2. \A d \in Conns :
        asked[d] = <<>> /\ \A i \in 1..Len(sock[d]) : ~IsReply(sock[d][i])
  BY <1>1, NothingOwed
<1>3. \A f \in cache' : f.conn \in Conns /\ f.key \in Keys /\ f.val \in Nat
  BY DEF Typed, Bounded, Ordered, CacheEntry
<1>4. CASE Disconnect(t, {c})
  BY <1>0, <1>4, DisconnectCoherent
<1>5. CASE call' = [call EXCEPT ![t].pc = "stuck"] /\ UNCHANGED <<serverVars, sock, cache>>
  <2>1. /\ call'[t].pc = "stuck" /\ call'[t].key = call[t].key /\ call'[t].since = call[t].since
        /\ UNCHANGED <<value, tracked, asked, sock, cache>>
    BY <1>5 DEF serverVars, Typed, Plain, Call
  <2>2. Entries' /\ Requests' /\ Replies'
    BY <1>2, <2>1 DEF Entries, Known, Current, Requests, Replies
  <2>3. Recent'
    BY <1>1, <2>1 DEF Recent
  <2> QED
    BY <2>2, <2>3 DEF Typed
<1>6. ASSUME call' = [call EXCEPT ![t].pc = "write"], value' = value,
             \A d \in Conns : asked'[d] = <<>> /\ sock'[d] \in {<<>>, sock[d]},
             \A f \in cache' : f.status = "IN_PROGRESS" => \E e \in cache : Same(e, f),
             \A f \in cache' : \E e \in cache : e.key = f.key /\ e.status = f.status
      PROVE  Requests' /\ Replies' /\ Recent'
  <2>1. /\ call'[t].pc = "write" /\ call'[t].key = call[t].key /\ call'[t].conn = call[t].conn
        /\ call'[t].since = call[t].since
    BY <1>6 DEF Typed, Plain, Call
  <2>2. \A d \in Conns : \A i \in 1..Len(sock'[d]) : ~IsReply(sock'[d][i])
    BY <1>2, <1>6
  <2>3. Own(t)'
    BY <1>1, <1>6, <2>1 DEF Own, Same
  <2> QED
    BY <1>1, <1>6, <2>1, <2>2, <2>3 DEF Requests, Replies, Recent
<1>7. CASE /\ \A i \in DOMAIN sock[c] : sock[c][i].kind = "inval"
           /\ cache' = Drain(cache, sock[c])
           /\ sock' = [sock EXCEPT ![c] = <<>>]
           /\ call' = [call EXCEPT ![t].pc = "write"]
           /\ UNCHANGED serverVars
  <2>1. ~Closed(sock[c]) /\ UNCHANGED <<value, tracked, asked>>
    BY <1>7 DEF Closed, serverVars
  <2>2. \A f \in cache' : ~News(sock[c], f.key) /\ \E e \in cache : Same(e, f)
    BY <1>1, <1>7, <2>1, DrainBounded DEF Typed
  <2>3. Entries'
    <3>1. \A f \in cache' : f.status = "VALID" =>
            /\ f.val <= value[f.key]
            /\ f.conn = c => f.lost \/ Current(c, f.key, f.val)
            /\ f.conn # c => f.lost \/ Current(f.conn, f.key, f.val)
                                   \/ News(sock[f.conn], f.key)
      BY <2>2 DEF Entries, Known, Same
    <3> QED
      BY <1>1, <1>3, <1>7, <2>1, <3>1 DEF Entries, Known, Current
  <2>4. \A d \in Conns : asked'[d] = <<>> /\ sock'[d] \in {<<>>, sock[d]}
    BY <1>1, <1>2, <1>7, <2>1
  <2>5. \A f \in cache' : \E e \in cache : e.key = f.key /\ e.status = f.status
    BY <2>2 DEF Same
  <2>6. Requests' /\ Replies' /\ Recent'
    BY <1>6, <1>7, <2>1, <2>2, <2>4, <2>5
  <2> QED
    BY <2>3, <2>6 DEF Typed
<1>8. ASSUME NEW n \in 0..Len(sock[c]),
             cache' = Untracked(OnInvalidation(cache, Pushed(sock[c], n)), c),
             Fresh({c}), call' = [call EXCEPT ![t].pc = "write"],
             UNCHANGED <<value, drops>>
      PROVE  Coherent'
  <2>1. \A d \in Conns : asked'[d] = <<>> /\ sock'[d] \in {<<>>, sock[d]}
    BY <1>2, <1>8 DEF Fresh
  <2>2. \A f \in cache' : \E e \in cache :
          /\ e.key = f.key /\ e.val = f.val /\ e.status = f.status /\ e.conn = f.conn
          /\ f.lost = (e.lost \/ (e.conn = c /\ e.status = "VALID"))
    <3> DEFINE cc == OnInvalidation(cache, Pushed(sock[c], n))
    <3>1. Bounded(cc) /\ \A d \in cc : \E e \in cache : Same(e, d)
      BY OnInvalidationBounded DEF Typed
    <3> HIDE DEF cc
    <3>2. \A f \in Untracked(cc, c) : \E d \in cc :
            /\ d.key = f.key /\ d.val = f.val /\ d.status = f.status /\ d.conn = f.conn
            /\ f.lost = (d.lost \/ (d.conn = c /\ d.status = "VALID"))
      BY <3>1, UntrackedBounded
    <3> QED
      BY <1>8, <3>1, <3>2 DEF Same, cc
  <2>3. Entries'
    <3> SUFFICES ASSUME NEW f \in cache', f.status = "VALID"
                 PROVE  f.val <= value[f.key] /\ Known(f)'
      BY <1>8 DEF Entries
    <3>1. PICK e \in cache :
            /\ e.key = f.key /\ e.val = f.val /\ e.status = f.status /\ e.conn = f.conn
            /\ f.lost = (e.lost \/ (e.conn = c /\ e.status = "VALID"))
      BY <2>2
    <3>2. f.val <= value[f.key] /\ Known(e)
      BY <3>1 DEF Entries
    <3>3. CASE f.lost
      BY <3>2, <3>3 DEF Known
    <3>4. CASE ~f.lost
      <4>1. f.conn \in Conns /\ f.conn # c
        BY <1>3, <3>1, <3>4
      <4>2. sock'[f.conn] = sock[f.conn] /\ tracked'[f.conn] = tracked[f.conn]
        BY <1>8, <4>1 DEF Fresh
      <4> QED
        BY <1>8, <3>1, <3>2, <3>4, <4>2 DEF Known, Current
    <3> QED
      BY <3>3, <3>4
  <2>4. \A f \in cache' : f.status = "IN_PROGRESS" => \E e \in cache : Same(e, f)
    <3> SUFFICES ASSUME NEW f \in cache', f.status = "IN_PROGRESS"
                 PROVE  \E e \in cache : Same(e, f)
      OBVIOUS
    <3>1. PICK e \in cache :
            /\ e.key = f.key /\ e.val = f.val /\ e.status = f.status /\ e.conn = f.conn
            /\ f.lost = (e.lost \/ (e.conn = c /\ e.status = "VALID"))
      BY <2>2
    <3>2. e.lost \in BOOLEAN /\ e.status # "VALID"
      BY <3>1 DEF Typed, Bounded, Ordered, CacheEntry
    <3>3. e.lost = f.lost
      BY <3>1, <3>2
    <3> QED
      BY <3>1, <3>3 DEF Same
  <2>5. \A f \in cache' : \E e \in cache : e.key = f.key /\ e.status = f.status
    BY <2>2
  <2>6. Requests' /\ Replies' /\ Recent'
    BY <1>6, <1>8, <2>1, <2>4, <2>5
  <2> QED
    BY <2>3, <2>6 DEF Typed
<1> QED
  BY <1>0, <1>4, <1>5, <1>7, <1>8 DEF CheckHealth

\* The command is sent: the server owes it an answer, and nobody else.
LEMMA WriteCoherent ==
  ASSUME NEW t, Threads = {t}, Typed, Typed', Coherent, Write(t)
  PROVE  Coherent'
<1> USE DEF Coherent
<1>0. PICK c, k : c = call[t].conn /\ k = call[t].key
  OBVIOUS
<1>1. /\ call[t].pc \in {"send", "write"} /\ c \in Conns /\ k \in Keys /\ k # None
      /\ Own(t) /\ call[t].since <= value[k]
  BY <1>0 DEF Write, InCall, Recent, Typed, Plain, Call
<1>2. \A d \in Conns :
        asked[d] = <<>> /\ \A i \in 1..Len(sock[d]) : ~IsReply(sock[d][i])
  BY <1>1, NothingOwed
<1>3. /\ asked' = IF Closed(sock[c]) THEN asked ELSE [asked EXCEPT ![c] = Append(@, k)]
      /\ call' = [call EXCEPT ![t].pc = "read"]
      /\ UNCHANGED <<value, tracked, sock, cache>>
  BY <1>0 DEF Write
<1>4. /\ call'[t].pc = "read" /\ call'[t].conn = c /\ call'[t].key = k
      /\ call'[t].since = call[t].since
  BY <1>0, <1>3 DEF Typed, Plain, Call
<1>5. Entries'
  BY <1>3 DEF Entries, Known, Current
<1>6. Own(t)' /\ Sent(t)'
  BY <1>0, <1>1, <1>3, <1>4 DEF Own, Sent
<1>7. Requests'
  <2>0. Append(<<>>, k) = <<k>>
    OBVIOUS
  <2>1. \A d \in Conns : asked'[d] # <<>> => d = c /\ asked'[d] = <<k>>
    BY <1>1, <1>2, <1>3, <2>0 DEF Typed, Plain
  <2> QED
    BY <1>2, <1>3, <1>4, <1>6, <2>1 DEF Requests
<1>8. Replies'
  BY <1>2, <1>3 DEF Replies
<1>9. Recent'
  <2>1. \A e \in cache' : ~Serves(e, t)'
    BY <1>6 DEF Own, Serves
  <2> QED
    BY <1>1, <1>3, <1>4, <2>1 DEF Recent
<1> QED
  BY <1>5, <1>7, <1>8, <1>9 DEF Typed

\* What the cache serves is no older than the call; otherwise the command waits
\* for the reply it has asked for.
LEMMA ReadCacheCoherent ==
  ASSUME NEW t, Threads = {t}, Typed, Typed', Coherent, ReadCache(t)
  PROVE  Coherent'
<1> USE DEF Coherent
<1>0. PICK c, k, own : c = call[t].conn /\ k = call[t].key /\ own = Entry(cache, k)
  OBVIOUS
<1>1. /\ call[t].pc = "read" /\ c \in Conns /\ k \in Keys
      /\ Has(cache, k) => own \in cache /\ own.key = k
      /\ UNCHANGED <<value, tracked, asked, sock>>
      /\ cache' = Touch(cache, k)
      /\ call[t].since <= value[k]
  BY <1>0, ClientCacheAssumption DEF ReadCache, Has, Entry, InCall, serverVars, Recent
<1>2. \A f \in cache' : \E e \in cache : Same(e, f)
  BY <1>1, TouchBounded DEF Typed
<1>3. \A e \in cache : e.key = k => Has(cache, k) /\ e = own
  BY <1>1 DEF Has, Typed, Bounded, Ordered
<1>4. Entries'
  BY <1>1, <1>2 DEF Entries, Known, Same, Current
<1>5. CASE Has(cache, k) /\ own.status = "VALID"
  <2>1. call' = [call EXCEPT ![t] = [@ EXCEPT !.pc = "returned", !.got = own.val,
                                              !.lost = own.lost]]
    BY <1>0, <1>5 DEF ReadCache, Return
  <2>2. /\ call'[t].pc = "returned" /\ call'[t].key = k /\ call'[t].lost = own.lost
        /\ call'[t].since = call[t].since /\ call'[t].got = own.val
    BY <1>0, <2>1 DEF Typed, Plain, Call
  <2>3. ~Sent(t)
    BY <1>0, <1>1, <1>5 DEF Sent, Own
  <2>4. Requests' /\ Replies'
    BY <1>1, <2>3 DEF Requests, Replies, Answers
  <2>6. ~own.lost => own.val \in call[t].since..value[k]
    <3> SUFFICES ASSUME ~own.lost PROVE own.val \in call[t].since..value[k]
      OBVIOUS
    <3>1. call[t].since <= own.val /\ own.val <= value[k]
      BY <1>0, <1>1, <1>5 DEF Recent, Serves, Entries
    <3>2. call[t].since \in Nat /\ own.val \in Nat /\ value[k] \in Nat
      BY <1>1, <1>5 DEF Typed, Plain, Call, Bounded, Ordered, CacheEntry
    <3> QED
      BY <3>1, <3>2
  <2>7. Recent'
    BY <1>1, <2>2, <2>6 DEF Recent
  <2> QED
    BY <1>4, <2>4, <2>7 DEF Typed
<1>6. CASE ~(Has(cache, k) /\ own.status = "VALID")
  <2>1. call' = [call EXCEPT ![t].pc = "wait"]
    BY <1>0, <1>6 DEF ReadCache
  <2>2. /\ call'[t].pc = "wait" /\ call'[t].key = k /\ call'[t].conn = c
        /\ call'[t].since = call[t].since
    BY <1>0, <2>1 DEF Typed, Plain, Call
  <2>3. \A e \in cache : e.status \in {"VALID", "IN_PROGRESS"}
    BY DEF Typed, Bounded, Ordered, CacheEntry
  <2>4. \A f \in cache' : f.key = k => f.status = "IN_PROGRESS"
    BY <1>2, <1>3, <1>6, <2>3 DEF Same
  <2>5. Sent(t) => Sent(t)'
    BY <1>0, <1>2, <2>2 DEF Sent, Own, Same
  <2>7. Requests'
    BY <1>0, <1>1, <2>2, <2>5 DEF Requests
  <2>8. Replies'
    BY <1>0, <1>1, <2>2, <2>5 DEF Replies, Answers, Current
  <2>9. Recent'
    BY <1>1, <2>2, <2>4 DEF Recent, Serves
  <2> QED
    BY <1>4, <2>7, <2>8, <2>9 DEF Typed
<1> QED
  BY <1>5, <1>6

\* An invalidation removes what it names before it is lost; a reply is taken by
\* the command that asked, with the news behind it still to come.
LEMMA ReadSocketCoherent ==
  ASSUME NEW t, Threads = {t}, Typed, Typed', Coherent, ReadSocket(t)
  PROVE  Coherent'
<1> USE DEF Coherent
<1>0. PICK c, k, m : c = call[t].conn /\ k = call[t].key /\ m = Head(sock[c])
  OBVIOUS
<1>1. /\ call[t].pc = "wait" /\ c \in Conns /\ k \in Keys
      /\ sock[c] \in Seq(Message) /\ sock[c] # <<>>
      /\ sock \in [Conns -> Seq(Message)]
      /\ call[t].since <= value[k] /\ \A e \in cache : ~Serves(e, t)
  BY <1>0, ClientCacheAssumption DEF ReadSocket, InCall, Typed, Plain, Recent
<1>2. /\ m = sock[c][1] /\ m \in Message
      /\ Len(Tail(sock[c])) = Len(sock[c]) - 1
      /\ \A i \in 1..Len(Tail(sock[c])) :
           Tail(sock[c])[i] = sock[c][i + 1] /\ i + 1 \in 1..Len(sock[c])
      /\ \A i \in Nat \ {0} : \A j :
           NewsFrom(sock[c], i + 1, j) => NewsFrom(Tail(sock[c]), i, j)
      /\ \A j : News(sock[c], j) /\ ~Announces(m, j) => News(Tail(sock[c]), j)
  BY <1>0, <1>1, NewsTail
<1>3. CASE m.kind = "eof"
  BY <1>0, <1>3, DisconnectCoherent DEF ReadSocket
<1>4. ASSUME m.kind # "eof"
      PROVE  /\ sock' = [sock EXCEPT ![c] = Tail(@)]
             /\ sock'[c] = Tail(sock[c]) /\ \A d \in Conns \ {c} : sock'[d] = sock[d]
             /\ cache' = IF m.kind = "inval" THEN OnInvalidation(cache, {m.key}) ELSE cache
             /\ call' = IF m.kind = "reply"
                          THEN [call EXCEPT ![t].pc = "store", ![t].got = m.val]
                        ELSE IF m.kind = "error" THEN [call EXCEPT ![t] = NoCall] ELSE call
             /\ UNCHANGED <<value, tracked, asked>>
  BY <1>0, <1>1, <1>4 DEF ReadSocket, serverVars
<1>5. ASSUME m.kind # "eof",
             \A f \in cache' : ~Announces(m, f.key) /\ \E e \in cache : Same(e, f)
      PROVE  Entries'
  <2> SUFFICES ASSUME NEW f \in cache', f.status = "VALID"
               PROVE  /\ f.val <= value'[f.key]
                      /\ f.lost \/ Current(f.conn, f.key, f.val)' \/ News(sock'[f.conn], f.key)
    BY DEF Entries, Known
  <2>1. /\ f.val <= value[f.key]
        /\ f.lost \/ Current(f.conn, f.key, f.val) \/ News(sock[f.conn], f.key)
    BY <1>5 DEF Entries, Known, Same
  <2>2. f.conn \in Conns
    BY DEF Typed, Bounded, Ordered, CacheEntry
  <2>3. CASE Current(f.conn, f.key, f.val)
    BY <1>4, <1>5, <2>1, <2>3 DEF Current
  <2>4. CASE News(sock[f.conn], f.key)
    <3>1. CASE f.conn = c
      BY <1>2, <1>4, <1>5, <2>1, <2>4, <3>1
    <3>2. CASE f.conn # c
      BY <1>4, <1>5, <2>1, <2>2, <2>4, <3>2
    <3> QED
      BY <3>1, <3>2
  <2>5. CASE f.lost
    BY <1>4, <1>5, <2>1, <2>5
  <2> QED
    BY <2>1, <2>3, <2>4, <2>5
<1>6. \A d \in Conns \ {c} : \A i \in 1..Len(sock[d]) : ~IsReply(sock[d][i])
  BY <1>0 DEF Replies, Answers
<1>7. CASE m.kind = "inval"
  <2>1. UNCHANGED call /\ cache' = OnInvalidation(cache, {m.key})
    BY <1>4, <1>7
  <2>2. \A f \in cache' : ~Announces(m, f.key) /\ \E e \in cache : Same(e, f)
    <3>1. \A f \in cache' : None # m.key /\ f.key # m.key /\ \E e \in cache : Same(e, f)
      BY <2>1, OnInvalidationBounded DEF Typed
    <3> QED
      BY <1>7, <3>1 DEF Announces
  <2>3. Entries'
    BY <1>5, <1>7, <2>2
  <2>5. Sent(t) => Sent(t)'
    BY <2>1, <2>2 DEF Sent, Own, Same
  <2>6. Requests'
    <3>1. ASSUME NEW d \in Conns, asked[d] # <<>>
          PROVE  /\ Sent(t)' /\ d = call[t].conn /\ asked[d] = <<call[t].key>>
                 /\ \A i \in 1..Len(sock'[d]) : ~IsReply(sock'[d][i])
      <4>1. /\ Sent(t) /\ d = call[t].conn /\ asked[d] = <<call[t].key>>
            /\ \A i \in 1..Len(sock[d]) : ~IsReply(sock[d][i])
        BY <3>1 DEF Requests
      <4>2. d = c /\ sock'[d] = Tail(sock[c])
        BY <1>0, <1>4, <1>7, <4>1
      <4>3. \A i \in 1..Len(sock'[d]) : ~IsReply(sock'[d][i])
        BY <1>2, <4>1, <4>2
      <4> QED
        BY <2>5, <4>1, <4>3
    <3> QED
      BY <1>4, <1>7, <2>1, <3>1 DEF Requests
  <2>7. Replies'
    <3> SUFFICES ASSUME NEW d \in Conns, NEW i \in 1..Len(sock'[d]), NEW r,
                        r = sock'[d][i], IsReply(r)
                 PROVE  Answers(d, i, r)'
      BY DEF Replies
    <3>1. d = c
      BY <1>4, <1>6, <1>7
    <3>2. i + 1 \in 1..Len(sock[c]) /\ r = sock[c][i + 1] /\ i \in Nat \ {0}
      BY <1>1, <1>2, <1>4, <1>7, <3>1
    <3>3. Answers(c, i + 1, r)
      BY <1>1, <3>2 DEF Replies
    <3>4. Current(c, r.key, r.val)' \/ NewsFrom(sock'[c], i + 1, r.key)
      <4>1. CASE Current(c, r.key, r.val)
        BY <1>4, <1>7, <4>1 DEF Current
      <4>2. CASE NewsFrom(sock[c], (i + 1) + 1, r.key)
        <5>1. i + 1 \in Nat \ {0}
          BY <3>2
        <5> QED
          BY <1>2, <1>4, <1>7, <4>2, <5>1
      <4> QED
        BY <3>3, <4>1, <4>2 DEF Answers
    <3>5. ASSUME NEW j \in 1..Len(sock'[c]), IsReply(sock'[c][j]) PROVE j = i
      <4>1. j + 1 \in 1..Len(sock[c]) /\ IsReply(sock[c][j + 1])
        BY <1>2, <1>4, <1>7, <3>5
      <4>2. j + 1 = i + 1
        BY <3>3, <4>1 DEF Answers
      <4>3. j \in Int /\ i \in Int
        BY <1>1, <1>2, <1>4, <1>7, <3>2
      <4> QED
        BY <4>2, <4>3
    <3>6. /\ Sent(t)' /\ c = call'[t].conn /\ r.key = call'[t].key
          /\ call'[t].since <= r.val
          /\ r.key \in Keys /\ r.val <= value'[r.key]
      BY <1>4, <1>7, <2>1, <2>5, <3>3 DEF Answers
    <3> QED
      BY <3>1, <3>4, <3>5, <3>6 DEF Answers
  <2>8. Recent'
    <3>1. ASSUME NEW f \in cache' PROVE ~Serves(f, t)'
      <4>1. PICK e \in cache : e.key = f.key /\ e.status = f.status
        BY <2>2 DEF Same
      <4> QED
        BY <1>1, <2>1, <4>1 DEF Serves
    <3>2. call'[t].pc = "wait" /\ call'[t].key = k /\ call'[t].since <= value'[k]
      BY <1>0, <1>1, <1>4, <1>7, <2>1
    <3> QED
      BY <3>1, <3>2 DEF Recent
  <2> QED
    BY <2>3, <2>6, <2>7, <2>8 DEF Typed
<1>9. ASSUME IsReply(m)
      PROVE  /\ Answers(c, 1, m) /\ 1 \in 1..Len(sock[c])
             /\ Own(t) /\ UNCHANGED cache
             /\ Entries' /\ Requests' /\ Replies'
  <2>0. m.kind # "eof" /\ m.kind # "inval" /\ UNCHANGED cache
    BY <1>4, <1>9 DEF IsReply
  <2>1. Answers(c, 1, m) /\ 1 \in 1..Len(sock[c])
    <3>1. 1 \in 1..Len(sock[c])
      BY <1>1
    <3> QED
      BY <1>1, <1>2, <1>9, <3>1 DEF Replies
  <2>2. Own(t) /\ \A j \in 1..Len(sock[c]) : IsReply(sock[c][j]) => j = 1
    BY <2>1 DEF Answers, Sent
  <2>3. \A d \in Conns : asked[d] = <<>>
    BY <1>0, <1>2, <1>9, <2>1 DEF Requests
  <2>4. ASSUME NEW d \in Conns, NEW i \in 1..Len(sock'[d]) PROVE ~IsReply(sock'[d][i])
    <3>1. CASE d # c
      BY <1>4, <1>6, <2>0, <3>1
    <3>2. CASE d = c
      <4>1. sock'[d][i] = sock[c][i + 1] /\ i + 1 \in 1..Len(sock[c]) /\ i \in Int /\ i >= 1
        BY <1>1, <1>2, <1>4, <2>0, <2>4, <3>2
      <4>2. i + 1 # 1
        BY <4>1
      <4> QED
        BY <2>2, <4>1, <4>2
    <3> QED
      BY <3>1, <3>2
  <2>5. Entries'
    <3>1. \A f \in cache' : ~Announces(m, f.key) /\ \E e \in cache : Same(e, f)
      BY <2>0 DEF Announces, Same
    <3> QED
      BY <1>5, <2>0, <3>1
  <2>6. Requests' /\ Replies'
    BY <1>4, <2>0, <2>3, <2>4 DEF Requests, Replies
  <2> QED
    BY <2>0, <2>1, <2>2, <2>5, <2>6
<1>10. CASE m.kind = "error"
  <2>1. call'[t].pc = "idle"
    BY <1>4, <1>10, NoCallType DEF Typed, Plain
  <2>2. Recent'
    BY <2>1 DEF Recent
  <2> QED
    BY <1>9, <1>10, <2>2 DEF IsReply, Typed
<1>8. CASE m.kind = "reply"
  <2>1. UNCHANGED cache /\ call' = [call EXCEPT ![t].pc = "store", ![t].got = m.val]
    BY <1>4, <1>8
  <2>2. /\ call'[t].pc = "store" /\ call'[t].got = m.val /\ call'[t].key = k
        /\ call'[t].conn = c /\ call'[t].since = call[t].since
    BY <1>0, <2>1 DEF Typed, Plain, Call
  <2>3. /\ Answers(c, 1, m) /\ Own(t) /\ UNCHANGED cache
        /\ Entries' /\ Requests' /\ Replies'
    BY <1>8, <1>9 DEF IsReply
  <2>4. /\ m.key = k /\ call[t].since <= m.val /\ m.val <= value[k]
        /\ Current(c, k, m.val) \/ NewsFrom(sock[c], 1 + 1, k)
    BY <1>0, <2>3 DEF Answers
  <2>10. Current(c, k, m.val)' \/ News(sock'[c], k)
    <3>1. CASE Current(c, k, m.val)
      BY <1>4, <1>8, <3>1 DEF Current
    <3>2. CASE NewsFrom(sock[c], 1 + 1, k)
      <4>1. NewsFrom(Tail(sock[c]), 1, k)
        BY <1>2, <3>2
      <4> QED
        BY <1>4, <1>8, <4>1 DEF News
    <3> QED
      BY <2>4, <3>1, <3>2
  <2>11. m.val \in call[t].since..value[k]
    <3>1. m.val \in Nat /\ call[t].since \in Nat /\ value[k] \in Nat
      BY <1>1, <1>2 DEF Message, Typed, Plain, Call
    <3> QED
      BY <2>4, <3>1
  <2>12. Recent'
    <3>1. Own(t)'
      BY <1>0, <2>2, <2>3 DEF Own
    <3>2. value' = value
      BY <1>4, <1>8
    <3> QED
      BY <1>1, <2>2, <2>10, <2>11, <3>1, <3>2 DEF Recent
  <2> QED
    BY <2>3, <2>12 DEF Typed
<1> QED
  BY <1>2, <1>3, <1>7, <1>8, <1>10 DEF Message

\* A reply becomes an entry only with the news about it still at the connection.
LEMMA StoreCoherent ==
  ASSUME NEW t, Threads = {t}, Typed, Typed', Coherent, Store(t)
  PROVE  Coherent'
<1> USE DEF Coherent
<1>0. PICK c, k, v, own : /\ c = call[t].conn /\ k = call[t].key /\ v = call[t].got
                          /\ own = Entry(cache, k)
  OBVIOUS
<1>1. /\ call[t].pc = "store" /\ c \in Conns /\ k \in Keys /\ v \in Nat
      /\ v \in call[t].since..value[k] /\ call[t].since <= value[k] /\ v <= value[k]
      /\ Own(t)
      /\ Current(c, k, v) \/ News(sock[c], k)
      /\ Has(cache, k) => own \in cache /\ own.key = k
  BY <1>0, ClientCacheAssumption DEF Store, InCall, Recent, Has, Entry, Typed, Plain, Call
<1>2. /\ cache' = IF Nil(v) THEN Without(cache, {k})
                  ELSE IF Has(cache, k)
                    THEN Set(cache, [own EXCEPT !.status = "VALID", !.val = v]) ELSE cache
      /\ call' = [call EXCEPT ![t] = [@ EXCEPT !.pc = "returned", !.got = v, !.lost = FALSE]]
      /\ UNCHANGED <<value, tracked, asked, sock>>
  BY <1>0 DEF Store, Return, serverVars
<1>3. /\ call'[t].pc = "returned" /\ call'[t].got = v /\ call'[t].key = k
      /\ call'[t].since = call[t].since
  BY <1>0, <1>2 DEF Typed, Plain, Call
<1>4. \A d \in Conns :
        asked[d] = <<>> /\ \A i \in 1..Len(sock[d]) : ~IsReply(sock[d][i])
  BY <1>1, NothingOwed
<1>5. \A e \in cache : e.key = k => e.conn = c
  BY <1>0, <1>1 DEF Own
<1>6. \A f \in cache' :
        \/ f.status = "VALID" /\ f.key = k /\ f.conn = c /\ f.val = v
        \/ f.key # k /\ \E e \in cache : Same(e, f)
  <2>1. CASE Nil(v)
    <3>1. cache' = Without(cache, {k}) /\ cache \subseteq CacheEntry
      BY <1>2, <2>1 DEF Typed, Bounded, Ordered
    <3> QED
      BY <3>1, WithoutEntries
  <2>2. CASE ~Nil(v) /\ Has(cache, k)
    <3>1. PICK e : e = [own EXCEPT !.status = "VALID", !.val = v]
      OBVIOUS
    <3>2. e \in CacheEntry /\ e.status = "VALID" /\ e.key = k /\ e.conn = c /\ e.val = v
      <4>1. own \in CacheEntry /\ own.key = k /\ own.conn = c
        BY <1>1, <1>5, <2>2 DEF Typed, Bounded, Ordered
      <4> QED
        BY <1>1, <3>1, <4>1 DEF CacheEntry
    <3>3. cache' = Set(cache, e)
      BY <1>2, <2>2, <3>1
    <3>4. \A f \in cache' : Same(e, f) \/ (f.key # e.key /\ \E d \in cache : Same(d, f))
      BY <3>2, <3>3, SetBounded DEF Typed
    <3> QED
      BY <3>2, <3>4 DEF Same
  <2>3. CASE ~Nil(v) /\ ~Has(cache, k)
    BY <1>2, <2>3 DEF Has, Same
  <2> QED
    BY <2>1, <2>2, <2>3
<1>8. Entries'
  <2> SUFFICES ASSUME NEW f \in cache', f.status = "VALID"
               PROVE  f.val <= value[f.key] /\ Known(f)
    BY <1>2 DEF Entries, Known, Current
  <2>1. CASE f.key = k /\ f.conn = c /\ f.val = v
    BY <1>1, <2>1 DEF Known
  <2>2. CASE \E e \in cache : Same(e, f)
    BY <2>2 DEF Entries, Known, Same
  <2> QED
    BY <1>6, <2>1, <2>2
<1>10. Requests' /\ Replies'
  BY <1>2, <1>4 DEF Requests, Replies
<1>11. Recent'
  BY <1>1, <1>2, <1>3 DEF Recent
<1> QED
  BY <1>8, <1>10, <1>11 DEF Typed

\* A finished command leaves nothing behind.
LEMMA ReleaseCoherent ==
  ASSUME NEW t, Threads = {t}, Typed, Typed', Coherent, Release(t)
  PROVE  Coherent'
<1> USE DEF Coherent
<1>1. /\ call[t].pc = "returned" /\ call'[t].pc = "idle"
      /\ UNCHANGED <<value, tracked, asked, sock, cache>>
  BY NoCallType DEF Release, serverVars, Typed, Plain
<1>2. \A d \in Conns :
        asked[d] = <<>> /\ \A i \in 1..Len(sock[d]) : ~IsReply(sock[d][i])
  BY <1>1, NothingOwed
<1>3. Entries'
  BY <1>1 DEF Entries, Known, Current
<1>4. Requests' /\ Replies' /\ Recent'
  BY <1>1, <1>2 DEF Requests, Replies, Recent
<1> QED
  BY <1>3, <1>4 DEF Typed
-----------------------------------------------------------------------------
Alone == Typed /\ Coherent

LEMMA AloneInvariant ==
  ASSUME NEW t, Threads = {t}
  PROVE  Spec => []Alone
<1>1. Init => Alone
  <2> SUFFICES ASSUME Init PROVE Alone
    OBVIOUS
  <2>1. value \in [Keys -> Nat] /\ call[t].pc = "idle"
    BY NoCallType DEF Init
  <2>2. Typed
    BY <2>1, EmptyBounded, NoCallType DEF Init, Typed, Plain, InCall
  <2>3. Coherent
    BY <2>1, <2>2 DEF Init, Typed, Coherent, Entries, Requests, Replies, Recent
  <2> QED
    BY <2>2, <2>3 DEF Alone
<1>2. Alone /\ [Next]_vars => Alone'
  <2> SUFFICES ASSUME Typed, Coherent, [Next]_vars PROVE Coherent'
    BY TypedStep DEF Alone
  <2>0. Typed'
    BY TypedStep
  <2>1. ASSUME NEW k \in Keys, Change(k) PROVE Coherent'
    BY <2>0, <2>1, ChangeCoherent
  <2>2. CASE FlushDB
    BY <2>0, <2>2, FlushCoherent
  <2>3. ASSUME NEW c \in Conns, Serve(c) \/ Drop(c) PROVE Coherent'
    BY <2>0, <2>3, ServeCoherent, DropCoherent
  <2>4. CASE SendCommand(t) \/ NotCachable(t) \/ Cached(t)
    BY <2>0, <2>4, SendCommandCoherent, NotCachableCoherent, CachedCoherent
  <2>5. CASE Uncached(t) \/ ReadCache(t) \/ ReadSocket(t)
    BY <2>0, <2>5, UncachedCoherent, ReadCacheCoherent, ReadSocketCoherent
  <2>8. CASE CheckHealth(t) \/ Write(t)
    BY <2>0, <2>8, CheckHealthCoherent, WriteCoherent
  <2>6. CASE Timeout(t) \/ Store(t) \/ Release(t)
    <3>1. CASE Timeout(t)
      BY <2>0, <3>1, DisconnectCoherent DEF Timeout
    <3> QED
      BY <2>0, <2>6, <3>1, StoreCoherent, ReleaseCoherent
  <2>7. CASE UNCHANGED vars
    <3>1. UNCHANGED <<value, tracked, asked, sock, cache, call>>
      BY <2>7 DEF vars, serverVars
    <3> QED
      BY <3>1 DEF Coherent, InCall, Entries, Known, Requests, Replies, Recent, Answers,
                  Sent, Own, Serves, Current
  <2> QED
    BY <2>1, <2>2, <2>3, <2>4, <2>5, <2>6, <2>7, <2>8 DEF Next, Step
<1> QED
  BY <1>1, <1>2, PTL DEF Spec

\* The news that an entry is out of date is a message at its connection.
LEMMA KnownIsAnnounced ==
  ASSUME Alone, NEW e \in cache, e.status = "VALID", ~e.lost
  PROVE  e.val = value[e.key] \/ Announced(e)
<1>1. Current(e.conn, e.key, e.val) \/ News(sock[e.conn], e.key)
  BY DEF Alone, Coherent, Entries, Known
<1>2. DOMAIN sock[e.conn] = 1..Len(sock[e.conn])
  BY DEF Alone, Typed, Plain, Bounded, Ordered, CacheEntry
<1> QED
  BY <1>1, <1>2 DEF Current, News, NewsFrom, Announces, Announced

\* One caller, with any number of connections and keys, whatever others change
\* or flush, whichever connections are lost and whatever the health checks do:
\* what a command returns, from the cache or from the server, was the value of
\* its key since it was called, unless the entry it was served from outlived the
\* socket it was read on.
THEOREM FreshForOneCaller ==
  ASSUME NEW t, Threads = {t}
  PROVE  Spec => []FreshReads
<1>1. Alone => FreshReads
  BY DEF Alone, Coherent, Recent, FreshReads
<1> QED
  BY <1>1, AloneInvariant, PTL

\* One caller: an entry that is served is the server's value, or the news that it
\* is not waits at its connection and is read before the entry is, unless it
\* outlived the socket it was read on.
THEOREM StaleEntriesAreAnnounced ==
  ASSUME NEW t, Threads = {t}
  PROVE  Spec => []StaleIsAnnounced
<1>1. Alone => StaleIsAnnounced
  BY KnownIsAnnounced DEF Alone, StaleIsAnnounced
<1> QED
  BY <1>1, AloneInvariant, PTL

\* Without health checks no entry outlives its socket.
NothingLost ==
  /\ \A e \in cache : ~e.lost
  /\ \A t \in Threads : ~call[t].lost

LEMMA NothingLostInvariant ==
  ASSUME ~HealthChecks
  PROVE  Spec => []NothingLost
<1>1. Init => NothingLost
  BY DEF Init, NothingLost, NoCall
<1>2. Typed /\ NothingLost /\ [Next]_vars => NothingLost'
  <2> SUFFICES ASSUME Typed, NothingLost, [Next]_vars PROVE NothingLost'
    OBVIOUS
  <2> USE DEF NothingLost
  <2>0. /\ Bounded(cache) /\ call \in [Threads -> Call] /\ ~NoCall.lost
        /\ \A c \in Conns : sock[c] \in Seq(Message)
    BY DEF Typed, Plain, NoCall
  <2>1. ASSUME NEW t \in Threads, NEW n, call' = [call EXCEPT ![t] = n], ~n.lost
        PROVE  \A u \in Threads : ~call'[u].lost
    BY <2>0, <2>1
  <2>2. ASSUME NEW t \in Threads, NEW p, call' = [call EXCEPT ![t].pc = p]
        PROVE  \A u \in Threads : ~call'[u].lost
    BY <2>0, <2>2 DEF Call
  <2>3. ASSUME NEW t \in Threads, NEW cs, Disconnect(t, cs) PROVE NothingLost'
    BY <2>0, <2>1, <2>3 DEF Disconnect, Flush
  <2>4. ASSUME \A f \in cache' : \E e \in cache : Same(e, f) PROVE \A f \in cache' : ~f.lost
    BY <2>4 DEF Same
  <2>5. CASE UNCHANGED <<cache, call>>
    BY <2>5
  <2>6. ASSUME NEW t \in Threads, SendCommand(t) PROVE NothingLost'
    <3>1. PICK c \in Conns \ Busy : Sends(t, c)
      BY <2>6 DEF SendCommand, Sends, Begins
    <3>2. CASE Closed(sock[c])
      BY <2>3, <3>1, <3>2 DEF Sends
    <3>3. CASE ~Closed(sock[c])
      <4>1. PICK n : call' = [call EXCEPT ![t] = n] /\ Begins(n, c)
        BY <3>1, <3>3 DEF Sends
      <4>2. ~n.lost
        BY <4>1 DEF Begins, NoCall
      <4>3. \A f \in cache' : \E e \in cache : Same(e, f)
        BY <2>0, <3>1, <3>3, DrainBounded DEF Sends
      <4> QED
        BY <2>1, <2>4, <4>1, <4>2, <4>3
    <3> QED
      BY <3>2, <3>3
  <2>7. ASSUME NEW t \in Threads, Cached(t) PROVE NothingLost'
    <3> DEFINE owner == Entry(cache, call[t].key).conn
    <3>1. CASE Disconnect(t, {call[t].conn, owner})
      BY <2>3, <3>1
    <3>2. CASE /\ call' = [call EXCEPT ![t].pc = "read"]
               /\ cache' = IF owner = call[t].conn THEN Touch(cache, call[t].key)
                           ELSE Drain(Touch(cache, call[t].key), sock[owner])
      <4>1. /\ Bounded(Touch(cache, call[t].key))
            /\ \A f \in Touch(cache, call[t].key) : \E e \in cache : Same(e, f)
        BY <2>0, TouchBounded
      <4>2. owner \in Conns
        BY <2>0, <2>7 DEF Cached, Has, Entry, Bounded, Ordered, CacheEntry
      <4>3. \A f \in Drain(Touch(cache, call[t].key), sock[owner]) :
              \E e \in Touch(cache, call[t].key) : Same(e, f)
        BY <2>0, <4>1, <4>2, DrainBounded
      <4>4. \A f \in cache' : \E e \in cache : Same(e, f)
        BY <3>2, <4>1, <4>3 DEF Same
      <4> QED
        BY <2>2, <2>4, <3>2, <4>4
    <3> QED
      BY <2>7, <3>1, <3>2 DEF Cached
  <2>8. ASSUME NEW t \in Threads, Uncached(t) PROVE NothingLost'
    <3> DEFINE e == [key |-> call[t].key, val |-> 0, status |-> "IN_PROGRESS",
                     conn |-> call[t].conn, older |-> {}, lost |-> FALSE]
    <3>1. e \in CacheEntry /\ ~e.lost
      BY <2>8 DEF Uncached, Typed, InCall, CacheEntry
    <3>2. cache' = Set(cache, e) /\ call' = [call EXCEPT ![t].pc = "send"]
      BY <2>8 DEF Uncached
    <3> HIDE DEF e
    <3>3. \A f \in cache' : Same(e, f) \/ \E d \in cache : Same(d, f)
      BY <2>0, <3>1, <3>2, SetBounded
    <3> QED
      BY <2>2, <3>1, <3>2, <3>3 DEF Same
  <2>9. ASSUME NEW t \in Threads, NotCachable(t) PROVE NothingLost'
    <3>1. CASE Disconnect(t, {call[t].conn})
      BY <2>3, <3>1
    <3>2. ASSUME NEW k \in Keys, NEW ks \in {{}, {k}}, Executes(t, k, ks) PROVE NothingLost'
      <4> DEFINE cc == Drain(cache, sock[call[t].conn])
      <4>1. call[t].conn \in Conns
        BY <2>9 DEF NotCachable, Typed, InCall
      <4>2. Bounded(cc) /\ \A f \in cc : \E e \in cache : Same(e, f)
        BY <2>0, <4>1, DrainBounded
      <4>3. \A f \in cache' : \E e \in cc : Same(e, f)
        BY <3>2, <4>2, OnInvalidationBounded DEF Executes
      <4>4. \A f \in cache' : \E e \in cache : Same(e, f)
        BY <4>2, <4>3 DEF Same
      <4> QED
        BY <2>0, <2>1, <2>4, <3>2, <4>4 DEF Executes
    <3> QED
      BY <2>9, <3>1, <3>2 DEF NotCachable, Executes
  <2>10. ASSUME NEW t \in Threads, ReadCache(t) PROVE NothingLost'
    <3>1. \A f \in cache' : \E e \in cache : Same(e, f)
      BY <2>0, <2>10, TouchBounded DEF ReadCache
    <3>2. CASE call' = [call EXCEPT ![t].pc = "wait"]
      BY <2>2, <2>4, <3>1, <3>2
    <3>3. CASE /\ Has(cache, call[t].key)
               /\ Return(t, Entry(cache, call[t].key).val, Entry(cache, call[t].key).lost)
      <4>1. Entry(cache, call[t].key) \in cache
        BY <3>3 DEF Has, Entry
      <4> DEFINE l == Entry(cache, call[t].key).lost
                 v == Entry(cache, call[t].key).val
      <4>2. ~l
        BY <4>1
      <4> HIDE DEF l
      <4>3. call' = [call EXCEPT ![t] = [@ EXCEPT !.pc = "returned", !.got = v, !.lost = l]]
        BY <3>3 DEF Return, l
      <4>4. [call[t] EXCEPT !.pc = "returned", !.got = v, !.lost = l].lost = l
        BY <2>0 DEF Call
      <4> QED
        BY <2>0, <2>4, <3>1, <4>2, <4>3, <4>4
    <3> QED
      BY <2>10, <3>2, <3>3 DEF ReadCache
  <2>11. ASSUME NEW t \in Threads, ReadSocket(t) PROVE NothingLost'
    <3> DEFINE m == Head(sock[call[t].conn])
    <3>1. CASE Disconnect(t, {call[t].conn})
      BY <2>3, <3>1
    <3>2. CASE /\ cache' = IF m.kind = "inval" THEN OnInvalidation(cache, {m.key}) ELSE cache
               /\ call' = IF m.kind = "reply"
                            THEN [call EXCEPT ![t].pc = "store", ![t].got = m.val]
                          ELSE IF m.kind = "error" THEN [call EXCEPT ![t] = NoCall] ELSE call
      <4>1. \A f \in cache' : \E e \in cache : Same(e, f)
        <5>1. \A f \in OnInvalidation(cache, {m.key}) : \E e \in cache : Same(e, f)
          BY <2>0, OnInvalidationBounded
        <5> QED
          BY <3>2, <5>1 DEF Same
      <4>2. \A u \in Threads : ~call'[u].lost
        BY <2>0, <3>2 DEF Call
      <4> QED
        BY <2>4, <4>1, <4>2
    <3> QED
      BY <2>11, <3>1, <3>2 DEF ReadSocket
  <2>12. ASSUME NEW t \in Threads, Timeout(t) PROVE NothingLost'
    BY <2>3, <2>12 DEF Timeout
  <2>13. ASSUME NEW t \in Threads, Store(t) PROVE NothingLost'
    <3> DEFINE k == call[t].key
               own == Entry(cache, k)
               e == [own EXCEPT !.status = "VALID", !.val = call[t].got]
    <3>1. \A u \in Threads : ~call'[u].lost
      BY <2>0, <2>13 DEF Store, Return, Call
    <3>2. \A f \in Without(cache, {k}) : \E d \in cache : Same(d, f)
      BY <2>0, WithoutEntries DEF Bounded, Ordered
    <3>3. ASSUME Has(cache, k) PROVE \A f \in Set(cache, e) : ~f.lost
      <4>1. own \in cache /\ own \in CacheEntry /\ call[t].got \in Nat
        BY <2>0, <3>3 DEF Has, Entry, Bounded, Ordered, Call
      <4>2. e \in CacheEntry /\ ~e.lost
        BY <4>1 DEF CacheEntry
      <4> HIDE DEF e
      <4>3. \A f \in Set(cache, e) : Same(e, f) \/ \E d \in cache : Same(d, f)
        BY <2>0, <4>2, SetBounded
      <4> QED
        BY <4>2, <4>3 DEF Same
    <3>4. cache' \in {Without(cache, {k}), cache} \/ (Has(cache, k) /\ cache' = Set(cache, e))
      BY <2>13 DEF Store
    <3> QED
      BY <3>1, <3>2, <3>3, <3>4 DEF Same
  <2>14. ASSUME NEW t \in Threads, Release(t) PROVE NothingLost'
    BY <2>0, <2>1, <2>14 DEF Release
  <2>15. ASSUME NEW t \in Threads, Write(t) PROVE NothingLost'
    BY <2>2, <2>15 DEF Write
  <2>16. ASSUME NEW t \in Threads, CheckHealth(t) PROVE NothingLost'
    BY <2>16 DEF CheckHealth
  <2> QED
    BY <2>5, <2>6, <2>7, <2>8, <2>9, <2>10, <2>11, <2>12, <2>13, <2>14, <2>15, <2>16
    DEF Next, Step, vars, Change, FlushDB, Serve, Drop
<1>3. Spec => []Typed
  <2>1. Init => Typed
    BY TypedInit
  <2> QED
    BY <2>1, TypedStep, PTL DEF Spec
<1> QED
  BY <1>1, <1>2, <1>3, PTL DEF Spec

\* One caller, without health checks: every command returns what was the value of
\* its key since it was called.
THEOREM FreshUnchecked ==
  ASSUME NEW t, Threads = {t}, ~HealthChecks
  PROVE  Spec => []AlwaysFresh
<1>1. FreshReads /\ NothingLost => AlwaysFresh
  BY DEF FreshReads, NothingLost, AlwaysFresh
<1>2. Spec => []FreshReads
  BY FreshForOneCaller
<1>3. Spec => []NothingLost
  BY NothingLostInvariant
<1> QED
  BY <1>1, <1>2, <1>3, PTL

\* One caller, without health checks: every entry that is served is the server's
\* value or is announced.
THEOREM AnnouncedUnchecked ==
  ASSUME NEW t, Threads = {t}, ~HealthChecks
  PROVE  Spec => []AlwaysAnnounced
<1>1. StaleIsAnnounced /\ NothingLost => AlwaysAnnounced
  BY DEF StaleIsAnnounced, NothingLost, AlwaysAnnounced
<1>2. Spec => []StaleIsAnnounced
  BY StaleEntriesAreAnnounced
<1>3. Spec => []NothingLost
  BY NothingLostInvariant
<1> QED
  BY <1>1, <1>2, <1>3, PTL

\* One caller: the reply it reads answers the command it has sent.  Neither a
\* timeout, nor a lost connection, nor an answer found in the cache leaves a
\* reply behind on a connection that the next command reads.
THEOREM OwnReplyForOneCaller ==
  ASSUME NEW t, Threads = {t}
  PROVE  Spec => []ReadsItsReply
<1>1. Alone => ReadsItsReply
  <2> SUFFICES ASSUME Alone, NEW s, s = sock[call[t].conn],
                      call[t].pc = "wait", s # <<>>, IsReply(Head(s))
               PROVE  Head(s).key = call[t].key
    BY DEF ReadsItsReply, IsReply
  <2>1. call[t].conn \in Conns /\ s \in Seq(Message)
    BY DEF Alone, Coherent, InCall, Typed, Plain
  <2>2. 1 \in 1..Len(s) /\ Head(s) = s[1]
    BY <2>1
  <2>3. Answers(call[t].conn, 1, s[1])
    BY <2>1, <2>2 DEF Alone, Coherent, Replies
  <2> QED
    BY <2>2, <2>3 DEF Answers
<1> QED
  BY <1>1, AloneInvariant, PTL
=============================================================================
