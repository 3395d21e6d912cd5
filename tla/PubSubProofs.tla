---------------------------- MODULE PubSubProofs ----------------------------
(***************************************************************************)
(* Proofs about PubSub: once everything is read, the client and the server *)
(* agree on the subscriptions, for any number of channels, calls, lost     *)
(* connections and messages on their way.                                  *)
(*                                                                         *)
(* Until everything is read they may disagree.  The invariant says by how  *)
(* much: what the client has and the server has not is pending, and the    *)
(* reply that will settle it is on its way.                                *)
(***************************************************************************)
EXTENDS PubSub, FiniteSetTheorems, SequenceTheorems, TLAPS

\* subscribe() is called with something, and keeps the event set.
Event ==
  /\ flag <=> channels # {}
  /\ call.pc = "subscribe" => call.args # {}

Gone(c) == [type |-> "unsubscribe", channel |-> c]
Has(s, m) == \E i \in 1..Len(s) : s[i] = m
OnItsWay(c) == Has(sock, Gone(c))

\* What the call that is being executed is about to unsubscribe.
Asked(c) == call.pc = "unsubscribe" /\ (call.args = {} \/ c \in call.args)
AskedIsPending == \A c \in channels : Asked(c) => c \in pending

\* On a live connection the server has nothing that the client does not have,
\* the client forgets nothing that the server keeps, and what the client has
\* alone is settled by a reply on its way.
Live == alive /\ call.pc # "stuck"
ServerKnown == Live => subs \subseteq channels
PendingAsked == Live => \A c \in subs \cap pending : Asked(c)
RestSettles == Live => \A c \in channels \ subs : c \in pending /\ OnItsWay(c)

IInv ==
  /\ TypeOK /\ Event /\ AskedIsPending
  /\ ServerKnown /\ PendingAsked /\ RestSettles
-----------------------------------------------------------------------------
(***************************************************************************)
(* The replies.                                                            *)
(***************************************************************************)
\* The sequence made of a finite set has every element of it.
LEMMA SetToSeqLemma ==
  ASSUME NEW S, IsFiniteSet(S)
  PROVE  /\ SetToSeq(S) \in Seq(S)
         /\ \A x \in S : \E i \in 1..Len(SetToSeq(S)) : SetToSeq(S)[i] = x
<1> DEFINE n == Cardinality(S)
           f == SetToSeq(S)
<1>1. n \in Nat /\ ExistsBijection(1..n, S)
  BY FS_CardinalityType
<1>2. \E g \in [1..n -> S] : IsInjective(g)
  BY <1>1 DEF ExistsBijection, Bijection, Injection
<1>3. f \in [1..n -> S] /\ IsInjective(f)
  BY <1>2 DEF SetToSeq
<1>4. f \in Injection(1..n, S)
  BY <1>3 DEF Injection
<1>5. Cardinality(1..n) = n
  BY <1>1, FS_Interval
<1>6. f \in Surjection(1..n, S)
  BY <1>4, <1>5, FS_Injection
<1>7. f \in Seq(S) /\ Len(f) = n
  BY <1>1, <1>3
<1>8. \A x \in S : \E i \in 1..n : f[i] = x
  BY <1>6 DEF Surjection
<1> QED
  BY <1>7, <1>8

\* A new connection has nothing to read yet, or the replies of on_connect.
LEMMA FreshSocket == <<>> \in Seq(Messages)
  OBVIOUS

\* The server answers for every channel of the command.
LEMMA RepliesLemma ==
  ASSUME NEW type \in {"subscribe", "unsubscribe"}, NEW chs \in SUBSET Channels
  PROVE  /\ Replies(type, chs) \in Seq(Messages)
         /\ \A c \in chs : Has(Replies(type, chs), [type |-> type, channel |-> c])
<1> DEFINE S == {[type |-> type, channel |-> c] : c \in chs}
           f == [c \in chs |-> [type |-> type, channel |-> c]]
<1>1. IsFiniteSet(chs)
  BY PubSubAssumption, FS_Subset
<1>2. f \in Surjection(chs, S)
  BY DEF Surjection
<1>3. IsFiniteSet(S)
  BY <1>1, <1>2, FS_Surjection
<1>4. S \subseteq Messages
  BY DEF Messages
<1>5. Replies(type, chs) = SetToSeq(S)
  BY DEF Replies
<1>6. /\ SetToSeq(S) \in Seq(S)
      /\ \A x \in S : \E i \in 1..Len(SetToSeq(S)) : SetToSeq(S)[i] = x
  BY <1>3, SetToSeqLemma
<1>7. SetToSeq(S) \in Seq(Messages)
  BY <1>4, <1>6
<1> QED
  BY <1>5, <1>6, <1>7 DEF Has

\* What is sent later does not overtake what is on its way.
LEMMA ConcatLemma ==
  ASSUME NEW s \in Seq(Messages), NEW r \in Seq(Messages), NEW m, Has(s, m) \/ Has(r, m)
  PROVE  Has(s \o r, m)
<1>1. /\ Len(s) \in Nat /\ Len(r) \in Nat /\ Len(s \o r) = Len(s) + Len(r)
      /\ \A i \in 1..(Len(s) + Len(r)) :
           (s \o r)[i] = IF i <= Len(s) THEN s[i] ELSE r[i - Len(s)]
  OBVIOUS
<1>2. CASE Has(s, m)
  <2>1. PICK i \in 1..Len(s) : s[i] = m
    BY <1>2 DEF Has
  <2>2. i \in 1..Len(s \o r) /\ (s \o r)[i] = m
    BY <1>1, <2>1
  <2> QED
    BY <2>2 DEF Has
<1>3. CASE Has(r, m)
  <2>1. PICK i \in 1..Len(r) : r[i] = m
    BY <1>3 DEF Has
  <2>2. /\ i + Len(s) \in 1..(Len(s) + Len(r))
        /\ ~(i + Len(s) <= Len(s)) /\ (i + Len(s)) - Len(s) = i
    BY <1>1
  <2>3. (s \o r)[i + Len(s)] = m
    BY <1>1, <2>1, <2>2
  <2> QED
    BY <1>1, <2>2, <2>3 DEF Has
<1> QED
  BY <1>2, <1>3

\* Reading takes only the first reply.
LEMMA TailLemma ==
  ASSUME NEW s \in Seq(Messages), s # <<>>, NEW m, Has(s, m), Head(s) # m
  PROVE  Has(Tail(s), m)
<1>1. PICK i \in 1..Len(s) : s[i] = m
  BY DEF Has
<1>2. i # 1
  BY <1>1
<1>3. /\ i - 1 \in 1..Len(Tail(s))
      /\ Tail(s)[i - 1] = s[i]
  BY <1>2
<1> QED
  BY <1>1, <1>3 DEF Has

\* The variables of the client and of the server keep their types.
LEMMA TypeStep == TypeOK /\ [Next]_vars => TypeOK'
<1> SUFFICES ASSUME TypeOK, [Next]_vars PROVE TypeOK'
  OBVIOUS
<1> USE DEF TypeOK, client, server
<1>r. <<>> \in Seq(Messages) /\ Replies("subscribe", channels) \in Seq(Messages)
  BY FreshSocket, RepliesLemma
<1>1. ASSUME NEW chs \in (SUBSET Channels) \ {{}}, Subscribe(chs) PROVE TypeOK'
  <2>1. sock' \in Seq(Messages)
    BY <1>1, <1>r DEF Subscribe, TakeConnection
  <2> QED
    BY <1>1, <2>1 DEF Subscribe, TakeConnection
<1>2. ASSUME NEW chs \in SUBSET Channels, Unsubscribe(chs) PROVE TypeOK'
  <2>1. sock' \in Seq(Messages)
    BY <1>2, <1>r DEF Unsubscribe, TakeConnection
  <2> QED
    BY <1>2, <2>1 DEF Unsubscribe, TakeConnection
<1>3. CASE Close
  BY <1>3, <1>r DEF Close, ResetChannels
<1>4. CASE Sent
  <2>1. sock' \in Seq(Messages)
    <3>1. call.args \in SUBSET Channels
      OBVIOUS
    <3>2. \/ sock' = sock \o Replies("subscribe", call.args)
          \/ sock' = sock \o Replies("unsubscribe", subs)
          \/ sock' = sock \o Replies("unsubscribe", call.args)
      BY <1>4 DEF Sent
    <3>3. /\ Replies("subscribe", call.args) \in Seq(Messages)
          /\ Replies("unsubscribe", subs) \in Seq(Messages)
          /\ Replies("unsubscribe", call.args) \in Seq(Messages)
      BY <3>1, RepliesLemma
    <3>4. \A s \in Seq(Messages) : sock \o s \in Seq(Messages)
      OBVIOUS
    <3> HIDE DEF TypeOK
    <3> QED
      BY <3>2, <3>3, <3>4
  <2>2. flag' \in BOOLEAN /\ channels' \subseteq Channels /\ pending' \subseteq Channels
    BY <1>4 DEF Sent, Recorded
  <2>3. call' \in [pc : {"idle", "subscribe", "unsubscribe", "stuck"},
                 args : SUBSET Channels]
    BY <1>4 DEF Sent, Idle
  <2> QED
    BY <1>4, <2>1, <2>2, <2>3 DEF Sent
<1>5. CASE SentInVain
  BY <1>5 DEF SentInVain, Recorded, Idle
<1>6. CASE SendFails
  <2>1. sock' \in Seq(Messages)
    BY <1>6, <1>r DEF SendFails, ConnectUnderLock, Connect
  <2>2. call' \in [pc : {"idle", "subscribe", "unsubscribe", "stuck"},
                 args : SUBSET Channels]
    BY <1>6 DEF SendFails, ConnectUnderLock, Idle
  <2> QED
    BY <1>6, <2>1, <2>2 DEF SendFails, ConnectUnderLock, Connect
<1>7. CASE SendConnects
  <2>1. sock' \in Seq(Messages)
    BY <1>7, <1>r DEF SendConnects, ConnectUnderLock, Connect
  <2>2. call' \in [pc : {"idle", "subscribe", "unsubscribe", "stuck"},
                 args : SUBSET Channels]
    BY <1>7 DEF SendConnects, ConnectUnderLock
  <2> QED
    BY <1>7, <2>1, <2>2 DEF SendConnects, ConnectUnderLock, Connect
<1>8. CASE ReadConnects
  BY <1>8, <1>r DEF ReadConnects, Connect
<1>9. CASE ReadFails
  <2>1. sock' \in Seq(Messages)
    BY <1>9, <1>r DEF ReadFails, Connect
  <2> QED
    BY <1>9, <2>1 DEF ReadFails, Connect
<1>10. CASE HandleMessage
  <2>1. sock' \in Seq(Messages)
    BY <1>10 DEF HandleMessage
  <2>2. flag' \in BOOLEAN /\ channels' \subseteq Channels /\ pending' \subseteq Channels
    BY <1>10 DEF HandleMessage, Forget, ClearWhenEmpty
  <2> QED
    BY <1>10, <2>1, <2>2 DEF HandleMessage
<1>11. CASE Drop
  <2>1. PICK n \in 0..Len(sock) : sock' = SubSeq(sock, 1, n)
    BY <1>11 DEF Drop
  <2>2. sock' \in Seq(Messages)
    BY <2>1
  <2> QED
    BY <1>11, <2>2 DEF Drop
<1>12. ASSUME NEW c \in Channels, Publish(c) PROVE TypeOK'
  <2>1. sock' \in Seq(Messages)
    BY <1>12 DEF Publish, Messages
  <2> QED
    BY <1>12, <2>1 DEF Publish
<1>13. CASE UNCHANGED vars
  BY <1>13 DEF vars
<1> QED
  BY <1>1, <1>2, <1>3, <1>4, <1>5, <1>6, <1>7, <1>8, <1>9, <1>10, <1>11, <1>12, <1>13
  DEF Next, Send, GetMessage

\* The event is set with the first channel and cleared with the last.
LEMMA EventStep == TypeOK /\ Event /\ [Next]_vars => Event'
<1> SUFFICES ASSUME TypeOK, Event, [Next]_vars PROVE Event'
  OBVIOUS
<1> USE DEF TypeOK, Event, client, server
<1>1. ASSUME NEW chs \in (SUBSET Channels) \ {{}}, Subscribe(chs) PROVE Event'
  BY <1>1 DEF Subscribe, Called, TakeConnection
<1>2. ASSUME NEW chs \in SUBSET Channels, Unsubscribe(chs) PROVE Event'
  BY <1>2 DEF Unsubscribe, Called, TakeConnection
<1>3. CASE Close
  BY <1>3 DEF Close, Called, ResetChannels
<1>4. CASE Sent
  BY <1>4 DEF Sent, Sending, Recorded, Idle
<1>5. CASE SentInVain
  BY <1>5 DEF SentInVain, Sending, Recorded, Idle
<1>6. CASE SendFails
  BY <1>6 DEF SendFails, Sending, ConnectUnderLock, Connect, Idle
<1>7. CASE SendConnects
  BY <1>7 DEF SendConnects, Sending, ConnectUnderLock, Connect
<1>8. CASE ReadConnects
  BY <1>8 DEF ReadConnects, MayRead, Connect
<1>9. CASE ReadFails
  BY <1>9 DEF ReadFails, MayRead, Connect
<1>10. CASE HandleMessage
  BY <1>10 DEF HandleMessage, MayRead, Forget, ClearWhenEmpty
<1>11. CASE Drop
  BY <1>11 DEF Drop
<1>12. ASSUME NEW c \in Channels, Publish(c) PROVE Event'
  BY <1>12 DEF Publish
<1>13. CASE UNCHANGED vars
  BY <1>13 DEF vars
<1> QED
  BY <1>1, <1>2, <1>3, <1>4, <1>5, <1>6, <1>7, <1>8, <1>9, <1>10, <1>11, <1>12, <1>13
  DEF Next, Send, GetMessage

\* unsubscribe() marks what it asks for before it asks.
LEMMA AskedStep == TypeOK /\ AskedIsPending /\ [Next]_vars => AskedIsPending'
<1> SUFFICES ASSUME TypeOK, AskedIsPending, [Next]_vars PROVE AskedIsPending'
  OBVIOUS
<1> USE DEF TypeOK, AskedIsPending, Asked, client, server
<1>1. ASSUME NEW chs \in (SUBSET Channels) \ {{}}, Subscribe(chs) PROVE AskedIsPending'
  BY <1>1 DEF Subscribe, Called, TakeConnection
<1>2. ASSUME NEW chs \in SUBSET Channels, Unsubscribe(chs) PROVE AskedIsPending'
  BY <1>2 DEF Unsubscribe, Called, TakeConnection
<1>3. CASE Close
  BY <1>3 DEF Close, Called, ResetChannels
<1>4. CASE Sent
  BY <1>4 DEF Sent, Sending, Recorded, Idle
<1>5. CASE SentInVain
  BY <1>5 DEF SentInVain, Sending, Recorded, Idle
<1>6. CASE SendFails
  BY <1>6 DEF SendFails, Sending, ConnectUnderLock, Connect, Idle
<1>7. CASE SendConnects
  BY <1>7 DEF SendConnects, Sending, ConnectUnderLock, Connect
<1>8. CASE ReadConnects
  BY <1>8 DEF ReadConnects, MayRead, Connect, Idle
<1>9. CASE ReadFails
  BY <1>9 DEF ReadFails, MayRead, Connect, Idle
<1>10. CASE HandleMessage
  BY <1>10 DEF HandleMessage, MayRead, Forget, ClearWhenEmpty, Idle
<1>11. CASE Drop
  BY <1>11 DEF Drop
<1>12. ASSUME NEW c \in Channels, Publish(c) PROVE AskedIsPending'
  BY <1>12 DEF Publish
<1>13. CASE UNCHANGED vars
  BY <1>13 DEF vars
<1> QED
  BY <1>1, <1>2, <1>3, <1>4, <1>5, <1>6, <1>7, <1>8, <1>9, <1>10, <1>11, <1>12, <1>13
  DEF Next, Send, GetMessage

\* The server gets a subscription and the client records it; the client forgets
\* only what the server has dropped.
LEMMA ServerKnownStep ==
  TypeOK /\ PendingAsked /\ ServerKnown /\ [Next]_vars => ServerKnown'
<1> SUFFICES ASSUME TypeOK, PendingAsked, ServerKnown, [Next]_vars PROVE ServerKnown'
  OBVIOUS
<1> USE DEF TypeOK, ServerKnown, Live, client, server
<1>1. ASSUME NEW chs \in (SUBSET Channels) \ {{}}, Subscribe(chs) PROVE ServerKnown'
  BY <1>1 DEF Subscribe, Called, TakeConnection, Idle
<1>2. ASSUME NEW chs \in SUBSET Channels, Unsubscribe(chs) PROVE ServerKnown'
  BY <1>2 DEF Unsubscribe, Called, TakeConnection, Idle
<1>3. CASE Close
  BY <1>3 DEF Close, Called, ResetChannels
<1>4. CASE Sent
  BY <1>4 DEF Sent, Sending, Recorded, Idle
<1>5. CASE SentInVain
  BY <1>5 DEF SentInVain, Sending, Recorded, Idle
<1>6. CASE SendFails
  BY <1>6 DEF SendFails, Sending, ConnectUnderLock, Connect, Idle
<1>7. CASE SendConnects
  BY <1>7 DEF SendConnects, Sending, ConnectUnderLock, Connect
<1>8. CASE ReadConnects
  BY <1>8 DEF ReadConnects, MayRead, Connect
<1>9. CASE ReadFails
  BY <1>9 DEF ReadFails, MayRead, Connect
<1>10. CASE HandleMessage
  BY <1>10 DEF HandleMessage, MayRead, Forget, ClearWhenEmpty, Idle, PendingAsked, Asked
<1>11. CASE Drop
  BY <1>11 DEF Drop
<1>12. ASSUME NEW c \in Channels, Publish(c) PROVE ServerKnown'
  BY <1>12 DEF Publish
<1>13. CASE UNCHANGED vars
  BY <1>13 DEF vars
<1> QED
  BY <1>1, <1>2, <1>3, <1>4, <1>5, <1>6, <1>7, <1>8, <1>9, <1>10, <1>11, <1>12, <1>13
  DEF Next, Send, GetMessage

\* A subscription is not pending once the command is sent, unless it has
\* ended on the server.
LEMMA PendingAskedStep == TypeOK /\ PendingAsked /\ [Next]_vars => PendingAsked'
<1> SUFFICES ASSUME TypeOK, PendingAsked, [Next]_vars PROVE PendingAsked'
  OBVIOUS
<1> USE DEF TypeOK, PendingAsked, Asked, Live, client, server
<1>1. ASSUME NEW chs \in (SUBSET Channels) \ {{}}, Subscribe(chs) PROVE PendingAsked'
  BY <1>1 DEF Subscribe, Called, TakeConnection, Idle
<1>2. ASSUME NEW chs \in SUBSET Channels, Unsubscribe(chs) PROVE PendingAsked'
  BY <1>2 DEF Unsubscribe, Called, TakeConnection, Idle
<1>3. CASE Close
  BY <1>3 DEF Close, Called, ResetChannels
<1>4. CASE Sent
  BY <1>4 DEF Sent, Sending, Recorded, Idle
<1>5. CASE SentInVain
  BY <1>5 DEF SentInVain, Sending, Recorded, Idle
<1>6. CASE SendFails
  BY <1>6 DEF SendFails, Sending, ConnectUnderLock, Connect, Idle
<1>7. CASE SendConnects
  BY <1>7 DEF SendConnects, Sending, ConnectUnderLock, Connect
<1>8. CASE ReadConnects
  BY <1>8 DEF ReadConnects, MayRead, Connect
<1>9. CASE ReadFails
  BY <1>9 DEF ReadFails, MayRead, Connect
<1>10. CASE HandleMessage
  BY <1>10 DEF HandleMessage, MayRead, Forget, ClearWhenEmpty, Idle
<1>11. CASE Drop
  BY <1>11 DEF Drop
<1>12. ASSUME NEW c \in Channels, Publish(c) PROVE PendingAsked'
  BY <1>12 DEF Publish
<1>13. CASE UNCHANGED vars
  BY <1>13 DEF vars
<1> QED
  BY <1>1, <1>2, <1>3, <1>4, <1>5, <1>6, <1>7, <1>8, <1>9, <1>10, <1>11, <1>12, <1>13
  DEF Next, Send, GetMessage

\* What the client has alone is settled by a reply on its way.
LEMMA RestSettlesStep ==
  TypeOK /\ AskedIsPending /\ PendingAsked /\ RestSettles /\ [Next]_vars => RestSettles'
<1> SUFFICES ASSUME TypeOK, AskedIsPending, PendingAsked, RestSettles, [Next]_vars
             PROVE  RestSettles'
  OBVIOUS
<1> USE DEF TypeOK, RestSettles, OnItsWay, Live, client, server
<1>1. ASSUME NEW chs \in (SUBSET Channels) \ {{}}, Subscribe(chs) PROVE RestSettles'
  BY <1>1 DEF Subscribe, Called, TakeConnection, Idle
<1>2. ASSUME NEW chs \in SUBSET Channels, Unsubscribe(chs) PROVE RestSettles'
  BY <1>2 DEF Unsubscribe, Called, TakeConnection, Idle
<1>3. CASE Close
  BY <1>3 DEF Close, Called, ResetChannels
<1>4. CASE Sent
  <2> SUFFICES ASSUME NEW c \in channels' \ subs'
               PROVE  c \in pending' /\ Has(sock', Gone(c))
    OBVIOUS
  <2>0. Live /\ call.args \in SUBSET Channels
    BY <1>4 DEF Sent, Sending
  <2>1. CASE call.pc = "subscribe"
    <3>1. /\ c \in channels \ subs /\ c \notin call.args /\ pending' = pending \ call.args
          /\ sock' = sock \o Replies("subscribe", call.args)
      BY <1>4, <2>1 DEF Sent, Recorded
    <3>2. c \in pending /\ Has(sock, Gone(c))
      BY <2>0, <3>1
    <3>3. Has(sock', Gone(c))
      BY <2>0, <3>1, <3>2, ConcatLemma, RepliesLemma
    <3> QED
      BY <3>1, <3>2, <3>3
  <2>2. CASE call.pc = "unsubscribe"
    <3> DEFINE gone == IF call.args = {} THEN subs ELSE call.args
    <3>1. /\ c \in channels /\ pending' = pending
          /\ c \notin subs \/ c \in gone
          /\ sock' = sock \o Replies("unsubscribe", gone)
      BY <1>4, <2>2 DEF Sent, Recorded
    <3>2. gone \in SUBSET Channels
      BY <2>0
    <3>3. CASE c \notin subs
      <4>1. c \in pending /\ Has(sock, Gone(c))
        BY <2>0, <3>1, <3>3
      <4> QED
        BY <3>1, <3>2, <4>1, ConcatLemma, RepliesLemma
    <3>4. CASE c \in gone
      <4>1. c \in pending
        BY <2>2, <3>1, <3>4 DEF AskedIsPending, Asked
      <4>2. Has(Replies("unsubscribe", gone), Gone(c))
        BY <3>2, <3>4, RepliesLemma DEF Gone
      <4> QED
        BY <3>1, <3>2, <4>1, <4>2, ConcatLemma, RepliesLemma
    <3> QED
      BY <3>1, <3>3, <3>4
  <2> QED
    BY <1>4, <2>1, <2>2 DEF Sent, Sending
<1>5. CASE SentInVain
  BY <1>5 DEF SentInVain, Sending, Recorded, Idle
<1>6. CASE SendFails
  BY <1>6 DEF SendFails, Sending, ConnectUnderLock, Connect, Idle
<1>7. CASE SendConnects
  BY <1>7 DEF SendConnects, Sending, ConnectUnderLock, Connect
<1>8. CASE ReadConnects
  BY <1>8 DEF ReadConnects, MayRead, Connect
<1>9. CASE ReadFails
  BY <1>9 DEF ReadFails, MayRead, Connect
<1>10. CASE HandleMessage
  <2> SUFFICES ASSUME Live, NEW c \in channels' \ subs'
               PROVE  c \in pending' /\ Has(sock', Gone(c))
    BY <1>10 DEF HandleMessage
  <2>1. /\ sock \in Seq(Messages) /\ sock # <<>> /\ sock' = Tail(sock)
        /\ subs' = subs
    BY <1>10 DEF HandleMessage
  <2>2. c \in channels \ subs
    BY <1>10, <2>1 DEF HandleMessage, Forget
  <2>3. c \in pending /\ Has(sock, Gone(c))
    BY <2>2
  <2>4. Head(sock) # Gone(c) /\ c \in pending'
    BY <1>10, <2>2, <2>3 DEF HandleMessage, Forget, Gone
  <2> QED
    BY <2>1, <2>3, <2>4, TailLemma
<1>11. CASE Drop
  BY <1>11 DEF Drop
<1>12. ASSUME NEW c \in Channels, Publish(c) PROVE RestSettles'
  <2> SUFFICES ASSUME Live, NEW d \in channels \ subs
               PROVE  Has(sock', Gone(d))
    BY <1>12 DEF Publish
  <2> DEFINE m == [type |-> "message", channel |-> c]
  <2>1. <<m>> \in Seq(Messages) /\ sock' = sock \o <<m>>
    BY <1>12 DEF Publish, Messages
  <2>2. Has(sock, Gone(d))
    OBVIOUS
  <2> QED
    BY <2>1, <2>2, ConcatLemma
<1>13. CASE UNCHANGED vars
  BY <1>13 DEF vars
<1> QED
  BY <1>1, <1>2, <1>3, <1>4, <1>5, <1>6, <1>7, <1>8, <1>9, <1>10, <1>11, <1>12, <1>13
  DEF Next, Send, GetMessage
-----------------------------------------------------------------------------
\* There is no connection and no channel at the start.
LEMMA InitIInv == Init => IInv
<1> SUFFICES ASSUME Init PROVE IInv
  OBVIOUS
<1>1. TypeOK
  BY FreshSocket DEF Init, TypeOK, Idle
<1>2. /\ Event /\ AskedIsPending
      /\ ServerKnown /\ PendingAsked /\ RestSettles
  BY DEF Init, Idle, Event, AskedIsPending, ServerKnown, PendingAsked,
         RestSettles, Live
<1> QED
  BY <1>1, <1>2 DEF IInv

\* The invariant holds in every state of every behaviour.
LEMMA Inductive == Spec => []IInv
<1>1. IInv /\ [Next]_vars => IInv'
  BY TypeStep, EventStep, AskedStep, ServerKnownStep,
     PendingAskedStep, RestSettlesStep DEF IInv
<1> QED
  BY <1>1, InitIInv, PTL DEF Spec

(***************************************************************************)
(* When everything has been read, self.channels is what the server has,    *)
(* however calls, replies and reconnects were interleaved.                 *)
(***************************************************************************)
THEOREM SubscriptionsAgree == Spec => []InSync
<1>1. IInv => InSync
  <2> SUFFICES ASSUME IInv, call = Idle, alive, sock = <<>> PROVE subs = channels
    BY DEF InSync
  <2>1. Live /\ \A c : ~OnItsWay(c)
    BY DEF Live, Idle, OnItsWay, Has
  <2> QED
    BY <2>1 DEF IInv, ServerKnown, RestSettles
<1> QED
  BY <1>1, Inductive, PTL

(***************************************************************************)
(* get_message does not give up on subscriptions that exist, and does not  *)
(* wait for messages when there are none.                                  *)
(***************************************************************************)
THEOREM EventMatches == Spec => []FlagMatches
<1>1. IInv => FlagMatches
  BY DEF IInv, Event, FlagMatches
<1> QED
  BY <1>1, Inductive, PTL
=============================================================================
