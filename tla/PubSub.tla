------------------------------- MODULE PubSub -------------------------------
(***************************************************************************)
(* redis.client.PubSub used by one thread: what the server believes the    *)
(* client is subscribed to, against what the client believes.              *)
(*                                                                         *)
(* Channels stands for channels, patterns and shard channels alike: the    *)
(* three are handled by three copies of one piece of code.  The server may *)
(* close the connection at any time.  Health checks are off, which is the  *)
(* default.                                                                *)
(***************************************************************************)
EXTENDS Integers, Sequences, SequencesExt, FiniteSets

CONSTANTS
  Channels,
  MaxCalls,      \* bound: how many subscribe, unsubscribe and close calls
  MaxDrops,      \* bound: how many connections the server closes
  MaxReplies     \* bound: how many replies wait to be read

ASSUME PubSubAssumption ==
  /\ IsFiniteSet(Channels)
  /\ {MaxCalls, MaxDrops, MaxReplies} \subseteq Nat

VARIABLES
  alive,    \* the server has this connection
  subs,     \* what it is subscribed to there
  sock,     \* the replies and messages on their way to the client
  conn,     \* self.connection: "none", "up", or "down" after disconnect()
  channels, \* self.channels
  pending,  \* self.pending_unsubscribe_channels
  flag,     \* self.subscribed_event
  call,     \* the call that is being executed
  calls, drops

client == <<conn, channels, pending, flag>>
server == <<alive, subs, sock>>
vars == <<server, client, call, calls, drops>>

Idle == [pc |-> "idle", args |-> {}]

Init ==
  /\ alive = FALSE /\ subs = {} /\ sock = <<>>
  /\ conn = "none" /\ channels = {} /\ pending = {} /\ flag = FALSE
  /\ call = Idle
  /\ calls = 0 /\ drops = 0

Replies(type, chs) == SetToSeq({[type |-> type, channel |-> c] : c \in chs})
-----------------------------------------------------------------------------
(***************************************************************************)
(* The server and the other clients.                                       *)
(***************************************************************************)
\* A part of what is on its way may be lost with the connection.
Drop ==
  /\ alive /\ drops < MaxDrops /\ drops' = drops + 1
  /\ alive' = FALSE /\ subs' = {}
  /\ \E n \in 0..Len(sock) : sock' = SubSeq(sock, 1, n)
  /\ UNCHANGED <<client, call, calls>>

Publish(c) ==
  /\ alive /\ c \in subs /\ Len(sock) < MaxReplies
  /\ sock' = Append(sock, [type |-> "message", channel |-> c])
  /\ UNCHANGED <<alive, subs, client, call, calls, drops>>
-----------------------------------------------------------------------------
(***************************************************************************)
(* Connecting                                                              *)
(***************************************************************************)
\* Mutant: what was subscribed before stays unsubscribed.
ForgetsChannels ==
  /\ conn' = "up" /\ alive' = TRUE
  /\ pending' = {}
  /\ subs' = {} /\ sock' = <<>>
\* conn.connect() and then on_connect, from a place that does not hold the lock.
Connect ==
  /\ conn' = "up" /\ alive' = TRUE
  /\ pending' = {}
  /\ subs' = channels /\ sock' = Replies("subscribe", channels)

\* The same under self._lock.  With anything to subscribe to, on_connect's
\* execute_command asks for the lock that this thread holds.
ConnectUnderLock ==
  IF channels = {}
    THEN Connect /\ UNCHANGED call
    ELSE /\ call' = [call EXCEPT !.pc = "stuck"]
         /\ conn' = "up" /\ alive' = TRUE /\ subs' = {} /\ sock' = <<>>
         /\ pending' = {}
-----------------------------------------------------------------------------
(***************************************************************************)
(* subscribe, unsubscribe and close                                        *)
(***************************************************************************)
Called == call = Idle /\ calls < MaxCalls /\ calls' = calls + 1

\* execute_command takes a connection from the pool, and on_connect is
\* registered only after that connection was made.
TakeConnection ==
  IF conn = "none"
    THEN conn' = "up" /\ alive' = TRUE /\ subs' = {} /\ sock' = <<>>
    ELSE UNCHANGED <<conn, server>>

Subscribe(chs) ==
  /\ Called
  /\ call' = [pc |-> "subscribe", args |-> chs]
  /\ TakeConnection
  /\ UNCHANGED <<channels, pending, flag, drops>>

\* Without arguments it is about all channels.
Unsubscribe(chs) ==
  /\ Called
  /\ call' = [pc |-> "unsubscribe", args |-> chs]
  /\ pending' = pending \cup (IF chs = {} THEN channels ELSE chs)
  /\ TakeConnection
  /\ UNCHANGED <<channels, flag, drops>>

\* self.channels = {}
ResetChannels == channels' = {}

\* close(), __exit__, __del__: reset()
Close ==
  /\ Called /\ conn # "none"
  /\ conn' = "none" /\ alive' = FALSE /\ subs' = {} /\ sock' = <<>>
  /\ ResetChannels /\ pending' = {} /\ flag' = FALSE
  /\ UNCHANGED <<call, drops>>

\* What subscribe() does after the command was sent.
Recorded ==
  IF call.pc = "subscribe"
    THEN /\ channels' = channels \cup call.args
         /\ flag' = TRUE
         /\ pending' = pending \ call.args
    ELSE UNCHANGED <<channels, flag, pending>>

Sending == call.pc \in {"subscribe", "unsubscribe"}

\* The server answers once for each channel.
Sent ==
  /\ Sending /\ conn = "up" /\ alive
  /\ IF call.pc = "subscribe"
       THEN /\ subs' = subs \cup call.args
            /\ sock' = sock \o Replies("subscribe", call.args)
       ELSE LET gone == IF call.args = {} THEN subs ELSE call.args
            IN  /\ subs' = subs \ gone
                /\ sock' = sock \o Replies("unsubscribe", gone)
  /\ Recorded
  /\ call' = Idle
  /\ UNCHANGED <<alive, conn, calls, drops>>

\* The socket takes the command although the server has closed the connection.
SentInVain ==
  /\ Sending /\ conn = "up" /\ ~alive
  /\ Recorded
  /\ call' = Idle
  /\ UNCHANGED <<server, conn, calls, drops>>

\* send_command fails: _disconnect_raise_connect raises, or connects again when
\* the error is one of retry_on_error.
SendFails ==
  /\ Sending /\ conn = "up" /\ ~alive
  /\ \/ /\ conn' = "down" /\ sock' = <<>>
        /\ call' = Idle
        /\ UNCHANGED <<alive, subs, pending>>
     \/ ConnectUnderLock
  /\ UNCHANGED <<channels, flag, calls, drops>>

\* send_command connects first.
SendConnects ==
  /\ Sending /\ conn = "down"
  /\ ConnectUnderLock
  /\ UNCHANGED <<channels, flag, calls, drops>>
-----------------------------------------------------------------------------
(***************************************************************************)
(* get_message                                                             *)
(***************************************************************************)
MayRead == call = Idle /\ flag

\* can_read connects.
ReadConnects ==
  /\ MayRead /\ conn = "down"
  /\ Connect
  /\ UNCHANGED <<channels, flag, call, calls, drops>>

\* try_read fails: _disconnect_raise_connect.
ReadFails ==
  /\ MayRead /\ conn = "up" /\ ~alive
  /\ \/ /\ conn' = "down" /\ sock' = <<>>
        /\ UNCHANGED <<alive, subs, pending>>
     \/ Connect
  /\ UNCHANGED <<channels, flag, call, calls, drops>>

\* Mutant: the confirmation of an unsubscribe that a later subscribe overtook
\* is taken for a new one.
ForgetsAnyway(c) == channels' = channels \ {c} /\ pending' = pending \ {c}
\* if channel in self.pending_unsubscribe_channels
Forget(c) ==
  IF c \in pending
    THEN channels' = channels \ {c} /\ pending' = pending \ {c}
    ELSE UNCHANGED <<channels, pending>>

\* Mutant: the event stays set.
StaysSet == UNCHANGED flag
\* subscribed_event.clear()
ClearWhenEmpty == flag' = (flag /\ channels' # {})

\* handle_message
HandleMessage ==
  /\ MayRead /\ conn = "up" /\ sock # <<>>
  /\ sock' = Tail(sock)
  /\ IF Head(sock).type = "unsubscribe"
       THEN Forget(Head(sock).channel) /\ ClearWhenEmpty
       ELSE UNCHANGED <<channels, pending, flag>>
  /\ UNCHANGED <<alive, subs, conn, call, calls, drops>>

GetMessage == ReadConnects \/ ReadFails \/ HandleMessage
Send == Sent \/ SentInVain \/ SendFails \/ SendConnects
-----------------------------------------------------------------------------
Next ==
  \/ \E chs \in (SUBSET Channels) \ {{}} : Subscribe(chs)
  \/ \E chs \in SUBSET Channels : Unsubscribe(chs)
  \/ Close \/ Send \/ GetMessage
  \/ Drop \/ \E c \in Channels : Publish(c)

Spec == Init /\ [][Next]_vars

\* Every call goes on, and the thread keeps calling get_message.
FairSpec == Spec /\ WF_vars(Send) /\ WF_vars(GetMessage)
-----------------------------------------------------------------------------
Messages == [type : {"subscribe", "unsubscribe", "message"}, channel : Channels]

TypeOK ==
  /\ alive \in BOOLEAN /\ flag \in BOOLEAN
  /\ sock \in Seq(Messages)
  /\ subs \subseteq Channels /\ channels \subseteq Channels
  /\ pending \subseteq Channels
  /\ conn \in {"none", "up", "down"}
  /\ conn = "none" => ~alive /\ channels = {} /\ pending = {}
  /\ call \in [pc : {"idle", "subscribe", "unsubscribe", "stuck"}, args : SUBSET Channels]

\* Between two calls, when nothing is left to read, the client and the server
\* agree on the subscriptions, however calls, replies and reconnects were
\* interleaved.
InSync ==
  call = Idle /\ conn = "up" /\ alive /\ sock = <<>> => subs = channels

\* The event that get_message waits for is set when there are subscriptions.
FlagMatches == call = Idle => (flag <=> channels # {})

\* A lost connection is replaced and its subscriptions are made again, unless
\* the thread waits for itself.
Recovers ==
  (conn # "none" /\ channels # {})
    ~> \/ alive /\ channels \subseteq subs \cup pending
       \/ channels = {}
       \/ call.pc = "stuck"

\* No thread waits for a lock that it holds.
NeverWaitsForItself == call.pc # "stuck"
=============================================================================
