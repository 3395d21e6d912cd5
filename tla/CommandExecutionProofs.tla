----------------------- MODULE CommandExecutionProofs -----------------------
(***************************************************************************)
(* What execute_command guarantees for any number of callers, commands and *)
(* retries: the server executes a command at most once per attempt; and    *)
(* when no exception separates a send from its read, the socket carries at *)
(* most the command in progress, every answer belongs to the command it is *)
(* returned for, and the whole implements RemoteCall.                      *)
(***************************************************************************)
EXTENDS CommandExecution, FiniteSetTheorems, SequenceTheorems, TLAPS

(***************************************************************************)
(* The inductive invariant.                                                *)
(***************************************************************************)
Reading == {"hello_reply", "ping_reply", "read"}

\* The command whose reply the caller is waiting for.
Awaited ==
  CASE pc = "hello_reply" -> Handshake[step]
    [] pc = "ping_reply" -> Ping
    [] OTHER -> Current(owner)

\* The caller that has the connection is inside execute_command.
Owner ==
  /\ pc \in Labels
  /\ owner \in Threads \cup {None}
  /\ calling \in [Threads -> BOOLEAN]
  /\ count \in [Threads -> 0..MaxCalls]
  /\ outcome = [t \in Threads |-> outcome[t]]
  /\ pc = "idle" <=> owner = None
  /\ owner # None => calling[owner]
  /\ \A t \in Threads : calling[t] => count[t] > 0

\* Between two exchanges the socket is empty; during one it carries the
\* request, or the reply, or nothing because the server has gone.
Traffic ==
  /\ pc \notin Reading => requests = <<>> /\ replies = <<>>
  /\ pc \in Reading =>
       \/ requests = <<>> /\ replies = <<>>
       \/ requests = <<Awaited>> /\ replies = <<>>
       \/ /\ requests = <<>>
          /\ \E k \in Kinds : replies = <<[to |-> Awaited, kind |-> k]>>

IInv == Owner /\ Traffic /\ ReplyIsMine
-----------------------------------------------------------------------------

\* What Head, Tail and Append do on the short sequences a socket holds.
LEMMA OneElement ==
  ASSUME NEW x
  PROVE  /\ Head(<<x>>) = x
         /\ Tail(<<x>>) = <<>>
         /\ Append(<<>>, x) = <<x>>
         /\ <<x>> # <<>>
BY SMT

\* The only reply a caller can take from the socket is the one it awaits, and
\* the socket is empty afterwards.
LEMMA Consumed ==
  ASSUME Traffic, pc \in Reading, replies # <<>>
  PROVE  /\ requests = <<>>
         /\ Tail(replies) = <<>>
         /\ Reply.to = Awaited
<1>1. PICK k \in Kinds : replies = <<[to |-> Awaited, kind |-> k]>>
  BY DEF Traffic
<1>2. requests = <<>>
  BY <1>1 DEF Traffic
<1> DEFINE r == [to |-> Awaited, kind |-> k]
<1>3. Head(<<r>>) = r /\ Tail(<<r>>) = <<>>
  BY OneElement
<1>4. r.to = Awaited
  OBVIOUS
<1> QED
  BY <1>1, <1>2, <1>3, <1>4 DEF Reply

\* Every caller that has the connection gives it back when its call ends.
LEMMA OwnerStep ==
  ASSUME Owner, [Next]_vars
  PROVE  Owner'
<1> USE ExecutionAssumption DEF Owner, Labels, sockVars, retryVars, appVars
<1>1. ASSUME NEW t \in Threads, Invoke(t) PROVE Owner'
  BY <1>1 DEF Invoke
<1>2. ASSUME NEW t \in Threads, Acquire(t) PROVE Owner'
  BY <1>2 DEF Acquire
<1>3. CASE Verify
  BY <1>3 DEF Verify, Close, Throw
<1>4. CASE Dial
  BY <1>4 DEF Dial
<1>5. CASE DialFails
  BY <1>5 DEF DialFails, Throw
<1>6. CASE Hello
  BY <1>6 DEF Hello, Send, Break, Close, Throw
<1>7. CASE HelloReply
  BY <1>7 DEF HelloReply, Consume, ReadFails, Close, Throw
<1>8. CASE Attempt
  BY <1>8 DEF Attempt
<1>9. CASE Health
  BY <1>9 DEF Health
<1>10. CASE SendPing
  BY <1>10 DEF SendPing, Send, Break, Close, Throw
<1>11. CASE PingReply
  BY <1>11 DEF PingReply, Consume, ReadFails, Close, Throw
<1>12. CASE PingError
  BY <1>12 DEF PingError, Close
<1>13. CASE SendCommand
  BY <1>13 DEF SendCommand, Send, Break, Close, Throw
<1>14. CASE ReadReply
  BY <1>14 DEF ReadReply, Consume
<1>15. CASE ReadError
  BY <1>15 DEF ReadError, ReadFails, Close, Throw
<1>16. CASE HandleError
  BY <1>16 DEF HandleError, Close
<1>17. CASE RaiseError
  BY <1>17 DEF RaiseError
<1>18. CASE ServerExecutes
  BY <1>18 DEF ServerExecutes
<1>19. CASE ServerExecutesLate
  BY <1>19 DEF ServerExecutesLate
<1>20. CASE ServerCloses
  BY <1>20 DEF ServerCloses
<1>21. CASE UNCHANGED vars
  BY <1>21 DEF vars
<1>22. CASE Interrupted
  BY <1>22 DEF Interrupted, Throw
<1> QED
  BY <1>1, <1>2, <1>3, <1>4, <1>5, <1>6, <1>7, <1>8, <1>9, <1>10, <1>11,
     <1>12, <1>13, <1>14, <1>15, <1>16, <1>17, <1>18, <1>19, <1>20, <1>21,
     <1>22
  DEF Next, ClientStep

\* Whatever fails, an exchange that does not end with its reply ends with the
\* socket closed.
LEMMA TrafficStep ==
  ASSUME ~Interrupts, Owner, Traffic, [Next]_vars
  PROVE  Traffic'
<1> USE ExecutionAssumption DEF Owner, Labels, Traffic, Awaited, Reading, Current,
       sockVars, retryVars, appVars
<1>1. ASSUME NEW t \in Threads, Invoke(t) PROVE Traffic'
  BY <1>1 DEF Invoke
<1>2. ASSUME NEW t \in Threads, Acquire(t) PROVE Traffic'
  BY <1>2 DEF Acquire
<1>3. CASE Verify
  BY <1>3 DEF Verify, Close, Throw
<1>4. CASE Dial
  BY <1>4 DEF Dial
<1>5. CASE DialFails
  BY <1>5 DEF DialFails, Throw
<1>6. CASE Hello
  BY <1>6 DEF Hello, Send, Break, Close, Throw
<1>7. CASE HelloReply
  <2>1. CASE Consume /\ pc' = "hello"
    BY <1>7, <2>1, Consumed DEF HelloReply, Consume
  <2>2. CASE Close /\ pc' \notin Reading
    BY <2>2 DEF Close
  <2> QED
    BY <1>7, <2>1, <2>2 DEF HelloReply, ReadFails, Throw
<1>8. CASE Attempt
  BY <1>8 DEF Attempt
<1>9. CASE Health
  BY <1>9 DEF Health
<1>10. CASE SendPing
  BY <1>10 DEF SendPing, Send, Break, Close, Throw
<1>11. CASE PingReply
  <2>1. CASE Consume /\ pc' \notin Reading
    BY <1>11, <2>1, Consumed DEF PingReply, Consume
  <2>2. CASE Close /\ pc' \notin Reading
    BY <2>2 DEF Close
  <2> QED
    BY <1>11, <2>1, <2>2 DEF PingReply, ReadFails, Throw
<1>12. CASE PingError
  BY <1>12 DEF PingError, Close
<1>13. CASE SendCommand
  <2>1. CASE Send(Current(owner)) /\ pc' = "read"
    <3>1. requests = <<>> /\ replies = <<>>
      BY <1>13 DEF SendCommand
    <3>2. Awaited' = Current(owner)
      BY <1>13, <2>1 DEF SendCommand
    <3>3. Append(requests, Current(owner)) = <<Current(owner)>>
      BY <3>1, OneElement
    <3>4. requests' \in {<<>>, <<Awaited'>>} /\ replies' = <<>>
      BY <2>1, <3>1, <3>2, <3>3 DEF Send
    <3> QED
      BY ONLY <2>1, <3>4 DEF Traffic, Reading
  <2>2. CASE Break
    BY <2>2 DEF Break, Close, Throw
  <2> QED
    BY <1>13, <2>1, <2>2 DEF SendCommand
<1>14. CASE ReadReply
  BY <1>14, Consumed DEF ReadReply, Consume
<1>15. CASE ReadError
  BY <1>15 DEF ReadError, ReadFails, Close, Throw
<1>16. CASE HandleError
  BY <1>16 DEF HandleError, Close
<1>17. CASE RaiseError
  BY <1>17 DEF RaiseError
<1>18. CASE ServerExecutes
  <2>1. requests = <<Awaited>> /\ replies = <<>> /\ pc \in Reading
    BY <1>18 DEF ServerExecutes
  <2>2. Awaited' = Awaited /\ pc' = pc
    BY <1>18 DEF ServerExecutes
  <2>3. Head(requests) = Awaited /\ Tail(requests) = <<>>
    BY <2>1, OneElement
  <2>4. PICK k \in Kinds : replies' = Append(replies, [to |-> Awaited, kind |-> k])
    BY <1>18, <2>3 DEF ServerExecutes
  <2>5. replies' = <<[to |-> Awaited, kind |-> k]>>
    BY <2>1, <2>4, OneElement
  <2>6. requests' = <<>>
    BY <1>18, <2>3 DEF ServerExecutes
  <2> QED
    BY ONLY <2>1, <2>2, <2>5, <2>6, k \in Kinds DEF Traffic
<1>19. CASE ServerExecutesLate
  BY <1>19 DEF ServerExecutesLate
<1>20. CASE ServerCloses
  BY <1>20 DEF ServerCloses
<1>21. CASE UNCHANGED vars
  BY <1>21 DEF vars
<1>22. ~Interrupted
  BY DEF Interrupted
<1> QED
  BY <1>1, <1>2, <1>3, <1>4, <1>5, <1>6, <1>7, <1>8, <1>9, <1>10, <1>11,
     <1>12, <1>13, <1>14, <1>15, <1>16, <1>17, <1>18, <1>19, <1>20, <1>21,
     <1>22
  DEF Next, ClientStep

\* The reply that is read is the one that was awaited.
LEMMA ReplyStep ==
  ASSUME ~Interrupts, Owner, Traffic, ReplyIsMine, [Next]_vars
  PROVE  ReplyIsMine'
<1> USE ExecutionAssumption DEF Owner, Labels, Traffic, Awaited, Reading, Current,
       ReplyIsMine, sockVars, retryVars, appVars
<1>1. ASSUME NEW t \in Threads, Invoke(t) PROVE ReplyIsMine'
  BY <1>1 DEF Invoke
<1>2. ASSUME NEW t \in Threads, Acquire(t) PROVE ReplyIsMine'
  BY <1>2 DEF Acquire
<1>3. CASE Verify
  BY <1>3 DEF Verify, Close, Throw
<1>4. CASE Dial
  BY <1>4 DEF Dial
<1>5. CASE DialFails
  BY <1>5 DEF DialFails, Throw
<1>6. CASE Hello
  BY <1>6 DEF Hello, Send, Break, Close, Throw
<1>7. CASE HelloReply
  BY <1>7 DEF HelloReply, Consume, ReadFails, Close, Throw
<1>8. CASE Attempt
  BY <1>8 DEF Attempt
<1>9. CASE Health
  BY <1>9 DEF Health
<1>10. CASE SendPing
  BY <1>10 DEF SendPing, Send, Break, Close, Throw
<1>11. CASE PingReply
  BY <1>11 DEF PingReply, Consume, ReadFails, Close, Throw
<1>12. CASE PingError
  BY <1>12 DEF PingError, Close
<1>13. CASE SendCommand
  BY <1>13 DEF SendCommand, Send, Break, Close, Throw
<1>14. CASE ReadReply
  <2>1. Reply.to = Current(owner) /\ owner \in Threads
    <3>1. pc = "read" /\ replies # <<>>
      BY <1>14 DEF ReadReply, Consume
    <3> QED
      BY <3>1, Consumed
  <2>2. outcome' = [outcome EXCEPT ![owner] = Current(owner)]
    BY <1>14, <2>1 DEF ReadReply
  <2>3. calling' = [calling EXCEPT ![owner] = FALSE] /\ count' = count
    BY <1>14 DEF ReadReply
  <2> QED
    BY <2>1, <2>2, <2>3
<1>15. CASE ReadError
  BY <1>15 DEF ReadError, ReadFails, Close, Throw
<1>16. CASE HandleError
  BY <1>16 DEF HandleError, Close
<1>17. CASE RaiseError
  BY <1>17 DEF RaiseError
<1>18. CASE ServerExecutes
  BY <1>18 DEF ServerExecutes
<1>19. CASE ServerExecutesLate
  BY <1>19 DEF ServerExecutesLate
<1>20. CASE ServerCloses
  BY <1>20 DEF ServerCloses
<1>21. CASE UNCHANGED vars
  BY <1>21 DEF vars
<1>22. ~Interrupted
  BY DEF Interrupted
<1> QED
  BY <1>1, <1>2, <1>3, <1>4, <1>5, <1>6, <1>7, <1>8, <1>9, <1>10, <1>11,
     <1>12, <1>13, <1>14, <1>15, <1>16, <1>17, <1>18, <1>19, <1>20, <1>21,
     <1>22
  DEF Next, ClientStep

\* The inductive invariant holds in every reachable state.
LEMMA Invariance ==
  ASSUME ~Interrupts
  PROVE  Spec => []IInv
<1>1. Init => IInv
  BY ExecutionAssumption DEF Init, IInv, Owner, Traffic, ReplyIsMine, Labels, Reading
<1>2. IInv /\ [Next]_vars => IInv'
  BY OwnerStep, TrafficStep, ReplyStep DEF IInv
<1> QED
  BY <1>1, <1>2, PTL DEF Spec
-----------------------------------------------------------------------------

\* For any number of callers and any retry policy, execute_command returns the
\* reply to the command it was called with.
THEOREM EveryReplyIsMine ==
  ASSUME ~Interrupts
  PROVE  Spec => []ReplyIsMine
<1>1. IInv => ReplyIsMine
  BY DEF IInv
<1> QED
  BY <1>1, Invariance, PTL

\* A connection that is given back, after a reply or after any error, has
\* nothing in its socket.
THEOREM ReturnedConnectionIsClean ==
  ASSUME ~Interrupts
  PROVE  Spec => []IdleIsClean
<1>1. IInv => IdleIsClean
  BY DEF IInv, Owner, Traffic, Reading, IdleIsClean
<1> QED
  BY <1>1, Invariance, PTL

\* The socket of a caller that waits carries its command, or the reply to it,
\* and nothing else: no PING, no handshake reply, no earlier command.
THEOREM OnlyOneInFlight ==
  ASSUME ~Interrupts
  PROVE  Spec => []OneInFlight
<1>1. IInv => OneInFlight
  <2> SUFFICES ASSUME IInv, pc = "read" PROVE OneInFlight!2
    BY DEF OneInFlight
  <2>1. Awaited = Current(owner)
    BY DEF Awaited
  <2>2. CASE requests = <<>> /\ replies = <<>>
    BY <2>2
  <2>3. CASE requests = <<Awaited>> /\ replies = <<>>
    BY <2>1, <2>3
  <2>4. CASE /\ requests = <<>>
             /\ \E k \in Kinds : replies = <<[to |-> Awaited, kind |-> k]>>
    BY <2>1, <2>4
  <2> QED
    BY <2>2, <2>3, <2>4 DEF IInv, Traffic, Reading
<1> QED
  BY <1>1, Invariance, PTL
-----------------------------------------------------------------------------
(***************************************************************************)
(* How often a command is executed, interrupted or not.                    *)
(*                                                                         *)
(* What is bounded is not the executions but the sends: a command that was *)
(* sent may be executed now, wait in the socket, or come late.             *)
(***************************************************************************)
\* The counters of the nested calls of call_with_retry, and where each of them
\* is still below its limit.
Counters ==
  /\ open \in BOOLEAN /\ alive \in BOOLEAN
  /\ ctx \in Contexts /\ error \in Errors
  /\ step \in 1..3 /\ (pc = "hello_reply" => step <= 2)
  /\ failures \in 0..(Retries + 1)
  /\ pings \in 0..(Retries + 1) /\ (ctx = "ping" => pings <= Retries)
  /\ dials \in 0..(Retries + 1) /\ (pc = "dial" => dials <= Retries)
  /\ pc = "ping_error" => ctx = "ping"
  /\ pc \in {"attempt", "health", "send", "read", "error"} => ctx = "command"
  /\ pc \notin {"idle", "raise"} => failures < Attempts

Queues ==
  /\ requests \in Seq(Wire)
  /\ replies \in Seq([to : Wire, kind : Kinds])
  /\ late \in [Commands -> Nat]
  /\ effects \in [Commands -> Nat]

Sends(c) == effects[c] + late[c] + Occurrences(requests, c)

\* A command that waits for its turn was never sent, one that is on its turn
\* once for each counted failure and once more after the send.
Account(t, n) ==
  /\ Sends(<<t, n>>) <= Attempts
  /\ n > count[t] => Sends(<<t, n>>) = 0
  /\ n = count[t] /\ calling[t] /\ owner # t => Sends(<<t, n>>) = 0
  /\ n = count[t] /\ owner = t /\ pc \notin {"read", "error", "raise"}
       => Sends(<<t, n>>) <= failures
  /\ n = count[t] /\ owner = t /\ pc \in {"read", "error"}
       => Sends(<<t, n>>) <= failures + 1

Budget == \A t \in Threads, n \in 1..MaxCalls : Account(t, n)

Accounts == Owner /\ Counters /\ Queues /\ Budget
-----------------------------------------------------------------------------
LEMMA AttemptsLemma ==
  /\ Attempts \in Nat \ {0}
  /\ Attempts <= Retries + 1
  /\ \A e \in RetryOn : Attempts = Retries + 1
  BY ExecutionAssumption DEF Attempts

\* The handshake has two commands, and neither they nor PING are a caller's.
LEMMA HandshakeLemma ==
  /\ Len(Handshake) = 2
  /\ Handshake[1] \in Wire \ Commands /\ Handshake[2] \in Wire \ Commands
  /\ Ping \in Wire \ Commands
<1>1. Len(Handshake) = 2
  BY DEF Handshake
<1>2. Handshake[1] \in Wire /\ Handshake[2] \in Wire /\ Ping \in Wire
  BY <1>1 DEF Wire
<1>3. \A c \in Commands : c[2] # 0
  BY ExecutionAssumption DEF Commands
<1>4. Handshake[1][2] = 0 /\ Handshake[2][2] = 0 /\ Ping[2] = 0
  BY DEF Handshake, Ping
<1> QED
  BY <1>1, <1>2, <1>3, <1>4

\* Every retry is counted, and a counter past its limit is not used again.
LEMMA CountersStep ==
  ASSUME Owner, Counters, [Next]_vars
  PROVE  Counters'
<1> USE ExecutionAssumption, AttemptsLemma, HandshakeLemma
        DEF Owner, Labels, Counters, Contexts, Errors, Lenient,
            sockVars, retryVars, appVars
<1>0. Retries \in Nat
  OBVIOUS
<1>1. ASSUME NEW t \in Threads, Invoke(t) PROVE Counters'
  BY <1>1 DEF Invoke
<1>2. ASSUME NEW t \in Threads, Acquire(t) PROVE Counters'
  BY <1>2 DEF Acquire
<1>3. CASE Verify
  <2>1. CASE pc' = "attempt" /\ ctx' = "command" /\ UNCHANGED <<sockVars, dials, error>>
    BY <1>3, <2>1 DEF Verify
  <2>2. CASE Close /\ ctx' = "reget" /\ pc' = "dial" /\ dials' = 0 /\ UNCHANGED error
    <3>1. open' = FALSE /\ alive' = FALSE
      BY <2>2 DEF Close
    <3>2. UNCHANGED <<step, failures, pings>> /\ pc = "verify"
      BY <1>3 DEF Verify
    <3>3. dials' \in 0..(Retries + 1) /\ dials' <= Retries
      BY <2>2, <1>0
    <3>4. failures' < Attempts
      BY <3>2
    <3>5. ctx' = "reget" /\ pc' = "dial" /\ error' = error
      BY <2>2
    <3> QED
      BY ONLY <3>1, <3>2, <3>3, <3>4, <3>5, Counters DEF Counters, Contexts
  <2>3. CASE ctx = "reget" /\ Throw("conn") /\ UNCHANGED <<sockVars, ctx, dials>>
    BY <1>3, <2>3 DEF Verify, Throw
  <2> QED
    BY <1>3, <2>1, <2>2, <2>3 DEF Verify
<1>4. CASE Dial
  BY <1>4 DEF Dial
<1>5. CASE DialFails
  BY <1>5 DEF DialFails, Throw
<1>6. CASE Hello
  BY <1>6 DEF Hello, Send, Break, Close, Throw
<1>7. CASE HelloReply
  <2>1. CASE Consume /\ step' = step + 1 /\ pc' = "hello" /\ UNCHANGED error
    BY <1>7, <2>1 DEF HelloReply, Consume
  <2>2. CASE Close /\ UNCHANGED step /\ \E e \in Errors : Throw(e)
    BY <1>7, <2>2 DEF HelloReply, Close, Throw
  <2>3. \/ Close /\ UNCHANGED step /\ \E e \in Errors : Throw(e)
        \/ Consume /\ step' = step + 1 /\ pc' = "hello" /\ UNCHANGED error
    BY <1>7 DEF HelloReply, ReadFails
  <2> QED
    BY <2>1, <2>2, <2>3
<1>8. CASE Attempt
  BY <1>8 DEF Attempt
<1>9. CASE Health
  BY <1>9 DEF Health
<1>10. CASE SendPing
  <2>1. CASE Send(Ping) /\ pc' = "ping_reply" /\ UNCHANGED <<dials, error>>
    BY <1>10, <2>1 DEF SendPing, Send
  <2>2. CASE Break /\ UNCHANGED dials
    BY <1>10, <2>2 DEF SendPing, Break, Close, Throw
  <2>3. CASE pc' = "dial" /\ dials' = 0 /\ UNCHANGED <<sockVars, error>>
    BY <1>10, <2>3 DEF SendPing
  <2> QED
    BY <1>10, <2>1, <2>2, <2>3 DEF SendPing
<1>11. CASE PingReply
  BY <1>11 DEF PingReply, Consume, ReadFails, Close, Throw
<1>12. CASE PingError
  <2>1. CASE /\ pings' = pings + 1
             /\ Close
             /\ IF pings + 1 > Retries
                  THEN pc' = "error" /\ ctx' = "command"
                  ELSE pc' = "ping" /\ UNCHANGED ctx
    <3>1. open' = FALSE /\ alive' = FALSE
      BY <2>1 DEF Close
    <3>2. UNCHANGED <<step, failures, dials, error>> /\ pc = "ping_error"
      BY <1>12 DEF PingError
    <3>3. ctx = "ping" /\ pings <= Retries
      BY <3>2
    <3>4. pings' \in 0..(Retries + 1) /\ (ctx' = "ping" => pings' <= Retries)
      BY <2>1, <3>3, <1>0
    <3>5. ctx' \in Contexts /\ pc' \in {"error", "ping"}
          /\ (pc' = "error" => ctx' = "command")
      BY <2>1
    <3> QED
      BY <3>1, <3>2, <3>4, <3>5
  <2>2. CASE pc' = "error" /\ ctx' = "command" /\ UNCHANGED <<sockVars, pings>>
    BY <1>12, <2>2 DEF PingError
  <2> QED
    BY <1>12, <2>1, <2>2 DEF PingError
<1>13. CASE SendCommand
  BY <1>13 DEF SendCommand, Send, Break, Close, Throw
<1>14. CASE ReadReply
  BY <1>14 DEF ReadReply, Consume
<1>15. CASE ReadError
  BY <1>15 DEF ReadError, ReadFails, Close, Throw
<1>16. CASE Interrupted
  BY <1>16 DEF Interrupted, Throw
<1>17. CASE HandleError
  <2>1. /\ pc' \in {"raise", "attempt"} /\ ctx = "command"
        /\ UNCHANGED <<ctx, step, pings, dials, error>>
    BY <1>17 DEF HandleError
  <2>2. open' \in BOOLEAN /\ alive' \in BOOLEAN
    BY <1>17 DEF HandleError, Close
  <2>3. failures' \in 0..(Retries + 1)
    BY <1>17, <1>0 DEF HandleError
  <2>4. ASSUME pc' = "attempt" PROVE failures' < Attempts
    <3>1. error \in RetryOn /\ failures' = failures + 1 /\ ~(failures + 1 > Retries)
      BY <1>17, <2>4 DEF HandleError
    <3>2. Attempts = Retries + 1
      BY <3>1
    <3> QED
      BY <3>1, <3>2, <1>0
  <2> QED
    BY <2>1, <2>2, <2>3, <2>4
<1>18. CASE RaiseError
  BY <1>18 DEF RaiseError
<1>19. CASE ServerExecutes
  BY <1>19 DEF ServerExecutes
<1>20. CASE ServerExecutesLate
  BY <1>20 DEF ServerExecutesLate
<1>21. CASE ServerCloses
  BY <1>21 DEF ServerCloses
<1>22. CASE UNCHANGED vars
  BY <1>22 DEF vars
<1> QED
  BY <1>1, <1>2, <1>3, <1>4, <1>5, <1>6, <1>7, <1>8, <1>9, <1>10, <1>11, <1>12,
     <1>13, <1>14, <1>15, <1>16, <1>17, <1>18, <1>19, <1>20, <1>21, <1>22
  DEF Next, ClientStep
-----------------------------------------------------------------------------
\* How the number of times a command is in a queue changes with the queue.
Positions(s, c) == {i \in 1..Len(s) : s[i] = c}

LEMMA OccurrencesAre ==
  ASSUME NEW s, NEW c
  PROVE  Occurrences(s, c) = Cardinality(Positions(s, c))
BY DEF Occurrences, Positions

LEMMA OccurrencesType ==
  ASSUME NEW s \in Seq(Wire), NEW c
  PROVE  IsFiniteSet(Positions(s, c)) /\ Occurrences(s, c) \in Nat
<1>1. Len(s) \in Nat /\ IsFiniteSet(1..Len(s))
  BY FS_Interval, LenProperties
<1>2. IsFiniteSet(Positions(s, c))
  <2>1. Positions(s, c) \in SUBSET (1..Len(s))
    BY DEF Positions
  <2> QED
    BY <1>1, <2>1, FS_Subset
<1> QED
  BY <1>2, FS_CardinalityType, OccurrencesAre

LEMMA OccurrencesEmpty ==
  ASSUME NEW c
  PROVE  Occurrences(<<>>, c) = 0
<1>1. {i \in 1..Len(<<>>) : <<>>[i] = c} = {}
  OBVIOUS
<1> QED
  BY <1>1, FS_EmptySet DEF Occurrences

LEMMA OccurrencesAppend ==
  ASSUME NEW s \in Seq(Wire), NEW r \in Wire, NEW c
  PROVE  Occurrences(Append(s, r), c) = Occurrences(s, c) + (IF r = c THEN 1 ELSE 0)
<1> DEFINE a == Append(s, r)
           n == Len(s) + 1
<1>1. Len(s) \in Nat /\ Len(a) = n /\ a[n] = r /\ \A i \in 1..Len(s) : a[i] = s[i]
  BY AppendProperties, LenProperties
<1>2. IsFiniteSet(Positions(s, c)) /\ Occurrences(s, c) \in Nat
  BY OccurrencesType
<1>3. n \notin Positions(s, c)
  BY <1>1 DEF Positions
<1>4. CASE r = c
  <2>1. Positions(a, c) = Positions(s, c) \cup {n}
    BY <1>1, <1>4 DEF Positions
  <2>2. Cardinality(Positions(s, c) \cup {n}) = Cardinality(Positions(s, c)) + 1
    BY <1>2, <1>3, FS_AddElement
  <2> QED
    BY <1>2, <1>4, <2>1, <2>2, OccurrencesAre
<1>5. CASE r # c
  <2>1. Positions(a, c) = Positions(s, c)
    BY <1>1, <1>5 DEF Positions
  <2> QED
    BY <1>2, <1>5, <2>1, OccurrencesAre
<1> QED
  BY <1>4, <1>5

LEMMA OccurrencesTail ==
  ASSUME NEW s \in Seq(Wire), s # <<>>, NEW c
  PROVE  Occurrences(s, c) = Occurrences(Tail(s), c) + (IF Head(s) = c THEN 1 ELSE 0)
<1> DEFINE P == Positions(s, c) \ {1}
           Q == Positions(Tail(s), c)
           shift == [i \in Q |-> i + 1]
<1>1. /\ Tail(s) \in Seq(Wire) /\ Len(s) \in Nat \ {0}
      /\ Len(Tail(s)) = Len(s) - 1
      /\ \A i \in 1..Len(Tail(s)) : Tail(s)[i] = s[i + 1]
      /\ s[1] = Head(s)
  BY HeadTailProperties, EmptySeq
<1>2. IsFiniteSet(Positions(s, c)) /\ Occurrences(s, c) \in Nat
  BY OccurrencesType
<1>3. IsFiniteSet(Q) /\ Occurrences(Tail(s), c) \in Nat
  BY <1>1, OccurrencesType
<1>4. Cardinality(P) = Cardinality(Q)
  <2>1. shift \in [Q -> P]
    BY <1>1 DEF Positions
  <2>2. \A i, j \in Q : shift[i] = shift[j] => i = j
    BY <1>1 DEF Positions
  <2>3. \A p \in P : \E i \in Q : shift[i] = p
    <3>1. SUFFICES ASSUME NEW p \in P PROVE \E i \in Q : shift[i] = p
      OBVIOUS
    <3>2. p \in 2..Len(s) /\ s[p] = c
      BY <1>1 DEF Positions
    <3>3. p - 1 \in Q /\ (p - 1) + 1 = p
      BY <1>1, <3>2 DEF Positions
    <3> QED
      BY <3>3
  <2> HIDE DEF P, Q, shift
  <2>4. shift \in Bijection(Q, P)
    <3>1. shift \in Injection(Q, P)
      BY <2>1, <2>2 DEF Injection, IsInjective
    <3>2. shift \in Surjection(Q, P)
      BY <2>1, <2>3 DEF Surjection
    <3> QED
      BY <3>1, <3>2 DEF Bijection
  <2>5. ExistsBijection(Q, P)
    BY <2>4 DEF ExistsBijection
  <2> QED
    BY <1>3, <2>5, FS_Bijection
<1>5. CASE Head(s) = c
  <2>1. 1 \in Positions(s, c)
    BY <1>1, <1>5 DEF Positions
  <2>2. Cardinality(P) = Cardinality(Positions(s, c)) - 1
    BY <1>2, <2>1, FS_RemoveElement
  <2> QED
    BY <1>2, <1>3, <1>4, <1>5, <2>2, OccurrencesAre
<1>6. CASE Head(s) # c
  <2>1. P = Positions(s, c)
    BY <1>1, <1>6 DEF Positions
  <2> QED
    <3>1. Cardinality(Positions(s, c)) = Cardinality(Q)
      BY ONLY <1>4, <2>1
    <3> QED
      BY <1>2, <1>3, <1>6, <3>1, OccurrencesAre
<1> QED
  BY <1>5, <1>6
-----------------------------------------------------------------------------
(***************************************************************************)
(* What one step does to the queues: nothing but the reading of a reply, a *)
(* close, a send, or a step of the server.                                 *)
(***************************************************************************)
Rests == UNCHANGED <<requests, late, effects>> /\ (UNCHANGED replies \/ Consume)
Closes == Close /\ UNCHANGED effects
SendsOther == UNCHANGED effects /\ \E r \in Wire \ Commands : Send(r)
SendsOwn ==
  /\ pc = "send" /\ pc' = "read"
  /\ Send(Current(owner))
  /\ UNCHANGED <<effects, owner, count, calling, failures>>

LEMMA FlowStep ==
  ASSUME Owner, Counters, [Next]_vars
  PROVE  Rests \/ Closes \/ SendsOther \/ SendsOwn
           \/ ServerExecutes \/ ServerExecutesLate \/ ServerCloses
<1> USE DEF sockVars, retryVars, appVars
<1>1. ASSUME NEW t \in Threads, Invoke(t) PROVE Rests
  BY <1>1 DEF Invoke, Rests
<1>2. ASSUME NEW t \in Threads, Acquire(t) PROVE Rests
  BY <1>2 DEF Acquire, Rests
<1>3. CASE Verify
  BY <1>3 DEF Verify, Rests, Closes
<1>4. CASE Dial
  BY <1>4 DEF Dial, Rests
<1>5. CASE DialFails
  BY <1>5 DEF DialFails, Rests
<1>6. CASE Hello
  <2>1. ASSUME step <= Len(Handshake) PROVE Handshake[step] \in Wire \ Commands
    BY <2>1, HandshakeLemma DEF Counters
  <2> QED
    BY <1>6, <2>1 DEF Hello, Break, Rests, Closes, SendsOther
<1>7. CASE HelloReply
  BY <1>7 DEF HelloReply, ReadFails, Consume, Rests, Closes
<1>8. CASE Attempt
  BY <1>8 DEF Attempt, Rests
<1>9. CASE Health
  BY <1>9 DEF Health, Rests
<1>10. CASE SendPing
  BY <1>10, HandshakeLemma DEF SendPing, Break, Rests, Closes, SendsOther
<1>11. CASE PingReply
  BY <1>11 DEF PingReply, ReadFails, Consume, Rests, Closes
<1>12. CASE PingError
  BY <1>12 DEF PingError, Rests, Closes
<1>13. CASE SendCommand
  BY <1>13 DEF SendCommand, Break, Closes, SendsOwn
<1>14. CASE ReadReply
  BY <1>14 DEF ReadReply, Consume, Rests
<1>15. CASE ReadError
  BY <1>15 DEF ReadError, ReadFails, Closes
<1>16. CASE Interrupted
  BY <1>16 DEF Interrupted, Rests
<1>17. CASE HandleError
  BY <1>17 DEF HandleError, Rests, Closes
<1>18. CASE RaiseError
  BY <1>18 DEF RaiseError, Rests
<1>19. CASE UNCHANGED vars
  BY <1>19 DEF vars, Rests
<1> QED
  BY <1>1, <1>2, <1>3, <1>4, <1>5, <1>6, <1>7, <1>8, <1>9, <1>10, <1>11, <1>12,
     <1>13, <1>14, <1>15, <1>16, <1>17, <1>18, <1>19
  DEF Next, ClientStep

\* The command of the caller that has the connection.
LEMMA OwnCommand ==
  ASSUME Owner, owner # None
  PROVE  owner \in Threads /\ Current(owner) \in Commands /\ Current(owner) \in Wire
BY ExecutionAssumption DEF Owner, Current, Commands, Wire

LEMMA QueuesStep ==
  ASSUME Owner, Counters, Queues, [Next]_vars
  PROVE  Queues'
<1> DEFINE Answers == [to : Wire, kind : Kinds]
<1>0. Commands \subseteq Wire /\ <<>> \in Seq(Wire) /\ <<>> \in Seq(Answers)
  BY EmptySeq DEF Wire
<1>1. CASE Rests
  <2>1. replies' \in Seq(Answers)
    <3>1. CASE UNCHANGED replies
      BY <3>1 DEF Queues
    <3>2. CASE Consume
      BY <3>2, HeadTailProperties DEF Consume, Queues
    <3> QED
      BY <1>1, <3>1, <3>2 DEF Rests
  <2> QED
    BY <1>1, <2>1 DEF Rests, Queues
<1>2. CASE Closes
  <2>1. \A c \in Commands : Occurrences(requests, c) \in Nat
    BY OccurrencesType DEF Queues
  <2>2. late' \in [Commands -> Nat]
    BY <1>2, <2>1 DEF Closes, Close, Queues
  <2> QED
    BY <1>0, <1>2, <2>2 DEF Closes, Close, Queues
<1>3. ASSUME NEW r \in Wire, Send(r), UNCHANGED effects PROVE Queues'
  <2>1. Append(requests, r) \in Seq(Wire)
    BY AppendProperties DEF Queues
  <2> QED
    BY <1>3, <2>1 DEF Send, Queues
<1>4. CASE SendsOther
  BY <1>3, <1>4 DEF SendsOther
<1>5. CASE SendsOwn
  <2>1. Current(owner) \in Wire
    BY <1>5, OwnCommand DEF SendsOwn, Owner
  <2> QED
    BY <1>3, <1>5, <2>1 DEF SendsOwn
<1>6. CASE ServerExecutes
  <2>1. Head(requests) \in Wire /\ requests' \in Seq(Wire)
    BY <1>6, HeadTailProperties DEF ServerExecutes, Queues
  <2>2. PICK k \in Kinds : replies' = Append(replies, [to |-> Head(requests), kind |-> k])
    BY <1>6 DEF ServerExecutes
  <2>3. [to |-> Head(requests), kind |-> k] \in Answers
    BY <2>1
  <2>4. replies' \in Seq(Answers)
    BY <2>2, <2>3, AppendProperties DEF Queues
  <2>5. effects' \in [Commands -> Nat]
    BY <1>6 DEF ServerExecutes, Executed, Queues
  <2> QED
    BY <1>6, <2>1, <2>4, <2>5 DEF ServerExecutes, Queues
<1>7. CASE ServerExecutesLate
  <2>1. late' \in [Commands -> Nat] /\ effects' \in [Commands -> Nat]
    BY <1>7 DEF ServerExecutesLate, Executed, Queues
  <2> QED
    BY <1>7, <2>1 DEF ServerExecutesLate, Queues
<1>8. CASE ServerCloses
  BY <1>0, <1>8 DEF ServerCloses, Queues
<1> QED
  BY <1>1, <1>2, <1>4, <1>5, <1>6, <1>7, <1>8, FlowStep

\* Only a send of the command adds to its sends: executing a request, or losing
\* or orphaning it, moves it or takes it away.
LEMMA SendsStep ==
  ASSUME Owner, Counters, Queues, [Next]_vars, NEW c \in Commands
  PROVE  /\ Sends(c) \in Nat /\ Sends(c)' \in Nat
         /\ \/ Sends(c)' <= Sends(c)
            \/ SendsOwn /\ c = Current(owner) /\ Sends(c)' <= Sends(c) + 1
<1> DEFINE o == Occurrences(requests, c)
<1>1. effects[c] \in Nat /\ late[c] \in Nat /\ o \in Nat
  BY OccurrencesType DEF Queues
<1>2. effects'[c] \in Nat /\ late'[c] \in Nat /\ o' \in Nat
  <2>1. Queues'
    BY QueuesStep
  <2>2. requests' \in Seq(Wire)
    BY <2>1 DEF Queues
  <2>3. Occurrences(requests', c) \in Nat
    BY <2>2, OccurrencesType
  <2> QED
    BY <2>1, <2>3 DEF Queues
<1>3. /\ Sends(c) = effects[c] + late[c] + o
      /\ Sends(c)' = effects'[c] + late'[c] + o'
  BY DEF Sends
<1> HIDE DEF o
<1>4. Sends(c) \in Nat /\ Sends(c)' \in Nat
  BY <1>1, <1>2, <1>3
<1>5. CASE Rests
  BY <1>1, <1>3, <1>5 DEF Rests, o
<1>6. CASE Closes
  <2>1. effects'[c] = effects[c] /\ late'[c] = late[c] + o
    BY <1>6 DEF Closes, Close, o
  <2>2. o' = 0
    BY <1>6, OccurrencesEmpty DEF Closes, Close, o
  <2> QED
    BY <1>1, <1>3, <2>1, <2>2
<1>7. ASSUME NEW r \in Wire, Send(r), UNCHANGED effects
      PROVE  Sends(c)' <= Sends(c) + (IF r = c THEN 1 ELSE 0)
  <2>1. effects'[c] = effects[c] /\ late'[c] = late[c]
    BY <1>7 DEF Send
  <2>2. o' \in {o, o + (IF r = c THEN 1 ELSE 0)}
    BY <1>7, OccurrencesAppend DEF Send, Queues, o
  <2> QED
    BY <1>1, <1>3, <2>1, <2>2
<1>8. CASE SendsOther
  <2>1. PICK r \in Wire \ Commands : Send(r) /\ UNCHANGED effects
    BY <1>8 DEF SendsOther
  <2>2. r # c
    OBVIOUS
  <2>3. Sends(c)' <= Sends(c) + (IF r = c THEN 1 ELSE 0)
    BY <1>7, <2>1
  <2> QED
    BY <1>4, <2>2, <2>3
<1>9. CASE SendsOwn
  <2>1. Current(owner) \in Wire
    BY <1>9, OwnCommand DEF SendsOwn, Owner
  <2>2. Sends(c)' <= Sends(c) + (IF Current(owner) = c THEN 1 ELSE 0)
    BY <1>7, <1>9, <2>1 DEF SendsOwn
  <2> QED
    BY <1>4, <1>9, <2>2
<1>10. CASE ServerExecutes
  <2>1. effects'[c] = effects[c] + (IF Head(requests) = c THEN 1 ELSE 0)
    BY <1>10 DEF ServerExecutes, Executed
  <2>2. late'[c] = late[c]
    BY <1>10 DEF ServerExecutes
  <2>3. o = o' + (IF Head(requests) = c THEN 1 ELSE 0)
    BY <1>10, OccurrencesTail DEF ServerExecutes, Queues, o
  <2> QED
    BY <1>1, <1>2, <1>3, <2>1, <2>2, <2>3
<1>11. CASE ServerExecutesLate
  <2>1. PICK d \in Commands : /\ late[d] > 0
                              /\ late' = [late EXCEPT ![d] = @ - 1]
                              /\ Executed(d)
    BY <1>11 DEF ServerExecutesLate
  <2>2. effects'[c] = effects[c] + (IF d = c THEN 1 ELSE 0)
    BY <2>1 DEF Executed
  <2>3. late'[c] = late[c] - (IF d = c THEN 1 ELSE 0)
    BY <1>1, <2>1 DEF Queues
  <2>4. o' = o
    BY <1>11 DEF ServerExecutesLate, o
  <2> QED
    BY <1>1, <1>3, <2>2, <2>3, <2>4
<1>12. CASE ServerCloses
  <2>1. effects'[c] = effects[c] /\ late'[c] = late[c]
    BY <1>12 DEF ServerCloses
  <2>2. o' = 0
    BY <1>12, OccurrencesEmpty DEF ServerCloses, o
  <2> QED
    BY <1>1, <1>3, <2>1, <2>2
<1> QED
  BY <1>4, <1>5, <1>6, <1>8, <1>9, <1>10, <1>11, <1>12, FlowStep

\* How one step moves the caller: within an attempt, nothing leads back from
\* the send to the point before it.
Proceeds ==
  /\ UNCHANGED <<count, calling, owner, failures>>
  /\ pc \in {"read", "error"} => pc' \in {"read", "error", "raise"}
  /\ pc = "raise" => pc' = "raise"
Ends ==
  /\ owner' = None
  /\ calling' = [calling EXCEPT ![owner] = FALSE]
  /\ UNCHANGED count

LEMMA ControlStep ==
  ASSUME Owner, Counters, [Next]_vars
  PROVE  \/ \E t \in Threads : Invoke(t) \/ Acquire(t)
         \/ Proceeds \/ HandleError \/ Ends
<1> USE DEF Counters, Proceeds, sockVars, retryVars, appVars
<1>1. CASE Verify
  BY <1>1 DEF Verify
<1>2. CASE Dial \/ DialFails
  BY <1>2 DEF Dial, DialFails
<1>3. CASE Hello
  BY <1>3 DEF Hello
<1>4. CASE HelloReply
  BY <1>4 DEF HelloReply
<1>5. CASE Attempt \/ Health
  BY <1>5 DEF Attempt, Health
<1>6. CASE SendPing
  BY <1>6 DEF SendPing
<1>7. CASE PingReply
  BY <1>7 DEF PingReply
<1>8. CASE PingError
  BY <1>8 DEF PingError
<1>9. CASE SendCommand
  BY <1>9 DEF SendCommand
<1>10. CASE ReadReply \/ RaiseError
  BY <1>10 DEF ReadReply, RaiseError, Ends
<1>11. CASE ReadError
  BY <1>11 DEF ReadError, ReadFails, Throw
<1>12. CASE Interrupted
  BY <1>12 DEF Interrupted, Throw
<1>13. CASE ServerExecutes \/ ServerExecutesLate \/ ServerCloses
  BY <1>13 DEF ServerExecutes, ServerExecutesLate, ServerCloses
<1>14. CASE UNCHANGED vars
  BY <1>14 DEF vars
<1> QED
  BY <1>1, <1>2, <1>3, <1>4, <1>5, <1>6, <1>7, <1>8, <1>9, <1>10, <1>11, <1>12,
     <1>13, <1>14
  DEF Next, ClientStep

\* The caller's failures counter stays ahead of the sends.
LEMMA BudgetStep ==
  ASSUME Accounts, [Next]_vars
  PROVE  Budget'
<1>1. SUFFICES ASSUME NEW t \in Threads, NEW n \in 1..MaxCalls PROVE Account(t, n)'
  BY DEF Budget
<1> DEFINE S == Sends(<<t, n>>)
<1>2. Account(t, n)
  BY DEF Accounts, Budget
<1>3. /\ S \in Nat /\ S' \in Nat
      /\ \/ S' <= S
         \/ SendsOwn /\ <<t, n>> = Current(owner) /\ S' <= S + 1
  <2>1. <<t, n>> \in Commands
    BY DEF Commands
  <2> QED
    BY <2>1, SendsStep DEF Accounts
<1>4. /\ Attempts \in Nat /\ n \in Nat /\ count[t] \in Nat /\ failures \in Nat
  BY AttemptsLemma, ExecutionAssumption DEF Accounts, Owner, Counters
<1>5. CASE SendsOwn /\ <<t, n>> = Current(owner) /\ S' <= S + 1
  <2>1. owner = t /\ n = count[t] /\ failures < Attempts
    BY <1>5 DEF SendsOwn, Current, Accounts, Counters
  <2>2. S <= failures
    BY <1>2, <1>5, <2>1 DEF SendsOwn, Account
  <2>3. S' <= failures + 1 /\ S' <= Attempts
    BY <1>3, <1>4, <1>5, <2>1, <2>2
  <2>4. pc' = "read" /\ UNCHANGED <<owner, count, failures>>
    BY <1>5 DEF SendsOwn
  <2> QED
    BY <1>4, <2>1, <2>3, <2>4 DEF Account
<1>6. CASE S' <= S
  <2>0. S' <= Attempts
    BY <1>2, <1>3, <1>4, <1>6 DEF Account
  <2>1. ASSUME NEW u \in Threads, Invoke(u) PROVE Account(t, n)'
    <3>1. owner # u /\ UNCHANGED <<owner, pc, failures>>
      BY <2>1, ExecutionAssumption DEF Invoke, Accounts, Owner, retryVars
    <3>2. /\ u = t => count'[t] = count[t] + 1
          /\ u # t => count'[t] = count[t] /\ calling'[t] = calling[t]
      BY <2>1 DEF Invoke, Accounts, Owner
    <3>3. CASE u = t
      BY <1>2, <1>3, <1>4, <1>6, <2>0, <3>1, <3>2, <3>3 DEF Account
    <3>4. CASE u # t
      BY <1>2, <1>3, <1>4, <1>6, <2>0, <3>1, <3>2, <3>4 DEF Account
    <3> QED
      BY <3>3, <3>4
  <2>2. ASSUME NEW u \in Threads, Acquire(u) PROVE Account(t, n)'
    <3>1. /\ owner = None /\ owner' = u /\ calling[u] /\ UNCHANGED <<count, calling>>
          /\ failures' = 0 /\ pc' \in {"verify", "dial", "attempt"} /\ owner # t
      BY <2>2, ExecutionAssumption DEF Acquire, appVars
    <3> QED
      BY <1>2, <1>3, <1>4, <1>6, <2>0, <3>1 DEF Account
  <2>3. CASE Proceeds
    BY <1>2, <1>3, <1>4, <1>6, <2>0, <2>3 DEF Account, Proceeds
  <2>4. CASE HandleError
    <3>1. /\ pc = "error" /\ UNCHANGED <<owner, count, calling>>
          /\ pc' = "raise" \/ (pc' = "attempt" /\ failures' = failures + 1)
      BY <2>4 DEF HandleError, appVars
    <3> QED
      BY <1>2, <1>3, <1>4, <1>6, <2>0, <3>1 DEF Account
  <2>5. CASE Ends
    <3>1. owner' # t /\ count' = count /\ (calling'[t] => calling[t] /\ owner # t)
      BY <2>5, ExecutionAssumption DEF Ends, Accounts, Owner
    <3> QED
      BY <1>2, <1>3, <1>4, <1>6, <2>0, <3>1 DEF Account
  <2> QED
    BY <2>1, <2>2, <2>3, <2>4, <2>5, ControlStep DEF Accounts
<1> QED
  BY <1>3, <1>5, <1>6

\* The accounts are kept in every reachable state.
LEMMA AccountsInvariance == Spec => []Accounts
<1>1. Init => Accounts
  <2> SUFFICES ASSUME Init PROVE Accounts
    OBVIOUS
  <2>1. Owner
    BY ExecutionAssumption DEF Init, Owner, Labels
  <2>2. Counters
    <3>1. Retries \in Nat /\ 0 \in 0..(Retries + 1)
      BY ExecutionAssumption
    <3>2. pc = "idle" /\ ctx = "none" /\ error = "none" /\ open = FALSE /\ alive = FALSE
      BY DEF Init
    <3>3. step \in 1..3
      BY DEF Init
    <3>4. failures = 0 /\ pings = 0 /\ dials = 0
      BY DEF Init
    <3> QED
      BY ONLY <3>1, <3>2, <3>3, <3>4 DEF Counters, Contexts, Errors
  <2>3. Queues
    BY EmptySeq DEF Init, Queues
  <2>4. \A c \in Commands : Sends(c) = 0
    BY OccurrencesEmpty DEF Init, Sends
  <2>5. \A t \in Threads, n \in 1..MaxCalls : <<t, n>> \in Commands
    BY DEF Commands
  <2>6. Budget
    <3> SUFFICES ASSUME NEW t \in Threads, NEW n \in 1..MaxCalls PROVE Account(t, n)
      BY DEF Budget
    <3>1. Sends(<<t, n>>) = 0 /\ failures = 0 /\ Attempts \in Nat
      BY <2>4, <2>5, AttemptsLemma DEF Init
    <3> QED
      BY <3>1 DEF Account
  <2> QED
    BY <2>1, <2>2, <2>3, <2>6 DEF Accounts
<1>2. Accounts /\ [Next]_vars => Accounts'
  BY OwnerStep, CountersStep, QueuesStep, BudgetStep DEF Accounts
<1> QED
  BY <1>1, <1>2, PTL DEF Spec

\* The server executes a command at most once per attempt the retry policy
\* allows: whichever call fails, in the handshake, the health check, the send or
\* the read, whether or not an exception comes between send and read, and
\* however late the server executes what a closed socket has left it.
THEOREM EffectsAreBounded == Spec => []BoundedEffects
<1>1. Accounts => BoundedEffects
  <2> SUFFICES ASSUME Accounts, NEW c \in Commands PROVE effects[c] + late[c] <= Attempts
    BY DEF BoundedEffects
  <2>1. PICK t \in Threads, n \in 1..MaxCalls : c = <<t, n>>
    BY DEF Commands
  <2>2. Sends(c) <= Attempts
    BY <2>1 DEF Accounts, Budget, Account
  <2>3. effects[c] \in Nat /\ late[c] \in Nat /\ Occurrences(requests, c) \in Nat
    BY OccurrencesType DEF Accounts, Queues
  <2> QED
    BY <2>2, <2>3, AttemptsLemma DEF Sends
<1> QED
  BY <1>1, AccountsInvariance, PTL
-----------------------------------------------------------------------------
(***************************************************************************)
(* execute_command implements RemoteCall, and its state is well typed, when *)
(* no exception separates a send from its read.  (When one does, a caller   *)
(* may take the answer to another command, or a PONG, for its own.)         *)
(***************************************************************************)
Outcomes == outcome \in [Threads -> Commands \cup {NoAnswer, Failed}]

\* A reply in the socket of a caller that reads is an execution of its command.
Answered == pc = "read" /\ replies # <<>> => effects[Current(owner)] > 0

Served == IInv /\ Accounts /\ Outcomes /\ Answered

LEMMA OutcomesStep ==
  ASSUME ~Interrupts, IInv, Outcomes, [Next]_vars
  PROVE  Outcomes'
<1> USE DEF sockVars, retryVars, appVars
<1>1. CASE ReadReply
  <2>1. Reply.to = Current(owner)
    BY <1>1, Consumed DEF ReadReply, Consume, IInv, Reading, Awaited
  <2>2. Current(owner) \in Commands
    BY <1>1, OwnCommand DEF ReadReply, IInv, Owner
  <2> QED
    BY <1>1, <2>1, <2>2 DEF ReadReply, Outcomes
<1>2. CASE RaiseError
  BY <1>2 DEF RaiseError, Outcomes
<1>3. CASE UNCHANGED outcome
  BY <1>3 DEF Outcomes
<1>4. ReadReply \/ RaiseError \/ UNCHANGED outcome
  BY DEF Next, vars, ClientStep, Invoke, Acquire, Verify, Dial, DialFails, Hello,
         HelloReply, Attempt, Health, SendPing, PingReply, PingError, SendCommand,
         ReadError, Interrupted, HandleError, ServerExecutes, ServerExecutesLate,
         ServerCloses
<1> QED
  BY <1>1, <1>2, <1>3, <1>4

\* The server's count of a command never goes down.
LEMMA EffectsGrow ==
  ASSUME Queues, [Next]_vars, NEW c \in Commands
  PROVE  effects[c] \in Nat /\ effects'[c] \in Nat /\ effects'[c] >= effects[c]
<1>1. effects[c] \in Nat
  BY DEF Queues
<1>2. ASSUME NEW r, Executed(r)
      PROVE  effects'[c] \in Nat /\ effects'[c] >= effects[c]
  BY <1>1, <1>2 DEF Executed
<1>3. UNCHANGED effects \/ \E r : Executed(r)
  BY DEF Next, vars, ClientStep, Invoke, Acquire, Verify, Dial, DialFails, Hello,
         HelloReply, Attempt, Health, SendPing, PingReply, PingError, SendCommand,
         ReadReply, ReadError, Interrupted, HandleError, RaiseError,
         ServerExecutes, ServerExecutesLate, ServerCloses
<1> QED
  BY <1>1, <1>2, <1>3

\* A caller comes to read by its send, and stays there while others move.
LEMMA ReadStep ==
  ASSUME Owner, [Next]_vars, pc' = "read"
  PROVE  /\ UNCHANGED owner /\ Current(owner)' = Current(owner)
         /\ \/ SendsOwn /\ UNCHANGED replies
            \/ pc = "read" /\ (UNCHANGED replies \/ ServerExecutes)
<1> USE DEF Throw, Current, sockVars, retryVars, appVars
<1>1. ASSUME NEW t \in Threads, Invoke(t)
      PROVE  pc = "read" /\ UNCHANGED <<owner, replies>> /\ count'[owner] = count[owner]
  <2>1. owner # t /\ pc = "read" /\ owner \in Threads
    BY <1>1, ExecutionAssumption DEF Invoke, Owner
  <2> QED
    BY <1>1, <2>1 DEF Invoke, Owner
<1>2. \A t \in Threads : ~Acquire(t)
  BY DEF Acquire
<1>3. ~(Verify \/ Dial \/ DialFails \/ Attempt \/ Health)
  BY DEF Verify, Dial, DialFails, Attempt, Health
<1>4. ~(Hello \/ HelloReply)
  BY DEF Hello, HelloReply, Break, ReadFails
<1>5. ~(SendPing \/ PingReply \/ PingError)
  BY DEF SendPing, PingReply, PingError, Break, ReadFails
<1>6. CASE SendCommand
  BY <1>6 DEF SendCommand, Break, SendsOwn, Send
<1>7. ~(ReadReply \/ ReadError \/ Interrupted \/ HandleError \/ RaiseError)
  BY DEF ReadReply, ReadError, ReadFails, Interrupted, HandleError, RaiseError
<1>8. CASE ServerExecutes \/ ServerExecutesLate \/ ServerCloses
  BY <1>8 DEF ServerExecutes, ServerExecutesLate, ServerCloses
<1>9. CASE UNCHANGED vars
  BY <1>9 DEF vars
<1> QED
  BY <1>1, <1>2, <1>3, <1>4, <1>5, <1>6, <1>7, <1>8, <1>9 DEF Next, ClientStep

LEMMA AnsweredStep ==
  ASSUME ~Interrupts, Served, [Next]_vars
  PROVE  Answered'
<1>1. SUFFICES ASSUME pc' = "read", replies' # <<>>
               PROVE  effects'[Current(owner)] > 0
  BY ReadStep DEF Answered, Served, IInv
<1>2. pc \in {"read", "send"} /\ (UNCHANGED replies \/ (pc = "read" /\ ServerExecutes))
  BY <1>1, ReadStep DEF Served, IInv, SendsOwn
<1>3. Current(owner) \in Commands
  BY <1>2, OwnCommand DEF Served, IInv, Owner
<1>4. CASE UNCHANGED replies
  <2>1. pc = "read" /\ effects[Current(owner)] > 0
    BY <1>1, <1>2, <1>4 DEF Served, IInv, Traffic, Reading, Answered
  <2> QED
    BY <1>3, <2>1, EffectsGrow DEF Served, Accounts
<1>5. CASE pc = "read" /\ ServerExecutes
  <2>1. requests = <<Current(owner)>>
    BY <1>5 DEF ServerExecutes, Served, IInv, Traffic, Reading, Awaited
  <2>2. Head(requests) = Current(owner)
    BY <2>1, OneElement
  <2>3. effects'[Current(owner)] = effects[Current(owner)] + 1
    BY <1>3, <1>5, <2>2 DEF ServerExecutes, Executed
  <2>4. effects[Current(owner)] \in Nat
    BY <1>3 DEF Served, Accounts, Queues
  <2> QED
    BY <2>3, <2>4
<1> QED
  BY <1>2, <1>4, <1>5

LEMMA ServedInvariance ==
  ASSUME ~Interrupts
  PROVE  Spec => []Served
<1>1. Init => Outcomes /\ Answered
  BY DEF Init, Outcomes, Answered
<1>2. IInv /\ Accounts /\ Outcomes /\ Answered /\ [Next]_vars => Outcomes' /\ Answered'
  BY OutcomesStep, AnsweredStep DEF Served
<1>3. Spec => [](IInv /\ Accounts)
  BY Invariance, AccountsInvariance, PTL
<1>4. Spec => [](IInv /\ Accounts /\ Outcomes /\ Answered)
  BY <1>1, <1>2, <1>3, PTL DEF Spec
<1> QED
  BY <1>4, PTL DEF Served
-----------------------------------------------------------------------------
\* Every variable keeps its type: no counter of a nested retry passes its
\* limit, nothing but commands, PING and the handshake is ever in the socket,
\* and a caller's outcome is an answer to a command, never the PONG.
THEOREM TypeCorrect ==
  ASSUME ~Interrupts
  PROVE  Spec => []TypeOK
<1>1. Served => TypeOK
  <2> SUFFICES ASSUME Served PROVE TypeOK
    OBVIOUS
  <2>1. step \in 1..(Len(Handshake) + 1)
    BY HandshakeLemma DEF Served, Accounts, Counters
  <2> QED
    BY <2>1 DEF Served, Accounts, Owner, Counters, Queues, Outcomes, TypeOK
<1> QED
  BY <1>1, ServedInvariance, PTL

\* One execution by the server is a step of RemoteCall: of a command that has
\* been issued, below the bound on its executions.
LEMMA ExecuteStep ==
  ASSUME Accounts, Accounts', NEW c \in Commands,
         Executed(c), Sends(c) > 0, UNCHANGED <<count, calling, outcome>>
  PROVE  Remote!Next
<1>1. PICK t \in Threads, n \in 1..MaxCalls : c = <<t, n>>
  BY DEF Commands
<1>2. c[1] = t /\ c[2] = n
  BY <1>1
<1>3. c[2] <= count[c[1]]
  <2>1. ~(n > count[t])
    BY <1>1 DEF Accounts, Budget, Account
  <2> QED
    BY <1>2, <2>1, ExecutionAssumption DEF Accounts, Owner
<1>4. effects \in [Commands -> Nat] /\ effects[c] \in Nat
  BY DEF Accounts, Queues
<1>5. effects'[c] = effects[c] + 1
  BY DEF Executed
<1>6. effects'[c] <= Attempts
  <2>1. Sends(c)' <= Attempts
    BY <1>1 DEF Accounts, Budget, Account
  <2>2. effects'[c] \in Nat /\ late'[c] \in Nat /\ requests' \in Seq(Wire)
    BY DEF Accounts, Queues
  <2>3. Occurrences(requests', c) \in Nat
    BY <2>2, OccurrencesType
  <2>4. Sends(c)' = effects'[c] + late'[c] + Occurrences(requests', c)
    BY DEF Sends
  <2> QED
    BY <2>1, <2>2, <2>3, <2>4, AttemptsLemma
<1>7. effects[c] < Attempts
  BY <1>4, <1>5, <1>6, AttemptsLemma
<1>8. effects' = [effects EXCEPT ![c] = effects[c] + 1]
  <2> DEFINE e == [effects EXCEPT ![c] = effects[c] + 1]
  <2>1. \A d \in Commands : effects[d] + (IF c = d THEN 1 ELSE 0) = e[d]
    BY <1>4
  <2>2. effects' = [d \in Commands |-> e[d]]
    BY <2>1 DEF Executed
  <2>3. e = [d \in Commands |-> e[d]]
    BY <1>4
  <2> QED
    BY <2>2, <2>3
<1>9. Remote!Execute(c)
  BY <1>3, <1>7, <1>8 DEF Remote!Execute
<1> QED
  BY <1>9 DEF Remote!Next, Remote!Commands, Commands

\* Every step of the detailed specification is a step of RemoteCall or changes
\* nothing that a caller or the server's data would show.
LEMMA RefinementStep ==
  ASSUME ~Interrupts, Served, Served', [Next]_vars
  PROVE  [Remote!Next]_(Remote!vars)
<1> USE DEF sockVars, retryVars, appVars
<1>1. ASSUME NEW t \in Threads, Invoke(t) PROVE Remote!Next
  BY <1>1 DEF Invoke, Remote!Next, Remote!Invoke
<1>2. CASE ReadReply
  <2>1. owner \in Threads /\ calling[owner] /\ Current(owner) \in Commands
    BY <1>2, OwnCommand DEF ReadReply, Served, IInv, Owner
  <2>2. Reply.to = Current(owner)
    BY <1>2, Consumed DEF ReadReply, Consume, Served, IInv, Reading, Awaited
  <2>3. effects[Current(owner)] > 0
    BY <1>2 DEF ReadReply, Consume, Served, Answered
  <2>4. Remote!Return(owner)
    BY <1>2, <2>1, <2>2, <2>3 DEF ReadReply, Remote!Return, Remote!Current, Current
  <2> QED
    BY <2>1, <2>4 DEF Remote!Next
<1>3. CASE RaiseError
  <2>1. owner \in Threads /\ calling[owner]
    BY <1>3 DEF RaiseError, Served, IInv, Owner
  <2>2. Remote!Raise(owner)
    BY <1>3, <2>1 DEF RaiseError, Remote!Raise, Remote!Failed, Failed
  <2> QED
    BY <2>1, <2>2 DEF Remote!Next
<1>4. CASE ServerExecutes
  <2> DEFINE r == Head(requests)
  <2>1. Executed(r) /\ UNCHANGED <<count, calling, outcome>> /\ requests # <<>>
    BY <1>4 DEF ServerExecutes
  <2>2. CASE r \in Commands
    <3>1. requests \in Seq(Wire) /\ Tail(requests) \in Seq(Wire)
      BY <2>1, HeadTailProperties DEF Served, Accounts, Queues
    <3>2. Occurrences(requests, r) = Occurrences(Tail(requests), r) + 1
      BY <2>1, <3>1, OccurrencesTail
    <3>3. Occurrences(Tail(requests), r) \in Nat
      BY <3>1, OccurrencesType
    <3>4. effects[r] \in Nat /\ late[r] \in Nat
      BY <2>2 DEF Served, Accounts, Queues
    <3>5. Sends(r) > 0
      BY <3>2, <3>3, <3>4 DEF Sends
    <3> QED
      BY <2>1, <2>2, <3>5, ExecuteStep DEF Served
  <2>3. CASE r \notin Commands
    <3>1. effects \in [Commands -> Nat]
      BY DEF Served, Accounts, Queues
    <3>2. effects' = effects
      BY <2>1, <2>3, <3>1 DEF Executed
    <3> QED
      BY <2>1, <3>2 DEF Remote!vars
  <2> QED
    BY <2>2, <2>3
<1>5. CASE ServerExecutesLate
  <2>1. PICK c \in Commands : late[c] > 0 /\ Executed(c)
    BY <1>5 DEF ServerExecutesLate
  <2>2. effects[c] \in Nat /\ late[c] \in Nat /\ Occurrences(requests, c) \in Nat
    BY OccurrencesType DEF Served, Accounts, Queues
  <2>3. Sends(c) > 0
    BY <2>1, <2>2 DEF Sends
  <2> QED
    BY <1>5, <2>1, <2>3, ExecuteStep DEF ServerExecutesLate, Served
<1>6. CASE UNCHANGED <<count, calling, outcome, effects>>
  BY <1>6 DEF Remote!vars
<1>7. \/ \E t \in Threads : Invoke(t)
      \/ ReadReply \/ RaiseError \/ ServerExecutes \/ ServerExecutesLate
      \/ UNCHANGED <<count, calling, outcome, effects>>
  BY DEF Next, vars, ClientStep, Acquire, Verify, Dial, DialFails, Hello,
         HelloReply, Attempt, Health, SendPing, PingReply, PingError, SendCommand,
         ReadError, Interrupted, HandleError, ServerCloses
<1> QED
  BY <1>1, <1>2, <1>3, <1>4, <1>5, <1>6, <1>7

\* execute_command, with its pool or lock, its nested retries and its
\* reconnects, implements the remote call a caller sees: the server executes
\* the command at most Attempts times, possibly after the caller gave up, and
\* what is returned is the answer to that command and to an execution of it.
THEOREM ImplementsTheRemoteCall ==
  ASSUME ~Interrupts
  PROVE  Spec => ImplementsRemoteCall
<1>1. Init => Remote!Init
  BY DEF Init, Remote!Init, Remote!Commands, Commands, Remote!NoAnswer, NoAnswer
<1>2. Served /\ Served' /\ [Next]_vars => [Remote!Next]_(Remote!vars)
  BY RefinementStep
<1> QED
  BY <1>1, <1>2, ServedInvariance, PTL DEF Spec, ImplementsRemoteCall, Remote!Spec
=============================================================================
