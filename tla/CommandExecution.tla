-------------------------- MODULE CommandExecution --------------------------
(***************************************************************************)
(* Redis._execute_command over one connection object: connect, handshake,  *)
(* health check, send, read, disconnect, and the nested uses of            *)
(* Retry.call_with_retry.                                                  *)
(*                                                                         *)
(* The callers take turns, as the pool (ConnectionPool) or the             *)
(* single_connection_lock makes them.  The socket is two queues, requests  *)
(* the server has not executed and replies the client has not read; the    *)
(* server answers in order.  Closing the socket drops both on the client's *)
(* side, but the server may still execute what it received.                *)
(*                                                                         *)
(* A command and its reply are a pair: who issued it and its number.       *)
(***************************************************************************)
EXTENDS Integers, Sequences, FiniteSets

CONSTANTS
  Threads,        \* the callers
  MaxCalls,       \* bound: how many commands each caller issues
  Retries,        \* connection.retry._retries
  RetryOn,        \* connection.retry_on_error, of {"conn", "timeout"}
  HealthChecks,   \* health_check_interval is not 0
  Pooled,         \* the connection comes from a pool for each command
  Interrupts,     \* an exception may arrive between send and read
  None            \* no caller

ASSUME ExecutionAssumption ==
  /\ MaxCalls \in Nat
  /\ Retries \in Nat
  /\ RetryOn \subseteq {"conn", "timeout"}
  /\ {HealthChecks, Pooled, Interrupts} \subseteq BOOLEAN
  /\ None \notin Threads

Commands == Threads \X (1..MaxCalls)
Ping == <<"PING", 0>>

\* What on_connect sends: an error reply to AUTH (or HELLO, SELECT, CLIENT
\* SETNAME) is fatal, an error reply to CLIENT SETINFO is ignored.
Handshake == << <<"AUTH", 0>>, <<"CLIENT SETINFO", 0>> >>
Lenient(i) == i = 2

VARIABLES
  open,       \* connection._sock is not None
  alive,      \* the server still has its end of the socket
  requests,   \* sent on this socket and not yet executed
  replies,    \* replies on this socket, not yet read
  late,       \* how often the server may still execute each command that
              \* was sent on a socket the client has closed
  owner,      \* the caller that has the connection
  pc,         \* where that caller is
  ctx,        \* which call_with_retry (or get_connection) it is in
  step,       \* the handshake command to send or to read the reply of
  failures,   \* the failures counter of the command's call_with_retry
  pings,      \* the one of the health check
  dials,      \* the one of the connect
  error,      \* the exception on its way up
  count,      \* how many commands each caller has issued
  calling,    \* the callers inside execute_command
  outcome,    \* how the last call of each caller ended
  effects     \* how often the server has executed each command

sockVars == <<open, alive, requests, replies, late>>
retryVars == <<failures, pings, dials>>
appVars == <<count, calling, outcome>>
vars == <<sockVars, owner, pc, ctx, step, retryVars, error, appVars, effects>>

Labels == {"idle", "verify", "dial", "hello", "hello_reply", "attempt", "health",
           "ping", "ping_reply", "send", "read", "ping_error", "error", "raise"}
Contexts == {"none", "get", "reget", "command", "ping"}
Errors == {"none", "conn", "timeout", "response", "interrupt"}

\* "ok" is a value, "err" a ResponseError, "fatal" an error reply that the
\* parser raises as a ConnectionError (BusyLoadingError, AuthenticationError).
Kinds == {"ok", "err", "fatal"}
Wire == Commands \cup {Ping} \cup {Handshake[i] : i \in 1..Len(Handshake)}

NoAnswer == <<"nothing", 0>>
Failed == <<"exception", 0>>
Current(t) == <<t, count[t]>>

TypeOK ==
  /\ open \in BOOLEAN
  /\ alive \in BOOLEAN
  /\ requests \in Seq(Wire)
  /\ replies \in Seq([to : Wire, kind : Kinds])
  /\ late \in [Commands -> Nat]
  /\ owner \in Threads \cup {None}
  /\ pc \in Labels
  /\ ctx \in Contexts
  /\ step \in 1..(Len(Handshake) + 1)
  /\ failures \in 0..(Retries + 1)
  /\ pings \in 0..(Retries + 1)
  /\ dials \in 0..(Retries + 1)
  /\ error \in Errors
  /\ count \in [Threads -> 0..MaxCalls]
  /\ calling \in [Threads -> BOOLEAN]
  /\ outcome \in [Threads -> Commands \cup {NoAnswer, Failed}]
  /\ effects \in [Commands -> Nat]

Init ==
  /\ open = FALSE
  /\ alive = FALSE
  /\ requests = <<>>
  /\ replies = <<>>
  /\ late = [c \in Commands |-> 0]
  /\ owner = None
  /\ pc = "idle"
  /\ ctx = "none"
  /\ step = 1
  /\ failures = 0
  /\ pings = 0
  /\ dials = 0
  /\ error = "none"
  /\ count = [t \in Threads |-> 0]
  /\ calling = [t \in Threads |-> FALSE]
  /\ outcome = [t \in Threads |-> NoAnswer]
  /\ effects = [c \in Commands |-> 0]
-----------------------------------------------------------------------------
(***************************************************************************)
(* The socket.                                                             *)
(***************************************************************************)
Occurrences(s, x) == Cardinality({i \in 1..Len(s) : s[i] = x})

\* disconnect()
Close ==
  /\ open' = FALSE
  /\ alive' = FALSE
  /\ late' = [c \in Commands |-> late[c] + Occurrences(requests, c)]
  /\ requests' = <<>>
  /\ replies' = <<>>

\* sendall() accepts the whole command; a server that is gone never sees it.
Send(r) ==
  /\ requests' = IF alive THEN Append(requests, r) ELSE requests
  /\ UNCHANGED <<open, alive, replies, late>>

\* The exception goes to the innermost handler: get_connection releases the
\* connection and lets it through.
Throw(e) ==
  /\ error' = e
  /\ pc' = CASE ctx = "ping" -> "ping_error"
             [] ctx = "command" -> "error"
             [] OTHER -> "raise"

\* A failing socket call closes the socket and throws.
Break ==
  /\ Close
  /\ \E e \in {"conn", "timeout"} : Throw(e)

\* Mutant: disconnect_on_error=False.
ReadFailsKeepsSocket ==
  /\ replies = <<>>
  /\ \E e \in (IF alive THEN {"timeout"} ELSE {"conn"}) \cup {"interrupt"} :
       Throw(e)
  /\ UNCHANGED sockVars

\* socket.timeout while there is nothing to read, or EOF.  BaseException too:
\* "A lot of code relies on this behaviour when doing Command/Response pairs."
ReadFails ==
  /\ replies = <<>>
  /\ Close
  /\ \E e \in (IF alive THEN {"timeout"} ELSE {"conn"}) \cup {"interrupt"} :
       Throw(e)

Reply == Head(replies)
Consume ==
  /\ replies # <<>>
  /\ replies' = Tail(replies)
  /\ UNCHANGED <<open, alive, requests, late>>
-----------------------------------------------------------------------------
(***************************************************************************)
(* The caller: _execute_command up to the first attempt.                   *)
(***************************************************************************)
Invoke(t) ==
  /\ ~calling[t]
  /\ count[t] < MaxCalls
  /\ count' = [count EXCEPT ![t] = @ + 1]
  /\ calling' = [calling EXCEPT ![t] = TRUE]
  /\ UNCHANGED <<sockVars, owner, pc, ctx, step, retryVars, error, outcome,
                 effects>>

\* pool.get_connection(), or single_connection_lock.acquire()
Acquire(t) ==
  /\ owner = None
  /\ calling[t]
  /\ owner' = t
  /\ IF Pooled
       THEN /\ ctx' = "get"
            /\ pc' = IF open THEN "verify" ELSE "dial"
       ELSE /\ ctx' = "command"
            /\ pc' = "attempt"
  /\ failures' = 0
  /\ dials' = 0
  /\ UNCHANGED <<sockVars, step, pings, error, appVars, effects>>

\* get_connection: "connections that the pool provides should be ready to send
\* a command".  can_read() is true for data, and raises at end of file.
Verify ==
  /\ pc = "verify"
  /\ \/ /\ replies = <<>> /\ alive
        /\ ctx' = "command"
        /\ pc' = "attempt"
        /\ UNCHANGED <<sockVars, dials, error>>
     \/ /\ replies # <<>> \/ ~alive
        /\ ctx = "get"
        /\ Close
        /\ ctx' = "reget"
        /\ pc' = "dial"
        /\ dials' = 0
        /\ UNCHANGED error
     \/ /\ replies # <<>> \/ ~alive
        /\ ctx = "reget"
        /\ Throw("conn")
        /\ UNCHANGED <<sockVars, ctx, dials>>
  /\ UNCHANGED <<owner, step, failures, pings, appVars, effects>>
-----------------------------------------------------------------------------
(***************************************************************************)
(* connect_check_health and on_connect_check_health.                       *)
(***************************************************************************)
Dial ==
  /\ pc = "dial"
  /\ open' = TRUE
  /\ alive' = TRUE
  /\ step' = 1
  /\ pc' = "hello"
  /\ UNCHANGED <<requests, replies, late, owner, ctx, retryVars, error, appVars,
                 effects>>

\* _connect() raises socket.timeout, which call_with_retry retries, or another
\* OSError, which it does not.
DialFails ==
  /\ pc = "dial"
  /\ \/ /\ dials' = dials + 1
        /\ IF dials + 1 > Retries
             THEN Throw("timeout")
             ELSE UNCHANGED <<pc, error>>
     \/ Throw("conn") /\ UNCHANGED dials
  /\ UNCHANGED <<sockVars, owner, ctx, step, failures, pings, appVars, effects>>

\* Send the next command of the handshake, or go on when it is complete.
Hello ==
  /\ pc = "hello"
  /\ \/ /\ step <= Len(Handshake)
        /\ Send(Handshake[step])
        /\ pc' = "hello_reply"
        /\ UNCHANGED error
     \/ /\ step <= Len(Handshake)
        /\ Break
     \/ /\ step > Len(Handshake)
        /\ pc' = CASE ctx = "ping" -> "ping"
                   [] ctx = "command" -> "health"
                   [] OTHER -> "verify"
        /\ UNCHANGED <<sockVars, error>>
  /\ UNCHANGED <<owner, ctx, step, retryVars, appVars, effects>>

\* "clean up after any error in on_connect": disconnect and raise.
HelloReply ==
  /\ pc = "hello_reply"
  /\ \/ /\ Consume
        /\ Reply.kind = "ok" \/ (Reply.kind = "err" /\ Lenient(step))
        /\ step' = step + 1
        /\ pc' = "hello"
        /\ UNCHANGED error
     \/ /\ replies # <<>>
        /\ Reply.kind = "fatal" \/ (Reply.kind = "err" /\ ~Lenient(step))
        /\ Close
        /\ Throw(IF Reply.kind = "fatal" THEN "conn" ELSE "response")
        /\ UNCHANGED step
     \/ ReadFails /\ UNCHANGED step
  /\ UNCHANGED <<owner, ctx, retryVars, appVars, effects>>
-----------------------------------------------------------------------------
(***************************************************************************)
(* One attempt: _send_command_parse_response, from send_packed_command's   *)
(* connect and health check to the reply.                                  *)
(***************************************************************************)
Attempt ==
  /\ pc = "attempt"
  /\ pc' = IF open THEN "health" ELSE "dial"
  /\ dials' = 0
  /\ UNCHANGED <<sockVars, owner, ctx, step, failures, pings, error, appVars,
                 effects>>

\* check_health(): a PING when health_check_interval has passed.
Health ==
  /\ pc = "health"
  /\ \/ /\ pc' = "send"
        /\ UNCHANGED <<ctx, pings>>
     \/ /\ HealthChecks
        /\ pc' = "ping"
        /\ ctx' = "ping"
        /\ pings' = 0
  /\ UNCHANGED <<sockVars, owner, step, failures, dials, error, appVars, effects>>

\* _send_ping(): send_command("PING", check_health=False) connects if need be.
SendPing ==
  /\ pc = "ping"
  /\ \/ open /\ Send(Ping) /\ pc' = "ping_reply" /\ UNCHANGED <<dials, error>>
     \/ open /\ Break /\ UNCHANGED dials
     \/ ~open /\ pc' = "dial" /\ dials' = 0 /\ UNCHANGED <<sockVars, error>>
  /\ UNCHANGED <<owner, ctx, step, failures, pings, appVars, effects>>

\* Mutant: the PONG stays in the socket.
PingUnread ==
  /\ pc = "ping_reply"
  /\ replies # <<>>
  /\ pc' = "send"
  /\ ctx' = "command"
  /\ UNCHANGED <<sockVars, owner, step, retryVars, error, appVars, effects>>

\* A value other than PONG, which is what a stray reply is, is a failed PING.
PingReply ==
  /\ pc = "ping_reply"
  /\ \/ /\ Consume
        /\ Reply.kind = "ok" /\ Reply.to = Ping
        /\ pc' = "send"
        /\ ctx' = "command"
        /\ UNCHANGED error
     \/ /\ Consume
        /\ Reply.kind = "err" \/ (Reply.kind = "ok" /\ Reply.to # Ping)
        /\ Throw(IF Reply.kind = "err" THEN "response" ELSE "conn")
        /\ UNCHANGED ctx
     \/ /\ replies # <<>>
        /\ Reply.kind = "fatal"
        /\ Close
        /\ Throw("conn")
        /\ UNCHANGED ctx
     \/ ReadFails /\ UNCHANGED ctx
  /\ UNCHANGED <<owner, step, retryVars, appVars, effects>>

\* The except clause of the health check's call_with_retry: _ping_failed
\* disconnects; what it does not support, or once too often, goes on up.
PingError ==
  /\ pc = "ping_error"
  /\ \/ /\ error \in {"conn", "timeout"}
        /\ pings' = pings + 1
        /\ Close
        /\ IF pings + 1 > Retries
             THEN pc' = "error" /\ ctx' = "command"
             ELSE pc' = "ping" /\ UNCHANGED ctx
     \/ /\ error \in {"response", "interrupt"}
        /\ pc' = "error"
        /\ ctx' = "command"
        /\ UNCHANGED <<sockVars, pings>>
  /\ UNCHANGED <<owner, step, failures, dials, error, appVars, effects>>

SendCommand ==
  /\ pc = "send"
  /\ \/ Send(Current(owner)) /\ pc' = "read" /\ UNCHANGED error
     \/ Break
  /\ UNCHANGED <<owner, ctx, step, retryVars, appVars, effects>>

\* The reply to the command, whatever it is, goes to the caller.  A
\* ResponseError is an answer too: the connection stays as it is.
ReadReply ==
  /\ pc = "read"
  /\ Consume
  /\ Reply.kind # "fatal"
  /\ outcome' = [outcome EXCEPT ![owner] = Reply.to]
  /\ calling' = [calling EXCEPT ![owner] = FALSE]
  /\ owner' = None
  /\ pc' = "idle"
  /\ ctx' = "none"
  /\ UNCHANGED <<step, retryVars, error, count, effects>>

ReadError ==
  /\ pc = "read"
  /\ \/ replies # <<>> /\ Reply.kind = "fatal" /\ Close /\ Throw("conn")
     \/ ReadFails
  /\ UNCHANGED <<owner, ctx, step, retryVars, appVars, effects>>

\* An exception that reaches the thread after sendall() and before
\* read_response()'s try: nothing closes the socket.
Interrupted ==
  /\ Interrupts
  /\ pc = "read"
  /\ Throw("interrupt")
  /\ UNCHANGED <<sockVars, owner, ctx, step, retryVars, appVars, effects>>

\* Mutant: failures is compared before it is counted.
HandleErrorOnceMore ==
  /\ pc = "error"
  /\ failures' = failures + 1
  /\ Close
  /\ pc' = IF error \notin RetryOn \/ failures > Retries
             THEN "raise" ELSE "attempt"
  /\ UNCHANGED <<owner, ctx, step, pings, dials, error, appVars, effects>>

\* Mutant: failures starts from zero in every round.
HandleErrorForgets ==
  /\ pc = "error"
  /\ failures' = 0
  /\ Close
  /\ pc' = IF error \notin RetryOn THEN "raise" ELSE "attempt"
  /\ UNCHANGED <<owner, ctx, step, pings, dials, error, appVars, effects>>

\* The except clause of the command's call_with_retry: _disconnect_raise
\* disconnects, and raises what retry_on_error does not list.
HandleError ==
  /\ pc = "error"
  /\ \/ /\ error \in {"conn", "timeout"}
        /\ failures' = failures + 1
        /\ Close
        /\ pc' = IF error \notin RetryOn \/ failures + 1 > Retries
                   THEN "raise" ELSE "attempt"
     \/ /\ error \in {"response", "interrupt"}
        /\ pc' = "raise"
        /\ UNCHANGED <<sockVars, failures>>
  /\ UNCHANGED <<owner, ctx, step, pings, dials, error, appVars, effects>>

\* The finally clause gives the connection back and the caller sees the
\* exception.
RaiseError ==
  /\ pc = "raise"
  /\ outcome' = [outcome EXCEPT ![owner] = Failed]
  /\ calling' = [calling EXCEPT ![owner] = FALSE]
  /\ owner' = None
  /\ pc' = "idle"
  /\ ctx' = "none"
  /\ error' = "none"
  /\ UNCHANGED <<sockVars, step, retryVars, count, effects>>
-----------------------------------------------------------------------------
(***************************************************************************)
(* The server and the network.                                             *)
(***************************************************************************)
Executed(r) ==
  effects' = [c \in Commands |-> effects[c] + (IF r = c THEN 1 ELSE 0)]

ServerExecutes ==
  /\ requests # <<>>
  /\ requests' = Tail(requests)
  /\ \E k \in Kinds : replies' = Append(replies, [to |-> Head(requests), kind |-> k])
  /\ Executed(Head(requests))
  /\ UNCHANGED <<open, alive, late, owner, pc, ctx, step, retryVars, error,
                 appVars>>

ServerExecutesLate ==
  /\ \E c \in Commands :
       /\ late[c] > 0
       /\ late' = [late EXCEPT ![c] = @ - 1]
       /\ Executed(c)
  /\ UNCHANGED <<open, alive, requests, replies, owner, pc, ctx, step, retryVars,
                 error, appVars>>

\* The server closes the connection: what it had not executed is lost.
ServerCloses ==
  /\ alive
  /\ alive' = FALSE
  /\ requests' = <<>>
  /\ UNCHANGED <<open, replies, late, owner, pc, ctx, step, retryVars, error,
                 appVars, effects>>
-----------------------------------------------------------------------------
ClientStep ==
  \/ Verify \/ Dial \/ DialFails \/ Hello \/ HelloReply
  \/ Attempt \/ Health \/ SendPing \/ PingReply \/ PingError
  \/ SendCommand \/ ReadReply \/ ReadError \/ Interrupted \/ HandleError
  \/ RaiseError

Next ==
  \/ \E t \in Threads : Invoke(t) \/ Acquire(t)
  \/ ClientStep
  \/ ServerExecutes \/ ServerExecutesLate \/ ServerCloses

Spec == Init /\ [][Next]_vars

\* Every step of a caller is scheduled, socket timeouts included (a
\* socket_timeout is set), and a free connection goes to every caller that
\* keeps asking.  The server owes nothing.
FairSpec ==
  /\ Spec
  /\ WF_vars(ClientStep)
  /\ \A t \in Threads : SF_vars(Acquire(t))
-----------------------------------------------------------------------------
(***************************************************************************)
(* Properties.                                                             *)
(***************************************************************************)
\* execute_command returns the reply to the command it was called with, never
\* a reply that an earlier command left in the socket.
ReplyIsMine ==
  \A t \in Threads :
    ~calling[t] => outcome[t] \in {NoAnswer, Failed, Current(t)}

\* A connection nobody is using carries nothing: what was sent on it has been
\* answered and read, or the socket has been closed.
IdleIsClean ==
  owner = None => requests = <<>> /\ replies = <<>>

\* While the caller waits for a reply, the socket carries its command or the
\* reply to it and nothing else.
OneInFlight ==
  pc = "read" =>
    /\ Len(requests) + Len(replies) <= 1
    /\ \A i \in 1..Len(requests) : requests[i] = Current(owner)
    /\ \A i \in 1..Len(replies) : replies[i].to = Current(owner)

Attempts == IF RetryOn = {} THEN 1 ELSE Retries + 1

\* The caller of one command makes the server execute it at most once per
\* attempt the retry policy allows, even when executions come late.
BoundedEffects ==
  \A c \in Commands : effects[c] + late[c] <= Attempts

\* execute_command implements a remote call that is executed at most Attempts
\* times and whose answer is its own.
Remote == INSTANCE RemoteCall
            WITH Threads <- Threads, MaxCalls <- MaxCalls, Attempts <- Attempts,
                 count <- count, calling <- calling, outcome <- outcome, effects <- effects
ImplementsRemoteCall == Remote!Spec

\* Every call of execute_command returns or raises: the nested retries and
\* reconnects come to an end.
Terminates == Remote!Terminates
=============================================================================
