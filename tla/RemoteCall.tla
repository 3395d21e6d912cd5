----------------------------- MODULE RemoteCall -----------------------------
(***************************************************************************)
(* What Redis.execute_command promises, without connections: a caller      *)
(* issues a command, the server executes it a bounded number of times,     *)
(* possibly long after the caller gave up, and the caller gets the answer  *)
(* to that command or an exception.                                        *)
(***************************************************************************)
EXTENDS Naturals

CONSTANTS
  Threads,   \* the callers
  MaxCalls,  \* bound: how many commands each caller issues
  Attempts   \* how often one call may send its command

VARIABLES
  count,     \* how many commands each caller has issued
  calling,   \* the callers inside execute_command
  outcome,   \* how the last call of each caller ended
  effects    \* how often the server has executed each command

vars == <<count, calling, outcome, effects>>

Commands == Threads \X (1..MaxCalls)
Current(t) == <<t, count[t]>>

NoAnswer == <<"nothing", 0>>
Failed == <<"exception", 0>>

Init ==
  /\ count = [t \in Threads |-> 0]
  /\ calling = [t \in Threads |-> FALSE]
  /\ outcome = [t \in Threads |-> NoAnswer]
  /\ effects = [c \in Commands |-> 0]

Invoke(t) ==
  /\ ~calling[t]
  /\ count[t] < MaxCalls
  /\ count' = [count EXCEPT ![t] = @ + 1]
  /\ calling' = [calling EXCEPT ![t] = TRUE]
  /\ UNCHANGED <<outcome, effects>>

Execute(c) ==
  /\ c[2] <= count[c[1]]
  /\ effects[c] < Attempts
  /\ effects' = [effects EXCEPT ![c] = @ + 1]
  /\ UNCHANGED <<count, calling, outcome>>

\* The answer is the answer to the caller's own command, so the server has
\* executed it.
Return(t) ==
  /\ calling[t]
  /\ effects[Current(t)] > 0
  /\ outcome' = [outcome EXCEPT ![t] = Current(t)]
  /\ calling' = [calling EXCEPT ![t] = FALSE]
  /\ UNCHANGED <<count, effects>>

Raise(t) ==
  /\ calling[t]
  /\ outcome' = [outcome EXCEPT ![t] = Failed]
  /\ calling' = [calling EXCEPT ![t] = FALSE]
  /\ UNCHANGED <<count, effects>>

Next ==
  \/ \E t \in Threads : Invoke(t) \/ Return(t) \/ Raise(t)
  \/ \E c \in Commands : Execute(c)

Spec == Init /\ [][Next]_vars

\* Every call ends.
Terminates == \A t \in Threads : calling[t] ~> ~calling[t]
=============================================================================
