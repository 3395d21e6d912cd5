------------------------------ MODULE BitFields ------------------------------
(* BitFieldOperation of redis/commands/core.py: collects the subcommands of  *)
(* a BITFIELD, with an OVERFLOW word only where the behaviour asked for      *)
(* differs from the one in force, and starts over with every execute().      *)
EXTENDS CommandBuilder

BitFieldCommand == [bitfield |-> Cmd("BITFIELD", Arg("key") \o List("operations"))]

Overflows == {"WRAP", "SAT", "FAIL"}
Unset     == "unset"

\* A call: the overflow it asks for, or Unset, and the subcommand it adds.
Calls == [overflow : Overflows \cup {Unset}, op : {"INCRBY"}]
           \cup [overflow : Overflows, op : {"none"}]
           \cup [overflow : {Unset}, op : {"SET", "execute"}]

\* Mutant: execute() forgets the operations and not the overflow in force.
ResetKeepsOverflow(b, default) == [b EXCEPT !.operations = <<>>]

SetOverflow(b, overflow) ==
  IF overflow = b.last_overflow THEN b
  ELSE [b EXCEPT !.last_overflow = overflow, !.operations = Append(@, overflow)]

Reset(b, default) ==
  LET empty == [b EXCEPT !.operations = <<>>, !.last_overflow = "WRAP"]
  IN  SetOverflow(empty, IF default = Unset THEN "WRAP" ELSE default)

NewBuilder(default) ==
  Reset([operations |-> <<>>, last_overflow |-> "WRAP", sent |-> <<>>], default)

Apply(b, call, default) ==
  IF call.op = "execute" THEN Reset([b EXCEPT !.sent = Append(@, b.operations)], default)
  ELSE LET set == IF call.overflow = Unset THEN b ELSE SetOverflow(b, call.overflow)
       IN  IF call.op = "none" THEN set
           ELSE [set EXCEPT !.operations = Append(@, call.op)]

\* How the server executes the subcommands of one BITFIELD: each increment with
\* the overflow behaviour in force, WRAP at first.
Effects(operations) ==
  FoldLeft(LAMBDA e, w : IF w \in Overflows THEN [e EXCEPT !.mode = w]
                         ELSE [e EXCEPT !.done = Append(@, <<w, e.mode>>)],
           [mode |-> "WRAP", done |-> <<>>], operations).done

\* What the caller asked for: each operation with the overflow named last since
\* the previous execute().
Asked(calls, default) ==
  FoldLeft(LAMBDA a, c :
             IF c.op = "execute"
             THEN [a EXCEPT !.mode = default, !.all = Append(@, a.now), !.now = <<>>]
             ELSE LET mode == IF c.overflow = Unset THEN a.mode ELSE c.overflow
                  IN  [a EXCEPT !.mode = mode,
                         !.now = IF c.op = "none" THEN @ ELSE Append(@, <<c.op, mode>>)],
           [mode |-> default, now |-> <<>>, all |-> <<>>], calls).all
=============================================================================
