--------------------------- MODULE CommandBuilder ---------------------------
(* How a method of redis/commands turns its arguments into the command that  *)
(* execute_command sends.                                                    *)
(*                                                                           *)
(* A builder is a sequence of guarded pieces, in the order in which the      *)
(* method appends them.  A piece adds words to the command, rejects the call *)
(* (the method's raise), or declares a key (the `keys` option the client     *)
(* side cache reads).  The methods themselves are the tables of CoreCommands *)
(* and ModuleCommands.                                                       *)
(*                                                                           *)
(* An argument is the sequence of the tokens it contributes: <<>> when it is *)
(* None or left out, <<Falsy>> when it is 0, False or "", one token named    *)
(* after the parameter when it is anything else, several for a list (a pair  *)
(* of a mapping is one token).  Unacceptable is a value that the method's    *)
(* own checks of type, range or membership refuse; Common is a value that    *)
(* several of the options that exclude each other may be given at once.      *)
EXTENDS Integers, Sequences, FiniteSets, SequencesExt, TLC

Falsy        == "0"
Unacceptable == "refused"
Common       == "common"

-----------------------------------------------------------------------------
(* Conditions on one argument, as the methods write them.                    *)
Is(p)   == <<"is not None", p>>
None(p) == <<"is None", p>>
Yes(p)  == <<"true", p>>
No(p)   == <<"false", p>>
Many(p) == <<"two or more", p>>
Few(p)  == <<"fewer than two", p>>

Holds(test, args) ==
  LET v == args[test[2]]
  IN  CASE test[1] = "is not None"    -> v # <<>>
        [] test[1] = "is None"        -> v = <<>>
        [] test[1] = "true"           -> v \notin {<<>>, <<Falsy>>}
        [] test[1] = "false"          -> v \in {<<>>, <<Falsy>>}
        [] test[1] = "two or more"    -> Len(v) > 1
        [] test[1] = "fewer than two" -> Len(v) < 2

-----------------------------------------------------------------------------
(* The pieces.  `when` holds the conditions that guard a piece, `unless` the *)
(* conjunctions whose else branch it is in.                                  *)
Piece(kind, word, ps) ==
  <<[kind |-> kind, word |-> word, ps |-> ps, when |-> {}, unless |-> {}]>>

If(tests, pieces)    == [i \in DOMAIN pieces |-> [pieces[i] EXCEPT !.when = @ \cup tests]]
IfNot(tests, pieces) == [i \in DOMAIN pieces |-> [pieces[i] EXCEPT !.unless = @ \cup {tests}]]

Nothing       == <<>>
Word(w)       == Piece("word", w, <<>>)
Arg(p)        == Piece("arg", "", <<p>>)
Args(ps)      == [i \in DOMAIN ps |-> Arg(ps[i])[1]]
List(p)       == Piece("list", "", <<p>>)
Each(w, p)    == Piece("each", w, <<p>>)
Size(ps)      == Piece("size", "", ps)
Declare(p)    == Piece("declare", "", <<p>>)
Raise(tests)  == If(tests, Piece("raise", "", <<>>))
Valid(p)      == Piece("valid", "", <<p>>)
On(p)         == Piece("on", "", <<p>>)
Ignored(p)    == Piece("ignored", "", <<p>>)
OpSet(ps, flag) == Piece("opset", flag, ps)

\* Mutant: the keys are not passed along.
UndeclaredKey(p) == Arg(p)

Cmd(w, pieces) == Word(w) \o pieces
Key(p)         == Arg(p) \o Declare(p)
Keys(p)        == List(p) \o Declare(p)
Counted(p)     == Size(<<p>>) \o List(p)
OptArg(p)      == If({Is(p)}, Arg(p))
Opt(w, p)      == If({Is(p)}, Word(w) \o Arg(p))
YesArg(p)      == If({Yes(p)}, Arg(p))
IfYes(w, p)    == If({Yes(p)}, Word(w) \o Arg(p))
Flag(w, p)     == If({Yes(p)}, Word(w))
Unless(w, p)   == If({No(p)}, Word(w))
NotImplemented == Raise({})
AtMostOne(ps)  == FlattenSeq([i \in DOMAIN ps |->
                    FlattenSeq([j \in 1..(i - 1) |-> Raise({Yes(ps[i]), Yes(ps[j])})])])

-----------------------------------------------------------------------------
(* What a builder does with the arguments of a call.                         *)
Fires(piece, args) ==
  /\ \A t \in piece.when : Holds(t, args)
  /\ \A c \in piece.unless : \E t \in c : ~Holds(t, args)


(* len({ex, px, exat, pxat}) > 2 or (... > 1 and flag): None is a member.    *)
OpSetRejects(piece, args) ==
  LET options == {args[p] : p \in Range(piece.ps)}
  IN  \/ Cardinality(options) > 2
      \/ Cardinality(options) > 1 /\ Holds(Yes(piece.word), args)

(* The method raises, or the encoder does: it refuses None with a DataError. *)
Refuses(piece, args) ==
  CASE piece.kind = "raise" -> TRUE
    [] piece.kind = "arg"   -> args[piece.ps[1]] = <<>>
    [] piece.kind = "valid" -> args[piece.ps[1]] = <<Unacceptable>>
    [] piece.kind = "opset" -> OpSetRejects(piece, args)
    [] OTHER                -> FALSE

Tokens(piece, args) ==
  CASE piece.kind = "word"           -> <<piece.word>>
    [] piece.kind \in {"arg", "list"} -> args[piece.ps[1]]
    [] piece.kind = "each"           ->
         LET v == args[piece.ps[1]]
         IN  [i \in 1..(2 * Len(v)) |-> IF i % 2 = 1 THEN piece.word ELSE v[i \div 2]]
    [] piece.kind = "size"           ->
         <<ToString(Len(FlattenSeq([i \in DOMAIN piece.ps |-> args[piece.ps[i]]])))>>
    [] OTHER                         -> <<>>

Accepted(builder, args) ==
  \A i \in DOMAIN builder : Fires(builder[i], args) => ~Refuses(builder[i], args)

Sent(builder, args) ==
  FlattenSeq([i \in DOMAIN builder |->
    IF Fires(builder[i], args) THEN Tokens(builder[i], args) ELSE <<>>])

Declared(builder, args) ==
  UNION {Range(args[builder[i].ps[1]]) :
           i \in {j \in DOMAIN builder : /\ builder[j].kind = "declare"
                                         /\ Fires(builder[j], args)}}
=============================================================================
