---------------------------- MODULE CommandCalls ----------------------------
(* A caller puts together the arguments of one call of a command method, and *)
(* the builder of that method turns them into the command and into the keys  *)
(* it tells the client side cache about.                                     *)
EXTENDS CoreCommands, ModuleCommands, ClusterCommands, BitFields

CONSTANT
  MaxGiven \* Bound: the arguments of a call that differ from the plain one

ASSUME MaxGivenAssumption == MaxGiven \in Nat

VARIABLES
  method, \* the method called
  args,   \* its arguments
  given   \* the parameters the caller has decided about

vars == <<method, args, given>>

Builders == CoreBuilders @@ ModuleBuilders @@ ClusterBuilders @@ BitFieldCommand

-----------------------------------------------------------------------------
(* The parameters of a method, as far as its builder tells.                  *)
Of(kinds, b) == UNION {Range(b[i].ps) : i \in {j \in DOMAIN b : b[j].kind \in kinds}}

Tested(b) ==
  UNION {{t[2] : t \in b[i].when \cup UNION b[i].unless} : i \in DOMAIN b}
    \cup {b[i].word : i \in {j \in DOMAIN b : b[j].kind = "opset"}}

Params(b)   == UNION {Range(b[i].ps) : i \in DOMAIN b} \cup Tested(b)
Lists(b)    == Of({"list", "each", "size"}, b)
Checked(b)  == Of({"valid"}, b)
Exclusive(b) == Of({"opset"}, b)
Always(b)   == SelectSeq(b, LAMBDA piece : piece.when = {} /\ piece.unless = {})
Required(b) == Of({"arg"}, Always(b))
Defaults(b) == Of({"list"}, Always(b)) \cup Of({"on"}, b)

Plain(b) ==
  [p \in Params(b) |-> IF p \in Required(b) \cup Defaults(b) THEN <<p>> ELSE <<>>]

Values(b, p) ==
  IF p \in Lists(b) THEN {<<>>, <<p>>, <<p, p>>}
  ELSE IF p \in Checked(b) THEN {<<p>>, <<Unacceptable>>}
  ELSE IF p \in Exclusive(b) THEN {<<p>>, <<Falsy>>, <<Common>>}
  ELSE {<<p>>, <<Falsy>>}

-----------------------------------------------------------------------------
Init ==
  /\ method \in DOMAIN Builders
  /\ args = Plain(Builders[method])
  /\ given = {}

Give(p) ==
  /\ p \notin given
  /\ Cardinality(given) < MaxGiven
  /\ \E v \in Values(Builders[method], p) \ {args[p]} :
       args' = [args EXCEPT ![p] = v]
  /\ given' = given \cup {p}
  /\ UNCHANGED method

Next == \E p \in DOMAIN args : Give(p)

Spec == Init /\ [][Next]_vars

-----------------------------------------------------------------------------
Command == Sent(Builders[method], args)
Valued(p) == p \in DOMAIN args /\ args[p] \notin {<<>>, <<Falsy>>}

(* What a parameter has no effect without.  Most docstrings say so; the code *)
(* alone says it of JSON arrindex's stop without start and of the two bounds *)
(* of a time series' filter by value, which are dropped without a word.      *)
Partner ==
  [args |-> {"section"}, approximate |-> {"maxlen", "minid"}, value |-> {"key"},
   longitude |-> {"latitude"}, latitude |-> {"longitude"}, width |-> {"height"},
   height |-> {"width"}, stop |-> {"start"}, offset |-> {"num"},
   bucket_size_msec |-> {"aggregation_type"}, groupby |-> {"reduce"},
   filter_by_min_value |-> {"filter_by_max_value"},
   filter_by_max_value |-> {"filter_by_min_value"}, reduce |-> {"groupby"},
   asc |-> {"sort_by"}, sum_fields |-> {"summarize"}, context_len |-> {"summarize"},
   num_frags |-> {"summarize"}, sep |-> {"summarize"}, high_fields |-> {"highlight"},
   tags |-> {"highlight"}, count |-> {"cursor"}, max_idle |-> {"cursor"},
   alias |-> {"reducer"}, reducer_args |-> {"reducer"}]

(* A unit belongs to a radius or a box; sort's groups shapes the reply only; *)
(* partial and no_create imply replace; LOAD * covers every field; profile() *)
(* does not pass the query parameters of an aggregation on.                  *)
Absorbed(p) ==
  \/ p \in DOMAIN Partner /\ \A q \in Partner[p] : ~Valued(q)
  \/ p = "unit" /\ ~Valued("radius") /\ ~(Valued("width") /\ Valued("height"))
  \/ method = "sort" /\ p = "groups"
  \/ p = "replace" /\ (Valued("partial") \/ Valued("no_create"))
  \/ p = "load_fields" /\ Valued("load_all")
  \/ method = "ft_profile_aggregate" /\ p = "query_params"

(* p is given the value of an expiry option that comes before it.  The check *)
(* of the options that exclude each other is made on the set of their values *)
(* and lets such a call through, and extract_expire_flags sends the first.   *)
Repeated(p) ==
  \E piece \in Range(Builders[method]) :
    /\ piece.kind = "opset"
    /\ \E j \in DOMAIN piece.ps, i \in 1..(Len(piece.ps) - 1) :
         i < j /\ piece.ps[j] = p /\ args[piece.ps[i]] = args[p]

(* The command would be another one without p.                               *)
Matters(p) ==
  LET b       == Builders[method]
      without == [args EXCEPT ![p] = <<>>]
  IN  Accepted(b, without) => Sent(b, without) # Command

Optional == {p \in DOMAIN args \ Required(Builders[method]) : Valued(p) /\ ~Absorbed(p)}


(* "ex, px, exat, pxat and keepttl are mutually exclusive" (core.py, in the  *)
(* error of set): no exception is needed.  One is: set(ex=10, px=10) is      *)
(* accepted and sends EX 10 alone.                                           *)
NothingEverDropped ==
  Accepted(Builders[method], args) => \A p \in Optional : Matters(p)

-----------------------------------------------------------------------------
(* The keys the server finds in a command (what COMMAND GETKEYS answers),    *)
(* for the commands that may be cached.  SINTERCARD and ZINTERCARD leave the *)
(* number of keys to the caller, who is taken to count right.                *)
AllKeys     == {"EXISTS", "MGET", "SDIFF", "SINTER", "SUNION"}
CountedKeys == {"ZDIFF", "ZINTER", "ZUNION"}

NumKeys(c) == CHOOSE n \in 0..Len(c) : ToString(n) = c[2]

KeysIn(c) ==
  CASE c[1] \in AllKeys     -> Range(Tail(c))
    [] c[1] \in CountedKeys -> Range(SubSeq(c, 3, 2 + NumKeys(c)))
    [] c[1] = "JSON.MGET"   -> Range(SubSeq(c, 2, Len(c) - 1))
    [] c[1] = "LCS"         -> {c[2], c[3]}
    [] c[1] = "XREAD"       -> {c[Len(c)]}
    [] c[1] \in {"SINTERCARD", "ZINTERCARD"} -> Range(c) \cap {"keys"}
    [] OTHER                -> {c[2]}

Cacheable ==
  {"BITCOUNT", "BITFIELD_RO", "BITPOS", "EXISTS", "GEODIST", "GEOHASH", "GEOPOS",
   "GEORADIUSBYMEMBER_RO", "GEORADIUS_RO", "GEOSEARCH", "GET", "GETBIT", "GETRANGE",
   "HEXISTS", "HGET", "HGETALL", "HKEYS", "HLEN", "HMGET", "HSTRLEN", "HVALS",
   "JSON.ARRINDEX", "JSON.ARRLEN", "JSON.GET", "JSON.MGET", "JSON.OBJKEYS", "JSON.OBJLEN",
   "JSON.RESP", "JSON.STRLEN", "JSON.TYPE", "LCS", "LINDEX", "LLEN", "LPOS", "LRANGE",
   "MGET", "SCARD", "SDIFF", "SINTER", "SINTERCARD", "SISMEMBER", "SMEMBERS",
   "SMISMEMBER", "SORT_RO", "STRLEN", "SUBSTR", "SUNION", "TS.GET", "TS.INFO", "TS.RANGE",
   "TS.REVRANGE", "TYPE", "XLEN", "XPENDING", "XRANGE", "XREAD", "XREVRANGE", "ZCARD",
   "ZCOUNT", "ZDIFF", "ZINTER", "ZINTERCARD", "ZLEXCOUNT", "ZMSCORE", "ZRANGE",
   "ZRANGEBYLEX", "ZRANGEBYSCORE", "ZRANK", "ZREVRANGE", "ZREVRANGEBYLEX",
   "ZREVRANGEBYSCORE", "ZREVRANK", "ZSCORE", "ZUNION"}

(* zrevrange passes its name where a list of names is expected, and the range*)
(* form of xpending passes no keys at all.                                   *)
KeysMissing == {<<"zrange", "ZREVRANGE">>, <<"zrevrange", "ZREVRANGE">>,
                <<"xpending_range", "XPENDING">>}

(* A command the client side cache may keep tells it exactly the keys the    *)
(* server reads: a key left out would never be invalidated.                  *)
KeysDeclared ==
  LET b == Builders[method]
  IN  (/\ Accepted(b, args)
       /\ Command # <<>>
       /\ Command[1] \in Cacheable
       /\ <<method, Command[1]>> \notin KeysMissing) =>
        Declared(b, args) = KeysIn(Command)

(* The command's name and keys, which are the cache key of connection.py,    *)
(* tell two commands that may be cached apart.  They do not: an option such  *)
(* as withscores is in neither.                                              *)
CacheKeysTellApart ==
  LET b == Builders[method]
  IN  (Accepted(b, args) /\ Command # <<>> /\ Command[1] \in Cacheable) =>
        \A p \in DOMAIN args \ Required(b) :
          LET without == [args EXCEPT ![p] = <<>>]
              other   == Sent(b, without)
          IN  (/\ Accepted(b, without)
               /\ other # <<>> /\ other[1] = Command[1]
               /\ Declared(b, without) = Declared(b, args)) => other = Command

-----------------------------------------------------------------------------
(* Split by slot, a command on many keys answers what it would answer whole: *)
(* mget_nonatomic returns the values in the order of the keys, and exists,   *)
(* touch, delete and unlink return the sum that one server would, whatever   *)
(* slots the keys fall into and however often a key is named.                *)
SplitAnswersAlike ==
  method \in {"mget", "exists", "delete", "touch", "unlink"} =>
    LET names == {"a", "b", "c"}
    IN  \A keys \in UNION {[1..n -> names] : n \in 0..4} :
          \A slot \in [names -> {0, 1}], absent \in SUBSET names :
            LET store == [k \in names |-> IF k \in absent THEN Missing ELSE k]
            IN  /\ MGetNonatomic(keys, slot, store) = MGet(keys, store)
                /\ \A c \in {"EXISTS", "TOUCH", "DEL", "UNLINK"} :
                     SplitCommandAcrossSlots(c, keys, slot, store)
                       = CountKeys(c, keys, store)

-----------------------------------------------------------------------------
(* However the calls on a BitFieldOperation, several execute() among them,   *)
(* mix overflow behaviours, the server runs every operation with the one the *)
(* caller named last for that command, or else with the default.             *)
OverflowAsAsked ==
  method = "bitfield" =>
    \A default \in Overflows \cup {Unset}, calls \in [1..4 -> Calls] :
      LET b == FoldLeft(LAMBDA builder, c : Apply(builder, c, default),
                        NewBuilder(default), calls)
      IN  [i \in DOMAIN b.sent |-> Effects(b.sent[i])]
            = Asked(calls, IF default = Unset THEN "WRAP" ELSE default)
=============================================================================
