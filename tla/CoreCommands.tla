---------------------------- MODULE CoreCommands ----------------------------
(* The builders of redis/commands/core.py, in the order of the file: one     *)
(* field per method, one definition per stretch of related methods.          *)
EXTENDS CommandBuilder

ACLUsers ==
  [acl_cat |-> Cmd("ACL CAT", YesArg("category")),
   acl_dryrun |-> Cmd("ACL DRYRUN", Arg("username") \o List("args")),
   acl_deluser |-> Cmd("ACL DELUSER", List("username")),
   acl_genpass |-> Cmd("ACL GENPASS", Valid("bits") \o OptArg("bits")),
   acl_getuser |-> Cmd("ACL GETUSER", Arg("username")), acl_help |-> Word("ACL HELP"),
   acl_list |-> Word("ACL LIST"), acl_log |-> Cmd("ACL LOG", Valid("count") \o OptArg("count")),
   acl_log_reset |-> Cmd("ACL LOG", Word("RESET")), acl_load |-> Word("ACL LOAD"),
   acl_save |-> Word("ACL SAVE")]

(* A password, category or command that is removed rather than added has the prefix < or -       *)
(* instead of the one here.                                                                      *)
ACLRules ==
  [acl_setuser |-> Cmd("ACL SETUSER", Arg("username") \o Flag("reset", "reset")
       \o Flag("resetkeys", "reset_keys") \o Flag("resetchannels", "reset_channels")
       \o Flag("resetpass", "reset_passwords") \o Flag("on", "enabled")
       \o Unless("off", "enabled") \o Raise({Yes("passwords"), Yes("nopass")})
       \o Raise({Yes("hashed_passwords"), Yes("nopass")}) \o Valid("passwords")
       \o Each(">", "passwords") \o Valid("hashed_passwords") \o Each("#", "hashed_passwords")
       \o Flag("nopass", "nopass") \o Valid("categories") \o Each("+@", "categories")
       \o Valid("commands") \o Each("+", "commands") \o Each("~", "keys")
       \o Each("&", "channels") \o Valid("selectors") \o Each("( )", "selectors"))]

ACLSelf ==
  [acl_users |-> Word("ACL USERS"), acl_whoami |-> Word("ACL WHOAMI")]

ServerAndClients ==
  [auth |-> Cmd("AUTH", OptArg("username") \o Arg("password")),
   bgrewriteaof |-> Word("BGREWRITEAOF"),
   bgsave |-> Cmd("BGSAVE", On("schedule") \o Flag("SCHEDULE", "schedule")),
   role |-> Word("ROLE"), client_kill |-> Cmd("CLIENT KILL", Arg("address")),
   client_kill_filter |-> Cmd("CLIENT KILL", Valid("_type") \o Opt("TYPE", "_type")
       \o Valid("skipme") \o Flag("SKIPME YES", "skipme")
       \o If({Is("skipme"), No("skipme")}, Word("SKIPME NO")) \o Opt("ID", "_id")
       \o Opt("ADDR", "addr") \o Opt("LADDR", "laddr") \o Opt("USER", "user")
       \o Opt("MAXAGE", "maxage")
       \o Raise({None("_type"), None("skipme"), None("_id"), None("addr"), None("laddr"),
       None("user"), None("maxage")})),
   client_info |-> Word("CLIENT INFO"),
   client_list |-> Cmd("CLIENT LIST", Valid("_type") \o Opt("TYPE", "_type")
       \o Valid("client_id") \o If({Yes("client_id")}, Word("ID") \o List("client_id"))),
   client_getname |-> Word("CLIENT GETNAME")]

ClientTracking(state) ==
  Cmd("CLIENT TRACKING", Raise({Yes("prefix"), No("bcast")}) \o state \o Opt("REDIRECT", "clientid")
    \o Each("PREFIX", "prefix") \o Flag("BCAST", "bcast") \o Flag("OPTIN", "optin")
    \o Flag("OPTOUT", "optout") \o Flag("NOLOOP", "noloop"))

ClientTrackingGroup ==
  [client_getredir |-> Word("CLIENT GETREDIR"),
   client_reply |-> Cmd("CLIENT REPLY", Valid("reply") \o Arg("reply")),
   client_id |-> Word("CLIENT ID"), client_tracking_on |-> ClientTracking(Word("ON")),
   client_tracking_off |-> ClientTracking(Word("OFF")),
   client_tracking |-> ClientTracking(On("on") \o Flag("ON", "on") \o Unless("OFF", "on")),
   client_trackinginfo |-> Word("CLIENT TRACKINGINFO")]

ClientControl ==
  [client_setname |-> Cmd("CLIENT SETNAME", Arg("name")),
   client_setinfo |-> Cmd("CLIENT SETINFO", Args(<<"attr", "value">>)),
   client_unblock |-> Cmd("CLIENT UNBLOCK", Arg("client_id") \o Flag("ERROR", "error")),
   client_pause |-> Cmd("CLIENT PAUSE", Valid("timeout") \o Arg("timeout") \o On("all")
       \o Unless("WRITE", "all")),
   client_unpause |-> Word("CLIENT UNPAUSE"),
   client_no_evict |-> Cmd("CLIENT NO-EVICT", Arg("mode")),
   client_no_touch |-> Cmd("CLIENT NO-TOUCH", Arg("mode")), command |-> Word("COMMAND"),
   command_info |-> NotImplemented, command_count |-> Word("COMMAND COUNT"),
   command_list |-> Cmd("COMMAND LIST", IfNot({None("module"), None("category"),
       None("pattern")}, Word("FILTERBY")) \o Opt("MODULE", "module")
       \o Opt("ACLCAT", "category") \o Opt("PATTERN", "pattern")),
   command_getkeysandflags |-> Cmd("COMMAND GETKEYSANDFLAGS", List("args"))]

Configuration ==
  [command_docs |-> NotImplemented,
   config_get |-> Cmd("CONFIG GET", Arg("pattern") \o List("args")),
   config_set |-> Cmd("CONFIG SET", Args(<<"name", "value">>) \o List("args")),
   config_resetstat |-> Word("CONFIG RESETSTAT"), config_rewrite |-> Word("CONFIG REWRITE"),
   dbsize |-> Word("DBSIZE"), debug_object |-> Cmd("DEBUG OBJECT", Arg("key")),
   debug_segfault |-> NotImplemented, echo |-> Cmd("ECHO", Arg("value")),
   flushall |-> Cmd("FLUSHALL", Flag("ASYNC", "asynchronous")),
   flushdb |-> Cmd("FLUSHDB", Flag("ASYNC", "asynchronous")), sync |-> Word("SYNC"),
   psync |-> Cmd("PSYNC", Args(<<"replicationid", "offset">>)),
   swapdb |-> Cmd("SWAPDB", Args(<<"first", "second">>)), select |-> Cmd("SELECT", Arg("index"))]

Introspection ==
  [info |-> Cmd("INFO", If({Is("section")}, Arg("section") \o List("args"))),
   lastsave |-> Word("LASTSAVE"), latency_doctor |-> NotImplemented,
   latency_graph |-> NotImplemented,
   lolwut |-> Flag("LOLWUT VERSION", "version_numbers") \o Unless("LOLWUT", "version_numbers")
       \o List("version_numbers"),
   reset |-> Word("RESET"),
   migrate |-> Cmd("MIGRATE", Raise({No("keys")}) \o Args(<<"host", "port">>) \o Word("")
       \o Args(<<"destination_db", "timeout">>) \o Flag("COPY", "copy")
       \o Flag("REPLACE", "replace") \o IfYes("AUTH", "auth") \o Word("KEYS") \o List("keys")),
   object |-> Cmd("OBJECT", Args(<<"infotype", "key">>)), memory_doctor |-> NotImplemented,
   memory_help |-> NotImplemented]

MemoryAndLatency ==
  [memory_stats |-> Word("MEMORY STATS"), memory_malloc_stats |-> Word("MEMORY MALLOC-STATS"),
   memory_usage |-> Cmd("MEMORY USAGE", Arg("key") \o Opt("SAMPLES", "samples")),
   memory_purge |-> Word("MEMORY PURGE"), latency_histogram |-> NotImplemented,
   latency_history |-> Cmd("LATENCY HISTORY", Arg("event")),
   latency_latest |-> Word("LATENCY LATEST"),
   latency_reset |-> Cmd("LATENCY RESET", List("events")), ping |-> Word("PING"),
   quit |-> Word("QUIT"), replicaof |-> Cmd("REPLICAOF", List("args")), save |-> Word("SAVE")]

Administration ==
  [shutdown |-> Cmd("SHUTDOWN", Raise({Yes("save"), Yes("nosave")}) \o Flag("SAVE", "save")
       \o Flag("NOSAVE", "nosave") \o Flag("NOW", "now") \o Flag("FORCE", "force")
       \o Flag("ABORT", "abort")),
   slaveof |-> Cmd("SLAVEOF", If({None("host"), None("port")}, Word("NO ONE"))
       \o IfNot({None("host"), None("port")}, Args(<<"host", "port">>))),
   slowlog_get |-> Cmd("SLOWLOG GET", OptArg("num")), slowlog_len |-> Word("SLOWLOG LEN"),
   slowlog_reset |-> Word("SLOWLOG RESET"), time |-> Word("TIME"),
   wait |-> Cmd("WAIT", Args(<<"num_replicas", "timeout">>)),
   waitaof |-> Cmd("WAITAOF", Args(<<"num_local", "num_replicas", "timeout">>)),
   hello |-> NotImplemented, failover |-> NotImplemented]

Bits ==
  [append |-> Cmd("APPEND", Args(<<"key", "value">>)),
   bitcount |-> Cmd("BITCOUNT", Key("key")
       \o If({Is("start"), Is("end")}, Args(<<"start", "end">>))
       \o Raise({Is("start"), None("end")}) \o Raise({Is("end"), None("start")})
       \o OptArg("mode")),
   bitfield_ro |-> Cmd("BITFIELD_RO", Key("key") \o Word("GET")
       \o Args(<<"encoding", "offset">>) \o Each("GET", "items")),
   bitop |-> Cmd("BITOP", Args(<<"operation", "dest">>) \o List("keys")),
   bitpos |-> Cmd("BITPOS", Valid("bit") \o Key("key") \o Arg("bit") \o OptArg("start")
       \o If({Is("start"), Is("end")}, Arg("end")) \o Raise({None("start"), Is("end")})
       \o OptArg("mode")),
   copy |-> Cmd("COPY", Args(<<"source", "destination">>) \o Opt("DB", "destination_db")
       \o Flag("REPLACE", "replace")),
   decrby |-> Cmd("DECRBY", Args(<<"name", "amount">>))]

ExpireCondition ==
  Flag("NX", "nx") \o Flag("XX", "xx") \o Flag("GT", "gt") \o Flag("LT", "lt")

KeyLifetime ==
  [delete |-> Cmd("DEL", List("names")), dump |-> Cmd("DUMP", Arg("name")),
   exists |-> Cmd("EXISTS", Keys("names")),
   expire |-> Cmd("EXPIRE", Args(<<"name", "time">>) \o ExpireCondition),
   expireat |-> Cmd("EXPIREAT", Args(<<"name", "when">>) \o ExpireCondition),
   expiretime |-> Cmd("EXPIRETIME", Arg("key")), get |-> Cmd("GET", Key("name")),
   getdel |-> Cmd("GETDEL", Arg("name"))]

(* The mutual exclusion of the expiry options and `flag`, as the code tests it: on the set of    *)
(* their values.                                                                                 *)
ExpiryCheck(flag) == OpSet(<<"ex", "px", "exat", "pxat">>, flag)

(* extract_expire_flags: the first one given wins.                                               *)
ExpireFlags ==
  Opt("EX", "ex") \o If({None("ex")}, Opt("PX", "px") \o If({None("px")},
    Opt("EXAT", "exat") \o If({None("exat")}, Opt("PXAT", "pxat"))))

StringReads ==
  [getex |-> Cmd("GETEX", ExpiryCheck("persist") \o Arg("name") \o ExpireFlags
       \o Flag("PERSIST", "persist")),
   getbit |-> Cmd("GETBIT", Key("name") \o Arg("offset")),
   getrange |-> Cmd("GETRANGE", Key("key") \o Args(<<"start", "end">>)),
   getset |-> Cmd("GETSET", Args(<<"name", "value">>)),
   incrby |-> Cmd("INCRBY", Args(<<"name", "amount">>)),
   incrbyfloat |-> Cmd("INCRBYFLOAT", Args(<<"name", "amount">>)),
   keys |-> Cmd("KEYS", Arg("pattern")),
   lmove |-> Cmd("LMOVE", Args(<<"first_list", "second_list", "src", "dest">>)),
   blmove |-> Cmd("BLMOVE", Args(<<"first_list", "second_list", "src", "dest", "timeout">>))]

MultipleKeys ==
  [mget |-> Cmd("MGET", Keys("keys")), mset |-> Cmd("MSET", List("mapping")),
   msetnx |-> Cmd("MSETNX", List("mapping")), move |-> Cmd("MOVE", Args(<<"name", "db">>)),
   persist |-> Cmd("PERSIST", Arg("name")),
   pexpire |-> Cmd("PEXPIRE", Args(<<"name", "time">>) \o ExpireCondition),
   pexpireat |-> Cmd("PEXPIREAT", Args(<<"name", "when">>) \o ExpireCondition),
   pexpiretime |-> Cmd("PEXPIRETIME", Arg("key")),
   psetex |-> Cmd("PSETEX", Args(<<"name", "time_ms", "value">>))]

KeyNames ==
  [pttl |-> Cmd("PTTL", Arg("name")),
   hrandfield |-> Cmd("HRANDFIELD", Arg("key") \o OptArg("count")
       \o Flag("WITHVALUES", "withvalues")),
   randomkey |-> Word("RANDOMKEY"), rename |-> Cmd("RENAME", Args(<<"src", "dst">>)),
   renamenx |-> Cmd("RENAMENX", Args(<<"src", "dst">>)),
   restore |-> Cmd("RESTORE", Args(<<"name", "ttl", "value">>) \o Flag("REPLACE", "replace")
       \o Flag("ABSTTL", "absttl") \o Valid("idletime") \o Opt("IDLETIME", "idletime")
       \o Valid("frequency") \o Opt("FREQ", "frequency"))]

StringWrites ==
  [set |-> Cmd("SET", ExpiryCheck("keepttl") \o Raise({Yes("nx"), Yes("xx")})
       \o Args(<<"name", "value">>) \o ExpireFlags \o Flag("KEEPTTL", "keepttl")
       \o Flag("NX", "nx") \o Flag("XX", "xx") \o Flag("GET", "get")),
   setbit |-> Cmd("SETBIT", Args(<<"name", "offset">>) \o Flag("1", "value")
       \o Unless("0", "value")),
   setex |-> Cmd("SETEX", Args(<<"name", "time", "value">>)),
   setnx |-> Cmd("SETNX", Args(<<"name", "value">>)),
   setrange |-> Cmd("SETRANGE", Args(<<"name", "offset", "value">>))]

StringAlgorithms ==
  [stralgo |-> Cmd("STRALGO", Valid("algo") \o Valid("specific_argument")
       \o Raise({Yes("len"), Yes("idx")})
       \o Args(<<"algo", "specific_argument", "value1", "value2">>) \o Flag("LEN", "len")
       \o Flag("IDX", "idx") \o Opt("MINMATCHLEN", "minmatchlen")
       \o Flag("WITHMATCHLEN", "withmatchlen")),
   strlen |-> Cmd("STRLEN", Key("name")),
   substr |-> Cmd("SUBSTR", Key("name") \o Args(<<"start", "end">>)),
   touch |-> Cmd("TOUCH", List("args")), ttl |-> Cmd("TTL", Arg("name")),
   type |-> Cmd("TYPE", Key("name")), unlink |-> Cmd("UNLINK", List("names"))]

CommonSubsequence ==
  [lcs |-> Cmd("LCS", Key("key1") \o Key("key2") \o Flag("LEN", "len") \o Flag("IDX", "idx")
       \o IfYes("MINMATCHLEN", "minmatchlen") \o Flag("WITHMATCHLEN", "withmatchlen"))]

ListBlocking ==
  [blpop |-> Cmd("BLPOP", List("keys") \o Arg("timeout")),
   brpop |-> Cmd("BRPOP", List("keys") \o Arg("timeout")),
   brpoplpush |-> Cmd("BRPOPLPUSH", Args(<<"src", "dst", "timeout">>)),
   blmpop |-> Cmd("BLMPOP", Args(<<"timeout", "numkeys">>) \o List("args") \o Arg("direction")
       \o Word("COUNT") \o Arg("count")),
   lmpop |-> Cmd("LMPOP", Arg("num_keys") \o List("args") \o Arg("direction")
       \o Opt("COUNT", "count")),
   lindex |-> Cmd("LINDEX", Key("name") \o Arg("index")),
   linsert |-> Cmd("LINSERT", Args(<<"name", "where", "refvalue", "value">>)),
   llen |-> Cmd("LLEN", Key("name"))]

ListEnds ==
  [lpop |-> Cmd("LPOP", Arg("name") \o OptArg("count")),
   lpush |-> Cmd("LPUSH", Arg("name") \o List("values")),
   lpushx |-> Cmd("LPUSHX", Arg("name") \o List("values")),
   lrange |-> Cmd("LRANGE", Key("name") \o Args(<<"start", "end">>)),
   lrem |-> Cmd("LREM", Args(<<"name", "count", "value">>)),
   lset |-> Cmd("LSET", Args(<<"name", "index", "value">>)),
   ltrim |-> Cmd("LTRIM", Args(<<"name", "start", "end">>)),
   rpop |-> Cmd("RPOP", Arg("name") \o OptArg("count")),
   rpoplpush |-> Cmd("RPOPLPUSH", Args(<<"src", "dst">>)),
   rpush |-> Cmd("RPUSH", Arg("name") \o List("values")),
   rpushx |-> Cmd("RPUSHX", Arg("name") \o List("values"))]

SortPieces(key) ==
  Raise({Is("start"), None("num")}) \o Raise({Is("num"), None("start")}) \o Cmd("SORT", Key(key)
    \o Opt("BY", "by") \o If({Is("start"), Is("num")}, Word("LIMIT") \o Args(<<"start", "num">>))
    \o Each("GET", "get") \o Flag("DESC", "desc") \o Flag("ALPHA", "alpha"))

ListSorting ==
  [lpos |-> Cmd("LPOS", Key("name") \o Arg("value") \o Opt("RANK", "rank")
       \o Opt("COUNT", "count") \o Opt("MAXLEN", "maxlen")),
   sort |-> SortPieces("name") \o Opt("STORE", "store") \o Raise({Yes("groups"), Few("get")}),
   sort_ro |-> SortPieces("key")]

Cursors ==
  [scan |-> Cmd("SCAN", Arg("cursor") \o Opt("MATCH", "match") \o Opt("COUNT", "count")
       \o Opt("TYPE", "_type")),
   sscan |-> Cmd("SSCAN", Args(<<"name", "cursor">>) \o Opt("MATCH", "match")
       \o Opt("COUNT", "count")),
   hscan |-> Cmd("HSCAN", Args(<<"name", "cursor">>) \o Opt("MATCH", "match")
       \o Opt("COUNT", "count") \o If({Is("no_values")}, Word("NOVALUES")))]

SortedSetCursor ==
  [zscan |-> Cmd("ZSCAN", Args(<<"name", "cursor">>) \o Opt("MATCH", "match")
       \o Opt("COUNT", "count"))]

SetMembers ==
  [sadd |-> Cmd("SADD", Arg("name") \o List("values")), scard |-> Cmd("SCARD", Key("name")),
   sdiff |-> Cmd("SDIFF", Keys("keys")),
   sdiffstore |-> Cmd("SDIFFSTORE", Arg("dest") \o List("keys")),
   sinter |-> Cmd("SINTER", Keys("keys")),
   sintercard |-> Cmd("SINTERCARD", Arg("numkeys") \o Keys("keys") \o Word("LIMIT")
       \o Arg("limit")),
   sinterstore |-> Cmd("SINTERSTORE", Arg("dest") \o List("keys")),
   sismember |-> Cmd("SISMEMBER", Key("name") \o Arg("value")),
   smembers |-> Cmd("SMEMBERS", Key("name")),
   smismember |-> Cmd("SMISMEMBER", Key("name") \o List("values")),
   smove |-> Cmd("SMOVE", Args(<<"src", "dst", "value">>)),
   spop |-> Cmd("SPOP", Arg("name") \o OptArg("count")),
   srandmember |-> Cmd("SRANDMEMBER", Arg("name") \o OptArg("number"))]

SetOperations ==
  [srem |-> Cmd("SREM", Arg("name") \o List("values")), sunion |-> Cmd("SUNION", Keys("keys")),
   sunionstore |-> Cmd("SUNIONSTORE", Arg("dest") \o List("keys"))]

StreamEntries ==
  [xack |-> Cmd("XACK", Args(<<"name", "groupname">>) \o List("ids")),
   xadd |-> Cmd("XADD", Raise({Is("maxlen"), Is("minid")}) \o Valid("maxlen")
       \o Valid("fields") \o Raise({No("fields")}) \o Arg("name") \o On("approximate")
       \o If({Is("maxlen")}, Word("MAXLEN") \o Flag("~", "approximate") \o Arg("maxlen"))
       \o If({Is("minid")}, Word("MINID") \o Flag("~", "approximate") \o Arg("minid"))
       \o Opt("LIMIT", "limit") \o Flag("NOMKSTREAM", "nomkstream") \o Arg("id")
       \o List("fields")),
   xautoclaim |-> Cmd("XAUTOCLAIM", Valid("min_idle_time")
       \o Args(<<"name", "groupname", "consumername", "min_idle_time", "start_id">>)
       \o Valid("count") \o Opt("COUNT", "count") \o Flag("JUSTID", "justid"))]

StreamClaims ==
  [xclaim |-> Cmd("XCLAIM", Valid("min_idle_time") \o Raise({No("message_ids")})
       \o Args(<<"name", "groupname", "consumername", "min_idle_time">>)
       \o List("message_ids") \o Valid("idle") \o Opt("IDLE", "idle") \o Valid("time")
       \o Opt("TIME", "time") \o Valid("retrycount") \o Opt("RETRYCOUNT", "retrycount")
       \o Valid("force") \o Flag("FORCE", "force") \o Valid("justid") \o Flag("JUSTID", "justid")),
   xdel |-> Cmd("XDEL", Arg("name") \o List("ids")),
   xgroup_create |-> Cmd("XGROUP CREATE", Args(<<"name", "groupname", "id">>)
       \o Flag("MKSTREAM", "mkstream") \o Opt("ENTRIESREAD", "entries_read")),
   xgroup_delconsumer |-> Cmd("XGROUP DELCONSUMER", Args(<<"name", "groupname", "consumername">>)),
   xgroup_destroy |-> Cmd("XGROUP DESTROY", Args(<<"name", "groupname">>))]

NoRange == {None("min"), None("max"), None("count")}

StreamGroups ==
  [xgroup_createconsumer |-> Cmd("XGROUP CREATECONSUMER", Args(<<"name", "groupname",
       "consumername">>)),
   xgroup_setid |-> Cmd("XGROUP SETID", Args(<<"name", "groupname", "id">>)
       \o Opt("ENTRIESREAD", "entries_read")),
   xinfo_consumers |-> Cmd("XINFO CONSUMERS", Args(<<"name", "groupname">>)),
   xinfo_groups |-> Cmd("XINFO GROUPS", Arg("name")),
   xinfo_stream |-> Cmd("XINFO STREAM", Arg("name") \o Flag("FULL", "full")),
   xlen |-> Cmd("XLEN", Key("name")),
   xpending |-> Cmd("XPENDING", Key("name") \o Arg("groupname")),
   xpending_range |-> Cmd("XPENDING", Args(<<"name", "groupname">>)
       \o If(NoRange, Declare("name") \o Raise({Is("idle")}) \o Raise({Is("consumername")}))
       \o IfNot(NoRange, Raise({None("min")}) \o Raise({None("max")})
       \o Raise({None("count")}) \o Valid("idle") \o Opt("IDLE", "idle") \o Valid("count")
       \o Args(<<"min", "max", "count">>) \o YesArg("consumername")))]

StreamReads ==
  [xrange |-> Cmd("XRANGE", Valid("count") \o Key("name") \o Args(<<"min", "max">>)
       \o Opt("COUNT", "count")),
   xread |-> Cmd("XREAD", Valid("block") \o Opt("BLOCK", "block") \o Valid("count")
       \o Opt("COUNT", "count") \o Valid("streams") \o Raise({No("streams")})
       \o Word("STREAMS") \o Keys("streams") \o List("streams")),
   xreadgroup |-> Cmd("XREADGROUP", Word("GROUP") \o Args(<<"groupname", "consumername">>)
       \o Valid("count") \o Opt("COUNT", "count") \o Valid("block") \o Opt("BLOCK", "block")
       \o Flag("NOACK", "noack") \o Valid("streams") \o Raise({No("streams")})
       \o Word("STREAMS") \o List("streams") \o List("streams")),
   xrevrange |-> Cmd("XREVRANGE", Valid("count") \o Key("name") \o Args(<<"max", "min">>)
       \o Opt("COUNT", "count"))]

StreamTrim ==
  [xtrim |-> Cmd("XTRIM", Raise({Is("maxlen"), Is("minid")})
       \o Raise({None("maxlen"), None("minid")}) \o Arg("name")
       \o If({Is("maxlen")}, Word("MAXLEN")) \o If({Is("minid")}, Word("MINID"))
       \o On("approximate") \o Flag("~", "approximate") \o OptArg("maxlen") \o OptArg("minid")
       \o Opt("LIMIT", "limit"))]

(* _zaggregate; `weights` are the values of a `keys` that is a mapping.                         *)
Aggregate(command, dest) ==
  Cmd(command, dest \o Size(<<"keys">>) \o Keys("keys")
    \o If({Yes("weights")}, Word("WEIGHTS") \o List("weights"))
    \o Valid("aggregate") \o IfYes("AGGREGATE", "aggregate"))

SortedSetAdd ==
  [zadd |-> Cmd("ZADD", Raise({No("mapping")}) \o Raise({Yes("nx"), Yes("xx")})
       \o Raise({Yes("gt"), Yes("lt")}) \o Raise({Yes("incr"), Many("mapping")})
       \o Raise({Yes("nx"), Yes("gt")}) \o Raise({Yes("nx"), Yes("lt")}) \o Arg("name")
       \o Flag("NX", "nx") \o Flag("XX", "xx") \o Flag("CH", "ch") \o Flag("INCR", "incr")
       \o Flag("GT", "gt") \o Flag("LT", "lt") \o List("mapping")),
   zcard |-> Cmd("ZCARD", Key("name")),
   zcount |-> Cmd("ZCOUNT", Key("name") \o Args(<<"min", "max">>)),
   zdiff |-> Cmd("ZDIFF", Size(<<"keys">>) \o Keys("keys") \o Flag("WITHSCORES", "withscores")),
   zdiffstore |-> Cmd("ZDIFFSTORE", Arg("dest") \o Counted("keys")),
   zincrby |-> Cmd("ZINCRBY", Args(<<"name", "amount", "value">>)),
   zinter |-> Aggregate("ZINTER", Nothing) \o Flag("WITHSCORES", "withscores")]

SortedSetPops ==
  [zinterstore |-> Aggregate("ZINTERSTORE", OptArg("dest")),
   zintercard |-> Cmd("ZINTERCARD", Arg("numkeys") \o Keys("keys") \o Word("LIMIT")
       \o Arg("limit")),
   zlexcount |-> Cmd("ZLEXCOUNT", Key("name") \o Args(<<"min", "max">>)),
   zpopmax |-> Cmd("ZPOPMAX", Arg("name") \o OptArg("count")),
   zpopmin |-> Cmd("ZPOPMIN", Arg("name") \o OptArg("count")),
   zrandmember |-> Cmd("ZRANDMEMBER", Arg("key") \o OptArg("count")
       \o Flag("WITHSCORES", "withscores")),
   bzpopmax |-> Cmd("BZPOPMAX", List("keys") \o Arg("timeout")),
   bzpopmin |-> Cmd("BZPOPMIN", List("keys") \o Arg("timeout"))]

MinOrMax ==
  Raise({Yes("min"), Yes("max")}) \o Raise({No("min"), No("max")}) \o Flag("MIN", "min")
    \o Unless("MAX", "min")

(* zmpop's count is 1 when it is left out, and a count of 1 is not sent: the absent argument     *)
(* stands for 1 here, and not for None, which the encoder refuses.                               *)
SortedSetMultiPops ==
  [zmpop |-> Cmd("ZMPOP", Arg("num_keys") \o List("keys") \o MinOrMax \o Opt("COUNT", "count")),
   bzmpop |-> Cmd("BZMPOP", Args(<<"timeout", "numkeys">>) \o List("keys") \o MinOrMax
       \o Word("COUNT") \o Arg("count"))]

Limit(first, number) ==
  Raise({Is(first), None(number)}) \o Raise({Is(number), None(first)})
    \o If({Is(first), Is(number)}, Word("LIMIT") \o Args(<<first, number>>))

(* _zrange after its key and its bounds.                                                         *)
RangePieces ==
  Raise({Yes("byscore"), Yes("bylex")}) \o Flag("BYSCORE", "byscore") \o Flag("BYLEX", "bylex")
    \o Flag("REV", "desc") \o Limit("offset", "num")

OnlyReversed == {No("byscore"), No("bylex"), None("offset"), None("num"), Yes("desc")}

(* zrevrange passes `keys` its name and not a list of it: the cache would take the name apart    *)
(* into characters, and no key is declared.                                                      *)
SortedSetRanges ==
  [zrange |-> If(OnlyReversed, Word("ZREVRANGE")) \o IfNot(OnlyReversed, Word("ZRANGE")
       \o Declare("name")) \o Args(<<"name", "start", "end">>)
       \o IfNot(OnlyReversed, RangePieces \o Raise({Yes("bylex"), Yes("withscores")}))
       \o Flag("WITHSCORES", "withscores"),
   zrevrange |-> Cmd("ZREVRANGE", Args(<<"name", "start", "end">>)
       \o Flag("WITHSCORES", "withscores")),
   zrangestore |-> Cmd("ZRANGESTORE", YesArg("dest") \o Key("name")
       \o Args(<<"start", "end">>) \o RangePieces)]

SortedSetRangeForms ==
  [zrangebylex |-> Cmd("ZRANGEBYLEX", Key("name") \o Args(<<"min", "max">>)
       \o Limit("start", "num")),
   zrevrangebylex |-> Cmd("ZREVRANGEBYLEX", Key("name") \o Args(<<"max", "min">>)
       \o Limit("start", "num")),
   zrangebyscore |-> Cmd("ZRANGEBYSCORE", Key("name") \o Args(<<"min", "max">>)
       \o Limit("start", "num") \o Flag("WITHSCORES", "withscores")),
   zrevrangebyscore |-> Cmd("ZREVRANGEBYSCORE", Key("name") \o Args(<<"max", "min">>)
       \o Limit("start", "num") \o Flag("WITHSCORES", "withscores")),
   zrank |-> Cmd("ZRANK", Key("name") \o Arg("value") \o Flag("WITHSCORE", "withscore")),
   zrem |-> Cmd("ZREM", Arg("name") \o List("values"))]

SortedSetRemovals ==
  [zremrangebylex |-> Cmd("ZREMRANGEBYLEX", Args(<<"name", "min", "max">>)),
   zremrangebyrank |-> Cmd("ZREMRANGEBYRANK", Args(<<"name", "min", "max">>)),
   zremrangebyscore |-> Cmd("ZREMRANGEBYSCORE", Args(<<"name", "min", "max">>)),
   zrevrank |-> Cmd("ZREVRANK", Key("name") \o Arg("value") \o Flag("WITHSCORE", "withscore")),
   zscore |-> Cmd("ZSCORE", Key("name") \o Arg("value")),
   zunion |-> Aggregate("ZUNION", Nothing) \o Flag("WITHSCORES", "withscores"),
   zunionstore |-> Aggregate("ZUNIONSTORE", OptArg("dest")),
   zmscore |-> Cmd("ZMSCORE", Raise({No("members")}) \o Key("key") \o List("members"))]

HyperLogLogs ==
  [pfadd |-> Cmd("PFADD", Arg("name") \o List("values")),
   pfcount |-> Cmd("PFCOUNT", List("sources")),
   pfmerge |-> Cmd("PFMERGE", Arg("dest") \o List("sources"))]

HashReads ==
  [hdel |-> Cmd("HDEL", Arg("name") \o List("keys")),
   hexists |-> Cmd("HEXISTS", Key("name") \o Arg("key")),
   hget |-> Cmd("HGET", Key("name") \o Arg("key")), hgetall |-> Cmd("HGETALL", Key("name")),
   hgetdel |-> Cmd("HGETDEL", Raise({No("keys")}) \o Arg("name") \o Word("FIELDS")
       \o Counted("keys")),
   hgetex |-> Cmd("HGETEX", Raise({No("keys")}) \o ExpiryCheck("persist") \o Arg("name")
       \o ExpireFlags \o Flag("PERSIST", "persist") \o Word("FIELDS") \o Counted("keys")),
   hincrby |-> Cmd("HINCRBY", Args(<<"name", "key", "amount">>)),
   hincrbyfloat |-> Cmd("HINCRBYFLOAT", Args(<<"name", "key", "amount">>)),
   hkeys |-> Cmd("HKEYS", Key("name")), hlen |-> Cmd("HLEN", Key("name"))]

NoPairs    == Raise({None("key"), No("mapping"), No("items")})
FieldPairs == List("items") \o If({Is("key")}, Args(<<"key", "value">>)) \o List("mapping")

HashWrites ==
  [hset |-> Cmd("HSET", NoPairs \o Arg("name") \o FieldPairs),
   hsetex |-> Cmd("HSETEX", NoPairs \o Valid("items") \o ExpiryCheck("keepttl") \o Arg("name")
       \o ExpireFlags \o YesArg("data_persist_option") \o Flag("KEEPTTL", "keepttl")
       \o Word("FIELDS") \o Size(<<"items", "key", "mapping">>) \o FieldPairs),
   hsetnx |-> Cmd("HSETNX", Args(<<"name", "key", "value">>)),
   hmset |-> Cmd("HMSET", Raise({No("mapping")}) \o Arg("name") \o List("mapping"))]

OneCondition == AtMostOne(<<"nx", "xx", "gt", "lt">>)

HashExpiry ==
  [hmget |-> Cmd("HMGET", Key("name") \o List("keys")), hvals |-> Cmd("HVALS", Key("name")),
   hstrlen |-> Cmd("HSTRLEN", Key("name") \o Arg("key")),
   hexpire |-> Cmd("HEXPIRE", OneCondition \o Args(<<"name", "seconds">>) \o ExpireCondition
       \o Word("FIELDS") \o Counted("fields")),
   hpexpire |-> Cmd("HPEXPIRE", OneCondition \o Args(<<"name", "milliseconds">>)
       \o ExpireCondition \o Word("FIELDS") \o Counted("fields"))]

HashExpireAt ==
  [hexpireat |-> Cmd("HEXPIREAT", OneCondition \o Args(<<"name", "unix_time_seconds">>)
       \o ExpireCondition \o Word("FIELDS") \o Counted("fields")),
   hpexpireat |-> Cmd("HPEXPIREAT", OneCondition \o Args(<<"name", "unix_time_milliseconds">>)
       \o ExpireCondition \o Word("FIELDS") \o Counted("fields")),
   hpersist |-> Cmd("HPERSIST", Arg("name") \o Word("FIELDS") \o Counted("fields"))]

HashTTL ==
  [hexpiretime |-> Cmd("HEXPIRETIME", Key("key") \o Word("FIELDS") \o Counted("fields")),
   hpexpiretime |-> Cmd("HPEXPIRETIME", Key("key") \o Word("FIELDS") \o Counted("fields")),
   httl |-> Cmd("HTTL", Key("key") \o Word("FIELDS") \o Counted("fields")),
   hpttl |-> Cmd("HPTTL", Key("key") \o Word("FIELDS") \o Counted("fields"))]

Publishing ==
  [publish |-> Cmd("PUBLISH", Args(<<"channel", "message">>)),
   spublish |-> Cmd("SPUBLISH", Args(<<"shard_channel", "message">>)),
   pubsub_channels |-> Cmd("PUBSUB CHANNELS", Arg("pattern")),
   pubsub_shardchannels |-> Cmd("PUBSUB SHARDCHANNELS", Arg("pattern")),
   pubsub_numpat |-> Word("PUBSUB NUMPAT"), pubsub_numsub |-> Cmd("PUBSUB NUMSUB", List("args")),
   pubsub_shardnumsub |-> Cmd("PUBSUB SHARDNUMSUB", List("args"))]

Scripting ==
  [eval |-> Cmd("EVAL", Args(<<"script", "numkeys">>) \o List("keys_and_args")),
   eval_ro |-> Cmd("EVAL_RO", Args(<<"script", "numkeys">>) \o List("keys_and_args")),
   evalsha |-> Cmd("EVALSHA", Args(<<"sha", "numkeys">>) \o List("keys_and_args")),
   evalsha_ro |-> Cmd("EVALSHA_RO", Args(<<"sha", "numkeys">>) \o List("keys_and_args")),
   script_exists |-> Cmd("SCRIPT EXISTS", List("args")), script_debug |-> NotImplemented,
   script_flush |-> Cmd("SCRIPT FLUSH", Valid("sync_type") \o OptArg("sync_type")),
   script_kill |-> Word("SCRIPT KILL"), script_load |-> Cmd("SCRIPT LOAD", Arg("script"))]

(* _georadiusgeneric                                                                             *)
GeoRadius ==
  Valid("unit") \o YesArg("unit") \o Unless("m", "unit") \o Raise({Yes("any"), None("count")})
    \o Flag("WITHDIST", "withdist") \o Flag("WITHCOORD", "withcoord") \o Flag("WITHHASH", "withhash")
    \o Opt("COUNT", "count") \o If({Is("count")}, Flag("ANY", "any")) \o Valid("sort")
    \o YesArg("sort") \o Raise({Yes("store"), Yes("store_dist")}) \o IfYes("STORE", "store")
    \o IfYes("STOREDIST", "store_dist")

GeoRadiusGroup ==
  [geoadd |-> Cmd("GEOADD", Raise({Yes("nx"), Yes("xx")}) \o Valid("values") \o Arg("name")
       \o Flag("NX", "nx") \o Flag("XX", "xx") \o Flag("CH", "ch") \o List("values")),
   geodist |-> Cmd("GEODIST", Valid("unit") \o Key("name") \o Args(<<"place1", "place2">>)
       \o YesArg("unit")),
   geohash |-> Cmd("GEOHASH", Key("name") \o List("values")),
   geopos |-> Cmd("GEOPOS", Key("name") \o List("values")),
   georadius |-> Cmd("GEORADIUS", Args(<<"name", "longitude", "latitude", "radius">>)
       \o GeoRadius)]

GeoByMember ==
  [georadiusbymember |-> Cmd("GEORADIUSBYMEMBER", Args(<<"name", "member", "radius">>)
       \o GeoRadius)]

(* _geosearchgeneric                                                                             *)
GeoSearch ==
  If({None("member")}, Raise({None("longitude")}) \o Raise({None("latitude")}))
    \o If({Yes("member")}, Raise({Yes("longitude")}) \o Raise({Yes("latitude")})
                             \o Word("FROMMEMBER") \o Arg("member"))
    \o If({Is("longitude"), Is("latitude")},
          Word("FROMLONLAT") \o Args(<<"longitude", "latitude">>))
    \o If({None("radius")}, Raise({None("width")}) \o Raise({None("height")}))
    \o On("unit") \o Valid("unit")
    \o If({Yes("radius")}, Raise({Yes("width")}) \o Raise({Yes("height")})
                             \o Word("BYRADIUS") \o Args(<<"radius", "unit">>))
    \o If({Yes("width"), Yes("height")}, Word("BYBOX") \o Args(<<"width", "height", "unit">>))
    \o Valid("sort") \o YesArg("sort") \o IfYes("COUNT", "count")
    \o If({Yes("count")}, Flag("ANY", "any")) \o Raise({No("count"), Yes("any")})

GeoSearchGroup ==
  [geosearch |-> Cmd("GEOSEARCH", Key("name") \o GeoSearch \o Flag("WITHDIST", "withdist")
       \o Flag("WITHCOORD", "withcoord") \o Flag("WITHHASH", "withhash")),
   geosearchstore |-> Cmd("GEOSEARCHSTORE", Arg("dest") \o Key("name") \o GeoSearch
       \o Flag("STOREDIST", "storedist"))]

ModuleAdministration ==
  [module_load |-> Cmd("MODULE LOAD", Arg("path") \o List("args")),
   module_loadex |-> Cmd("MODULE LOADEX", Arg("path") \o If({Is("options")}, Word("CONFIG")
       \o List("options")) \o If({Is("args")}, Word("ARGS") \o List("args"))),
   module_unload |-> Cmd("MODULE UNLOAD", Arg("name")), module_list |-> Word("MODULE LIST"),
   command_info |-> NotImplemented, command_count |-> Word("COMMAND COUNT"),
   command_getkeys |-> Cmd("COMMAND GETKEYS", List("args")), command |-> Word("COMMAND")]

ClusterGroup ==
  [cluster |-> Cmd("CLUSTER", Arg("cluster_arg") \o List("args")),
   readwrite |-> Word("READWRITE"), readonly |-> Word("READONLY")]

FunctionLibraries ==
  [function_load |-> Cmd("FUNCTION LOAD", Flag("REPLACE", "replace") \o Arg("code")),
   function_delete |-> Cmd("FUNCTION DELETE", Arg("library")),
   function_flush |-> Cmd("FUNCTION FLUSH", Arg("mode")),
   function_list |-> Cmd("FUNCTION LIST", Word("LIBRARYNAME") \o Arg("library")
       \o Flag("WITHCODE", "withcode")),
   fcall |-> Cmd("FCALL", Args(<<"function", "numkeys">>) \o List("keys_and_args")),
   fcall_ro |-> Cmd("FCALL_RO", Args(<<"function", "numkeys">>) \o List("keys_and_args")),
   function_dump |-> Word("FUNCTION DUMP"),
   function_restore |-> Cmd("FUNCTION RESTORE", Args(<<"payload", "policy">>)),
   function_kill |-> Word("FUNCTION KILL"), function_stats |-> Word("FUNCTION STATS")]

-----------------------------------------------------------------------------
CoreBuilders ==
  ACLUsers @@ ACLRules @@ ACLSelf @@ ServerAndClients @@
  ClientTrackingGroup @@ ClientControl @@ Configuration @@ Introspection @@
  MemoryAndLatency @@ Administration @@ Bits @@ KeyLifetime @@
  StringReads @@ MultipleKeys @@ KeyNames @@ StringWrites @@
  StringAlgorithms @@ ListBlocking @@ ListEnds @@ ListSorting @@
  Cursors @@ SortedSetCursor @@ CommonSubsequence @@ SetMembers @@ SetOperations @@ StreamEntries @@
  StreamClaims @@ StreamGroups @@ StreamReads @@ StreamTrim @@
  SortedSetAdd @@ SortedSetPops @@ SortedSetMultiPops @@ SortedSetRanges @@
  SortedSetRangeForms @@ SortedSetRemovals @@ HyperLogLogs @@ HashReads @@
  HashWrites @@ HashExpiry @@ HashExpireAt @@ HashTTL @@
  Publishing @@ Scripting @@ GeoRadiusGroup @@ GeoByMember @@
  GeoSearchGroup @@ ModuleAdministration @@ ClusterGroup @@ FunctionLibraries
=============================================================================
