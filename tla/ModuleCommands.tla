--------------------------- MODULE ModuleCommands ---------------------------
(* The builders of redis/commands/json, bf, timeseries, vectorset, sentinel  *)
(* and search: one field per method, prefixed with its module's name.  The   *)
(* words of a Query, an AggregateRequest, a Field or an IndexDefinition are  *)
(* builders of their own, since the object is what the method is given.      *)
EXTENDS CommandBuilder

JSONArrays ==
  [json_arrappend |-> Cmd("JSON.ARRAPPEND", Args(<<"name", "path">>) \o List("args")),
   json_arrindex |-> Cmd("JSON.ARRINDEX", Key("name") \o Args(<<"path", "scalar">>)
       \o OptArg("start") \o If({Is("start"), Is("stop")}, Arg("stop"))),
   json_arrinsert |-> Cmd("JSON.ARRINSERT", Args(<<"name", "path", "index">>) \o List("args")),
   json_arrlen |-> Cmd("JSON.ARRLEN", Key("name") \o Arg("path")),
   json_arrpop |-> Cmd("JSON.ARRPOP", Args(<<"name", "path", "index">>)),
   json_arrtrim |-> Cmd("JSON.ARRTRIM", Args(<<"name", "path", "start", "stop">>)),
   json_type |-> Cmd("JSON.TYPE", Key("name") \o Arg("path")),
   json_resp |-> Cmd("JSON.RESP", Key("name") \o Arg("path")),
   json_objkeys |-> Cmd("JSON.OBJKEYS", Key("name") \o Arg("path")),
   json_objlen |-> Cmd("JSON.OBJLEN", Key("name") \o Arg("path"))]

JSONValues ==
  [json_numincrby |-> Cmd("JSON.NUMINCRBY", Args(<<"name", "path", "number">>)),
   json_nummultby |-> Cmd("JSON.NUMMULTBY", Args(<<"name", "path", "number">>)),
   json_clear |-> Cmd("JSON.CLEAR", Args(<<"name", "path">>)),
   json_delete |-> Cmd("JSON.DEL", Args(<<"key", "path">>)),
   json_get |-> Cmd("JSON.GET", Key("name") \o Flag("noescape", "no_escape")
       \o Unless(".", "args") \o List("args")),
   json_mget |-> Cmd("JSON.MGET", Keys("keys") \o Arg("path"))]

JSONWrites ==
  [json_set |-> Cmd("JSON.SET", Args(<<"name", "path", "obj">>)
       \o Raise({Yes("nx"), Yes("xx")}) \o Flag("NX", "nx") \o Flag("XX", "xx")),
   json_mset |-> Cmd("JSON.MSET", List("triplets")),
   json_merge |-> Cmd("JSON.MERGE", Args(<<"name", "path", "obj">>))]

(* debug is the MEMORY subcommand; HELP takes no arguments.                                      *)
JSONStrings ==
  [json_strlen |-> Cmd("JSON.STRLEN", Key("name") \o OptArg("path")),
   json_toggle |-> Cmd("JSON.TOGGLE", Args(<<"name", "path">>)),
   json_strappend |-> Cmd("JSON.STRAPPEND", Args(<<"name", "path", "value">>)),
   json_debug |-> Cmd("JSON.DEBUG", Word("MEMORY") \o Args(<<"key", "path">>))]

(* append_no_scale and append_no_create test for None, so that an explicit False sets the flag.   *)
NoScale     == If({Is("noScale")}, Word("NONSCALING"))
NoCreate(p) == If({Is(p)}, Word("NOCREATE"))

BloomFilters ==
  [bf_create |-> Cmd("BF.RESERVE", Args(<<"key", "errorRate", "capacity">>)
       \o Opt("EXPANSION", "expansion") \o NoScale),
   bf_add |-> Cmd("BF.ADD", Args(<<"key", "item">>)),
   bf_madd |-> Cmd("BF.MADD", Arg("key") \o List("items")),
   bf_insert |-> Cmd("BF.INSERT", Arg("key") \o Opt("CAPACITY", "capacity")
       \o Opt("ERROR", "error") \o Opt("EXPANSION", "expansion") \o NoCreate("noCreate")
       \o NoScale \o Word("ITEMS") \o List("items")),
   bf_exists |-> Cmd("BF.EXISTS", Args(<<"key", "item">>)),
   bf_mexists |-> Cmd("BF.MEXISTS", Arg("key") \o List("items")),
   bf_scandump |-> Cmd("BF.SCANDUMP", Args(<<"key", "iter">>)),
   bf_loadchunk |-> Cmd("BF.LOADCHUNK", Args(<<"key", "iter", "data">>)),
   bf_info |-> Cmd("BF.INFO", Arg("key")), bf_card |-> Cmd("BF.CARD", Arg("key"))]

CuckooFilters ==
  [cf_create |-> Cmd("CF.RESERVE", Args(<<"key", "capacity">>)
       \o Opt("EXPANSION", "expansion") \o Opt("BUCKETSIZE", "bucket_size")
       \o Opt("MAXITERATIONS", "max_iterations")),
   cf_add |-> Cmd("CF.ADD", Args(<<"key", "item">>)),
   cf_addnx |-> Cmd("CF.ADDNX", Args(<<"key", "item">>)),
   cf_insert |-> Cmd("CF.INSERT", Arg("key") \o Opt("CAPACITY", "capacity")
       \o NoCreate("nocreate") \o Word("ITEMS") \o List("items")),
   cf_insertnx |-> Cmd("CF.INSERTNX", Arg("key") \o Opt("CAPACITY", "capacity")
       \o NoCreate("nocreate") \o Word("ITEMS") \o List("items")),
   cf_exists |-> Cmd("CF.EXISTS", Args(<<"key", "item">>)),
   cf_mexists |-> Cmd("CF.MEXISTS", Arg("key") \o List("items")),
   cf_delete |-> Cmd("CF.DEL", Args(<<"key", "item">>)),
   cf_count |-> Cmd("CF.COUNT", Args(<<"key", "item">>)),
   cf_scandump |-> Cmd("CF.SCANDUMP", Args(<<"key", "iter">>)),
   cf_loadchunk |-> Cmd("CF.LOADCHUNK", Args(<<"key", "iter", "data">>)),
   cf_info |-> Cmd("CF.INFO", Arg("key"))]

(* An item and its increment are one token of `items`.                                           *)
TopKs ==
  [topk_reserve |-> Cmd("TOPK.RESERVE", Args(<<"key", "k", "width", "depth", "decay">>)),
   topk_add |-> Cmd("TOPK.ADD", Arg("key") \o List("items")),
   topk_incrby |-> Cmd("TOPK.INCRBY", Arg("key") \o List("items")),
   topk_query |-> Cmd("TOPK.QUERY", Arg("key") \o List("items")),
   topk_count |-> Cmd("TOPK.COUNT", Arg("key") \o List("items")),
   topk_list |-> Cmd("TOPK.LIST", Arg("key") \o Flag("WITHCOUNT", "withcount")),
   topk_info |-> Cmd("TOPK.INFO", Arg("key"))]

TDigests ==
  [tdigest_create |-> Cmd("TDIGEST.CREATE", Arg("key") \o Word("COMPRESSION")
       \o Arg("compression")),
   tdigest_reset |-> Cmd("TDIGEST.RESET", Arg("key")),
   tdigest_add |-> Cmd("TDIGEST.ADD", Arg("key") \o List("values")),
   tdigest_merge |-> Cmd("TDIGEST.MERGE", Args(<<"destination_key", "num_keys">>)
       \o List("keys") \o Opt("COMPRESSION", "compression") \o Flag("OVERRIDE", "override")),
   tdigest_min |-> Cmd("TDIGEST.MIN", Arg("key")), tdigest_max |-> Cmd("TDIGEST.MAX", Arg("key")),
   tdigest_quantile |-> Cmd("TDIGEST.QUANTILE", Args(<<"key", "quantile">>) \o List("quantiles")),
   tdigest_cdf |-> Cmd("TDIGEST.CDF", Args(<<"key", "value">>) \o List("values")),
   tdigest_info |-> Cmd("TDIGEST.INFO", Arg("key")),
   tdigest_trimmed_mean |-> Cmd("TDIGEST.TRIMMED_MEAN", Args(<<"key", "low_cut_quantile",
       "high_cut_quantile">>)),
   tdigest_rank |-> Cmd("TDIGEST.RANK", Args(<<"key", "value">>) \o List("values")),
   tdigest_revrank |-> Cmd("TDIGEST.REVRANK", Args(<<"key", "value">>) \o List("values")),
   tdigest_byrank |-> Cmd("TDIGEST.BYRANK", Args(<<"key", "rank">>) \o List("ranks")),
   tdigest_byrevrank |-> Cmd("TDIGEST.BYREVRANK", Args(<<"key", "rank">>) \o List("ranks"))]

CountMinSketches ==
  [cms_initbydim |-> Cmd("CMS.INITBYDIM", Args(<<"key", "width", "depth">>)),
   cms_initbyprob |-> Cmd("CMS.INITBYPROB", Args(<<"key", "error", "probability">>)),
   cms_incrby |-> Cmd("CMS.INCRBY", Arg("key") \o List("items")),
   cms_query |-> Cmd("CMS.QUERY", Arg("key") \o List("items")),
   cms_merge |-> Cmd("CMS.MERGE", Args(<<"destKey", "numKeys">>) \o List("srcKeys")
       \o If({Yes("weights")}, Word("WEIGHTS") \o List("weights"))),
   cms_info |-> Cmd("CMS.INFO", Arg("key"))]

(* The _append_ helpers at the end of timeseries/commands.py.                                    *)
WithLabels ==
  Raise({Yes("with_labels"), Yes("select_labels")}) \o Flag("WITHLABELS", "with_labels")
    \o If({Yes("select_labels")}, Word("SELECTED_LABELS") \o List("select_labels"))
Labels      == If({Yes("labels")}, Word("LABELS") \o List("labels"))
Aggregation ==
  On("bucket_size_msec") \o If({Is("aggregation_type")},
    Word("AGGREGATION") \o Args(<<"aggregation_type", "bucket_size_msec">>))
InsertionFilters ==
  Raise({None("ignore_max_time_diff"), Is("ignore_max_val_diff")})
    \o Raise({Is("ignore_max_time_diff"), None("ignore_max_val_diff")})
    \o If({Is("ignore_max_time_diff"), Is("ignore_max_val_diff")},
          Word("IGNORE") \o Args(<<"ignore_max_time_diff", "ignore_max_val_diff">>))
FilterBy ==
  Flag("LATEST", "latest") \o If({Is("filter_by_ts")}, Word("FILTER_BY_TS") \o List("filter_by_ts"))
    \o If({Is("filter_by_min_value"), Is("filter_by_max_value")},
          Word("FILTER_BY_VALUE") \o Args(<<"filter_by_min_value", "filter_by_max_value">>))
Buckets ==
  Opt("COUNT", "count") \o Opt("ALIGN", "align") \o Aggregation
    \o Opt("BUCKETTIMESTAMP", "bucket_timestamp") \o Flag("EMPTY", "empty")
GroupBy ==
  If({Is("groupby"), Is("reduce")},
     Word("GROUPBY") \o Arg("groupby") \o Word("REDUCE") \o Arg("reduce"))

RangeParams  == Key("key") \o Args(<<"from_time", "to_time">>) \o FilterBy \o Buckets
MRangeParams ==
  Args(<<"from_time", "to_time">>) \o FilterBy \o WithLabels \o Buckets \o Word("FILTER")
    \o List("filters") \o GroupBy

SeriesCreation ==
  [ts_create |-> Cmd("TS.CREATE", Arg("key") \o Opt("RETENTION", "retention_msecs")
       \o Flag("ENCODING UNCOMPRESSED", "uncompressed") \o Opt("CHUNK_SIZE", "chunk_size")
       \o Opt("DUPLICATE_POLICY", "duplicate_policy") \o Labels \o InsertionFilters),
   ts_alter |-> Cmd("TS.ALTER", Arg("key") \o Opt("RETENTION", "retention_msecs")
       \o Opt("CHUNK_SIZE", "chunk_size") \o Opt("DUPLICATE_POLICY", "duplicate_policy")
       \o Labels \o InsertionFilters)]

SeriesAdd ==
  [ts_add |-> Cmd("TS.ADD", Args(<<"key", "timestamp", "value">>)
       \o Opt("RETENTION", "retention_msecs") \o Flag("ENCODING UNCOMPRESSED", "uncompressed")
       \o Opt("CHUNK_SIZE", "chunk_size") \o Opt("DUPLICATE_POLICY", "duplicate_policy")
       \o Labels \o InsertionFilters \o Opt("ON_DUPLICATE", "on_duplicate")),
   ts_madd |-> Cmd("TS.MADD", List("ktv_tuples"))]

SeriesIncrement ==
  [ts_incrby |-> Cmd("TS.INCRBY", Args(<<"key", "value">>) \o Opt("TIMESTAMP", "timestamp")
       \o Opt("RETENTION", "retention_msecs") \o Flag("ENCODING UNCOMPRESSED", "uncompressed")
       \o Opt("CHUNK_SIZE", "chunk_size") \o Opt("DUPLICATE_POLICY", "duplicate_policy")
       \o Labels \o InsertionFilters)]

SeriesDecrement ==
  [ts_decrby |-> Cmd("TS.DECRBY", Args(<<"key", "value">>) \o Opt("TIMESTAMP", "timestamp")
       \o Opt("RETENTION", "retention_msecs") \o Flag("ENCODING UNCOMPRESSED", "uncompressed")
       \o Opt("CHUNK_SIZE", "chunk_size") \o Opt("DUPLICATE_POLICY", "duplicate_policy")
       \o Labels \o InsertionFilters)]

SeriesRules ==
  [ts_delete |-> Cmd("TS.DEL", Args(<<"key", "from_time", "to_time">>)),
   ts_createrule |-> Cmd("TS.CREATERULE", Args(<<"source_key", "dest_key">>) \o Aggregation
       \o OptArg("align_timestamp")),
   ts_deleterule |-> Cmd("TS.DELETERULE", Args(<<"source_key", "dest_key">>))]

SeriesRange ==
  [ts_range |-> Cmd("TS.RANGE", RangeParams)]

SeriesRevRange ==
  [ts_revrange |-> Cmd("TS.REVRANGE", RangeParams)]

SeriesMRange ==
  [ts_mrange |-> Cmd("TS.MRANGE", MRangeParams)]

SeriesMRevRange ==
  [ts_mrevrange |-> Cmd("TS.MREVRANGE", MRangeParams)]

SeriesReads ==
  [ts_get |-> Cmd("TS.GET", Key("key") \o Flag("LATEST", "latest")),
   ts_mget |-> Cmd("TS.MGET", Flag("LATEST", "latest") \o WithLabels \o Word("FILTER")
       \o List("filters")),
   ts_info |-> Cmd("TS.INFO", Key("key")), ts_queryindex |-> Cmd("TS.QUERYINDEX", List("filters"))]

(* A vector is a list of numbers, or bytes.                                                      *)
VAdd(values) ==
  Raise({No("vector")}) \o Raise({No("element")}) \o Cmd("VADD", Arg("key")
    \o IfYes("REDUCE", "reduce_dim") \o values \o Arg("element") \o Flag("CAS", "cas")
    \o YesArg("quantization") \o IfYes("EF", "ef") \o IfYes("SETATTR", "attributes")
    \o IfYes("M", "numlinks"))

VectorWrites ==
  [vadd |-> VAdd(Word("VALUES") \o Counted("vector")), vadd_bytes |-> VAdd(Word("FP32")
       \o Arg("vector"))]

VSim(query) ==
  Raise({No("input")}) \o Cmd("VSIM", Arg("key") \o query \o Flag("WITHSCORES", "with_scores")
    \o IfYes("COUNT", "count") \o IfYes("EF", "ef") \o IfYes("FILTER", "filter")
    \o IfYes("FILTER-EF", "filter_ef") \o Flag("TRUTH", "truth") \o Flag("NOTHREAD", "no_thread"))

VectorSimilarity ==
  [vsim |-> VSim(Word("ELE") \o Arg("input")), vsim_values |-> VSim(Word("VALUES")
       \o Counted("input")), vsim_bytes |-> VSim(Word("FP32") \o Arg("input"))]

VectorReads ==
  [vdim |-> Cmd("VDIM", Arg("key")), vcard |-> Cmd("VCARD", Arg("key")),
   vrem |-> Cmd("VREM", Args(<<"key", "element">>)),
   vemb |-> Cmd("VEMB", Args(<<"key", "element">>) \o Flag("RAW", "raw")),
   vlinks |-> Cmd("VLINKS", Args(<<"key", "element">>) \o Flag("WITHSCORES", "with_scores")),
   vinfo |-> Cmd("VINFO", Arg("key"))]

VectorAttributes ==
  [vsetattr |-> Cmd("VSETATTR", Args(<<"key", "element">>) \o OptArg("attributes")
       \o If({None("attributes")}, Word("{}"))),
   vgetattr |-> Cmd("VGETATTR", Args(<<"key", "element">>)),
   vrandmember |-> Cmd("VRANDMEMBER", Arg("key") \o OptArg("count"))]

SentinelAdministration ==
  [sentinel_get_master_addr_by_name |-> Cmd("SENTINEL GET-MASTER-ADDR-BY-NAME",
       Arg("service_name")),
   sentinel_master |-> Cmd("SENTINEL MASTER", Arg("service_name")),
   sentinel_masters |-> Word("SENTINEL MASTERS"),
   sentinel_monitor |-> Cmd("SENTINEL MONITOR", Args(<<"name", "ip", "port", "quorum">>)),
   sentinel_remove |-> Cmd("SENTINEL REMOVE", Arg("name")),
   sentinel_sentinels |-> Cmd("SENTINEL SENTINELS", Arg("service_name")),
   sentinel_set |-> Cmd("SENTINEL SET", Args(<<"name", "option", "value">>)),
   sentinel_slaves |-> Cmd("SENTINEL SLAVES", Arg("service_name")),
   sentinel_reset |-> Cmd("SENTINEL RESET", Arg("pattern")),
   sentinel_failover |-> Cmd("SENTINEL FAILOVER", Arg("new_master_name")),
   sentinel_ckquorum |-> Cmd("SENTINEL CKQUORUM", Arg("new_master_name")),
   sentinel_flushconfig |-> Word("SENTINEL FLUSHCONFIG")]

(* index_name, which the Search object adds, is a parameter of each.                             *)
SearchIndexes ==
  [ft_create_index |-> Cmd("FT.CREATE", Arg("index_name") \o List("definition")
       \o Flag("MAXTEXTFIELDS", "max_text_fields") \o Opt("TEMPORARY", "temporary")
       \o Flag("NOOFFSETS", "no_term_offsets") \o Flag("NOHL", "no_highlight")
       \o Flag("NOFIELDS", "no_field_flags") \o Flag("NOFREQS", "no_term_frequencies")
       \o Flag("SKIPINITIALSCAN", "skip_initial_scan")
       \o If({Is("stopwords")}, Word("STOPWORDS") \o Counted("stopwords"))
       \o Word("SCHEMA") \o List("fields")),
   ft_alter_schema_add |-> Cmd("FT.ALTER", Arg("index_name") \o Word("SCHEMA ADD")
       \o List("fields")),
   ft_dropindex |-> Cmd("FT.DROPINDEX", Arg("index_name") \o Flag("DD", "delete_documents"))]

SearchDocuments ==
  [ft_add_document |-> Cmd("FT.ADD", Args(<<"index_name", "doc_id", "score">>)
       \o Flag("NOSAVE", "nosave") \o Opt("PAYLOAD", "payload")
       \o IfNot({No("replace"), No("partial"), No("no_create")}, Word("REPLACE"))
       \o Flag("PARTIAL", "partial") \o Flag("NOCREATE", "no_create")
       \o IfYes("LANGUAGE", "language") \o Word("FIELDS") \o List("fields")),
   ft_add_document_hash |-> Cmd("FT.ADDHASH", Args(<<"index_name", "doc_id", "score">>)
       \o Flag("REPLACE", "replace") \o IfYes("LANGUAGE", "language"))]

SearchLookups ==
  [ft_delete_document |-> Cmd("FT.DEL", Args(<<"index_name", "doc_id">>)
       \o Flag("DD", "delete_actual_document")),
   ft_load_document |-> Cmd("HGETALL", Key("id")),
   ft_get |-> Cmd("FT.MGET", Arg("index_name") \o List("ids")),
   ft_info |-> Cmd("FT.INFO", Arg("index_name"))]

(* get_params_args; the size of a mapping counts its pairs where the code counts its words.      *)
ParamsArgs == If({Yes("query_params")}, Word("params") \o Counted("query_params"))

(* Query.get_args over the state the Query's setters leave.                                      *)
SummarizeArgs ==
  If({Yes("summarize")}, Word("SUMMARIZE")
    \o If({Yes("sum_fields")}, Word("FIELDS") \o Counted("sum_fields"))
    \o Opt("LEN", "context_len") \o Opt("FRAGS", "num_frags") \o Opt("SEPARATOR", "sep"))
HighlightArgs ==
  If({Yes("highlight")}, Word("HIGHLIGHT")
    \o If({Yes("high_fields")}, Word("FIELDS") \o Counted("high_fields"))
    \o If({Yes("tags")}, Word("TAGS") \o List("tags")))
QueryTags ==
  Flag("NOCONTENT", "no_content")
    \o If({Yes("limit_fields")}, Word("INFIELDS") \o Counted("limit_fields"))
    \o Flag("VERBATIM", "verbatim") \o Flag("NOSTOPWORDS", "no_stopwords") \o List("filters")
    \o Flag("WITHPAYLOADS", "with_payloads") \o IfYes("SCORER", "scorer")
    \o Flag("WITHSCORES", "with_scores")
    \o If({Yes("limit_ids")}, Word("INKEYS") \o Counted("limit_ids"))
    \o Opt("SLOP", "slop") \o Opt("TIMEOUT", "timeout") \o Flag("INORDER", "in_order")
    \o If({Yes("return_fields")}, Word("RETURN") \o Counted("return_fields"))
    \o If({Yes("sort_by")}, Word("SORTBY") \o Arg("sort_by") \o On("asc") \o Flag("ASC", "asc")
                              \o Unless("DESC", "asc"))
    \o IfYes("LANGUAGE", "language") \o IfYes("EXPANDER", "expander") \o On("dialect")
    \o IfYes("DIALECT", "dialect")
QueryArgs ==
  Arg("query_string") \o QueryTags \o SummarizeArgs \o HighlightArgs \o Word("LIMIT")
    \o Args(<<"offset", "num">>)

(* AggregateRequest.build_args; `plan` holds the words of the steps that group_by, apply, limit, *)
(* sort_by and filter append.                                                                    *)
AggregateArgs ==
  Arg("query") \o Flag("WITHSCHEMA", "with_schema") \o Flag("VERBATIM", "verbatim") \o On("scorer")
    \o IfYes("SCORER", "scorer") \o Flag("ADDSCORES", "add_scores")
    \o If({Yes("cursor")},
          Word("WITHCURSOR") \o IfYes("COUNT", "count") \o IfYes("MAXIDLE", "max_idle"))
    \o If({Yes("load_all")}, Word("LOAD *"))
    \o If({No("load_all"), Yes("load_fields")}, Word("LOAD") \o Counted("load_fields"))
    \o On("dialect") \o IfYes("DIALECT", "dialect") \o List("plan")

SearchQueries ==
  [ft_search |-> Cmd("FT.SEARCH", Arg("index_name") \o QueryArgs \o ParamsArgs),
   ft_explain |-> Cmd("FT.EXPLAIN", Arg("index_name") \o QueryArgs \o ParamsArgs),
   ft_explain_cli |-> NotImplemented,
   ft_aggregate |-> Cmd("FT.AGGREGATE", Arg("index_name") \o AggregateArgs \o ParamsArgs)]

(* profile of an AggregateRequest leaves its query_params out.                                   *)
SearchProfile ==
  [ft_profile |-> Cmd("FT.PROFILE", Arg("index_name") \o Word("SEARCH") \o Flag("LIMITED", "limited")
       \o Word("QUERY") \o QueryArgs \o ParamsArgs),
   ft_profile_aggregate |-> Cmd("FT.PROFILE", Arg("index_name") \o Word("AGGREGATE")
       \o Flag("LIMITED", "limited") \o Word("QUERY") \o AggregateArgs \o Ignored("query_params")),
   ft_spellcheck |-> Cmd("FT.SPELLCHECK", Args(<<"index_name", "query">>)
       \o IfYes("DISTANCE", "distance") \o IfYes("TERMS INCLUDE", "include")
       \o IfYes("TERMS EXCLUDE", "exclude")),
   ft_dict_add |-> Cmd("FT.DICTADD", Arg("name") \o List("terms")),
   ft_dict_del |-> Cmd("FT.DICTDEL", Arg("name") \o List("terms")),
   ft_dict_dump |-> Cmd("FT.DICTDUMP", Arg("name")),
   ft_config_set |-> Cmd("FT.CONFIG", Word("SET") \o Args(<<"option", "value">>)),
   ft_config_get |-> Cmd("FT.CONFIG", Word("GET") \o Arg("option"))]

(* sugadd sends one such command for each suggestion, in a pipeline.                             *)
SearchSuggestions ==
  [ft_tagvals |-> Cmd("FT.TAGVALS", Args(<<"index_name", "tagfield">>)),
   ft_aliasadd |-> Cmd("FT.ALIASADD", Args(<<"alias", "index_name">>)),
   ft_aliasupdate |-> Cmd("FT.ALIASUPDATE", Args(<<"alias", "index_name">>)),
   ft_aliasdel |-> Cmd("FT.ALIASDEL", Arg("alias")),
   ft_sugadd |-> Cmd("FT.SUGADD", Args(<<"key", "string", "score">>) \o Flag("INCR", "increment")
       \o IfYes("PAYLOAD", "payload")),
   ft_suglen |-> Cmd("FT.SUGLEN", Arg("key")),
   ft_sugdel |-> Cmd("FT.SUGDEL", Args(<<"key", "string">>)),
   ft_sugget |-> Cmd("FT.SUGGET", Args(<<"key", "prefix">>) \o Word("MAX") \o Arg("num")
       \o Flag("FUZZY", "fuzzy") \o Flag("WITHSCORES", "with_scores")
       \o Flag("WITHPAYLOADS", "with_payloads"))]

SearchSynonyms ==
  [ft_synupdate |-> Cmd("FT.SYNUPDATE", Args(<<"index_name", "groupid">>)
       \o Flag("SKIPINITIALSCAN", "skipinitial") \o List("terms")),
   ft_syndump |-> Cmd("FT.SYNDUMP", Arg("index_name"))]

(* The steps of an aggregation plan and the reads of its cursor.                                 *)
AggregateSteps ==
  [aggregate_group_by |-> Cmd("GROUPBY", Counted("fields") \o If({Is("reducer")},
       Word("REDUCE") \o Arg("reducer") \o Counted("reducer_args") \o Opt("AS", "alias"))),
   aggregate_apply |-> Cmd("APPLY", Arg("expr") \o Opt("AS", "alias"))]
FieldReducers ==
  [reducer_count |-> Word("COUNT"), reducer_sum |-> Cmd("SUM", Arg("field")),
   reducer_min |-> Cmd("MIN", Arg("field")), reducer_max |-> Cmd("MAX", Arg("field")),
   reducer_avg |-> Cmd("AVG", Arg("field")), reducer_tolist |-> Cmd("TOLIST", Arg("field")),
   reducer_count_distinct |-> Cmd("COUNT_DISTINCT", Arg("field")),
   reducer_count_distinctish |-> Cmd("COUNT_DISTINCTISH", Arg("field"))]

SamplingReducers ==
  [reducer_quantile |-> Cmd("QUANTILE", Args(<<"field", "pct">>)),
   reducer_stddev |-> Cmd("STDDEV", Arg("field")),
   reducer_first_value |-> Cmd("FIRST_VALUE", Arg("field")
       \o If({Yes("byfields")}, Word("BY") \o List("byfields"))),
   reducer_random_sample |-> Cmd("RANDOM_SAMPLE", Args(<<"field", "size">>))]

AggregateOrder ==
  [aggregate_limit |-> If({Yes("num")}, Word("LIMIT") \o Arg("offset") \o Arg("num")),
   aggregate_sort_by |-> Cmd("SORTBY", Counted("fields") \o IfYes("MAX", "max")),
   aggregate_filter |-> Each("FILTER", "expressions")]
CursorRead ==
  [ft_cursor_read |-> Cmd("FT.CURSOR", Word("READ") \o Args(<<"index_name", "cid">>)
       \o IfYes("MAXIDLE", "max_idle") \o IfYes("COUNT", "count") \o ParamsArgs)]

(* Field.redis_args: the base class puts its options after those of the field's type.            *)
FieldOf(type) ==
  Arg("name") \o IfYes("AS", "as_name") \o type \o Flag("SORTABLE", "sortable")
    \o Flag("NOINDEX", "no_index") \o Flag("INDEXMISSING", "index_missing")
    \o Flag("INDEXEMPTY", "index_empty") \o Raise({Yes("no_index"), No("sortable")})

SchemaFields ==
  [field_text |-> FieldOf(Word("TEXT WEIGHT") \o Arg("weight") \o Flag("NOSTEM", "no_stem")
       \o IfYes("PHONETIC", "phonetic_matcher") \o Flag("WITHSUFFIXTRIE", "withsuffixtrie")),
   field_numeric |-> FieldOf(Word("NUMERIC")), field_geo |-> FieldOf(Word("GEO")),
   field_geoshape |-> FieldOf(Word("GEOSHAPE") \o YesArg("coord_system"))]
TagAndVectorFields ==
  [field_tag |-> FieldOf(Word("TAG SEPARATOR") \o Arg("separator")
       \o Flag("CASESENSITIVE", "case_sensitive") \o Flag("WITHSUFFIXTRIE", "withsuffixtrie")),
   field_vector |-> Raise({Yes("sortable")}) \o Raise({Yes("no_index")}) \o Valid("algorithm")
       \o FieldOf(Word("VECTOR") \o Arg("algorithm") \o Counted("attributes"))]

IndexDefinition ==
  [index_definition |-> Valid("index_type") \o Opt("ON", "index_type")
       \o If({Yes("prefix")}, Word("PREFIX") \o Counted("prefix")) \o Opt("FILTER", "filter")
       \o Opt("LANGUAGE_FIELD", "language_field") \o Opt("LANGUAGE", "language")
       \o Opt("SCORE_FIELD", "score_field") \o On("score") \o Opt("SCORE", "score")
       \o Opt("PAYLOAD_FIELD", "payload_field")]

-----------------------------------------------------------------------------
ModuleBuilders ==
  JSONArrays @@ JSONValues @@ JSONStrings @@ BloomFilters @@ CuckooFilters @@
  TopKs @@ TDigests @@ CountMinSketches @@ SeriesCreation @@ SeriesAdd @@
  SeriesIncrement @@ SeriesDecrement @@ SeriesRules @@ SeriesRange @@ SeriesRevRange @@
  SeriesMRange @@ SeriesMRevRange @@ SeriesReads @@ VectorWrites @@ VectorSimilarity @@
  VectorReads @@ SentinelAdministration @@ SearchIndexes @@ SearchDocuments @@ SearchLookups @@
  SearchQueries @@ SearchProfile @@ SearchSuggestions @@ SearchSynonyms @@ AggregateSteps @@
  FieldReducers @@ SamplingReducers @@ JSONWrites @@ VectorAttributes @@
  AggregateOrder @@ CursorRead @@ SchemaFields @@ TagAndVectorFields @@ IndexDefinition
=============================================================================
