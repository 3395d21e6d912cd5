--------------------------- MODULE ClusterCommands ---------------------------
(* redis/commands/cluster.py: the CLUSTER builders, and the commands on many *)
(* keys that a cluster client splits by slot.                                *)
EXTENDS CommandBuilder

ClusterSlots ==
  [cluster_myid |-> Word("CLUSTER MYID"),
   cluster_addslots |-> Cmd("CLUSTER ADDSLOTS", List("slots")),
   cluster_addslotsrange |-> Cmd("CLUSTER ADDSLOTSRANGE", List("slots")),
   cluster_countkeysinslot |-> Cmd("CLUSTER COUNTKEYSINSLOT", Arg("slot_id")),
   cluster_count_failure_report |-> Cmd("CLUSTER COUNT-FAILURE-REPORTS", Arg("node_id")),
   cluster_delslots |-> Each("CLUSTER DELSLOTS", "slots"), \* one command for each slot
   cluster_delslotsrange |-> Cmd("CLUSTER DELSLOTSRANGE", List("slots")),
   cluster_failover |-> Cmd("CLUSTER FAILOVER", Valid("option") \o YesArg("option"))]

ClusterNodes ==
  [cluster_info |-> Word("CLUSTER INFO"),
   cluster_keyslot |-> Cmd("CLUSTER KEYSLOT", Arg("key")),
   cluster_meet |-> Cmd("CLUSTER MEET", Args(<<"host", "port">>)),
   cluster_nodes |-> Word("CLUSTER NODES"),
   cluster_replicate |-> Cmd("CLUSTER REPLICATE", Arg("node_id")),
   cluster_reset |-> Cmd("CLUSTER RESET", On("soft") \o Flag("SOFT", "soft")
       \o Unless("HARD", "soft")),
   cluster_save_config |-> Word("CLUSTER SAVECONFIG"),
   cluster_get_keys_in_slot |-> Cmd("CLUSTER GETKEYSINSLOT", Args(<<"slot", "num_keys">>)),
   cluster_set_config_epoch |-> Cmd("CLUSTER SET-CONFIG-EPOCH", Arg("epoch")),
   cluster_setslot |-> Cmd("CLUSTER SETSLOT", Valid("state")
       \o Args(<<"slot_id", "state", "node_id">>)),
   cluster_setslot_stable |-> Cmd("CLUSTER SETSLOT", Arg("slot_id") \o Word("STABLE"))]

ClusterTopology ==
  [cluster_replicas |-> Cmd("CLUSTER REPLICAS", Arg("node_id")),
   cluster_slots |-> Word("CLUSTER SLOTS"), cluster_shards |-> Word("CLUSTER SHARDS"),
   cluster_myshardid |-> Word("CLUSTER MYSHARDID"),
   cluster_links |-> Word("CLUSTER LINKS"), cluster_flushslots |-> NotImplemented,
   cluster_bumpepoch |-> NotImplemented]

ClusterBuilders == ClusterSlots @@ ClusterNodes @@ ClusterTopology

-----------------------------------------------------------------------------
(* Commands on many keys: one command for each slot, sent as a pipeline in   *)
(* the order in which the slots first occur.  `slot` maps a key to its slot, *)
(* `store` to its value, or to Missing.                                      *)
Missing == "missing"

PartitionKeysBySlot(keys, slot) ==
  LET order == FoldLeft(LAMBDA seen, k : IF Contains(seen, slot[k]) THEN seen
                                         ELSE Append(seen, slot[k]), <<>>, keys)
  IN  [i \in DOMAIN order |-> SelectSeq(keys, LAMBDA k : slot[k] = order[i])]

(* What the servers answer to MGET and to the commands that count: EXISTS    *)
(* and TOUCH count a key as often as it is named, DEL and UNLINK find it     *)
(* gone the second time.                                                     *)
Once == {"DEL", "UNLINK"}

MGet(keys, store) == [i \in DOMAIN keys |-> store[keys[i]]]

CountKeys(command, keys, store) ==
  LET found == SelectSeq(keys, LAMBDA k : store[k] # Missing)
  IN  IF command \in Once THEN Cardinality(Range(found)) ELSE Len(found)

\* Mutant: the answers in the order of the slots.
AnswersAsTheyCome(keys, parts, responses) == FlattenSeq(responses)

ReorderKeysByCommand(keys, parts, responses) ==
  LET sentKeys == FlattenSeq(parts)
      values   == FlattenSeq(responses)
      results  == [k \in Range(sentKeys) |->
                     values[CHOOSE i \in DOMAIN sentKeys : sentKeys[i] = k]]
  IN  [i \in DOMAIN keys |-> results[keys[i]]]

MGetNonatomic(keys, slot, store) ==
  LET parts == PartitionKeysBySlot(keys, slot)
  IN  ReorderKeysByCommand(keys, parts, [i \in DOMAIN parts |-> MGet(parts[i], store)])

SplitCommandAcrossSlots(command, keys, slot, store) ==
  LET parts == PartitionKeysBySlot(keys, slot)
  IN  FoldLeft(LAMBDA sum, part : sum + CountKeys(command, part, store), 0, parts)
=============================================================================
