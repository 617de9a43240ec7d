------------------------------ MODULE Responses ------------------------------
(***************************************************************************)
(* The replies the proxy rewrites: Metadata and FindCoordinator carry the  *)
(* addresses of brokers, which are replaced by those of listeners.  The    *)
(* schemas of every version, the header of a reply, and the modifier; and, *)
(* as the reference, what a broker sends.                                  *)
(***************************************************************************)
EXTENDS Schema

Bool == Prim("bool")
Int16 == Prim("int16")
Int32 == Prim("int32")
Uuid == Prim("uuid")
Str == Prim("str")
NullableStr == Prim("nstr")
CompactStr == Prim("cstr")
CompactNullableStr == Prim("cnstr")

-----------------------------------------------------------------------------
(* createMetadataResponseSchemaVersions.                                   *)
metadataBrokerV0 == <<F("node_id", Int32), F("host", Str), F("port", Int32)>>
metadataBrokerV1 == metadataBrokerV0 \o <<F("rack", NullableStr)>>
metadataBrokerSchema9 ==
  <<F("node_id", Int32), F("host", CompactStr), F("port", Int32),
    F("rack", CompactNullableStr), TaggedFields>>

partitionMetadataV0 ==
  <<F("error_code", Int16), F("partition", Int32), F("leader", Int32),
    F("replicas", Array(Int32)), F("isr", Array(Int32))>>
partitionMetadataV2 == partitionMetadataV0 \o <<F("offline_replicas", Array(Int32))>>
partitionMetadataV7 ==
  SubSeq(partitionMetadataV2, 1, 3) \o <<F("leader_epoch", Int32)>>
    \o SubSeq(partitionMetadataV2, 4, 6)
partitionMetadataSchema9 ==
  SubSeq(partitionMetadataV7, 1, 4)
    \o <<F("replicas", CompactArray(Int32)), F("isr", CompactArray(Int32)),
         F("offline_replicas", CompactArray(Int32)), TaggedFields>>

topicMetadataV0 ==
  <<F("error_code", Int16), F("topic", Str),
    F("partition_metadata", Array(NewSchema(partitionMetadataV0)))>>
TopicMetadata(partition) ==    \* V1, V2 and V7
  <<F("error_code", Int16), F("topic", Str), F("is_internal", Bool),
    F("partition_metadata", Array(NewSchema(partition)))>>
topicMetadataV8 ==
  TopicMetadata(partitionMetadataV7) \o <<F("topic_authorized_operations", Int32)>>
TopicMetadataFlexible(head) == \* Schema9, 10 and 12
  head \o <<F("is_internal", Bool),
            F("partition_metadata", CompactArray(NewSchema(partitionMetadataSchema9))),
            F("topic_authorized_operations", Int32), TaggedFields>>
topicMetadataSchema9 ==
  TopicMetadataFlexible(<<F("error_code", Int16), F("name", CompactStr)>>)
topicMetadataSchema10 ==
  TopicMetadataFlexible(<<F("error_code", Int16), F("name", CompactStr), F("topic_id", Uuid)>>)
topicMetadataSchema12 ==
  TopicMetadataFlexible(
    <<F("error_code", Int16), F("name", CompactNullableStr), F("topic_id", Uuid)>>)

metadataResponseV0 ==
  <<F("brokers", Array(NewSchema(metadataBrokerV0))),
    F("topic_metadata", Array(NewSchema(topicMetadataV0)))>>
metadataResponseV1 ==
  <<F("brokers", Array(NewSchema(metadataBrokerV1))), F("controller_id", Int32),
    F("topic_metadata", Array(NewSchema(TopicMetadata(partitionMetadataV0))))>>
MetadataResponse(topic) ==     \* V3 to V8 begin with it, V2 with all but throttle_time_ms
  <<F("throttle_time_ms", Int32), F("brokers", Array(NewSchema(metadataBrokerV1))),
    F("cluster_id", NullableStr), F("controller_id", Int32),
    F("topic_metadata", Array(NewSchema(topic)))>>
metadataResponseV8 ==
  MetadataResponse(topicMetadataV8) \o <<F("cluster_authorized_operations", Int32)>>
MetadataResponseFlexible(topic, last) ==   \* V9 to V13
  <<F("throttle_time_ms", Int32), F("brokers", CompactArray(NewSchema(metadataBrokerSchema9))),
    F("cluster_id", CompactNullableStr), F("controller_id", Int32),
    F("topic_metadata", CompactArray(NewSchema(topic)))>> \o last \o <<TaggedFields>>

metadataResponseSchemaVersions ==
  LET tv1 == TopicMetadata(partitionMetadataV0)
      tv2 == TopicMetadata(partitionMetadataV2)
      tv7 == TopicMetadata(partitionMetadataV7)
      ops == <<F("cluster_authorized_operations", Int32)>>
  IN  <<metadataResponseV0, metadataResponseV1, Tail(MetadataResponse(tv1)),
        MetadataResponse(tv1), MetadataResponse(tv1),
        MetadataResponse(tv2), MetadataResponse(tv2), MetadataResponse(tv7),
        metadataResponseV8,
        MetadataResponseFlexible(topicMetadataSchema9, ops),
        MetadataResponseFlexible(topicMetadataSchema10, ops),
        MetadataResponseFlexible(topicMetadataSchema10, <<>>),
        MetadataResponseFlexible(topicMetadataSchema12, <<>>),
        MetadataResponseFlexible(topicMetadataSchema12, <<F("error_code", Int16)>>)>>

(* createFindCoordinatorResponseSchemaVersions.                            *)
findCoordinatorResponseSchemaVersions ==
  LET broker0 == NewSchema(metadataBrokerV0)
      broker9 == NewSchema(SubSeq(metadataBrokerSchema9, 1, 3))
      v1 == <<F("throttle_time_ms", Int32), F("error_code", Int16),
              F("error_message", NullableStr), F("coordinator", broker0)>>
      v3 == <<F("throttle_time_ms", Int32), F("error_code", Int16),
              F("error_message", CompactNullableStr), F("coordinator", broker9), TaggedFields>>
      coordinators ==
            <<F("key", CompactStr), F("coordinator", broker9), F("error_code", Int16),
              F("error_message", CompactNullableStr), TaggedFields>>
      v4 == <<F("throttle_time_ms", Int32),
              F("coordinators", CompactArray(NewSchema(coordinators))), TaggedFields>>
  IN  <<<<F("error_code", Int16), F("coordinator", broker0)>>, v1, v1, v3, v4, v4, v4>>

-----------------------------------------------------------------------------
(* The address mapping: Listeners, seen from here.  It may fail, and does  *)
(* for an address that is none.                                            *)
Listener(addr) == [host |-> "px", port |-> addr.port + 1000]
NetAddressMapping(addr, fails) ==
  IF fails \/ addr.host = "" \/ addr.port <= 0 THEN Failed ELSE Done(Listener(addr), <<>>)

(* The broker or coordinator val: unless it is absent, its address is      *)
(* replaced by the listener's.                                             *)
ModifyBroker(schema, val, fails) ==
  LET addr == [host |-> Get(schema, val, "host"), port |-> Get(schema, val, "port")]
      new  == NetAddressMapping(addr, fails)
  IN  IF addr.host = "" /\ addr.port <= 0 THEN Done(val, <<>>)
      ELSE IF ~new.ok THEN Failed
      ELSE Done(Replace(schema, Replace(schema, val, "host", new.val.host),
                        "port", new.val.port), <<>>)

(* A list with its elements modified, or failure when one has failed.      *)
AllModified(new) ==
  IF \E i \in 1..Len(new) : ~new[i].ok THEN Failed
  ELSE Done([i \in 1..Len(new) |-> new[i].val], <<>>)

WithField(schema, val, name, new) ==
  IF new.ok THEN Done(Replace(schema, val, name, new.val), <<>>) ELSE Failed

ModifyMetadataResponse(schema, val, fails) ==
  LET brokers == Get(schema, val, "brokers")
      broker  == TypeOf(schema, "brokers").of
  IN  WithField(schema, val, "brokers",
        AllModified([i \in 1..Len(brokers) |-> ModifyBroker(broker, brokers[i], fails)]))

ModifyCoordinator(schema, val, fails) ==
  WithField(schema, val, "coordinator",
            ModifyBroker(TypeOf(schema, "coordinator"), Get(schema, val, "coordinator"), fails))

\* Fault.  Only the first coordinator of a list, as before version 4.
ModifyFirstCoordinator(schema, val, fails) ==
  IF Has(schema, "coordinators") /\ Get(schema, val, "coordinators") # <<>>
  THEN WithField(schema, val, "coordinators",
         LET c == ModifyCoordinator(TypeOf(schema, "coordinators").of,
                                    Get(schema, val, "coordinators")[1], fails)
         IN  IF c.ok THEN Done(<<c.val>> \o Tail(Get(schema, val, "coordinators")), <<>>)
             ELSE Failed)
  ELSE IF Has(schema, "coordinators") THEN Done(val, <<>>)
  ELSE ModifyCoordinator(schema, val, fails)
ModifyFindCoordinatorResponse(schema, val, fails) ==
  IF Has(schema, "coordinators")
  THEN LET coordinators == Get(schema, val, "coordinators")
           coordinator  == TypeOf(schema, "coordinators").of
       IN  WithField(schema, val, "coordinators",
             AllModified([i \in 1..Len(coordinators) |->
                            ModifyCoordinator(coordinator, coordinators[i], fails)]))
  ELSE ModifyCoordinator(schema, val, fails)

Metadata        == 3
FindCoordinator == 10

(* GetResponseModifier and getResponseSchema.                              *)
GetResponseSchema(key, version) ==
  LET schemas == IF key = Metadata THEN metadataResponseSchemaVersions
                 ELSE findCoordinatorResponseSchemaVersions
  IN  IF version \in 0..(Len(schemas) - 1) THEN Done(NewSchema(schemas[version + 1]), <<>>)
      ELSE Failed

(* modifyResponseFunc of the api key.                                      *)
ModifyResponse(key, schema, decoded, fails) ==
  CASE ~decoded.ok -> Failed
    [] decoded.ok /\ key = Metadata -> ModifyMetadataResponse(schema, decoded.val, fails)
    [] OTHER -> ModifyFindCoordinatorResponse(schema, decoded.val, fails)

EncodeModified(schema, modified) ==
  IF modified.ok THEN EncodeSchema(modified.val, schema) ELSE Failed

(* responseModifier.Apply: decode, modify, encode.                         *)
Apply(key, schema, raw, fails) ==
  IF ~schema.ok THEN Failed
  ELSE EncodeModified(schema.val,
         ModifyResponse(key, schema.val, DecodeSchema(raw, schema.val), fails))

-----------------------------------------------------------------------------
(* ResponseHeaderVersion: 1 from the version on whose replies have tagged  *)
(* fields in their header.                                                 *)
ResponseHeaderVersion(key, version) ==
  IF version >= (IF key = Metadata THEN 9 ELSE 3) THEN 1 ELSE 0

(* The reply's header as read: correlation id, then MaybeRead.             *)
ReadHeader(key, version, raw) ==
  LET tags == GetTagged(Tail(raw))
  IN  IF ResponseHeaderVersion(key, version) = 0 THEN Done(<<Head(raw)>>, Tail(raw))
      ELSE IF tags.ok THEN Done(<<Head(raw)>> \o PutTagged(tags.val), tags.rest) ELSE Failed

(* DefaultResponseHandler.handleResponse, from the broker's reply to what  *)
(* the filters are given.                                                  *)
Joined(header, body) ==
  IF header.ok /\ body.ok THEN Done(header.val \o body.val, <<>>) ELSE Failed
HandleResponse(key, version, raw, fails) ==
  LET header == ReadHeader(key, version, raw)
  IN  Joined(header, IF header.ok
                     THEN Apply(key, GetResponseSchema(key, version), header.rest, fails)
                     ELSE Failed)

-----------------------------------------------------------------------------
(* What the protocol defines, by version: the reference.                   *)
When(cond, fs) == IF cond THEN fs ELSE <<>>

KafkaSchema(key, v) ==
  LET flex   == v >= IF key = Metadata THEN 9 ELSE 3
      S      == IF flex THEN CompactStr ELSE Str
      N      == IF flex THEN CompactNullableStr ELSE NullableStr
      A(ty)  == IF flex THEN CompactArray(ty) ELSE Array(ty)
      St(fs) == NewSchema(fs \o When(flex, <<TaggedFields>>))
      addr   == <<F("node_id", Int32), F("host", S), F("port", Int32)>>
      err    == <<F("error_code", Int16)>>
      broker == St(addr \o When(v >= 1, <<F("rack", N)>>))
      part   == St(err \o <<F("partition", Int32), F("leader", Int32)>>
                   \o When(v >= 7, <<F("leader_epoch", Int32)>>)
                   \o <<F("replicas", A(Int32)), F("isr", A(Int32))>>
                   \o When(v >= 5, <<F("offline", A(Int32))>>))
      topic  == St(err \o <<F("name", IF v >= 12 THEN N ELSE S)>>
                   \o When(v >= 10, <<F("topic_id", Uuid)>>)
                   \o When(v >= 1, <<F("is_internal", Bool)>>)
                   \o <<F("partitions", A(part))>>
                   \o When(v >= 8, <<F("operations", Int32)>>))
      msg    == <<F("error_message", N)>>
  IN  IF key = Metadata
      THEN St(When(v >= 3, <<F("throttle_time_ms", Int32)>>) \o <<F("brokers", A(broker))>>
              \o When(v >= 2, <<F("cluster_id", N)>>) \o When(v >= 1, <<F("controller_id", Int32)>>)
              \o <<F("topics", A(topic))>>
              \o When(v \in 8..10, <<F("operations", Int32)>>) \o When(v >= 13, err))
      ELSE IF v >= 4
      THEN St(<<F("throttle_time_ms", Int32),
                F("coordinators", A(St(<<F("key", S)>> \o addr \o err \o msg)))>>)
      ELSE St(When(v >= 1, <<F("throttle_time_ms", Int32)>>) \o err \o When(v >= 1, msg) \o addr)

(* A reply with the addresses addrs; other lists have p.len elements,      *)
(* strings are p.text, nullable strings are null and tagged fields present *)
(* as p says.                                                              *)
RECURSIVE Sample(_, _, _, _, _)
Sample(ty, name, p, addrs, a) ==
  CASE ty.t = "struct" ->
         [i \in 1..Len(ty.fields) |-> Sample(ty.fields[i].ty, ty.fields[i].name, p, addrs, a)]
    [] name \in {"brokers", "coordinators"} ->
         [i \in 1..Len(addrs) |-> Sample(ty.of, "", p, addrs, addrs[i])]
    [] ty.t \in {"array", "carray"} /\ name \notin {"brokers", "coordinators"} ->
         [i \in 1..p.len |-> Sample(ty.of, "", p, addrs, a)]
    [] ty.t = "tags" -> IF p.tags THEN <<<<0, "data">>>> ELSE <<>>
    [] name = "host" -> a.host
    [] name = "port" -> a.port
    [] ty.t \in {"nstr", "cnstr"} /\ name # "host" -> IF p.null THEN Null ELSE p.text
    [] ty.t \in {"str", "cstr"} /\ name # "host" -> p.text
    [] ty.t = "uuid" -> "id"
    [] ty.t = "bool" -> TRUE
    [] OTHER -> 7

(* What a broker sends: the header, flexible when the body is.             *)
KafkaBody(key, v, p, addrs) ==
  LET schema == KafkaSchema(key, v) IN Encode(schema, Sample(schema, "", p, addrs, addrs[1]))
KafkaReply(key, v, p, addrs) ==
  <<Cell("int32", 42)>>
    \o When(v >= (IF key = Metadata THEN 9 ELSE 3),
            PutTagged(IF p.tags THEN <<<<3, "data">>>> ELSE <<>>))
    \o KafkaBody(key, v, p, addrs)
=============================================================================
