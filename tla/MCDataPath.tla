------------------------------ MODULE MCDataPath -----------------------------
(* Values of DataPath's constants for model checking.                      *)
EXTENDS RewrittenReplies

MCConfigured == <<"gcp", "vault">>

Batch(kind, recs) == [kind |-> kind, recs |-> recs, by |-> <<>>, named |-> TRUE]
PlainBatches == {Batch("data", <<Value("nil"), Value("text")>>)}
MCBatches ==
  PlainBatches \cup {Batch("data", <<Value("empty")>>), Batch("gzip", <<Value("text")>>),
                     Batch("packed", <<Value("text")>>)}

(* Addresses that are right, absent, and half of an address; lists of one  *)
(* and two brokers.  Hosts are shorter than the listener's.  Only compact  *)
(* strings may be long.                                                    *)
Addrs == {[host |-> "b", port |-> 1], [host |-> "c", port |-> 2],
          [host |-> "", port |-> -1], [host |-> "b", port |-> 0]}
MCReplyCases ==
  { c \in [key : {Metadata, FindCoordinator}, version : 0..14, fails : BOOLEAN,
           content : [len : {0, 1, 3, 4}, null : BOOLEAN, tags : BOOLEAN, text : {"tx", "text"}],
           addrs : {<<a>> : a \in Addrs} \cup {<<Listener(a), a>> : a \in Addrs}] :
      /\ c.key = FindCoordinator => c.version <= 7
      /\ c.fails => c.content.len = 1 /\ c.content.null
      /\ c.content.text = "text" =>
           c.content.len = 1 /\ c.version >= IF c.key = Metadata THEN 9 ELSE 3 }

(* Lengths around the sizes of a varint, and around those at which the     *)
(* reader's wrong offset moves.                                            *)
MCAcksCases ==
  { c \in [version : {2, 3, 8, 9, 12}, clientID : {-1, 0, 3},
           txnID : {-1, 0, 1, 2, 126, 127, 128, 254, 255, 256, 300}, acks : {-1, 0, 1},
           acks0Disabled : BOOLEAN] :
      /\ c.version >= 9 /\ c.txnID >= 255 => c.acks # 0
      /\ c.version = 2 => c.txnID = -1 }

Lengths == {-1, 0, 1, 63, 64, 8191, 8192}
MCRecordCases ==
  [timestampDelta : {0, -1, 64, 1048576}, offsetDelta : {0, 63, 64},
   key : {-1, 0, 64}, value : Lengths,
   headers : {<<>>, <<[key |-> 63, value |-> -1]>>,
              <<[key |-> 1, value |-> 64], [key |-> 64, value |-> 8192]>>}]
=============================================================================
