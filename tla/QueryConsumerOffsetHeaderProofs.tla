------------------- MODULE QueryConsumerOffsetHeaderProofs -------------------
(***************************************************************************)
(* Proofs about the header codec of QueryConsumerOffsetHeader, for every   *)
(* width of queue_id and every set of texts: to_map followed by from is    *)
(* the identity on headers that carry their sub-headers, and a header that *)
(* was decoded from a well-formed map never makes an accessor panic.       *)
(***************************************************************************)
EXTENDS QueryConsumerOffsetHeader, FiniteSetTheorems, TLAPS

USE HeaderAssumption

\* The headers from() produces: topic_request_header and its rpc are Some.
Decoded == {h \in Header : /\ h.topic_request_header # <<>>
                           /\ h.topic_request_header[1].rpc # <<>>}

\* 2^(Width-1), the size of the positive half of i32, is a positive
\* natural: it is the number of subsets of 1..Width-1.
LEMMA HalfPositive == 2 ^ (Width - 1) \in Nat \ {0}
<1> DEFINE S == 1 .. Width - 1
<1>1. IsFiniteSet(S) /\ Cardinality(S) = Width - 1
  BY FS_Interval
<1>2. IsFiniteSet(SUBSET S) /\ Cardinality(SUBSET S) = 2 ^ (Width - 1)
  BY <1>1, FS_SUBSET
<1>3. {} \in SUBSET S
  OBVIOUS
<1>4. Cardinality(SUBSET S) \in Nat
  BY <1>2, FS_CardinalityType
<1>5. Cardinality(SUBSET S) # 0
  BY <1>2, <1>3, FS_EmptySet
<1> QED
  BY <1>2, <1>4, <1>5

\* Zero is a valid queue id at every width.
LEMMA ZeroI32 == 0 \in I32
BY HalfPositive DEF I32

\* bool::to_string followed by parse::<bool>, lifted to options, is the identity.
LEMMA BoolRoundTrip ==
    ASSUME NEW o \in Opt(BOOLEAN)
    PROVE  OptThen(OptMap(o, BoolText), ParseBool) = o
<1>1. CASE o = <<>>
  BY <1>1 DEF OptThen, OptMap
<1>2. CASE o = <<TRUE>>
  BY <1>2 DEF OptThen, OptMap, BoolText, ParseBool, Word
<1>3. CASE o = <<FALSE>>
  BY <1>3 DEF OptThen, OptMap, BoolText, ParseBool, Word
<1> QED
  BY <1>1, <1>2, <1>3 DEF Opt

\* The fields of to_map(h) for a decoded header.
LEMMA ToMapFields ==
    ASSUME NEW h \in Decoded
    PROVE  LET m == ToMap(h)
               t == h.topic_request_header[1]
               r == t.rpc[1]
           IN  /\ m.consumerGroup = <<h.consumer_group>>
               /\ m.topic = <<h.topic>>
               /\ m.queueId = <<Dec(h.queue_id)>>
               /\ m.setZeroIfNotFound = OptMap(h.set_zero_if_not_found, BoolText)
               /\ m.lo = OptMap(t.lo, BoolText)
               /\ m.brokerName = r.broker_name
               /\ m.namespace = r.namespace
               /\ m.namespaced = OptMap(r.namespaced, BoolText)
               /\ m.oneway = OptMap(r.oneway, BoolText)
<1> DEFINE t == h.topic_request_header[1]
           r == t.rpc[1]
           own == [NoMap EXCEPT !.consumerGroup = <<h.consumer_group>>,
                                !.topic = <<h.topic>>,
                                !.queueId = <<Dec(h.queue_id)>>,
                                !.setZeroIfNotFound = OptMap(h.set_zero_if_not_found, BoolText)]
<1>1. ToMap(h) = Extend(own, SubToMap(t))
  BY DEF Decoded, ToMap
<1>2. t.rpc # <<>>
  BY DEF Decoded
<1>3. /\ SubToMap(t).consumerGroup = <<>> /\ SubToMap(t).topic = <<>>
      /\ SubToMap(t).queueId = <<>> /\ SubToMap(t).setZeroIfNotFound = <<>>
      /\ SubToMap(t).lo = OptMap(t.lo, BoolText)
      /\ SubToMap(t).brokerName = r.broker_name
      /\ SubToMap(t).namespace = r.namespace
      /\ SubToMap(t).namespaced = OptMap(r.namespaced, BoolText)
      /\ SubToMap(t).oneway = OptMap(r.oneway, BoolText)
  BY <1>2 DEF SubToMap, NoMap, Keys, OwnKeys, SubKeys
<1>4. /\ own.consumerGroup = <<h.consumer_group>> /\ own.topic = <<h.topic>>
      /\ own.queueId = <<Dec(h.queue_id)>>
      /\ own.setZeroIfNotFound = OptMap(h.set_zero_if_not_found, BoolText)
      /\ own.lo = <<>> /\ own.brokerName = <<>> /\ own.namespace = <<>>
      /\ own.namespaced = <<>> /\ own.oneway = <<>>
  BY DEF NoMap, Keys, OwnKeys, SubKeys
<1>5. \A k \in Keys : Extend(own, SubToMap(t))[k]
                        = IF SubToMap(t)[k] = <<>> THEN own[k] ELSE SubToMap(t)[k]
  BY DEF Extend
<1> QED
  BY <1>1, <1>3, <1>4, <1>5 DEF Keys, OwnKeys, SubKeys

\* to_map never writes a queueId that from() cannot parse, and from(to_map(h))
\* is h for every header that carries its sub-headers.
LEMMA RoundTripLemma ==
    ASSUME NEW h \in Decoded
    PROVE  ~DecodePanics(ToMap(h)) /\ From(ToMap(h)) = h
<1> DEFINE m == ToMap(h)
           t == h.topic_request_header[1]
           r == t.rpc[1]
<1>1. /\ m.consumerGroup = <<h.consumer_group>>
      /\ m.topic = <<h.topic>>
      /\ m.queueId = <<Dec(h.queue_id)>>
      /\ m.setZeroIfNotFound = OptMap(h.set_zero_if_not_found, BoolText)
      /\ m.lo = OptMap(t.lo, BoolText)
      /\ m.brokerName = r.broker_name
      /\ m.namespace = r.namespace
      /\ m.namespaced = OptMap(r.namespaced, BoolText)
      /\ m.oneway = OptMap(r.oneway, BoolText)
  BY ToMapFields
<1>2. /\ h.queue_id \in I32
      /\ h.set_zero_if_not_found \in Opt(BOOLEAN)
      /\ t \in TopicRequestHeader
      /\ r \in Rpc
      /\ h.topic_request_header = <<t>>
      /\ t.rpc = <<r>>
  BY DEF Decoded, Header, TopicRequestHeader, Opt
<1>3. ~DecodePanics(m)
  BY <1>1, <1>2 DEF DecodePanics, ParsesI32, Dec
<1>4. SubFrom(m) = t
  <2>1. t.lo \in Opt(BOOLEAN) /\ r.namespaced \in Opt(BOOLEAN) /\ r.oneway \in Opt(BOOLEAN)
    BY <1>2 DEF TopicRequestHeader, Rpc
  <2>2. /\ OptThen(m.lo, ParseBool) = t.lo
        /\ OptThen(m.namespaced, ParseBool) = r.namespaced
        /\ OptThen(m.oneway, ParseBool) = r.oneway
    BY <1>1, <2>1, BoolRoundTrip
  <2>3. r = [broker_name |-> r.broker_name, namespace |-> r.namespace,
             namespaced |-> r.namespaced, oneway |-> r.oneway]
    BY <1>2 DEF Rpc
  <2>4. t = [lo |-> t.lo, rpc |-> <<r>>]
    BY <1>2 DEF TopicRequestHeader
  <2> QED
    BY <1>1, <2>2, <2>3, <2>4 DEF SubFrom
<1>5. /\ OptThen(m.setZeroIfNotFound, ParseBool) = h.set_zero_if_not_found
      /\ m.queueId[1].dec = h.queue_id
  BY <1>1, <1>2, BoolRoundTrip DEF Dec
<1>6. h = [consumer_group |-> h.consumer_group, topic |-> h.topic,
           queue_id |-> h.queue_id,
           set_zero_if_not_found |-> h.set_zero_if_not_found,
           topic_request_header |-> <<t>>]
  BY <1>2 DEF Decoded, Header
<1>7. From(m) = h
  BY <1>1, <1>4, <1>5, <1>6 DEF From
<1> QED
  BY <1>3, <1>7

-----------------------------------------------------------------------------
(* Decoding a client map *)

\* parse::<bool> lifted to an optional text yields an Option<bool>.
LEMMA ParseBoolOpt ==
    ASSUME NEW o
    PROVE  OptThen(o, ParseBool) \in Opt(BOOLEAN)
BY DEF OptThen, ParseBool, Opt

\* The values a client can send under the keys that never carry junk.
LEMMA ClientValues ==
    /\ ClientValue("consumerGroup") = Names /\ ClientValue("topic") = Names
    /\ ClientValue("brokerName") = Names /\ ClientValue("namespace") = Names
BY DEF ClientValue, Valid

\* from() on a client map that does not make it panic yields a header with
\* both sub-headers.
LEMMA ClientDecode ==
    ASSUME NEW m \in ClientMaps, ~DecodePanics(m)
    PROVE  From(m) \in Decoded
<1>1. /\ m.consumerGroup \in Opt(Names) /\ m.topic \in Opt(Names)
      /\ m.brokerName \in Opt(Names) /\ m.namespace \in Opt(Names)
  BY ClientValues DEF ClientMaps
<1>2. (IF m.consumerGroup = <<>> THEN Empty ELSE m.consumerGroup[1]) \in Strings
      /\ (IF m.topic = <<>> THEN Empty ELSE m.topic[1]) \in Strings
  BY <1>1 DEF Opt, Strings
<1>3. (IF m.queueId = <<>> THEN 0 ELSE m.queueId[1].dec) \in I32
  BY ZeroI32 DEF DecodePanics, ParsesI32
<1>4. SubFrom(m) \in TopicRequestHeader /\ SubFrom(m).rpc # <<>>
  <2>1. /\ OptThen(m.lo, ParseBool) \in Opt(BOOLEAN)
        /\ OptThen(m.namespaced, ParseBool) \in Opt(BOOLEAN)
        /\ OptThen(m.oneway, ParseBool) \in Opt(BOOLEAN)
    BY ParseBoolOpt
  <2> QED
    BY <1>1, <2>1 DEF SubFrom, TopicRequestHeader, Rpc, Opt
<1>5. OptThen(m.setZeroIfNotFound, ParseBool) \in Opt(BOOLEAN)
  BY ParseBoolOpt
<1> QED
  BY <1>2, <1>3, <1>4, <1>5 DEF From, Decoded, Header, Opt

-----------------------------------------------------------------------------
(* The accessors keep a decoded header decoded *)

LEMMA SetTopicDecoded ==
    ASSUME NEW h \in Decoded, NEW t \in Names
    PROVE  [h EXCEPT !.topic = t] \in Decoded
BY DEF Decoded, Header, Strings

LEMMA SetQueueIdDecoded ==
    ASSUME NEW h \in Decoded, NEW q \in I32
    PROVE  [h EXCEPT !.queue_id = q] \in Decoded
BY DEF Decoded, Header

\* Replacing the sub-header of a decoded header by one that has its rpc.
LEMMA ExceptSubHeader ==
    ASSUME NEW h \in Decoded, NEW x \in TopicRequestHeader, x.rpc # <<>>,
           <<x>> \in Opt(TopicRequestHeader)
    PROVE  [h EXCEPT !.topic_request_header = <<x>>] \in Decoded
<1> DEFINE h2 == [h EXCEPT !.topic_request_header = <<x>>]
<1>1. h2 \in Header
  BY DEF Decoded, Header
<1>2. h2.topic_request_header = <<x>>
  BY DEF Decoded, Header
<1>3. h2.topic_request_header # <<>> /\ h2.topic_request_header[1].rpc # <<>>
  BY <1>2
<1> QED
  BY <1>1, <1>3 DEF Decoded

LEMMA SetLoDecoded ==
    ASSUME NEW h \in Decoded, NEW lo \in Opt(BOOLEAN)
    PROVE  [h EXCEPT !.topic_request_header[1].lo = lo] \in Decoded
<1> DEFINE t == h.topic_request_header[1]
<1>1. h.topic_request_header = <<t>> /\ t \in TopicRequestHeader /\ t.rpc # <<>>
  BY DEF Decoded, Header, Opt
<1>2. [h EXCEPT !.topic_request_header[1].lo = lo]
        = [h EXCEPT !.topic_request_header = <<[t EXCEPT !.lo = lo]>>]
  BY <1>1
<1>3. [t EXCEPT !.lo = lo] \in TopicRequestHeader /\ [t EXCEPT !.lo = lo].rpc # <<>>
  BY <1>1 DEF TopicRequestHeader
<1>4. <<[t EXCEPT !.lo = lo]>> \in Opt(TopicRequestHeader)
  BY <1>3 DEF Opt
<1> QED
  BY <1>2, <1>3, <1>4, ExceptSubHeader

LEMMA SetRpcDecoded ==
    ASSUME NEW h \in Decoded, NEW f \in DOMAIN RpcFieldValues,
           NEW v \in RpcFieldValues[f]
    PROVE  [h EXCEPT !.topic_request_header[1].rpc[1][f] = <<v>>] \in Decoded
<1> DEFINE t == h.topic_request_header[1]
           r == t.rpc[1]
<1>1. /\ h.topic_request_header = <<t>> /\ t \in TopicRequestHeader
      /\ t.rpc = <<r>> /\ r \in Rpc
  BY DEF Decoded, Header, TopicRequestHeader, Opt
<1>2. [h EXCEPT !.topic_request_header[1].rpc[1][f] = <<v>>]
        = [h EXCEPT !.topic_request_header =
                      <<[t EXCEPT !.rpc = <<[r EXCEPT ![f] = <<v>>]>>]>>]
  BY <1>1
<1>3. [r EXCEPT ![f] = <<v>>] \in Rpc
  <2>1. f \in {"broker_name", "namespace", "namespaced", "oneway"}
    BY DEF RpcFieldValues
  <2>2. CASE f \in {"broker_name", "namespace"}
    <3>1. v \in Names /\ <<v>> \in Opt(Names)
      BY <2>2 DEF RpcFieldValues, Opt
    <3> QED
      BY <1>1, <2>2, <3>1 DEF Rpc
  <2>3. CASE f \in {"namespaced", "oneway"}
    <3>1. v \in BOOLEAN /\ <<v>> \in Opt(BOOLEAN)
      BY <2>3 DEF RpcFieldValues, Opt
    <3> QED
      BY <1>1, <2>3, <3>1 DEF Rpc
  <2> QED
    BY <2>1, <2>2, <2>3
<1>4. /\ [t EXCEPT !.rpc = <<[r EXCEPT ![f] = <<v>>]>>] \in TopicRequestHeader
      /\ [t EXCEPT !.rpc = <<[r EXCEPT ![f] = <<v>>]>>].rpc # <<>>
  <2>1. <<[r EXCEPT ![f] = <<v>>]>> \in Opt(Rpc)
    BY <1>3 DEF Opt
  <2> QED
    BY <1>1, <2>1 DEF TopicRequestHeader
<1>5. <<[t EXCEPT !.rpc = <<[r EXCEPT ![f] = <<v>>]>>]>> \in Opt(TopicRequestHeader)
  BY <1>4 DEF Opt
<1> QED
  BY <1>2, <1>4, <1>5, ExceptSubHeader

-----------------------------------------------------------------------------
(* The inductive invariant *)

\* A map in transit is a client map or the to_map of a decoded header; a
\* header in use was decoded.
HInv ==
    /\ at \in {"wire", "obj", "panicked"}
    /\ at = "wire" => \/ sent = NoHdr /\ wire \in ClientMaps
                      \/ sent \in Decoded /\ wire = ToMap(sent)
    /\ at = "obj" => hdr \in Decoded

LEMMA InvInit ==
    ASSUME ~BareHeaders
    PROVE  Init => HInv
BY DEF Init, HInv

\* NoHdr is not a header, so a client map is never taken for an encoded one.
LEMMA NoHdrNotDecoded == NoHdr \notin Decoded
BY DEF NoHdr, Decoded, Header

LEMMA InvStep ==
    ASSUME ~BareHeaders
    PROVE  HInv /\ [Next]_vars => HInv'
<1> SUFFICES ASSUME HInv, [Next]_vars PROVE HInv'
  OBVIOUS
<1>1. CASE Decode
  <2>1. CASE sent = NoHdr /\ wire \in ClientMaps
    <3>1. CASE DecodePanics(wire)
      BY <1>1, <3>1 DEF Decode, HInv
    <3>2. CASE ~DecodePanics(wire)
      BY <1>1, <2>1, <3>2, ClientDecode DEF Decode, HInv
    <3> QED
      BY <3>1, <3>2
  <2>2. CASE sent \in Decoded /\ wire = ToMap(sent)
    BY <1>1, <2>2, RoundTripLemma DEF Decode, HInv
  <2> QED
    BY <1>1, <2>1, <2>2 DEF Decode, HInv
<1>2. CASE Encode
  BY <1>2 DEF Encode, HInv
<1>3. CASE SetTopic
  BY <1>3, SetTopicDecoded DEF SetTopic, HInv
<1>4. CASE SetQueueId
  BY <1>4, SetQueueIdDecoded DEF SetQueueId, HInv
<1>5. CASE LoAccess
  <2>1. hdr \in Decoded /\ at = "obj"
    BY <1>5 DEF LoAccess, HInv
  <2>2. hdr.topic_request_header # <<>>
    BY <2>1 DEF Decoded
  <2> QED
    BY <1>5, <2>1, <2>2, SetLoDecoded DEF LoAccess, HInv, vars
<1>6. ASSUME NEW f \in DOMAIN RpcFieldValues, RpcAccess(f)
      PROVE  HInv'
  <2>1. hdr \in Decoded /\ at = "obj"
    BY <1>6 DEF RpcAccess, HInv
  <2>2. hdr.topic_request_header # <<>> /\ hdr.topic_request_header[1].rpc # <<>>
    BY <2>1 DEF Decoded
  <2> QED
    BY <1>6, <2>1, <2>2, SetRpcDecoded DEF RpcAccess, HInv, vars
<1>7. CASE UNCHANGED vars
  BY <1>7 DEF HInv, vars
<1> QED
  BY <1>1, <1>2, <1>3, <1>4, <1>5, <1>6, <1>7 DEF Next

\* Every decode step of an encoded header yields that header.
LEMMA RoundTripStep ==
    ASSUME ~BareHeaders
    PROVE  HInv /\ [Next]_vars => [DecodesToSent]_vars
<1> SUFFICES ASSUME HInv, [Next]_vars, at = "wire", sent # NoHdr, at' # "wire"
             PROVE  at' = "obj" /\ hdr' = sent
  BY DEF DecodesToSent
<1>1. sent \in Decoded /\ wire = ToMap(sent)
  BY DEF HInv
<1>2. Decode
  BY DEF Next, Encode, SetTopic, SetQueueId, LoAccess, RpcAccess, vars
<1> QED
  BY <1>1, <1>2, RoundTripLemma DEF Decode

\* With no junk queueId from clients, no step panics.
LEMMA NoPanicStep ==
    ASSUME ~BareHeaders, "queueId" \notin JunkKeys
    PROVE  HInv /\ NoPanic /\ [Next]_vars => NoPanic'
<1> SUFFICES ASSUME HInv, NoPanic, [Next]_vars PROVE NoPanic'
  OBVIOUS
<1>1. ASSUME NEW m \in ClientMaps PROVE ~DecodePanics(m)
  <2>1. m.queueId \in Opt({Dec(n) : n \in I32})
    BY DEF ClientMaps, ClientValue, Valid
  <2> QED
    BY <2>1 DEF Opt, DecodePanics, ParsesI32, Dec
<1>2. CASE Decode
  BY <1>1, <1>2, RoundTripLemma DEF Decode, HInv, NoPanic
<1>3. ASSUME NEW f \in DOMAIN RpcFieldValues, RpcAccess(f) PROVE NoPanic'
  BY <1>3 DEF RpcAccess, HInv, NoPanic, Decoded, vars
<1>4. CASE LoAccess
  BY <1>4 DEF LoAccess, HInv, NoPanic, Decoded, vars
<1> QED
  BY <1>2, <1>3, <1>4 DEF Next, Encode, SetTopic, SetQueueId, NoPanic, vars

-----------------------------------------------------------------------------
(* Theorems *)

\* RoundTrip: whatever setters a decoded header went through, to_map then
\* from gives it back, for every width and every set of texts, provided
\* headers are only ever built by from().
THEOREM RoundTripTheorem ==
    ASSUME ~BareHeaders
    PROVE  Spec => RoundTrip
<1>1. Spec => []HInv
  BY InvInit, InvStep, PTL DEF Spec
<1> QED
  BY <1>1, RoundTripStep, PTL DEF Spec, RoundTrip

\* NoPanic: the only decoding panic is the unwrap of the queueId parse, and
\* a decoded header never makes an accessor panic: with well-formed
\* queueIds and no hand-built headers, no request panics.
THEOREM NoPanicTheorem ==
    ASSUME ~BareHeaders, "queueId" \notin JunkKeys
    PROVE  Spec => []NoPanic
<1>1. Init => HInv /\ NoPanic
  BY InvInit DEF Init, NoPanic
<1>2. HInv /\ NoPanic /\ [Next]_vars => HInv' /\ NoPanic'
  BY InvStep, NoPanicStep
<1> QED
  BY <1>1, <1>2, PTL DEF Spec

=============================================================================
