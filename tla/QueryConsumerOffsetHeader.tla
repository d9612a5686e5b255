---------------------- MODULE QueryConsumerOffsetHeader ----------------------
(***************************************************************************)
(* The life of one QueryConsumerOffsetRequestHeader                        *)
(* (src/rocketmq-remoting/src/protocol/header/                             *)
(*  query_consumer_offset_request_header.rs): a string map arrives on the  *)
(* wire and is decoded by FromMap::from, the broker calls the accessors of *)
(* TopicRequestHeaderTrait on the decoded header, and to_map encodes it    *)
(* again to forward it, whereupon it is decoded again.                     *)
(*                                                                         *)
(* A map is a record with one field per key; a field is <<>> when the key  *)
(* is absent and <<v>> when it maps to the text v.  A text is either the   *)
(* decimal rendering of an integer, Dec(n), or any other word, Word(w).    *)
(* An Option<T> is <<>> (None) or <<x>> (Some(x)).                         *)
(***************************************************************************)
EXTENDS Integers

CONSTANTS
    Texts,        \* words a client may send as group, topic or names
    Width,        \* bit width of queue_id (i32 in the code)
    JunkKeys,     \* keys whose client value may be unparsable text
    BareHeaders   \* a header may be built with no topic_request_header or rpc

ASSUME HeaderAssumption ==
    /\ Width \in Nat \ {0}
    /\ JunkKeys \subseteq {"queueId", "setZeroIfNotFound"}
    /\ BareHeaders \in BOOLEAN

VARIABLES
    at,     \* "wire": a map is in transit; "obj": a decoded header is in use
    wire,   \* the map in transit
    sent,   \* the header whose to_map produced wire, or NoHdr for a client map
    hdr     \* the header in use

vars == <<at, wire, sent, hdr>>

-----------------------------------------------------------------------------
(* Texts, options and maps *)

Dec(n) == [dec |-> n]
Word(w) == [word |-> w]
Junk == Word("x")
Empty == Word("")
Opt(S) == {<<>>} \cup {<<x>> : x \in S}

\* i32::MIN .. i32::MAX at the configured width.
I32 == -(2 ^ (Width - 1)) .. 2 ^ (Width - 1) - 1

\* bool::to_string and str::parse::<bool>: only "true" and "false" parse.
BoolText(b) == IF b THEN Word("true") ELSE Word("false")
ParseBool(v) ==
    IF v = Word("true") THEN <<TRUE>> ELSE IF v = Word("false") THEN <<FALSE>> ELSE <<>>

\* str::parse::<i32> succeeds on a decimal in range, fails on anything else.
ParsesI32(v) == "dec" \in DOMAIN v /\ v.dec \in I32

\* The keys this header and its flattened TopicRequestHeader use.
OwnKeys == {"consumerGroup", "topic", "queueId", "setZeroIfNotFound"}
SubKeys == {"lo", "brokerName", "namespace", "namespaced", "oneway"}
Keys == OwnKeys \cup SubKeys
NoMap == [k \in Keys |-> <<>>]

\* HashMap::extend: the entries of val replace those of m.
Extend(m, val) == [k \in Keys |-> IF val[k] = <<>> THEN m[k] ELSE val[k]]

\* Option::map and Option::and_then over a one-element option.
OptMap(o, F(_)) == IF o = <<>> THEN <<>> ELSE <<F(o[1])>>
OptThen(o, F(_)) == IF o = <<>> THEN <<>> ELSE F(o[1])

-----------------------------------------------------------------------------
(* The header and its sub-headers *)

Names == {Word(t) : t \in Texts}
Strings == Names \cup {Empty}
Rpc == [broker_name : Opt(Names), namespace : Opt(Names),
        namespaced : Opt(BOOLEAN), oneway : Opt(BOOLEAN)]
TopicRequestHeader == [lo : Opt(BOOLEAN), rpc : Opt(Rpc)]
Header == [consumer_group : Strings, topic : Strings, queue_id : I32,
           set_zero_if_not_found : Opt(BOOLEAN),
           topic_request_header : Opt(TopicRequestHeader)]
NoHdr == [none |-> TRUE]

\* TopicRequestHeader::to_map and ::from (not under src/): every field is
\* written under its key when set; absent or unparsable keys decode to unset.
SubToMap(t) ==
    [NoMap EXCEPT !.lo = OptMap(t.lo, BoolText),
                  !.brokerName = IF t.rpc = <<>> THEN <<>> ELSE t.rpc[1].broker_name,
                  !.namespace = IF t.rpc = <<>> THEN <<>> ELSE t.rpc[1].namespace,
                  !.namespaced = IF t.rpc = <<>> THEN <<>> ELSE OptMap(t.rpc[1].namespaced, BoolText),
                  !.oneway = IF t.rpc = <<>> THEN <<>> ELSE OptMap(t.rpc[1].oneway, BoolText)]
SubFrom(m) ==
    [lo |-> OptThen(m.lo, ParseBool),
     rpc |-> <<[broker_name |-> m.brokerName, namespace |-> m.namespace,
                namespaced |-> OptThen(m.namespaced, ParseBool),
                oneway |-> OptThen(m.oneway, ParseBool)]>>]

\* Mutant: Some(false) is not written (an `if let Some(true)` slip).
ToMapDropsFalse(h) ==
    LET own == [NoMap EXCEPT !.consumerGroup = <<h.consumer_group>>,
                             !.topic = <<h.topic>>,
                             !.queueId = <<Dec(h.queue_id)>>,
                             !.setZeroIfNotFound = IF h.set_zero_if_not_found = <<TRUE>>
                                                   THEN <<Word("true")>> ELSE <<>>]
    IN  IF h.topic_request_header = <<>> THEN own
        ELSE Extend(own, SubToMap(h.topic_request_header[1]))

\* CommandCustomHeader::to_map.
ToMap(h) ==
    LET own == [NoMap EXCEPT !.consumerGroup = <<h.consumer_group>>,
                             !.topic = <<h.topic>>,
                             !.queueId = <<Dec(h.queue_id)>>,
                             !.setZeroIfNotFound = OptMap(h.set_zero_if_not_found, BoolText)]
    IN  IF h.topic_request_header = <<>> THEN own
        ELSE Extend(own, SubToMap(h.topic_request_header[1]))

\* FromMap::from panics when queueId is present and does not parse as i32.
DecodePanics(m) == m.queueId # <<>> /\ ~ParsesI32(m.queueId[1])

\* Mutant: the sub-header is None when none of its keys is in the map.
FromNoSub(m) ==
    [consumer_group |-> IF m.consumerGroup = <<>> THEN Empty ELSE m.consumerGroup[1],
     topic |-> IF m.topic = <<>> THEN Empty ELSE m.topic[1],
     queue_id |-> IF m.queueId = <<>> THEN 0 ELSE m.queueId[1].dec,
     set_zero_if_not_found |-> OptThen(m.setZeroIfNotFound, ParseBool),
     topic_request_header |-> IF \A k \in SubKeys : m[k] = <<>> THEN <<>>
                              ELSE <<SubFrom(m)>>]

\* FromMap::from, when it does not panic.
From(m) ==
    [consumer_group |-> IF m.consumerGroup = <<>> THEN Empty ELSE m.consumerGroup[1],
     topic |-> IF m.topic = <<>> THEN Empty ELSE m.topic[1],
     queue_id |-> IF m.queueId = <<>> THEN 0 ELSE m.queueId[1].dec,
     set_zero_if_not_found |-> OptThen(m.setZeroIfNotFound, ParseBool),
     topic_request_header |-> <<SubFrom(m)>>]

-----------------------------------------------------------------------------
(* Inputs *)

\* The values a client may put under a key; unparsable text where allowed.
Bools == {Word("true"), Word("false")}
Valid == [consumerGroup |-> Names, topic |-> Names, queueId |-> {Dec(n) : n \in I32},
          setZeroIfNotFound |-> Bools, lo |-> Bools, brokerName |-> Names,
          namespace |-> Names, namespaced |-> Bools, oneway |-> Bools]
Bad == [k \in Keys |-> IF k = "queueId" THEN {Junk, Dec(2 ^ (Width - 1))} ELSE {Junk}]
ClientValue(k) == Valid[k] \cup (IF k \in JunkKeys THEN Bad[k] ELSE {})
ClientMaps ==
    [consumerGroup : Opt(ClientValue("consumerGroup")), topic : Opt(ClientValue("topic")),
     queueId : Opt(ClientValue("queueId")),
     setZeroIfNotFound : Opt(ClientValue("setZeroIfNotFound")),
     lo : Opt(ClientValue("lo")), brokerName : Opt(ClientValue("brokerName")),
     namespace : Opt(ClientValue("namespace")), namespaced : Opt(ClientValue("namespaced")),
     oneway : Opt(ClientValue("oneway"))]

\* Headers built directly (the fields are pub) without a sub-header or rpc.
BareHeader == {h \in Header : \/ h.topic_request_header = <<>>
                              \/ h.topic_request_header[1].rpc = <<>>}

-----------------------------------------------------------------------------
(* Actions *)

Init ==
    \/ /\ at = "wire" /\ wire \in ClientMaps /\ sent = NoHdr /\ hdr = NoHdr
    \/ /\ BareHeaders
       /\ at = "obj" /\ wire = NoMap /\ sent = NoHdr /\ hdr \in BareHeader

\* FromMap::from on the map in transit.
Decode ==
    /\ at = "wire"
    /\ IF DecodePanics(wire)
         THEN at' = "panicked" /\ UNCHANGED <<wire, sent, hdr>>
         ELSE at' = "obj" /\ hdr' = From(wire) /\ wire' = NoMap /\ sent' = NoHdr

\* CommandCustomHeader::to_map, to forward the header.
Encode ==
    /\ at = "obj"
    /\ wire' = ToMap(hdr) /\ sent' = hdr
    /\ at' = "wire" /\ hdr' = NoHdr

\* set_topic and set_queue_id write the header's own fields.
SetTopic ==
    /\ at = "obj"
    /\ \E t \in Names : hdr' = [hdr EXCEPT !.topic = t]
    /\ UNCHANGED <<at, wire, sent>>
SetQueueId ==
    /\ at = "obj"
    /\ \E q \in I32 : hdr' = [hdr EXCEPT !.queue_id = q]
    /\ UNCHANGED <<at, wire, sent>>

\* lo and set_lo unwrap topic_request_header.
LoAccess ==
    /\ at = "obj"
    /\ IF hdr.topic_request_header = <<>>
         THEN at' = "panicked" /\ UNCHANGED <<wire, sent, hdr>>
         ELSE \/ UNCHANGED vars
              \/ \E lo \in Opt(BOOLEAN) :
                   /\ hdr' = [hdr EXCEPT !.topic_request_header[1].lo = lo]
                   /\ UNCHANGED <<at, wire, sent>>

\* The getters and setters of broker_name, namespace, namespaced and oneway
\* unwrap topic_request_header and then its rpc; a setter writes Some(v).
RpcFieldValues ==
    [broker_name |-> Names, namespace |-> Names, namespaced |-> BOOLEAN, oneway |-> BOOLEAN]
RpcAccess(f) ==
    /\ at = "obj"
    /\ IF hdr.topic_request_header = <<>> \/ hdr.topic_request_header[1].rpc = <<>>
         THEN at' = "panicked" /\ UNCHANGED <<wire, sent, hdr>>
         ELSE \/ UNCHANGED vars
              \/ \E v \in RpcFieldValues[f] :
                   /\ hdr' = [hdr EXCEPT !.topic_request_header[1].rpc[1][f] = <<v>>]
                   /\ UNCHANGED <<at, wire, sent>>

Next ==
    \/ Decode \/ Encode \/ SetTopic \/ SetQueueId \/ LoAccess
    \/ \E f \in DOMAIN RpcFieldValues : RpcAccess(f)

Spec == Init /\ [][Next]_vars

-----------------------------------------------------------------------------
(* Properties *)

\* No request ends in a panic: neither from_map on a client map nor an
\* accessor on the header it produced unwraps a None or an Err.
NoPanic == at # "panicked"

\* to_map and from are inverse: a decoded header, whatever setters it went
\* through, decodes after to_map to the header that was encoded.
DecodesToSent == at = "wire" /\ sent # NoHdr /\ at' # "wire" => at' = "obj" /\ hdr' = sent
RoundTrip == [][DecodesToSent]_vars

\* Spec section 3: a malformed field is a protocol error.  Decoding never
\* silently drops a key the client sent: set_zero_if_not_found is set
\* whenever setZeroIfNotFound is present.
StrictDecode ==
    [][at = "wire" /\ at' = "obj" /\ wire.setZeroIfNotFound # <<>>
         => hdr'.set_zero_if_not_found # <<>>]_vars

=============================================================================
