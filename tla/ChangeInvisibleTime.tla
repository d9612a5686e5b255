------------------------- MODULE ChangeInvisibleTime -------------------------
(***************************************************************************)
(* The change-invisible-time request of the pop consumption path of the    *)
(* broker (ChangeInvisibleTimeProcessor::process_request_inner and         *)
(* ack_origin).  Several handler tasks run concurrently, one per request.  *)
(* Each one validates the request, appends a new checkpoint (CK) for the   *)
(* message with pop time "now", and then acknowledges the original         *)
(* delivery, either in the in-memory ack-merge buffer                      *)
(* (PopBufferMergeService::add_ack) or as a durable ack message of the     *)
(* revive topic (EscapeBridge::put_message_to_specific_queue).             *)
(*                                                                         *)
(* The store is one append-only log holding both CK and ack records, of    *)
(* which a prefix is flushed; a broker crash keeps the flushed prefix only *)
(* and loses the ack-merge buffer and every request in flight.  A record   *)
(* names a checkpoint by (start offset, pop time); an ack pairs with the   *)
(* checkpoint of the same start offset and pop time that covers its        *)
(* offset, as the revive process pairs them.  The field "by" of a record   *)
(* is a ghost naming the request that wrote it.                            *)
(***************************************************************************)
EXTENDS Integers, Sequences, FiniteSets

CONSTANTS
  Req,             \* handler tasks, one per request (model values)
  Pop,             \* the writer of the checkpoint made by the original pop
  NumMsgs,         \* messages 0..NumMsgs-1 of the queue, popped in one batch at time 0
  ReadQueueNums,   \* read_queue_nums of the topic config
  MaxTime,         \* bound of the millisecond clock
  MaxCrash,        \* bound of broker crashes
  BufCap,          \* capacity of the ack-merge buffer
  MalformedFields, \* extra-info fields a request may carry unparsable
  OrderRequests,   \* whether requests with is_order set are sent
  StrictClock,     \* TRUE: two reads of the clock never return the same ms
  CkImplemented    \* FALSE: append_check_point is unimplemented!() as in the source

ASSUME ConstAssumption ==
  /\ Pop \notin Req
  /\ NumMsgs \in Nat \ {0}
  /\ ReadQueueNums \in Nat \ {0}
  /\ MaxTime \in Nat
  /\ MaxCrash \in Nat
  /\ BufCap \in Nat
  /\ MalformedFields \subseteq {"rqid", "ckOffset", "popTime", "invTime"}
  /\ OrderRequests \in BOOLEAN
  /\ StrictClock \in BOOLEAN
  /\ CkImplemented \in BOOLEAN

VARIABLES
  clock,     \* get_current_millis()
  log,       \* the store: CK and ack records in append order
  flushed,   \* length of the flushed prefix of log
  buffer,    \* acks held by the ack-merge buffer, not yet in the log
  handles,   \* (offset, ck start offset, pop time) the consumer may send as extra_info
  minOff,    \* get_min_offset_in_queue; the max offset is NumMsgs
  crashes,   \* number of broker crashes so far
  pc,        \* where each handler task is
  req,       \* the request each handler serves
  now,       \* the `now` each handler read
  resp       \* the response each handler returned

vars == <<clock, log, flushed, buffer, handles, minOff, crashes, pc, req, now, resp>>

Msgs == 0..NumMsgs-1
Times == 0..MaxTime
QueueIds == {-1, 0, ReadQueueNums}
Handle == [off : Msgs, start : Msgs, pt : Times]
Record == [type : {"ck", "ack"}, start : Msgs, pt : Times,
           offs : SUBSET Msgs, by : Req \cup {Pop}]
Request == [h : Handle, topicOk : BOOLEAN, qid : QueueIds,
            order : BOOLEAN, bad : SUBSET MalformedFields]
NoReq == [h |-> [off |-> 0, start |-> 0, pt |-> 0], topicOk |-> FALSE,
          qid |-> 0, order |-> FALSE, bad |-> {}]
Codes == {"TopicNotExist", "MessageIllegal", "NoMessage", "ProtocolError",
          "SystemError", "Success"}
\* Panic: the task panicked; ConnLost: the broker crashed under it.
NoResponse == {"None", "Panic", "ConnLost"}
PcVals == {"idle", "ck", "ack", "put", "done"}

\* Statuses of a store append that leave the record in the log.
AppendedStatus == {"PutOk", "FlushDiskTimeout", "FlushSlaveTimeout", "SlaveNotAvailable"}
PutStatus == AppendedStatus \cup {"ServiceNotAvailable", "MessageIllegal"}
\* The statuses process_request_inner accepts for the new CK.
CkOkStatus == {"PutOk", "FlushDiskTimeout", "FlushSlaveTimeout", "SlaveNotAvailable"}

\* The checkpoint of the original pop: messages 0..NumMsgs-1 from start 0 at time 0.
PopCk == [type |-> "ck", start |-> 0, pt |-> 0, offs |-> Msgs, by |-> Pop]

Init ==
  /\ clock = 0
  /\ log = <<PopCk>>
  /\ flushed = 1
  /\ buffer = {}
  /\ handles = {[off |-> m, start |-> 0, pt |-> 0] : m \in Msgs}
  /\ minOff = 0
  /\ crashes = 0
  /\ pc = [r \in Req |-> "idle"]
  /\ req = [r \in Req |-> NoReq]
  /\ now = [r \in Req |-> 0]
  /\ resp = [r \in Req |-> "None"]

Finish(r, code) ==
  /\ pc' = [pc EXCEPT ![r] = "done"]
  /\ resp' = [resp EXCEPT ![r] = code]

\* The consumer learns the new receipt handle from a success response.
Succeed(r) ==
  /\ Finish(r, "Success")
  /\ handles' = handles \cup
       {[off |-> req[r].h.off, start |-> req[r].h.off, pt |-> now[r]]}

\* The early returns of process_request_inner, in the order of the code.
Verdict(i) ==
  CASE ~i.topicOk                                   -> "TopicNotExist"
    [] i.qid >= ReadQueueNums \/ i.qid < 0          -> "MessageIllegal"
    [] i.h.off < minOff \/ i.h.off > NumMsgs        -> "NoMessage"
    [] i.order                                      -> "Panic"
    [] "rqid" \in i.bad                             -> "ProtocolError"
    [] OTHER                                        -> "Proceed"

(***************************************************************************)
(* A request arrives and runs up to the await of append_check_point: the   *)
(* topic, queue-id and offset checks, the split of extra_info, the order   *)
(* branch (unimplemented!()), the read of `now` and of the revive qid.     *)
(***************************************************************************)
Process(r) ==
  /\ pc[r] = "idle"
  /\ \E i \in Request :
       /\ i.h \in handles
       /\ OrderRequests \/ ~i.order
       /\ req' = [req EXCEPT ![r] = i]
       /\ IF Verdict(i) = "Proceed"
            THEN /\ ~StrictClock \/ clock < MaxTime
                 /\ clock' = IF StrictClock THEN clock + 1 ELSE clock
                 /\ now' = [now EXCEPT ![r] = clock']
                 /\ pc' = [pc EXCEPT ![r] = "ck"]
                 /\ UNCHANGED resp
            ELSE /\ Finish(r, Verdict(i))
                 /\ UNCHANGED <<clock, now>>
  /\ UNCHANGED <<log, flushed, buffer, handles, minOff, crashes>>

(***************************************************************************)
(* append_check_point resolves and its status is matched: an accepted      *)
(* status goes on to ack_origin, any other one answers SystemError.        *)
(***************************************************************************)
\* The checkpoint append_check_point builds (spec section 4.3): the message at
\* the request offset, popped at `now`.  Its signature carries the request
\* header, the revive qid, `now` and the broker name only, so the CK starts at
\* the request offset.
NewCk(r) == [type |-> "ck", start |-> req[r].h.off, pt |-> now[r],
             offs |-> {req[r].h.off}, by |-> r]

\* Mutant: the CK status match also accepts a status that appended nothing.
AppendCkAnyStatus(r) ==
  /\ pc[r] = "ck"
  /\ \E st \in PutStatus :
       /\ log' = IF st \in AppendedStatus
                   THEN Append(log, NewCk(r))
                   ELSE log
       /\ pc' = [pc EXCEPT ![r] = "ack"]
       /\ UNCHANGED resp
  /\ UNCHANGED <<clock, flushed, buffer, handles, minOff, crashes, req, now>>

AppendCk(r) ==
  /\ pc[r] = "ck"
  /\ IF ~CkImplemented
       THEN /\ Finish(r, "Panic")
            /\ UNCHANGED log
       ELSE \E st \in PutStatus :
              /\ log' = IF st \in AppendedStatus
                          THEN Append(log, NewCk(r))
                          ELSE log
              /\ IF st \in CkOkStatus
                   THEN /\ pc' = [pc EXCEPT ![r] = "ack"]
                        /\ UNCHANGED resp
                   ELSE Finish(r, "SystemError")
  /\ UNCHANGED <<clock, flushed, buffer, handles, minOff, crashes, req, now>>

\* Mutant: the AckMsg takes the pop time of the new CK instead of extra_info's.
AckOfNewPopTime(r) == [type |-> "ack", start |-> req[r].h.start, pt |-> now[r],
                       offs |-> {req[r].h.off}, by |-> r]

\* The AckMsg of ack_origin: the request offset, the CK offset and pop time of extra_info.
AckOf(r) == [type |-> "ack", start |-> req[r].h.start, pt |-> req[r].h.pt,
             offs |-> {req[r].h.off}, by |-> r]

(***************************************************************************)
(* ack_origin up to add_ack.  A field that fails to parse ends ack_origin  *)
(* with an error that process_request_inner only logs; if the buffer       *)
(* takes the ack the handler answers at once.                              *)
(***************************************************************************)
\* Mutant: add_ack waits for room instead of declining to the durable path.
AckOriginWaits(r) ==
  /\ pc[r] = "ack"
  /\ \/ /\ req[r].bad \cap {"ckOffset", "popTime"} # {}
        /\ Succeed(r)
        /\ UNCHANGED buffer
     \/ /\ req[r].bad \cap {"ckOffset", "popTime"} = {}
        /\ Cardinality(buffer) < BufCap
        /\ buffer' = buffer \cup {AckOf(r)}
        /\ Succeed(r)
  /\ UNCHANGED <<clock, log, flushed, minOff, crashes, req, now>>

AckOrigin(r) ==
  /\ pc[r] = "ack"
  /\ \/ /\ req[r].bad \cap {"ckOffset", "popTime"} # {}
        /\ Succeed(r)
        /\ UNCHANGED buffer
     \/ /\ req[r].bad \cap {"ckOffset", "popTime"} = {}
        /\ Cardinality(buffer) < BufCap
        /\ buffer' = buffer \cup {AckOf(r)}
        /\ Succeed(r)
     \/ /\ req[r].bad \cap {"ckOffset", "popTime"} = {}
        /\ pc' = [pc EXCEPT ![r] = "put"]
        /\ UNCHANGED <<buffer, resp, handles>>
  /\ UNCHANGED <<clock, log, flushed, minOff, crashes, req, now>>

(***************************************************************************)
(* The durable path of ack_origin: the deliver time needs invisible_time   *)
(* of extra_info; the ack message is put to the revive topic and its       *)
(* status is only logged.  Then the success response.                      *)
(***************************************************************************)
PutAck(r) ==
  /\ pc[r] = "put"
  /\ \/ /\ "invTime" \in req[r].bad
        /\ UNCHANGED log
     \/ /\ "invTime" \notin req[r].bad
        /\ \E st \in PutStatus :
             log' = IF st \in AppendedStatus THEN Append(log, AckOf(r)) ELSE log
  /\ Succeed(r)
  /\ UNCHANGED <<clock, flushed, buffer, minOff, crashes, req, now>>

(***************************************************************************)
(* Collaborators: the store flushes a prefix, the ack-merge buffer writes  *)
(* a merged ack to the log, the clock ticks, the queue's min offset moves  *)
(* up, and the broker crashes.                                             *)
(***************************************************************************)
Flush ==
  /\ \E k \in flushed+1..Len(log) : flushed' = k
  /\ UNCHANGED <<clock, log, buffer, handles, minOff, crashes, pc, req, now, resp>>

BufferFlush ==
  /\ \E a \in buffer :
       /\ log' = Append(log, a)
       /\ buffer' = buffer \ {a}
  /\ UNCHANGED <<clock, flushed, handles, minOff, crashes, pc, req, now, resp>>

Tick ==
  /\ clock < MaxTime
  /\ clock' = clock + 1
  /\ UNCHANGED <<log, flushed, buffer, handles, minOff, crashes, pc, req, now, resp>>

Expire ==
  /\ minOff < NumMsgs
  /\ minOff' = minOff + 1
  /\ UNCHANGED <<clock, log, flushed, buffer, handles, crashes, pc, req, now, resp>>

InFlight == {r \in Req : pc[r] \in {"ck", "ack", "put"}}

\* Mutant: recovery truncates the log one record short of the flushed prefix.
CrashShort ==
  /\ crashes < MaxCrash
  /\ crashes' = crashes + 1
  /\ log' = SubSeq(log, 1, flushed - 1)
  /\ buffer' = {}
  /\ pc' = [r \in Req |-> IF r \in InFlight THEN "done" ELSE pc[r]]
  /\ resp' = [r \in Req |-> IF r \in InFlight THEN "ConnLost" ELSE resp[r]]
  /\ UNCHANGED <<clock, flushed, handles, minOff, req, now>>

Crash ==
  /\ crashes < MaxCrash
  /\ crashes' = crashes + 1
  /\ log' = SubSeq(log, 1, flushed)
  /\ buffer' = {}
  /\ pc' = [r \in Req |-> IF r \in InFlight THEN "done" ELSE pc[r]]
  /\ resp' = [r \in Req |-> IF r \in InFlight THEN "ConnLost" ELSE resp[r]]
  /\ UNCHANGED <<clock, flushed, handles, minOff, req, now>>

\* Every request of the model has been answered: the broker idles.
Served ==
  /\ \A r \in Req : pc[r] = "done"
  /\ UNCHANGED vars

Next ==
  \/ \E r \in Req : Process(r) \/ AppendCk(r) \/ AckOrigin(r) \/ PutAck(r)
  \/ Flush \/ BufferFlush \/ Tick \/ Expire \/ Crash
  \/ Served

Spec == Init /\ [][Next]_vars

(***************************************************************************)
(* Each request is an async task that the runtime keeps polling, and each  *)
(* of its awaits (append_check_point, add_ack, put_message_to_specific_    *)
(* queue) returns: spec section 5 requires the collaborators to be         *)
(* non-blocking.  Hence weak fairness of every handler step; none for the  *)
(* arrival of requests, the store, the buffer, the clock or crashes.       *)
(***************************************************************************)
Handler(r) == AppendCk(r) \/ AckOrigin(r) \/ PutAck(r)
FairSpec == Spec /\ \A r \in Req : WF_vars(Handler(r))

-----------------------------------------------------------------------------
(* Properties *)

TypeOK ==
  /\ clock \in Times
  /\ log \in Seq(Record)
  /\ flushed \in 1..Len(log)
  /\ buffer \subseteq Record
  /\ handles \subseteq Handle
  /\ minOff \in 0..NumMsgs
  /\ crashes \in 0..MaxCrash
  /\ pc \in [Req -> PcVals]
  /\ req \in [Req -> Request]
  /\ now \in [Req -> Times]
  /\ resp \in [Req -> Codes \cup NoResponse]

Acks == {log[i] : i \in {j \in 1..Len(log) : log[j].type = "ack"}} \cup buffer

\* The revive process pairs ack a with checkpoint ck for message m.
Pairs(a, ck, m) == m \in a.offs /\ a.start = ck.start /\ a.pt = ck.pt

Live(ck, m) == m \in ck.offs /\ ~\E a \in Acks : Pairs(a, ck, m)

\* At-least-once: whatever requests, store outcomes, crashes and buffer
\* flushes happened, every popped message still has a checkpoint that no
\* ack cancels, so the revive process will redeliver it.  This is what the
\* write-ahead order of process_request_inner (CK before ack_origin) is for.
NoLostMessage ==
  \A m \in Msgs : \E i \in 1..Len(log) : log[i].type = "ck" /\ Live(log[i], m)

\* Write-ahead: every ack in the log is preceded in the log by a newer
\* checkpoint of the same message, and every ack in the ack-merge buffer
\* has such a checkpoint in the log, across crashes and buffer flushes.
NewerCk(lg, a, j) == lg[j].type = "ck" /\ lg[j].offs = a.offs /\ lg[j].pt > a.pt

WriteAhead ==
  /\ \A i \in 1..Len(log) :
       log[i].type = "ack" => \E j \in 1..i-1 : NewerCk(log, log[i], j)
  /\ \A a \in buffer : \E j \in 1..Len(log) : NewerCk(log, a, j)

(***************************************************************************)
(* The strengthening of WriteAhead that is inductive (proved in            *)
(* ChangeInvisibleTimeProofs): every handle the consumer holds is no newer *)
(* than the clock, a handler past its `now` read has a `now` newer than    *)
(* the pop time of its handle, and a handler past the CK step has its      *)
(* newer CK in the log.                                                    *)
(***************************************************************************)
HandlesPast == \A h \in handles : h.pt <= clock

HandlerOK(r) ==
  /\ pc[r] \in {"ck", "ack", "put"} => req[r].h.pt < now[r] /\ now[r] <= clock
  /\ pc[r] \in {"ack", "put"} => \E j \in 1..Len(log) : NewerCk(log, AckOf(r), j)

HandlerInv == \A r \in Req : HandlerOK(r)

IInv == TypeOK /\ WriteAhead /\ HandlesPast /\ HandlerInv

\* Spec section 3: decoding extra_info fails atomically, a request whose
\* extra_info has an unparsable field is rejected and leaves no record.
AtomicDecode ==
  \A r \in Req :
    req[r].bad # {} /\ pc[r] = "done" =>
      /\ resp[r] # "Success"
      /\ ~\E i \in 1..Len(log) : log[i].by = r

\* Spec section 4.5: every request that passed validation is eventually
\* answered with a response code, through the CK append, the fast or the
\* durable ack path and their failures, unless a crash drops the connection.
Answered == \A r \in Req : pc[r] = "ck" ~> resp[r] \in Codes \cup {"ConnLost"}

\* Spec section 4.5: a handler that has finished produced a response
\* (a crash of the broker aside).
AlwaysResponds ==
  \A r \in Req : pc[r] = "done" => resp[r] # "Panic"

(***************************************************************************)
(* Refinement: the keys (start offset, pop time) of the checkpoints of     *)
(* each message, split into live ones and ones an ack cancels, are the     *)
(* state of the abstract Invisibility specification.  A CK append is a     *)
(* Checkpoint, an ack written to the buffer or to the log is an Ack of the *)
(* key it cancels, a crash is a Recover, and every other step leaves the   *)
(* keys alone.                                                             *)
(***************************************************************************)
Cks == {log[i] : i \in {j \in 1..Len(log) : log[j].type = "ck"}}

KeyOf(c) == [start |-> c.start, pt |-> c.pt]

LiveKeys == [m \in Msgs |-> {KeyOf(c) : c \in {c2 \in Cks : Live(c2, m)}}]

DeadKeys == [m \in Msgs |-> {KeyOf(c) : c \in {c2 \in Cks : m \in c2.offs /\ ~Live(c2, m)}}]

Abs == INSTANCE Invisibility WITH Msg <- Msgs, Start <- Msgs, Time <- Times,
                                  live <- LiveKeys, cancelled <- DeadKeys

\* ChangeInvisibleTime implements Invisibility: process_request_inner only
\* ever cancels a checkpoint of a message while a newer one of the same
\* message stays live, its CK appends add keys no ack has cancelled, and a
\* crash neither invents nor cancels a key and leaves every message one.
ImplementsInvisibility == Abs!Spec
=============================================================================
