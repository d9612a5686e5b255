-------------------- MODULE ChangeInvisibleTimeRefinement --------------------
(***************************************************************************)
(* ChangeInvisibleTime implements the abstract Invisibility specification  *)
(* under the mapping LiveKeys / DeadKeys, for every value of the constants *)
(* and a clock that never returns the same millisecond twice.              *)
(*                                                                         *)
(* Every step changes the checkpoints Cks and the acks Acks in one of four *)
(* ways: a CK append adds one checkpoint, ack_origin (buffer or durable    *)
(* put) adds one ack, a crash keeps a subset of both, and every other step *)
(* leaves both alone (a buffer flush moves an ack from the buffer to the   *)
(* log).  Each way is a step of Invisibility or a stutter:                 *)
(*   - the new CK's key is not cancelled, since no ack carries the pop     *)
(*     time `now` of a handler at the CK step (NowFresh: acks carry the    *)
(*     pop times of handles, and handles never carry the `now` of a        *)
(*     handler still at the CK step);                                      *)
(*   - an ack cancels at most the key of its own handle, and when it does, *)
(*     the newest checkpoint of the message is live and newer (the         *)
(*     argument of ChangeInvisibleTimeSafety);                             *)
(*   - a crash only forgets checkpoints and acks.                          *)
(***************************************************************************)
EXTENDS ChangeInvisibleTimeSafety

USE ConstAssumption

InFl == {"ck", "ack", "put"}

\* The ack-merge buffer holds acks only.
BufAcks == \A a \in buffer : a.type = "ack"

\* Every ack carries the pop time of a handle the consumer was given.
AckPts == \A a \in Acks : \E h \in handles : h.pt = a.pt

\* A handler past its request's validation serves a handle of the consumer.
ReqHandles == \A r \in Req : pc[r] \in InFl => req[r].h \in handles

\* A handler at the CK step read a `now` no other handler in flight read.
NowDistinct ==
  \A r, s \in Req : r # s /\ pc[r] = "ck" /\ pc[s] \in InFl => now[r] # now[s]

\* No handle carries the `now` of a handler at the CK step.
NowFresh == \A r \in Req : pc[r] = "ck" => \A h \in handles : h.pt # now[r]

FInv == BufAcks /\ AckPts /\ ReqHandles /\ NowDistinct /\ NowFresh

RInv == IInv /\ FirstCk /\ FInv

-----------------------------------------------------------------------------
(***************************************************************************)
(* The records of one type in a log, and what appending and truncating do *)
(* to them.                                                                *)
(***************************************************************************)
Recs(lg, t) == {lg[i] : i \in {j \in 1..Len(lg) : lg[j].type = t}}

LEMMA RecsAppend ==
  ASSUME NEW lg \in Seq(Record), NEW x \in Record, NEW t
  PROVE  Recs(Append(lg, x), t) = Recs(lg, t) \cup (IF x.type = t THEN {x} ELSE {})
<1>1. /\ Len(Append(lg, x)) = Len(lg) + 1
      /\ \A k \in 1..Len(lg) : Append(lg, x)[k] = lg[k]
      /\ Append(lg, x)[Len(lg) + 1] = x
  BY AppendLog
<1>2. \A k \in 1..Len(lg) + 1 : k = Len(lg) + 1 \/ k \in 1..Len(lg)
  BY IndexSplit
<1> QED BY <1>1, <1>2 DEF Recs

LEMMA RecsPrefix ==
  ASSUME NEW lg \in Seq(Record), NEW n \in 0..Len(lg), NEW t
  PROVE  Recs(SubSeq(lg, 1, n), t) \subseteq Recs(lg, t)
<1>1. Len(SubSeq(lg, 1, n)) = n /\ \A k \in 1..n : SubSeq(lg, 1, n)[k] = lg[k]
  OBVIOUS
<1> QED BY <1>1 DEF Recs

LEMMA FInvInit == Init => FInv
<1> SUFFICES ASSUME Init PROVE FInv
  OBVIOUS
<1>1. Acks = {}
  BY DEF Init, Acks, PopCk
<1> QED
  BY <1>1 DEF Init, FInv, BufAcks, AckPts, ReqHandles, NowDistinct, NowFresh, InFl

(***************************************************************************)
(* FInv is inductive together with IInv.  A handler reads `now` one past   *)
(* the clock, and handles and the `now` of handlers in flight are no newer *)
(* than the clock (HandlesPast, HandlerInv): so its `now` is fresh.  A new *)
(* handle carries the `now` of a handler past the CK step, which differs   *)
(* from that of every handler at the CK step (NowDistinct).  Acks carry    *)
(* the pop time of the handle of their request.                            *)
(***************************************************************************)
LEMMA FInvStep == ASSUME StrictClock PROVE IInv /\ FInv /\ [Next]_vars => FInv'
<1> SUFFICES ASSUME IInv, FInv, [Next]_vars PROVE FInv'
  OBVIOUS
<1>0. TypeOK /\ TypeOK'
  BY TypeStep DEF IInv
<1>00. /\ log \in Seq(Record) /\ log' \in Seq(Record)
       /\ flushed \in 1..Len(log)
       /\ buffer \subseteq Record /\ handles \subseteq Handle
       /\ clock \in Times
       /\ pc \in [Req -> PcVals] /\ pc' \in [Req -> PcVals]
       /\ req \in [Req -> Request] /\ now \in [Req -> Times]
  BY <1>0 DEF TypeOK
<1>A. Acks = Recs(log, "ack") \cup buffer /\ Acks' = Recs(log', "ack") \cup buffer'
  BY DEF Acks, Recs
<1>B. \A s \in Req : pc[s] \in InFl => now[s] <= clock
  BY DEF IInv, HandlerInv, HandlerOK, InFl
<1> USE DEF FInv
<1>1. ASSUME NEW r \in Req, Process(r) PROVE FInv'
  <2>1. PICK i \in Request : /\ i.h \in handles
                             /\ req' = [req EXCEPT ![r] = i]
                             /\ IF Verdict(i) = "Proceed"
                                  THEN /\ ~StrictClock \/ clock < MaxTime
                                       /\ clock' = IF StrictClock THEN clock + 1 ELSE clock
                                       /\ now' = [now EXCEPT ![r] = clock']
                                       /\ pc' = [pc EXCEPT ![r] = "ck"]
                                       /\ UNCHANGED resp
                                  ELSE /\ Finish(r, Verdict(i))
                                       /\ UNCHANGED <<clock, now>>
    BY <1>1 DEF Process
  <2>2. UNCHANGED <<log, flushed, buffer, handles>>
    BY <1>1 DEF Process
  <2>3. pc[r] = "idle"
    BY <1>1 DEF Process
  <2>4. BufAcks' /\ AckPts'
    BY <2>2 DEF BufAcks, AckPts, Acks
  <2>5. \A s \in Req : s # r => pc'[s] = pc[s] /\ req'[s] = req[s] /\ now'[s] = now[s]
    BY <1>00, <2>1 DEF Finish
  <2>6. ReqHandles'
    BY <1>00, <2>1, <2>2, <2>5 DEF ReqHandles
  <2>7. CASE Verdict(i) = "Proceed"
    <3>1. now'[r] = clock + 1 /\ pc'[r] = "ck"
      BY <1>00, <2>1, <2>7
    <3>2. NowDistinct'
      <4> SUFFICES ASSUME NEW s1 \in Req, NEW s2 \in Req, s1 # s2,
                          pc'[s1] = "ck", pc'[s2] \in InFl
                   PROVE  now'[s1] # now'[s2]
        BY DEF NowDistinct
      <4>1. CASE s1 = r
        BY <1>00, <1>B, <2>5, <3>1, <4>1 DEF Times
      <4>2. CASE s2 = r
        BY <1>00, <1>B, <2>5, <3>1, <4>2 DEF Times, InFl
      <4>3. CASE s1 # r /\ s2 # r
        BY <2>5, <4>3 DEF NowDistinct
      <4> QED BY <4>1, <4>2, <4>3
    <3>3. NowFresh'
      <4> SUFFICES ASSUME NEW s \in Req, pc'[s] = "ck", NEW h \in handles'
                   PROVE  h.pt # now'[s]
        BY DEF NowFresh
      <4>1. h \in handles /\ h.pt <= clock
        BY <2>2 DEF IInv, HandlesPast
      <4>2. CASE s = r
        BY <1>00, <3>1, <4>1, <4>2 DEF Handle, Times
      <4>3. CASE s # r
        BY <2>2, <2>5, <4>3 DEF NowFresh
      <4> QED BY <4>2, <4>3
    <3> QED BY <2>4, <2>6, <3>2, <3>3
  <2>8. CASE Verdict(i) # "Proceed"
    <3>1. pc'[r] = "done" /\ UNCHANGED now
      BY <1>00, <2>1, <2>8 DEF Finish
    <3>2. NowDistinct'
      BY <2>5, <3>1 DEF NowDistinct, InFl
    <3>3. NowFresh'
      BY <2>2, <2>5, <3>1 DEF NowFresh
    <3> QED BY <2>4, <2>6, <3>2, <3>3
  <2> QED BY <2>7, <2>8
<1>2. ASSUME NEW r \in Req, AppendCk(r) PROVE FInv'
  <2>1. UNCHANGED <<buffer, handles, req, now>>
    BY <1>2 DEF AppendCk
  <2>2. pc[r] = "ck"
    BY <1>2 DEF AppendCk
  <2>3. /\ log' = log \/ log' = Append(log, NewCk(r))
        /\ pc' = [pc EXCEPT ![r] = "ack"] \/ pc' = [pc EXCEPT ![r] = "done"]
    BY <1>2 DEF AppendCk, Finish
  <2>4. NewCk(r) \in Record /\ NewCk(r).type = "ck"
    BY <1>00 DEF NewCk, Record, Request, Handle
  <2>5. Recs(log', "ack") = Recs(log, "ack")
    <3>1. CASE log' = Append(log, NewCk(r))
      <4>1. Recs(Append(log, NewCk(r)), "ack")
              = Recs(log, "ack") \cup (IF NewCk(r).type = "ack" THEN {NewCk(r)} ELSE {})
        BY <1>00, <2>4, RecsAppend
      <4> QED BY <2>4, <3>1, <4>1
    <3> QED BY <2>3, <3>1
  <2>6. BufAcks' /\ AckPts'
    BY <1>A, <2>1, <2>5 DEF BufAcks, AckPts
  <2>7. \A s \in Req : s # r => pc'[s] = pc[s]
    BY <1>00, <2>3
  <2>8. pc'[r] \in {"ack", "done"}
    BY <1>00, <2>3
  <2>9. ReqHandles'
    BY <2>1, <2>2, <2>7, <2>8 DEF ReqHandles, InFl
  <2>10. NowDistinct'
    <3> SUFFICES ASSUME NEW s1 \in Req, NEW s2 \in Req, s1 # s2,
                        pc'[s1] = "ck", pc'[s2] \in InFl
                 PROVE  now'[s1] # now'[s2]
      BY DEF NowDistinct
    <3>1. s1 # r /\ pc[s1] = "ck"
      BY <2>7, <2>8
    <3>2. pc[s2] \in InFl
      BY <2>2, <2>7, <3>1 DEF InFl
    <3> QED BY <2>1, <3>1, <3>2 DEF NowDistinct
  <2>11. NowFresh'
    BY <2>1, <2>7, <2>8 DEF NowFresh
  <2> QED BY <2>6, <2>9, <2>10, <2>11
<1>3. ASSUME NEW r \in Req, AckOrigin(r) PROVE FInv'
  <2> DEFINE nh == [off |-> req[r].h.off, start |-> req[r].h.off, pt |-> now[r]]
  <2>1. UNCHANGED <<log, req, now>>
    BY <1>3 DEF AckOrigin
  <2>2. pc[r] = "ack"
    BY <1>3 DEF AckOrigin
  <2>3. buffer' \subseteq buffer \cup {AckOf(r)}
    BY <1>3 DEF AckOrigin
  <2>4. handles \subseteq handles' /\ handles' \subseteq handles \cup {nh}
    BY <1>3 DEF AckOrigin, Succeed
  <2>5. pc' = [pc EXCEPT ![r] = "done"] \/ pc' = [pc EXCEPT ![r] = "put"]
    BY <1>3 DEF AckOrigin, Succeed, Finish
  <2>6. AckOf(r).type = "ack" /\ AckOf(r).pt = req[r].h.pt
    BY DEF AckOf
  <2>7. req[r].h \in handles
    BY <2>2 DEF ReqHandles, InFl
  <2>8. BufAcks'
    BY <2>3, <2>6 DEF BufAcks
  <2>9. AckPts'
    <3> SUFFICES ASSUME NEW a \in Acks' PROVE \E h \in handles' : h.pt = a.pt
      BY DEF AckPts
    <3>1. a \in Acks \/ a = AckOf(r)
      BY <1>A, <2>1, <2>3
    <3> QED BY <2>4, <2>6, <2>7, <3>1 DEF AckPts
  <2>10. \A s \in Req : s # r => pc'[s] = pc[s]
    BY <1>00, <2>5
  <2>11. pc'[r] \in {"done", "put"}
    BY <1>00, <2>5
  <2>12. ReqHandles'
    BY <2>1, <2>4, <2>7, <2>10, <2>11 DEF ReqHandles
  <2>13. NowDistinct'
    BY <2>1, <2>2, <2>10, <2>11 DEF NowDistinct, InFl
  <2>14. NowFresh'
    <3> SUFFICES ASSUME NEW s \in Req, pc'[s] = "ck", NEW h \in handles'
                 PROVE  h.pt # now'[s]
      BY DEF NowFresh
    <3>1. s # r /\ pc[s] = "ck"
      BY <2>10, <2>11
    <3>2. now[s] # now[r]
      BY <2>2, <3>1 DEF NowDistinct, InFl
    <3>3. h \in handles \/ h = nh
      BY <2>4
    <3> QED BY <2>1, <3>1, <3>2, <3>3 DEF NowFresh
  <2> QED BY <2>8, <2>9, <2>12, <2>13, <2>14
<1>4. ASSUME NEW r \in Req, PutAck(r) PROVE FInv'
  <2> DEFINE nh == [off |-> req[r].h.off, start |-> req[r].h.off, pt |-> now[r]]
  <2>1. UNCHANGED <<buffer, req, now>>
    BY <1>4 DEF PutAck
  <2>2. pc[r] = "put" /\ pc' = [pc EXCEPT ![r] = "done"]
    BY <1>4 DEF PutAck, Succeed, Finish
  <2>3. log' = log \/ log' = Append(log, AckOf(r))
    BY <1>4 DEF PutAck
  <2>4. handles' = handles \cup {nh}
    BY <1>4 DEF PutAck, Succeed
  <2>5. AckOf(r) \in Record /\ AckOf(r).type = "ack" /\ AckOf(r).pt = req[r].h.pt
    BY <1>00 DEF AckOf, Record, Request, Handle
  <2>6. req[r].h \in handles
    BY <2>2 DEF ReqHandles, InFl
  <2>7. Recs(log', "ack") \subseteq Recs(log, "ack") \cup {AckOf(r)}
    <3>1. CASE log' = Append(log, AckOf(r))
      <4>1. Recs(Append(log, AckOf(r)), "ack")
              = Recs(log, "ack") \cup (IF AckOf(r).type = "ack" THEN {AckOf(r)} ELSE {})
        BY <1>00, <2>5, RecsAppend
      <4> QED BY <2>5, <3>1, <4>1
    <3> QED BY <2>3, <3>1
  <2>8. BufAcks'
    BY <2>1 DEF BufAcks
  <2>9. AckPts'
    <3> SUFFICES ASSUME NEW a \in Acks' PROVE \E h \in handles' : h.pt = a.pt
      BY DEF AckPts
    <3>1. a \in Acks \/ a = AckOf(r)
      BY <1>A, <2>1, <2>7
    <3> QED BY <2>4, <2>5, <2>6, <3>1 DEF AckPts
  <2>10. \A s \in Req : s # r => pc'[s] = pc[s]
    BY <1>00, <2>2
  <2>11. pc'[r] = "done"
    BY <1>00, <2>2
  <2>12. ReqHandles'
    BY <2>1, <2>4, <2>10, <2>11 DEF ReqHandles, InFl
  <2>13. NowDistinct'
    BY <2>1, <2>10, <2>11 DEF NowDistinct, InFl
  <2>14. NowFresh'
    <3> SUFFICES ASSUME NEW s \in Req, pc'[s] = "ck", NEW h \in handles'
                 PROVE  h.pt # now'[s]
      BY DEF NowFresh
    <3>1. s # r /\ pc[s] = "ck"
      BY <2>10, <2>11
    <3>2. now[s] # now[r]
      BY <2>2, <3>1 DEF NowDistinct, InFl
    <3>3. h \in handles \/ h = nh
      BY <2>4
    <3> QED BY <2>1, <3>1, <3>2, <3>3 DEF NowFresh
  <2> QED BY <2>8, <2>9, <2>12, <2>13, <2>14
<1>5. CASE BufferFlush
  <2>1. PICK a \in buffer : log' = Append(log, a) /\ buffer' = buffer \ {a}
    BY <1>5 DEF BufferFlush
  <2>2. UNCHANGED <<handles, pc, req, now>>
    BY <1>5 DEF BufferFlush
  <2>3. a \in Record /\ a.type = "ack"
    BY <1>00 DEF BufAcks
  <2>4. Recs(Append(log, a), "ack")
          = Recs(log, "ack") \cup (IF a.type = "ack" THEN {a} ELSE {})
    BY <1>00, <2>3, RecsAppend
  <2>5. Acks' = Acks
    BY <1>A, <2>1, <2>3, <2>4
  <2> QED BY <2>1, <2>2, <2>5 DEF BufAcks, AckPts, ReqHandles, NowDistinct, NowFresh
<1>6. CASE Crash
  <2>1. /\ log' = SubSeq(log, 1, flushed)
        /\ buffer' = {}
        /\ pc' = [s \in Req |-> IF s \in InFlight THEN "done" ELSE pc[s]]
        /\ UNCHANGED <<handles, req, now>>
    BY <1>6 DEF Crash
  <2>2. Recs(log', "ack") \subseteq Recs(log, "ack")
    BY <1>00, <2>1, RecsPrefix
  <2>3. Acks' \subseteq Acks
    BY <1>A, <2>1, <2>2
  <2>4. \A s \in Req : pc'[s] \notin InFl
    BY <2>1 DEF InFlight, InFl
  <2> QED BY <2>1, <2>3, <2>4 DEF BufAcks, AckPts, ReqHandles, NowDistinct, NowFresh
<1>7. CASE Flush \/ Tick \/ Expire \/ Served \/ UNCHANGED vars
  <2>1. UNCHANGED <<log, buffer, handles, pc, req, now>>
    BY <1>7 DEF Flush, Tick, Expire, Served, vars
  <2> QED BY <2>1 DEF BufAcks, AckPts, Acks, ReqHandles, NowDistinct, NowFresh
<1> QED
  BY <1>1, <1>2, <1>3, <1>4, <1>5, <1>6, <1>7 DEF Next

-----------------------------------------------------------------------------
(***************************************************************************)
(* What the four kinds of steps do to LiveKeys and DeadKeys.  A key's      *)
(* liveness for a message depends only on the key and on Acks, so all the  *)
(* checkpoints of a message with one key are live or cancelled together.   *)
(***************************************************************************)
LEMMA KeysSame ==
  ASSUME Cks' = Cks, Acks' = Acks
  PROVE  LiveKeys' = LiveKeys /\ DeadKeys' = DeadKeys
  BY DEF LiveKeys, DeadKeys, Live, Pairs, KeyOf

LEMMA KeysNewCk ==
  ASSUME NEW c, NEW o \in Msgs, c.offs = {o},
         Cks' = Cks \cup {c}, Acks' = Acks,
         \A a \in Acks : ~Pairs(a, c, o)
  PROVE  /\ LiveKeys' = [LiveKeys EXCEPT ![o] = @ \cup {KeyOf(c)}]
         /\ DeadKeys' = DeadKeys
         /\ KeyOf(c) \notin DeadKeys[o]
<1>1. \A m \in Msgs : LiveKeys'[m] = IF m = o THEN LiveKeys[m] \cup {KeyOf(c)} ELSE LiveKeys[m]
  BY DEF LiveKeys, Live, Pairs
<1>2. LiveKeys' = [LiveKeys EXCEPT ![o] = @ \cup {KeyOf(c)}]
  BY <1>1 DEF LiveKeys
<1>3. DeadKeys' = DeadKeys
  BY DEF DeadKeys, Live, Pairs
<1>4. KeyOf(c) \notin DeadKeys[o]
  <2> SUFFICES ASSUME NEW x \in Cks, o \in x.offs, ~Live(x, o), KeyOf(x) = KeyOf(c)
               PROVE  FALSE
    BY DEF DeadKeys
  <2>1. PICK a \in Acks : Pairs(a, x, o)
    BY DEF Live
  <2>2. x.start = c.start /\ x.pt = c.pt
    BY DEF KeyOf
  <2> QED BY <2>1, <2>2 DEF Pairs
<1> QED BY <1>2, <1>3, <1>4

LEMMA KeysNewAck ==
  ASSUME NEW a, NEW o \in Msgs, a.offs = {o},
         Cks' = Cks, Acks' = Acks \cup {a}
  PROVE  /\ KeyOf(a) \in LiveKeys[o] =>
              /\ LiveKeys' = [LiveKeys EXCEPT ![o] = @ \ {KeyOf(a)}]
              /\ DeadKeys' = [DeadKeys EXCEPT ![o] = @ \cup {KeyOf(a)}]
         /\ KeyOf(a) \notin LiveKeys[o] =>
              LiveKeys' = LiveKeys /\ DeadKeys' = DeadKeys
<1>1. \A x \in Cks, m \in Msgs :
        Live(x, m)' <=> Live(x, m) /\ ~(m = o /\ KeyOf(x) = KeyOf(a))
  BY DEF Live, Pairs, KeyOf
<1>2. \A m \in Msgs : LiveKeys'[m] = IF m = o THEN LiveKeys[m] \ {KeyOf(a)} ELSE LiveKeys[m]
  BY <1>1 DEF LiveKeys
<1>3. \A m \in Msgs : m # o => DeadKeys'[m] = DeadKeys[m]
  BY <1>1 DEF DeadKeys
<1>4. DeadKeys'[o] = DeadKeys[o] \cup {KeyOf(x) : x \in {y \in Cks : o \in y.offs /\ KeyOf(y) = KeyOf(a)}}
  BY <1>1 DEF DeadKeys
<1>5. ASSUME KeyOf(a) \in LiveKeys[o]
      PROVE  DeadKeys'[o] = DeadKeys[o] \cup {KeyOf(a)}
  <2>1. PICK x \in Cks : Live(x, o) /\ KeyOf(x) = KeyOf(a)
    BY <1>5 DEF LiveKeys
  <2>2. o \in x.offs
    BY <2>1 DEF Live
  <2> QED BY <1>4, <2>1, <2>2
<1>6. ASSUME KeyOf(a) \notin LiveKeys[o]
      PROVE  DeadKeys'[o] = DeadKeys[o]
  <2> SUFFICES ASSUME NEW x \in Cks, o \in x.offs, KeyOf(x) = KeyOf(a)
               PROVE  KeyOf(x) \in DeadKeys[o]
    BY <1>4
  <2>1. ~Live(x, o)
    BY <1>6 DEF LiveKeys
  <2> QED BY <2>1 DEF DeadKeys
<1>7. LiveKeys' = [m \in Msgs |-> LiveKeys'[m]] /\ DeadKeys' = [m \in Msgs |-> DeadKeys'[m]]
  BY DEF LiveKeys, DeadKeys
<1>8. LiveKeys = [m \in Msgs |-> LiveKeys[m]] /\ DeadKeys = [m \in Msgs |-> DeadKeys[m]]
  BY DEF LiveKeys, DeadKeys
<1> QED BY <1>2, <1>3, <1>5, <1>6, <1>7, <1>8

LEMMA KeysShrink ==
  ASSUME Cks' \subseteq Cks, Acks' \subseteq Acks
  PROVE  \A m \in Msgs :
           /\ LiveKeys'[m] \cup DeadKeys'[m] \subseteq LiveKeys[m] \cup DeadKeys[m]
           /\ DeadKeys'[m] \subseteq DeadKeys[m]
<1> SUFFICES ASSUME NEW m \in Msgs
             PROVE  /\ LiveKeys'[m] \cup DeadKeys'[m] \subseteq LiveKeys[m] \cup DeadKeys[m]
                    /\ DeadKeys'[m] \subseteq DeadKeys[m]
  OBVIOUS
<1>1. \A x \in Cks : m \in x.offs => KeyOf(x) \in LiveKeys[m] \cup DeadKeys[m]
  BY DEF LiveKeys, DeadKeys, Live
<1>2. \A x \in Cks' : ~Live(x, m)' => ~Live(x, m)
  BY DEF Live
<1>3. LiveKeys'[m] \cup DeadKeys'[m] \subseteq LiveKeys[m] \cup DeadKeys[m]
  BY <1>1 DEF LiveKeys, DeadKeys, Live
<1>4. DeadKeys'[m] \subseteq DeadKeys[m]
  BY <1>2 DEF DeadKeys
<1> QED BY <1>3, <1>4

\* An ack backed by a newer checkpoint of its message leaves a newer live key.
LEMMA NewerLiveKey ==
  ASSUME TypeOK, WriteAhead, FirstCk, NEW o \in Msgs, NEW a, a.pt \in Nat,
         NEW j \in 1..Len(log), NewerCk(log, a, j), a.offs = {o}
  PROVE  \E k2 \in LiveKeys[o] : k2.pt > a.pt
<1>1. 1 \in CoveringCks(o)
  BY DEF FirstCk, PopCk, CoveringCks
<1>2. PICK i \in CoveringCks(o) : \A j2 \in CoveringCks(o) : log[j2].pt <= log[i].pt
  BY <1>1, NewestCk
<1>3. Live(log[i], o)
  BY <1>2, NewestIsLive
<1>4. j \in CoveringCks(o) /\ log[j].pt > a.pt
  BY DEF NewerCk, CoveringCks
<1>5. log[i] \in Record /\ log[j] \in Record
  BY DEF TypeOK, CoveringCks
<1>6. log[i].pt > a.pt
  BY <1>2, <1>4, <1>5 DEF Record, Times
<1>7. log[i] \in Cks
  BY DEF Cks, CoveringCks
<1>8. KeyOf(log[i]) \in LiveKeys[o] /\ KeyOf(log[i]).pt = log[i].pt
  BY <1>3, <1>7 DEF LiveKeys, KeyOf
<1> QED BY <1>6, <1>8

\* The keys of the next state are keys of Invisibility.
LEMMA KeysTypedNext ==
  ASSUME log' \in Seq(Record)
  PROVE  /\ LiveKeys' \in [Msgs -> SUBSET Abs!Key]
         /\ DeadKeys' \in [Msgs -> SUBSET Abs!Key]
<1>1. Cks' \subseteq Record
  BY DEF Cks
<1>2. \A x \in Record : KeyOf(x) \in Abs!Key
  BY DEF KeyOf, Record, Abs!Key
<1> QED BY <1>1, <1>2 DEF LiveKeys, DeadKeys

\* ack_origin adding the ack of handler r (to the buffer or to the log) is
\* an Ack of the key it cancels, or leaves the keys alone.
LEMMA AckStep ==
  ASSUME RInv, NEW r \in Req, pc[r] \in {"ack", "put"},
         Cks' = Cks, Acks' = Acks \cup {AckOf(r)}
  PROVE  [Abs!Next]_Abs!vars
<1> DEFINE o == req[r].h.off
           k == KeyOf(AckOf(r))
<1>1. o \in Msgs /\ AckOf(r).offs = {o} /\ AckOf(r).pt \in Nat
  BY DEF RInv, IInv, TypeOK, AckOf, Request, Handle, Times
<1>2. k \in Abs!Key /\ k.pt = AckOf(r).pt
  BY DEF RInv, IInv, TypeOK, KeyOf, AckOf, Request, Handle, Abs!Key
<1>3. CASE k \in LiveKeys[o]
  <2>1. PICK j \in 1..Len(log) : NewerCk(log, AckOf(r), j)
    BY DEF RInv, IInv, HandlerInv, HandlerOK
  <2>2. \E k2 \in LiveKeys[o] : k2.pt > k.pt
    BY <1>1, <1>2, <2>1, NewerLiveKey DEF RInv, IInv
  <2>3. /\ LiveKeys' = [LiveKeys EXCEPT ![o] = @ \ {k}]
        /\ DeadKeys' = [DeadKeys EXCEPT ![o] = @ \cup {k}]
    BY <1>1, <1>3, KeysNewAck
  <2>4. Abs!Ack(o, k)
    BY <1>3, <2>2, <2>3 DEF Abs!Ack
  <2> QED BY <1>1, <1>2, <2>4 DEF Abs!Next
<1>4. CASE k \notin LiveKeys[o]
  <2>1. LiveKeys' = LiveKeys /\ DeadKeys' = DeadKeys
    BY <1>1, <1>4, KeysNewAck
  <2> QED BY <2>1 DEF Abs!vars
<1> QED BY <1>3, <1>4

-----------------------------------------------------------------------------
(***************************************************************************)
(* Every step of ChangeInvisibleTime is a step of Invisibility under the   *)
(* mapping, or leaves the mapped state alone.                              *)
(***************************************************************************)
LEMMA RefStep ==
  ASSUME StrictClock
  PROVE  RInv /\ NoLostMessage' /\ [Next]_vars => [Abs!Next]_Abs!vars
<1> SUFFICES ASSUME RInv, NoLostMessage', [Next]_vars PROVE [Abs!Next]_Abs!vars
  OBVIOUS
<1>0. TypeOK /\ TypeOK'
  BY TypeStep DEF RInv, IInv
<1>00. /\ log \in Seq(Record) /\ log' \in Seq(Record)
       /\ flushed \in 1..Len(log)
       /\ buffer \subseteq Record
       /\ req \in [Req -> Request] /\ now \in [Req -> Times]
  BY <1>0 DEF TypeOK
<1>C. Cks = Recs(log, "ck") /\ Cks' = Recs(log', "ck")
      /\ Acks = Recs(log, "ack") \cup buffer /\ Acks' = Recs(log', "ack") \cup buffer'
  BY DEF Cks, Acks, Recs
<1>S. ASSUME UNCHANGED <<log, buffer>> PROVE [Abs!Next]_Abs!vars
  <2>1. Cks' = Cks /\ Acks' = Acks
    BY <1>S DEF Cks, Acks
  <2> QED BY <2>1, KeysSame DEF Abs!vars
<1>1. ASSUME NEW r \in Req, Process(r) PROVE [Abs!Next]_Abs!vars
  BY <1>1, <1>S DEF Process
<1>2. ASSUME NEW r \in Req, AppendCk(r) PROVE [Abs!Next]_Abs!vars
  <2> DEFINE c == NewCk(r)
             o == req[r].h.off
  <2>1. UNCHANGED buffer /\ pc[r] = "ck"
    BY <1>2 DEF AppendCk
  <2>2. log' = log \/ log' = Append(log, c)
    BY <1>2 DEF AppendCk
  <2>3. CASE log' = Append(log, c)
    <3>1. c \in Record /\ c.type = "ck" /\ c.offs = {o} /\ o \in Msgs
      BY <1>00 DEF c, o, NewCk, Record, Request, Handle
    <3>2. Recs(Append(log, c), "ck") = Recs(log, "ck") \cup (IF c.type = "ck" THEN {c} ELSE {})
      BY <1>00, <3>1, RecsAppend
    <3>8. Recs(Append(log, c), "ack") = Recs(log, "ack")
      <4>1. c \in Record
        BY <3>1
      <4>2. Recs(Append(log, c), "ack") = Recs(log, "ack") \cup (IF c.type = "ack" THEN {c} ELSE {})
        BY <1>00, <4>1, RecsAppend
      <4> QED BY <3>1, <4>2
    <3>3. Cks' = Cks \cup {c} /\ Acks' = Acks
      BY <1>C, <2>1, <2>3, <3>1, <3>2, <3>8
    <3>4. \A a \in Acks : ~Pairs(a, c, o)
      <4> SUFFICES ASSUME NEW a \in Acks PROVE a.pt # now[r]
        BY DEF Pairs, NewCk
      <4>1. PICK h \in handles : h.pt = a.pt
        BY DEF RInv, FInv, AckPts
      <4> QED BY <2>1, <4>1 DEF RInv, FInv, NowFresh
    <3>5. /\ LiveKeys' = [LiveKeys EXCEPT ![o] = @ \cup {KeyOf(c)}]
          /\ DeadKeys' = DeadKeys
          /\ KeyOf(c) \notin DeadKeys[o]
      BY <3>1, <3>3, <3>4, KeysNewCk
    <3>6. KeyOf(c) \in Abs!Key
      BY <3>1 DEF KeyOf, Record, Abs!Key
    <3>7. Abs!Checkpoint(o, KeyOf(c))
      BY <3>5 DEF Abs!Checkpoint
    <3> QED BY <3>1, <3>6, <3>7 DEF Abs!Next
  <2> QED BY <1>S, <2>1, <2>2, <2>3
<1>3. ASSUME NEW r \in Req, AckOrigin(r) PROVE [Abs!Next]_Abs!vars
  <2>1. UNCHANGED log /\ pc[r] = "ack"
    BY <1>3 DEF AckOrigin
  <2>2. buffer' = buffer \/ buffer' = buffer \cup {AckOf(r)}
    BY <1>3 DEF AckOrigin
  <2>3. CASE buffer' = buffer \cup {AckOf(r)}
    <3>1. Cks' = Cks /\ Acks' = Acks \cup {AckOf(r)}
      BY <1>C, <2>1, <2>3
    <3> QED BY <2>1, <3>1, AckStep
  <2> QED BY <1>S, <2>1, <2>2, <2>3
<1>4. ASSUME NEW r \in Req, PutAck(r) PROVE [Abs!Next]_Abs!vars
  <2>1. UNCHANGED buffer /\ pc[r] = "put"
    BY <1>4 DEF PutAck
  <2>2. log' = log \/ log' = Append(log, AckOf(r))
    BY <1>4 DEF PutAck
  <2>3. CASE log' = Append(log, AckOf(r))
    <3>1. AckOf(r) \in Record /\ AckOf(r).type = "ack"
      BY <1>00 DEF AckOf, Record, Request, Handle
    <3>2. /\ Recs(Append(log, AckOf(r)), "ck")
             = Recs(log, "ck") \cup (IF AckOf(r).type = "ck" THEN {AckOf(r)} ELSE {})
          /\ Recs(Append(log, AckOf(r)), "ack")
             = Recs(log, "ack") \cup (IF AckOf(r).type = "ack" THEN {AckOf(r)} ELSE {})
      BY <1>00, <3>1, RecsAppend
    <3>3. Cks' = Cks /\ Acks' = Acks \cup {AckOf(r)}
      BY <1>C, <2>1, <2>3, <3>1, <3>2
    <3> QED BY <2>1, <3>3, AckStep
  <2> QED BY <1>S, <2>1, <2>2, <2>3
<1>5. CASE BufferFlush
  <2>1. PICK a \in buffer : log' = Append(log, a) /\ buffer' = buffer \ {a}
    BY <1>5 DEF BufferFlush
  <2>2. a \in Record /\ a.type = "ack"
    BY <1>00 DEF RInv, FInv, BufAcks
  <2>3. /\ Recs(Append(log, a), "ck") = Recs(log, "ck") \cup (IF a.type = "ck" THEN {a} ELSE {})
        /\ Recs(Append(log, a), "ack") = Recs(log, "ack") \cup (IF a.type = "ack" THEN {a} ELSE {})
    BY <1>00, <2>2, RecsAppend
  <2>4. Cks' = Cks /\ Acks' = Acks
    BY <1>C, <2>1, <2>2, <2>3
  <2> QED BY <2>4, KeysSame DEF Abs!vars
<1>6. CASE Crash
  <2>1. log' = SubSeq(log, 1, flushed) /\ buffer' = {}
    BY <1>6 DEF Crash
  <2>2. Recs(log', "ck") \subseteq Recs(log, "ck") /\ Recs(log', "ack") \subseteq Recs(log, "ack")
    BY <1>00, <2>1, RecsPrefix
  <2>3. Cks' \subseteq Cks /\ Acks' \subseteq Acks
    BY <1>C, <2>1, <2>2
  <2>4. \A m \in Msgs :
          /\ LiveKeys'[m] \cup DeadKeys'[m] \subseteq LiveKeys[m] \cup DeadKeys[m]
          /\ DeadKeys'[m] \subseteq DeadKeys[m]
    BY <2>3, KeysShrink
  <2>5. \A m \in Msgs : LiveKeys'[m] # {}
    <3> SUFFICES ASSUME NEW m \in Msgs PROVE LiveKeys'[m] # {}
      OBVIOUS
    <3>1. PICK i \in 1..Len(log') : (log[i].type = "ck" /\ Live(log[i], m))'
      BY DEF NoLostMessage
    <3>2. (log[i] \in Cks)'
      BY <3>1 DEF Cks
    <3>3. (KeyOf(log[i]) \in LiveKeys[m])'
      BY <3>1, <3>2 DEF LiveKeys
    <3> QED BY <3>3
  <2>6. LiveKeys' \in [Msgs -> SUBSET Abs!Key] /\ DeadKeys' \in [Msgs -> SUBSET Abs!Key]
    BY <1>00, KeysTypedNext
  <2>7. Abs!Recover
    BY <2>4, <2>5, <2>6 DEF Abs!Recover
  <2> QED BY <2>7 DEF Abs!Next
<1>7. CASE Flush \/ Tick \/ Expire \/ Served \/ UNCHANGED vars
  BY <1>7, <1>S DEF Flush, Tick, Expire, Served, vars
<1> QED
  BY <1>1, <1>2, <1>3, <1>4, <1>5, <1>6, <1>7 DEF Next

\* The mapped initial state is the initial state of Invisibility: the CK of
\* the original pop covers every message and no ack exists yet.
LEMMA RefInit == Init => Abs!Init
<1> SUFFICES ASSUME Init PROVE Abs!Init
  OBVIOUS
<1>1. Cks = {PopCk} /\ Acks = {}
  BY DEF Init, Cks, Acks, PopCk
<1>2. \A m \in Msgs : Live(PopCk, m)
  BY <1>1 DEF Live, PopCk
<1>3. LiveKeys = [m \in Msgs |-> {Abs!PopKey}]
  BY <1>1, <1>2 DEF LiveKeys, KeyOf, PopCk, Abs!PopKey
<1>4. DeadKeys = [m \in Msgs |-> {}]
  BY <1>1, <1>2 DEF DeadKeys
<1> QED BY <1>3, <1>4 DEF Abs!Init

\* ChangeInvisibleTime implements Invisibility (ImplementsInvisibility, the
\* property the core run checks): with a clock that never repeats a
\* millisecond, every step of process_request_inner, ack_origin, the
\* ack-merge buffer, the store and a crash is a Checkpoint, an Ack allowed
\* by the write-ahead rule, a Recover, or leaves the checkpoint keys alone.
THEOREM RefinementTheorem == ASSUME StrictClock PROVE Spec => ImplementsInvisibility
<1>1. Init => RInv
  BY IInvInit, FInvInit DEF RInv, Init, FirstCk
<1>2. RInv /\ [Next]_vars => RInv'
  BY IInvStep, FInvStep, FirstCkStep DEF RInv, IInv
<1>3. Spec => []NoLostMessage
  BY NoLostMessageTheorem
<1>4. RInv /\ NoLostMessage' /\ [Next]_vars => [Abs!Next]_Abs!vars
  BY RefStep
<1> QED
  BY <1>1, <1>2, <1>3, <1>4, RefInit, PTL DEF Spec, ImplementsInvisibility, Abs!Spec

=============================================================================
