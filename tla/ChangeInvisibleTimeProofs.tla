--------------------- MODULE ChangeInvisibleTimeProofs ---------------------
(***************************************************************************)
(* Proofs about ChangeInvisibleTime for every value of the constants.      *)
(***************************************************************************)
EXTENDS ChangeInvisibleTime, TLAPS

USE ConstAssumption

\* The facts about appending to the log that the proofs use.
LEMMA AppendLog ==
  ASSUME NEW x \in Record, log \in Seq(Record)
  PROVE  /\ Append(log, x) \in Seq(Record)
         /\ Len(Append(log, x)) = Len(log) + 1
         /\ \A k \in 1..Len(log) : Append(log, x)[k] = log[k]
         /\ Append(log, x)[Len(log) + 1] = x
  OBVIOUS

\* An index of a log one longer than log is the new last one or an old one.
LEMMA IndexSplit ==
  ASSUME NEW n \in Nat, NEW k \in 1..n + 1
  PROVE  k = n + 1 \/ k \in 1..n
  OBVIOUS

(***************************************************************************)
(* Type correctness: every step of every handler, of the store, of the     *)
(* ack-merge buffer and every crash keeps the state well typed.  In        *)
(* particular the flushed prefix never exceeds the log, through crashes.   *)
(***************************************************************************)
LEMMA TypeInit == Init => TypeOK
  BY DEF Init, TypeOK, PopCk, Record, Msgs, Times, Handle, NoReq, Request,
         QueueIds, PcVals, Codes, NoResponse

LEMMA TypeStep == TypeOK /\ [Next]_vars => TypeOK'
<1> SUFFICES ASSUME TypeOK, [Next]_vars PROVE TypeOK'
  OBVIOUS
<1> USE DEF TypeOK
<1>1. ASSUME NEW r \in Req, Process(r) PROVE TypeOK'
  <2>1. PICK i \in Request : /\ i.h \in handles
                             /\ req' = [req EXCEPT ![r] = i]
                             /\ IF Verdict(i) = "Proceed"
                                  THEN /\ ~StrictClock \/ clock < MaxTime
                                       /\ clock' = IF StrictClock THEN clock + 1 ELSE clock
                                       /\ now' = [now EXCEPT ![r] = clock']
                                       /\ pc' = [pc EXCEPT ![r] = "ck"]
                                       /\ UNCHANGED resp
                                  ELSE /\ Finish(r, Verdict(i))
                                       /\ UNCHANGED <<clock, now>>
    BY <1>1 DEF Process
  <2>0. UNCHANGED <<log, flushed, buffer, handles, minOff, crashes>>
    BY <1>1 DEF Process
  <2>2. Verdict(i) \in Codes \cup {"Panic", "Proceed"}
    BY Zenon DEF Verdict, Codes
  <2>3. CASE Verdict(i) = "Proceed"
    <3>1. clock' \in Times
      <4>1. CASE StrictClock
        BY <2>1, <2>3, <4>1 DEF Times
      <4>2. CASE ~StrictClock
        BY <2>1, <2>3, <4>2 DEF Times
      <4>3. QED BY <4>1, <4>2
    <3>2. QED BY <2>0, <2>1, <2>3, <3>1 DEF PcVals
  <2>4. CASE Verdict(i) # "Proceed"
    BY <2>0, <2>1, <2>2, <2>4 DEF Finish, PcVals, NoResponse
  <2>5. QED BY <2>3, <2>4
<1>2. ASSUME NEW r \in Req, AppendCk(r) PROVE TypeOK'
  <2>1. NewCk(r) \in Record
    BY DEF NewCk, Record, Request, Handle
  <2>2. CASE ~CkImplemented
    BY <1>2, <2>2 DEF AppendCk, Finish, PcVals, NoResponse
  <2>3. CASE CkImplemented
    <3>1. PICK st \in PutStatus :
            /\ log' = IF st \in AppendedStatus THEN Append(log, NewCk(r)) ELSE log
            /\ IF st \in CkOkStatus
                 THEN /\ pc' = [pc EXCEPT ![r] = "ack"]
                      /\ UNCHANGED resp
                 ELSE Finish(r, "SystemError")
      BY <1>2, <2>3 DEF AppendCk
    <3>2. log' \in Seq(Record) /\ Len(log') >= Len(log)
      BY <2>1, <3>1, AppendLog
    <3>3. QED BY <1>2, <3>1, <3>2 DEF AppendCk, Finish, PcVals, Codes
  <2>4. QED BY <2>2, <2>3
<1>3. ASSUME NEW r \in Req, AckOrigin(r) PROVE TypeOK'
  <2>1. AckOf(r) \in Record
    BY DEF AckOf, Record, Request, Handle
  <2>2. [off |-> req[r].h.off, start |-> req[r].h.off, pt |-> now[r]] \in Handle
    BY DEF Request, Handle
  <2>3. QED BY <1>3, <2>1, <2>2 DEF AckOrigin, Succeed, Finish, PcVals, Codes
<1>4. ASSUME NEW r \in Req, PutAck(r) PROVE TypeOK'
  <2>1. AckOf(r) \in Record
    BY DEF AckOf, Record, Request, Handle
  <2>2. [off |-> req[r].h.off, start |-> req[r].h.off, pt |-> now[r]] \in Handle
    BY DEF Request, Handle
  <2>3. log' \in Seq(Record) /\ Len(log') >= Len(log)
    <3>1. log' = log \/ log' = Append(log, AckOf(r))
      BY <1>4 DEF PutAck
    <3>2. QED BY <2>1, <3>1, AppendLog
  <2>4. QED BY <1>4, <2>2, <2>3 DEF PutAck, Succeed, Finish, PcVals, Codes
<1>5. CASE Flush
  BY <1>5 DEF Flush
<1>6. CASE BufferFlush
  BY <1>6 DEF BufferFlush
<1>7. CASE Tick
  BY <1>7 DEF Tick, Times
<1>8. CASE Expire
  BY <1>8 DEF Expire
<1>9. CASE Crash
  BY <1>9 DEF Crash, PcVals, NoResponse
<1>10. CASE Served \/ UNCHANGED vars
  BY <1>10 DEF Served, vars
<1>11. QED
  BY <1>1, <1>2, <1>3, <1>4, <1>5, <1>6, <1>7, <1>8, <1>9, <1>10 DEF Next

THEOREM TypeCorrect == Spec => []TypeOK
BY TypeInit, TypeStep, PTL DEF Spec

-----------------------------------------------------------------------------
(***************************************************************************)
(* Write-ahead.  With a clock that never returns the same millisecond      *)
(* twice, every ack that ack_origin puts in the ack-merge buffer or in the *)
(* log is backed by a strictly newer checkpoint of the same message that   *)
(* the same request appended before, and this survives buffer flushes and  *)
(* crashes because a crash keeps a prefix of the log.  WriteAhead alone is *)
(* not inductive: a handler between its CK and its ack must already have   *)
(* that CK in the log (HandlerInv), and its `now` must be newer than the   *)
(* pop time of the handle it acks, which needs every handle to be no newer *)
(* than the clock (HandlesPast).                                           *)
(***************************************************************************)
LEMMA IInvInit == Init => IInv
<1> SUFFICES ASSUME Init PROVE IInv
  OBVIOUS
<1>1. TypeOK
  BY TypeInit
<1>2. WriteAhead
  BY DEF Init, WriteAhead, PopCk
<1>3. HandlesPast
  BY DEF Init, HandlesPast
<1>4. HandlerInv
  BY DEF Init, HandlerInv, HandlerOK
<1>5. QED BY <1>1, <1>2, <1>3, <1>4 DEF IInv

LEMMA IInvStep == ASSUME StrictClock PROVE IInv /\ [Next]_vars => IInv'
<1> SUFFICES ASSUME IInv, [Next]_vars PROVE IInv'
  OBVIOUS
<1>0. TypeOK /\ TypeOK'
  BY TypeStep DEF IInv
<1>00. /\ log \in Seq(Record) /\ log' \in Seq(Record)
       /\ Len(log) \in Nat /\ Len(log') \in Nat
       /\ flushed \in 1..Len(log)
       /\ buffer \subseteq Record /\ handles \subseteq Handle
       /\ clock \in Times /\ clock' \in Times
       /\ pc \in [Req -> PcVals] /\ pc' \in [Req -> PcVals]
       /\ req \in [Req -> Request] /\ now \in [Req -> Times]
  BY <1>0 DEF TypeOK
<1> USE DEF IInv
<1>1. ASSUME NEW r \in Req, Process(r) PROVE IInv'
  <2>1. PICK i \in Request : /\ i.h \in handles
                             /\ req' = [req EXCEPT ![r] = i]
                             /\ IF Verdict(i) = "Proceed"
                                  THEN /\ ~StrictClock \/ clock < MaxTime
                                       /\ clock' = IF StrictClock THEN clock + 1 ELSE clock
                                       /\ now' = [now EXCEPT ![r] = clock']
                                       /\ pc' = [pc EXCEPT ![r] = "ck"]
                                       /\ UNCHANGED resp
                                  ELSE /\ Finish(r, Verdict(i))
                                       /\ UNCHANGED <<clock, now>>
    BY <1>1 DEF Process
  <2>2. UNCHANGED <<log, flushed, buffer, handles, minOff, crashes>>
    BY <1>1 DEF Process
  <2>3. WriteAhead'
    BY <2>2 DEF WriteAhead, NewerCk
  <2>4. pc[r] = "idle"
    BY <1>1 DEF Process
  <2>5. CASE Verdict(i) = "Proceed"
    <3>1. clock' = clock + 1 /\ now' = [now EXCEPT ![r] = clock + 1]
          /\ pc' = [pc EXCEPT ![r] = "ck"]
      BY <2>1, <2>5
    <3>2. HandlesPast'
      BY <1>00, <2>2, <3>1 DEF HandlesPast, Handle, Times
    <3>3. i.h.pt <= clock
      BY <2>1 DEF HandlesPast
    <3>4. HandlerInv'
      <4> SUFFICES ASSUME NEW s \in Req PROVE HandlerOK(s)'
        BY DEF HandlerInv
      <4>1. CASE s = r
        BY <1>00, <2>1, <3>1, <3>3, <4>1 DEF HandlerOK, Request, Handle, Times
      <4>2. CASE s # r
        <5>1. HandlerOK(s)
          BY DEF HandlerInv
        <5>2. pc'[s] = pc[s] /\ req'[s] = req[s] /\ now'[s] = now[s]
          BY <1>00, <2>1, <3>1, <4>2
        <5>3. pc[s] \in {"ck", "ack", "put"} => req[s].h.pt < now[s] /\ now[s] <= clock
          BY <5>1 DEF HandlerOK
        <5>4. pc[s] \in {"ack", "put"} => \E j \in 1..Len(log) : NewerCk(log, AckOf(s), j)
          BY <5>1 DEF HandlerOK
        <5>5. (pc[s] \in {"ck", "ack", "put"} => req[s].h.pt < now[s] /\ now[s] <= clock)'
          BY <1>00, <3>1, <5>2, <5>3 DEF Times
        <5>6. (pc[s] \in {"ack", "put"} => \E j \in 1..Len(log) : NewerCk(log, AckOf(s), j))'
          BY <2>2, <5>2, <5>4 DEF AckOf
        <5>7. QED
          BY <5>5, <5>6 DEF HandlerOK
      <4>3. QED BY <4>1, <4>2
    <3>5. QED BY <1>0, <2>3, <3>2, <3>4
  <2>6. CASE Verdict(i) # "Proceed"
    <3>1. UNCHANGED <<clock, now>> /\ pc' = [pc EXCEPT ![r] = "done"]
      BY <2>1, <2>6 DEF Finish
    <3>2. HandlerInv'
      <4> SUFFICES ASSUME NEW s \in Req PROVE HandlerOK(s)'
        BY DEF HandlerInv
      <4>1. CASE s = r
        BY <1>00, <3>1, <4>1 DEF HandlerOK
      <4>2. CASE s # r
        <5>1. HandlerOK(s)
          BY DEF HandlerInv
        <5>2. pc'[s] = pc[s] /\ req'[s] = req[s] /\ now'[s] = now[s]
          BY <1>00, <2>1, <3>1, <4>2
        <5>3. QED
          BY <2>2, <3>1, <5>1, <5>2 DEF HandlerOK, AckOf, NewerCk
      <4>3. QED BY <4>1, <4>2
    <3>3. QED
      BY <1>0, <1>00, <2>2, <2>3, <3>1, <3>2 DEF HandlesPast
  <2>7. QED BY <2>5, <2>6
<1>2. ASSUME NEW r \in Req, AppendCk(r) PROVE IInv'
  <2>1. UNCHANGED <<clock, flushed, buffer, handles, minOff, crashes, req, now>>
    BY <1>2 DEF AppendCk
  <2>2. pc[r] = "ck"
    BY <1>2 DEF AppendCk
  <2>3. HandlerOK(r)
    BY DEF HandlerInv
  <2> DEFINE ck == NewCk(r)
  <2>4. PICK st \in PutStatus \cup {"Panic"} :
          /\ log' = IF st \in AppendedStatus THEN Append(log, ck) ELSE log
          /\ pc' = IF st \in CkOkStatus THEN [pc EXCEPT ![r] = "ack"]
                                        ELSE [pc EXCEPT ![r] = "done"]
    <3>1. CASE ~CkImplemented
      <4>1. WITNESS "Panic" \in PutStatus \cup {"Panic"}
      <4>2. QED BY <1>2, <3>1 DEF AppendCk, Finish, AppendedStatus, CkOkStatus
    <3>2. CASE CkImplemented
      <4>1. PICK st \in PutStatus :
              /\ log' = IF st \in AppendedStatus THEN Append(log, ck) ELSE log
              /\ IF st \in CkOkStatus
                   THEN /\ pc' = [pc EXCEPT ![r] = "ack"]
                        /\ UNCHANGED resp
                   ELSE Finish(r, "SystemError")
        BY <1>2, <3>2 DEF AppendCk
      <4>2. QED BY <4>1 DEF Finish
    <3>3. QED BY <3>1, <3>2
  <2>5. ck \in Record
    BY <1>00 DEF NewCk, Record, Request, Handle
  <2>6. \A k \in 1..Len(log) : k \in 1..Len(log') /\ log'[k] = log[k]
    BY <1>00, <2>4, <2>5, AppendLog
  <2>7. WriteAhead'
    <3>1. CASE st \in AppendedStatus
      <4>1. Len(log') = Len(log) + 1 /\ log'[Len(log) + 1] = ck
        BY <1>00, <2>4, <2>5, <3>1, AppendLog
      <4>2. QED BY <2>1, <2>6, <4>1 DEF WriteAhead, NewerCk, ck, NewCk
    <3>2. CASE st \notin AppendedStatus
      BY <2>1, <2>4, <3>2 DEF WriteAhead, NewerCk
    <3>3. QED BY <3>1, <3>2
  <2>8. HandlerInv'
    <3> SUFFICES ASSUME NEW s \in Req PROVE HandlerOK(s)'
      BY DEF HandlerInv
    <3>1. CASE s = r /\ st \in CkOkStatus
      <4>1. Len(log') = Len(log) + 1 /\ log'[Len(log) + 1] = ck
        BY <1>00, <2>4, <2>5, <3>1, AppendLog DEF CkOkStatus, AppendedStatus
      <4>2. pc'[r] = "ack"
        BY <1>00, <2>4, <3>1
      <4>3. req[r].h.pt < now[r] /\ now[r] <= clock
        BY <2>2, <2>3 DEF HandlerOK
      <4>4. NewerCk(log', AckOf(r), Len(log) + 1)
        BY <2>1, <4>1, <4>3 DEF NewerCk, AckOf, ck, NewCk
      <4>5. Len(log) + 1 \in 1..Len(log')
        BY <1>00, <4>1
      <4>6. \E j \in 1..Len(log') : NewerCk(log', AckOf(r)', j)
        BY <2>1, <4>4, <4>5 DEF AckOf
      <4>7. QED BY <2>1, <3>1, <4>2, <4>3, <4>6 DEF HandlerOK
    <3>2. CASE s = r /\ st \notin CkOkStatus
      BY <1>00, <2>4, <3>2 DEF HandlerOK
    <3>3. CASE s # r
      <4>1. pc'[s] = pc[s]
        BY <1>00, <2>4, <3>3
      <4>2. HandlerOK(s)
        BY DEF HandlerInv
      <4>3. QED BY <2>1, <2>6, <4>1, <4>2 DEF HandlerOK, AckOf, NewerCk
    <3>4. QED BY <3>1, <3>2, <3>3
  <2>9. QED BY <1>0, <2>1, <2>7, <2>8 DEF HandlesPast
<1>3. ASSUME NEW r \in Req, AckOrigin(r) PROVE IInv'
  <2>1. UNCHANGED <<clock, log, flushed, minOff, crashes, req, now>>
    BY <1>3 DEF AckOrigin
  <2>2. pc[r] = "ack"
    BY <1>3 DEF AckOrigin
  <2>3. HandlerOK(r)
    BY DEF HandlerInv
  <2>4. \E j \in 1..Len(log) : NewerCk(log, AckOf(r), j)
    BY <2>2, <2>3 DEF HandlerOK
  <2>5. now[r] <= clock
    BY <2>2, <2>3 DEF HandlerOK
  <2>6. handles' \subseteq handles \cup
          {[off |-> req[r].h.off, start |-> req[r].h.off, pt |-> now[r]]}
    BY <1>3 DEF AckOrigin, Succeed
  <2>7. HandlesPast'
    BY <2>1, <2>5, <2>6 DEF HandlesPast
  <2>8. buffer' \subseteq buffer \cup {AckOf(r)}
    BY <1>3 DEF AckOrigin
  <2>9. WriteAhead'
    BY <2>1, <2>4, <2>8 DEF WriteAhead, NewerCk
  <2>10. pc' = [pc EXCEPT ![r] = "done"] \/ pc' = [pc EXCEPT ![r] = "put"]
    BY <1>3 DEF AckOrigin, Succeed, Finish
  <2>11. HandlerInv'
    <3> SUFFICES ASSUME NEW s \in Req PROVE HandlerOK(s)'
      BY DEF HandlerInv
    <3>1. CASE s = r
      <4>1. pc'[r] \in {"done", "put"}
        BY <1>00, <2>10
      <4>2. QED BY <2>1, <2>4, <2>5, <2>2, <2>3, <3>1, <4>1 DEF HandlerOK, AckOf, NewerCk
    <3>2. CASE s # r
      <4>1. pc'[s] = pc[s]
        BY <1>00, <2>10, <3>2
      <4>2. HandlerOK(s)
        BY DEF HandlerInv
      <4>3. QED BY <2>1, <4>1, <4>2 DEF HandlerOK, AckOf, NewerCk
    <3>3. QED BY <3>1, <3>2
  <2>12. QED BY <1>0, <2>7, <2>9, <2>11
<1>4. ASSUME NEW r \in Req, PutAck(r) PROVE IInv'
  <2>1. UNCHANGED <<clock, flushed, buffer, minOff, crashes, req, now>>
    BY <1>4 DEF PutAck
  <2>2. pc[r] = "put" /\ pc' = [pc EXCEPT ![r] = "done"]
    BY <1>4 DEF PutAck, Succeed, Finish
  <2>3. HandlerOK(r)
    BY DEF HandlerInv
  <2>4. PICK j0 \in 1..Len(log) : NewerCk(log, AckOf(r), j0)
    BY <2>2, <2>3 DEF HandlerOK
  <2>5. now[r] <= clock
    BY <2>2, <2>3 DEF HandlerOK
  <2>6. handles' = handles \cup
          {[off |-> req[r].h.off, start |-> req[r].h.off, pt |-> now[r]]}
    BY <1>4 DEF PutAck, Succeed
  <2>7. HandlesPast'
    BY <2>1, <2>5, <2>6 DEF HandlesPast
  <2>8. AckOf(r) \in Record
    BY <1>00 DEF AckOf, Record, Request, Handle
  <2>9. log' = log \/ log' = Append(log, AckOf(r))
    BY <1>4 DEF PutAck
  <2>10. \A k \in 1..Len(log) : k \in 1..Len(log') /\ log'[k] = log[k]
    BY <1>00, <2>8, <2>9, AppendLog
  <2>11. WriteAhead'
    <3>1. CASE log' = log
      BY <2>1, <3>1 DEF WriteAhead, NewerCk
    <3>2. CASE log' = Append(log, AckOf(r))
      <4>1. Len(log') = Len(log) + 1 /\ log'[Len(log) + 1] = AckOf(r)
        BY <1>00, <2>8, <3>2, AppendLog
      <4>2. log'[j0] = log[j0] /\ j0 \in 1..(Len(log) + 1) - 1
        BY <2>10
      <4>3. NewerCk(log', log'[Len(log) + 1], j0)
        BY <2>1, <2>4, <4>1, <4>2 DEF NewerCk, AckOf
      <4>4. \A k \in 1..Len(log') : k = Len(log) + 1 \/ k \in 1..Len(log)
        BY <1>00, <4>1, IndexSplit
      <4>5. QED
        BY <2>1, <2>10, <4>1, <4>2, <4>3, <4>4 DEF WriteAhead, NewerCk
    <3>3. QED BY <2>9, <3>1, <3>2
  <2>12. HandlerInv'
    <3> SUFFICES ASSUME NEW s \in Req PROVE HandlerOK(s)'
      BY DEF HandlerInv
    <3>1. CASE s = r
      BY <1>00, <2>2, <3>1 DEF HandlerOK
    <3>2. CASE s # r
      <4>1. pc'[s] = pc[s]
        BY <1>00, <2>2, <3>2
      <4>2. HandlerOK(s)
        BY DEF HandlerInv
      <4>3. QED BY <2>1, <2>10, <4>1, <4>2 DEF HandlerOK, AckOf, NewerCk
    <3>3. QED BY <3>1, <3>2
  <2>13. QED BY <1>0, <2>7, <2>11, <2>12
<1>5. CASE Flush
  BY <1>0, <1>00, <1>5 DEF Flush, WriteAhead, HandlesPast, HandlerInv, HandlerOK, AckOf, NewerCk
<1>6. CASE BufferFlush
  <2>1. PICK a \in buffer : log' = Append(log, a) /\ buffer' = buffer \ {a}
    BY <1>6 DEF BufferFlush
  <2>2. UNCHANGED <<clock, flushed, handles, minOff, crashes, pc, req, now, resp>>
    BY <1>6 DEF BufferFlush
  <2>3. a \in Record
    BY <1>00
  <2>4. /\ Len(log') = Len(log) + 1
        /\ \A k \in 1..Len(log) : log'[k] = log[k]
        /\ log'[Len(log) + 1] = a
    BY <1>00, <2>1, <2>3, AppendLog
  <2>5. PICK j0 \in 1..Len(log) : NewerCk(log, a, j0)
    BY DEF WriteAhead
  <2>6. \A k \in 1..Len(log') : k = Len(log) + 1 \/ k \in 1..Len(log)
    BY <1>00, <2>4, IndexSplit
  <2>7. WriteAhead'
    BY <2>1, <2>4, <2>5, <2>6 DEF WriteAhead, NewerCk
  <2>8. HandlerInv'
    <3> SUFFICES ASSUME NEW s \in Req PROVE HandlerOK(s)'
      BY DEF HandlerInv
    <3>1. HandlerOK(s)
      BY DEF HandlerInv
    <3>2. \A j \in 1..Len(log) : j \in 1..Len(log') /\ log'[j] = log[j]
      BY <1>00, <2>4
    <3>3. (pc[s] \in {"ack", "put"} => \E j \in 1..Len(log) : NewerCk(log, AckOf(s), j))'
      BY <2>2, <3>1, <3>2 DEF HandlerOK, AckOf, NewerCk
    <3>4. QED BY <2>2, <3>1, <3>3 DEF HandlerOK
  <2>9. QED BY <1>0, <2>2, <2>7, <2>8 DEF HandlesPast
<1>7. CASE Tick
  <2>1. clock' = clock + 1
        /\ UNCHANGED <<log, flushed, buffer, handles, minOff, crashes, pc, req, now, resp>>
    BY <1>7 DEF Tick
  <2>2. WriteAhead'
    BY <2>1 DEF WriteAhead, NewerCk
  <2>3. HandlesPast'
    BY <1>00, <2>1 DEF HandlesPast, Handle, Times
  <2>4. HandlerInv'
    <3> SUFFICES ASSUME NEW s \in Req PROVE HandlerOK(s)'
      BY DEF HandlerInv
    <3>1. HandlerOK(s)
      BY DEF HandlerInv
    <3>2. (pc[s] \in {"ck", "ack", "put"} => req[s].h.pt < now[s] /\ now[s] <= clock)'
      BY <1>00, <2>1, <3>1 DEF HandlerOK, Times
    <3>3. (pc[s] \in {"ack", "put"} => \E j \in 1..Len(log) : NewerCk(log, AckOf(s), j))'
      BY <2>1, <3>1 DEF HandlerOK, AckOf, NewerCk
    <3>4. QED BY <3>2, <3>3 DEF HandlerOK
  <2>5. QED BY <1>0, <2>2, <2>3, <2>4
<1>8. CASE Expire
  BY <1>0, <1>00, <1>8 DEF Expire, WriteAhead, HandlesPast, HandlerInv, HandlerOK, AckOf, NewerCk
<1>9. CASE Crash
  <2>1. /\ log' = SubSeq(log, 1, flushed)
        /\ buffer' = {}
        /\ pc' = [s \in Req |-> IF s \in InFlight THEN "done" ELSE pc[s]]
        /\ UNCHANGED <<clock, flushed, handles, minOff, req, now>>
    BY <1>9 DEF Crash
  <2>2. /\ Len(log') = flushed
        /\ \A k \in 1..flushed : log'[k] = log[k]
    BY <1>00, <2>1
  <2>3. WriteAhead'
    BY <1>00, <2>1, <2>2 DEF WriteAhead, NewerCk
  <2>4. \A s \in Req : pc'[s] \notin {"ck", "ack", "put"}
    BY <2>1 DEF InFlight
  <2>5. HandlerInv'
    <3> SUFFICES ASSUME NEW s \in Req PROVE HandlerOK(s)'
      BY DEF HandlerInv
    <3>1. pc'[s] \notin {"ck", "ack", "put"}
      BY <2>4
    <3>2. QED BY <3>1 DEF HandlerOK
  <2>6. QED BY <1>0, <2>1, <2>3, <2>5 DEF HandlesPast
<1>10. CASE Served \/ UNCHANGED vars
  <2>1. UNCHANGED <<log, buffer, handles, clock, pc, req, now>>
    BY <1>10 DEF Served, vars
  <2>2. WriteAhead' /\ HandlesPast'
    BY <2>1 DEF WriteAhead, NewerCk, HandlesPast
  <2>3. HandlerInv'
    BY <2>1 DEF HandlerInv, HandlerOK, AckOf, NewerCk
  <2>4. QED BY <1>0, <2>2, <2>3
<1>11. QED
  BY <1>1, <1>2, <1>3, <1>4, <1>5, <1>6, <1>7, <1>8, <1>9, <1>10 DEF Next

(***************************************************************************)
(* process_request_inner acknowledges the original delivery only after its *)
(* new checkpoint is in the log: every ack of the buffer or of the log is  *)
(* preceded by a newer checkpoint of the same message, for every number of *)
(* requests, messages, crashes and buffer capacity, given a clock that     *)
(* never repeats a millisecond.                                            *)
(***************************************************************************)
THEOREM WriteAheadInvariant == ASSUME StrictClock PROVE Spec => []WriteAhead
<1>1. IInv => WriteAhead
  BY DEF IInv
<1>2. QED BY IInvInit, IInvStep, <1>1, PTL DEF Spec
=============================================================================
