--------------------- MODULE ChangeInvisibleTimeSafety ---------------------
(***************************************************************************)
(* At-least-once delivery of ChangeInvisibleTime for every value of the    *)
(* constants.  The argument: for each message take, among the checkpoints  *)
(* of the log that cover it, one with the largest pop time.  An ack that   *)
(* paired with it would, by WriteAhead, have a strictly newer checkpoint   *)
(* of the same message in the log, so that checkpoint is live.  The        *)
(* checkpoint of the original pop is never lost (a crash keeps a non-empty *)
(* prefix), so there always is one to take.                                *)
(***************************************************************************)
EXTENDS ChangeInvisibleTimeProofs, WellFoundedInduction

USE ConstAssumption

\* The first record of the log is the checkpoint of the original pop.
FirstCk == Len(log) >= 1 /\ log[1] = PopCk

(***************************************************************************)
(* What a step does to the log: process_request_inner, ack_origin and the  *)
(* buffer flush append one record or none, and recovery after a crash      *)
(* keeps a non-empty prefix.                                               *)
(***************************************************************************)
LogGrowsOrTruncates ==
  \/ log' = log
  \/ \E x \in Record : log' = Append(log, x)
  \/ \E n \in 1..Len(log) : log' = SubSeq(log, 1, n)

LEMMA LogStep == TypeOK /\ [Next]_vars => LogGrowsOrTruncates
<1> SUFFICES ASSUME TypeOK, [Next]_vars PROVE LogGrowsOrTruncates
  OBVIOUS
<1> USE DEF TypeOK, LogGrowsOrTruncates
<1>1. ASSUME NEW r \in Req, Process(r) PROVE LogGrowsOrTruncates
  BY <1>1 DEF Process
<1>2. ASSUME NEW r \in Req, AppendCk(r) PROVE LogGrowsOrTruncates
  <2>1. NewCk(r) \in Record
    BY DEF NewCk, Record, Request, Handle
  <2>2. log' = log \/ log' = Append(log, NewCk(r))
    BY <1>2 DEF AppendCk
  <2>3. QED BY <2>1, <2>2
<1>3. ASSUME NEW r \in Req, AckOrigin(r) PROVE LogGrowsOrTruncates
  BY <1>3 DEF AckOrigin
<1>4. ASSUME NEW r \in Req, PutAck(r) PROVE LogGrowsOrTruncates
  <2>1. AckOf(r) \in Record
    BY DEF AckOf, Record, Request, Handle
  <2>2. log' = log \/ log' = Append(log, AckOf(r))
    BY <1>4 DEF PutAck
  <2>3. QED BY <2>1, <2>2
<1>5. CASE BufferFlush
  BY <1>5 DEF BufferFlush
<1>6. CASE Crash
  BY <1>6 DEF Crash
<1>7. CASE Flush \/ Tick \/ Expire \/ Served \/ UNCHANGED vars
  BY <1>7 DEF Flush, Tick, Expire, Served, vars
<1>8. QED
  BY <1>1, <1>2, <1>3, <1>4, <1>5, <1>6, <1>7 DEF Next

LEMMA FirstCkStep == TypeOK /\ FirstCk /\ [Next]_vars => FirstCk'
<1> SUFFICES ASSUME TypeOK, FirstCk, [Next]_vars PROVE FirstCk'
  OBVIOUS
<1>1. log \in Seq(Record)
  BY DEF TypeOK
<1>2. CASE log' = log
  BY <1>2 DEF FirstCk
<1>3. CASE \E x \in Record : log' = Append(log, x)
  BY <1>1, <1>3 DEF FirstCk
<1>4. CASE \E n \in 1..Len(log) : log' = SubSeq(log, 1, n)
  BY <1>1, <1>4 DEF FirstCk
<1>5. QED
  BY <1>2, <1>3, <1>4, LogStep DEF LogGrowsOrTruncates

(***************************************************************************)
(* Among the checkpoints of the log covering a message there is one with   *)
(* the largest pop time: the smallest MaxTime - pt, which exists since <   *)
(* is well founded on Nat.                                                 *)
(***************************************************************************)
CoveringCks(m) == {i \in 1..Len(log) : log[i].type = "ck" /\ m \in log[i].offs}

LEMMA NewestCk ==
  ASSUME TypeOK, NEW m \in Msgs, 1 \in CoveringCks(m)
  PROVE  \E i \in CoveringCks(m) :
           \A j \in CoveringCks(m) : log[j].pt <= log[i].pt
<1> DEFINE D == {MaxTime - log[i].pt : i \in CoveringCks(m)}
           R == OpToRel(<, Nat)
<1>1. \A i \in CoveringCks(m) : log[i].pt \in 0..MaxTime
  <2> TAKE i \in CoveringCks(m)
  <2>1. i \in 1..Len(log) /\ log \in Seq(Record)
    BY DEF TypeOK, CoveringCks
  <2>2. log[i] \in Record
    BY <2>1
  <2> QED BY <2>2 DEF Record, Times
<1>2. D \subseteq Nat /\ D # {}
  BY <1>1
<1>3. PICK x \in D : \A y \in D : ~(<<y, x>> \in R)
  BY <1>2, NatLessThanWellFounded, WFMin
<1>4. PICK i \in CoveringCks(m) : x = MaxTime - log[i].pt
  BY <1>3
<1>5. \A j \in CoveringCks(m) : ~(MaxTime - log[j].pt < x)
  <2> TAKE j \in CoveringCks(m)
  <2>1. MaxTime - log[j].pt \in D /\ MaxTime - log[j].pt \in Nat /\ x \in Nat
    BY <1>1, <1>2
  <2>2. ~(<<MaxTime - log[j].pt, x>> \in R)
    BY <1>3, <2>1
  <2> QED BY <2>1, <2>2 DEF OpToRel
<1> QED
  BY <1>1, <1>4, <1>5

(***************************************************************************)
(* The newest checkpoint covering a message is live: an ack pairing with   *)
(* it has, by WriteAhead, a checkpoint of the same offsets and a strictly  *)
(* larger pop time in the log, which covers the message too.               *)
(***************************************************************************)
LEMMA NewestIsLive ==
  ASSUME TypeOK, WriteAhead, NEW m \in Msgs, NEW i \in CoveringCks(m),
         \A j \in CoveringCks(m) : log[j].pt <= log[i].pt
  PROVE  Live(log[i], m)
<1>1. m \in log[i].offs
  BY DEF CoveringCks
<1>2. SUFFICES ASSUME NEW a \in Acks, Pairs(a, log[i], m) PROVE FALSE
  BY <1>1 DEF Live
<1>3. \E j \in 1..Len(log) : NewerCk(log, a, j)
  <2>1. CASE a \in buffer
    BY <2>1 DEF WriteAhead
  <2>2. CASE a \notin buffer
    <3>1. PICK k \in 1..Len(log) : log[k].type = "ack" /\ a = log[k]
      BY <2>2 DEF Acks
    <3>2. PICK j \in 1..k-1 : NewerCk(log, log[k], j)
      BY <3>1 DEF WriteAhead
    <3> QED BY <3>1, <3>2
  <2> QED BY <2>1, <2>2
<1>4. PICK j \in 1..Len(log) : NewerCk(log, a, j)
  BY <1>3
<1>5. j \in CoveringCks(m)
  BY <1>2, <1>4 DEF NewerCk, Pairs, CoveringCks
<1>6. a \in Record /\ log[i] \in Record /\ log[j] \in Record
  <2>1. a \in Record
    BY DEF Acks, TypeOK
  <2>2. QED BY <2>1 DEF TypeOK, CoveringCks
<1> QED
  BY <1>2, <1>4, <1>5, <1>6 DEF NewerCk, Pairs, Record, Times

\* NoLostMessage follows from the types, WriteAhead and FirstCk.
LEMMA NoLostFromWriteAhead ==
  TypeOK /\ WriteAhead /\ FirstCk => NoLostMessage
<1> SUFFICES ASSUME TypeOK, WriteAhead, FirstCk, NEW m \in Msgs
             PROVE  \E i \in 1..Len(log) : log[i].type = "ck" /\ Live(log[i], m)
  BY DEF NoLostMessage
<1>1. 1 \in CoveringCks(m)
  BY DEF FirstCk, PopCk, CoveringCks
<1>2. PICK i \in CoveringCks(m) : \A j \in CoveringCks(m) : log[j].pt <= log[i].pt
  BY <1>1, NewestCk
<1>3. Live(log[i], m)
  BY <1>2, NewestIsLive
<1> QED
  BY <1>2, <1>3 DEF CoveringCks

\* NoLostMessage: with a clock that never returns the same millisecond
\* twice, every popped message keeps a checkpoint that no ack cancels,
\* whatever requests, store statuses, buffer flushes and crashes happened:
\* the write-ahead order of process_request_inner makes ChangeInvisibleTime
\* at-least-once.
THEOREM NoLostMessageTheorem == ASSUME StrictClock PROVE Spec => []NoLostMessage
<1>1. Init => FirstCk
  BY DEF Init, FirstCk
<1>2. IInv /\ FirstCk /\ [Next]_vars => FirstCk'
  BY FirstCkStep DEF IInv
<1>3. IInv /\ FirstCk => NoLostMessage
  BY NoLostFromWriteAhead DEF IInv
<1> QED
  BY <1>1, <1>2, <1>3, IInvInit, IInvStep, PTL DEF Spec

=============================================================================
