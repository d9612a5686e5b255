------------------------------ MODULE Invisibility ------------------------------
(***************************************************************************)
(* What the change-invisible-time path promises, abstractly (spec sections *)
(* 4.3, 4.4 and 7).  Every popped message has a set of live checkpoint     *)
(* keys (start offset, pop time): the revive process will redeliver the    *)
(* message when one of them expires.  Extending the invisibility adds a    *)
(* key; acknowledging a delivery cancels a key, and is allowed only while  *)
(* a strictly newer key of the same message stays live (the write-ahead    *)
(* rule); recovery after a crash may bring back or drop keys but must     *)
(* leave every message at least one.  That last clause is a demand on the  *)
(* implementation, not a consequence of the others: ChangeInvisibleTime    *)
(* meets it only because its log is written ahead (NoLostMessage).         *)
(***************************************************************************)
EXTENDS Naturals

CONSTANTS
  Msg,    \* the popped messages
  Start,  \* checkpoint start offsets
  Time    \* pop times

VARIABLES
  live,      \* live[m]: the keys of the live checkpoints of message m
  cancelled  \* cancelled[m]: the keys of the checkpoints of m an ack cancels

vars == <<live, cancelled>>

Key == [start : Start, pt : Time]

\* The checkpoint of the original pop: start 0 at time 0.
PopKey == [start |-> 0, pt |-> 0]

Init ==
  /\ live = [m \in Msg |-> {PopKey}]
  /\ cancelled = [m \in Msg |-> {}]

\* A new checkpoint of message m; it is not born cancelled.
Checkpoint(m, k) ==
  /\ k \notin cancelled[m]
  /\ live' = [live EXCEPT ![m] = @ \cup {k}]
  /\ UNCHANGED cancelled

\* An ack cancels key k of message m; a newer key of m stays live.
Ack(m, k) ==
  /\ k \in live[m]
  /\ \E k2 \in live[m] : k2.pt > k.pt
  /\ live' = [live EXCEPT ![m] = @ \ {k}]
  /\ cancelled' = [cancelled EXCEPT ![m] = @ \cup {k}]

\* Recovery after a crash: checkpoints and acks not yet durable are lost,
\* so keys may disappear and cancelled keys may come back to life, but no
\* key is invented, none is cancelled, and every message keeps one.  The
\* refinement proof discharges the last conjunct from the concrete
\* NoLostMessage, which holds of the log that survives a crash.
Recover ==
  /\ live' \in [Msg -> SUBSET Key]
  /\ cancelled' \in [Msg -> SUBSET Key]
  /\ \A m \in Msg :
       /\ live'[m] \cup cancelled'[m] \subseteq live[m] \cup cancelled[m]
       /\ cancelled'[m] \subseteq cancelled[m]
       /\ live'[m] # {}

Next ==
  \/ \E m \in Msg, k \in Key : Checkpoint(m, k) \/ Ack(m, k)
  \/ Recover

Spec == Init /\ [][Next]_vars

=============================================================================
