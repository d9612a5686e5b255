------------------------------ MODULE DeliverTimeProofs ------------------------------
(***************************************************************************)
(* For every width, in a release build the wrapped i64 sum cast to u64 is *)
(* the sum modulo 2^Width: the durable ack is never delayed less than      *)
(* pop_time + invisible_time, and exactly that long whenever the sum is a  *)
(* valid u64, even when the i64 addition overflowed.                       *)
(***************************************************************************)
EXTENDS DeliverTime, FiniteSetTheorems, TLAPS

USE DeliverAssumption

\* The positive half of the i64 range is a positive natural number.
LEMMA HalfPos == Half \in Nat \ {0}
<1> DEFINE S == 1 .. Width - 1
<1>1. IsFiniteSet(S) /\ Cardinality(S) = Width - 1
  BY FS_Interval
<1>2. IsFiniteSet(SUBSET S) /\ Cardinality(SUBSET S) = 2 ^ (Width - 1)
  BY <1>1, FS_SUBSET
<1>3. {} \in SUBSET S
  OBVIOUS
<1>4. Cardinality(SUBSET S) \in Nat
  BY <1>2, FS_CardinalityType
<1>5. Cardinality(SUBSET S) # 0
  BY <1>2, <1>3, FS_EmptySet
<1> QED
  BY <1>2, <1>4, <1>5 DEF Half

\* x % M for x within one modulus of 0 .. M - 1.
LEMMA ModShift ==
    ASSUME NEW M \in Nat \ {0}, NEW x \in Int
    PROVE  /\ x \in 0 .. M - 1 => x % M = x
           /\ x + M \in 0 .. M - 1 => x % M = x + M
           /\ x - M \in 0 .. M - 1 => x % M = x - M
OBVIOUS

\* The release-build delay is the sum modulo 2^Width.
LEMMA CastOfWrappedSum ==
    ASSUME NEW a \in I64, NEW b \in I64
    PROVE  /\ AsU64(AddI64(a, b)) = (a + b) % Modulus
           /\ AsU64(AddI64(a, b)) \in U64
<1> DEFINE s == a + b
<1> USE DEF s
<1>1. Half \in Nat \ {0} /\ Modulus = 2 * Half /\ Modulus \in Nat \ {0}
  BY HalfPos DEF Half, Modulus
<1>2. s \in Int /\ s + Half \in Int /\ s \in -(2 * Half) .. 2 * Half - 2
  BY <1>1 DEF I64
<1>3. CASE s < -Half
  <2>1. (s + Half) % Modulus = s + Half + Modulus
    BY <1>1, <1>2, <1>3, ModShift
  <2>2. AddI64(a, b) = s + Modulus
    BY <1>1, <1>2, <2>1 DEF AddI64, WrapI64
  <2>3. (s + Modulus) % Modulus = s + Modulus /\ s % Modulus = s + Modulus
    BY <1>1, <1>2, <1>3, ModShift
  <2> QED
    BY <1>1, <1>2, <1>3, <2>2, <2>3 DEF AsU64, U64
<1>4. CASE s \in -Half .. Half - 1
  <2>0. s + Half \in 0 .. Modulus - 1
    BY <1>1, <1>2, <1>4
  <2>1. (s + Half) % Modulus = s + Half
    BY <1>1, <1>2, <2>0, ModShift
  <2>2. AddI64(a, b) = s
    BY <1>1, <1>2, <2>1 DEF AddI64, WrapI64
  <2>3. s % Modulus \in 0 .. Modulus - 1
    BY <1>1, <1>2
  <2> QED
    BY <1>1, <1>2, <2>2, <2>3 DEF AsU64, U64
<1>5. CASE s > Half - 1
  <2>1. (s + Half) % Modulus = s + Half - Modulus
    BY <1>1, <1>2, <1>5, ModShift
  <2>2. AddI64(a, b) = s - Modulus
    BY <1>1, <1>2, <2>1 DEF AddI64, WrapI64
  <2>3. s - Modulus \in Int /\ (s - Modulus) + Modulus \in 0 .. Modulus - 1
    BY <1>1, <1>2, <1>5
  <2>4. s \in 0 .. Modulus - 1
    BY <1>1, <1>2, <1>5
  <2>5. (s - Modulus) % Modulus = s /\ s % Modulus = s
    BY <1>1, <2>3, <2>4, ModShift
  <2> QED
    BY <1>1, <1>2, <1>5, <2>2, <2>5 DEF AsU64, U64
<1> QED
  BY <1>1, <1>2, <1>3, <1>4, <1>5

\* The sum modulo 2^Width is at least the sum, and is the sum when that is
\* a valid u64.
LEMMA ModOfSum ==
    ASSUME NEW a \in I64, NEW b \in I64
    PROVE  /\ (a + b) % Modulus >= a + b
           /\ a + b \in U64 => (a + b) % Modulus = a + b
<1> DEFINE s == a + b
<1> USE DEF s
<1>1. Half \in Nat \ {0} /\ Modulus = 2 * Half /\ Modulus \in Nat \ {0}
  BY HalfPos DEF Half, Modulus
<1>2. s \in Int /\ s \in -(2 * Half) .. 2 * Half - 2
  BY <1>1 DEF I64
<1>3. CASE s < 0
  <2>1. s % Modulus = s + Modulus
    BY <1>1, <1>2, <1>3, ModShift
  <2> QED
    BY <1>1, <1>2, <1>3, <2>1 DEF U64
<1>4. CASE s >= 0
  <2>1. s % Modulus = s
    BY <1>1, <1>2, <1>4, ModShift
  <2> QED
    BY <1>2, <2>1
<1> QED
  BY <1>1, <1>2, <1>3, <1>4

\* The inductive invariant: the inputs keep their type, and a set delay is
\* the cast of the wrapped sum.
DInv ==
    /\ popTime \in I64 /\ invTime \in I64
    /\ outcome \in {"pending", "set", "panicked"}
    /\ delay \in U64
    /\ outcome = "set" => delay = AsU64(AddI64(popTime, invTime))

LEMMA DInvInit == Init => DInv
<1>1. 0 \in U64
  BY HalfPos DEF Half, Modulus, U64
<1> QED
  BY <1>1 DEF Init, DInv

LEMMA DInvStep == DInv /\ [Next]_vars => DInv'
<1> SUFFICES ASSUME DInv, [Next]_vars PROVE DInv'
  OBVIOUS
<1>1. CASE ComputeDelay
  <2>1. AsU64(AddI64(popTime, invTime)) \in U64
    BY CastOfWrappedSum DEF DInv
  <2> QED
    BY <1>1, <2>1 DEF ComputeDelay, DInv
<1>2. CASE Done \/ UNCHANGED vars
  BY <1>2 DEF Done, DInv, vars
<1> QED
  BY <1>1, <1>2 DEF Next

\* DelayIsDeliverTime: in a release build, for every width, the durable ack
\* of ack_origin is delayed until at least pop_time + invisible_time, and
\* exactly until then when that is a valid u64, overflow of the i64 sum
\* included.
THEOREM DelayTheorem ==
    ASSUME Build = "release"
    PROVE  Spec => []DelayIsDeliverTime
<1>1. DInv => DelayIsDeliverTime
  <2> SUFFICES ASSUME DInv, outcome = "set"
               PROVE  /\ delay >= popTime + invTime
                      /\ popTime + invTime \in U64 => delay = popTime + invTime
    BY DEF DelayIsDeliverTime
  <2>1. delay = (popTime + invTime) % Modulus
    BY CastOfWrappedSum DEF DInv
  <2> QED
    BY <2>1, ModOfSum DEF DInv
<1> QED
  BY <1>1, DInvInit, DInvStep, PTL DEF Spec

=============================================================================
