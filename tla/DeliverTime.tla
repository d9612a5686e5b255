------------------------------ MODULE DeliverTime ------------------------------
(***************************************************************************)
(* The delivery time of the durable ack of ack_origin                      *)
(* (change_invisible_time_processor.rs lines 283-285):                     *)
(*                                                                         *)
(*   deliver_time_ms = get_pop_time(extra_info)? + get_invisible_time(..)?  *)
(*   inner.set_delay_time_ms(deliver_time_ms as u64)                        *)
(*                                                                         *)
(* Both fields are i64 parsed from the client's extra_info, unchecked.  The *)
(* i64 addition panics on overflow in a debug build and wraps in a release *)
(* build; `as u64` reinterprets the two's complement bits.  Width scales    *)
(* the 64 bits down so that TLC can enumerate every pair of inputs.        *)
(***************************************************************************)
EXTENDS Integers

CONSTANTS
    Width,   \* bits of i64 and u64 (64 in the code)
    Build    \* "debug" or "release": what the i64 addition does on overflow

ASSUME DeliverAssumption ==
    /\ Width \in Nat \ {0}
    /\ Build \in {"debug", "release"}

VARIABLES
    popTime,   \* extra_info's pop time, as parsed
    invTime,   \* extra_info's invisible time, as parsed
    outcome,   \* "pending", "set" or "panicked"
    delay      \* the u64 passed to set_delay_time_ms

vars == <<popTime, invTime, outcome, delay>>

Half == 2 ^ (Width - 1)
Modulus == 2 * Half      \* 2^Width
I64 == -Half .. Half - 1
U64 == 0 .. Modulus - 1

\* Two's complement wrap of an integer into the i64 range.
WrapI64(x) == ((x + Half) % Modulus) - Half

\* Mutant: saturating_add instead of +.
AddI64Saturating(a, b) ==
    IF a + b > Half - 1 THEN Half - 1 ELSE IF a + b < -Half THEN -Half ELSE a + b

\* i64 + i64 in a release build (wrapping).
AddI64(a, b) == WrapI64(a + b)

\* `x as u64` for an i64 x.
AsU64(x) == x % Modulus

Init ==
    /\ popTime \in I64 /\ invTime \in I64
    /\ outcome = "pending" /\ delay = 0

\* Lines 283-285: the sum, which overflows in a debug build, and the cast.
ComputeDelay ==
    /\ outcome = "pending"
    /\ IF Build = "debug" /\ popTime + invTime \notin I64
         THEN outcome' = "panicked" /\ UNCHANGED delay
         ELSE outcome' = "set" /\ delay' = AsU64(AddI64(popTime, invTime))
    /\ UNCHANGED <<popTime, invTime>>

\* The handler has moved on.
Done ==
    /\ outcome # "pending"
    /\ UNCHANGED vars

Next == ComputeDelay \/ Done

Spec == Init /\ [][Next]_vars

-----------------------------------------------------------------------------
(* Properties *)

\* Spec sections 4.4 (step 4) and 8: the durable ack is delayed until at least
\* pop_time + invisible_time, and, when that instant is a valid u64, until
\* exactly then (so the ack reaches the revive process with the CK it
\* cancels), even when the i64 addition overflows.
DelayIsDeliverTime ==
    outcome = "set" =>
        /\ delay >= popTime + invTime
        /\ popTime + invTime \in U64 => delay = popTime + invTime

\* Spec section 7: a malformed field is a protocol error, never a panic.
NoArithmeticPanic == outcome # "panicked"

=============================================================================
