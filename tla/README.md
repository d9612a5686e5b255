# Verification of the ChangeInvisibleTime processor

TLA+ models, TLC runs and TLAPS proofs for
`src/rocketmq-broker/src/processor/change_invisible_time_processor.rs`, the broker
handler that extends the invisibility of a message a consumer obtained by POP.
They also cover the i64 arithmetic of the ack's delivery time in that handler, and
`src/rocketmq-remoting/src/protocol/header/query_consumer_offset_request_header.rs`,
the request header codec (`to_map` / `from`) and its `TopicRequestHeaderTrait`
accessors.

## 1. The system: parts, state and interactions

A POP consumer holds a *handle* for each message it received. The handle is
`extra_info`, and it names the checkpoint (CK) that keeps the message invisible:
the CK start offset, the pop time, the revive queue and the broker. To postpone
redelivery, the consumer sends ChangeInvisibleTime. `process_request_inner`
then does the following:

1. It validates the request. An unknown topic answers TopicNotExist (l.129). A
   queue id outside `[0, readQueueNums)` answers MessageIllegal (l.148). An
   offset outside `[min, max]` of the queue answers NoMessage (l.174).
2. It sends ordered handles to `process_change_invisible_time_for_order`
   (l.194). That function is `unimplemented!()`.
3. It takes `now`, then appends a **new CK** with pop time `now` to the revive
   topic (`append_check_point`, l.199-209). That function is also
   `unimplemented!()`. It accepts PutOk and the three degraded statuses
   (l.210-214). Any other status answers SystemError.
4. It **acks the original CK** (`ack_origin`, l.231). The ack is keyed by
   (start offset, pop time of the original delivery). The fast path puts it into
   the ack-merge buffer (`add_ack`, l.272). If the buffer declines, the ack goes
   to the revive topic as a delayed message (l.275-307), and the status of that
   put is only logged.
5. It answers Success with the new pop time, which becomes the consumer's new
   handle (l.240-247).

The revive process treats a CK as live while no ack with the same key and offset
exists, and redelivers the message of a live CK once the CK expires. Two
properties matter:

- **At-least-once.** Every popped message keeps at least one live CK.
- **Write-ahead.** An ack never exists without the newer CK that replaces it.

### Concurrency, failures and collaborators

- Many requests run concurrently as async tasks. Each task interleaves with the
  others at the awaits on the store (l.202, l.292).
- The store accepts a record before it is flushed. A broker crash loses the
  unflushed suffix, the ack-merge buffer, and every response not yet sent.
- The ack-merge buffer (PopBufferMergeService) flushes merged acks into the
  revive topic at a time of its own choosing.
- The clock is millisecond based.
- The queue min offset moves up when messages expire.

### Parts and status (PROJECT.json "components")

| part | module | status |
|---|---|---|
| handler `process_request_inner` and its validation | ChangeInvisibleTime | modelled |
| the contract of the whole path (abstract) | Invisibility | refined by ChangeInvisibleTime |
| `ack_origin` (fast and durable path, lazy field decode) | ChangeInvisibleTime | modelled |
| `append_check_point` | ChangeInvisibleTime | partly: panics as written; its contract (spec §4.3) is the alternative |
| order branch | ChangeInvisibleTime | partly: panics as written |
| store, ack buffer, clock, min offset | ChangeInvisibleTime | spec-modelled collaborators |
| ExtraInfoUtil codec | ChangeInvisibleTime | partly: fields that fail to parse |
| ack delivery time, l.283-285 (i64 sum, `as u64`) | DeliverTime | modelled |
| QueryConsumerOffsetRequestHeader codec and accessors | QueryConsumerOffsetHeader | modelled; the embedded TopicRequestHeader codec is spec-modelled |
| processor construction | — | not modelled (configuration only) |

## 2. Module `ChangeInvisibleTime`

The state is split between the broker and the handlers.

Broker and collaborator state:

- `clock`: the millisecond clock.
- `log`: the revive topic, a sequence of CK and ack records. A record carries
  its type, start offset, pop time, set of offsets, and the request that wrote
  it. `offs` is a set because the CK of a POP batch covers several messages.
- `flushed`: the length of the durable prefix of `log`.
- `buffer`: the acks held by the merge buffer.
- `handles`: the handles consumers hold.
- `minOff`: the queue min offset.
- `crashes`: the number of crashes so far.

Per-handler state, for each request `r`:

- `pc[r]`: the program point. `idle` means not yet received. `ck` means before
  `append_check_point`. `ack` means before `ack_origin`. `put` means before the
  durable ack put. `done` means finished.
- `req[r]`: the decoded request. This is a handle, whether the topic exists, the
  queue id, whether the handle is ordered, and which extra-info fields fail to
  parse.
- `now[r]`: the time the handler took.
- `resp[r]`: the response code, `None`, `Panic` (the task ended by a panic), or
  `ConnLost` (lost in a crash).

The actions follow the code:

| action | code |
|---|---|
| `Process(r)` with `Verdict` | l.116-209: receive a request built from a held handle, run the early returns in code order (topic, queue id, offset range, order branch, revive qid parse), take `now` |
| `AppendCk(r)` | l.199-230: append `NewCk(r)` with every status the store can return; `CkOkStatus` is the match at l.210 |
| `AckOrigin(r)` | l.250-274: read the fields in code order (a malformed ckOffset or popTime ends `ack_origin`, the error is logged, Success is sent); the buffer accepts or declines |
| `PutAck(r)` | l.275-311: durable ack with any put status; a malformed invTime ends it before the put |
| `Succeed(r)` / `Finish(r, c)` | the response; on success the consumer holds the new handle (offset, start = offset, pop time = now) |
| `Flush`, `BufferFlush`, `Tick`, `Expire`, `Crash` | store flush, merge-buffer flush, clock, expiry, crash to the flushed prefix (spec-modelled) |

`Served` is the stuttering step of an idle broker once every request is answered.
It is there so that deadlock checking stays on and reports any handler that gets
stuck.

The constants select the code variant:

- `CkImplemented = FALSE` is the code as written (a panic). `TRUE` is the
  contract of spec §4.3.
- `StrictClock = TRUE` gives a clock that advances at each request. `FALSE`
  allows two events in the same millisecond.
- `MalformedFields` is the set of extra-info fields a client may send unparsable.

## 3. Properties

- `TypeOK`: the type invariant.
- `NoLostMessage`: every popped message has a CK in the log that is live, meaning
  no ack in the log or the buffer pairs with it. This is the at-least-once
  guarantee. It spans the CK append, the ack, crashes, the buffer and
  concurrent requests.
- `WriteAhead`: every ack in the log has, at an earlier index, a CK for the same
  offsets with a later pop time. Every ack in the buffer has such a CK in the
  log. This is the write-ahead order at l.231, and it must hold across crashes
  that truncate the log.
- `AtomicDecode`: a request that answered Success left an ack of its original,
  or it wrote no CK. This is spec §3, which says decoding fails as a whole.
- `AlwaysResponds`: no handler ends without a response, other than by a crash.
  This is spec §4.5.
- `ImplementsInvisibility`: `ChangeInvisibleTime` implements the abstract
  `Invisibility` contract (the next subsection).

### The abstract contract: module `Invisibility`

`Invisibility` says what the change-invisible-time path promises, with no
handlers, store or buffer. It draws on spec §§4.3, 4.4 and 7. Its state is two
sets of checkpoint keys per popped message. A key is a pair (start offset, pop
time).

- `live[m]`: the keys of m's checkpoints that are still live.
- `cancelled[m]`: the keys of m's checkpoints that an ack has cancelled.

It has three actions:

- `Checkpoint(m, k)` adds key k, which must not be cancelled already.
- `Ack(m, k)` cancels a live key k. It may do so only while a live key of m
  with a strictly later pop time exists. This is the write-ahead rule.
- `Recover`, after a crash, may drop keys and bring cancelled keys back to
  life. It invents no key, cancels none, and leaves every message at least one
  live key.

The last clause of `Recover` is a demand on the implementation, not a
consequence of the other actions. Checking `ImplementsInvisibility` therefore
checks that a crash of `ChangeInvisibleTime` leaves each message a live key.
That holds only because the log is written ahead (`NoLostMessage`).

The refinement mapping, in `ChangeInvisibleTime`, takes `Cks`, the CK records
of the log:

- `live <- LiveKeys`: the keys of the CKs covering m that are `Live`;
- `cancelled <- DeadKeys`: the keys of those that are not.

The revive process pairs an ack with a CK by key only. So all CKs of one
message with the same key are live together or cancelled together.

Under the mapping:

- a CK append is a `Checkpoint`;
- an ack written to the buffer or by the durable put is an `Ack` of the key of
  its handle, or a stutter when no live CK has that key;
- a crash is a `Recover`;
- every other step, including a buffer flush that moves an ack into the log,
  leaves the keys unchanged.

## 4. Runs (MC module `MCChangeInvisibleTime`)

All runs use two requests (model values `r1`, `r2`, with symmetry), two popped
messages, `ReadQueueNums = 1`, times 0..3, at most one crash, and a buffer of
capacity 1. The queue ids {-1, 0, 1} hit both sides of the range check. Two
requests can target the same handle, which is a consumer retry. With these
bounds, the CK fails and succeeds, the buffer
accepts and declines, the durable put succeeds and fails, and the crash falls
between any two steps. Between them the passing runs reach every early return
of `process_request_inner`: the core run sends ckOffset and invTime malformed,
and the liveness run sends rqid and ckOffset malformed, which reaches the
`ProtocolError` return of the revive qid parse.

| run | cfg | result | shows |
|---|---|---|---|
| core | MCChangeInvisibleTime.cfg | pass (765,656 states) | TypeOK, NoLostMessage, WriteAhead and the refinement ImplementsInvisibility, with the contract CK, a strict clock, malformed ckOffset and invTime, order requests |
| same_millisecond | MCSameMillisecond.cfg | violation of NoLostMessage | see finding 3 |
| partial_decode | MCPartialDecode.cfg | violation of AtomicDecode | see finding 2 |
| unimplemented_ck | MCUnimplemented.cfg | violation of AlwaysResponds | see finding 1 |

Each property of the passing run has a mutant:

| mutated operator | change | property it breaks |
|---|---|---|
| `AppendCk` | treats every put status as success | NoLostMessage |
| `AppendCk` | treats every put status as success | ImplementsInvisibility (an `Ack` with no newer live key) |
| `AckOf` | keys the ack by the new pop time | WriteAhead |
| `Crash` | truncates one record too many | TypeOK |

### Liveness (`MCLiveness.cfg`, specification `FairSpec`)

`FairSpec` adds weak fairness of `Handler(r)` for each request: the CK append,
`ack_origin` and the durable put. Each request is a tokio task that the runtime
keeps polling. Each of its awaits returns, because spec §5 requires the
collaborators to be non-blocking. Nothing is assumed of request arrival, the
store, the buffer, the clock or crashes. `Answered` says that a request that
reached the CK step is eventually answered, or its connection is lost in a crash.
It holds with the contract CK (775,576 states; no symmetry, since the
property names each request). The mutant `AckOriginWaits`, in which a declined
`add_ack` waits for the buffer instead of falling back to the durable put,
breaks it. As written, the CK append panics, and `unimplemented_ck` shows that
the request is then never answered.

## 5. Module `DeliverTime`

This module covers lines 283-285 of `ack_origin`:
`deliver_time_ms = pop_time + invisible_time` adds two i64 values taken from the
client's extra_info, and `set_delay_time_ms(deliver_time_ms as u64)` casts the
sum.

- `Width` scales the 64 bits down to 6, so TLC can enumerate every pair of
  inputs. This is 4,096 initial states.
- `Build = "debug"` panics when the sum leaves i64. `"release"` wraps it
  (`WrapI64`).
- `AsU64` is the two's-complement reinterpretation, the value mod `2^Width`.

The module has two properties:

- `DelayIsDeliverTime`: the delay is never less than the sum, and equals it
  whenever the sum is a valid u64. This is what spec §4.4 and §8 require.
- `NoArithmeticPanic`: the sum never panics.

| run | cfg | result |
|---|---|---|
| deliver_time | MCDeliverTime.cfg | pass (8,192 states): DelayIsDeliverTime, release build |
| debug_overflow | MCDebugOverflow.cfg | violation of NoArithmeticPanic (finding 7) |

Mutant: a saturating add breaks `DelayIsDeliverTime`.

`DelayIsDeliverTime` says that the cast delay equals the deliver time. That
this is the instant the revive process needs rests on `set_delay_time_ms`
taking an absolute time in milliseconds. That method is outside the modelled
sources.

## 6. Module `QueryConsumerOffsetHeader`

This module follows one header through its life. A string map arrives from a
client (`at = "wire"`) and `from` decodes it (`Decode`). The broker then calls
the accessors (`SetTopic`, `SetQueueId`, `LoAccess`, `RpcAccess(f)`), and
`to_map` encodes the header again for forwarding (`Encode`). That map is decoded
in turn.

Data representation:

- A map is a record with one field per key. An absent key is `<<>>`.
- A text is `Dec(n)` (the decimal rendering of an integer) or `Word(w)`.
- `bool::to_string` gives `Word("true")` or `Word("false")`. `parse::<bool>` is
  the inverse on exactly those words and `None` otherwise (`.ok()`).
- `parse::<i32>` succeeds exactly on `Dec(n)` with `n` in range.

Getters that return a value are stutters, unless their `unwrap` panics. The
flattened `TopicRequestHeader` (`lo` and the rpc fields) lives in another crate
that is not under `src/`. Its `to_map`/`from` are modelled from the spec, with
`from` always producing `Some(rpc)`.

Constants:

- `JunkKeys`: the keys whose client value may be unparsable. For `queueId` this
  includes `Dec(2^(Width-1))`, which is one past i32::MAX.
- `BareHeaders`: headers may also be built directly with `None` in the
  sub-header or its rpc. The fields are `pub`, and `to_map` handles `None`.

Properties:

- `NoPanic`: no decode and no accessor panics.
- `RoundTrip`: an action property. A map produced by `to_map(h)` decodes to `h`,
  whatever setters `h` went through.
- `StrictDecode`: a `setZeroIfNotFound` the client sent is never silently
  dropped (spec §3, §7).

| run | cfg | result |
|---|---|---|
| header_codec | MCQueryConsumerOffsetHeader.cfg | pass (16,848 states): NoPanic, RoundTrip, i32 of width 2, every bool and option value |
| malformed_queue_id | MCMalformedQueueId.cfg | violation of NoPanic (finding 4) |
| lenient_bool | MCLenientBool.cfg | violation of StrictDecode (finding 5) |
| bare_header | MCBareHeader.cfg | violation of NoPanic (finding 6) |

Mutants:

- `from` without its sub-header breaks `NoPanic`: the next accessor unwraps
  `None`.
- `to_map` that omits a false `setZeroIfNotFound` breaks `RoundTrip`.

## 7. Findings

1. **code_bug.** `append_check_point` (l.321) is `unimplemented!()`. Every
   request that passes validation and is not ordered panics and gets no
   response. The order branch (l.329) is `unimplemented!()` too, but spec §9
   leaves the order algorithm unspecified and asks for an explicit stub, so
   only the missing `append_check_point` is the bug.
2. **spec_code_divergence.** ckOffset, popTime and invTime are parsed only in
   `ack_origin`, after the new CK is appended, and their errors are only logged
   (l.231-239, 257, 261, 283). A malformed popTime therefore answers Success,
   leaves the new CK, and never acks the original. Spec §3 says decoding is
   atomic.
3. **spec_gap.** The new CK's key is (offset, `now`), and the original ack's key
   is (start, pop time). When `now` equals the original pop time and offset =
   start, the ack pairs with both CKs and the message is never redelivered. Spec
   §4.3 and §7 assume the two CKs are distinct.
4. **code_bug.** `from` does `value.parse::<i32>().unwrap()` on the client's
   `queueId` (header l.93). A word, or a number past i32::MAX, panics the
   decoding task. The function returns `Result`, and spec §7 says a malformed
   header is rejected.
5. **spec_code_divergence.** An unparsable `setZeroIfNotFound` becomes `None`
   (header l.96), so the broker silently applies the default.
6. **code_bug.** `to_map` handles `topic_request_header = None` (header l.67).
   `set_lo`, `lo`, and every rpc getter and setter (l.104-198) unwrap it and its
   rpc part, so a header built without them panics on first use.
7. **spec_gap.** The i64 sum at l.283 panics on overflow in a debug build, after
   the CK is written. In a release build the wrap is harmless once cast
   (`DelayTheorem`).

## 8. Proofs

### `ChangeInvisibleTimeProofs`

- `TypeCorrect`: `Spec => []TypeOK`, for all constants satisfying
  `ConstAssumption`. Its main content is that `flushed <= Len(log)` survives the
  crash truncation, and that every appended record is a well-formed `Record`.
- `WriteAheadInvariant`: under `StrictClock`, `Spec => []WriteAhead`.
  `WriteAhead` alone is not inductive, because a handler at `ack` or `put` is
  about to write an ack whose CK must already be in the log. The inductive
  invariant is `IInv == TypeOK /\ WriteAhead /\ HandlesPast /\ HandlerInv`:
  - `HandlesPast`: every held handle has a pop time at most `clock`. This gives
    `now > h.pt`, so the new CK is strictly newer.
  - `HandlerInv`: a handler past the CK step has `NewCk(r)`, with its pop time
    newer than its handle's, somewhere in the log.

  Crash truncation keeps the invariant because an ack's CK precedes it.
  `IInvStep` has one step per action, and under each, one step per handler.
  TLC also checks `IInv` as an invariant of the core instance.

### `ChangeInvisibleTimeSafety`

- `NoLostMessageTheorem`: under `StrictClock`, `Spec => []NoLostMessage`, for
  all constants.
  - `NoLostMessage` is not inductive, and neither is `IInv` with it. The proof
    derives it from `IInv` and `FirstCk`. `FirstCk` says that the log still
    begins with the pop's CK; a crash keeps a non-empty prefix (`LogStep`,
    `FirstCkStep`).
  - For a message m, the pop's CK covers it. So the set `CoveringCks(m)` of
    CKs covering m is non-empty, and `NewestCk` picks one with the greatest pop
    time. It is the minimum of `MaxTime - pt`, by `WFMin` over the
    well-founded `<` on `Nat`. No induction over a data structure is needed.
  - `NewestIsLive` shows that this CK is live. An ack pairing with it would,
    by `WriteAhead`, have a CK of the same message with a strictly later pop
    time in the log, contradicting maximality.

### `ChangeInvisibleTimeRefinement`

- `RefinementTheorem`: under `StrictClock`,
  `Spec => ImplementsInvisibility`, for all constants. The core run checks the
  same property on its instance.
- The step simulation (`RefStep`) needs more than `IInv` and `FirstCk`: a new
  CK must not be born cancelled, so no ack may carry the pop time `now` of a
  handler at the CK step. The invariant `FInv` carries this. It was checked
  with TLC on the core instance (all 765,656 states) before it was proved
  (`FInvStep`). It has five parts:
  - `BufAcks`: the buffer holds acks only;
  - `AckPts`: every ack carries the pop time of a handle;
  - `ReqHandles`: a handler in flight serves a handle;
  - `NowDistinct`: a handler at the CK step has a `now` that no other handler
    in flight has;
  - `NowFresh`: no handle carries that `now`.
- The mapped state is described, not recomputed, through four lemmas on the
  two record sets `Cks` and `Acks`:
  - `KeysSame`: both sets unchanged;
  - `KeysNewCk`: one new CK whose key no ack pairs;
  - `KeysNewAck`: one new ack. It removes its key from the message's live keys
    and moves it to the cancelled ones when it was live;
  - `KeysShrink`: both sets shrink, as in a crash.
- The `Ack` guard comes from `NewerLiveKey`, which reuses `NewestCk` and
  `NewestIsLive`.
- `Recover`'s non-emptiness comes from `NoLostMessage` in the next state.

### `QueryConsumerOffsetHeaderProofs`

These theorems hold for every `Width`, `Texts` and `JunkKeys` allowed by
`HeaderAssumption`.

- `RoundTripTheorem`: without bare headers, `Spec => RoundTrip`.
  - The key lemma, `RoundTripLemma`, shows that for every header whose
    sub-header and rpc are `Some` (`Decoded`), `to_map` gives a map on which
    `from` does not panic and returns the same header.
  - It is proved field by field: `BoolRoundTrip`, `ParseBoolOpt`,
    `ToMapFields`, and the sub-header's keys.
  - The inductive invariant `HInv` says that a header in use is `Decoded`, and
    that a map in transit is either a client map or `ToMap(sent)` with `sent`
    `Decoded`.
  - One lemma per setter shows that it keeps a header `Decoded`.
- `NoPanicTheorem`: without bare headers, and with no junk `queueId`,
  `Spec => []NoPanic`. From `HInv`, every accessor finds `Some` in both unwraps,
  and `from` parses every `queueId` it can see.

### `DeliverTimeProofs`

- `DelayTheorem`: in a release build, for every `Width`,
  `Spec => []DelayIsDeliverTime`.
  - `CastOfWrappedSum` shows that `AsU64(AddI64(a, b)) = (a + b) % 2^Width`.
    Its three cases (the sum below, inside or above the i64 range) rest on
    `ModShift`, which reduces `x % M` for `x` within one modulus of `0..M-1`.
  - `ModOfSum` shows that the result is at least the sum, and equal to it when
    the sum is a valid u64.
  - The inductive invariant `DInv` records that a set delay is the cast of the
    wrapped sum.
  - `HalfPos` shows that `2^(Width-1)` is a positive natural number, through
    the cardinality of `SUBSET (1..Width-1)`.

### What stays with TLC

- Liveness (`Answered`) and anything about ENABLED. TLAPS's temporal backend
  does not cover the fairness reasoning these need.
- The safety theorems of `ChangeInvisibleTime` assume `StrictClock`. Without it,
  `NoLostMessage` and the refinement are false: the `same_millisecond` run is a
  counterexample.
- The header theorems assume no bare headers. With bare headers, `NoPanic` is
  false: the `bare_header` run.
- The violation runs, which are counterexamples and not theorems.

## 9. Not modelled, and next steps

- **Processor construction (`new`).** Configuration only.
- **Statistics counters and logging in `ack_origin`.** No property reads them.
- **The ExtraInfoUtil text format.** Not under `src/`. Only which fields fail to
  parse is modelled.
- **The hazard at l.168.** The min/max offsets are read once during validation
  and may be stale by the time the CK is appended. The model has this
  interleaving (`Expire`), but the spec accepts a CK for an expired message, so
  no property separates it.
- **Next steps.**
  - Model the revive process, which redelivers a message when a live key
    expires. Then refine `Invisibility` further into a redelivery contract.
  - Once `append_check_point` is implemented, map its body line by line in
    place of the spec-modelled `NewCk`.
