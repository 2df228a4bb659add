# A TLA+ development of dev-chaos

dev-chaos is a Rust library that injects failures, latency, crash points, clock
skew and memory pressure into the code under test. The value of such a library
is that what it injects is exactly what it says: a test that trusts a wrong
failure count, a lost tick of a virtual clock or a byte written behind its back
draws the wrong conclusion about *its own* recovery code. This directory states
what the library promises as TLA+ modules, checks small instances of them with
TLC, and proves the results that should hold for every instance with TLAPS.

Paths are relative to the repository; `lib.rs` is `src/lib.rs` of the crate.

## 1. Inventory

| Component | Source | State | Operations | What makes it hard |
|---|---|---|---|---|
| `FailureSchedule`, `FailureMode` | `lib.rs` | immutable description (explicit set, every n, seeded hash; mode; limit) and two relaxed `AtomicUsize`: `invocations`, `failures` | constructors, `limit`, `maybe_fail`, `failure_count`, `invocation_count` | shared by threads; two atomic accesses per call; the failure counter runs past the limit and is clamped on read; it can wrap |
| `Clock` | `clock.rs` | one relaxed `AtomicI64` shared by all clones | `advance`, `skew_by`, `reset`, `now`, `now_signed_ns` | a `compare_exchange_weak` loop racing with itself and with a plain store; saturation at both ends; conversion of a `Duration` wider than the offset; stale loads |
| seeded hash | `lib.rs` | none | the mix in `fires` | 64-bit wrapping arithmetic: a wrong shift or literal still looks random |
| `InjectedFailure` | `lib.rs` | mode, attempt | `to_io_kind`, `From` for `io::Error` | std retries some kinds of error by itself |
| `ChaosReader`, `ChaosWriter`, `ChaosFile` | `io.rs` | inner object, schedule, attempt counter | `read`, `write`, `flush`, `create`, `append`, `into_inner` | partial writes let one byte through; the inner object has failures of its own and may buffer; `write_all` retries and resumes |
| `CrashPoint`, `CrashWriter` | `crash.rs` | inner writer, limit, bytes let through | `write`, `flush`, `bytes_written`, `into_inner` | short writes; composition with `ChaosWriter` in both orders; reopening |
| `AsyncChaosReader`, `AsyncChaosWriter` | `async_io.rs` | as above plus the state of the attempt in flight | `poll_read`, `poll_write`, `poll_flush`, `poll_shutdown` | an attempt spans polls; a dropped future leaves its state behind |
| `LatencyInjector`, `LatencyAndFailure` | `latency.rs` | a profile, a schedule | `delay_for`, `apply_blocking` | a fast path and an exact path that must agree; unsorted steps |
| `MemoryPressure` | `memory_pressure.rs` | an allocation | `allocate*`, `try_allocate`, drop | which pages a fixed stride touches; products that overflow |
| `assert_recovered`, `ChaosProducer` | `lib.rs` | none | `assert_recovered`, `produce` | order of the verdicts; suites whose scenarios share a schedule |

Interactions. `ChaosReader`, `ChaosWriter`, both asynchronous wrappers and
`LatencyAndFailure` own a `FailureSchedule` and call `maybe_fail`; the I/O
wrappers number the attempts themselves, everyone else passes the numbers in.
`CrashWriter` and `ChaosWriter` wrap any `Write`, hence each other. A `Clock` is
shared through its clones. The schedule is shared when its owner puts it behind
an `Arc` (`lib.rs:583`, the test `limit_holds_exactly_under_contention`). Nothing
starts threads, and nothing persists but the file a `ChaosFile` writes. A suite
(`README.md`, `examples/chaos_schedule.rs`) is a loop that numbers attempts, puts them
to a schedule, counts what failed, and hands the count to `assert_recovered`;
`ChaosProducer` turns a suite into a report.

What makes each component correct:

- *FailureSchedule*: only scheduled attempts fail; with limit *n* exactly the
  first *n* firing calls fail, whatever the interleaving; `failure_count()` is what
  callers received or are about to, it never decreases and is never behind what its
  caller has seen.
- *Clock*: every skew is applied exactly once and atomically, saturating at the
  ends; no advance moves time back; a thread that advanced the clock sees it.
- *Writers*: the file holds what callers were told it holds plus at most one byte
  per torn write; a successful `write_all` left one contiguous copy; an injected
  failure is never hidden and never retried behind the caller's back; nothing passes
  the crash point, and nothing succeeds after it; what was flushed survives a crash.
- *Suites*: failures follow the seed and the rounded probability; what scenarios were
  told adds up to what the schedule counts; a bounded schedule is survived by a client
  with enough attempts; the verdicts say what happened.
- *Asynchronous wrappers*: one operation is one attempt however often it is
  polled, the outcome is the synchronous one, and no `Pending` is returned that
  nobody will wake.
- *Latency*: `delay_for` is `min(start + (attempt - 1) * step, MAX)` on every path.
- *MemoryPressure*: the unsafe write stays in the buffer, no page of it is skipped, and
  a guard holds what was asked for.

The hazards are listed one by one, with their lines, in `PROJECT.json`.

## 2. Modules

| Module | What it is |
|---|---|
| `Usize` | the integer of the counters and sizes, of any width; used by `Schedule` and `MemoryPressure` |
| `Schedule` | constructors of a schedule, `fires`, the verdict of `maybe_fail`, the clamp of `failure_count`; no state; used by every module that owns a schedule |
| `FailureSchedule` | a schedule shared by threads, one step per atomic access |
| `LimitedInjector` | abstract: an atomic budget of failures |
| `FailureScheduleProofs` | theorems about `FailureSchedule` |
| `SplitMix64` | the hash of the seeded schedule on the bytes of a `u64` |
| `Recovery` | a suite of retrying scenarios, `assert_recovered` and `ChaosProducer` |
| `RecoveryProofs` | theorems about `Recovery` |
| `Clock` | a clock shared by threads, one step per atomic access |
| `AtomicClock` | abstract: a register with an atomic saturating addition |
| `ClockProofs` | theorems about `Clock` |
| `ChaosIO` | what `ChaosReader` and `ChaosWriter` do around one operation of the object they wrap: operators from a state to the set of possible outcomes |
| `WriterStack` | `ChaosWriter` and `CrashWriter`, alone and over each other, over a file, under a client that calls `write` and `write_all` and reopens |
| `OneOperation` | abstract: operations that end with one synchronous outcome or are dropped without a trace |
| `AsyncWriter`, `AsyncReader` | `poll_write` and `poll_read` under a task with wakers, spurious polls and dropped operations |
| `ChaosIOProofs` | lemmas about prefixes, ordered sequences and the operators of `ChaosIO` and `Schedule`, used by the proofs of the modules that own a schedule |
| `WriterStackProofs`, `AsyncWriterProofs`, `AsyncReaderProofs` | theorems about the modules they are named after |
| `Latency` | `delay_for` on integers of any width, and `LatencyAndFailure` |
| `MemoryPressure` | the allocations and the loop of `touch_pages` |
| `ResourceProofs` | theorems about `Latency` and `MemoryPressure`, the injectors that act on time and memory |
| `MC*` | values of the constants for TLC, one module for each of the above that is checked |

Composition: `FailureSchedule`, `Recovery`, `ChaosIO` and `Latency` extend `Schedule`;
`MCRecovery` gives `Recovery` the hash of `SplitMix64`;
`WriterStack`, `AsyncWriter` and `AsyncReader` extend `ChaosIO`. The abstract
modules are instantiated by the detailed ones with a refinement mapping:
`FailureSchedule!Budget`, `Clock!Atomic`, `AsyncWriter!Sync`, `AsyncReader!Sync`. Each
module of proofs extends the module, or the two modules, it is about; so that two fit
in one, the definitions of `Latency` have names of their own (`LatencyInit`, `LatencySpec`).

Definitions that begin with a comment `Mutant` are never used by a
specification. They are plausible mistakes in the definition that follows;
`PROJECT.json` pairs each property with one that breaks it.

## 3. How state and actions correspond to the code

### Schedule and FailureSchedule

A schedule is a record: the kind of its attempts, its `mode` and its `limit`
(`NoLimit` for `None`). `Fires` is `fires`; the hash that computes the bucket of the
seeded variant is the constant operator `Bucket`, so that `FailureSchedule` holds for
any hash. `SplitMix64!Bucket64` is the hash of the code: a `u64` is its eight bytes,
`Carried` propagates their carries and drops the last, `XorShifted` is `x ^ (x >> n)`.
A probability is given in ten-thousandths; `ProbThousandths` clamps and rounds it.

The two `AtomicUsize` only ever change by `fetch_add(1)`. Each is modelled by the
number of increments made so far, `Wrap` giving the `usize` it then holds. All
accesses are `Relaxed`: a `fetch_add` acts on the last value, a load returns any
value not older than what its thread already knows (`seen`).

| Code | Action |
|---|---|
| `maybe_fail` when the attempt does not fire | `PassThrough` |
| `maybe_fail` up to the decision that it fires | `Fire` |
| `failures.fetch_add(1)` | `Claim` |
| the comparison with the limit and the return | `ReturnErr`, `ReturnOk` |
| `failure_count()` | `ReadFailureCount` |

`invocation_count()` is a load like that of `failure_count()` without a clamp; threads
that call it are left out here, and `Recovery` relates it to the attempts made. The
increment of `invocations` and the pure `fires` are one step with what follows.

### Recovery

The scenarios belong to the user; they are the loop of `README.md` and of
`examples/chaos_schedule.rs`, ended when the operations are done or the attempts used
up. `Proceed` and `Recover` are the two arms of its `match` on `maybe_fail`
(`MaybeFail`, by a single thread); the recovery code may fail (`intact`). `Conclude`
calls `AssertRecovered` and builds the next schedule, or goes on with the shared
one. `Produce` is `ChaosProducer::produce`, which pushes the checks one by one (`Pushed`) and
finishes the report. `Check` keeps of a `CheckResult` the verdict, severity, tags and
evidence. What the scenarios that share a schedule know together is a set of pairs: the
number of a scenario with a failure it received (`Received`), or with an attempt it made
(`Made`).

Two assumptions say what a suite is. `SuitesAssumption` types the arguments. `SeedsAssumption`
says that the schedule of a seeded suite was built by `seeded_random` from its probability, and
that the buckets of the attempts the suite can make are remainders modulo 1000; TLC
evaluates it on the real hash for every suite of the run.

### Clock

`values` is the modification order of `offset_ns`, `known[t]` the latest position
thread `t` has seen. `Advance` and `SkewBy` are the call up to the first load;
`CasSucceed` and `CasFail` are the two results of `compare_exchange_weak`, the
failure possibly spurious and possibly with a stale value; `Reset` is the store;
`Now` is the load and the clamp to zero, `NowSignedNs` the load alone. `DeltaNanos` is the conversion in
`advance` of a `Duration` that may exceed an `i64`; `SaturatingAdd` is exact on
an integer of `I64Max`. `anchor` is set once and is left out.

### Writers

`Attempt` counts the increments of the attempt counter and hands the schedule the `usize`
they leave (`Wrap`), as a build without overflow checks does; with them `fetch_add(1) + 1`
panics once in 2^64 attempts. A record holds the bytes of the file and the counters of both
wrappers. The
outcome of a call is a set of records `[io, n, err]`: `ChaosEnter` and
`CrashEnter` are the code before the call of the inner writer, `ChaosLeave` and
`CrashLeave` the code after it, and `StackWrite` nests them in either order, as
`CrashPoint::wrap` and `ChaosWriter::new` allow. The inner writer belongs to the
user: `InnerWrite` allows every short write, a write of no byte and errors. A call
of `write` holds `&mut self`, so it is one step. `write_all` belongs to std: its
loop is modelled by `GoesOn` and `Succeeds`, which see the `ErrorKind` an injected
failure is converted to. The file may keep what it was given in a buffer: `Flush` is
`flush` of the whole stack, and `Reopen`, which is `ChaosFile::append` after the writer
is lost, also in the middle of a `write_all`, finds any prefix that holds at least the
flushed bytes. What the client was told (`acked`) then ends before the first byte that
is lost (`Survivors`). `IntoInner` takes the file out and wraps it anew; `Recreate` is
`ChaosFile::create`.

### Asynchronous wrappers

One `Poll` is one call of `poll_write` or `poll_read`: `Decided` is its first
block, `PollAlone` / `Refuse` the returns that do not poll the inner object, and
`PollInner` the rest. The task is modelled from how `tokio` uses the traits: it is
scheduled when an operation starts and when its waker is called (`runnable`), it
may also poll without having been woken, and it may drop a pending operation
(`Cancel`). The inner object arms the waker when it returns `Pending`, later calls
it (`Wake`), and is then ready. `PollFlush` is `poll_flush` or `poll_shutdown` between two
writes, also after one that was dropped. The buffer of the operation after a dropped one
is another one, of any length.

### Latency and memory pressure

`DelayFor` is `delay_for`; the fast path (`TryU32`, `CheckedMul`, `CheckedAdd`) and
the exact one (`LinearRampWide`) have the widths of their integers as constants. A
`Duration` is its nanoseconds. `ApplyBlocking` computes the delay and consults the
schedule; `Diagnose` is the `delay_for` of `LatencyAndFailure`, which consults nothing;
sleeping changes no state. `MemoryPressure` has one step per iteration of
`touch_pages`; the address of the buffer and the size of a page are chosen by
the allocator and the system. `asked` is the exact product, which the code saturates;
`Drop` releases the guard, so that guards follow one another.

## 4. Runs

| Run | Question, and what it shows |
|---|---|
| `schedule` | Three threads share a schedule. Failures are counted once, past the limit nobody receives another, none is lost, and `failure_count()` is monotone and never behind what its caller received. `maybe_fail` and `failure_count` implement `LimitedInjector`, with every call answered: sharing a schedule is indistinguishable from an atomic budget. |
| `recovery` | Suites under explicit, periodic and seeded schedules with the real hash, with and without a limit, shared or built anew: failures follow the seed (the pinned ones of the tests) and the rounded probability, a replay fails the same attempts until the limit of a shared schedule is reached, none goes unreported, bounded chaos is survived, and the finished report is true. |
| `counter_wrap` | *Violated.* The raw counter keeps counting past the limit; when it wraps, the limit starts again. |
| `clock` | The loop of `skew_by` implements `AtomicClock`; advances are not lost, not undone by a stale load, and never move time back; the loop returns once others let it. |
| `writers` | Four stacks, two modes, short writes, errors, retries and reopening: the file is reconstructable, `write_all` means what it says, failures are not hidden or retried, flushed bytes survive a crash, and the crash point is exact and final. |
| `crash_over_tear` | *Violated.* The byte a torn write leaves under a `CrashWriter` is not deducted from its budget. |
| `torn_byte` | *Violated.* When the inner writer takes no byte, a partial write injects its error with no byte written. |
| `async_writer`, `async_reader` | Spurious polls, flushes and dropped operations: an operation that ends is one synchronous operation, none hangs, no byte and no failure is lost. A read that is dropped while pending shares its attempt with the one after it, and only such a read does. |
| `dropped_write` | *Violated.* A dropped write leaves its attempt to the next one, which is not counted and does not consult the schedule. The reader does the same; there it is stated as what holds (`DroppedReadsShareAttempts`). |
| `latency` | The ramp is exact on both sides of every switch between its paths; the step served reaches the attempt or is the final one; in a sorted list it is the nearest that does, in an unsorted one it need not be. |
| `memory` | `touch_pages` stays in bounds and leaves at most the last page of an unaligned buffer unwritten; no guard holds less than was asked for. |

Each violated run states what the documentation says and is a finding in
`PROJECT.json`. Two further divergences appear in the passing runs. With a
limit, the outcome of an attempt number depends on how many firing calls came
before, so `README.md` of the crate says too much with "the same `(schedule,
attempt)` pair always produces the same outcome"; `ReplaysAgree` states what does hold
of a replay, and `FailuresFollowSchedule` of threads. And `allocate` writes every page of its buffer only when the
buffer starts at a page boundary; `AllButLastPageResident` allows for the last page.

### Bounds

- `schedule`: three threads and four calls. A race needs two threads; the third
  makes one that has already lost observe it. The schedules fire on one or on both
  of the attempt numbers, with limits of 0, 1 and 2, so calls fall on both sides of
  each. No symmetry, because of the fairness.
- `recovery`: the schedule of the README with all its attempts, with operations that
  end before, and with one attempt too few; limits of 0 to 3 with attempts for just
  the limit and for one less, two scenarios each, sharing or not; a scenario replayed twice
  under a limit that ends in the middle of the first replay; the pinned seed over
  the 40 attempts the test records; and a seed whose buckets include 0 and 999, and
  `u64::MAX`, with probabilities on both sides of each rounding boundary, below 0
  (also NaN) and above 1.
- `counter_wrap`: `UsizeMax = 3` makes the wrap reachable. The other runs have
  a `UsizeMax` above the number of their calls: they show what holds before the wrap.
- `clock`: two threads and three calls on an offset from -4 to 3, with durations
  that fit, that exceed the offset, and that exceed twice its range, so that
  truncation, saturation at both ends and a lost update all occur.
- `writers`: chunks of at most two bytes, three calls, four writes and one
  reopening. The crash point is 0, 2 or 3: none, on, and inside a chunk.
- `async_*`: four writes (six reads), two (three) of them dropped: a drop, the
  operation that inherits the attempt, and one more that starts afresh.
- `latency`: two-bit `u32`, three-bit `u64`, ten nanoseconds to the second and a
  seven-bit `u128`, with attempts up to 5. At these widths an attempt that does not fit the
  `u32`, a product past the longest `Duration` (which a one-bit `u32` would not reach) and a
  sum past it each occur with the other two in range, and the exact product and sum saturate.
  The lists of steps hold two entries in any order, also with equal thresholds.
- `memory`: a stride of 4, pages of 4 and 8, addresses at every residue, and
  lengths of zero, below, at and above multiples of the stride.

`CHECK_DEADLOCK FALSE` is set where the client may simply stop.

### Fairness

- `FailureSchedule!FairSpec`: weak fairness of `Proceed`. A thread inside `maybe_fail`
  executes two atomic instructions and never waits.
- `Clock!FairSpec`: weak fairness of `CasSucceed` and of `CasCatchUp`, a failed
  `compare_exchange_weak` that has seen the last store. C++ and Rust ask that
  stores become visible in finite time and that spurious failures do not recur for
  ever. The loop is lock-free, not wait-free: `SkewByReturns` holds because
  `MaxWrites` ends the interference of the others, and says that the loop makes
  use of it.
- `AsyncWriter!FairSpec`, `AsyncReader!FairSpec`: a woken task is polled, and a
  pending inner object becomes ready and calls its waker. A sleeping task is
  *not* assumed to be polled, so a `Pending` that nobody wakes would be found.
- `Recovery!Spec`: a suite is sequential code that runs to its end; recovery code that
  hangs is the caller's.

## 5. Proofs

`FailureScheduleProofs`, for every finite set of threads, every schedule and
every number of calls:

- `TypeCorrect`: `Spec => []TypeOK`.
- `Accounting`: the inductive invariant `IInv`, of two parts. `ClaimAccounting`:
  every firing call has incremented the counter or is about to. `EmissionAccounting`: until
  the counter wraps, the failures returned plus those won and about to be returned are
  `FailureCount`. Neither `NeverMoreThanLimit` nor `QuiescentCountsExact` is
  inductive: a thread between its `fetch_add` and its return holds a failure that
  only `prior[t]` tells of, and the sum has to count it. The steps that change
  a thread's membership in the sets of claimants and winners are isolated in lemmas
  about the cardinality of a set that gains or loses one element.
- `FollowsSchedule`: `FailuresFollowSchedule`, with `InProgressFires` (a call past the
  test of its attempt is one that fires). It needs no proviso about the counter.
- `KnownCounts`: the inductive invariant behind the two results about relaxed loads.
  The latest increment a thread knows of covers the failures it received, the one
  it has won and not returned (`Due`), and what `failure_count()` told it last. From
  it follow `OwnFailuresKnown` (`OwnFailuresObserved` until the counter wraps) and
  `ReadsMonotone`, the action of `ObservedCountNeverDecreases` until then, and
  `ObservedMonotone`, the property itself in behaviours in which the counter does not wrap.
- `EmissionsAccounted`, `LimitHolds`, `QuiescentExact`: consequences.
  `EmissionsAccounted` and `QuiescentExact` are the checked properties themselves,
  which carry the proviso `NoWrap`. `LimitHolds` states `NeverMoreThanLimit` under that
  proviso; without it the property is false, as the run `counter_wrap` shows.
- `ScheduleIsBudget`: a behaviour in which the counter does not wrap is one of
  `LimitedInjector`. `Fire` is `Ask`, `Claim` is `Grant` or `Deny`, `ReturnErr` and
  `ReturnOk` are `Answer`, and the rest stutters; what the budget has granted is
  `FailureCount` of the counter, which the next increment raises exactly while the limit
  has room.

`ClockProofs`, for every set of threads, every width of the offset, and every number of
calls with any durations and skews:

- `ClockTypeCorrect`: `Spec => []TypeOK`; saturation at both ends keeps the offset in range.
- `NoAdvanceBack`: `AdvanceNeverMovesBack`, from `AdvanceForward` (the delta of an
  advance in progress is not negative, because `DeltaNanos` saturates) and
  `OnlyCasSucceedReturns`.
- `ClockIsAtomic`: `ImplementsAtomicClock`. Each step maps to a step of `AtomicClock`
  or a stutter: `StartSkew` to `Call`, `CasSucceed` to `Apply`, `Reset` to `Reset`.
  The abstract specification has no fairness, so this is the whole refinement.
- `AdvancesVisible`: `OwnAdvancesVisible`. It is not inductive: it speaks of what a thread
  may read, and a step of another thread adds to that. `ForwardInv` adds that,
  while nobody moves the clock back, the stored values never decrease and every delta
  in progress is not negative, so that the oldest value a thread may read
  (`Covered`) bounds the others.

`WriterStackProofs`, for the four stacks, every schedule, mode and crash point, chunks of
any length, and any number of calls and reopenings:

- `StackWrites`: one call of `write` on any of the stacks is an `Effect`: how many bytes
  were reported, how many reached the file, whether a failure was counted, and how many of
  the bytes the `CrashWriter` counted. It is composed from the lemmas of
  each wrapper, which speak of any outcome of the writer underneath.
- `Invariant`: the inductive invariant `IInv`. The bytes handed over are numbered;
  `SinkInOrder` says that the file holds every acknowledged byte, in order, and
  (`SinkIsBefore`) none that is still to be written. Without `SinkIsBefore` a retry by
  `write_all` could repeat a byte; without `RestIsLast`, that the rest of the chunk is the
  end of what was handed over, the next write could leave a hole. `SafeIsFlushed` adds where
  in the file the bytes made safe by a flush are: in the part a crash cannot take.
  `WrittenIsLast` adds that what `write_all` has written of its chunk is the end of the file.
- `TypeCorrect`, `FlushSurvives`, `WriteAllIsComplete`, `InjectedFailureEnds`,
  `CrashStaysFinal`: consequences, and the two action properties. They hold whatever
  happens to the counter.
- `Accounts`: until the counter wraps (`NoWrap`: at most `UsizeMax` calls of `write`), bytes in
  the file that were not acknowledged, failures that were counted, and bytes the
  `CrashWriter` did not count are bounded by the torn writes. A reopening is the hard step:
  the bytes acknowledged and lost are distinct and were in the part of the file that is lost, so
  cutting the file takes at least as much from it as from `acked` (`LostBytes`). From it
  follow `SinkIsReconstructable`, `FailuresSurface` and `CrashIsExact`.

`AsyncWriterProofs` and `AsyncReaderProofs`, for every schedule, buffers of any length and any
number of operations, polls and drops:

- `DecidedOnce` for the writer, `InFlightPassed` in the invariant of the reader: an
  attempt in flight is what `Attempt` gives in the state in which it began. This ties the
  `state` of `poll_write` and the `in_flight` of `poll_read` to the synchronous attempt; it is
  what a state restored wrongly after a `Pending`, or a second decision, would break.
- `WriterIsSync`, `ReaderIsSync`: `Sync!Spec`. A poll that returns `Ready` is the `End` of one
  synchronous operation that started where the attempt began, `Cancel` is `Drop`; a poll that
  returns `Pending`, a wake and a flush stutter. They need no proviso.
- `AttemptsCounted` for the writer (an operation is one attempt at most), and `BytesKept`
  (`NoByteLost`) for the reader.
- `AttemptsShared`: `DroppedReadsShareAttempts`. `SharingInv` adds that a read that sleeps
  has an attempt in flight: a read can be dropped only then, so each drop leaves an attempt
  behind.
- `SinkIsReconstructable`, `FailuresSurface`, `FailuresReturned`: until the counter wraps, from
  `Invariant`, where a torn write that was decided and is not yet made is `Due`: its
  failure is counted and neither its byte nor its error has been seen.

`RecoveryProofs`, for every suite: any number of scenarios, with any operations, attempts and
expectations, under any schedule, shared or not:

- `Invariant`: the inductive invariant `IInv`. Every attempt of a scenario was an operation
  done or a failure received; the failures received are those of firing attempts, all of
  them if there is no limit (`RunOf`); every scenario that ended left the `CheckResult` that
  `assert_recovered` gives it, in the order of the scenarios, and the report is of all of them.
  The properties speak of verdicts and of the report; neither says how many attempts a run
  in progress has made, which the next verdict depends on.
- `VerdictsTrue`: `VerdictsAreTrue`, from `IInv` and from the bijection of failures and
  firing attempts (`FiringFinite`).
- `ReportComplete`: the safety half of `ReportIsFinished`: a report that was returned
  is finished and has a check for every scenario.
- `SuiteAdvances`: every step makes one more attempt of the scenario in progress, within those
  it has, or ends it, or returns the report, and no verdict once given changes. This is the
  argument for termination; that steps are taken is the fairness of `Spec`.
- `ProbabilityDecides`: `FailsByProbability`. The rounding is `RoundedProbability`: a bucket of
  `0..999` is below the rounded probability exactly if it is half a thousandth below the given
  one, also when that is clamped.
- `Counting`: the inductive invariant `CountInv`. `used` counts the attempts and the
  failures of all scenarios that share the schedule: each step adds one pair to `Made`, and
  one to `Received` exactly when `FailureCount` rises (`AttemptCounted`). From it follows
  `FailuresReported`, which is `NoFailureUnreported` until the counter wraps.
- `BoundedChaosSurvived`: `BoundedChaosIsSurvived` in every behaviour in which the counter does
  not wrap. `LimitInv` adds that a scenario that ended met at most `limit` failures. It holds
  only if the counter had not wrapped *then*, hence the hypothesis `[]NoWrap`: a new
  schedule starts again from zero, and would hide an earlier wrap.
- `ReplaysAgreeAlways`: `ReplaysAgree`, in the same behaviours. It compares scenarios that have
  ended; `ReplayInv` says what the schedule in use has to do with them. If it is shared and its
  limit has room, every scenario failed all it fired on (`Complete`), so a failure of
  a replay is one that the scenario replayed had too; once there is no room, what a scenario
  failed stays the beginning of what it fired on (`FirstOnes`). If it is new,
  the attempts that fail are a function of the schedule alone (`Met`).

`ResourceProofs`, about `Latency`, for every profile and all widths of the integers:
`DelayIsOfProfile` (the delay is `DelayFor` of the profile and the attempt) with one lemma for each path of the ramp
and one for the search of the steps, hence `RampAlwaysExact` and `StepsAlwaysFollow`.

`ResourceProofs`, about `MemoryPressure`, for every stride, page size, address, length and width
of `usize`: `MemoryInvariant` (`LoopInv`: the bytes written are the multiples of the stride below the index,
which is less than one stride past the end, so its sum does not wrap), hence
`InBoundsAlways`, `SizeIsExact` and `PagesResident`. The last needs that some multiple of the
stride lies in each page but the last when a page is no smaller than the stride.

`NoWrap` bounds the counter of failures by `UsizeMax`: 2^64 - 1 firing calls of one schedule.
The theorems that carry it are false without it for the reason `counter_wrap` shows; the
runs of these properties stay below the bound.

`SinkReconstructable` is stated by positions (`Ordered`, `HoldsAll`: both sequences are
strictly increasing and the longer one holds every member of the shorter), which for
bytes numbered in the order they are handed over is to be a subsequence.

Assumptions: those the modules name, which TLC evaluates in every run, and which say no
more than that a bound is a number and a schedule one its constructors build:
`UsizeMaxAssumption`, `SchedulesAssumption`, `SetupsAssumption`, `BoundsAssumption`,
`MaxCallsAssumption`; that `ThreadsAssumption` makes the threads finitely many; that
`I64Assumption`, `DurationsAssumption`, `SkewsAssumption` and `MaxWritesAssumption` type the
constants of `Clock`; that a `u128` holds every `Duration` (`WidthsAssumption`), with
`LatencySchedulesAssumption`, `AttemptsAssumption` and `ProfilesAssumption`;
`MemoryAssumption`, that a stride is a positive number of bytes and two fit a `usize`; and
`SuitesAssumption` and `SeedsAssumption` (section 3). `Bucket` is any operator; only the suites
that are seeded ask that its values are buckets.

Only model-checked:

- liveness, which is out of the prover's reach: `SkewByReturns`,
  `ReportIsFinished` (proved: its safety half `ReportComplete`, and `SuiteAdvances`), and the fairness of the three
  refinements `ImplementsBudget`, `ImplementsSyncWriter` and `ImplementsSyncReader`, whose steps
  are proved;
- the hash (`SeededRunIsPinned`): `SplitMix64` is arithmetic on literals, which TLC
  computes, and has no statement for every value but itself.

## 6. Not modelled

- The text of errors and reports, `Debug` and `Display`, names and times in a report.
- `Clock::anchor`, an `Instant` that is set once.
- Threads that call `invocation_count()` concurrently; a single thread is in `Recovery`.
- `into_inner` of the asynchronous wrappers and of `ChaosReader`: the wrapper is gone.
- Sleeping, and the contents of memory: nothing in the crate reads either.
- How the allocator reuses freed pages: a fresh buffer is taken to have none resident.

## 7. Status

Every component is modelled, and every safety property that a run checks is stated by a
theorem, except that of the hash (section 5). What would come next follows the code: an injector
that is added gets a module, a run and its inductive invariant. Liveness and what the
hash computes stay with TLC.
