------------------------------- MODULE Latency -------------------------------
(***************************************************************************)
(* LatencyInjector::delay_for, on integers of any width, and its use by    *)
(* LatencyAndFailure.  A Duration is its number of nanoseconds; its        *)
(* seconds are a u64, so the largest one is just below U64Max + 1 seconds. *)
(***************************************************************************)
EXTENDS Schedule, Sequences

CONSTANTS
  NanosPerSec, U32Max, U64Max, U128Max,   \* widths of the arithmetic
  Profiles,      \* the latency profiles to use
  Schedules,     \* the schedules they are composed with
  MaxAttempt,    \* largest attempt number passed
  MaxCalls       \* bound on the calls

DurationMax == (U64Max + 1) * NanosPerSec - 1

(* The widths matter only in that a u128 holds any Duration in nanoseconds *)
(* and that attempt numbers may exceed a u32.                              *)
ASSUME WidthsAssumption ==
  /\ NanosPerSec \in Nat \ {0} /\ U32Max \in Nat /\ U64Max \in Nat
  /\ U128Max \in Nat /\ DurationMax <= U128Max
ASSUME LatencySchedulesAssumption ==
  \A s \in Schedules : s.limit \in Nat \cup {NoLimit}
ASSUME AttemptsAssumption == MaxAttempt \in Nat

Constant(d) == [kind |-> "constant", delay |-> d]
LinearRamp(start, step) == [kind |-> "linear_ramp", start |-> start, step |-> step]
StepSchedule(boundaries) == [kind |-> "step_schedule", boundaries |-> boundaries]

Durations == 0..DurationMax

(* What the constructors take: Durations, and thresholds that are integers. *)
ASSUME ProfilesAssumption ==
  Profiles \subseteq
    [kind : {"constant"}, delay : Durations]
      \cup [kind : {"linear_ramp"}, start : Durations, step : Durations]
      \cup [kind : {"step_schedule"}, boundaries : Seq(Nat \X Durations)]

Overflow == -1   \* None of checked_mul and checked_add

-----------------------------------------------------------------------------
CheckedMul(d, n) == IF d * n <= DurationMax THEN d * n ELSE Overflow

CheckedAdd(d, e) == IF d + e <= DurationMax THEN d + e ELSE Overflow

U128Saturate(x) == IF x <= U128Max THEN x ELSE U128Max

DurationFromNanosSaturating(ns) ==
  LET secs == ns \div NanosPerSec
  IN  IF secs <= U64Max THEN secs * NanosPerSec + (ns % NanosPerSec) ELSE DurationMax

LinearRampWide(start, step, n) ==
  DurationFromNanosSaturating(U128Saturate(U128Saturate(step * n) + start))

(* Mutant: `n as u32' truncates.                                            *)
TruncatedU32(n) == n % (U32Max + 1)

(* u32::try_from(n)                                                        *)
TryU32(n) == IF n <= U32Max THEN n ELSE Overflow

(* The fast path of delay_for for a ramp.                                  *)
RampFast(start, step, n) ==
  LET narrow == TryU32(n)
      product == IF narrow = Overflow THEN Overflow ELSE CheckedMul(step, narrow)
  IN  IF product = Overflow THEN Overflow ELSE CheckedAdd(start, product)

(* attempt.saturating_sub(1)                                               *)
Before(attempt) == IF attempt = 0 THEN 0 ELSE attempt - 1

RampDelay(start, step, attempt) ==
  LET fast == RampFast(start, step, Before(attempt))
  IN  IF fast # Overflow THEN fast ELSE LinearRampWide(start, step, Before(attempt))

(* Mutant: < instead of <=.                                                *)
ReachesAfter(boundary, attempt) == attempt < boundary[1]

Reaches(boundary, attempt) == attempt <= boundary[1]

(* The loop over the boundaries returns at the first one that reaches.     *)
StepDelay(boundaries, attempt) ==
  LET reach == { i \in 1..Len(boundaries) : Reaches(boundaries[i], attempt) }
  IN  CASE boundaries = <<>> -> 0
        [] boundaries # <<>> /\ reach = {} -> boundaries[Len(boundaries)][2]
        [] reach # {} ->
             boundaries[CHOOSE i \in reach : \A j \in reach : i <= j][2]

DelayFor(profile, attempt) ==
  CASE profile.kind = "constant"      -> profile.delay
    [] profile.kind = "linear_ramp"   -> RampDelay(profile.start, profile.step, attempt)
    [] profile.kind = "step_schedule" -> StepDelay(profile.boundaries, attempt)

-----------------------------------------------------------------------------
VARIABLES
  profile, sched,  \* of a LatencyAndFailure; never change
  calls,           \* calls of apply_blocking and delay_for
  failures,        \* increments of the failure counter of the schedule
  attempt, delay,  \* of the last call
  failed           \* did the last apply_blocking return the injected failure?

latencyVars == <<profile, sched, calls, failures, attempt, delay, failed>>

LatencyInit ==
  /\ profile \in Profiles
  /\ sched \in Schedules
  /\ calls = 0 /\ failures = 0
  /\ attempt = 0 /\ delay = DelayFor(profile, 0) /\ failed = FALSE

(* LatencyAndFailure::apply_blocking: sleep, then ask the schedule.        *)
ApplyBlocking(a) ==
  /\ calls < MaxCalls
  /\ calls' = calls + 1
  /\ attempt' = a
  /\ delay' = DelayFor(profile, a)
  /\ failures' = IF Fires(sched, a) THEN failures + 1 ELSE failures
  /\ failed' = (Fires(sched, a) /\ Injects(sched.limit, Wrap(failures)))
  /\ UNCHANGED <<profile, sched>>

(* LatencyAndFailure::delay_for consumes no attempt of the schedule.       *)
Diagnose(a) ==
  /\ calls < MaxCalls
  /\ calls' = calls + 1
  /\ attempt' = a
  /\ delay' = DelayFor(profile, a)
  /\ UNCHANGED <<profile, sched, failures, failed>>

LatencyNext == \E a \in 0..MaxAttempt : ApplyBlocking(a) \/ Diagnose(a)

LatencySpec == LatencyInit /\ [][LatencyNext]_latencyVars
-----------------------------------------------------------------------------
(* Properties.                                                             *)

(* `start + (attempt - 1) * step, saturating at Duration::MAX' (doc of     *)
(* LinearRamp), on every path of delay_for: also where the attempt leaves  *)
(* a u32, a Duration overflows, or the exact product leaves a u128.        *)
RampIsExact ==
  profile.kind = "linear_ramp" =>
    LET exact == profile.start + (IF attempt = 0 THEN 0 ELSE attempt - 1) * profile.step
    IN  delay = IF exact <= DurationMax THEN exact ELSE DurationMax

Sorted(boundaries) ==
  \A i, j \in 1..Len(boundaries) : i < j => boundaries[i][1] <= boundaries[j][1]

(* `use delay while attempt is <= attempt_threshold': the entry that is    *)
(* served reaches the attempt, if there is one that does, and is the final *)
(* one otherwise.  `The list MUST be sorted' (doc of StepSchedule): then   *)
(* it is the entry of the smallest such threshold, the first one if there  *)
(* are several; in an unsorted list an entry behind a larger threshold is  *)
(* passed over (delay_for).                                                *)
StepsFollowThresholds ==
  (profile.kind = "step_schedule" /\ profile.boundaries # <<>>) =>
    LET b == profile.boundaries
        reaching == { j \in 1..Len(b) : b[j][1] >= attempt }
    IN  \E k \in 1..Len(b) :
          /\ delay = b[k][2]
          /\ IF reaching = {} THEN k = Len(b) ELSE k \in reaching
          /\ Sorted(b) => \A j \in reaching :
               b[k][1] < b[j][1] \/ (b[k][1] = b[j][1] /\ k <= j)
=============================================================================
