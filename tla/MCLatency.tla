------------------------------ MODULE MCLatency ------------------------------
(* An instance of Latency for TLC: two-bit u32, three-bit u64, ten         *)
(* nanoseconds to the second, and a u128 that the products overflow.       *)
EXTENDS Latency

MCBucket(seed, a) == 0

MCBoundaries == { <<t, d>> : t \in 1..3, d \in {0, 4} }

MCProfiles ==
  { LinearRamp(s, d) : s \in {0, 1, 39, 79}, d \in {0, 1, 9, 40, 79} }
    \cup { Constant(d) : d \in {0, 79} }
    \cup { StepSchedule(b) : b \in {<<>>} \cup (MCBoundaries \X MCBoundaries) }

MCSchedules == { Limit(EveryN(2, "timeout"), 1), OnAttempts({1, 3}, "timeout") }
=============================================================================
