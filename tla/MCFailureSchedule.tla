-------------------------- MODULE MCFailureSchedule --------------------------
(* Instances of FailureSchedule for TLC.                                   *)
EXTENDS FailureSchedule

(* A small stand-in for the hash of the seeded schedule.                   *)
MCBucket(seed, a) == (seed * 7 + a * 389) % 1000

(* On attempts 0 and 1 the inner schedules fire on one of them or on both. *)
MCSchedules ==
  LET mode == "io_error"
      both == EveryN(0, mode)
      second == OnAttempts({1}, mode)
  IN  {second, EveryN(2, mode), SeededRandom(3, 2500, mode), Limit(second, 0)}
        \cup { Limit(both, n) : n \in 1..2 }

(* Every attempt fires: the most contended schedules.                      *)
MCAlways == { Limit(EveryN(1, "timeout"), n) : n \in 1..2 }
=============================================================================
