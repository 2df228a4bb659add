---------------------------- MODULE MCAsyncReader ----------------------------
(* Instances of AsyncReader for TLC.                                       *)
EXTENDS AsyncReader

MCBucket(seed, a) == (seed * 7 + a * 389) % 1000

MCSchedules ==
  { OnAttempts({2, 3}, "timeout"), EveryN(2, "connection_reset"),
    Limit(EveryN(1, "corruption"), 1) }
=============================================================================
