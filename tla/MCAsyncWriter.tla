---------------------------- MODULE MCAsyncWriter ----------------------------
(* Instances of AsyncWriter for TLC.                                       *)
EXTENDS AsyncWriter

MCBucket(seed, a) == (seed * 7 + a * 389) % 1000

MCSchedules ==
  UNION { { EveryN(2, m), Limit(EveryN(1, m), 1), OnAttempts({2, 3}, m) } :
            m \in {"partial_write", "timeout"} }

MCPassing == { OnAttempts({2}, "timeout") }
=============================================================================
