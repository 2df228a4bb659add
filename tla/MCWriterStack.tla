---------------------------- MODULE MCWriterStack ----------------------------
(* Instances of WriterStack for TLC.                                       *)
EXTENDS WriterStack

MCBucket(seed, a) == (seed * 7 + a * 389) % 1000

Built(stack, sched, after) == [stack |-> stack, sched |-> sched, after |-> after]

(* Explicit and periodic schedules, with and without a limit, in a mode    *)
(* that tears and in one that does not.                                    *)
MCSchedules ==
  { Limit(EveryN(1, m), 1) : m \in {"partial_write", "timeout"} }
    \cup { OnAttempts({2, 3}, m) : m \in {"partial_write", "timeout"} }

MCSetups == { Built(k, s, n) : k \in Stacks, s \in MCSchedules, n \in {0, 2, 3} }

(* The second write injects a partial write under the crash point.         *)
MCCrashOverTear ==
  { Built(<<"crash", "chaos">>, OnAttempts({2}, "partial_write"), 2) }

MCTear == { Built(<<"chaos">>, OnAttempts({1, 2}, "partial_write"), 0) }
=============================================================================
