----------------------------- MODULE MCRecovery -----------------------------
(* Instances of Recovery for TLC, with the hash of the code.               *)
EXTENDS Recovery, SplitMix64

(* The hash is tabulated once.  With seed 5720 it is 0 on attempt 2, 471   *)
(* on attempt 3 and 999 on attempt 5; the last seed is u64::MAX.           *)
Seed42 == FromNat(42)
Edges == FromNat(5720)
LastSeed == [k \in 1..8 |-> 255]
MCAttempts == 40
MCBuckets ==
  [s \in {Seed42, Edges, LastSeed} |-> [a \in 1..MCAttempts |-> Bucket64(s, a)]]
MCBucket(seed, a) == MCBuckets[seed][a]

Suite(sched, prob, shared, scenarios) ==
  [sched |-> sched, prob |-> prob, shared |-> shared, scenarios |-> scenarios]
Steps(ops, attempts, expected) ==
  [ops |-> ops, attempts |-> attempts, expected |-> expected]

(* The schedule of the README and of the example: with all its attempts,   *)
(* with operations that are done before, and with too few attempts.        *)
QuickStart ==
  { Suite(OnAttempts({3, 7, 10}, "io_error"), 0, shared,
          <<Steps(9, 12, 3), Steps(5, 12, 3), Steps(9, 11, 3)>>) : shared \in BOOLEAN }

(* Bounded chaos, with attempts for just the limit and for one less.       *)
Bounded ==
  { Suite(Limit(sched, n), 10000, shared, <<Steps(4, 4 + n, n), Steps(4, 3 + n, n)>>) :
      sched \in {EveryN(1, "timeout"), EveryN(2, "timeout"),
                 SeededRandom(Seed42, 10000, "timeout")},
      n \in 0..3, shared \in BOOLEAN }

(* A replay meets the limit in the middle of what it met before, another   *)
(* one from its start.                                                     *)
Replayed ==
  { Suite(Limit(EveryN(2, "corruption"), 3), 10000, shared,
          <<Steps(3, 8, 2), Steps(3, 8, 2), Steps(3, 8, 2)>>) : shared \in BOOLEAN }

(* The seed and the probability whose failures the tests pin.              *)
PinnedSuite ==
  Suite(SeededRandom(Seed42, 2500, "io_error"), 2500, FALSE, <<Steps(29, MCAttempts, 11)>>)

(* Probabilities on both sides of where the rounding changes, outside      *)
(* [0, 1], and -1 for NaN.                                                 *)
Rounding ==
  { Suite(SeededRandom(s, p, "io_error"), p, FALSE, <<Steps(9, 8, 1)>>) :
      s \in {Edges, LastSeed},
      p \in {-1, 0, 4, 5, 14, 15, 4714, 4715, 9994, 9995, 10000, 15000} }

MCSuites == QuickStart \cup Bounded \cup Replayed \cup {PinnedSuite} \cup Rounding

(* `Pins the exact outcome for a known seed' (seeded_random_sequence_is_   *)
(* pinned): the seeded schedule fails on the attempts recorded there.      *)
Pinned == {6, 9, 11, 16, 19, 20, 30, 32, 33, 34, 40}
SeededRunIsPinned ==
  suite = PinnedSuite =>
    \A r \in {run} \cup ToSet(past) : FailedAttempts(r) = Pinned \cap 1..r.attempt
=============================================================================
