------------------------------ MODULE Schedule ------------------------------
(***************************************************************************)
(* The immutable part of a FailureSchedule: what its constructors build,   *)
(* which attempts it fires on, and the two places where the limit enters   *)
(* (the verdict of maybe_fail and the clamp of failure_count).  The        *)
(* counters a schedule mutates are the business of the modules that use    *)
(* it: FailureSchedule shares them between threads, the I/O wrappers own   *)
(* them.                                                                   *)
(***************************************************************************)
EXTENDS Usize

CONSTANT
  Bucket(_, _)  \* (seed, attempt) -> 0..999, the hash of the seeded schedule

(* A mode is named by what as_str returns.                                 *)
Modes == {"io_error", "partial_write", "connection_reset",
          "timeout", "corruption", "permission_denied"}

(* failure_limit is an Option<usize>; NoLimit stands for None.             *)
NoLimit == -1

-----------------------------------------------------------------------------
(* Constructors.                                                           *)

Unlimited(inner, mode) ==
  [inner |-> inner, mode |-> mode, limit |-> NoLimit]

OnAttempts(attempts, mode) ==
  Unlimited([kind |-> "explicit", attempts |-> attempts], mode)

EveryN(n, mode) ==
  Unlimited([kind |-> "every_n", n |-> IF n = 0 THEN 1 ELSE n], mode)

(* Mutant: the cast truncates, without the rounding before it.             *)
ProbTruncated(p) ==
  CASE p < 0     -> 0
    [] p > 10000 -> 1000
    [] OTHER     -> p \div 10

(* A probability is given in ten-thousandths.  The clamp to [0, 1] keeps a *)
(* NaN and the cast of a NaN to u32 is 0, so a NaN behaves as any p < 0.   *)
(* Digits below are dropped: an f64 whose thousandfold is just below half  *)
(* a unit, as that of 0.5005 is, is the p before the tie.                  *)
ProbThousandths(p) ==
  CASE p < 0     -> 0
    [] p > 10000 -> 1000
    [] OTHER     -> (p + 5) \div 10

SeededRandom(seed, p, mode) ==
  Unlimited([kind |-> "seeded_random", seed |-> seed,
             prob |-> ProbThousandths(p)], mode)

Limit(s, n) == [s EXCEPT !.limit = n]

-----------------------------------------------------------------------------
(* Does the schedule fire on this attempt number?                          *)
Fires(s, attempt) ==
  \/ s.inner.kind = "explicit" /\ attempt \in s.inner.attempts
  \/ s.inner.kind = "every_n" /\ attempt % s.inner.n = 0
  \/ s.inner.kind = "seeded_random" /\ Bucket(s.inner.seed, attempt) < s.inner.prob

(* Mutants: the limit compared with <=; the limit read as always present.  *)
InjectsUpTo(limit, prior) == limit = NoLimit \/ prior <= limit
InjectsBounded(limit, prior) == prior < limit

(* Is a firing attempt that drew this prior count injected, or is the      *)
(* limit used up?                                                          *)
Injects(limit, prior) == limit = NoLimit \/ prior < limit

(* The error a failing attempt returns.                                    *)
InjectedFailure(s, attempt) == [mode |-> s.mode, attempt |-> attempt]

(* Mutant: failure_count() is the raw counter.                             *)
RawCount(limit, k) == Wrap(k)

(* failure_count() when the counter has been incremented k times.          *)
FailureCount(limit, k) ==
  IF limit # NoLimit /\ limit < Wrap(k) THEN limit ELSE Wrap(k)

(* invocation_count() likewise, which no limit clamps.                     *)
InvocationCount(k) == Wrap(k)
=============================================================================
