--------------------------- MODULE FailureSchedule ---------------------------
(***************************************************************************)
(* One FailureSchedule shared by several threads.  Each access to a shared *)
(* atomic is a step of its own.                                            *)
(*                                                                         *)
(* Both counters are AtomicUsize used with Ordering::Relaxed and changed   *)
(* only by fetch_add(1).  A counter is therefore modelled by the number of *)
(* increments made to it; after k of them it holds Wrap(k).  A fetch_add   *)
(* always acts on the last increment, while a load may return any value    *)
(* that is not older than what the loading thread already knows (seen).    *)
(***************************************************************************)
EXTENDS Schedule, FiniteSets

CONSTANTS
  Threads,    \* the threads that share the schedule
  Attempts,   \* the attempt numbers callers pass
  Schedules,  \* the schedules that may be shared
  MaxCalls    \* bound on the number of calls of maybe_fail

ASSUME ThreadsAssumption == IsFiniteSet(Threads)
ASSUME MaxCallsAssumption == MaxCalls \in Nat
ASSUME SchedulesAssumption == \A s \in Schedules : s.limit \in Nat \cup {NoLimit}

VARIABLES
  sched,        \* the shared schedule; never changes
  invocations,  \* increments of the counter `invocations`
  failures,     \* increments of the counter `failures`
  pc,           \* pc[t]: where thread t is in maybe_fail
  attempt,      \* attempt[t]: the argument of t's current firing call
  prior,        \* prior[t]: what t's fetch_add on `failures` found
  seen,         \* seen[t]: latest increment of `failures` t knows of
  observed,     \* observed[t]: result of t's last failure_count()
  (* History variables: they only record what happened.                    *)
  fired,        \* firing calls made
  emitted,      \* calls that returned Err
  errs,         \* errs[t]: calls of thread t that returned Err
  outcomes      \* attempt and result of every call that returned

history == <<fired, emitted, errs, outcomes>>
vars == <<sched, invocations, failures, pc, attempt, prior, seen, observed,
          fired, emitted, errs, outcomes>>

Init ==
  /\ sched \in Schedules
  /\ invocations = 0
  /\ failures = 0
  /\ pc = [t \in Threads |-> "idle"]
  /\ attempt = [t \in Threads |-> 0]
  /\ prior = [t \in Threads |-> 0]
  /\ seen = [t \in Threads |-> 0]
  /\ observed = [t \in Threads |-> 0]
  /\ fired = 0
  /\ emitted = 0
  /\ errs = [t \in Threads |-> 0]
  /\ outcomes = {}

Outcome(a, result) == [attempt |-> a, result |-> result]

(* Did the call of t that drew prior[t] win a failure?                     *)
Wins(t) == Injects(sched.limit, Wrap(prior[t]))

-----------------------------------------------------------------------------
(* maybe_fail: count the invocation; the attempt does not fire: Ok.        *)
PassThrough(t, a) ==
  /\ pc[t] = "idle"
  /\ invocations < MaxCalls
  /\ ~ Fires(sched, a)
  /\ invocations' = invocations + 1
  /\ outcomes' = outcomes \cup {Outcome(a, "ok")}
  /\ UNCHANGED <<sched, failures, pc, attempt, prior, seen, observed,
                 fired, emitted, errs>>

(* maybe_fail: count the invocation; the attempt fires.                    *)
Fire(t, a) ==
  /\ pc[t] = "idle"
  /\ invocations < MaxCalls
  /\ Fires(sched, a)
  /\ invocations' = invocations + 1
  /\ attempt' = [attempt EXCEPT ![t] = a]
  /\ pc' = [pc EXCEPT ![t] = "claim"]
  /\ fired' = fired + 1
  /\ UNCHANGED <<sched, failures, prior, seen, observed, emitted, errs, outcomes>>

(* Mutant: the limit is tested on a load that precedes the increment.      *)
ClaimAfterLoad(t) ==
  /\ pc[t] = "claim"
  /\ failures' = failures + 1
  /\ prior' = [prior EXCEPT ![t] = seen[t]]
  /\ seen' = [seen EXCEPT ![t] = failures']
  /\ pc' = [pc EXCEPT ![t] = "decide"]
  /\ UNCHANGED <<sched, invocations, attempt, observed, history>>

(* Mutant: without a limit the failure is not counted.                     *)
ClaimIfLimited(t) ==
  /\ pc[t] = "claim"
  /\ failures' = IF sched.limit = NoLimit THEN failures ELSE failures + 1
  /\ prior' = [prior EXCEPT ![t] = failures]
  /\ seen' = [seen EXCEPT ![t] = failures']
  /\ pc' = [pc EXCEPT ![t] = "decide"]
  /\ UNCHANGED <<sched, invocations, attempt, observed, history>>

(* Mutant: the incremented count is used but never stored.                 *)
ClaimUnstored(t) ==
  /\ pc[t] = "claim"
  /\ prior' = [prior EXCEPT ![t] = failures]
  /\ seen' = [seen EXCEPT ![t] = failures + 1]
  /\ pc' = [pc EXCEPT ![t] = "decide"]
  /\ UNCHANGED <<sched, invocations, failures, attempt, observed, history>>

(* prior = failures.fetch_add(1)                                           *)
Claim(t) ==
  /\ pc[t] = "claim"
  /\ failures' = failures + 1
  /\ prior' = [prior EXCEPT ![t] = failures]
  /\ seen' = [seen EXCEPT ![t] = failures']
  /\ pc' = [pc EXCEPT ![t] = "decide"]
  /\ UNCHANGED <<sched, invocations, attempt, observed, history>>

(* maybe_fail returns; its local variables are gone.                       *)
Return(t) ==
  /\ pc[t] = "decide"
  /\ pc' = [pc EXCEPT ![t] = "idle"]
  /\ attempt' = [attempt EXCEPT ![t] = 0]
  /\ prior' = [prior EXCEPT ![t] = 0]
  /\ UNCHANGED <<sched, invocations, failures, seen, observed, fired>>

(* A firing call within the limit returns the injected failure.            *)
ReturnErr(t) ==
  /\ Return(t)
  /\ Wins(t)
  /\ emitted' = emitted + 1
  /\ errs' = [errs EXCEPT ![t] = @ + 1]
  /\ outcomes' = outcomes \cup {Outcome(attempt[t], "err")}

(* A firing call past the limit returns Ok.                                *)
ReturnOk(t) ==
  /\ Return(t)
  /\ ~ Wins(t)
  /\ outcomes' = outcomes \cup {Outcome(attempt[t], "ok")}
  /\ UNCHANGED <<emitted, errs>>

(* failure_count(), by a thread that is not inside maybe_fail.             *)
ReadFailureCount(t) ==
  /\ pc[t] = "idle"
  /\ \E k \in seen[t]..failures :
       /\ seen' = [seen EXCEPT ![t] = k]
       /\ observed' = [observed EXCEPT ![t] = FailureCount(sched.limit, k)]
  /\ UNCHANGED <<sched, invocations, failures, pc, attempt, prior, history>>

-----------------------------------------------------------------------------
(* The steps that carry a started call to its return.                      *)
Proceed(t) == Claim(t) \/ ReturnErr(t) \/ ReturnOk(t)

Next ==
  \E t \in Threads :
    \/ \E a \in Attempts : PassThrough(t, a) \/ Fire(t, a)
    \/ Proceed(t)
    \/ ReadFailureCount(t)

Spec == Init /\ [][Next]_vars

(* A thread inside maybe_fail is never blocked and keeps being scheduled.  *)
FairSpec == Spec /\ \A t \in Threads : WF_vars(Proceed(t))
-----------------------------------------------------------------------------
(* Properties.                                                             *)

TypeOK ==
  /\ sched \in Schedules
  /\ invocations \in 0..MaxCalls
  /\ failures \in Nat
  /\ pc \in [Threads -> {"idle", "claim", "decide"}]
  /\ attempt \in [Threads -> Attempts \cup {0}]
  /\ prior \in [Threads -> Nat]
  /\ seen \in [Threads -> Nat]
  /\ \A t \in Threads : seen[t] <= failures
  /\ observed \in [Threads -> Nat]
  /\ fired \in Nat
  /\ emitted \in Nat
  /\ errs \in [Threads -> Nat]
  /\ outcomes \subseteq [attempt : Attempts \cup {0}, result : {"ok", "err"}]

(* The raw counter of failures has not wrapped around usize.               *)
NoWrap == fired <= UsizeMax

Claiming == {t \in Threads : pc[t] = "claim"}
Winners == {t \in Threads : pc[t] = "decide" /\ Wins(t)}

(* Every firing call has incremented the counter or is about to.           *)
ClaimAccounting == failures + Cardinality(Claiming) = fired

(* failure_count() is exactly the failures callers have received plus the  *)
(* ones already won and about to be returned (maybe_fail, failure_count).  *)
EmissionAccounting ==
  NoWrap => emitted + Cardinality(Winners) = FailureCount(sched.limit, failures)

(* `never more than limit failures, even under contention' (comment in     *)
(* maybe_fail): across all threads no more errors are returned than the    *)
(* limit allows.                                                           *)
NeverMoreThanLimit == sched.limit # NoLimit => emitted <= sched.limit

(* `exactly limit callers see prior < limit' (maybe_fail): once no call is *)
(* in progress the errors returned are all the firing calls, up to the     *)
(* limit: no failure is lost to contention, and failure_count says so.     *)
QuiescentCountsExact ==
  (NoWrap /\ \A t \in Threads : pc[t] = "idle") =>
    /\ emitted = IF sched.limit = NoLimit \/ fired < sched.limit
                   THEN fired ELSE sched.limit
    /\ emitted = FailureCount(sched.limit, failures)

(* A call only fails on an attempt the schedule fires on, and without a    *)
(* limit on every one of them, whatever the interleaving (`maybe_fail').   *)
FailuresFollowSchedule ==
  \A o \in outcomes :
    /\ o.result = "err" => Fires(sched, o.attempt)
    /\ sched.limit = NoLimit /\ Fires(sched, o.attempt) => o.result = "err"

(* Relaxed or not, a thread that calls failure_count() after receiving n   *)
(* errors is told of at least n (maybe_fail, failure_count).               *)
OwnFailuresObserved ==
  \A t \in Threads : \A k \in seen[t]..failures :
    errs[t] <= FailureCount(sched.limit, k)

(* Successive results of failure_count() in one thread never decrease,     *)
(* also while the raw counter runs past the limit.                         *)
ObservedCountNeverDecreases ==
  [][\A t \in Threads : observed[t] <= observed'[t]]_vars

-----------------------------------------------------------------------------
(* The failure counter is the abstract budget: a firing call is decided by *)
(* its fetch_add, and failure_count() is what has been granted.            *)
PhaseOf(t) ==
  CASE pc[t] = "idle"   -> "idle"
    [] pc[t] = "claim"  -> "asked"
    [] pc[t] = "decide" -> IF Wins(t) THEN "granted" ELSE "denied"

Budget == INSTANCE LimitedInjector
            WITH limit   <- sched.limit,
                 granted <- FailureCount(sched.limit, failures),
                 phase   <- [t \in Threads |-> PhaseOf(t)]

(* Sharing the schedule is indistinguishable from an atomic budget of      *)
(* failures, and every call is answered (maybe_fail is wait-free).         *)
ImplementsBudget == Budget!FairSpec
=============================================================================
