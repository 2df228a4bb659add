------------------------------ MODULE Recovery ------------------------------
(***************************************************************************)
(* A chaos suite as the README and the tests of the crate write one.  Each *)
(* scenario puts numbered attempts to a FailureSchedule and retries what   *)
(* failed, until its operations are done or its attempts used up, and ends *)
(* in assert_recovered.  ChaosProducer runs the suite and reports it.      *)
(*                                                                         *)
(* The scenarios, whose recovery code may fail, belong to the caller, and  *)
(* the Report to the crate dev_report.                                     *)
(***************************************************************************)
EXTENDS Schedule, SequencesExt

CONSTANT
  Suites   \* [sched, prob, shared, scenarios]: the schedule, the probability
           \* a seeded one was built with, whether the scenarios share it or
           \* build one each, and for each scenario [ops, attempts, expected]

(* What the constructors return and the types of their arguments allow.    *)
ASSUME SuitesAssumption ==
  \A u \in Suites :
    /\ u.sched.mode \in Modes
    /\ u.sched.limit \in Nat \cup {NoLimit}
    /\ u.shared \in BOOLEAN
    /\ u.scenarios \in Seq([ops : Nat, attempts : Nat, expected : Nat])

(* seeded_random was called with the probability, and a bucket is a        *)
(* remainder modulo 1000.                                                  *)
Buckets == 0..999
Seeded(u) == u.sched.inner.kind = "seeded_random"
WellSeeded(u) ==
  /\ u.prob \in Int
  /\ u.sched.inner.prob = ProbThousandths(u.prob)
  /\ \A i \in 1..Len(u.scenarios) : \A a \in 1..u.scenarios[i].attempts :
       Bucket(u.sched.inner.seed, a) \in Buckets
ASSUME SeedsAssumption == \A u \in Suites : Seeded(u) => WellSeeded(u)

VARIABLES
  suite,   \* the suite that runs; never changes
  used,    \* increments of the counters of the schedule in use
  run,     \* the scenario in progress: attempts made, operations done, the
           \*   failures it received, and whether its recovery code worked
  past,    \* the scenarios that ended
  checks,  \* the CheckResults they returned
  report   \* what produce() returned, or NoReport

vars == <<suite, used, run, past, checks, report>>

Unused == [invocations |-> 0, failures |-> 0]
NewRun == [attempt |-> 0, done |-> 0, failed |-> {}, intact |-> TRUE]
NoReport == [producer |-> "none", checks |-> <<>>, finished |-> FALSE]

Init ==
  /\ suite \in Suites
  /\ used = Unused
  /\ run = NewRun
  /\ past = <<>> /\ checks = <<>>
  /\ report = NoReport

Scenario == suite.scenarios[Len(past) + 1]
AllRan == Len(past) = Len(suite.scenarios)

(* The loop over the attempts of a scenario is left.                       *)
Ends(r, s) == r.done = s.ops \/ r.attempt = s.attempts

-----------------------------------------------------------------------------
(* maybe_fail of the next attempt, by the only thread there is.            *)
MaybeFail ==
  LET a == run.attempt + 1
      fires == Fires(suite.sched, a)
  IN  [attempt |-> a,
       used |-> [invocations |-> used.invocations + 1,
                 failures |-> IF fires THEN used.failures + 1 ELSE used.failures],
       failures |-> IF fires /\ Injects(suite.sched.limit, Wrap(used.failures))
                      THEN {InjectedFailure(suite.sched, a)} ELSE {}]

NextAttempt ==
  /\ ~ AllRan
  /\ ~ Ends(run, Scenario)
  /\ used' = MaybeFail.used
  /\ UNCHANGED <<suite, past, checks, report>>

(* Ok: an operation proceeds.                                              *)
Proceed ==
  /\ NextAttempt
  /\ MaybeFail.failures = {}
  /\ run' = [run EXCEPT !.attempt = MaybeFail.attempt, !.done = @ + 1]

(* Err: the recovery path runs, which may leave things as they should be.  *)
Recover ==
  /\ NextAttempt
  /\ MaybeFail.failures # {}
  /\ \E works \in BOOLEAN :
       run' = [run EXCEPT !.attempt = MaybeFail.attempt,
                          !.failed = @ \cup MaybeFail.failures,
                          !.intact = @ /\ works]

(* A CheckResult; the three labels of its evidence are always there.       *)
Check(verdict, severity, tags, expected, actual, ok) ==
  [verdict |-> verdict, severity |-> severity, tags |-> {"chaos", "recovery"} \cup tags,
   expected_failures |-> expected, actual_failures |-> actual,
   final_state_ok |-> IF ok THEN 1 ELSE 0]

(* Mutant: under-injection is tested before the final state.               *)
AssertInjected(expected, actual, ok) ==
  CASE actual < expected         -> Check("warn", "warning", {}, expected, actual, ok)
    [] ~ ok /\ actual >= expected -> Check("fail", "critical", {"regression"}, expected, actual, ok)
    [] OTHER                     -> Check("pass", "none", {}, expected, actual, ok)

AssertRecovered(expected, actual, ok) ==
  CASE ~ ok                      -> Check("fail", "critical", {"regression"}, expected, actual, ok)
    [] ok /\ actual < expected   -> Check("warn", "warning", {}, expected, actual, ok)
    [] OTHER                     -> Check("pass", "none", {}, expected, actual, ok)

(* Mutant: a schedule built anew goes on with the counters of the last.    *)
CountersKept == used

(* The counters of the schedule the next scenario uses.                    *)
CountersOfNext == IF suite.shared THEN used ELSE Unused

(* A scenario ends; its final state is right if every recovery worked and  *)
(* every operation was done.                                               *)
Conclude ==
  /\ ~ AllRan
  /\ Ends(run, Scenario)
  /\ checks' = Append(checks, AssertRecovered(Scenario.expected, Cardinality(run.failed),
                                              run.intact /\ run.done = Scenario.ops))
  /\ past' = Append(past, run)
  /\ run' = NewRun
  /\ used' = CountersOfNext
  /\ UNCHANGED <<suite, report>>

(* The loop that pushes one check after the other on the report.           *)
Pushed(r, new) == [r EXCEPT !.checks = @ \o new]

(* Mutant: the report is returned without a call of finish().              *)
ProduceUnfinished ==
  /\ AllRan
  /\ report = NoReport
  /\ report' = Pushed([NoReport EXCEPT !.producer = "dev-chaos"], checks)
  /\ UNCHANGED <<suite, used, run, past, checks>>

(* produce(): the closure has returned its checks.                         *)
Produce ==
  /\ AllRan
  /\ report = NoReport
  /\ report' = [Pushed([NoReport EXCEPT !.producer = "dev-chaos"], checks)
                  EXCEPT !.finished = TRUE]
  /\ UNCHANGED <<suite, used, run, past, checks>>

Next == Proceed \/ Recover \/ Conclude \/ Produce

(* The suite is ordinary sequential code.                                  *)
Spec == Init /\ [][Next]_vars /\ WF_vars(Next)
-----------------------------------------------------------------------------
(* Properties.                                                             *)

FailedAttempts(r) == { f.attempt : f \in r.failed }

(* The scenarios that used the schedule now in use.                        *)
Sharing == IF suite.shared THEN past ELSE <<>>

(* The failures that runs received and the attempts they made, each with   *)
(* the index of its run.                                                   *)
Received(runs) == UNION { {i} \X runs[i].failed : i \in 1..Len(runs) }
Made(runs) == UNION { {i} \X (1..runs[i].attempt) : i \in 1..Len(runs) }

(* Failures are neither lost nor reported twice, also when scenarios share *)
(* a schedule whose limit was reached in an earlier one: what they were    *)
(* told adds up to failure_count(), and the attempts they made to          *)
(* invocation_count().                                                     *)
NoFailureUnreported ==
  LET runs == Append(Sharing, run)
  IN  /\ FailureCount(suite.sched.limit, used.failures) = Cardinality(Received(runs))
      /\ InvocationCount(used.invocations) = Cardinality(Made(runs))

(* `The same (schedule, attempt) pair always produces the same outcome'    *)
(* (README.md of the crate) holds of a schedule that is built anew, and of *)
(* one without a limit.  If a schedule with a limit is used again, its     *)
(* failures are a beginning of those it had before, and one is missing     *)
(* only once the limit is reached (maybe_fail, limit).                     *)
ReplaysAgree ==
  LET runs == Append(past, run)
  IN  \A i, j \in 1..Len(runs) : i < j =>
        LET common == (1..runs[i].attempt) \cap (1..runs[j].attempt)
            before == FailedAttempts(runs[i]) \cap common
            again == FailedAttempts(runs[j]) \cap common
        IN  /\ again \subseteq before
            /\ \A a \in again, b \in before \ again : a < b
            /\ again # before =>
                 /\ suite.shared /\ suite.sched.limit # NoLimit
                 /\ FailureCount(suite.sched.limit, used.failures) = suite.sched.limit

(* `rounded to the nearest 0.001', `clamped', `NaN never fires' (doc of    *)
(* seeded_random): an attempt fails if its bucket, in ten-thousandths, is  *)
(* at least half a thousandth below the probability.                       *)
FailsByProbability ==
  (Seeded(suite) /\ suite.sched.limit = NoLimit) =>
    \A r \in {run} \cup ToSet(past) :
      FailedAttempts(r) =
        { a \in 1..r.attempt : 10 * Bucket(suite.sched.inner.seed, a) + 5 <= suite.prob }

(* `a few failures to verify recovery, not an indefinite stream' (doc of   *)
(* limit): if the attempts leave room for the operations and the limit, a  *)
(* retrying client whose recovery works does not fail.                     *)
BoundedChaosIsSurvived ==
  \A i \in 1..Len(past) :
    (/\ suite.sched.limit # NoLimit
     /\ suite.sched.limit + suite.scenarios[i].ops <= suite.scenarios[i].attempts
     /\ past[i].intact)
      => checks[i].verdict # "fail"

(* REPS section 4, of the report produce() returns: a scenario that did    *)
(* not recover is a regression however many failures it met; one that did  *)
(* recover passes if its attempts met as many failures as expected, which  *)
(* needs a schedule that fires on them.                                    *)
VerdictsAreTrue ==
  \A i \in 1..Len(report.checks) :
    LET c == report.checks[i]
        recovered == past[i].intact /\ past[i].done = suite.scenarios[i].ops
        fires == { a \in 1..past[i].attempt : Fires(suite.sched, a) }
    IN  /\ (c.verdict = "fail") = ~ recovered
        /\ (c.verdict = "fail") = ("regression" \in c.tags)
        /\ c.verdict = "pass" => suite.scenarios[i].expected <= Cardinality(fires)
        /\ (c.verdict = "warn" /\ suite.sched.limit = NoLimit)
             => Cardinality(fires) < suite.scenarios[i].expected

(* The retry loops are bounded: the suite ends in a finished report with a *)
(* check for every scenario.                                               *)
ReportIsFinished ==
  <>(/\ report.finished /\ report.producer = "dev-chaos"
     /\ Len(report.checks) = Len(suite.scenarios))
=============================================================================
