--------------------------- MODULE RecoveryProofs ---------------------------
(***************************************************************************)
(* Proofs about Recovery, for every set of suites, every hash and every    *)
(* width of the counters.                                                  *)
(***************************************************************************)
EXTENDS Recovery, ChaosIOProofs, FiniteSetTheorems

Runs == [attempt : Nat, done : Nat, failed : SUBSET [mode : Modes, attempt : Nat],
         intact : BOOLEAN]
CheckResults ==
  [verdict : {"fail", "warn", "pass"}, severity : {"critical", "warning", "none"},
   tags : SUBSET {"chaos", "recovery", "regression"},
   expected_failures : Nat, actual_failures : Nat, final_state_ok : {0, 1}]

(* The attempts among the first n that the schedule fires on, and the      *)
(* failures of those.                                                      *)
Firing(sched, n) == { a \in 1..n : Fires(sched, a) }
FiringFailures(sched, n) == { InjectedFailure(sched, a) : a \in Firing(sched, n) }

(* A failure tells the attempt it failed, so there are as many failures    *)
(* as firing attempts, finitely many.                                      *)
LEMMA FiringFinite ==
  ASSUME NEW sched, NEW n \in Nat
  PROVE  /\ IsFiniteSet(Firing(sched, n)) /\ IsFiniteSet(FiringFailures(sched, n))
         /\ Cardinality(FiringFailures(sched, n)) = Cardinality(Firing(sched, n))
<1> DEFINE S == Firing(sched, n)
           T == FiringFailures(sched, n)
           f == [a \in S |-> InjectedFailure(sched, a)]
<1>1. IsFiniteSet(S)
  <2>1. IsFiniteSet(1..n) /\ S \in SUBSET (1..n)
    BY FS_Interval DEF Firing
  <2> HIDE DEF S
  <2>2. QED
    BY <2>1, FS_Subset
<1>2. f \in Bijection(S, T)
  <2>1. f \in [S -> T] /\ \A t \in T : \E a \in S : f[a] = t
    BY DEF FiringFailures
  <2>2. ASSUME NEW a \in S, NEW b \in S, f[a] = f[b]
        PROVE  a = b
    BY <2>2 DEF InjectedFailure
  <2> HIDE DEF S, T, f
  <2>3. QED
    BY <2>1, <2>2 DEF Bijection, Injection, Surjection, IsInjective
<1>3. QED
  BY <1>1, <1>2, FS_Bijection DEF ExistsBijection

(* The attempts that these failures tell are the firing ones.              *)
LEMMA FiringAttempts ==
  ASSUME NEW sched, NEW n
  PROVE  { f.attempt : f \in FiringFailures(sched, n) } = Firing(sched, n)
<1> DEFINE S == Firing(sched, n)
<1>1. \A a : InjectedFailure(sched, a).attempt = a
  BY DEF InjectedFailure
<1>2. ASSUME NEW x
      PROVE  x \in { f.attempt : f \in FiringFailures(sched, n) } <=> x \in S
  <2>1. x \in { f.attempt : f \in FiringFailures(sched, n) }
          <=> \E a \in S : x = InjectedFailure(sched, a).attempt
    BY DEF FiringFailures
  <2> HIDE DEF S
  <2>2. QED
    BY <1>1, <2>1
<1> HIDE DEF S
<1>3. { f.attempt : f \in FiringFailures(sched, n) } = S
  BY <1>2
<1>4. QED
  BY <1>3 DEF S

(* The next attempt adds its failure if it fires, and that is a new one.   *)
LEMMA FiringNext ==
  ASSUME NEW sched, NEW n \in Nat
  PROVE  LET f == InjectedFailure(sched, n + 1)
         IN  /\ FiringFailures(sched, n + 1) =
                  FiringFailures(sched, n) \cup (IF Fires(sched, n + 1) THEN {f} ELSE {})
             /\ f \notin FiringFailures(sched, n)
<1>1. Firing(sched, n + 1) = Firing(sched, n) \cup (IF Fires(sched, n + 1) THEN {n + 1} ELSE {})
  <2>1. 1..(n + 1) = (1..n) \cup {n + 1}
    OBVIOUS
  <2>2. QED
    BY <2>1 DEF Firing
<1>2. n + 1 \notin Firing(sched, n)
  BY DEF Firing
<1>3. QED
  BY <1>1, <1>2 DEF FiringFailures, InjectedFailure

(* What the scenarios received and made when one more has been added.      *)
LEMMA TotalsAppend ==
  ASSUME NEW runs \in Seq(Runs), NEW r \in Runs
  PROVE  /\ Received(Append(runs, r)) = Received(runs) \cup ({Len(runs) + 1} \X r.failed)
         /\ Made(Append(runs, r)) = Made(runs) \cup ({Len(runs) + 1} \X (1..r.attempt))
<1> DEFINE n == Len(runs)
           more == Append(runs, r)
<1>1. /\ n \in Nat /\ Len(more) = n + 1 /\ more[n + 1] = r
      /\ \A i \in 1..n : more[i] = runs[i]
  BY LenProperties, AppendProperties
<1>2. 1..Len(more) = (1..n) \cup {n + 1}
  BY <1>1
<1> HIDE DEF n, more
<1>3. Received(more) = (UNION { {i} \X more[i].failed : i \in 1..n })
                         \cup ({n + 1} \X more[n + 1].failed)
  BY <1>2 DEF Received
<1>4. Made(more) = (UNION { {i} \X (1..more[i].attempt) : i \in 1..n })
                     \cup ({n + 1} \X (1..more[n + 1].attempt))
  BY <1>2 DEF Made
<1>5. /\ { {i} \X more[i].failed : i \in 1..n } = { {i} \X runs[i].failed : i \in 1..n }
      /\ { {i} \X (1..more[i].attempt) : i \in 1..n } =
           { {i} \X (1..runs[i].attempt) : i \in 1..n }
  BY <1>1
<1>6. QED
  BY <1>1, <1>3, <1>4, <1>5 DEF Received, Made, n, more

(* A run of scenario s in progress: every attempt was an operation done or *)
(* a failure received, and the failures received are those of firing       *)
(* attempts, all of them if there is no limit.                             *)
RunOf(r, s) ==
  /\ r \in Runs
  /\ r.attempt <= s.attempts /\ r.done <= s.ops
  /\ r.failed \subseteq FiringFailures(suite.sched, r.attempt)
  /\ suite.sched.limit = NoLimit => r.failed = FiringFailures(suite.sched, r.attempt)
  /\ r.attempt = r.done + Cardinality(r.failed)

CheckOf(r, s) ==
  AssertRecovered(s.expected, Cardinality(r.failed), r.intact /\ r.done = s.ops)

TypeOK ==
  /\ suite \in Suites
  /\ used \in [invocations : Nat, failures : Nat]
  /\ run \in Runs
  /\ past \in Seq(Runs) /\ Len(past) <= Len(suite.scenarios)
  /\ checks \in Seq(CheckResults)
  /\ report \in [producer : {"none", "dev-chaos"}, checks : Seq(CheckResults),
                 finished : BOOLEAN]

(* The inductive invariant: the run in progress is one of the next         *)
(* scenario, the others have ended and were checked, and the report is of  *)
(* all of them.                                                            *)
IInv ==
  /\ TypeOK
  /\ IF AllRan THEN run = NewRun ELSE RunOf(run, Scenario)
  /\ \A i \in 1..Len(past) : /\ RunOf(past[i], suite.scenarios[i])
                            /\ Ends(past[i], suite.scenarios[i])
  /\ Len(checks) = Len(past)
  /\ \A i \in 1..Len(past) : checks[i] = CheckOf(past[i], suite.scenarios[i])
  /\ IF report = NoReport THEN report.checks = <<>>
     ELSE /\ AllRan /\ report.checks = checks
          /\ report.finished /\ report.producer = "dev-chaos"

-----------------------------------------------------------------------------
(* Before its first attempt a scenario has done and received nothing.      *)
LEMMA NewRunOf ==
  ASSUME NEW s \in [ops : Nat, attempts : Nat, expected : Nat]
  PROVE  RunOf(NewRun, s) /\ NewRun \in Runs
<1>1. Firing(suite.sched, 0) = {}
  BY DEF Firing
<1>2. QED
  BY <1>1, FS_EmptySet DEF RunOf, NewRun, Runs, FiringFailures

(* The scenarios are those of the suite, the next one among them.          *)
LEMMA ScenarioType ==
  ASSUME TypeOK
  PROVE  /\ Len(past) \in Nat /\ Len(suite.scenarios) \in Nat
         /\ \A i \in 1..Len(suite.scenarios) :
              suite.scenarios[i] \in [ops : Nat, attempts : Nat, expected : Nat]
         /\ ~ AllRan => /\ Len(past) + 1 <= Len(suite.scenarios)
                        /\ Scenario \in [ops : Nat, attempts : Nat, expected : Nat]
<1>1. suite.scenarios \in Seq([ops : Nat, attempts : Nat, expected : Nat])
  BY SuitesAssumption DEF TypeOK
<1>2. Len(past) \in Nat /\ Len(suite.scenarios) \in Nat /\ Len(past) <= Len(suite.scenarios)
  BY <1>1, LenProperties DEF TypeOK
<1>3. ~ AllRan => Len(past) + 1 \in 1..Len(suite.scenarios)
  BY <1>2 DEF AllRan
<1>4. \A i \in 1..Len(suite.scenarios) :
        suite.scenarios[i] \in [ops : Nat, attempts : Nat, expected : Nat]
  BY <1>1, ElementOfSeq
<1>5. QED
  BY <1>2, <1>3, <1>4 DEF Scenario

(* Does the next attempt fail, and with what?                              *)
NextFails ==
  Fires(suite.sched, run.attempt + 1) /\ Injects(suite.sched.limit, Wrap(used.failures))
NextFailure == InjectedFailure(suite.sched, run.attempt + 1)

(* What an attempt does to the run and to the counters.                    *)
LEMMA AttemptStep ==
  ASSUME TypeOK, RunOf(run, Scenario), Proceed \/ Recover
  PROVE  /\ run' \in Runs /\ run'.attempt = run.attempt + 1
         /\ run'.failed = run.failed \cup (IF NextFails THEN {NextFailure} ELSE {})
         /\ run'.done = IF NextFails THEN run.done ELSE run.done + 1
         /\ NextFailure \notin run.failed
         /\ used'.invocations = used.invocations + 1
         /\ used'.failures = IF Fires(suite.sched, run.attempt + 1) THEN used.failures + 1
                                                                   ELSE used.failures
<1> DEFINE more == IF NextFails THEN {NextFailure} ELSE {}
           done == IF NextFails THEN run.done ELSE run.done + 1
<1>1. /\ run \in Runs /\ run.attempt \in Nat /\ run.done \in Nat /\ suite.sched.mode \in Modes
      /\ run = [attempt |-> run.attempt, done |-> run.done,
                failed |-> run.failed, intact |-> run.intact]
  BY SuitesAssumption DEF TypeOK, Runs
<1>2. /\ MaybeFail.attempt = run.attempt + 1 /\ MaybeFail.failures = more
      /\ used' = MaybeFail.used
  BY DEF MaybeFail, NextFails, NextFailure, Proceed, Recover, NextAttempt
<1>3. PICK works \in BOOLEAN :
        run' = [attempt |-> run.attempt + 1, done |-> done,
                failed |-> run.failed \cup more, intact |-> run.intact /\ works]
  <2> HIDE DEF NextFails
  <2>1. CASE Proceed
    <3>1. run' = [attempt |-> run.attempt + 1, done |-> done,
                  failed |-> run.failed \cup more, intact |-> run.intact /\ TRUE]
      BY <1>1, <1>2, <2>1 DEF Proceed, Runs
    <3>2. QED
      BY <3>1
  <2>2. CASE Recover
    BY <1>1, <1>2, <2>2 DEF Recover
  <2>3. QED
    BY <2>1, <2>2
<1>4. NextFailure \notin run.failed
  BY <1>1, FiringNext DEF RunOf, NextFailure
<1>5. more \subseteq [mode : Modes, attempt : Nat] /\ done \in Nat
  BY <1>1 DEF NextFailure, InjectedFailure
<1>6. run' \in Runs
  <2> HIDE DEF more, done
  <2>1. QED
    BY <1>1, <1>3, <1>5 DEF Runs
<1>7. QED
  BY <1>2, <1>3, <1>4, <1>6 DEF MaybeFail

(* A run stays one of its scenario when it makes another attempt.          *)
LEMMA AttemptExtendsRun ==
  ASSUME TypeOK, RunOf(run, Scenario), Proceed \/ Recover
  PROVE  RunOf(run', Scenario)
<1> DEFINE sched == suite.sched
           n == run.attempt
<1>1. /\ n \in Nat /\ run.done \in Nat /\ sched.limit \in Nat \cup {NoLimit}
      /\ run.failed \subseteq FiringFailures(sched, n)
      /\ sched.limit = NoLimit => run.failed = FiringFailures(sched, n)
      /\ n = run.done + Cardinality(run.failed)
      /\ n <= Scenario.attempts /\ run.done <= Scenario.ops
  BY SuitesAssumption DEF TypeOK, RunOf, Runs
<1>2. /\ Scenario.ops \in Nat /\ Scenario.attempts \in Nat
      /\ n # Scenario.attempts /\ run.done # Scenario.ops
  <2>1. ~ AllRan /\ ~ Ends(run, Scenario)
    BY DEF Proceed, Recover, NextAttempt
  <2>2. Scenario \in [ops : Nat, attempts : Nat, expected : Nat]
    BY <2>1, ScenarioType
  <2>3. QED
    BY <2>1, <2>2 DEF Ends
<1>3. IsFiniteSet(run.failed) /\ Cardinality(run.failed) \in Nat
  BY <1>1, FiringFinite, FS_Subset, FS_CardinalityType
<1>4. Cardinality(run'.failed) = IF NextFails THEN Cardinality(run.failed) + 1
                                              ELSE Cardinality(run.failed)
  <2>1. /\ run'.failed = IF NextFails THEN run.failed \cup {NextFailure} ELSE run.failed
        /\ NextFailure \notin run.failed
    BY AttemptStep
  <2>2. Cardinality(run.failed \cup {NextFailure}) = Cardinality(run.failed) + 1
    BY <1>3, <2>1, FS_AddElement
  <2>3. QED
    BY <2>1, <2>2
<1>5. FiringFailures(sched, n + 1) =
        FiringFailures(sched, n) \cup (IF Fires(sched, n + 1) THEN {NextFailure} ELSE {})
  BY <1>1, FiringNext DEF NextFailure
<1>6. /\ NextFails => Fires(sched, n + 1)
      /\ sched.limit = NoLimit => (NextFails <=> Fires(sched, n + 1))
  BY DEF NextFails, Injects
<1> HIDE DEF sched, n
<1>7. /\ run'.attempt <= Scenario.attempts /\ run'.done <= Scenario.ops
      /\ run'.attempt = run'.done + Cardinality(run'.failed)
  BY <1>1, <1>2, <1>3, <1>4, AttemptStep DEF n
<1>8. /\ run'.failed \subseteq FiringFailures(sched, n + 1)
      /\ sched.limit = NoLimit => run'.failed = FiringFailures(sched, n + 1)
  BY <1>1, <1>5, <1>6, AttemptStep
<1>9. QED
  BY <1>7, <1>8, AttemptStep DEF RunOf, sched, n

(* The failures of a run are finitely many, no more than the attempts the  *)
(* schedule fires on, and all of these without a limit.                    *)
LEMMA RunFacts ==
  ASSUME NEW r, NEW s, RunOf(r, s)
  PROVE  LET fires == Firing(suite.sched, r.attempt)
         IN  /\ IsFiniteSet(r.failed) /\ Cardinality(r.failed) \in Nat
             /\ Cardinality(fires) \in Nat /\ Cardinality(r.failed) <= Cardinality(fires)
             /\ suite.sched.limit = NoLimit => Cardinality(r.failed) = Cardinality(fires)
<1> DEFINE sched == suite.sched
           n == r.attempt
           fires == Firing(sched, n)
           all == FiringFailures(sched, n)
<1>1. /\ n \in Nat /\ r.failed \in SUBSET all
      /\ sched.limit = NoLimit => r.failed = all
  BY DEF RunOf, Runs
<1>2. IsFiniteSet(fires) /\ IsFiniteSet(all) /\ Cardinality(all) = Cardinality(fires)
  <2> HIDE DEF n, sched
  <2>1. QED
    BY <1>1, FiringFinite
<1> HIDE DEF fires, all
<1>3. IsFiniteSet(r.failed) /\ Cardinality(r.failed) <= Cardinality(all)
  BY <1>1, <1>2, FS_Subset
<1>4. Cardinality(fires) \in Nat /\ Cardinality(r.failed) \in Nat
  BY <1>2, <1>3, FS_CardinalityType
<1>5. QED
  BY <1>1, <1>2, <1>3, <1>4 DEF fires

(* A scenario that ended returns a CheckResult.                            *)
LEMMA CheckType ==
  ASSUME NEW r, NEW s \in [ops : Nat, attempts : Nat, expected : Nat], RunOf(r, s)
  PROVE  CheckOf(r, s) \in CheckResults
<1>1. Cardinality(r.failed) \in Nat /\ s.expected \in Nat
  BY RunFacts
<1>2. QED
  BY <1>1 DEF CheckOf, AssertRecovered, Check, CheckResults

(* A step of a scenario keeps the invariant.                               *)
LEMMA AttemptKeeps ==
  ASSUME IInv, Proceed \/ Recover
  PROVE  IInv'
<1>1. /\ ~ AllRan /\ used' = MaybeFail.used
      /\ UNCHANGED <<suite, past, checks, report>>
  BY DEF Proceed, Recover, NextAttempt
<1>2. RunOf(run', Scenario)
  BY <1>1, AttemptExtendsRun DEF IInv
<1>3. used' \in [invocations : Nat, failures : Nat]
  BY <1>1 DEF IInv, TypeOK, MaybeFail
<1>4. TypeOK'
  BY <1>1, <1>2, <1>3 DEF IInv, TypeOK, RunOf
<1>5. (~ AllRan)' /\ RunOf(run, Scenario)'
  BY <1>1, <1>2 DEF AllRan, Scenario, RunOf
<1>6. (\A i \in 1..Len(past) : /\ RunOf(past[i], suite.scenarios[i])
                              /\ Ends(past[i], suite.scenarios[i])
                              /\ checks[i] = CheckOf(past[i], suite.scenarios[i]))'
  BY <1>1 DEF IInv, RunOf, Ends, CheckOf
<1>7. QED
  BY <1>1, <1>4, <1>5, <1>6 DEF IInv, NoReport

(* The end of a scenario keeps the invariant.                              *)
LEMMA ConcludeKeeps ==
  ASSUME IInv, Conclude
  PROVE  IInv'
<1> DEFINE n == Len(past)
           c == CheckOf(run, Scenario)
<1>1. /\ ~ AllRan /\ Ends(run, Scenario) /\ RunOf(run, Scenario)
      /\ checks' = Append(checks, c) /\ past' = Append(past, run)
      /\ run' = NewRun /\ used' = CountersOfNext
      /\ UNCHANGED <<suite, report>> /\ report = NoReport /\ report.checks = <<>>
  BY DEF Conclude, IInv, CheckOf
<1>2. /\ n \in Nat /\ n + 1 <= Len(suite.scenarios)
      /\ Scenario \in [ops : Nat, attempts : Nat, expected : Nat]
      /\ Scenario = suite.scenarios[n + 1]
      /\ \A i \in 1..Len(suite.scenarios) :
           suite.scenarios[i] \in [ops : Nat, attempts : Nat, expected : Nat]
  BY <1>1, ScenarioType DEF IInv, Scenario
<1>3. c \in CheckResults /\ run \in Runs
  BY <1>1, <1>2, CheckType DEF RunOf
<1>4. /\ past' \in Seq(Runs) /\ Len(past') = n + 1 /\ past'[n + 1] = run
      /\ \A i \in 1..n : past'[i] = past[i]
  BY <1>1, <1>3, AppendProperties DEF IInv, TypeOK
<1>5. /\ checks' \in Seq(CheckResults) /\ Len(checks') = n + 1 /\ checks'[n + 1] = c
      /\ \A i \in 1..n : checks'[i] = checks[i]
  <2>1. checks \in Seq(CheckResults) /\ Len(checks) = n
    BY DEF IInv, TypeOK
  <2> HIDE DEF c, n
  <2>2. QED
    BY <1>1, <1>3, <2>1, AppendProperties
<1>6. used' \in [invocations : Nat, failures : Nat]
  BY <1>1 DEF CountersOfNext, Unused, IInv, TypeOK
<1>7. NewRun \in Runs
  BY <1>2, NewRunOf
<1>8. TypeOK'
  BY <1>1, <1>2, <1>4, <1>5, <1>6, <1>7 DEF IInv, TypeOK
<1>9. IF AllRan' THEN run' = NewRun ELSE RunOf(run, Scenario)'
  <2>1. ASSUME ~ AllRan'
        PROVE  RunOf(run, Scenario)'
    <3>1. n + 2 \in 1..Len(suite.scenarios)
      <4>1. Len(suite.scenarios) \in Nat
        BY ScenarioType DEF IInv
      <4>2. n + 1 # Len(suite.scenarios)
        BY <1>1, <1>4, <2>1 DEF AllRan
      <4>3. QED
        BY <1>2, <4>1, <4>2
    <3>2. Scenario' = suite.scenarios[n + 2]
      BY <1>1, <1>2, <1>4 DEF Scenario
    <3>3. RunOf(NewRun, Scenario')
      BY <1>2, <3>1, <3>2, NewRunOf
    <3>4. QED
      BY <1>1, <3>3 DEF RunOf
  <2>2. QED
    BY <1>1, <2>1
<1>10. ASSUME NEW i \in 1..(n + 1)
       PROVE  /\ RunOf(past[i], suite.scenarios[i])'
              /\ Ends(past[i], suite.scenarios[i])'
              /\ checks'[i] = CheckOf(past[i], suite.scenarios[i])'
  <2>1. CASE i = n + 1
    BY <1>1, <1>2, <1>4, <1>5, <2>1 DEF RunOf, Ends, CheckOf
  <2>2. CASE i # n + 1
    <3>1. i \in 1..n
      BY <1>2, <2>2
    <3>2. /\ RunOf(past[i], suite.scenarios[i]) /\ Ends(past[i], suite.scenarios[i])
          /\ checks[i] = CheckOf(past[i], suite.scenarios[i])
      BY <3>1 DEF IInv
    <3>3. past'[i] = past[i] /\ checks'[i] = checks[i] /\ suite' = suite
      BY <1>1, <1>4, <1>5, <3>1
    <3>4. QED
      BY <3>2, <3>3 DEF RunOf, Ends, CheckOf
  <2>3. QED
    BY <2>1, <2>2
<1>11. report' = NoReport' /\ report'.checks = <<>>
  BY <1>1 DEF NoReport
<1>12. QED
  BY <1>4, <1>5, <1>8, <1>9, <1>10, <1>11 DEF IInv

(* Writing the report keeps the invariant.                                 *)
LEMMA ProduceKeeps ==
  ASSUME IInv, Produce
  PROVE  IInv'
<1>1. /\ AllRan /\ checks \in Seq(CheckResults)
      /\ UNCHANGED <<suite, used, run, past, checks>>
      /\ report' = [producer |-> "dev-chaos", checks |-> <<>> \o checks, finished |-> TRUE]
  BY DEF Produce, Pushed, NoReport, IInv, TypeOK
<1>2. <<>> \o checks = checks
  BY <1>1, ConcatEmptySeq
<1>3. /\ report'.checks = checks' /\ report'.finished /\ report'.producer = "dev-chaos"
      /\ report' # NoReport' /\ AllRan'
  BY <1>1, <1>2 DEF NoReport, AllRan
<1>4. TypeOK'
  BY <1>1, <1>2 DEF IInv, TypeOK
<1>5. (\A i \in 1..Len(past) : /\ RunOf(past[i], suite.scenarios[i])
                              /\ Ends(past[i], suite.scenarios[i])
                              /\ checks[i] = CheckOf(past[i], suite.scenarios[i]))'
  BY <1>1 DEF IInv, RunOf, Ends, CheckOf
<1>6. QED
  BY <1>1, <1>3, <1>4, <1>5 DEF IInv, NewRun

(* At every moment of a suite each scenario is accounted for: attempts are *)
(* operations done or failures received, the failures are those the        *)
(* schedule fires on, and every scenario that ended left the verdict that  *)
(* assert_recovered gives it, which the report repeats.                    *)
THEOREM Invariant == Spec => []IInv
<1>1. Init => IInv
  <2> SUFFICES ASSUME Init
               PROVE  IInv
    OBVIOUS
  <2>1. /\ suite \in Suites /\ used = Unused /\ run = NewRun
        /\ past = <<>> /\ checks = <<>> /\ report = NoReport
    BY DEF Init
  <2>2. Len(past) = 0 /\ past \in Seq(Runs) /\ checks \in Seq(CheckResults)
    BY <2>1, EmptySeq
  <2>3. run \in Runs /\ NewRun \in Runs
    BY <2>1, FS_EmptySet DEF NewRun, Runs
  <2>4. Len(suite.scenarios) \in Nat
    BY <2>1, SuitesAssumption, LenProperties
  <2>5. TypeOK
    BY <2>1, <2>2, <2>3, <2>4 DEF TypeOK, Unused, NoReport
  <2>6. ~ AllRan => RunOf(run, Scenario)
    BY <2>1, <2>5, ScenarioType, NewRunOf
  <2>7. report.checks = <<>> /\ Len(checks) = Len(past) /\ 1..Len(past) = {}
    BY <2>1, <2>2 DEF NoReport
  <2>8. QED
    BY <2>1, <2>5, <2>6, <2>7 DEF IInv
<1>2. IInv /\ [Next]_vars => IInv'
  <2> SUFFICES ASSUME IInv, [Next]_vars
               PROVE  IInv'
    OBVIOUS
  <2>1. CASE Proceed \/ Recover
    BY <2>1, AttemptKeeps
  <2>2. CASE Conclude
    BY <2>2, ConcludeKeeps
  <2>3. CASE Produce
    BY <2>3, ProduceKeeps
  <2>4. CASE UNCHANGED vars
    BY <2>4 DEF vars, IInv, TypeOK, AllRan, Scenario, RunOf, Ends, CheckOf, NoReport, NewRun
  <2>5. QED
    BY <2>1, <2>2, <2>3, <2>4 DEF Next
<1>3. QED
  BY <1>1, <1>2, PTL DEF Spec

(* The safety part of ReportIsFinished: a report that was returned is      *)
(* finished and has one check for every scenario (ChaosProducer::produce). *)
THEOREM ReportComplete ==
  Spec => [](report # NoReport => /\ report.finished /\ report.producer = "dev-chaos"
                                  /\ Len(report.checks) = Len(suite.scenarios))
<1>1. IInv => (report # NoReport => /\ report.finished /\ report.producer = "dev-chaos"
                                    /\ Len(report.checks) = Len(suite.scenarios))
  BY DEF IInv, AllRan
<1>2. QED
  BY <1>1, Invariant, PTL

(* A step of a suite makes one more attempt of the scenario in progress,   *)
(* within the attempts it has; or ends it, which leaves one scenario less; *)
(* or returns the report, once.                                            *)
Advances ==
  \/ /\ past' = past /\ checks' = checks /\ report' = report /\ ~ AllRan
     /\ run'.attempt = run.attempt + 1 /\ run'.attempt <= Scenario.attempts
  \/ /\ Len(past') = Len(past) + 1 /\ Len(past') <= Len(suite.scenarios)
     /\ Len(checks') = Len(past')
     /\ \A i \in 1..Len(past) : past'[i] = past[i] /\ checks'[i] = checks[i]
     /\ report' = report /\ report = NoReport
  \/ /\ report = NoReport /\ report' # NoReport
     /\ past' = past /\ checks' = checks /\ run' = run /\ AllRan

(* The argument for termination behind ReportIsFinished: whatever fires    *)
(* and whether or not recovery works, a suite that does not stand still    *)
(* comes closer to its report, and no verdict once given changes.          *)
THEOREM SuiteAdvances == Spec => [][Advances]_vars
<1>1. IInv /\ [Next]_vars => [Advances]_vars
  <2> SUFFICES ASSUME IInv, [Next]_vars
               PROVE  [Advances]_vars
    OBVIOUS
  <2>1. CASE Proceed \/ Recover
    <3>1. ~ AllRan /\ past' = past /\ checks' = checks /\ report' = report
      BY <2>1 DEF Proceed, Recover, NextAttempt
    <3>2. RunOf(run, Scenario) /\ TypeOK
      BY <3>1 DEF IInv
    <3>3. run'.attempt = run.attempt + 1 /\ run'.attempt <= Scenario.attempts
      BY <2>1, <3>2, AttemptStep, AttemptExtendsRun DEF RunOf
    <3>4. QED
      BY <3>1, <3>3 DEF Advances
  <2>2. CASE Conclude
    <3>1. /\ ~ AllRan /\ report' = report /\ run \in Runs /\ past \in Seq(Runs)
          /\ past' = Append(past, run)
          /\ checks \in Seq(CheckResults) /\ Len(checks) = Len(past)
      BY <2>2 DEF Conclude, IInv, TypeOK
    <3>2. checks' = Append(checks, CheckOf(run, Scenario)) /\ CheckOf(run, Scenario) \in CheckResults
      <4>1. RunOf(run, Scenario) /\ Scenario \in [ops : Nat, attempts : Nat, expected : Nat]
        BY <3>1, ScenarioType DEF IInv
      <4>2. QED
        BY <2>2, <4>1, CheckType DEF Conclude, CheckOf
    <3>3. /\ Len(past) \in Nat /\ Len(past') = Len(past) + 1 /\ Len(checks') = Len(past) + 1
          /\ \A i \in 1..Len(past) : past'[i] = past[i] /\ checks'[i] = checks[i]
      BY <3>1, <3>2, AppendProperties, LenProperties
    <3>4. Len(past) + 1 <= Len(suite.scenarios)
      BY <3>1, ScenarioType DEF IInv
    <3>5. report = NoReport
      BY <3>1 DEF IInv
    <3>6. QED
      BY <3>1, <3>3, <3>4, <3>5 DEF Advances
  <2>3. CASE Produce
    <3>1. report'.finished
      BY <2>3 DEF Produce, Pushed, NoReport
    <3>2. QED
      BY <2>3, <3>1 DEF Produce, Advances, NoReport
  <2>4. CASE UNCHANGED vars
    BY <2>4
  <2>5. QED
    BY <2>1, <2>2, <2>3, <2>4 DEF Next
<1>2. QED
  BY <1>1, Invariant, PTL DEF Spec

(* REPS section 4 in the report produce() returns: a scenario fails        *)
(* exactly if it did not recover, passes only if its schedule fired as     *)
(* often as expected, and without a limit warns only if it fired less      *)
(* often (assert_recovered, ChaosProducer::produce).                       *)
THEOREM VerdictsTrue == Spec => []VerdictsAreTrue
<1>1. IInv => VerdictsAreTrue
  <2> SUFFICES ASSUME IInv, NEW i \in 1..Len(report.checks)
               PROVE  LET c == report.checks[i]
                          recovered == past[i].intact /\ past[i].done = suite.scenarios[i].ops
                          fires == { a \in 1..past[i].attempt : Fires(suite.sched, a) }
                      IN  /\ (c.verdict = "fail") = ~ recovered
                          /\ (c.verdict = "fail") = ("regression" \in c.tags)
                          /\ c.verdict = "pass" => suite.scenarios[i].expected <= Cardinality(fires)
                          /\ (c.verdict = "warn" /\ suite.sched.limit = NoLimit)
                               => Cardinality(fires) < suite.scenarios[i].expected
    BY DEF VerdictsAreTrue
  <2> DEFINE r == past[i]
             s == suite.scenarios[i]
             fires == Firing(suite.sched, r.attempt)
             met == Cardinality(r.failed)
             recovered == r.intact /\ r.done = s.ops
             c == report.checks[i]
  <2>1. i \in 1..Len(past) /\ report.checks = checks
    <3>1. CASE report = NoReport
      <4>1. Len(report.checks) = 0
        BY <3>1, EmptySeq DEF IInv
      <4>2. QED
        BY <4>1
    <3>2. CASE report # NoReport
      BY <3>2 DEF IInv
    <3>3. QED
      BY <3>1, <3>2
  <2>2. c = CheckOf(r, s) /\ RunOf(r, s)
    BY <2>1 DEF IInv
  <2>3. s \in [ops : Nat, attempts : Nat, expected : Nat]
    <3>1. i \in 1..Len(suite.scenarios)
      BY <2>1, ScenarioType DEF IInv, TypeOK
    <3>2. QED
      BY <3>1, ScenarioType DEF IInv
  <2>4. /\ met \in Nat /\ Cardinality(fires) \in Nat /\ met <= Cardinality(fires)
        /\ suite.sched.limit = NoLimit => met = Cardinality(fires)
        /\ s.expected \in Nat
    BY <2>2, <2>3, RunFacts
  <2>5. recovered \in BOOLEAN
    BY <2>2 DEF RunOf, Runs
  <2>6. c = AssertRecovered(s.expected, met, recovered)
    BY <2>2 DEF CheckOf
  <2> HIDE DEF c, met, recovered, fires
  <2>7. /\ (c.verdict = "fail") = ~ recovered
        /\ (c.verdict = "fail") = ("regression" \in c.tags)
        /\ c.verdict = "pass" => ~ (met < s.expected)
        /\ c.verdict = "warn" => met < s.expected
    BY <2>5, <2>6 DEF AssertRecovered, Check
  <2>8. /\ c.verdict = "pass" => s.expected <= Cardinality(fires)
        /\ (c.verdict = "warn" /\ suite.sched.limit = NoLimit) => Cardinality(fires) < s.expected
    BY <2>4, <2>7
  <2>9. QED
    BY <2>7, <2>8 DEF c, recovered, fires, Firing
<1>2. QED
  BY <1>1, Invariant, PTL

(* The probability a seeded schedule keeps is above a bucket exactly when  *)
(* the one it was built with is at least half a thousandth above it.       *)
LEMMA RoundedProbability ==
  ASSUME NEW b \in Nat, b <= 999, NEW p \in Int
  PROVE  b < ProbThousandths(p) <=> 10 * b + 5 <= p
<1>1. CASE p < 0
  BY <1>1 DEF ProbThousandths
<1>2. CASE p > 10000
  BY <1>2 DEF ProbThousandths
<1>3. CASE 0 <= p /\ p <= 10000
  <2>1. ProbThousandths(p) = (p + 5) \div 10
    BY <1>3 DEF ProbThousandths
  <2>2. b < (p + 5) \div 10 <=> 10 * (b + 1) <= p + 5
    BY <1>3
  <2>3. QED
    BY <2>1, <2>2
<1>4. QED
  BY <1>1, <1>2, <1>3

(* A schedule built with probability p fires on the attempts of that       *)
(* bucket.                                                                 *)
LEMMA SeededFires ==
  ASSUME NEW sched, sched.inner.kind = "seeded_random",
         NEW p \in Int, sched.inner.prob = ProbThousandths(p),
         NEW a, Bucket(sched.inner.seed, a) \in Buckets
  PROVE  Fires(sched, a) <=> 10 * Bucket(sched.inner.seed, a) + 5 <= p
<1>1. Fires(sched, a) <=> Bucket(sched.inner.seed, a) < ProbThousandths(p)
  BY DEF Fires
<1>2. Bucket(sched.inner.seed, a) \in Nat /\ Bucket(sched.inner.seed, a) <= 999
  BY DEF Buckets
<1>3. QED
  BY <1>1, <1>2, RoundedProbability

(* `rounded to the nearest 0.001', `clamped', `NaN never fires': without a *)
(* limit a seeded schedule fails exactly the attempts whose bucket is      *)
(* below the rounded probability, in any scenario (seeded_random, fires,   *)
(* maybe_fail).                                                            *)
THEOREM ProbabilityDecides == Spec => []FailsByProbability
<1>1. IInv => FailsByProbability
  <2> SUFFICES ASSUME IInv, Seeded(suite), suite.sched.limit = NoLimit,
                      NEW r \in {run} \cup ToSet(past)
               PROVE  FailedAttempts(r) =
                        { a \in 1..r.attempt :
                            10 * Bucket(suite.sched.inner.seed, a) + 5 <= suite.prob }
    BY DEF FailsByProbability
  <2>1. suite \in Suites
    BY DEF IInv, TypeOK
  <2>2. WellSeeded(suite)
    BY <2>1, SeedsAssumption
  <2>3. \/ r = NewRun
        \/ \E i \in 1..Len(suite.scenarios) : RunOf(r, suite.scenarios[i])
    <3>1. CASE r = run
      <4>1. ~ AllRan => Len(past) + 1 \in 1..Len(suite.scenarios)
        BY ScenarioType DEF IInv
      <4>2. QED
        BY <3>1, <4>1 DEF IInv, Scenario
    <3>2. CASE r \in ToSet(past)
      <4>1. PICK i \in 1..Len(past) : r = past[i]
        <5>1. DOMAIN past = 1..Len(past)
          BY LenProperties DEF IInv, TypeOK
        <5>2. QED
          BY <3>2, <5>1 DEF ToSet
      <4>2. i \in 1..Len(suite.scenarios)
        BY <4>1, ScenarioType DEF IInv, TypeOK
      <4>3. QED
        BY <4>1, <4>2 DEF IInv
    <3>3. QED
      BY <3>1, <3>2
  <2>4. CASE r = NewRun
    BY <2>4 DEF FailedAttempts, NewRun
  <2>5. ASSUME NEW i \in 1..Len(suite.scenarios), RunOf(r, suite.scenarios[i])
        PROVE  FailedAttempts(r) =
                 { a \in 1..r.attempt :
                     10 * Bucket(suite.sched.inner.seed, a) + 5 <= suite.prob }
    <3> DEFINE n == r.attempt
    <3>1. /\ n \in Nat /\ n <= suite.scenarios[i].attempts
          /\ r.failed = FiringFailures(suite.sched, n)
      BY <2>5 DEF RunOf, Runs
    <3>2. FailedAttempts(r) = Firing(suite.sched, n)
      BY <3>1, FiringAttempts DEF FailedAttempts
    <3>3. ASSUME NEW a \in 1..n
          PROVE  Fires(suite.sched, a) <=>
                   10 * Bucket(suite.sched.inner.seed, a) + 5 <= suite.prob
      <4>1. a \in 1..suite.scenarios[i].attempts
        <5>1. suite.scenarios[i].attempts \in Nat
          BY ScenarioType DEF IInv
        <5>2. QED
          BY <3>1, <5>1
      <4>2. Bucket(suite.sched.inner.seed, a) \in Buckets
        BY <2>2, <4>1 DEF WellSeeded
      <4>3. QED
        BY <2>2, <4>2, SeededFires DEF WellSeeded, Seeded
    <3>4. QED
      BY <3>2, <3>3 DEF Firing
  <2>6. QED
    BY <2>3, <2>4, <2>5
<1>2. QED
  BY <1>1, Invariant, PTL

-----------------------------------------------------------------------------
(* The counter of attempts has not wrapped around.                         *)
NoWrap == used.invocations <= UsizeMax

(* The counters agree with what the scenarios that share them know.        *)
CountInv ==
  LET runs == Append(Sharing, run)
  IN  /\ used.failures <= used.invocations
      /\ IsFiniteSet(Made(runs)) /\ used.invocations = Cardinality(Made(runs))
      /\ IsFiniteSet(Received(runs))
      /\ NoWrap => FailureCount(suite.sched.limit, used.failures) = Cardinality(Received(runs))

(* An attempt adds itself, and its failure if it has one, to the totals of *)
(* the scenarios before it and of its own; both are new there.             *)
LEMMA AttemptTotals ==
  ASSUME IInv, Proceed \/ Recover, NEW runs \in Seq(Runs)
  PROVE  LET n == Len(runs) + 1
         IN  /\ Received(Append(runs, run')) =
                  Received(Append(runs, run))
                    \cup (IF NextFails THEN {<<n, NextFailure>>} ELSE {})
             /\ Made(Append(runs, run')) =
                  Made(Append(runs, run)) \cup {<<n, run.attempt + 1>>}
             /\ <<n, NextFailure>> \notin Received(Append(runs, run))
             /\ <<n, run.attempt + 1>> \notin Made(Append(runs, run))
<1> DEFINE n == Len(runs) + 1
           a == run.attempt + 1
<1>1. TypeOK /\ RunOf(run, Scenario) /\ run \in Runs /\ run.attempt \in Nat
  BY DEF Proceed, Recover, NextAttempt, IInv, RunOf, Runs
<1>2. /\ run' \in Runs /\ run'.attempt = a /\ NextFailure \notin run.failed
      /\ run'.failed = run.failed \cup (IF NextFails THEN {NextFailure} ELSE {})
  BY <1>1, AttemptStep
<1>3. Len(runs) \in Nat /\ n \notin 1..Len(runs)
  BY LenProperties
<1>4. /\ \A x : <<n, x>> \notin Received(runs)
      /\ \A x : <<n, x>> \notin Made(runs)
  <2> HIDE DEF n
  <2>1. QED
    BY <1>3 DEF Received, Made
<1>5. /\ Received(Append(runs, run)) = Received(runs) \cup ({n} \X run.failed)
      /\ Made(Append(runs, run)) = Made(runs) \cup ({n} \X (1..run.attempt))
      /\ Received(Append(runs, run')) = Received(runs) \cup ({n} \X run'.failed)
      /\ Made(Append(runs, run')) = Made(runs) \cup ({n} \X (1..a))
  BY <1>1, <1>2, TotalsAppend
<1>6. 1..a = (1..run.attempt) \cup {a} /\ a \notin 1..run.attempt
  BY <1>1
<1> HIDE DEF n, a
<1>7. {n} \X (1..a) = ({n} \X (1..run.attempt)) \cup {<<n, a>>}
  BY <1>6
<1>8. {n} \X run'.failed = ({n} \X run.failed)
                              \cup (IF NextFails THEN {<<n, NextFailure>>} ELSE {})
  BY <1>2
<1>9. <<n, NextFailure>> \notin Received(Append(runs, run)) /\ <<n, a>> \notin Made(Append(runs, run))
  BY <1>2, <1>4, <1>5, <1>6
<1>10. QED
  BY <1>5, <1>7, <1>8, <1>9 DEF n, a

(* A new scenario has added nothing to the totals yet.                     *)
LEMMA NewRunTotals ==
  ASSUME NEW runs \in Seq(Runs)
  PROVE  /\ Received(Append(runs, NewRun)) = Received(runs)
         /\ Made(Append(runs, NewRun)) = Made(runs)
         /\ Received(<<>>) = {} /\ Made(<<>>) = {}
<1>1. NewRun \in Runs /\ NewRun.failed = {} /\ 1..NewRun.attempt = {}
  BY DEF NewRun, Runs
<1>2. Received(<<>>) = {} /\ Made(<<>>) = {}
  <2>1. 1..Len(<<>>) = {}
    BY EmptySeq
  <2>2. QED
    BY <2>1 DEF Received, Made
<1>3. /\ Received(Append(runs, NewRun)) = Received(runs) \cup ({Len(runs) + 1} \X {})
      /\ Made(Append(runs, NewRun)) = Made(runs) \cup ({Len(runs) + 1} \X {})
  BY <1>1, TotalsAppend
<1>4. QED
  BY <1>2, <1>3

(* Until the counter wraps, an attempt raises failure_count() by one       *)
(* exactly when it fails.                                                  *)
LEMMA AttemptCounted ==
  ASSUME TypeOK, RunOf(run, Scenario), Proceed \/ Recover,
         used.failures < UsizeMax
  PROVE  FailureCount(suite.sched.limit, used'.failures) =
           IF NextFails THEN FailureCount(suite.sched.limit, used.failures) + 1
                        ELSE FailureCount(suite.sched.limit, used.failures)
<1> DEFINE limit == suite.sched.limit
           k == used.failures
           fires == Fires(suite.sched, run.attempt + 1)
<1>1. limit \in Nat \cup {NoLimit} /\ k \in Nat /\ k + 1 <= UsizeMax
  BY SuitesAssumption, UsizeMaxAssumption DEF TypeOK
<1>2. FailureCount(limit, k + 1) = IF Injects(limit, Wrap(k)) THEN FailureCount(limit, k) + 1
                                                             ELSE FailureCount(limit, k)
  <2> HIDE DEF limit, k
  <2>1. QED
    BY <1>1, FailureCountStep
<1>3. used'.failures = IF fires THEN k + 1 ELSE k
  BY AttemptStep
<1>4. NextFails <=> fires /\ Injects(limit, Wrap(k))
  BY DEF NextFails
<1> HIDE DEF limit, k, fires
<1>5. QED
  BY <1>2, <1>3, <1>4 DEF limit, k

(* An attempt keeps the counters in agreement with the scenarios.          *)
LEMMA AttemptKeepsCounts ==
  ASSUME IInv, CountInv, Proceed \/ Recover
  PROVE  CountInv'
<1> DEFINE runs == Append(Sharing, run)
           n == Len(Sharing) + 1
           limit == suite.sched.limit
<1>1. /\ TypeOK /\ RunOf(run, Scenario) /\ Sharing \in Seq(Runs) /\ UsizeMax \in Nat
      /\ limit \in Nat \cup {NoLimit}
      /\ used.failures \in Nat /\ used.invocations \in Nat
  BY SuitesAssumption, UsizeMaxAssumption, EmptySeq
     DEF Proceed, Recover, NextAttempt, IInv, TypeOK, Sharing
<1>2. Sharing' = Sharing /\ suite' = suite /\ runs' = Append(Sharing, run')
  BY DEF Proceed, Recover, NextAttempt, Sharing
<1>3. /\ used'.invocations = used.invocations + 1
      /\ used'.failures \in {used.failures, used.failures + 1}
  BY <1>1, AttemptStep
<1>4. /\ used.failures <= used.invocations
      /\ IsFiniteSet(Made(runs)) /\ used.invocations = Cardinality(Made(runs))
      /\ IsFiniteSet(Received(runs))
      /\ NoWrap => FailureCount(limit, used.failures) = Cardinality(Received(runs))
  BY DEF CountInv
<1>5. /\ Received(runs') = Received(runs) \cup (IF NextFails THEN {<<n, NextFailure>>} ELSE {})
      /\ Made(runs') = Made(runs) \cup {<<n, run.attempt + 1>>}
      /\ <<n, NextFailure>> \notin Received(runs)
      /\ <<n, run.attempt + 1>> \notin Made(runs)
  BY <1>1, <1>2, AttemptTotals
<1> HIDE DEF runs, n, limit
<1>6. used'.failures <= used'.invocations
  BY <1>1, <1>3, <1>4
<1>7. IsFiniteSet(Made(runs')) /\ used'.invocations = Cardinality(Made(runs'))
  BY <1>3, <1>4, <1>5, FS_AddElement
<1>8. /\ IsFiniteSet(Received(runs'))
      /\ Cardinality(Received(runs')) = IF NextFails THEN Cardinality(Received(runs)) + 1
                                                    ELSE Cardinality(Received(runs))
  <2>1. /\ IsFiniteSet(Received(runs) \cup {<<n, NextFailure>>})
        /\ Cardinality(Received(runs) \cup {<<n, NextFailure>>}) = Cardinality(Received(runs)) + 1
    BY <1>4, <1>5, FS_AddElement
  <2>2. QED
    BY <1>4, <1>5, <2>1
<1>9. ASSUME NoWrap'
      PROVE  FailureCount(limit, used'.failures) = Cardinality(Received(runs'))
  <2>1. NoWrap /\ used.failures < UsizeMax
    BY <1>1, <1>3, <1>4, <1>9 DEF NoWrap
  <2>2. FailureCount(limit, used'.failures) = IF NextFails THEN FailureCount(limit, used.failures) + 1
                                                          ELSE FailureCount(limit, used.failures)
    BY <1>1, <2>1, AttemptCounted DEF limit
  <2>3. QED
    BY <1>4, <1>8, <2>1, <2>2
<1>10. QED
  BY <1>2, <1>6, <1>7, <1>8, <1>9 DEF CountInv, runs, limit

(* The end of a scenario keeps it so: the counters stay with those that    *)
(* share them, or the next scenario starts with new ones.                  *)
LEMMA ConcludeKeepsCounts ==
  ASSUME IInv, CountInv, Conclude
  PROVE  CountInv'
<1> DEFINE runs == Append(Sharing, run)
<1>1. /\ past' = Append(past, run) /\ run' = NewRun /\ used' = CountersOfNext /\ suite' = suite
      /\ past \in Seq(Runs) /\ run \in Runs /\ suite.sched.limit \in Nat \cup {NoLimit}
  BY SuitesAssumption DEF Conclude, IInv, TypeOK
<1>2. Append(past, run) \in Seq(Runs) /\ <<>> \in Seq(Runs)
  BY <1>1, AppendProperties, EmptySeq
<1>3. CASE suite.shared
  <2>1. runs = Append(past, run) /\ runs' = Append(Append(past, run), NewRun) /\ used' = used
    BY <1>1, <1>3 DEF Sharing, CountersOfNext
  <2>2. Received(runs') = Received(runs) /\ Made(runs') = Made(runs)
    BY <1>2, <2>1, NewRunTotals
  <2>3. QED
    BY <1>1, <2>1, <2>2 DEF CountInv, NoWrap
<1>4. CASE ~ suite.shared
  <2>1. runs' = Append(<<>>, NewRun) /\ used' = Unused
    BY <1>1, <1>4 DEF Sharing, CountersOfNext
  <2>2. Received(runs') = {} /\ Made(runs') = {}
    BY <1>2, <2>1, NewRunTotals
  <2>3. FailureCount(suite.sched.limit, 0) = 0
    BY <1>1, FailureCountZero
  <2>4. used'.failures = 0 /\ used'.invocations = 0
    BY <2>1 DEF Unused
  <2> HIDE DEF runs
  <2>5. QED
    BY <1>1, <2>2, <2>3, <2>4, FS_EmptySet DEF CountInv, runs
<1>5. QED
  BY <1>3, <1>4

(* The counters count the attempts made and, until the counter of attempts *)
(* wraps, the failures received, over all the scenarios that share them.   *)
THEOREM Counting == Spec => []CountInv
<1>1. Init => CountInv
  <2> SUFFICES ASSUME Init
               PROVE  CountInv
    OBVIOUS
  <2> DEFINE runs == Append(Sharing, run)
  <2>1. /\ runs = Append(<<>>, NewRun)
        /\ used.failures = 0 /\ used.invocations = 0
        /\ suite.sched.limit \in Nat \cup {NoLimit}
    BY SuitesAssumption DEF Init, Sharing, Unused
  <2>2. Received(runs) = {} /\ Made(runs) = {}
    BY <2>1, EmptySeq, NewRunTotals
  <2>3. FailureCount(suite.sched.limit, 0) = 0
    BY <2>1, FailureCountZero
  <2>4. FailureCount(suite.sched.limit, used.failures) = 0
    BY <2>1, <2>3
  <2> HIDE DEF runs
  <2>5. IsFiniteSet(Received(runs)) /\ Cardinality(Received(runs)) = 0
    BY <2>2, FS_EmptySet
  <2>6. IsFiniteSet(Made(runs)) /\ Cardinality(Made(runs)) = 0
    BY <2>2, FS_EmptySet
  <2>7. QED
    BY <2>1, <2>4, <2>5, <2>6 DEF CountInv, runs
<1>2. IInv /\ CountInv /\ [Next]_vars => CountInv'
  <2> SUFFICES ASSUME IInv, CountInv, [Next]_vars
               PROVE  CountInv'
    OBVIOUS
  <2>1. CASE Proceed \/ Recover
    BY <2>1, AttemptKeepsCounts
  <2>2. CASE Conclude
    BY <2>2, ConcludeKeepsCounts
  <2>3. CASE Produce \/ UNCHANGED vars
    BY <2>3 DEF Produce, vars, CountInv, Sharing, NoWrap
  <2>4. QED
    BY <2>1, <2>2, <2>3 DEF Next
<1>3. QED
  BY <1>1, <1>2, Invariant, PTL DEF Spec

(* Until the counter of attempts wraps, failure_count() is the number of   *)
(* failures the scenarios that share a schedule received, and              *)
(* invocation_count() the number of attempts they made, also when the      *)
(* limit was reached in an earlier one (maybe_fail, failure_count).        *)
THEOREM FailuresReported == Spec => [](NoWrap => NoFailureUnreported)
<1>1. IInv /\ CountInv => (NoWrap => NoFailureUnreported)
  <2> SUFFICES ASSUME IInv, CountInv, NoWrap
               PROVE  NoFailureUnreported
    OBVIOUS
  <2>1. Wrap(used.invocations) = used.invocations
    BY WrapSmall, UsizeMaxAssumption DEF NoWrap, IInv, TypeOK
  <2>2. QED
    BY <2>1 DEF CountInv, NoFailureUnreported, InvocationCount
<1>2. QED
  BY <1>1, Invariant, Counting, PTL

(* No scenario that ended met more failures than the limit.                *)
LimitInv ==
  suite.sched.limit # NoLimit =>
    \A i \in 1..Len(past) : Cardinality(past[i].failed) <= suite.sched.limit

(* Until the counter of attempts wraps, the limit holds for a scenario.    *)
LEMMA LimitOfRun ==
  ASSUME IInv, CountInv, NoWrap, suite.sched.limit # NoLimit, Conclude
  PROVE  Cardinality(run.failed) <= suite.sched.limit
<1> DEFINE runs == Append(Sharing, run)
           n == Len(Sharing) + 1
           limit == suite.sched.limit
           one == { <<n, f>> : f \in run.failed }
<1>1. /\ Sharing \in Seq(Runs) /\ run \in Runs /\ RunOf(run, Scenario)
      /\ limit \in Nat /\ used.failures \in Nat
  BY SuitesAssumption, EmptySeq DEF Conclude, IInv, TypeOK, Sharing
<1>2. IsFiniteSet(Received(runs)) /\ Cardinality(Received(runs)) = FailureCount(limit, used.failures)
  BY DEF CountInv
<1>3. FailureCount(limit, used.failures) <= limit /\ FailureCount(limit, used.failures) \in Nat
  <2> DEFINE k == used.failures
  <2>1. k \in Nat
    BY <1>1
  <2> HIDE DEF limit, k
  <2>2. Wrap(k) \in Nat
    BY <2>1, WrapType, UsizeMaxAssumption
  <2>3. FailureCount(limit, k) <= limit /\ FailureCount(limit, k) \in Nat
    BY <1>1, <2>2 DEF FailureCount, NoLimit
  <2>4. QED
    BY <2>3 DEF k
<1>4. one \in SUBSET Received(runs)
  BY <1>1, TotalsAppend
<1>5. [f \in run.failed |-> <<n, f>>] \in Bijection(run.failed, one)
  BY DEF Bijection, Injection, Surjection, IsInjective
<1>6. IsFiniteSet(run.failed) /\ Cardinality(run.failed) \in Nat
  BY <1>1, RunFacts
<1> HIDE DEF runs, one, limit, n
<1>7. Cardinality(one) = Cardinality(run.failed)
  BY <1>5, <1>6, FS_Bijection DEF ExistsBijection
<1>8. Cardinality(one) <= Cardinality(Received(runs))
  BY <1>2, <1>4, FS_Subset
<1>9. QED
  BY <1>1, <1>2, <1>3, <1>6, <1>7, <1>8 DEF limit

(* While the counter does not wrap, no scenario that ended met more        *)
(* failures than the limit.                                                *)
LEMMA LimitKept == Spec /\ []NoWrap => []LimitInv
<1>1. Init => LimitInv
  BY EmptySeq DEF Init, LimitInv
<1>2. IInv /\ CountInv /\ NoWrap /\ LimitInv /\ [Next]_vars => LimitInv'
  <2> SUFFICES ASSUME IInv, CountInv, NoWrap, LimitInv, [Next]_vars
               PROVE  LimitInv'
    OBVIOUS
  <2>1. CASE Conclude
    <3>1. /\ past \in Seq(Runs) /\ run \in Runs /\ past' = Append(past, run) /\ suite' = suite
      BY <2>1 DEF Conclude, IInv, TypeOK
    <3>2. /\ Len(past) \in Nat /\ Len(past') = Len(past) + 1 /\ past'[Len(past) + 1] = run
          /\ \A i \in 1..Len(past) : past'[i] = past[i]
      BY <3>1, AppendProperties, LenProperties
    <3>3. suite.sched.limit # NoLimit => Cardinality(run.failed) <= suite.sched.limit
      BY <2>1, LimitOfRun
    <3>4. ASSUME NEW i \in 1..Len(past'), suite.sched.limit # NoLimit
          PROVE  Cardinality(past'[i].failed) <= suite.sched.limit
      <4>1. i \in 1..Len(past) \/ i = Len(past) + 1
        BY <3>2
      <4>2. QED
        BY <3>2, <3>3, <3>4, <4>1 DEF LimitInv
    <3>5. QED
      BY <3>1, <3>4 DEF LimitInv
  <2>2. CASE Proceed \/ Recover \/ Produce \/ UNCHANGED vars
    BY <2>2 DEF Proceed, Recover, NextAttempt, Produce, vars, LimitInv
  <2>3. QED
    BY <2>1, <2>2 DEF Next
<1>3. QED
  BY <1>1, <1>2, Invariant, Counting, PTL DEF Spec

(* `a few failures to verify recovery, not an indefinite stream': while    *)
(* the counter of attempts does not wrap, a scenario whose attempts leave  *)
(* room for its operations and for the limit, and whose recovery works,    *)
(* does not fail, whatever the schedule and whether or not it is shared    *)
(* (maybe_fail, assert_recovered).                                         *)
THEOREM BoundedChaosSurvived == Spec /\ []NoWrap => []BoundedChaosIsSurvived
<1>1. IInv /\ LimitInv => BoundedChaosIsSurvived
  <2> SUFFICES ASSUME IInv, LimitInv, NEW i \in 1..Len(past),
                      suite.sched.limit # NoLimit,
                      suite.sched.limit + suite.scenarios[i].ops <= suite.scenarios[i].attempts,
                      past[i].intact
               PROVE  checks[i].verdict # "fail"
    BY DEF BoundedChaosIsSurvived
  <2> DEFINE r == past[i]
             s == suite.scenarios[i]
             met == Cardinality(r.failed)
  <2>1. RunOf(r, s) /\ Ends(r, s) /\ checks[i] = CheckOf(r, s)
    BY DEF IInv
  <2>2. s.ops \in Nat /\ s.attempts \in Nat /\ suite.sched.limit \in Nat
    <3>1. TypeOK /\ i \in 1..Len(suite.scenarios)
      BY ScenarioType DEF IInv, TypeOK
    <3>2. s \in [ops : Nat, attempts : Nat, expected : Nat]
      BY <3>1, ScenarioType
    <3>3. suite.sched.limit \in Nat
      BY <3>1, SuitesAssumption DEF TypeOK
    <3>4. QED
      BY <3>2, <3>3
  <2>3. /\ met \in Nat /\ met <= suite.sched.limit
        /\ r.done \in Nat /\ r.done <= s.ops /\ r.attempt = r.done + met
    BY <2>1, RunFacts DEF LimitInv, RunOf, Runs
  <2>4. r.done = s.ops
    <3>1. r.done = s.ops \/ r.attempt = s.attempts
      BY <2>1 DEF Ends
    <3> HIDE DEF r, s, met
    <3>2. suite.sched.limit + s.ops <= s.attempts
      BY DEF s
    <3>3. QED
      BY <2>2, <2>3, <3>1, <3>2
  <2>5. checks[i] = AssertRecovered(s.expected, met, TRUE)
    BY <2>1, <2>4 DEF CheckOf
  <2>6. QED
    BY <2>5 DEF AssertRecovered, Check
<1>2. QED
  BY <1>1, Invariant, LimitKept, PTL

-----------------------------------------------------------------------------
(* Replays.                                                                *)

(* Has the limit of a schedule room for another failure?                   *)
HasRoom(sched, failures) == sched.limit = NoLimit \/ failures < sched.limit

(* A scenario failed the first of its firing attempts; it failed them all. *)
FirstOnes(sched, r) ==
  /\ FailedAttempts(r) \subseteq Firing(sched, r.attempt)
  /\ \A a \in FailedAttempts(r), b \in Firing(sched, r.attempt) :
       b < a => b \in FailedAttempts(r)
Complete(sched, r) == FailedAttempts(r) = Firing(sched, r.attempt)

(* What a new schedule fails of its first n attempts.                      *)
Met(sched, n) ==
  { a \in Firing(sched, n) : HasRoom(sched, Cardinality(Firing(sched, a - 1))) }

(* A shared schedule with room for a failure has failed all it fired on;   *)
(* that is why a failure of a replay is one of the scenario replayed.      *)
SharedReplays(sched, failures, runs) ==
  /\ \A i \in 1..Len(runs) : FirstOnes(sched, runs[i])
  /\ HasRoom(sched, failures) => \A i \in 1..Len(runs) : Complete(sched, runs[i])
  /\ \A i, j \in 1..Len(runs) :
       i < j => FailedAttempts(runs[j]) \cap (1..runs[i].attempt)
                  \subseteq FailedAttempts(runs[i])

(* A schedule that is not shared has counted the attempts of the last      *)
(* scenario alone.                                                         *)
FreshReplays(sched, failures, runs) ==
  /\ failures = Cardinality(Firing(sched, runs[Len(runs)].attempt))
  /\ \A i \in 1..Len(runs) : FailedAttempts(runs[i]) = Met(sched, runs[i].attempt)

ReplayInv ==
  LET runs == Append(past, run)
  IN  IF suite.shared THEN SharedReplays(suite.sched, used.failures, runs)
                      ELSE FreshReplays(suite.sched, used.failures, runs)

(* The scenarios that ended, and one more.                                 *)
LEMMA RunsAppend ==
  ASSUME NEW runs \in Seq(Runs), NEW r \in Runs
  PROVE  LET more == Append(runs, r)
         IN  /\ Len(runs) \in Nat /\ Len(more) = Len(runs) + 1
             /\ more[Len(runs) + 1] = r
             /\ \A i \in 1..Len(runs) : more[i] = runs[i]
             /\ \A i \in 1..Len(more) : i \in 1..Len(runs) \/ i = Len(runs) + 1
BY AppendProperties, LenProperties

(* A scenario that has made no attempt has failed none.                    *)
LEMMA NewRunReplays ==
  /\ FailedAttempts(NewRun) = {} /\ NewRun.attempt = 0 /\ NewRun \in Runs
  /\ Firing(suite.sched, 0) = {} /\ Cardinality(Firing(suite.sched, 0)) = 0
  /\ Met(suite.sched, 0) = {}
<1>1. Firing(suite.sched, 0) = {}
  BY DEF Firing
<1>2. QED
  BY <1>1, FS_EmptySet DEF FailedAttempts, NewRun, Runs, Met

(* What an attempt adds to the failed and to the firing attempts of its    *)
(* scenario, and until the counter wraps what makes it fail.               *)
LEMMA AttemptReplays ==
  ASSUME IInv, CountInv, NoWrap', Proceed \/ Recover
  PROVE  LET a == run.attempt + 1
             fires == Fires(suite.sched, a)
         IN  /\ run \in Runs /\ run' \in Runs /\ past \in Seq(Runs)
             /\ run.attempt \in Nat /\ run'.attempt = a
             /\ suite' = suite /\ past' = past
             /\ FailedAttempts(run') =
                  FailedAttempts(run) \cup (IF NextFails THEN {a} ELSE {})
             /\ Firing(suite.sched, a) =
                  Firing(suite.sched, run.attempt) \cup (IF fires THEN {a} ELSE {})
             /\ NextFails <=> fires /\ HasRoom(suite.sched, used.failures)
             /\ used.failures \in Nat
             /\ used'.failures = IF fires THEN used.failures + 1 ELSE used.failures
<1> DEFINE a == run.attempt + 1
           fires == Fires(suite.sched, a)
<1>1. /\ TypeOK /\ RunOf(run, Scenario) /\ run \in Runs /\ run.attempt \in Nat
      /\ past \in Seq(Runs) /\ suite' = suite /\ past' = past
      /\ used.failures \in Nat /\ used.invocations \in Nat
  BY DEF Proceed, Recover, NextAttempt, IInv, TypeOK, RunOf, Runs
<1>2. /\ run' \in Runs /\ run'.attempt = a
      /\ run'.failed = run.failed \cup (IF NextFails THEN {NextFailure} ELSE {})
      /\ used'.invocations = used.invocations + 1
      /\ used'.failures = IF fires THEN used.failures + 1 ELSE used.failures
  BY <1>1, AttemptStep
<1>3. FailedAttempts(run') = FailedAttempts(run) \cup (IF NextFails THEN {a} ELSE {})
  <2>1. NextFailure.attempt = a
    BY DEF NextFailure, InjectedFailure
  <2> HIDE DEF a
  <2>2. QED
    BY <1>2, <2>1 DEF FailedAttempts
<1>4. Firing(suite.sched, a) =
        Firing(suite.sched, run.attempt) \cup (IF fires THEN {a} ELSE {})
  <2>1. 1..a = (1..run.attempt) \cup {a}
    BY <1>1
  <2> HIDE DEF a
  <2>2. QED
    BY <2>1 DEF Firing
<1>5. NextFails <=> fires /\ HasRoom(suite.sched, used.failures)
  <2>1. used.failures <= UsizeMax
    BY <1>1, <1>2, UsizeMaxAssumption DEF CountInv, NoWrap
  <2>2. Wrap(used.failures) = used.failures
    BY <1>1, <2>1, WrapSmall
  <2>3. QED
    BY <2>2 DEF NextFails, HasRoom, Injects
<1>6. QED
  BY <1>1, <1>2, <1>3, <1>4, <1>5

(* An attempt on a shared schedule: one that fails is one that the         *)
(* scenarios before it also failed, if they made it.                       *)
LEMMA AttemptKeepsShared ==
  ASSUME IInv, CountInv, NoWrap', Proceed \/ Recover,
         SharedReplays(suite.sched, used.failures, Append(past, run))
  PROVE  SharedReplays(suite.sched, used'.failures, Append(past, run'))
<1> DEFINE n == Len(past) + 1
           old == Append(past, run)
           new == Append(past, run')
           a == run.attempt + 1
           sched == suite.sched
           fires == Fires(sched, a)
<1>1. /\ run \in Runs /\ run' \in Runs /\ past \in Seq(Runs)
      /\ run.attempt \in Nat /\ run'.attempt = a
      /\ suite' = suite /\ past' = past
      /\ FailedAttempts(run') = FailedAttempts(run) \cup (IF NextFails THEN {a} ELSE {})
      /\ Firing(sched, a) = Firing(sched, run.attempt) \cup (IF fires THEN {a} ELSE {})
      /\ NextFails <=> fires /\ HasRoom(sched, used.failures)
      /\ used.failures \in Nat
      /\ used'.failures = IF fires THEN used.failures + 1 ELSE used.failures
  BY AttemptReplays
<1>2. /\ Len(past) \in Nat /\ Len(old) = n /\ Len(new) = n
      /\ old[n] = run /\ new[n] = run'
      /\ \A i \in 1..Len(past) : old[i] = past[i] /\ new[i] = past[i]
      /\ \A i \in 1..n : i \in 1..Len(past) \/ i = n
  BY <1>1, RunsAppend
<1>3. /\ \A i \in 1..n : FirstOnes(sched, old[i])
      /\ HasRoom(sched, used.failures) => \A i \in 1..n : Complete(sched, old[i])
      /\ \A i, j \in 1..n :
           i < j => FailedAttempts(old[j]) \cap (1..old[i].attempt)
                      \subseteq FailedAttempts(old[i])
  BY <1>2 DEF SharedReplays
<1>4. n \in 1..n /\ 1..Len(past) \subseteq 1..n
  BY <1>2
<1>5. FirstOnes(sched, run) /\ (HasRoom(sched, used.failures) => Complete(sched, run))
  BY <1>2, <1>3, <1>4
<1>6. /\ \A b \in FailedAttempts(run) : b \in Firing(sched, run.attempt)
      /\ \A b \in Firing(sched, run.attempt) : b \in Nat /\ b < a
  BY <1>1, <1>5 DEF FirstOnes, Firing
<1>7. NextFails => FailedAttempts(run') = Firing(sched, a)
  BY <1>1, <1>5 DEF Complete
<1> HIDE DEF sched, fires, a, n, old, new
<1>8. FirstOnes(sched, run')
  <2>1. FailedAttempts(run') \subseteq Firing(sched, a)
    BY <1>1, <1>6
  <2>2. ASSUME NEW c \in FailedAttempts(run'), NEW b \in Firing(sched, a), b < c
        PROVE  b \in FailedAttempts(run')
    <3>1. CASE NextFails
      BY <1>7, <3>1
    <3>2. CASE ~ NextFails
      <4>1. c \in FailedAttempts(run) /\ c \in Nat /\ c < a
        BY <1>1, <1>6, <3>2
      <4>2. b \in Firing(sched, run.attempt)
        BY <1>1, <2>2, <4>1 DEF a
      <4>3. QED
        BY <1>1, <1>5, <2>2, <4>1, <4>2 DEF FirstOnes, sched
    <3>3. QED
      BY <3>1, <3>2
  <2>3. QED
    BY <1>1, <2>1, <2>2 DEF FirstOnes, sched
<1>9. ASSUME HasRoom(sched, used'.failures)
      PROVE  HasRoom(sched, used.failures) /\ Complete(sched, run')
  <2>1. HasRoom(sched, used.failures)
    <3>1. sched.limit \in Nat \cup {NoLimit}
      BY SuitesAssumption DEF IInv, TypeOK, sched
    <3>2. QED
      BY <1>1, <1>9, <3>1 DEF HasRoom, sched
  <2>2. FailedAttempts(run') = Firing(sched, a)
    BY <1>1, <1>5, <2>1 DEF Complete, sched
  <2>3. QED
    BY <1>1, <2>1, <2>2 DEF Complete, sched
<1>10. ASSUME NEW i \in 1..Len(past)
       PROVE  FailedAttempts(run') \cap (1..past[i].attempt)
                \subseteq FailedAttempts(past[i])
  <2>1. i \in 1..n /\ i < n
    BY <1>2 DEF n
  <2>2. FailedAttempts(run) \cap (1..past[i].attempt) \subseteq FailedAttempts(past[i])
    BY <1>2, <1>3, <1>4, <2>1
  <2>3. ASSUME NextFails, a \in 1..past[i].attempt
        PROVE  a \in FailedAttempts(past[i])
    <3>1. Complete(sched, past[i])
      BY <1>1, <1>2, <1>3, <2>1, <2>3
    <3>2. a \in Firing(sched, past[i].attempt)
      BY <1>1, <2>3 DEF Firing, fires
    <3>3. QED
      BY <3>1, <3>2 DEF Complete, sched
  <2>4. QED
    BY <1>1, <2>2, <2>3
<1>11. \A i \in 1..n : /\ FirstOnes(sched, new[i])
                       /\ HasRoom(sched, used'.failures) => Complete(sched, new[i])
  BY <1>2, <1>3, <1>8, <1>9
<1>12. ASSUME NEW i \in 1..n, NEW j \in 1..n, i < j
       PROVE  FailedAttempts(new[j]) \cap (1..new[i].attempt)
                \subseteq FailedAttempts(new[i])
  <2>1. i \in 1..Len(past)
    BY <1>2, <1>12 DEF n
  <2>2. CASE j = n
    BY <1>2, <1>10, <2>1, <2>2
  <2>3. CASE j # n
    BY <1>2, <1>3, <1>12, <2>1, <2>3
  <2>4. QED
    BY <2>2, <2>3
<1>13. QED
  BY <1>2, <1>11, <1>12 DEF SharedReplays, new, sched

(* An attempt on a schedule that is not shared: it fails if the firing     *)
(* attempts of its own scenario before it leave room.                      *)
LEMMA AttemptKeepsFresh ==
  ASSUME IInv, CountInv, NoWrap', Proceed \/ Recover,
         FreshReplays(suite.sched, used.failures, Append(past, run))
  PROVE  FreshReplays(suite.sched, used'.failures, Append(past, run'))
<1> DEFINE n == Len(past) + 1
           old == Append(past, run)
           new == Append(past, run')
           a == run.attempt + 1
           sched == suite.sched
           fires == Fires(sched, a)
<1>1. /\ run \in Runs /\ run' \in Runs /\ past \in Seq(Runs)
      /\ run.attempt \in Nat /\ run'.attempt = a
      /\ suite' = suite /\ past' = past
      /\ FailedAttempts(run') = FailedAttempts(run) \cup (IF NextFails THEN {a} ELSE {})
      /\ Firing(sched, a) = Firing(sched, run.attempt) \cup (IF fires THEN {a} ELSE {})
      /\ NextFails <=> fires /\ HasRoom(sched, used.failures)
      /\ used'.failures = IF fires THEN used.failures + 1 ELSE used.failures
  BY AttemptReplays
<1>2. /\ Len(past) \in Nat /\ Len(old) = n /\ Len(new) = n
      /\ old[n] = run /\ new[n] = run'
      /\ \A i \in 1..Len(past) : old[i] = past[i] /\ new[i] = past[i]
      /\ \A i \in 1..n : i \in 1..Len(past) \/ i = n
  BY <1>1, RunsAppend
<1>3. /\ used.failures = Cardinality(Firing(sched, run.attempt))
      /\ \A i \in 1..n : FailedAttempts(old[i]) = Met(sched, old[i].attempt)
  BY <1>2 DEF FreshReplays
<1>4. FailedAttempts(run) = Met(sched, run.attempt)
  BY <1>2, <1>3
<1>5. Met(sched, a) = Met(sched, run.attempt) \cup (IF NextFails THEN {a} ELSE {})
  <2>1. a - 1 = run.attempt
    BY <1>1
  <2> HIDE DEF a, sched, fires
  <2>2. QED
    BY <1>1, <1>3, <2>1 DEF Met, HasRoom, sched
<1>6. used'.failures = Cardinality(Firing(sched, a))
  <2>1. IsFiniteSet(Firing(sched, run.attempt))
    <3> HIDE DEF sched
    <3>1. QED
      BY <1>1, FiringFinite
  <2>2. a \notin Firing(sched, run.attempt)
    BY <1>1 DEF Firing
  <2> HIDE DEF a, sched, fires
  <2>3. Cardinality(Firing(sched, run.attempt) \cup {a}) =
          Cardinality(Firing(sched, run.attempt)) + 1
    BY <2>1, <2>2, FS_AddElement
  <2>4. QED
    BY <1>1, <1>3, <2>3
<1> HIDE DEF a, n, old, new, sched, fires
<1>7. \A i \in 1..n : FailedAttempts(new[i]) = Met(sched, new[i].attempt)
  <2>1. FailedAttempts(run') = Met(sched, run'.attempt)
    BY <1>1, <1>4, <1>5
  <2>2. QED
    BY <1>2, <1>3, <2>1
<1>8. QED
  BY <1>1, <1>2, <1>6, <1>7 DEF FreshReplays, new, sched

(* The next scenario has failed nothing yet, and goes on with the counters *)
(* or has new ones.                                                        *)
LEMMA ConcludeKeepsReplays ==
  ASSUME IInv, ReplayInv, Conclude
  PROVE  ReplayInv'
<1> DEFINE old == Append(past, run)
           new == Append(old, NewRun)
           n == Len(old)
<1>1. /\ past' = old /\ run' = NewRun /\ used' = CountersOfNext /\ suite' = suite
      /\ past \in Seq(Runs) /\ run \in Runs
  BY DEF Conclude, IInv, TypeOK
<1>2. old \in Seq(Runs) /\ NewRun \in Runs
  BY <1>1, AppendProperties, NewRunReplays
<1>3. Append(past, run)' = new
  BY <1>1
<1> HIDE DEF old
<1>4. /\ n \in Nat /\ Len(new) = n + 1 /\ new[n + 1] = NewRun
      /\ \A i \in 1..n : new[i] = old[i]
      /\ \A i \in 1..(n + 1) : i \in 1..n \/ i = n + 1
  BY <1>2, RunsAppend
<1> HIDE DEF new, n
<1>5. /\ FailedAttempts(NewRun) = {} /\ NewRun.attempt = 0
      /\ Firing(suite.sched, 0) = {} /\ Cardinality(Firing(suite.sched, 0)) = 0
      /\ Met(suite.sched, 0) = {}
  BY NewRunReplays
<1>6. FirstOnes(suite.sched, NewRun) /\ Complete(suite.sched, NewRun)
  BY <1>5 DEF FirstOnes, Complete
<1>7. CASE suite.shared
  <2>1. used' = used
    BY <1>1, <1>7 DEF CountersOfNext
  <2>2. /\ \A i \in 1..n : FirstOnes(suite.sched, old[i])
        /\ HasRoom(suite.sched, used.failures) => \A i \in 1..n : Complete(suite.sched, old[i])
        /\ \A i, j \in 1..n :
             i < j => FailedAttempts(old[j]) \cap (1..old[i].attempt)
                        \subseteq FailedAttempts(old[i])
    BY <1>7 DEF ReplayInv, SharedReplays, old, n
  <2>3. \A i \in 1..(n + 1) :
          /\ FirstOnes(suite.sched, new[i])
          /\ HasRoom(suite.sched, used.failures) => Complete(suite.sched, new[i])
    BY <1>4, <1>6, <2>2
  <2>4. ASSUME NEW i \in 1..(n + 1), NEW j \in 1..(n + 1), i < j
        PROVE  FailedAttempts(new[j]) \cap (1..new[i].attempt)
                 \subseteq FailedAttempts(new[i])
    <3>1. CASE j = n + 1
      BY <1>4, <1>5, <3>1
    <3>2. CASE j # n + 1
      BY <1>4, <2>2, <2>4, <3>2
    <3>3. QED
      BY <3>1, <3>2
  <2>5. QED
    BY <1>1, <1>3, <1>4, <1>7, <2>1, <2>3, <2>4 DEF ReplayInv, SharedReplays
<1>8. CASE ~ suite.shared
  <2>1. used'.failures = 0
    BY <1>1, <1>8 DEF CountersOfNext, Unused
  <2>2. \A i \in 1..n : FailedAttempts(old[i]) = Met(suite.sched, old[i].attempt)
    BY <1>8 DEF ReplayInv, FreshReplays, old, n
  <2>3. \A i \in 1..(n + 1) : FailedAttempts(new[i]) = Met(suite.sched, new[i].attempt)
    BY <1>4, <1>5, <2>2
  <2>4. QED
    BY <1>1, <1>3, <1>4, <1>5, <1>8, <2>1, <2>3 DEF ReplayInv, FreshReplays
<1>9. QED
  BY <1>7, <1>8

(* While the counter of attempts does not wrap, ReplayInv is kept.         *)
LEMMA ReplaysKept == Spec /\ []NoWrap => []ReplayInv
<1>1. Init => ReplayInv
  <2> SUFFICES ASSUME Init
               PROVE  ReplayInv
    OBVIOUS
  <2> DEFINE runs == Append(<<>>, NewRun)
  <2>1. past = <<>> /\ run = NewRun /\ used.failures = 0
    BY DEF Init, Unused
  <2>2. /\ FailedAttempts(NewRun) = {} /\ NewRun.attempt = 0 /\ NewRun \in Runs
        /\ Firing(suite.sched, 0) = {} /\ Cardinality(Firing(suite.sched, 0)) = 0
        /\ Met(suite.sched, 0) = {}
    BY NewRunReplays
  <2>3. Len(runs) = 1 /\ runs[1] = NewRun /\ \A i \in 1..1 : runs[i] = NewRun
    BY <2>2, EmptySeq, RunsAppend
  <2> HIDE DEF runs
  <2>4. Append(past, run) = runs
    BY <2>1 DEF runs
  <2>5. FirstOnes(suite.sched, NewRun) /\ Complete(suite.sched, NewRun)
    BY <2>2 DEF FirstOnes, Complete
  <2>6. SharedReplays(suite.sched, used.failures, runs)
    BY <2>2, <2>3, <2>5 DEF SharedReplays
  <2>7. FreshReplays(suite.sched, used.failures, runs)
    BY <2>1, <2>2, <2>3 DEF FreshReplays
  <2>8. QED
    BY <2>4, <2>6, <2>7 DEF ReplayInv
<1>2. IInv /\ CountInv /\ NoWrap' /\ ReplayInv /\ [Next]_vars => ReplayInv'
  <2> SUFFICES ASSUME IInv, CountInv, NoWrap', ReplayInv, [Next]_vars
               PROVE  ReplayInv'
    OBVIOUS
  <2>1. CASE Proceed \/ Recover
    <3>1. suite' = suite /\ past' = past
      BY <2>1 DEF Proceed, Recover, NextAttempt
    <3>2. QED
      BY <2>1, <3>1, AttemptKeepsShared, AttemptKeepsFresh DEF ReplayInv
  <2>2. CASE Conclude
    BY <2>2, ConcludeKeepsReplays
  <2>3. CASE Produce \/ UNCHANGED vars
    <3>1. UNCHANGED <<suite, used, run, past>>
      BY <2>3 DEF Produce, vars
    <3>2. QED
      BY <3>1 DEF ReplayInv
  <2>4. QED
    BY <2>1, <2>2, <2>3 DEF Next
<1>3. QED
  BY <1>1, <1>2, Invariant, Counting, PTL DEF Spec

(* `The same (schedule, attempt) pair always produces the same outcome',   *)
(* as far as it goes: while the counter of attempts does not wrap, a       *)
(* scenario that repeats attempts of an earlier one fails the same ones if *)
(* the schedule is new or has no limit, and the first of these until its   *)
(* limit is reached if it is shared (maybe_fail, limit).                   *)
THEOREM ReplaysAgreeAlways == Spec /\ []NoWrap => []ReplaysAgree
<1>1. IInv /\ CountInv /\ NoWrap /\ ReplayInv => ReplaysAgree
  <2> DEFINE runs == Append(past, run)
  <2> SUFFICES ASSUME IInv, CountInv, NoWrap, ReplayInv,
                      NEW i \in 1..Len(runs), NEW j \in 1..Len(runs), i < j
               PROVE  LET common == (1..runs[i].attempt) \cap (1..runs[j].attempt)
                          before == FailedAttempts(runs[i]) \cap common
                          again == FailedAttempts(runs[j]) \cap common
                      IN  /\ again \subseteq before
                          /\ \A a \in again, b \in before \ again : a < b
                          /\ again # before =>
                               /\ suite.shared /\ suite.sched.limit # NoLimit
                               /\ FailureCount(suite.sched.limit, used.failures) =
                                    suite.sched.limit
    BY DEF ReplaysAgree
  <2> DEFINE sched == suite.sched
             common == (1..runs[i].attempt) \cap (1..runs[j].attempt)
             before == FailedAttempts(runs[i]) \cap common
             again == FailedAttempts(runs[j]) \cap common
  <2>1. CASE ~ suite.shared
    <3>1. /\ FailedAttempts(runs[i]) = Met(suite.sched, runs[i].attempt)
          /\ FailedAttempts(runs[j]) = Met(suite.sched, runs[j].attempt)
      BY <2>1 DEF ReplayInv, FreshReplays
    <3>2. again = before
      BY <3>1 DEF Met, Firing
    <3>3. QED
      BY <3>2
  <2>2. CASE suite.shared
    <3>1. /\ FirstOnes(suite.sched, runs[i]) /\ FirstOnes(suite.sched, runs[j])
          /\ HasRoom(suite.sched, used.failures) => Complete(suite.sched, runs[j])
          /\ FailedAttempts(runs[j]) \cap (1..runs[i].attempt)
               \subseteq FailedAttempts(runs[i])
      BY <2>2 DEF ReplayInv, SharedReplays
    <3> HIDE DEF runs
    <3>2. again \subseteq before
      BY <3>1
    <3>3. \A b \in before : b \in Firing(sched, runs[j].attempt)
      BY <3>1 DEF FirstOnes, Firing
    <3>4. ASSUME NEW a \in again, NEW b \in before \ again
          PROVE  a < b
      <4>1. a \in Int /\ b \in Int /\ a # b /\ ~ (b < a)
        BY <3>1, <3>3 DEF FirstOnes
      <4>2. QED
        BY <4>1
    <3>5. ASSUME again # before
          PROVE  sched.limit # NoLimit /\ FailureCount(sched.limit, used.failures) = sched.limit
      <4>1. ~ HasRoom(suite.sched, used.failures)
        <5>1. PICK b \in before : b \notin again
          BY <3>2, <3>5
        <5>2. b \notin FailedAttempts(runs[j]) /\ b \in Firing(sched, runs[j].attempt)
          BY <3>3, <5>1
        <5>3. QED
          BY <3>1, <5>2 DEF Complete
      <4>2. /\ sched.limit \in Nat \cup {NoLimit}
            /\ used.failures \in Nat /\ used.invocations \in Nat
        BY SuitesAssumption DEF IInv, TypeOK
      <4>3. used.failures <= UsizeMax
        BY <4>2, UsizeMaxAssumption DEF CountInv, NoWrap
      <4>4. Wrap(used.failures) = used.failures
        BY <4>2, <4>3, WrapSmall
      <4>5. QED
        BY <4>1, <4>2, <4>4 DEF HasRoom, FailureCount
    <3>6. QED
      BY <2>2, <3>2, <3>4, <3>5
  <2>3. QED
    BY <2>1, <2>2
<1>2. QED
  BY <1>1, Invariant, Counting, ReplaysKept, PTL
=============================================================================
