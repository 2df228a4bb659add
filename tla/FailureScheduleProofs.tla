------------------------ MODULE FailureScheduleProofs ------------------------
(***************************************************************************)
(* Proofs about FailureSchedule, for every set of threads, every set of    *)
(* schedules and every bound on the calls.                                 *)
(***************************************************************************)
EXTENDS FailureSchedule, ChaosIOProofs, FiniteSetTheorems

-----------------------------------------------------------------------------
(* Type correctness.                                                       *)

(* The state of a shared schedule stays well-formed, and no thread knows   *)
(* of an increment of `failures` that was not made (maybe_fail).           *)
THEOREM TypeCorrect == Spec => []TypeOK
<1>1. Init => TypeOK
  BY MaxCallsAssumption DEF Init, TypeOK
<1>2. TypeOK /\ [Next]_vars => TypeOK'
  <2> SUFFICES ASSUME TypeOK, [Next]_vars
               PROVE  TypeOK'
    OBVIOUS
  <2> USE DEF TypeOK
  <2>1. ASSUME NEW t \in Threads, NEW a \in Attempts, PassThrough(t, a)
        PROVE  TypeOK'
    BY <2>1, MaxCallsAssumption DEF PassThrough, Outcome
  <2>2. ASSUME NEW t \in Threads, NEW a \in Attempts, Fire(t, a)
        PROVE  TypeOK'
    BY <2>2, MaxCallsAssumption DEF Fire
  <2>3. ASSUME NEW t \in Threads, Claim(t)
        PROVE  TypeOK'
    BY <2>3 DEF Claim, history
  <2>4. ASSUME NEW t \in Threads, ReturnErr(t)
        PROVE  TypeOK'
    BY <2>4 DEF ReturnErr, Return, Outcome
  <2>5. ASSUME NEW t \in Threads, ReturnOk(t)
        PROVE  TypeOK'
    BY <2>5 DEF ReturnOk, Return, Outcome
  <2>6. ASSUME NEW t \in Threads, ReadFailureCount(t)
        PROVE  TypeOK'
    <3>1. PICK k \in seen[t]..failures :
            /\ seen' = [seen EXCEPT ![t] = k]
            /\ observed' = [observed EXCEPT ![t] = FailureCount(sched.limit, k)]
      BY <2>6 DEF ReadFailureCount
    <3>2. k \in Nat /\ k <= failures
      BY <3>1
    <3>3. FailureCount(sched.limit, k) \in Nat
      BY <3>2, FailureCountType, SchedulesAssumption
    <3>4. QED
      BY <2>6, <3>1, <3>2, <3>3 DEF ReadFailureCount, history
  <2>7. CASE UNCHANGED vars
    BY <2>7 DEF vars
  <2>8. QED
    BY <2>1, <2>2, <2>3, <2>4, <2>5, <2>6, <2>7 DEF Next, Proceed
<1>3. QED
  BY <1>1, <1>2, PTL DEF Spec

-----------------------------------------------------------------------------
(* The inductive invariant: every firing call is counted once, and every   *)
(* failure counted within the limit is returned or about to be.            *)
IInv == ClaimAccounting /\ EmissionAccounting

(* The threads about to increment the counter, or to return a failure, are *)
(* finitely many.                                                          *)
LEMMA PendingFinite == IsFiniteSet(Claiming) /\ IsFiniteSet(Winners)
BY FS_Subset, ThreadsAssumption DEF Claiming, Winners

(* Nothing is counted or returned yet.                                     *)
LEMMA InitIInv == Init => IInv
<1> SUFFICES ASSUME Init PROVE IInv
  OBVIOUS
<1>1. Claiming = {} /\ Winners = {}
  BY DEF Init, Claiming, Winners
<1>2. Cardinality(Claiming) = 0 /\ Cardinality(Winners) = 0
  BY <1>1, FS_EmptySet
<1>3. FailureCount(sched.limit, 0) = 0
  BY FailureCountZero, SchedulesAssumption DEF Init
<1>4. QED
  BY <1>2, <1>3 DEF Init, IInv, ClaimAccounting, EmissionAccounting

(* The number of pending claims or wins when thread t joins or leaves.     *)
LEMMA PendingCount ==
  ASSUME NEW S, IsFiniteSet(S), NEW t
  PROVE  /\ Cardinality(S) \in Nat
         /\ t \notin S => Cardinality(S \cup {t}) = Cardinality(S) + 1
         /\ t \in S => Cardinality(S) \in Nat \ {0}
         /\ t \in S => Cardinality(S \ {t}) = Cardinality(S) - 1
<1>1. Cardinality(S) \in Nat
  BY FS_CardinalityType
<1>2. t \in S => Cardinality(S) # 0
  BY FS_EmptySet
<1>3. QED
  BY <1>1, <1>2, FS_AddElement, FS_RemoveElement

(* The call of t claims a failure: the counter, the pending claims and the *)
(* pending failures move together.                                         *)
LEMMA ClaimIInv ==
  ASSUME TypeOK, TypeOK', IInv, NEW t \in Threads, Claim(t)
  PROVE  IInv'
<1> USE DEF TypeOK
<1> DEFINE wins == Injects(sched.limit, Wrap(failures))
<1>1. /\ sched' = sched /\ emitted' = emitted /\ fired' = fired
      /\ failures' = failures + 1
      /\ sched.limit \in Nat \cup {NoLimit}
  BY SchedulesAssumption DEF Claim, history
<1>2. t \in Claiming /\ Claiming' = Claiming \ {t}
  BY DEF Claim, Claiming
<1>3. /\ t \notin Winners
      /\ Winners' = IF wins THEN Winners \cup {t} ELSE Winners
  BY DEF Claim, Winners, Wins
<1>4. ClaimAccounting'
  BY <1>1, <1>2, PendingCount, PendingFinite DEF IInv, ClaimAccounting
<1>5. EmissionAccounting'
  <2> SUFFICES ASSUME NoWrap'
               PROVE  emitted + Cardinality(Winners')
                        = FailureCount(sched.limit, failures + 1)
    BY <1>1 DEF EmissionAccounting
  <2>1. NoWrap /\ failures + 1 <= UsizeMax
    <3>1. NoWrap
      BY <1>1 DEF NoWrap
    <3>2. Cardinality(Claiming) \in Nat \ {0}
      BY <1>2, PendingCount, PendingFinite
    <3>3. failures + Cardinality(Claiming) = fired
      BY DEF IInv, ClaimAccounting
    <3>4. failures + 1 <= fired
      BY <3>2, <3>3
    <3>5. fired <= UsizeMax
      BY <3>1 DEF NoWrap
    <3>6. failures + 1 <= UsizeMax
      BY <3>4, <3>5, UsizeMaxAssumption
    <3>7. QED
      BY <3>1, <3>6
  <2>2. emitted + Cardinality(Winners) = FailureCount(sched.limit, failures)
    BY <2>1 DEF IInv, EmissionAccounting
  <2>3. FailureCount(sched.limit, failures + 1) =
          IF wins THEN FailureCount(sched.limit, failures) + 1
                  ELSE FailureCount(sched.limit, failures)
    BY <1>1, <2>1, FailureCountStep
  <2>4. Cardinality(Winners) \in Nat
        /\ Cardinality(Winners \cup {t}) = Cardinality(Winners) + 1
    BY <1>3, PendingCount, PendingFinite
  <2>5. QED
    BY <1>3, <2>2, <2>3, <2>4
<1>6. QED
  BY <1>4, <1>5 DEF IInv

(* Every step keeps the accounts.                                          *)
LEMMA StepIInv ==
  ASSUME TypeOK, TypeOK', IInv, [Next]_vars
  PROVE  IInv'
<1> USE DEF TypeOK
<1>1. ASSUME NEW t \in Threads, NEW a \in Attempts, PassThrough(t, a)
      PROVE  IInv'
  <2>1. Claiming' = Claiming /\ Winners' = Winners
    BY <1>1 DEF PassThrough, Claiming, Winners, Wins
  <2>2. QED
    BY <1>1, <2>1 DEF PassThrough, IInv, ClaimAccounting, EmissionAccounting, NoWrap
<1>2. ASSUME NEW t \in Threads, NEW a \in Attempts, Fire(t, a)
      PROVE  IInv'
  <2>1. t \notin Claiming /\ Claiming' = Claiming \cup {t}
    BY <1>2 DEF Fire, Claiming
  <2>2. Winners' = Winners
    BY <1>2 DEF Fire, Winners, Wins
  <2>3. ClaimAccounting'
    BY <1>2, <2>1, PendingCount, PendingFinite DEF Fire, IInv, ClaimAccounting
  <2>4. NoWrap' => NoWrap
    BY <1>2, UsizeMaxAssumption DEF Fire, NoWrap
  <2>5. EmissionAccounting'
    BY <1>2, <2>2, <2>4 DEF Fire, IInv, EmissionAccounting
  <2>6. QED
    BY <2>3, <2>5 DEF IInv
<1>3. ASSUME NEW t \in Threads, Claim(t)
      PROVE  IInv'
  BY <1>3, ClaimIInv
<1>4. ASSUME NEW t \in Threads, ReturnErr(t)
      PROVE  IInv'
  <2>1. Claiming' = Claiming
    BY <1>4 DEF ReturnErr, Return, Claiming
  <2>2. t \in Winners /\ Winners' = Winners \ {t}
    BY <1>4 DEF ReturnErr, Return, Winners, Wins
  <2>3. ClaimAccounting'
    BY <1>4, <2>1 DEF ReturnErr, Return, IInv, ClaimAccounting
  <2>4. emitted' + Cardinality(Winners') = emitted + Cardinality(Winners)
    BY <1>4, <2>2, PendingCount, PendingFinite DEF ReturnErr
  <2>5. EmissionAccounting'
    BY <1>4, <2>4 DEF ReturnErr, Return, IInv, EmissionAccounting, NoWrap
  <2>6. QED
    BY <2>3, <2>5 DEF IInv
<1>5. ASSUME NEW t \in Threads, ReturnOk(t)
      PROVE  IInv'
  <2>1. Claiming' = Claiming
    BY <1>5 DEF ReturnOk, Return, Claiming
  <2>2. Winners' = Winners
    BY <1>5 DEF ReturnOk, Return, Winners, Wins
  <2>3. QED
    BY <1>5, <2>1, <2>2
       DEF ReturnOk, Return, IInv, ClaimAccounting, EmissionAccounting, NoWrap
<1>6. ASSUME NEW t \in Threads, ReadFailureCount(t)
      PROVE  IInv'
  <2>1. Claiming' = Claiming /\ Winners' = Winners
    BY <1>6 DEF ReadFailureCount, Claiming, Winners, Wins
  <2>2. QED
    BY <1>6, <2>1 DEF ReadFailureCount, history, IInv, ClaimAccounting,
                      EmissionAccounting, NoWrap
<1>7. CASE UNCHANGED vars
  BY <1>7 DEF vars, IInv, ClaimAccounting, EmissionAccounting, NoWrap,
              Claiming, Winners, Wins
<1>8. QED
  BY <1>1, <1>2, <1>3, <1>4, <1>5, <1>6, <1>7 DEF Next, Proceed

(* Every firing call is counted exactly once, and the failures returned    *)
(* plus those about to be are failure_count() (maybe_fail).                *)
THEOREM Accounting == Spec => []IInv
<1>1. TypeOK /\ TypeOK' /\ IInv /\ [Next]_vars => IInv'
  BY StepIInv
<1>2. QED
  BY <1>1, InitIInv, TypeCorrect, PTL DEF Spec

(* EmissionAccounting alone, as the runs check it (maybe_fail).            *)
THEOREM EmissionsAccounted == Spec => []EmissionAccounting
<1>1. IInv => EmissionAccounting
  BY DEF IInv
<1>2. QED
  BY <1>1, Accounting, PTL

-----------------------------------------------------------------------------
(* Consequences.                                                           *)

(* `never more than limit failures, even under contention': true of        *)
(* maybe_fail for any number of threads as long as fewer than 2^w calls    *)
(* have fired; the run counter_wrap shows that the proviso is needed.      *)
THEOREM LimitHolds == Spec => [](NoWrap => NeverMoreThanLimit)
<1>1. TypeOK /\ IInv => (NoWrap => NeverMoreThanLimit)
  <2> SUFFICES ASSUME TypeOK, IInv, NoWrap, sched.limit # NoLimit
               PROVE  emitted <= sched.limit
    BY DEF NeverMoreThanLimit
  <2>1. sched.limit \in Nat
    BY SchedulesAssumption DEF TypeOK
  <2>2. FailureCount(sched.limit, failures) <= sched.limit
    BY <2>1, WrapType DEF FailureCount, TypeOK
  <2>3. emitted + Cardinality(Winners) = FailureCount(sched.limit, failures)
    BY DEF IInv, EmissionAccounting
  <2>4. Cardinality(Winners) \in Nat /\ emitted \in Nat
    BY PendingFinite, FS_CardinalityType DEF TypeOK
  <2>5. FailureCount(sched.limit, failures) \in Nat
    BY FailureCountType, SchedulesAssumption DEF TypeOK
  <2>6. QED
    BY <2>1, <2>2, <2>3, <2>4, <2>5
<1>2. QED
  BY <1>1, TypeCorrect, Accounting, PTL

(* `exactly limit callers see prior < limit': when no call is in progress  *)
(* no failure was lost or duplicated by contention (maybe_fail).           *)
THEOREM QuiescentExact == Spec => []QuiescentCountsExact
<1>1. TypeOK /\ IInv => QuiescentCountsExact
  <2> SUFFICES ASSUME TypeOK, IInv, NoWrap, \A t \in Threads : pc[t] = "idle"
               PROVE  /\ emitted = IF sched.limit = NoLimit \/ fired < sched.limit
                                     THEN fired ELSE sched.limit
                      /\ emitted = FailureCount(sched.limit, failures)
    BY DEF QuiescentCountsExact
  <2>1. Claiming = {} /\ Winners = {}
    BY DEF Claiming, Winners
  <2>2. Cardinality(Claiming) = 0 /\ Cardinality(Winners) = 0
    BY <2>1, FS_EmptySet
  <2>3. failures = fired
    BY <2>2 DEF IInv, ClaimAccounting, TypeOK
  <2>4. emitted = FailureCount(sched.limit, failures)
    BY <2>2 DEF IInv, EmissionAccounting, TypeOK
  <2>5. Wrap(failures) = fired
    BY <2>3, WrapSmall DEF NoWrap, TypeOK
  <2>6. sched.limit \in Nat \cup {NoLimit} /\ fired \in Nat
    BY SchedulesAssumption DEF TypeOK
  <2>7. QED
    BY <2>4, <2>5, <2>6 DEF FailureCount
<1>2. QED
  BY <1>1, TypeCorrect, Accounting, PTL
-----------------------------------------------------------------------------
(* Calls follow their attempt numbers.                                     *)

(* A call in progress beyond the test of its attempt is one that fires.    *)
InProgressFires == \A t \in Threads : pc[t] # "idle" => Fires(sched, attempt[t])

FollowInv == InProgressFires /\ FailuresFollowSchedule

(* Every step keeps the calls in progress among those that fire.           *)
LEMMA StepFollowInv ==
  ASSUME TypeOK, FollowInv, [Next]_vars
  PROVE  FollowInv'
<1> USE DEF TypeOK, FollowInv, InProgressFires, FailuresFollowSchedule
<1>1. ASSUME NEW t \in Threads, NEW a \in Attempts, PassThrough(t, a)
      PROVE  FollowInv'
  BY <1>1 DEF PassThrough, Outcome
<1>2. ASSUME NEW t \in Threads, NEW a \in Attempts, Fire(t, a)
      PROVE  FollowInv'
  BY <1>2 DEF Fire
<1>3. ASSUME NEW t \in Threads, Claim(t)
      PROVE  FollowInv'
  BY <1>3 DEF Claim, history
<1>4. ASSUME NEW t \in Threads, ReturnErr(t)
      PROVE  FollowInv'
  BY <1>4 DEF ReturnErr, Return, Outcome
<1>5. ASSUME NEW t \in Threads, ReturnOk(t)
      PROVE  FollowInv'
  <2>1. sched.limit # NoLimit
    BY <1>5 DEF ReturnOk, Wins, Injects
  <2>2. QED
    BY <1>5, <2>1 DEF ReturnOk, Return, Outcome
<1>6. ASSUME NEW t \in Threads, ReadFailureCount(t)
      PROVE  FollowInv'
  BY <1>6 DEF ReadFailureCount, history
<1>7. CASE UNCHANGED vars
  BY <1>7 DEF vars
<1>8. QED
  BY <1>1, <1>2, <1>3, <1>4, <1>5, <1>6, <1>7 DEF Next, Proceed

(* Whatever the interleaving, and also once the counter has wrapped, only  *)
(* attempts the schedule fires on fail, and without a limit all of them do *)
(* (maybe_fail).                                                           *)
THEOREM FollowsSchedule == Spec => []FailuresFollowSchedule
<1>1. Init => FollowInv
  BY DEF Init, FollowInv, InProgressFires, FailuresFollowSchedule
<1>2. TypeOK /\ FollowInv /\ [Next]_vars => FollowInv'
  BY StepFollowInv
<1>3. FollowInv => FailuresFollowSchedule
  BY DEF FollowInv
<1>4. QED
  BY <1>1, <1>2, <1>3, TypeCorrect, PTL DEF Spec

-----------------------------------------------------------------------------
(* What a thread has seen of the failures.                                 *)

(* A failure that thread t has won and not yet returned.                   *)
Due(t) == IF pc[t] = "decide" /\ Wins(t) THEN 1 ELSE 0

(* The latest increment a thread knows of covers the failures it received, *)
(* the one it is about to return, and what failure_count() told it.        *)
Known(t) ==
  /\ errs[t] + Due(t) <= FailureCount(sched.limit, seen[t])
  /\ observed[t] <= FailureCount(sched.limit, seen[t])

KnownInv == NoWrap => \A t \in Threads : Known(t)

(* Until the counter wraps its increments, also the next one, fit a usize. *)
LEMMA IncrementsFit ==
  ASSUME TypeOK, ClaimAccounting, NoWrap
  PROVE  /\ failures <= UsizeMax
         /\ \A t \in Threads : pc[t] = "claim" => failures + 1 <= UsizeMax
<1>1. /\ Cardinality(Claiming) \in Nat
      /\ \A t \in Claiming : Cardinality(Claiming) \in Nat \ {0}
  BY PendingCount, PendingFinite
<1>2. failures \in Nat /\ fired \in Nat /\ fired <= UsizeMax
  BY DEF TypeOK, NoWrap
<1>3. failures + Cardinality(Claiming) = fired
  BY DEF ClaimAccounting
<1>4. failures <= UsizeMax
  BY <1>1, <1>2, <1>3, UsizeMaxAssumption
<1>5. ASSUME NEW t \in Threads, pc[t] = "claim"
      PROVE  failures + 1 <= UsizeMax
  <2>1. Cardinality(Claiming) \in Nat \ {0}
    BY <1>1, <1>5 DEF Claiming
  <2>2. QED
    BY <1>2, <1>3, <2>1, UsizeMaxAssumption
<1>6. QED
  BY <1>4, <1>5

(* What was known is still known once more is.                             *)
LEMMA SeenMore ==
  ASSUME TypeOK, NEW t \in Threads, NEW k \in Nat,
         seen[t] <= k, k <= UsizeMax, Known(t)
  PROVE  /\ FailureCount(sched.limit, k) \in Nat
         /\ errs[t] + Due(t) <= FailureCount(sched.limit, k)
         /\ observed[t] <= FailureCount(sched.limit, k)
<1>1. /\ sched.limit \in Nat \cup {NoLimit} /\ seen[t] \in Nat
      /\ errs[t] \in Nat /\ observed[t] \in Nat /\ Due(t) \in Nat
  BY SchedulesAssumption DEF TypeOK, Due
<1>2. FailureCount(sched.limit, seen[t]) <= FailureCount(sched.limit, k)
  BY <1>1, FailureCountMonotone
<1>3. FailureCount(sched.limit, seen[t]) \in Nat /\ FailureCount(sched.limit, k) \in Nat
  BY <1>1, FailureCountType
<1>4. QED
  BY <1>1, <1>2, <1>3 DEF Known

(* A thread that increments the counter knows of all increments before.    *)
LEMMA ClaimKnown ==
  ASSUME TypeOK, TypeOK', ClaimAccounting, NoWrap, KnownInv,
         NEW t \in Threads, Claim(t)
  PROVE  Known(t)'
<1> USE DEF TypeOK
<1>1. /\ sched' = sched /\ sched.limit \in Nat \cup {NoLimit}
      /\ errs' = errs /\ observed' = observed
      /\ seen'[t] = failures + 1 /\ prior'[t] = failures /\ pc'[t] = "decide"
      /\ pc[t] = "claim" /\ seen[t] <= failures
  BY SchedulesAssumption DEF Claim, history
<1>2. failures <= UsizeMax /\ failures + 1 <= UsizeMax
  BY <1>1, IncrementsFit
<1>3. Due(t) = 0 /\ Due(t)' = IF Injects(sched.limit, Wrap(failures)) THEN 1 ELSE 0
  BY <1>1 DEF Due, Wins
<1>4. /\ FailureCount(sched.limit, failures) \in Nat
      /\ errs[t] <= FailureCount(sched.limit, failures)
      /\ observed[t] <= FailureCount(sched.limit, failures)
  BY <1>1, <1>2, <1>3, SeenMore DEF KnownInv
<1>5. FailureCount(sched.limit, failures + 1) =
        FailureCount(sched.limit, failures) + Due(t)'
  <2>1. failures \in Nat
    OBVIOUS
  <2>2. FailureCount(sched.limit, failures + 1) =
          IF Injects(sched.limit, Wrap(failures))
            THEN FailureCount(sched.limit, failures) + 1
            ELSE FailureCount(sched.limit, failures)
    BY <1>1, <1>2, <2>1, FailureCountStep
  <2>3. QED
    BY <1>3, <1>4, <2>2
<1>6. Due(t)' \in {0, 1}
  BY <1>3
<1>7. QED
  BY <1>1, <1>4, <1>5, <1>6 DEF Known

(* A step that leaves what concerns thread u alone.                        *)
LEMMA KnownUnchanged ==
  ASSUME KnownInv, NoWrap, NEW u \in Threads, sched' = sched,
         pc'[u] = pc[u], prior'[u] = prior[u], errs'[u] = errs[u],
         seen'[u] = seen[u], observed'[u] = observed[u]
  PROVE  Known(u)'
BY DEF KnownInv, Known, Due, Wins

(* Every step keeps what the threads know.                                 *)
LEMMA StepKnownInv ==
  ASSUME TypeOK, TypeOK', ClaimAccounting, KnownInv, [Next]_vars
  PROVE  KnownInv'
<1> SUFFICES ASSUME NoWrap', NEW u \in Threads
             PROVE  Known(u)'
  BY DEF KnownInv
<1> USE DEF TypeOK
<1>1. ASSUME NEW t \in Threads, NEW a \in Attempts, PassThrough(t, a)
      PROVE  Known(u)'
  BY <1>1, KnownUnchanged DEF PassThrough, NoWrap
<1>2. ASSUME NEW t \in Threads, NEW a \in Attempts, Fire(t, a)
      PROVE  Known(u)'
  <2>1. NoWrap
    BY <1>2, UsizeMaxAssumption DEF Fire, NoWrap
  <2>2. CASE u # t
    BY <1>2, <2>1, <2>2, KnownUnchanged DEF Fire
  <2>3. CASE u = t
    BY <1>2, <2>1, <2>3 DEF Fire, KnownInv, Known, Due
  <2>4. QED
    BY <2>2, <2>3
<1>3. ASSUME NEW t \in Threads, Claim(t)
      PROVE  Known(u)'
  <2>1. NoWrap
    BY <1>3 DEF Claim, history, NoWrap
  <2>2. CASE u # t
    BY <1>3, <2>1, <2>2, KnownUnchanged DEF Claim, history
  <2>3. QED
    BY <1>3, <2>1, <2>2, ClaimKnown
<1>4. ASSUME NEW t \in Threads, ReturnErr(t)
      PROVE  Known(u)'
  <2>1. NoWrap
    BY <1>4 DEF ReturnErr, Return, NoWrap
  <2>2. CASE u # t
    BY <1>4, <2>1, <2>2, KnownUnchanged DEF ReturnErr, Return
  <2>3. CASE u = t
    <3>1. Due(t) = 1 /\ Due(t)' = 0
      BY <1>4 DEF ReturnErr, Return, Due
    <3>2. errs'[t] = errs[t] + 1
      BY <1>4 DEF ReturnErr
    <3>3. QED
      BY <1>4, <2>1, <2>3, <3>1, <3>2 DEF ReturnErr, Return, KnownInv, Known
  <2>4. QED
    BY <2>2, <2>3
<1>5. ASSUME NEW t \in Threads, ReturnOk(t)
      PROVE  Known(u)'
  <2>1. NoWrap
    BY <1>5 DEF ReturnOk, Return, NoWrap
  <2>2. CASE u # t
    BY <1>5, <2>1, <2>2, KnownUnchanged DEF ReturnOk, Return
  <2>3. CASE u = t
    BY <1>5, <2>1, <2>3 DEF ReturnOk, Return, KnownInv, Known, Due
  <2>4. QED
    BY <2>2, <2>3
<1>6. ASSUME NEW t \in Threads, ReadFailureCount(t)
      PROVE  Known(u)'
  <2>1. NoWrap
    BY <1>6 DEF ReadFailureCount, history, NoWrap
  <2>2. CASE u # t
    BY <1>6, <2>1, <2>2, KnownUnchanged DEF ReadFailureCount, history
  <2>3. CASE u = t
    <3>1. PICK k \in seen[t]..failures :
            /\ seen' = [seen EXCEPT ![t] = k]
            /\ observed' = [observed EXCEPT ![t] = FailureCount(sched.limit, k)]
      BY <1>6 DEF ReadFailureCount
    <3>2. k \in Nat /\ seen[t] <= k /\ k <= UsizeMax
      BY <2>1, <3>1, IncrementsFit, UsizeMaxAssumption
    <3>3. /\ FailureCount(sched.limit, k) \in Nat
          /\ errs[t] + Due(t) <= FailureCount(sched.limit, k)
      BY <2>1, <3>2, SeenMore DEF KnownInv
    <3>4. /\ sched' = sched /\ errs' = errs /\ Due(t)' = Due(t)
          /\ seen'[t] = k /\ observed'[t] = FailureCount(sched.limit, k)
      BY <1>6, <3>1 DEF ReadFailureCount, history, Due, Wins
    <3>5. QED
      BY <2>3, <3>3, <3>4 DEF Known
  <2>4. QED
    BY <2>2, <2>3
<1>7. CASE UNCHANGED vars
  BY <1>7, KnownUnchanged DEF vars, NoWrap
<1>8. QED
  BY <1>1, <1>2, <1>3, <1>4, <1>5, <1>6, <1>7 DEF Next, Proceed

(* A thread's own failures, and what it was told before, bound every count *)
(* it may read from then on (maybe_fail, failure_count).                   *)
THEOREM KnownCounts == Spec => []KnownInv
<1>1. Init => KnownInv
  <2> SUFFICES ASSUME Init, NEW t \in Threads
               PROVE  Known(t)
    BY DEF KnownInv
  <2>1. FailureCount(sched.limit, 0) \in Nat
    BY FailureCountType, SchedulesAssumption DEF Init
  <2>2. QED
    BY <2>1 DEF Init, Known, Due
<1>2. TypeOK /\ TypeOK' /\ IInv /\ KnownInv /\ [Next]_vars => KnownInv'
  BY StepKnownInv DEF IInv
<1>3. QED
  BY <1>1, <1>2, TypeCorrect, Accounting, PTL DEF Spec

(* Until the counter wraps, a thread that calls failure_count() after      *)
(* receiving n errors is told of at least n, however stale the value its   *)
(* relaxed load returns (maybe_fail, failure_count).                       *)
THEOREM OwnFailuresKnown == Spec => [](NoWrap => OwnFailuresObserved)
<1>1. TypeOK /\ IInv /\ KnownInv => (NoWrap => OwnFailuresObserved)
  <2> SUFFICES ASSUME TypeOK, IInv, KnownInv, NoWrap,
                      NEW t \in Threads, NEW k \in seen[t]..failures
               PROVE  errs[t] <= FailureCount(sched.limit, k)
    BY DEF OwnFailuresObserved
  <2>1. failures <= UsizeMax
    BY IncrementsFit DEF IInv
  <2>2. k \in Nat /\ seen[t] <= k /\ k <= UsizeMax /\ errs[t] \in Nat
    BY <2>1, UsizeMaxAssumption DEF TypeOK
  <2>3. /\ FailureCount(sched.limit, k) \in Nat
        /\ errs[t] + Due(t) <= FailureCount(sched.limit, k)
    BY <2>2, SeenMore DEF KnownInv
  <2>4. Due(t) \in {0, 1}
    BY DEF Due
  <2>5. QED
    BY <2>2, <2>3, <2>4
<1>2. QED
  BY <1>1, TypeCorrect, Accounting, KnownCounts, PTL

(* Until the counter wraps, ObservedCountNeverDecreases: successive        *)
(* results of failure_count() in one thread never decrease.                *)
THEOREM ReadsMonotone ==
  Spec => [][NoWrap => \A t \in Threads : observed[t] <= observed'[t]]_vars
<1>1. TypeOK /\ IInv /\ KnownInv /\ [Next]_vars
        => [NoWrap => \A t \in Threads : observed[t] <= observed'[t]]_vars
  <2> SUFFICES ASSUME TypeOK, IInv, KnownInv, NoWrap, [Next]_vars, NEW u \in Threads
               PROVE  observed[u] <= observed'[u]
    OBVIOUS
  <2>1. observed[u] \in Nat
    BY DEF TypeOK
  <2>2. CASE observed' = observed
    BY <2>1, <2>2
  <2>3. ASSUME NEW t \in Threads, ReadFailureCount(t)
        PROVE  observed[u] <= observed'[u]
    <3>1. PICK k \in seen[t]..failures :
            observed' = [observed EXCEPT ![t] = FailureCount(sched.limit, k)]
      BY <2>3 DEF ReadFailureCount
    <3>2. failures <= UsizeMax
      BY IncrementsFit DEF IInv
    <3>3. k \in Nat /\ seen[t] <= k /\ k <= UsizeMax
      BY <3>1, <3>2, UsizeMaxAssumption DEF TypeOK
    <3>4. observed[t] <= FailureCount(sched.limit, k)
      BY <3>3, SeenMore DEF KnownInv
    <3>5. QED
      BY <2>1, <3>1, <3>4 DEF TypeOK
  <2>4. QED
    BY <2>2, <2>3 DEF Next, Proceed, PassThrough, Fire, Claim, ReturnErr, ReturnOk,
                      Return, vars
<1>2. QED
  BY <1>1, TypeCorrect, Accounting, KnownCounts, PTL DEF Spec

(* A thread that calls failure_count() twice is told no less the second    *)
(* time, whatever other threads do, if the counter never wraps.            *)
THEOREM ObservedMonotone == Spec /\ []NoWrap => ObservedCountNeverDecreases
<1>1. NoWrap /\ [NoWrap => \A t \in Threads : observed[t] <= observed'[t]]_vars
        => [\A t \in Threads : observed[t] <= observed'[t]]_vars
  OBVIOUS
<1>2. QED
  BY <1>1, ReadsMonotone, PTL DEF ObservedCountNeverDecreases

-----------------------------------------------------------------------------
(* Refinement.                                                             *)

(* The phases of all calls, as the budget sees them.                       *)
phase == [t \in Threads |-> PhaseOf(t)]

(* A step of thread t changes the phase of t only.                         *)
LEMMA PhaseStep ==
  ASSUME NEW t \in Threads, sched' = sched,
         \A u \in Threads \ {t} : pc'[u] = pc[u] /\ prior'[u] = prior[u]
  PROVE  phase' = [phase EXCEPT ![t] = PhaseOf(t)']
<1>1. \A u \in Threads \ {t} : PhaseOf(u)' = PhaseOf(u)
  BY DEF PhaseOf, Wins
<1>2. QED
  BY <1>1 DEF phase

(* A call that fires asks the budget.                                      *)
LEMMA FireAsks ==
  ASSUME TypeOK, NEW t \in Threads, NEW a \in Attempts, Fire(t, a)
  PROVE  Budget!Ask(t)
<1>1. phase[t] = "idle" /\ PhaseOf(t)' = "asked"
  BY DEF Fire, PhaseOf, phase, TypeOK
<1>2. phase' = [phase EXCEPT ![t] = "asked"]
  BY <1>1, PhaseStep DEF Fire, TypeOK
<1>3. QED
  BY <1>1, <1>2 DEF Budget!Ask, Fire, phase

(* The increment of the counter is the instant the call is decided.        *)
LEMMA ClaimDecides ==
  ASSUME TypeOK, ClaimAccounting, NoWrap, NEW t \in Threads, Claim(t)
  PROVE  Budget!Grant(t) \/ Budget!Deny(t)
<1> DEFINE wins == Injects(sched.limit, Wrap(failures))
<1>1. /\ sched' = sched /\ emitted' = emitted /\ failures' = failures + 1
      /\ sched.limit \in Nat \cup {NoLimit} /\ failures \in Nat
  BY SchedulesAssumption DEF Claim, history, TypeOK
<1>2. failures \in 0..UsizeMax /\ failures + 1 <= UsizeMax
  BY <1>1, IncrementsFit, UsizeMaxAssumption DEF Claim
<1>3. Wrap(failures) = failures
  BY <1>2, WrapSmall
<1>4. FailureCount(sched.limit, failures + 1) =
        IF wins THEN FailureCount(sched.limit, failures) + 1
                ELSE FailureCount(sched.limit, failures)
  BY <1>1, <1>2, FailureCountStep
<1>5. phase[t] = "asked" /\ PhaseOf(t)' = IF wins THEN "granted" ELSE "denied"
  BY <1>1 DEF Claim, PhaseOf, phase, Wins, TypeOK
<1>6. phase' = [phase EXCEPT ![t] = IF wins THEN "granted" ELSE "denied"]
  BY <1>1, <1>5, PhaseStep DEF Claim, TypeOK
<1>7. CASE wins
  <2>1. sched.limit = NoLimit \/ FailureCount(sched.limit, failures) < sched.limit
    BY <1>1, <1>3, <1>7 DEF Injects, FailureCount, NoLimit
  <2>2. QED
    BY <1>1, <1>4, <1>5, <1>6, <1>7, <2>1 DEF Budget!Grant, phase
<1>8. CASE ~ wins
  <2>1. FailureCount(sched.limit, failures) = sched.limit
    BY <1>1, <1>3, <1>8 DEF Injects, FailureCount
  <2>2. QED
    BY <1>1, <1>4, <1>5, <1>6, <1>8, <2>1 DEF Budget!Deny, phase
<1>9. QED
  BY <1>7, <1>8

(* A return is the answer of the budget.                                   *)
LEMMA ReturnAnswers ==
  ASSUME TypeOK, NEW t \in Threads, ReturnErr(t) \/ ReturnOk(t)
  PROVE  Budget!Answer(t)
<1>1. phase[t] = (IF Wins(t) THEN "granted" ELSE "denied") /\ PhaseOf(t)' = "idle"
  BY DEF ReturnErr, ReturnOk, Return, PhaseOf, phase, TypeOK
<1>2. phase' = [phase EXCEPT ![t] = "idle"]
  BY <1>1, PhaseStep DEF ReturnErr, ReturnOk, Return, TypeOK
<1>3. /\ emitted' = IF phase[t] = "granted" THEN emitted + 1 ELSE emitted
      /\ UNCHANGED <<sched, failures>>
  BY <1>1 DEF ReturnErr, ReturnOk, Return
<1>4. QED
  BY <1>1, <1>2, <1>3 DEF Budget!Answer, phase

(* Until the counter wraps, the shared schedule is indistinguishable from  *)
(* an atomic budget of failures: each firing call is decided at the        *)
(* instant of its fetch_add, in favour of a failure exactly while fewer    *)
(* than the limit were granted; what was granted is the counter clamped as *)
(* failure_count() clamps it (maybe_fail, failure_count).                  *)
THEOREM ScheduleIsBudget == Spec /\ []NoWrap => Budget!Spec
<1>1. Init => Budget!Init
  <2> SUFFICES ASSUME Init PROVE Budget!Init
    OBVIOUS
  <2>1. sched.limit \in Nat \cup {NoLimit}
    BY SchedulesAssumption DEF Init
  <2>2. FailureCount(sched.limit, failures) = 0
    BY <2>1, FailureCountZero DEF Init
  <2>3. \A t \in Threads : PhaseOf(t) = "idle"
    BY DEF Init, PhaseOf
  <2>4. QED
    BY <2>1, <2>2, <2>3 DEF Init, Budget!Init
<1>2. TypeOK /\ IInv /\ NoWrap /\ [Next]_vars => [Budget!Next]_(Budget!vars)
  <2> SUFFICES ASSUME TypeOK, IInv, NoWrap, [Next]_vars
               PROVE  Budget!Next \/ UNCHANGED Budget!vars
    OBVIOUS
  <2>1. ASSUME UNCHANGED <<sched, failures, pc, prior, emitted>>
        PROVE  UNCHANGED Budget!vars
    BY <2>1 DEF Budget!vars, PhaseOf, Wins
  <2>2. ASSUME NEW t \in Threads, NEW a \in Attempts, PassThrough(t, a)
        PROVE  UNCHANGED Budget!vars
    BY <2>1, <2>2 DEF PassThrough
  <2>3. ASSUME NEW t \in Threads, NEW a \in Attempts, Fire(t, a)
        PROVE  Budget!Next
    BY <2>3, FireAsks DEF Budget!Next
  <2>4. ASSUME NEW t \in Threads, Claim(t)
        PROVE  Budget!Next
    BY <2>4, ClaimDecides DEF Budget!Next, IInv
  <2>5. ASSUME NEW t \in Threads, ReturnErr(t) \/ ReturnOk(t)
        PROVE  Budget!Next
    BY <2>5, ReturnAnswers DEF Budget!Next
  <2>6. ASSUME NEW t \in Threads, ReadFailureCount(t)
        PROVE  UNCHANGED Budget!vars
    BY <2>1, <2>6 DEF ReadFailureCount, history
  <2>7. CASE UNCHANGED vars
    BY <2>1, <2>7 DEF vars
  <2>8. QED
    BY <2>2, <2>3, <2>4, <2>5, <2>6, <2>7 DEF Next, Proceed
<1>3. QED
  BY <1>1, <1>2, TypeCorrect, Accounting, PTL DEF Spec, Budget!Spec
=============================================================================
