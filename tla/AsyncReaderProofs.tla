-------------------------- MODULE AsyncReaderProofs --------------------------
(***************************************************************************)
(* Proofs about AsyncReader, for every schedule, every length of buffer    *)
(* and any number of operations and of dropped ones.                       *)
(***************************************************************************)
EXTENDS AsyncReader, ChaosIOProofs

-----------------------------------------------------------------------------
(* The invariants.                                                         *)

IoType == [taken : Nat, attempt : Nat, failures : Nat]

TypeInv ==
  /\ sched \in Schedules
  /\ io \in IoType /\ begun \in IoType
  /\ in_flight \in BOOLEAN
  /\ want \in Nat \cup {NoRead}
  /\ got \in Nat /\ injected \in Nat

(* The counter of failures of the schedule has not wrapped around.         *)
NoWrap == io.failures <= UsizeMax

(* An attempt that is pending was let pass by the schedule, and its state  *)
(* is the one that decision left.                                          *)
InFlightPassed ==
  in_flight => /\ ~ Attempt(sched, begun).fails
               /\ io = Attempt(sched, begun).io

IInv == /\ NoByteLost
        /\ InFlightPassed
        /\ NoWrap => FailuresAreReturned

-----------------------------------------------------------------------------
(* What the first block of a poll leaves.                                  *)
LEMMA DecidedFacts ==
  ASSUME TypeInv
  PROVE  /\ Decided.io \in IoType
         /\ Decided.io.taken = io.taken
         /\ io.failures <= Decided.io.failures
         /\ Decided.io.failures <= UsizeMax =>
              FailureCount(sched.limit, Decided.io.failures) =
                FailureCount(sched.limit, io.failures) + (IF Decided.fails THEN 1 ELSE 0)
<1> DEFINE a == Attempt(sched, io)
<1>1. sched.limit \in Nat \cup {NoLimit} /\ io \in IoType
  BY SchedulesAssumption DEF TypeInv
<1>2. a.io \in IoType /\ a.io.taken = io.taken
  <2>1. PICK k \in {io.failures, io.failures + 1} :
          a.io = [[io EXCEPT !.attempt = @ + 1] EXCEPT !.failures = k]
    BY AttemptRecord
  <2>2. k \in Nat /\ [io EXCEPT !.attempt = @ + 1] \in IoType
    BY <1>1 DEF IoType
  <2> HIDE DEF a
  <2>3. QED
    BY <1>1, <2>1, <2>2 DEF IoType
<1>3. /\ a.io.failures \in {io.failures, io.failures + 1}
      /\ a.fails \in BOOLEAN
      /\ a.io.failures <= UsizeMax =>
           FailureCount(sched.limit, a.io.failures) =
             FailureCount(sched.limit, io.failures) + (IF a.fails THEN 1 ELSE 0)
  BY <1>1, AttemptCounts DEF IoType
<1>4. io.failures \in Nat /\ FailureCount(sched.limit, io.failures) \in Nat
  BY <1>1, FailureCountType DEF IoType
<1> HIDE DEF a
<1>5. CASE in_flight
  <2>1. Decided.io = io /\ ~ Decided.fails
    BY <1>5 DEF Decided
  <2>2. QED
    BY <1>1, <1>4, <2>1 DEF IoType
<1>6. CASE ~ in_flight
  <2>1. Decided = a
    BY <1>6 DEF Decided, a
  <2>2. QED
    BY <1>1, <1>2, <1>3, <1>4, <2>1
<1>7. QED
  BY <1>5, <1>6

(* The inner reader moves n bytes, or none.                                *)
LEMMA InnerReadFacts ==
  ASSUME NEW s \in IoType, NEW n \in Nat, NEW o \in InnerRead(s, n)
  PROVE  /\ o.io \in IoType /\ o.io.taken = s.taken + o.n
         /\ o.io.failures = s.failures
         /\ o.n \in Nat /\ o.err # "injected"
BY DEF InnerRead, IoType, Ok, Err, InnerErrors

(* A poll that returns Ready, one that returns Pending.                    *)
LEMMA PollCases ==
  ASSUME TypeInv, Poll
  PROVE  /\ want # NoRead
         /\ begun' = IF in_flight THEN begun ELSE io
         /\ UNCHANGED <<sched, ops, cancels>>
         /\ \/ /\ Decided.fails
               /\ Ready(Err(Decided.io, "injected"))
               /\ UNCHANGED in_flight
            \/ /\ ~ Decided.fails
               /\ io' = Decided.io
               /\ in_flight' = TRUE
               /\ UNCHANGED <<want, result, got, injected, errs>>
            \/ /\ ~ Decided.fails
               /\ in_flight' = FALSE
               /\ \E o \in InnerRead(Decided.io, want) : Ready(o)
BY DEF Poll, Refuse, PollInner

-----------------------------------------------------------------------------
(* Every step keeps the state well-formed.                                 *)
LEMMA StepTypeInv ==
  ASSUME TypeInv, [Next]_vars
  PROVE  TypeInv'
<1> USE DEF TypeInv
<1>1. ASSUME NEW n \in 0..MaxBuf, Begin(n)
      PROVE  TypeInv'
  BY <1>1 DEF Begin
<1>2. ASSUME Poll
      PROVE  TypeInv'
  <2>1. begun' \in IoType /\ sched' = sched
    BY <1>2, PollCases
  <2>2. Decided.io \in IoType
    BY DecidedFacts
  <2>3. CASE Ready(Err(Decided.io, "injected")) /\ UNCHANGED in_flight
    BY <2>1, <2>2, <2>3 DEF Ready, Err, NoRead
  <2>4. CASE io' = Decided.io /\ in_flight' = TRUE /\ UNCHANGED <<want, got, injected>>
    BY <2>1, <2>2, <2>4
  <2>5. ASSUME NEW o \in InnerRead(Decided.io, want), Ready(o), in_flight' = FALSE
        PROVE  TypeInv'
    <3>1. o.io \in IoType /\ o.n \in Nat
      BY <1>2, <2>2, InnerReadFacts, PollCases
    <3>2. /\ io' \in IoType /\ want' = NoRead /\ got' \in Nat /\ injected' \in Nat
      BY <2>5, <3>1 DEF Ready
    <3>3. QED
      BY <2>1, <2>5, <3>2
  <2>6. QED
    BY <1>2, <2>3, <2>4, <2>5, PollCases
<1>3. ASSUME Wake \/ Cancel
      PROVE  TypeInv'
  BY <1>3 DEF Wake, Cancel
<1>4. CASE UNCHANGED vars
  BY <1>4 DEF vars
<1>5. QED
  BY <1>1, <1>2, <1>3, <1>4 DEF Next

(* The state of the reader stays well-formed (poll_read).                  *)
THEOREM TypeCorrect == Spec => []TypeInv
<1>1. Init => TypeInv
  <2> SUFFICES ASSUME Init PROVE TypeInv
    OBVIOUS
  <2>1. io \in IoType /\ begun \in IoType
    BY DEF Init, IoType
  <2>2. in_flight \in BOOLEAN
    BY DEF Init
  <2>3. QED
    BY <2>1, <2>2 DEF Init, TypeInv
<1>2. TypeInv /\ [Next]_vars => TypeInv'
  BY StepTypeInv
<1>3. QED
  BY <1>1, <1>2, PTL DEF Spec

-----------------------------------------------------------------------------
(* Only a poll takes bytes, and it hands over what it takes.               *)
LEMMA StepNoByteLost ==
  ASSUME TypeInv, NoByteLost, [Next]_vars
  PROVE  NoByteLost'
<1> USE DEF NoByteLost
<1>1. ASSUME NEW n \in 0..MaxBuf, Begin(n)
      PROVE  NoByteLost'
  BY <1>1 DEF Begin
<1>2. ASSUME Poll
      PROVE  NoByteLost'
  <2>1. Decided.io \in IoType /\ Decided.io.taken = io.taken /\ got \in Nat
    BY DecidedFacts DEF TypeInv
  <2>2. CASE Ready(Err(Decided.io, "injected"))
    BY <2>1, <2>2 DEF Ready, Err
  <2>3. CASE io' = Decided.io /\ UNCHANGED got
    BY <2>1, <2>3
  <2>4. ASSUME NEW o \in InnerRead(Decided.io, want), Ready(o)
        PROVE  NoByteLost'
    <3>1. want \in Nat
      BY <1>2, PollCases DEF TypeInv
    <3>2. o.io.taken = Decided.io.taken + o.n
      BY <2>1, <3>1, InnerReadFacts
    <3>3. QED
      BY <2>1, <2>4, <3>2 DEF Ready
  <2>5. QED
    BY <1>2, <2>2, <2>3, <2>4, PollCases
<1>3. ASSUME Wake \/ Cancel
      PROVE  NoByteLost'
  BY <1>3 DEF Wake, Cancel
<1>4. CASE UNCHANGED vars
  BY <1>4 DEF vars
<1>5. QED
  BY <1>1, <1>2, <1>3, <1>4 DEF Next

(* A read in flight stays the one that was let through; see InFlightPassed.*)
LEMMA StepInFlightPassed ==
  ASSUME TypeInv, InFlightPassed, [Next]_vars
  PROVE  InFlightPassed'
<1> USE DEF InFlightPassed
<1>1. ASSUME NEW n \in 0..MaxBuf, Begin(n)
      PROVE  InFlightPassed'
  BY <1>1 DEF Begin
<1>2. ASSUME Poll
      PROVE  InFlightPassed'
  <2>1. /\ begun' = IF in_flight THEN begun ELSE io
        /\ sched' = sched
    BY <1>2, PollCases
  <2>2. CASE in_flight' = FALSE
    BY <2>2
  <2>3. CASE Decided.fails /\ UNCHANGED in_flight
    BY <2>3 DEF Decided
  <2>4. CASE ~ Decided.fails /\ io' = Decided.io
    BY <2>1, <2>4 DEF Decided
  <2>5. QED
    BY <1>2, <2>2, <2>3, <2>4, PollCases
<1>3. ASSUME Wake \/ Cancel
      PROVE  InFlightPassed'
  BY <1>3 DEF Wake, Cancel
<1>4. CASE UNCHANGED vars
  BY <1>4 DEF vars
<1>5. QED
  BY <1>1, <1>2, <1>3, <1>4 DEF Next

(* A failure is counted in the poll that returns it.                       *)
LEMMA StepFailuresAreReturned ==
  ASSUME TypeInv, NoWrap => FailuresAreReturned, [Next]_vars
  PROVE  (NoWrap => FailuresAreReturned)'
<1> SUFFICES ASSUME NoWrap'
             PROVE  FailuresAreReturned'
  OBVIOUS
<1> USE DEF NoWrap, FailuresAreReturned
<1>1. ASSUME NEW n \in 0..MaxBuf, Begin(n)
      PROVE  FailuresAreReturned'
  BY <1>1 DEF Begin
<1>2. ASSUME Poll
      PROVE  FailuresAreReturned'
  <2>1. /\ Decided.io \in IoType /\ io \in IoType
        /\ io.failures <= Decided.io.failures
        /\ Decided.io.failures <= UsizeMax =>
             FailureCount(sched.limit, Decided.io.failures) =
               FailureCount(sched.limit, io.failures) + (IF Decided.fails THEN 1 ELSE 0)
    BY DecidedFacts DEF TypeInv
  <2>2. sched' = sched
    BY <1>2, PollCases
  <2>3. io'.failures = Decided.io.failures =>
          FailureCount(sched.limit, io'.failures) =
            injected + (IF Decided.fails THEN 1 ELSE 0)
    BY <2>1, UsizeMaxAssumption DEF IoType
  <2>4. injected \in Nat
    BY DEF TypeInv
  <2>5. CASE Decided.fails /\ Ready(Err(Decided.io, "injected"))
    BY <2>2, <2>3, <2>5 DEF Ready, Err
  <2>6. CASE ~ Decided.fails /\ io' = Decided.io /\ UNCHANGED injected
    BY <2>2, <2>3, <2>4, <2>6
  <2>7. ASSUME ~ Decided.fails, NEW o \in InnerRead(Decided.io, want), Ready(o)
        PROVE  FailuresAreReturned'
    <3>1. want \in Nat
      BY <1>2, PollCases DEF TypeInv
    <3>2. o.io.failures = Decided.io.failures /\ o.err # "injected"
      BY <2>1, <3>1, InnerReadFacts
    <3>3. QED
      BY <2>2, <2>3, <2>4, <2>7, <3>2 DEF Ready
  <2>8. QED
    BY <1>2, <2>5, <2>6, <2>7, PollCases
<1>3. ASSUME Wake \/ Cancel
      PROVE  FailuresAreReturned'
  BY <1>3 DEF Wake, Cancel
<1>4. CASE UNCHANGED vars
  BY <1>4 DEF vars
<1>5. QED
  BY <1>1, <1>2, <1>3, <1>4 DEF Next

(* The inductive invariant.                                                *)
THEOREM Invariant == Spec => []IInv
<1>1. Init => IInv
  <2> SUFFICES ASSUME Init PROVE IInv
    OBVIOUS
  <2>1. NoByteLost /\ InFlightPassed
    BY DEF Init, NoByteLost, InFlightPassed
  <2>2. FailureCount(sched.limit, 0) = 0
    BY FailureCountZero, SchedulesAssumption DEF Init
  <2>3. QED
    BY <2>1, <2>2 DEF Init, IInv, FailuresAreReturned
<1>2. TypeInv /\ IInv /\ [Next]_vars => IInv'
  BY StepNoByteLost, StepInFlightPassed, StepFailuresAreReturned DEF IInv
<1>3. QED
  BY <1>1, <1>2, TypeCorrect, PTL DEF Spec

(* However reads are cut short, refused or dropped, every byte taken from  *)
(* the source is handed to the task (poll_read, ChaosReader::read).        *)
THEOREM BytesKept == Spec => []NoByteLost
<1>1. IInv => NoByteLost
  BY DEF IInv
<1>2. QED
  BY <1>1, Invariant, PTL

(* Until the counter wraps, every failure the schedule counts is returned, *)
(* also when reads are dropped (poll_read).                                *)
THEOREM FailuresReturned == Spec => [](NoWrap => FailuresAreReturned)
<1>1. IInv => (NoWrap => FailuresAreReturned)
  BY DEF IInv
<1>2. QED
  BY <1>1, Invariant, PTL

-----------------------------------------------------------------------------
(* A read that sleeps has an attempt in flight: only then can it be        *)
(* dropped, so a drop leaves an attempt to the next read.                  *)
SharingInv ==
  /\ ops \in Nat /\ cancels \in Nat
  /\ want # NoRead /\ ~ runnable => in_flight
  /\ DroppedReadsShareAttempts

(* A poll puts a new attempt to the schedule exactly if none is in flight. *)
LEMMA PollAttempts ==
  ASSUME TypeInv, Poll
  PROVE  io'.attempt = IF in_flight THEN io.attempt ELSE io.attempt + 1
<1>1. Decided.io \in IoType
  BY DecidedFacts
<1>2. Decided.io.attempt = IF in_flight THEN io.attempt ELSE io.attempt + 1
  <2>1. /\ sched.limit \in Nat \cup {NoLimit}
        /\ io = [f \in DOMAIN io |-> io[f]] /\ {"attempt", "failures"} \subseteq DOMAIN io
        /\ io.attempt \in Nat /\ io.failures \in Nat
    BY SchedulesAssumption DEF TypeInv, IoType
  <2>2. Attempt(sched, io).io.attempt = io.attempt + 1
    BY <2>1, AttemptCounts
  <2>3. QED
    BY <2>2 DEF Decided
<1>3. CASE Ready(Err(Decided.io, "injected")) \/ io' = Decided.io
  BY <1>2, <1>3 DEF Ready, Err
<1>4. ASSUME NEW o \in InnerRead(Decided.io, want), Ready(o)
      PROVE  io'.attempt = Decided.io.attempt
  BY <1>1, <1>4 DEF InnerRead, Ok, Err, IoType, Ready
<1>5. QED
  BY <1>2, <1>3, <1>4, PollCases

(* After a poll that is Ready no read is in progress, and nothing is in    *)
(* flight; after one that is Pending both are.                             *)
LEMMA PollEnds ==
  ASSUME TypeInv, Poll
  PROVE  \/ want' = NoRead /\ in_flight' = FALSE
         \/ want' = want /\ in_flight' = TRUE
<1>1. Decided.fails => ~ in_flight
  BY DEF Decided
<1>2. in_flight \in BOOLEAN
  BY DEF TypeInv
<1>3. QED
  BY <1>1, <1>2, PollCases DEF Ready

(* Reads and attempts stay in step, also when a read is dropped.           *)
LEMMA StepSharing ==
  ASSUME TypeInv, SharingInv, [Next]_vars
  PROVE  SharingInv'
<1>1. /\ io.attempt \in Nat /\ ops \in Nat /\ cancels \in Nat
      /\ in_flight \in BOOLEAN /\ want \in Nat \cup {NoRead}
      /\ want # NoRead /\ ~ runnable => in_flight
      /\ io.attempt + cancels + (IF want # NoRead /\ ~ in_flight THEN 1 ELSE 0) =
           ops + (IF want = NoRead /\ in_flight THEN 1 ELSE 0)
  BY DEF TypeInv, IoType, SharingInv, DroppedReadsShareAttempts
<1>2. ASSUME NEW n \in 0..MaxBuf, Begin(n)
      PROVE  SharingInv'
  <2>1. /\ n # NoRead /\ want = NoRead /\ want' = n /\ ops' = ops + 1 /\ runnable' = TRUE
        /\ UNCHANGED <<io, in_flight, cancels>>
    BY <1>2 DEF Begin, NoRead
  <2>2. QED
    BY <1>1, <2>1 DEF SharingInv, DroppedReadsShareAttempts
<1>3. ASSUME Poll
      PROVE  SharingInv'
  <2>1. want # NoRead /\ ops' = ops /\ cancels' = cancels
    BY <1>3, PollCases
  <2>2. io'.attempt = IF in_flight THEN io.attempt ELSE io.attempt + 1
    BY <1>3, PollAttempts
  <2>3. \/ want' = NoRead /\ in_flight' = FALSE
        \/ want' = want /\ in_flight' = TRUE
    BY <1>3, PollEnds
  <2>4. QED
    BY <1>1, <2>1, <2>2, <2>3 DEF SharingInv, DroppedReadsShareAttempts
<1>4. CASE Wake
  BY <1>1, <1>4 DEF Wake, SharingInv, DroppedReadsShareAttempts
<1>5. CASE Cancel
  <2>1. /\ want # NoRead /\ ~ runnable /\ want' = NoRead /\ cancels' = cancels + 1
        /\ UNCHANGED <<io, in_flight, ops, runnable>>
    BY <1>5 DEF Cancel
  <2>2. QED
    BY <1>1, <2>1 DEF SharingInv, DroppedReadsShareAttempts
<1>6. CASE UNCHANGED vars
  BY <1>6 DEF vars, SharingInv, DroppedReadsShareAttempts
<1>7. QED
  BY <1>2, <1>3, <1>4, <1>5, <1>6 DEF Next

(* Every read is one attempt of the schedule, but a dropped one shares its *)
(* attempt with the read after it (poll_read, in_flight).                  *)
THEOREM AttemptsShared == Spec => []DroppedReadsShareAttempts
<1>1. Init => SharingInv
  BY DEF Init, SharingInv, DroppedReadsShareAttempts
<1>2. TypeInv /\ SharingInv /\ [Next]_vars => SharingInv'
  BY StepSharing
<1>3. SharingInv => DroppedReadsShareAttempts
  BY DEF SharingInv
<1>4. QED
  BY <1>1, <1>2, <1>3, TypeCorrect, PTL DEF Spec

-----------------------------------------------------------------------------
(* Refinement.                                                             *)

(* The state of the reader as a synchronous one would see it.              *)
SyncIo == IF in_flight THEN begun ELSE io

(* A poll that returns Ready is the end of one synchronous read.           *)
LEMMA ReadyIsEnd ==
  ASSUME TypeInv, InFlightPassed, Poll, in_flight' = FALSE,
         NEW o \in ChaosRead(sched, SyncIo, want), Ready(o)
  PROVE  Sync!End
BY PollCases DEF Sync!End, Ready, SyncIo

(* A poll is the end of one synchronous read, or nothing it can see.       *)
LEMMA PollIsEnd ==
  ASSUME TypeInv, InFlightPassed, Poll
  PROVE  Sync!End \/ UNCHANGED Sync!vars
<1> DEFINE a == Attempt(sched, SyncIo)
<1>1. /\ begun' = SyncIo
      /\ Decided.io = a.io
      /\ Decided.fails <=> a.fails
  BY PollCases DEF InFlightPassed, Decided, SyncIo
<1>2. CASE Decided.fails /\ Ready(Err(Decided.io, "injected")) /\ UNCHANGED in_flight
  <2>1. in_flight' = FALSE
    BY <1>2 DEF Decided, TypeInv
  <2>2. Err(Decided.io, "injected") \in ChaosRead(sched, SyncIo, want)
    BY <1>1, <1>2 DEF ChaosRead
  <2>3. QED
    BY <1>2, <2>1, <2>2, ReadyIsEnd
<1>3. CASE in_flight' = TRUE /\ UNCHANGED <<sched, want, result>>
  BY <1>1, <1>3 DEF Sync!vars, SyncIo
<1>4. ASSUME ~ Decided.fails, in_flight' = FALSE,
             NEW o \in InnerRead(Decided.io, want), Ready(o)
      PROVE  Sync!End
  <2>1. o \in ChaosRead(sched, SyncIo, want)
    BY <1>1, <1>4 DEF ChaosRead
  <2>2. QED
    BY <1>4, <2>1, ReadyIsEnd
<1>5. QED
  BY <1>2, <1>3, <1>4, PollCases

(* Whatever is polled, woken, dropped or begun instead, the asynchronous   *)
(* reader does what the synchronous one does, one whole read at a time     *)
(* (poll_read, ChaosReader::read).                                         *)
THEOREM ReaderIsSync == Spec => Sync!Spec
<1>1. Init => want = NoRead
  BY DEF Init
<1>2. TypeInv /\ IInv /\ [Next]_vars => [Sync!Next]_(Sync!vars)
  <2> SUFFICES ASSUME TypeInv, IInv, [Next]_vars
               PROVE  Sync!Next \/ UNCHANGED Sync!vars
    OBVIOUS
  <2>1. ASSUME NEW n \in 0..MaxBuf, Begin(n)
        PROVE  Sync!Next
    BY <2>1 DEF Begin, Sync!Next, Sync!Begin
  <2>2. CASE Poll
    BY <2>2, PollIsEnd DEF IInv, Sync!Next
  <2>3. CASE Wake
    BY <2>3 DEF Wake, Sync!vars
  <2>4. CASE Cancel
    BY <2>4 DEF Cancel, Sync!Next, Sync!Drop
  <2>5. CASE UNCHANGED vars
    BY <2>5 DEF vars, Sync!vars
  <2>6. QED
    BY <2>1, <2>2, <2>3, <2>4, <2>5 DEF Next
<1>3. QED
  BY <1>1, <1>2, TypeCorrect, Invariant, PTL DEF Spec, Sync!Spec
=============================================================================
