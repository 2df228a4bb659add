----------------------------- MODULE AsyncReader -----------------------------
(***************************************************************************)
(* AsyncChaosReader, polled by one task that behaves as in AsyncWriter.    *)
(* The bytes of the source are counted: `taken' by the inner reader, and   *)
(* `got' by the task.                                                      *)
(***************************************************************************)
EXTENDS ChaosIO

CONSTANTS
  Schedules,   \* the schedules the reader may be built with
  MaxBuf,      \* bound on the length of a buffer
  MaxOps,      \* bound on the read operations
  MaxCancels   \* bound on the operations dropped while pending

ASSUME SchedulesAssumption ==
  \A s \in Schedules : s.limit \in Nat \cup {NoLimit}

NoRead == -1   \* no operation is in progress

VARIABLES
  sched,      \* the schedule; never changes
  io,         \* attempt, failures, and the bytes taken from the source
  in_flight,  \* did an attempt pass the schedule and is pending?
  want,       \* length of the buffer of the operation, or NoRead
  runnable, waker, result,          \* as in AsyncWriter
  begun, ops, cancels, injected, errs,  \* as in AsyncWriter
  got         \* bytes the task has received

vars == <<sched, io, in_flight, want, runnable, waker, result, begun, ops,
          cancels, got, injected, errs>>

Init ==
  /\ sched \in Schedules
  /\ io = [taken |-> 0, attempt |-> 0, failures |-> 0]
  /\ in_flight = FALSE /\ want = NoRead /\ runnable = FALSE /\ waker = "none"
  /\ result = [n |-> 0, err |-> "none"]
  /\ begun = io
  /\ ops = 0 /\ cancels = 0 /\ got = 0 /\ injected = 0 /\ errs = 0

Begin(n) ==
  /\ want = NoRead
  /\ ops < MaxOps
  /\ want' = n
  /\ ops' = ops + 1
  /\ runnable' = TRUE
  /\ UNCHANGED <<sched, io, in_flight, waker, result, begun, cancels, got, injected, errs>>

-----------------------------------------------------------------------------
(* Mutant: every poll is a new attempt.                                    *)
DecidedAnew == Attempt(sched, io)

(* The first block of poll_read: unless one is in flight, a new attempt is *)
(* put to the schedule.                                                    *)
Decided == IF in_flight THEN [io |-> io, fails |-> FALSE] ELSE Attempt(sched, io)

(* poll_read returns Ready.                                                *)
Ready(o) ==
  /\ io' = o.io
  /\ want' = NoRead
  /\ runnable' = FALSE
  /\ result' = [n |-> o.n, err |-> o.err]
  /\ got' = got + o.n
  /\ injected' = IF o.err = "injected" THEN injected + 1 ELSE injected
  /\ errs' = IF o.err = "none" THEN errs ELSE errs + 1

(* Mutant: the inner reader is polled before the attempt is refused.       *)
RefuseAfterRead(d) ==
  /\ d.fails
  /\ \E o \in InnerRead(d.io, want) : Ready(Err(o.io, "injected"))
  /\ UNCHANGED <<in_flight, waker>>

(* The schedule fails the attempt: the inner reader is not polled.         *)
Refuse(d) ==
  /\ d.fails
  /\ Ready(Err(d.io, "injected"))
  /\ UNCHANGED <<in_flight, waker>>

(* The inner reader is polled, and in_flight remembers whether it was      *)
(* pending.                                                                *)
PollInner(d) ==
  /\ ~ d.fails
  /\ \/ /\ waker # "called"
        /\ waker' = "armed"
        /\ io' = d.io
        /\ in_flight' = TRUE
        /\ runnable' = FALSE
        /\ UNCHANGED <<want, result, got, injected, errs>>
     \/ /\ waker' = "none"
        /\ in_flight' = FALSE
        /\ \E o \in InnerRead(d.io, want) : Ready(o)

(* poll_read                                                               *)
Poll ==
  /\ want # NoRead
  /\ Refuse(Decided) \/ PollInner(Decided)
  /\ begun' = IF in_flight THEN begun ELSE io
  /\ UNCHANGED <<sched, ops, cancels>>

Wake ==
  /\ waker = "armed"
  /\ waker' = "called"
  /\ runnable' = (want # NoRead)
  /\ UNCHANGED <<sched, io, in_flight, want, result, begun, ops, cancels, got,
                 injected, errs>>

Cancel ==
  /\ want # NoRead /\ ~ runnable
  /\ cancels < MaxCancels
  /\ cancels' = cancels + 1
  /\ want' = NoRead
  /\ UNCHANGED <<sched, io, in_flight, runnable, waker, result, begun, ops, got,
                 injected, errs>>

Next == (\E n \in 0..MaxBuf : Begin(n)) \/ Poll \/ Wake \/ Cancel

Spec == Init /\ [][Next]_vars
FairSpec == Spec /\ WF_vars(runnable /\ Poll) /\ WF_vars(Wake)
-----------------------------------------------------------------------------
(* Properties.                                                             *)

(* An injected failure, an error of the inner reader and a dropped read    *)
(* lose nothing: every byte taken from the source has been handed to the   *)
(* task (poll_read, ChaosReader::read).                                    *)
NoByteLost == io.taken = got

(* Also when reads are dropped, the failures the schedule counts are those *)
(* returned: none is decided for a read that is later dropped (poll_read). *)
FailuresAreReturned == injected = FailureCount(sched.limit, io.failures)

(* What is true of `an attempt is one read' (doc of the module): every     *)
(* read has an attempt of its own, but one that is dropped while pending   *)
(* leaves its attempt to the read after it, which the schedule is then not *)
(* asked about.  `unasked' is a read that was not polled yet, `left' an    *)
(* attempt of which the next read will be (poll_read, in_flight).          *)
DroppedReadsShareAttempts ==
  LET unasked == IF want # NoRead /\ ~ in_flight THEN 1 ELSE 0
      left == IF want = NoRead /\ in_flight THEN 1 ELSE 0
  IN  io.attempt + cancels + unasked = ops + left

(* As in AsyncWriter: a read that ends is one read of ChaosReader, one     *)
(* that is dropped none at all, and none is stuck (poll_read).             *)
Sync == INSTANCE OneOperation
          WITH Requests <- 0..MaxBuf,
               None     <- NoRead,
               Outcomes <- ChaosRead,
               request  <- want,
               io       <- IF in_flight THEN begun ELSE io

ImplementsSyncReader == Sync!FairSpec
=============================================================================
