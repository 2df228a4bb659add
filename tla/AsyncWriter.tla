----------------------------- MODULE AsyncWriter -----------------------------
(***************************************************************************)
(* AsyncChaosWriter, polled by one task.  The task starts a write, polls   *)
(* it until it is ready, sleeps while it is pending until its waker is     *)
(* called, may poll it without having been woken, and may drop it while it *)
(* is pending and start another one.                                       *)
(***************************************************************************)
EXTENDS ChaosIO

CONSTANTS
  Schedules,   \* the schedules the writer may be built with
  MaxBuf,      \* bound on the length of a buffer
  MaxOps,      \* bound on the write operations
  MaxCancels   \* bound on the operations dropped while pending

ASSUME BoundsAssumption == MaxBuf \in Nat /\ MaxOps \in Nat
ASSUME SchedulesAssumption ==
  \A s \in Schedules : s.limit \in Nat \cup {NoLimit}

NoBuf == <<0>>   \* no operation is in progress; bytes are numbered from 1

VARIABLES
  sched,     \* the schedule; never changes
  io,        \* attempt, failures, and the sink of the inner writer
  state,     \* WriteState: "idle", "passing" or "partial_byte"
  buf,       \* the buffer of the operation in progress, or NoBuf
  runnable,  \* will the task be scheduled again?
  waker,     \* of the inner writer: "none", "armed", or "called" when ready
  result,    \* of the last operation that ended
  (* History variables.                                                    *)
  begun,     \* io when the attempt in progress, if any, was decided
  bytes, ops, cancels,  \* bytes and operations so far, and those dropped
  acked,     \* bytes in the sink that an Ok accounted for
  injected,  \* operations that returned the schedule's own error,
  errs       \*   and that returned any error

vars == <<sched, io, state, buf, runnable, waker, result, begun, bytes, ops,
          cancels, acked, injected, errs>>

Init ==
  /\ sched \in Schedules
  /\ io = [sink |-> <<>>, attempt |-> 0, failures |-> 0]
  /\ state = "idle" /\ buf = NoBuf /\ runnable = FALSE /\ waker = "none"
  /\ result = [n |-> 0, err |-> "none"]
  /\ begun = io
  /\ bytes = 0 /\ ops = 0 /\ cancels = 0
  /\ acked = <<>> /\ injected = 0 /\ errs = 0

(* The task awaits a write of the next n bytes.                            *)
Begin(n) ==
  /\ buf = NoBuf
  /\ ops < MaxOps
  /\ buf' = [i \in 1..n |-> bytes + i]
  /\ bytes' = bytes + n
  /\ ops' = ops + 1
  /\ runnable' = TRUE
  /\ UNCHANGED <<sched, io, state, waker, result, begun, cancels, acked, injected, errs>>

-----------------------------------------------------------------------------
(* The first block of poll_write: from Idle a new attempt is put to the    *)
(* schedule.  "refused" stands for its early return.                       *)
Decided ==
  IF state # "idle" THEN [io |-> io, state |-> state]
  ELSE LET e == ChaosEnter(sched, io, buf)
       IN  [io |-> e.io, state |-> IF e.stops THEN "refused"
                                   ELSE IF e.tears THEN "partial_byte" ELSE "passing"]

(* poll_write returns Ready.                                               *)
Ready(o) ==
  /\ io' = o.io
  /\ state' = "idle"
  /\ buf' = NoBuf
  /\ runnable' = FALSE
  /\ result' = [n |-> o.n, err |-> o.err]
  /\ acked' = acked \o Prefix(buf, o.n)
  /\ injected' = IF o.err = "injected" THEN injected + 1 ELSE injected
  /\ errs' = IF o.err = "none" THEN errs ELSE errs + 1

(* poll_write returns Pending and leaves the attempt as it is.             *)
Pending(d) ==
  /\ io' = d.io
  /\ state' = d.state
  /\ runnable' = FALSE
  /\ UNCHANGED <<buf, result, acked, injected, errs>>

(* The attempt ends without a poll of the inner writer: it was refused, or *)
(* a torn write has no byte to write.                                      *)
PollAlone(d) ==
  /\ d.state = "refused" \/ (d.state = "partial_byte" /\ buf = <<>>)
  /\ Ready(Err(d.io, "injected"))
  /\ UNCHANGED waker

(* Mutant: a torn write returns Pending once it is decided, without a poll *)
(* of the inner writer that would have armed the waker.                    *)
PollInnerDeferred(d) ==
  /\ d.state = "passing" \/ (d.state = "partial_byte" /\ buf # <<>>)
  /\ \/ /\ waker # "called"
        /\ waker' = IF d.state = "partial_byte" /\ state = "idle" THEN waker ELSE "armed"
        /\ Pending(d)
     \/ /\ waker' = "none"
        /\ \E o \in InnerWrite(d.io, IF d.state = "passing" THEN buf ELSE TornBuffer(buf)) :
             Ready(IF d.state = "passing" THEN o ELSE Torn(o))

(* The inner writer is polled.  It is pending, and will call the waker, or *)
(* ready, as it has to be once it has called it.                           *)
PollInner(d) ==
  /\ d.state = "passing" \/ (d.state = "partial_byte" /\ buf # <<>>)
  /\ \/ waker # "called" /\ waker' = "armed" /\ Pending(d)
     \/ /\ waker' = "none"
        /\ \E o \in InnerWrite(d.io, IF d.state = "passing" THEN buf ELSE TornBuffer(buf)) :
             Ready(IF d.state = "passing" THEN o ELSE Torn(o))

(* poll_write                                                              *)
Poll ==
  /\ buf # NoBuf
  /\ PollAlone(Decided) \/ PollInner(Decided)
  /\ begun' = IF state = "idle" THEN io ELSE begun
  /\ UNCHANGED <<sched, bytes, ops, cancels>>

(* The inner writer becomes ready and calls the waker.                     *)
Wake ==
  /\ waker = "armed"
  /\ waker' = "called"
  /\ runnable' = (buf # NoBuf)
  /\ UNCHANGED <<sched, io, state, buf, result, begun, bytes, ops, cancels,
                 acked, injected, errs>>

(* The task drops the operation, which is pending, because of a timeout or *)
(* of another branch of select!.  (Dropping it before its first poll is as *)
(* if it had never begun, and dropping it after the wake as before it.)    *)
Cancel ==
  /\ buf # NoBuf /\ ~ runnable
  /\ cancels < MaxCancels
  /\ cancels' = cancels + 1
  /\ buf' = NoBuf
  /\ UNCHANGED <<sched, io, state, runnable, waker, result, begun, bytes, ops,
                 acked, injected, errs>>

(* Mutant: flushing settles the attempt in flight.                         *)
PollFlushSettles ==
  /\ buf = NoBuf
  /\ state' = "idle"
  /\ UNCHANGED <<sched, io, buf, runnable, waker, result, begun, bytes, ops,
                 cancels, acked, injected, errs>>

(* poll_flush and poll_shutdown, between two writes, possibly after one    *)
(* that was dropped.  They pass the call on; the inner writer may be       *)
(* pending with it, and they have no part in the attempt in flight.        *)
PollFlush ==
  /\ buf = NoBuf
  /\ \/ waker # "called" /\ waker' = "armed"
     \/ waker' = "none"
  /\ UNCHANGED <<sched, io, state, buf, runnable, result, begun, bytes, ops,
                 cancels, acked, injected, errs>>

attempt_count == AttemptCount(io)

Next == (\E n \in 0..MaxBuf : Begin(n)) \/ Poll \/ PollFlush \/ Wake \/ Cancel

Spec == Init /\ [][Next]_vars

(* A task that has been woken is polled, and a pending inner writer        *)
(* becomes ready.  A sleeping task need not be polled.                     *)
FairSpec == Spec /\ WF_vars(runnable /\ Poll) /\ WF_vars(Wake)
-----------------------------------------------------------------------------
(* Properties.                                                             *)

Bytes == 1..(MaxOps * MaxBuf)

Buffers == { [i \in 1..n |-> b + i] : n \in 0..MaxBuf, b \in 0..(MaxOps * MaxBuf) }

Failures == FailureCount(sched.limit, io.failures)

(* Also when operations are dropped: the sink holds what Ok accounted for, *)
(* in order and no byte twice, plus at most one byte per partial write; a  *)
(* dropped write leaves no byte behind (poll_write).                       *)
SinkReconstructable ==
  /\ Ordered(io.sink) /\ Ordered(acked) /\ HoldsAll(io.sink, acked)
  /\ Len(io.sink) - Len(acked) <= IF sched.mode = "partial_write" THEN Failures ELSE 0

(* Also when operations are dropped: a failure counted by the schedule has *)
(* been returned as an error, or is the torn write still to be made; it is *)
(* never dropped with the operation (poll_write).                          *)
InjectedFailuresSurface ==
  LET due == IF state = "partial_byte" THEN 1 ELSE 0
  IN  injected + due <= Failures /\ Failures <= errs + due

(* `An attempt is one read or write operation, not one poll' (module doc): *)
(* no operation is in progress and each one has been an attempt.           *)
AttemptIsOneOperation == buf = NoBuf => attempt_count = ops

(* `Same contract as the sync writer' (doc of AsyncChaosWriter): a write   *)
(* that ends is one write of ChaosWriter, also when it continues the       *)
(* attempt of a write that was dropped; and none is stuck, because every   *)
(* Pending is one that will be woken (poll_write).                         *)
Sync == INSTANCE OneOperation
          WITH Requests <- Buffers,
               None     <- NoBuf,
               Outcomes <- ChaosWrite,
               request  <- buf,
               io       <- IF state = "idle" THEN io ELSE begun

ImplementsSyncWriter == Sync!FairSpec
=============================================================================
