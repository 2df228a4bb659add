---------------------------- MODULE OneOperation ----------------------------
(***************************************************************************)
(* What an asynchronous wrapper promises: an operation, however often it   *)
(* is polled, has the effect and the result of one synchronous call, and   *)
(* it ends unless it is dropped.  One that is dropped before it ends is as *)
(* if it had never been made.                                              *)
(***************************************************************************)
CONSTANTS
  Requests,           \* what callers may ask for
  None,               \* no operation is in progress
  Outcomes(_, _, _)   \* (schedule, state, request) -> outcomes of the call

VARIABLES
  sched,     \* the schedule of the wrapper
  io,        \* the state of the wrapper and of the object it wraps
  request,   \* the operation in progress, or None
  result     \* number of bytes and error of the last one that ended

vars == <<sched, io, request, result>>

Begin(q) ==
  /\ request = None
  /\ request' = q
  /\ UNCHANGED <<sched, io, result>>

End ==
  /\ request # None
  /\ \E o \in Outcomes(sched, io, request) :
       /\ io' = o.io
       /\ result' = [n |-> o.n, err |-> o.err]
  /\ request' = None
  /\ UNCHANGED sched

Drop ==
  /\ request # None
  /\ request' = None
  /\ UNCHANGED <<sched, io, result>>

Next == (\E q \in Requests : Begin(q)) \/ End \/ Drop

(* Whatever the initial state of the wrapper is.                           *)
Spec == request = None /\ [][Next]_vars
FairSpec == Spec /\ WF_vars(End)
=============================================================================
