----------------------------- MODULE AtomicClock -----------------------------
(***************************************************************************)
(* What a shared Clock promises: every skew is applied to the offset at a  *)
(* single instant between its call and its return, exactly once, with      *)
(* saturation, and a reset is a plain store.                               *)
(***************************************************************************)
EXTENDS Integers

CONSTANTS
  Threads,
  Lo, Hi,    \* the range of the offset
  None       \* no skew is pending

VARIABLES
  offset,    \* nanoseconds from the anchor
  pending    \* pending[t]: the skew thread t is applying, or None

vars == <<offset, pending>>

Saturate(x) == IF x < Lo THEN Lo ELSE IF x > Hi THEN Hi ELSE x

Init ==
  /\ offset = 0
  /\ pending = [t \in Threads |-> None]

Call(t, delta) ==
  /\ pending[t] = None
  /\ pending' = [pending EXCEPT ![t] = delta]
  /\ UNCHANGED offset

Apply(t) ==
  /\ pending[t] # None
  /\ offset' = Saturate(offset + pending[t])
  /\ pending' = [pending EXCEPT ![t] = None]

Reset(t) ==
  /\ pending[t] = None
  /\ offset' = 0
  /\ UNCHANGED pending

Next == \E t \in Threads : (\E d \in Lo..Hi : Call(t, d)) \/ Apply(t) \/ Reset(t)

Spec == Init /\ [][Next]_vars
=============================================================================
