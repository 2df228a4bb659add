--------------------------- MODULE LimitedInjector ---------------------------
(***************************************************************************)
(* What a FailureSchedule promises to the threads that share it, as one    *)
(* atomic budget: each firing call is decided at a single instant, is      *)
(* granted a failure exactly while fewer than `limit` have been granted,   *)
(* and reports what was decided.  Calls that do not fire leave no trace.   *)
(***************************************************************************)
EXTENDS Integers

CONSTANTS
  Threads,
  NoLimit    \* value of limit for an unbounded schedule

VARIABLES
  limit,     \* failures the schedule may inject, or NoLimit
  granted,   \* failures granted so far
  phase,     \* phase[t]: where thread t is in its current firing call
  emitted    \* failures reported to callers so far

vars == <<limit, granted, phase, emitted>>

Phases == {"idle", "asked", "granted", "denied"}

Init ==
  /\ limit \in Nat \cup {NoLimit}
  /\ granted = 0
  /\ phase = [t \in Threads |-> "idle"]
  /\ emitted = 0

(* Thread t makes a call whose attempt number fires.                       *)
Ask(t) ==
  /\ phase[t] = "idle"
  /\ phase' = [phase EXCEPT ![t] = "asked"]
  /\ UNCHANGED <<limit, granted, emitted>>

(* The budget has room: t's call will fail.                                *)
Grant(t) ==
  /\ phase[t] = "asked"
  /\ limit = NoLimit \/ granted < limit
  /\ granted' = granted + 1
  /\ phase' = [phase EXCEPT ![t] = "granted"]
  /\ UNCHANGED <<limit, emitted>>

(* The budget is used up: t's call will succeed.                           *)
Deny(t) ==
  /\ phase[t] = "asked"
  /\ granted = limit
  /\ phase' = [phase EXCEPT ![t] = "denied"]
  /\ UNCHANGED <<limit, granted, emitted>>

(* The call reports what was decided.                                      *)
Answer(t) ==
  /\ phase[t] \in {"granted", "denied"}
  /\ emitted' = IF phase[t] = "granted" THEN emitted + 1 ELSE emitted
  /\ phase' = [phase EXCEPT ![t] = "idle"]
  /\ UNCHANGED <<limit, granted>>

Next == \E t \in Threads : Ask(t) \/ Grant(t) \/ Deny(t) \/ Answer(t)

Spec == Init /\ [][Next]_vars

(* A call that was made is decided and answered: maybe_fail never waits.   *)
FairSpec == Spec /\ \A t \in Threads : WF_vars(Grant(t) \/ Deny(t) \/ Answer(t))
=============================================================================
