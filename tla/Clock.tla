-------------------------------- MODULE Clock --------------------------------
(***************************************************************************)
(* A virtual clock whose clones share one AtomicI64, offset_ns.  Every     *)
(* access is Ordering::Relaxed, so the atomic is modelled by its           *)
(* modification order: the sequence of values stored in it.  A load, and   *)
(* the load of a compare_exchange that fails, may return any value at or   *)
(* after the latest one its thread knows of; a successful                  *)
(* compare_exchange and a store act on the end of the sequence.            *)
(***************************************************************************)
EXTENDS Integers, Sequences

CONSTANTS
  Threads,     \* the threads that hold a clone of the clock
  I64Max,      \* largest offset; the smallest is -I64Max - 1
  Durations,   \* nanoseconds passed to advance, possibly above I64Max
  Skews,       \* nanoseconds passed to skew_by
  MaxWrites    \* bound on the calls of advance, skew_by and reset

I64Min == -I64Max - 1
I64 == I64Min..I64Max

ASSUME I64Assumption == I64Max \in Nat
ASSUME DurationsAssumption == Durations \subseteq Nat
ASSUME SkewsAssumption == Skews \subseteq I64
ASSUME MaxWritesAssumption == MaxWrites \in Nat

VARIABLES
  values,    \* modification order of offset_ns
  known,     \* known[t]: index of the latest value thread t knows of
  pc,        \* pc[t]: "idle", or "cas" inside the loop of skew_by
  delta,     \* delta[t]: the argument of skew_by
  cur,       \* cur[t]: the value the next compare_exchange expects
  (* History variables.                                                    *)
  caller,    \* caller[t]: "advance" or "skew_by", for a call in progress
  writes,    \* calls of advance, skew_by and reset made
  backward,  \* has a reset, or a skew_by with delta < 0, been called?
  floor      \* floor[t]: the time thread t may rely on; see OwnAdvancesVisible

history == <<caller, writes, backward, floor>>
vars == <<values, known, pc, delta, cur, history>>

Offset == values[Len(values)]

Init ==
  /\ values = <<0>>
  /\ known = [t \in Threads |-> 1]
  /\ pc = [t \in Threads |-> "idle"]
  /\ delta = [t \in Threads |-> 0]
  /\ cur = [t \in Threads |-> 0]
  /\ caller = [t \in Threads |-> "skew_by"]
  /\ writes = 0
  /\ backward = FALSE
  /\ floor = [t \in Threads |-> 0]

Readable(t) == known[t]..Len(values)

-----------------------------------------------------------------------------
(* Mutants: the sum saturates at the top only; it wraps around.            *)
SaturateTopOnly(x, y) == IF x + y > I64Max THEN I64Max ELSE x + y
WrappingAdd(x, y) == ((x + y - I64Min) % (I64Max - I64Min + 1)) + I64Min

(* i64::saturating_add                                                     *)
SaturatingAdd(x, y) ==
  IF x + y > I64Max THEN I64Max ELSE IF x + y < I64Min THEN I64Min ELSE x + y

(* Mutant: delta.as_nanos() as i64.                                        *)
TruncatedNanos(d) == ((d - I64Min) % (I64Max - I64Min + 1)) + I64Min

(* i64::try_from(delta.as_nanos()).unwrap_or(i64::MAX)                     *)
DeltaNanos(d) == IF d \in I64 THEN d ELSE I64Max

(* The call of skew_by(d) up to its first load.                            *)
StartSkew(t, d) ==
  /\ pc[t] = "idle"
  /\ writes < MaxWrites
  /\ \E i \in Readable(t) :
       /\ known' = [known EXCEPT ![t] = i]
       /\ cur' = [cur EXCEPT ![t] = values[i]]
  /\ delta' = [delta EXCEPT ![t] = d]
  /\ pc' = [pc EXCEPT ![t] = "cas"]
  /\ writes' = writes + 1
  /\ UNCHANGED <<values, floor>>

Advance(t, d) ==
  /\ StartSkew(t, DeltaNanos(d))
  /\ caller' = [caller EXCEPT ![t] = "advance"]
  /\ UNCHANGED backward

SkewBy(t, d) ==
  /\ StartSkew(t, d)
  /\ caller' = [caller EXCEPT ![t] = "skew_by"]
  /\ backward' = (backward \/ d < 0)

(* skew_by returns; its local variables are gone.                          *)
EndSkew(t) ==
  /\ pc' = [pc EXCEPT ![t] = "idle"]
  /\ delta' = [delta EXCEPT ![t] = 0]
  /\ cur' = [cur EXCEPT ![t] = 0]
  /\ floor' = [floor EXCEPT ![t] = SaturatingAdd(@, delta[t])]

(* Mutant: a plain store where the compare_exchange is.                    *)
BlindStore(t) ==
  /\ pc[t] = "cas"
  /\ values' = Append(values, SaturatingAdd(cur[t], delta[t]))
  /\ known' = [known EXCEPT ![t] = Len(values')]
  /\ EndSkew(t)
  /\ UNCHANGED <<caller, writes, backward>>

(* compare_exchange_weak finds what it expects.                            *)
CasSucceed(t) ==
  /\ pc[t] = "cas"
  /\ Offset = cur[t]
  /\ values' = Append(values, SaturatingAdd(cur[t], delta[t]))
  /\ known' = [known EXCEPT ![t] = Len(values')]
  /\ EndSkew(t)
  /\ UNCHANGED <<caller, writes, backward>>

(* Mutant: the loop keeps the value it first loaded.                       *)
CasFailKeep(t) ==
  /\ pc[t] = "cas"
  /\ \E i \in Readable(t) : known' = [known EXCEPT ![t] = i]
  /\ UNCHANGED <<values, pc, delta, cur, history>>

(* compare_exchange_weak fails, possibly for no reason, and the loop goes  *)
(* on with the value it found.                                             *)
CasFail(t) ==
  /\ pc[t] = "cas"
  /\ \E i \in Readable(t) :
       /\ known' = [known EXCEPT ![t] = i]
       /\ cur' = [cur EXCEPT ![t] = values[i]]
  /\ UNCHANGED <<values, pc, delta, history>>

Reset(t) ==
  /\ pc[t] = "idle"
  /\ writes < MaxWrites
  /\ values' = Append(values, 0)
  /\ known' = [known EXCEPT ![t] = Len(values')]
  /\ writes' = writes + 1
  /\ backward' = TRUE
  /\ UNCHANGED <<pc, delta, cur, caller, floor>>

(* now() of the value at index i of the modification order.                *)
NowAt(i) == IF values[i] >= 0 THEN values[i] ELSE 0

Now(t) ==
  /\ pc[t] = "idle"
  /\ \E i \in Readable(t) :
       /\ known' = [known EXCEPT ![t] = i]
       /\ floor' = [floor EXCEPT ![t] = NowAt(i)]
  /\ UNCHANGED <<values, pc, delta, cur, caller, writes, backward>>

(* now_signed_ns() does not clamp.                                         *)
NowSignedNs(t) ==
  /\ pc[t] = "idle"
  /\ \E i \in Readable(t) :
       /\ known' = [known EXCEPT ![t] = i]
       /\ floor' = [floor EXCEPT ![t] = values[i]]
  /\ UNCHANGED <<values, pc, delta, cur, caller, writes, backward>>

-----------------------------------------------------------------------------
Next ==
  \E t \in Threads :
    \/ \E d \in Durations : Advance(t, d)
    \/ \E d \in Skews : SkewBy(t, d)
    \/ CasSucceed(t)
    \/ CasFail(t)
    \/ Reset(t)
    \/ Now(t)
    \/ NowSignedNs(t)

Spec == Init /\ [][Next]_vars

(* A failed compare_exchange that has caught up with the last store.       *)
CasCatchUp(t) == CasFail(t) /\ known'[t] = Len(values)

(* A thread in the loop keeps running, stores become visible to it in      *)
(* finite time, and compare_exchange_weak does not fail for no reason      *)
(* forever.  Nothing says that another thread ever stops interfering:      *)
(* that only follows from MaxWrites.                                       *)
FairSpec ==
  /\ Spec
  /\ \A t \in Threads : WF_vars(CasCatchUp(t)) /\ WF_vars(CasSucceed(t))
-----------------------------------------------------------------------------
(* Properties.                                                             *)

TypeOK ==
  /\ values \in Seq(I64) /\ values # <<>>
  /\ known \in [Threads -> Nat \ {0}]
  /\ \A t \in Threads : known[t] <= Len(values)
  /\ pc \in [Threads -> {"idle", "cas"}]
  /\ delta \in [Threads -> I64]
  /\ cur \in [Threads -> I64]
  /\ caller \in [Threads -> {"advance", "skew_by"}]
  /\ writes \in 0..MaxWrites
  /\ backward \in BOOLEAN
  /\ floor \in [Threads -> I64]

(* A return of advance, of however large a duration, never leaves the      *)
(* shared offset lower than it was (advance, skew_by).                     *)
AdvanceNeverMovesBack ==
  [][\A t \in Threads :
       caller[t] = "advance" /\ pc[t] = "cas" /\ pc'[t] = "idle"
         => Offset' >= Offset]_vars

(* While nobody moves the clock back, a thread that read x, by now or by   *)
(* now_signed_ns, and then advanced by d reads at least x + d from then on *)
(* (or the largest offset): no advance is lost to another thread's, and no *)
(* stale value is read again (skew_by, now).                               *)
OwnAdvancesVisible ==
  ~ backward => \A t \in Threads : \A i \in Readable(t) : NowAt(i) >= floor[t]

Atomic == INSTANCE AtomicClock
            WITH Lo      <- I64Min,
                 Hi      <- I64Max,
                 None    <- I64Max + 1,
                 offset  <- Offset,
                 pending <- [t \in Threads |->
                              IF pc[t] = "cas" THEN delta[t] ELSE I64Max + 1]

(* The loop of skew_by, racing with other skews and resets, is one atomic  *)
(* saturating addition (`concurrent_advances_are_not_lost').               *)
ImplementsAtomicClock == Atomic!Spec

(* skew_by returns once the other threads let it: the loop adopts what the *)
(* failed compare_exchange found.                                          *)
SkewByReturns == \A t \in Threads : pc[t] = "cas" ~> pc[t] = "idle"
=============================================================================
