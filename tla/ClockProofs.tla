----------------------------- MODULE ClockProofs -----------------------------
(***************************************************************************)
(* Proofs about Clock, for every set of threads, every width of the offset *)
(* and every bound on the calls.                                           *)
(***************************************************************************)
EXTENDS Clock, TLAPS

-----------------------------------------------------------------------------
(* Lemmas about offsets and their modification order.                      *)

(* The range of the offset contains zero and its largest value.            *)
LEMMA RangeFacts == I64Max \in I64 /\ 0 \in I64 /\ \A x \in I64 : x \in Int
BY I64Assumption DEF I64, I64Min

(* saturating_add returns an offset.                                       *)
LEMMA SaturatingAddType ==
  ASSUME NEW x \in I64, NEW y \in I64
  PROVE  SaturatingAdd(x, y) \in I64
BY I64Assumption DEF SaturatingAdd, I64, I64Min

(* Adding what is not negative does not decrease an offset.                *)
LEMMA SaturatingAddGrows ==
  ASSUME NEW x \in I64, NEW y \in I64, y >= 0
  PROVE  SaturatingAdd(x, y) >= x
BY I64Assumption DEF SaturatingAdd, I64, I64Min

(* The conversion in advance never makes a duration negative.              *)
LEMMA DeltaNanosFacts ==
  ASSUME NEW d \in Durations
  PROVE  DeltaNanos(d) \in I64 /\ DeltaNanos(d) >= 0
<1>1. d \in Nat
  BY DurationsAssumption
<1>2. QED
  BY <1>1, RangeFacts, I64Assumption DEF DeltaNanos

(* A store is the last value of the modification order, and leaves the     *)
(* earlier ones alone.                                                     *)
LEMMA StoreFacts ==
  ASSUME NEW s \in Seq(I64), NEW v \in I64
  PROVE  /\ Append(s, v) \in Seq(I64)
         /\ Append(s, v) # <<>>
         /\ Len(Append(s, v)) = Len(s) + 1
         /\ Append(s, v)[Len(s) + 1] = v
         /\ \A i \in 1..Len(s) : Append(s, v)[i] = s[i]
OBVIOUS

(* Whatever a load returns is an offset.                                   *)
LEMMA ReadableFacts ==
  ASSUME TypeOK, NEW t \in Threads, NEW i \in Readable(t)
  PROVE  /\ i \in Nat \ {0}
         /\ i <= Len(values)
         /\ values[i] \in I64
<1>1. values \in Seq(I64) /\ known[t] \in Nat \ {0} /\ Len(values) \in Nat
  BY DEF TypeOK
<1>2. i \in 1..Len(values)
  BY <1>1 DEF Readable
<1>3. QED
  BY <1>1, <1>2

(* The shared offset is the last value stored.                             *)
LEMMA OffsetType ==
  ASSUME TypeOK
  PROVE  Offset \in I64 /\ Len(values) \in Nat \ {0}
BY DEF TypeOK, Offset

-----------------------------------------------------------------------------
(* Type correctness.                                                       *)

(* The start of a call keeps the types (advance, skew_by up to the loop).  *)
LEMMA StartSkewType ==
  ASSUME TypeOK, NEW t \in Threads, NEW d \in I64, StartSkew(t, d)
  PROVE  /\ values \in Seq(I64) /\ values' = values /\ floor' = floor
         /\ known' \in [Threads -> Nat \ {0}]
         /\ \A u \in Threads : known'[u] <= Len(values)
         /\ pc' \in [Threads -> {"idle", "cas"}]
         /\ delta' \in [Threads -> I64]
         /\ cur' \in [Threads -> I64]
         /\ writes' \in 0..MaxWrites
<1>1. PICK i \in Readable(t) : /\ known' = [known EXCEPT ![t] = i]
                               /\ cur' = [cur EXCEPT ![t] = values[i]]
  BY DEF StartSkew
<1>2. i \in Nat \ {0} /\ i <= Len(values) /\ values[i] \in I64
  BY ReadableFacts
<1>3. /\ known' \in [Threads -> Nat \ {0}]
      /\ \A u \in Threads : known'[u] <= Len(values)
      /\ cur' \in [Threads -> I64]
  BY <1>1, <1>2 DEF TypeOK
<1>4. writes' \in 0..MaxWrites
  BY MaxWritesAssumption DEF StartSkew, TypeOK
<1>5. QED
  BY <1>3, <1>4 DEF StartSkew, TypeOK

(* A store of an offset by t keeps the types of what it changes.           *)
LEMMA StoreType ==
  ASSUME TypeOK, NEW t \in Threads, NEW v \in I64,
         values' = Append(values, v),
         known' = [known EXCEPT ![t] = Len(values')]
  PROVE  /\ values' \in Seq(I64) /\ values' # <<>>
         /\ known' \in [Threads -> Nat \ {0}]
         /\ \A u \in Threads : known'[u] <= Len(values')
<1>1. /\ values \in Seq(I64) /\ Len(values) \in Nat
      /\ known \in [Threads -> Nat \ {0}]
      /\ \A u \in Threads : known[u] <= Len(values)
  BY DEF TypeOK
<1>2. /\ values' \in Seq(I64) /\ values' # <<>>
      /\ Len(values') = Len(values) + 1
  BY <1>1, StoreFacts
<1>3. QED
  BY <1>1, <1>2

(* The end of skew_by keeps the types.                                     *)
LEMMA EndSkewType ==
  ASSUME TypeOK, NEW t \in Threads, EndSkew(t)
  PROVE  /\ pc' \in [Threads -> {"idle", "cas"}]
         /\ delta' \in [Threads -> I64]
         /\ cur' \in [Threads -> I64]
         /\ floor' \in [Threads -> I64]
<1>1. SaturatingAdd(floor[t], delta[t]) \in I64
  BY SaturatingAddType DEF TypeOK
<1>2. QED
  BY <1>1, RangeFacts DEF TypeOK, EndSkew

(* The offset saturates at both ends, every load returns a value that was  *)
(* stored, and no thread knows of a store that was not made (Clock).       *)
THEOREM ClockTypeCorrect == Spec => []TypeOK
<1>1. Init => TypeOK
  <2> SUFFICES ASSUME Init PROVE TypeOK
    OBVIOUS
  <2>1. values \in Seq(I64) /\ values # <<>> /\ Len(values) = 1
    BY RangeFacts DEF Init
  <2>2. known \in [Threads -> Nat \ {0}] /\ \A t \in Threads : known[t] <= Len(values)
    BY <2>1 DEF Init
  <2>3. 0 \in 0..MaxWrites
    BY MaxWritesAssumption
  <2>4. QED
    BY <2>1, <2>2, <2>3, RangeFacts, Zenon DEF Init, TypeOK
<1>2. TypeOK /\ [Next]_vars => TypeOK'
  <2> SUFFICES ASSUME TypeOK, [Next]_vars
               PROVE  TypeOK'
    OBVIOUS
  <2>1. CASE UNCHANGED vars
    BY <2>1 DEF TypeOK, vars, history
  <2>2. ASSUME NEW t \in Threads, NEW d \in Durations, Advance(t, d)
        PROVE  TypeOK'
    <3>1. DeltaNanos(d) \in I64
      BY DeltaNanosFacts
    <3>2. StartSkew(t, DeltaNanos(d))
      BY <2>2 DEF Advance
    <3>3. QED
      BY <2>2, <3>1, <3>2, StartSkewType DEF TypeOK, Advance
  <2>3. ASSUME NEW t \in Threads, NEW d \in Skews, SkewBy(t, d)
        PROVE  TypeOK'
    <3>1. d \in I64
      BY SkewsAssumption
    <3>2. StartSkew(t, d)
      BY <2>3 DEF SkewBy
    <3>3. backward' \in BOOLEAN
      BY <2>3 DEF TypeOK, SkewBy
    <3>4. QED
      BY <2>3, <3>1, <3>2, <3>3, StartSkewType DEF TypeOK, SkewBy
  <2>4. ASSUME NEW t \in Threads, CasSucceed(t)
        PROVE  TypeOK'
    <3>1. SaturatingAdd(cur[t], delta[t]) \in I64
      BY SaturatingAddType DEF TypeOK
    <3>2. /\ values' \in Seq(I64) /\ values' # <<>>
          /\ known' \in [Threads -> Nat \ {0}]
          /\ \A u \in Threads : known'[u] <= Len(values')
      BY <2>4, <3>1, StoreType DEF CasSucceed
    <3>3. /\ pc' \in [Threads -> {"idle", "cas"}]
          /\ delta' \in [Threads -> I64]
          /\ cur' \in [Threads -> I64]
          /\ floor' \in [Threads -> I64]
      BY <2>4, EndSkewType DEF CasSucceed
    <3>4. QED
      BY <2>4, <3>2, <3>3 DEF TypeOK, CasSucceed
  <2>5. ASSUME NEW t \in Threads, CasFail(t)
        PROVE  TypeOK'
    <3>1. PICK i \in Readable(t) : /\ known' = [known EXCEPT ![t] = i]
                                   /\ cur' = [cur EXCEPT ![t] = values[i]]
      BY <2>5 DEF CasFail
    <3>2. i \in Nat \ {0} /\ i <= Len(values) /\ values[i] \in I64
      BY ReadableFacts
    <3>3. QED
      BY <2>5, <3>1, <3>2 DEF TypeOK, CasFail, history
  <2>6. ASSUME NEW t \in Threads, Reset(t)
        PROVE  TypeOK'
    <3>1. /\ values' \in Seq(I64) /\ values' # <<>>
          /\ known' \in [Threads -> Nat \ {0}]
          /\ \A u \in Threads : known'[u] <= Len(values')
      BY <2>6, RangeFacts, StoreType DEF Reset
    <3>2. writes' \in 0..MaxWrites
      BY <2>6, MaxWritesAssumption DEF TypeOK, Reset
    <3>3. QED
      BY <2>6, <3>1, <3>2 DEF TypeOK, Reset
  <2>7. ASSUME NEW t \in Threads, Now(t)
        PROVE  TypeOK'
    <3>1. PICK i \in Readable(t) : /\ known' = [known EXCEPT ![t] = i]
                                   /\ floor' = [floor EXCEPT ![t] = NowAt(i)]
      BY <2>7 DEF Now
    <3>2. i \in Nat \ {0} /\ i <= Len(values) /\ values[i] \in I64
      BY ReadableFacts
    <3>3. NowAt(i) \in I64
      BY <3>2, RangeFacts DEF NowAt
    <3>4. QED
      BY <2>7, <3>1, <3>2, <3>3 DEF TypeOK, Now
  <2>8. ASSUME NEW t \in Threads, NowSignedNs(t)
        PROVE  TypeOK'
    <3>1. PICK i \in Readable(t) : /\ known' = [known EXCEPT ![t] = i]
                                   /\ floor' = [floor EXCEPT ![t] = values[i]]
      BY <2>8 DEF NowSignedNs
    <3>2. i \in Nat \ {0} /\ i <= Len(values) /\ values[i] \in I64
      BY ReadableFacts
    <3>3. QED
      BY <2>8, <3>1, <3>2 DEF TypeOK, NowSignedNs
  <2>9. QED
    BY <2>1, <2>2, <2>3, <2>4, <2>5, <2>6, <2>7, <2>8 DEF Next
<1>3. QED
  BY <1>1, <1>2, PTL DEF Spec

-----------------------------------------------------------------------------
(* No advance moves time back.                                             *)

(* The delta of an advance in progress is not negative.                    *)
AdvanceForward ==
  \A t \in Threads : caller[t] = "advance" /\ pc[t] = "cas" => delta[t] >= 0

(* Every step keeps the deltas of advances from being negative.            *)
LEMMA StepAdvanceForward ==
  ASSUME TypeOK, AdvanceForward, [Next]_vars
  PROVE  AdvanceForward'
<1>1. CASE UNCHANGED vars
  BY <1>1 DEF AdvanceForward, vars, history
<1>2. ASSUME NEW t \in Threads, NEW d \in Durations, Advance(t, d)
      PROVE  AdvanceForward'
  <2>1. DeltaNanos(d) >= 0
    BY DeltaNanosFacts
  <2>2. QED
    BY <1>2, <2>1 DEF AdvanceForward, TypeOK, Advance, StartSkew
<1>3. ASSUME NEW t \in Threads, NEW d \in Skews, SkewBy(t, d)
      PROVE  AdvanceForward'
  BY <1>3 DEF AdvanceForward, TypeOK, SkewBy, StartSkew
<1>4. ASSUME NEW t \in Threads, CasSucceed(t)
      PROVE  AdvanceForward'
  BY <1>4 DEF AdvanceForward, TypeOK, CasSucceed, EndSkew
<1>5. ASSUME NEW t \in Threads,
             CasFail(t) \/ Reset(t) \/ Now(t) \/ NowSignedNs(t)
      PROVE  AdvanceForward'
  BY <1>5 DEF AdvanceForward, CasFail, Reset, Now, NowSignedNs, history
<1>6. QED
  BY <1>1, <1>2, <1>3, <1>4, <1>5 DEF Next

(* A call in the loop of skew_by only leaves it by storing.                *)
LEMMA OnlyCasSucceedReturns ==
  ASSUME TypeOK, [Next]_vars, NEW t \in Threads, pc[t] = "cas", pc'[t] = "idle"
  PROVE  CasSucceed(t)
<1>1. CASE UNCHANGED vars
  BY <1>1 DEF vars
<1>2. ASSUME NEW u \in Threads, NEW d \in Durations, Advance(u, d)
      PROVE  FALSE
  BY <1>2 DEF TypeOK, Advance, StartSkew
<1>3. ASSUME NEW u \in Threads, NEW d \in Skews, SkewBy(u, d)
      PROVE  FALSE
  BY <1>3 DEF TypeOK, SkewBy, StartSkew
<1>4. ASSUME NEW u \in Threads, CasSucceed(u), u # t
      PROVE  FALSE
  BY <1>4 DEF TypeOK, CasSucceed, EndSkew
<1>5. ASSUME NEW u \in Threads,
             CasFail(u) \/ Reset(u) \/ Now(u) \/ NowSignedNs(u)
      PROVE  FALSE
  BY <1>5 DEF CasFail, Reset, Now, NowSignedNs
<1>6. QED
  BY <1>1, <1>2, <1>3, <1>4, <1>5 DEF Next

(* Whatever other threads do, and of however large a duration, an advance  *)
(* never leaves the shared offset lower than it was (advance, skew_by).    *)
THEOREM NoAdvanceBack == Spec => AdvanceNeverMovesBack
<1>1. Init => AdvanceForward
  BY DEF Init, AdvanceForward
<1>2. TypeOK /\ AdvanceForward /\ [Next]_vars =>
        [\A t \in Threads :
           caller[t] = "advance" /\ pc[t] = "cas" /\ pc'[t] = "idle"
             => Offset' >= Offset]_vars
  <2> SUFFICES ASSUME TypeOK, AdvanceForward, [Next]_vars, NEW t \in Threads,
                      caller[t] = "advance", pc[t] = "cas", pc'[t] = "idle"
               PROVE  Offset' >= Offset
    OBVIOUS
  <2>1. CasSucceed(t)
    BY OnlyCasSucceedReturns
  <2>2. /\ values \in Seq(I64) /\ Len(values) \in Nat
        /\ cur[t] \in I64 /\ delta[t] \in I64 /\ delta[t] >= 0
    BY DEF TypeOK, AdvanceForward
  <2>3. SaturatingAdd(cur[t], delta[t]) \in I64
    BY <2>2, SaturatingAddType
  <2>4. Offset' = SaturatingAdd(cur[t], delta[t])
    BY <2>1, <2>2, <2>3, StoreFacts DEF Offset, CasSucceed
  <2>5. SaturatingAdd(cur[t], delta[t]) >= cur[t]
    BY <2>2, SaturatingAddGrows
  <2>6. QED
    BY <2>1, <2>4, <2>5 DEF CasSucceed
<1>3. TypeOK /\ AdvanceForward /\ [Next]_vars => AdvanceForward'
  BY StepAdvanceForward
<1>4. QED
  BY <1>1, <1>2, <1>3, ClockTypeCorrect, PTL DEF Spec, AdvanceNeverMovesBack

-----------------------------------------------------------------------------
(* Refinement.                                                             *)

(* The pending skews of the abstract clock.                                *)
Pending == [t \in Threads |-> IF pc[t] = "cas" THEN delta[t] ELSE I64Max + 1]

(* A delta is never taken for None.                                        *)
LEMMA PendingFacts ==
  ASSUME TypeOK, NEW t \in Threads
  PROVE  /\ pc[t] = "idle" => Pending[t] = I64Max + 1
         /\ pc[t] = "cas" => Pending[t] = delta[t] /\ Pending[t] # I64Max + 1
<1>1. delta[t] \in I64 /\ I64Max + 1 \notin I64
  BY I64Assumption DEF TypeOK, I64, I64Min
<1>2. QED
  BY <1>1 DEF Pending

(* skew_by adds with the saturation of the abstract clock.                 *)
LEMMA SameSaturation ==
  ASSUME NEW x \in I64, NEW y \in I64
  PROVE  SaturatingAdd(x, y) = Atomic!Saturate(x + y)
BY I64Assumption DEF SaturatingAdd, Atomic!Saturate, I64, I64Min

(* The start of a call is the call of the abstract clock.                  *)
LEMMA StartIsCall ==
  ASSUME TypeOK, NEW t \in Threads, NEW d \in I64, StartSkew(t, d)
  PROVE  Atomic!Call(t, d)
<1>1. pc[t] = "idle" /\ Offset' = Offset
  BY DEF StartSkew, Offset
<1>2. Pending' = [Pending EXCEPT ![t] = d]
  BY DEF TypeOK, StartSkew, Pending
<1>3. QED
  BY <1>1, <1>2, PendingFacts DEF Atomic!Call, Pending

(* The compare_exchange that succeeds is the instant of the addition.      *)
LEMMA CasIsApply ==
  ASSUME TypeOK, NEW t \in Threads, CasSucceed(t)
  PROVE  Atomic!Apply(t)
<1>1. /\ values \in Seq(I64) /\ cur[t] \in I64 /\ delta[t] \in I64
      /\ pc[t] = "cas" /\ Offset = cur[t]
  BY DEF TypeOK, CasSucceed
<1>2. SaturatingAdd(cur[t], delta[t]) \in I64
  BY <1>1, SaturatingAddType
<1>3. Offset' = SaturatingAdd(cur[t], delta[t])
  BY <1>1, <1>2, StoreFacts DEF Offset, CasSucceed
<1>4. Offset' = Atomic!Saturate(Offset + Pending[t])
  BY <1>1, <1>3, SameSaturation, PendingFacts
<1>5. Pending' = [Pending EXCEPT ![t] = I64Max + 1]
  BY DEF TypeOK, CasSucceed, EndSkew, Pending
<1>6. QED
  BY <1>1, <1>4, <1>5, PendingFacts DEF Atomic!Apply, Pending

(* A reset is a plain store.                                               *)
LEMMA ResetIsReset ==
  ASSUME TypeOK, NEW t \in Threads, Reset(t)
  PROVE  Atomic!Reset(t)
<1>1. values \in Seq(I64) /\ pc[t] = "idle"
  BY DEF TypeOK, Reset
<1>2. Offset' = 0
  BY <1>1, RangeFacts, StoreFacts DEF Offset, Reset
<1>3. Pending' = Pending
  BY DEF Reset, Pending
<1>4. QED
  BY <1>1, <1>2, <1>3, PendingFacts DEF Atomic!Reset, Pending

(* `concurrent_advances_are_not_lost': for any number of threads and any   *)
(* width of the offset, every call of advance and skew_by is one atomic    *)
(* saturating addition, and every reset one store.                         *)
THEOREM ClockIsAtomic == Spec => ImplementsAtomicClock
<1>1. Init => Atomic!Init
  BY DEF Init, Atomic!Init, Offset
<1>2. TypeOK /\ [Next]_vars => [Atomic!Next]_(Atomic!vars)
  <2> SUFFICES ASSUME TypeOK, [Next]_vars
               PROVE  Atomic!Next \/ UNCHANGED Atomic!vars
    OBVIOUS
  <2>1. CASE UNCHANGED vars
    BY <2>1 DEF vars, Atomic!vars, Offset
  <2>2. ASSUME NEW t \in Threads, NEW d \in Durations, Advance(t, d)
        PROVE  Atomic!Next
    <3>1. DeltaNanos(d) \in I64 /\ StartSkew(t, DeltaNanos(d))
      BY <2>2, DeltaNanosFacts DEF Advance
    <3>2. QED
      BY <3>1, StartIsCall DEF Atomic!Next, I64
  <2>3. ASSUME NEW t \in Threads, NEW d \in Skews, SkewBy(t, d)
        PROVE  Atomic!Next
    <3>1. d \in I64 /\ StartSkew(t, d)
      BY <2>3, SkewsAssumption DEF SkewBy
    <3>2. QED
      BY <3>1, StartIsCall DEF Atomic!Next, I64
  <2>4. ASSUME NEW t \in Threads, CasSucceed(t)
        PROVE  Atomic!Next
    BY <2>4, CasIsApply DEF Atomic!Next
  <2>5. ASSUME NEW t \in Threads, CasFail(t) \/ Now(t) \/ NowSignedNs(t)
        PROVE  UNCHANGED Atomic!vars
    BY <2>5 DEF CasFail, Now, NowSignedNs, Atomic!vars, Offset
  <2>6. ASSUME NEW t \in Threads, Reset(t)
        PROVE  Atomic!Next
    BY <2>6, ResetIsReset DEF Atomic!Next
  <2>7. QED
    BY <2>1, <2>2, <2>3, <2>4, <2>5, <2>6 DEF Next
<1>3. QED
  BY <1>1, <1>2, ClockTypeCorrect, PTL DEF Spec, ImplementsAtomicClock, Atomic!Spec

-----------------------------------------------------------------------------
(* A thread sees its own advances.                                         *)

(* While nobody moves the clock back, the values stored are not negative   *)
(* and never decrease, every skew in progress goes forward, and what a     *)
(* thread may rely on is covered by the oldest value it may still read.    *)
Rising == \A i, j \in 1..Len(values) : i <= j => 0 <= values[i] /\ values[i] <= values[j]
Forward == \A t \in Threads : pc[t] = "cas" => delta[t] >= 0
Covered == \A t \in Threads : floor[t] <= values[known[t]]

ForwardInv == ~ backward => Rising /\ Forward /\ Covered

(* A store of a value not below the last one keeps the order.              *)
LEMMA StoreRises ==
  ASSUME TypeOK, Rising, NEW v \in I64, v >= Offset, values' = Append(values, v)
  PROVE  Rising'
<1>1. values \in Seq(I64) /\ Len(values) \in Nat \ {0}
  BY OffsetType DEF TypeOK
<1>2. /\ Len(values') = Len(values) + 1
      /\ values'[Len(values) + 1] = v
      /\ \A i \in 1..Len(values) : values'[i] = values[i] /\ values[i] \in I64
  BY <1>1, StoreFacts
<1>3. \A i \in 1..Len(values) : 0 <= values[i] /\ values[i] <= v
  <2> SUFFICES ASSUME NEW i \in 1..Len(values)
               PROVE  0 <= values[i] /\ values[i] <= v
    OBVIOUS
  <2>1. Len(values) \in 1..Len(values) /\ i <= Len(values)
    BY <1>1
  <2>2. 0 <= values[i] /\ values[i] <= Offset /\ Offset \in I64
    BY <2>1, OffsetType DEF Rising, Offset
  <2>3. QED
    BY <1>2, <2>2, RangeFacts
<1>4. SUFFICES ASSUME NEW i \in 1..Len(values'), NEW j \in 1..Len(values'), i <= j
               PROVE  0 <= values'[i] /\ values'[i] <= values'[j]
  BY DEF Rising
<1>5. CASE j \in 1..Len(values)
  <2>1. i \in 1..Len(values)
    BY <1>1, <1>4, <1>5
  <2>2. QED
    BY <1>2, <1>4, <1>5, <2>1 DEF Rising
<1>6. CASE j = Len(values) + 1 /\ i \in 1..Len(values)
  BY <1>2, <1>3, <1>6
<1>7. CASE j = Len(values) + 1 /\ i = Len(values) + 1
  <2>1. 0 <= v /\ v <= v
    <3>1. Len(values) \in 1..Len(values)
      BY <1>1
    <3>2. QED
      BY <1>2, <1>3, <3>1, RangeFacts
  <2>2. QED
    BY <1>2, <1>7, <2>1
<1>8. QED
  BY <1>1, <1>2, <1>4, <1>5, <1>6, <1>7

(* What a thread may rely on is covered by every value it may read.        *)
LEMMA CoveredReads ==
  ASSUME TypeOK, Rising, Covered, NEW t \in Threads, NEW i \in Readable(t)
  PROVE  floor[t] <= values[i] /\ NowAt(i) = values[i]
<1>1. /\ values \in Seq(I64) /\ Len(values) \in Nat
      /\ known[t] \in 1..Len(values) /\ i \in 1..Len(values) /\ known[t] <= i
      /\ floor[t] \in I64
  BY DEF TypeOK, Readable
<1>2. 0 <= values[known[t]] /\ values[known[t]] <= values[i] /\ 0 <= values[i]
  BY <1>1 DEF Rising
<1>3. values[known[t]] \in I64 /\ values[i] \in I64
  BY <1>1
<1>4. floor[t] <= values[known[t]]
  BY DEF Covered
<1>5. QED
  BY <1>1, <1>2, <1>3, <1>4, RangeFacts DEF NowAt

(* saturating_add is monotone.                                             *)
LEMMA SaturatingAddMonotone ==
  ASSUME NEW x \in I64, NEW y \in I64, NEW z \in I64, x <= y
  PROVE  SaturatingAdd(x, z) <= SaturatingAdd(y, z)
BY I64Assumption DEF SaturatingAdd, I64, I64Min

(* A step that reads an offset, and may set the floor to what it read,     *)
(* keeps the floors covered.                                               *)
LEMMA ReadCovers ==
  ASSUME TypeOK, Rising, Covered, NEW t \in Threads, NEW i \in Readable(t),
         values' = values, known' = [known EXCEPT ![t] = i],
         \/ floor' = floor
         \/ floor' = [floor EXCEPT ![t] = NowAt(i)]
  PROVE  Covered'
<1> SUFFICES ASSUME NEW u \in Threads
             PROVE  floor'[u] <= values'[known'[u]]
  BY DEF Covered
<1>1. CASE u = t
  <2>1. known'[t] = i /\ floor[t] <= values[i] /\ NowAt(i) = values[i] /\ values[i] \in I64
    BY CoveredReads, ReadableFacts DEF TypeOK
  <2>2. floor'[t] = floor[t] \/ floor'[t] = values[i]
    BY <2>1 DEF TypeOK
  <2>3. QED
    BY <1>1, <2>1, <2>2, RangeFacts DEF TypeOK
<1>2. CASE u # t
  <2>1. known'[u] = known[u] /\ floor'[u] = floor[u]
    BY <1>2 DEF TypeOK
  <2>2. QED
    BY <2>1 DEF Covered
<1>3. QED
  BY <1>1, <1>2

(* Every step keeps the order of the values until a clock is moved back.   *)
LEMMA StepForwardInv ==
  ASSUME TypeOK, ForwardInv, [Next]_vars
  PROVE  ForwardInv'
<1> SUFFICES ASSUME ~ backward'
             PROVE  Rising' /\ Forward' /\ Covered'
  BY DEF ForwardInv
<1>1. CASE UNCHANGED vars
  BY <1>1 DEF ForwardInv, Rising, Forward, Covered, vars, history
<1>2. ASSUME NEW t \in Threads, NEW d \in I64, d >= 0, StartSkew(t, d), ~ backward
      PROVE  Rising' /\ Forward' /\ Covered'
  <2>1. Rising /\ Forward /\ Covered
    BY <1>2 DEF ForwardInv
  <2>2. PICK i \in Readable(t) : known' = [known EXCEPT ![t] = i]
    BY <1>2 DEF StartSkew
  <2>3. Covered'
    BY <1>2, <2>1, <2>2, ReadCovers DEF StartSkew
  <2>4. Rising' /\ Forward'
    BY <1>2, <2>1 DEF StartSkew, Rising, Forward, TypeOK
  <2>5. QED
    BY <2>3, <2>4
<1>3. ASSUME NEW t \in Threads, NEW d \in Durations, Advance(t, d)
      PROVE  Rising' /\ Forward' /\ Covered'
  BY <1>2, <1>3, DeltaNanosFacts DEF Advance
<1>4. ASSUME NEW t \in Threads, NEW d \in Skews, SkewBy(t, d)
      PROVE  Rising' /\ Forward' /\ Covered'
  <2>1. d \in I64 /\ ~ (d < 0) /\ ~ backward /\ StartSkew(t, d)
    BY <1>4, SkewsAssumption DEF SkewBy
  <2>2. d >= 0
    BY <2>1, RangeFacts
  <2>3. QED
    BY <1>2, <2>1, <2>2
<1>5. ASSUME NEW t \in Threads, CasSucceed(t)
      PROVE  Rising' /\ Forward' /\ Covered'
  <2>1. Rising /\ Forward /\ Covered
    BY <1>5 DEF ForwardInv, CasSucceed
  <2>2. /\ values \in Seq(I64) /\ Len(values) \in Nat \ {0}
        /\ cur[t] \in I64 /\ delta[t] \in I64 /\ delta[t] >= 0
        /\ floor[t] \in I64 /\ Offset = cur[t]
    BY <1>5, <2>1, OffsetType DEF TypeOK, Forward, CasSucceed
  <2> DEFINE sum == SaturatingAdd(cur[t], delta[t])
  <2>3. sum \in I64 /\ sum >= Offset
    BY <2>2, SaturatingAddType, SaturatingAddGrows
  <2>4. values' = Append(values, sum)
    BY <1>5 DEF CasSucceed
  <2>5. Rising'
    BY <2>1, <2>3, <2>4, StoreRises
  <2>6. Forward'
    BY <1>5, <2>1 DEF TypeOK, Forward, CasSucceed, EndSkew
  <2>7. Covered'
    <3> SUFFICES ASSUME NEW u \in Threads
                 PROVE  floor'[u] <= values'[known'[u]]
      BY DEF Covered
    <3>1. CASE u = t
      <4>1. Len(values) \in Readable(t)
        BY <2>2 DEF TypeOK, Readable
      <4>2. floor[t] <= cur[t]
        BY <2>1, <2>2, <4>1, CoveredReads DEF Offset
      <4>3. floor'[t] = SaturatingAdd(floor[t], delta[t])
        BY <1>5 DEF TypeOK, CasSucceed, EndSkew
      <4>4. values'[known'[t]] = sum
        BY <1>5, <2>2, <2>3, <2>4, StoreFacts DEF TypeOK, CasSucceed
      <4>5. SaturatingAdd(floor[t], delta[t]) <= sum
        BY <2>2, <4>2, SaturatingAddMonotone
      <4>6. QED
        BY <3>1, <4>3, <4>4, <4>5
    <3>2. CASE u # t
      <4>1. known'[u] = known[u] /\ floor'[u] = floor[u]
        BY <1>5, <3>2 DEF TypeOK, CasSucceed, EndSkew
      <4>2. known[u] \in 1..Len(values)
        BY <2>2 DEF TypeOK
      <4>3. values'[known[u]] = values[known[u]]
        BY <2>2, <2>3, <2>4, <4>2, StoreFacts
      <4>4. QED
        BY <2>1, <4>1, <4>3 DEF Covered
    <3>3. QED
      BY <3>1, <3>2
  <2>8. QED
    BY <2>5, <2>6, <2>7
<1>6. ASSUME NEW t \in Threads, CasFail(t)
      PROVE  Rising' /\ Forward' /\ Covered'
  <2>1. Rising /\ Forward /\ Covered
    BY <1>6 DEF ForwardInv, CasFail, history
  <2>2. PICK i \in Readable(t) : known' = [known EXCEPT ![t] = i]
    BY <1>6 DEF CasFail
  <2>3. Covered'
    BY <1>6, <2>1, <2>2, ReadCovers DEF CasFail, history
  <2>4. QED
    BY <1>6, <2>1, <2>3 DEF CasFail, Rising, Forward
<1>7. ASSUME NEW t \in Threads, Reset(t)
      PROVE  FALSE
  BY <1>7 DEF Reset
<1>8. ASSUME NEW t \in Threads, Now(t)
      PROVE  Rising' /\ Forward' /\ Covered'
  <2>1. Rising /\ Forward /\ Covered
    BY <1>8 DEF ForwardInv, Now
  <2>2. PICK i \in Readable(t) : /\ known' = [known EXCEPT ![t] = i]
                                 /\ floor' = [floor EXCEPT ![t] = NowAt(i)]
    BY <1>8 DEF Now
  <2>3. Covered'
    BY <1>8, <2>1, <2>2, ReadCovers DEF Now
  <2>4. QED
    BY <1>8, <2>1, <2>3 DEF Now, Rising, Forward
<1>9. ASSUME NEW t \in Threads, NowSignedNs(t)
      PROVE  Rising' /\ Forward' /\ Covered'
  <2>1. Rising /\ Forward /\ Covered
    BY <1>9 DEF ForwardInv, NowSignedNs
  <2>2. PICK i \in Readable(t) : /\ known' = [known EXCEPT ![t] = i]
                                 /\ floor' = [floor EXCEPT ![t] = values[i]]
    BY <1>9 DEF NowSignedNs
  <2>3. NowAt(i) = values[i]
    BY <2>1, CoveredReads
  <2>4. Covered'
    BY <1>9, <2>1, <2>2, <2>3, ReadCovers DEF NowSignedNs
  <2>5. QED
    BY <1>9, <2>1, <2>4 DEF NowSignedNs, Rising, Forward
<1>10. QED
  BY <1>1, <1>3, <1>4, <1>5, <1>6, <1>7, <1>8, <1>9 DEF Next

(* While nobody moves the clock back, a thread that read x and             *)
(* then advanced by d never reads less than x + d again: relaxed accesses  *)
(* and racing advances included (skew_by, now).                            *)
THEOREM AdvancesVisible == Spec => []OwnAdvancesVisible
<1>1. Init => ForwardInv
  <2> SUFFICES ASSUME Init
               PROVE  Rising /\ Forward /\ Covered
    BY DEF ForwardInv
  <2>1. values = <<0>> /\ Len(values) = 1 /\ values[1] = 0
    BY DEF Init
  <2>2. QED
    BY <2>1 DEF Init, Rising, Forward, Covered
<1>2. TypeOK /\ ForwardInv /\ [Next]_vars => ForwardInv'
  BY StepForwardInv
<1>3. TypeOK /\ ForwardInv => OwnAdvancesVisible
  <2> SUFFICES ASSUME TypeOK, ForwardInv, ~ backward,
                      NEW t \in Threads, NEW i \in Readable(t)
               PROVE  NowAt(i) >= floor[t]
    BY DEF OwnAdvancesVisible
  <2>1. floor[t] <= values[i] /\ NowAt(i) = values[i]
    BY CoveredReads DEF ForwardInv
  <2>2. values[i] \in I64 /\ floor[t] \in I64
    BY ReadableFacts DEF TypeOK
  <2>3. QED
    BY <2>1, <2>2, RangeFacts
<1>4. QED
  BY <1>1, <1>2, <1>3, ClockTypeCorrect, PTL DEF Spec
=============================================================================
