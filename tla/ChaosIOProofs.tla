---------------------------- MODULE ChaosIOProofs ----------------------------
(***************************************************************************)
(* Facts about schedules and about the operations that consult them, which *)
(* the proofs of the components cite.                                      *)
(***************************************************************************)
EXTENDS ChaosIO, SequenceTheorems, WellFoundedInduction, TLAPS

-----------------------------------------------------------------------------
(* The counter and the limit.                                              *)

(* The value of a counter is a usize.                                      *)
LEMMA WrapType ==
  ASSUME NEW k \in Nat
  PROVE  Wrap(k) \in 0..UsizeMax
BY UsizeMaxAssumption DEF Wrap

(* A counter that has not wrapped holds the number of its increments.      *)
LEMMA WrapSmall ==
  ASSUME NEW k \in 0..UsizeMax
  PROVE  Wrap(k) = k
BY UsizeMaxAssumption DEF Wrap

(* failure_count() is a usize.                                             *)
LEMMA FailureCountType ==
  ASSUME NEW limit \in Nat \cup {NoLimit}, NEW k \in Nat
  PROVE  FailureCount(limit, k) \in Nat
BY WrapType, UsizeMaxAssumption DEF FailureCount, NoLimit

(* Until the counter wraps, an increment raises failure_count() by one     *)
(* exactly when the call that made it injects a failure.                   *)
LEMMA FailureCountStep ==
  ASSUME NEW limit \in Nat \cup {NoLimit}, NEW k \in Nat, k + 1 <= UsizeMax
  PROVE  FailureCount(limit, k + 1) =
           IF Injects(limit, Wrap(k)) THEN FailureCount(limit, k) + 1
                                      ELSE FailureCount(limit, k)
<1>1. Wrap(k) = k /\ Wrap(k + 1) = k + 1
  BY WrapSmall, UsizeMaxAssumption
<1>2. QED
  BY <1>1 DEF FailureCount, Injects, NoLimit

(* Until the counter wraps, failure_count() grows with the counter.        *)
LEMMA FailureCountMonotone ==
  ASSUME NEW limit \in Nat \cup {NoLimit}, NEW j \in Nat, NEW k \in Nat,
         j <= k, k <= UsizeMax
  PROVE  FailureCount(limit, j) <= FailureCount(limit, k)
<1>1. Wrap(j) = j /\ Wrap(k) = k
  BY WrapSmall, UsizeMaxAssumption
<1>2. QED
  BY <1>1 DEF FailureCount, NoLimit

(* Before the first failure there is none to report.                       *)
LEMMA FailureCountZero ==
  ASSUME NEW limit \in Nat \cup {NoLimit}
  PROVE  FailureCount(limit, 0) = 0
BY WrapSmall, UsizeMaxAssumption DEF FailureCount, NoLimit

-----------------------------------------------------------------------------
(* An attempt put to the schedule.                                         *)

(* The attempt changes its number and the counter of failures, one after   *)
(* the other, and nothing of the object wrapped.                           *)
LEMMA AttemptRecord ==
  ASSUME NEW sched, NEW s
  PROVE  \E k \in {s.failures, s.failures + 1} :
           Attempt(sched, s).io = [[s EXCEPT !.attempt = @ + 1] EXCEPT !.failures = k]
<1> DEFINE fires == Fires(sched, Wrap(s.attempt + 1))
           k == IF fires THEN s.failures + 1 ELSE s.failures
<1>1. Attempt(sched, s).io = [[s EXCEPT !.attempt = @ + 1] EXCEPT !.failures = k]
  BY DEF Attempt
<1>2. k \in {s.failures, s.failures + 1}
  OBVIOUS
<1> HIDE DEF k
<1>3. QED
  BY <1>1, <1>2

(* The attempt gets the next number; until the counter wraps,              *)
(* failure_count() rises by one exactly when the attempt fails.            *)
LEMMA AttemptCounts ==
  ASSUME NEW sched, sched.limit \in Nat \cup {NoLimit},
         NEW s, s.attempt \in Nat, s.failures \in Nat,
         s = [f \in DOMAIN s |-> s[f]], {"attempt", "failures"} \subseteq DOMAIN s
  PROVE  LET a == Attempt(sched, s)
         IN  /\ a.io.attempt = s.attempt + 1
             /\ a.io.failures \in {s.failures, s.failures + 1}
             /\ a.fails \in BOOLEAN
             /\ a.io.failures <= UsizeMax =>
                  FailureCount(sched.limit, a.io.failures) =
                    FailureCount(sched.limit, s.failures) + (IF a.fails THEN 1 ELSE 0)
<1> DEFINE fires == Fires(sched, Wrap(s.attempt + 1))
           injects == Injects(sched.limit, Wrap(s.failures))
           a == Attempt(sched, s)
<1>1. fires \in BOOLEAN /\ injects \in BOOLEAN
  BY DEF Fires, Injects
<1>2. /\ a.io.attempt = s.attempt + 1
      /\ a.io.failures = IF fires THEN s.failures + 1 ELSE s.failures
      /\ a.fails = (fires /\ injects)
  BY DEF Attempt
<1>3. ASSUME fires, a.io.failures <= UsizeMax
      PROVE  FailureCount(sched.limit, a.io.failures) =
               FailureCount(sched.limit, s.failures) + (IF a.fails THEN 1 ELSE 0)
  <2> HIDE DEF fires, injects, a
  <2>1. FailureCount(sched.limit, s.failures + 1) =
          IF injects THEN FailureCount(sched.limit, s.failures) + 1
                     ELSE FailureCount(sched.limit, s.failures)
    BY <1>2, <1>3, FailureCountStep DEF injects
  <2>2. FailureCount(sched.limit, s.failures) \in Nat
    BY FailureCountType
  <2>3. QED
    BY <1>1, <1>2, <1>3, <2>1, <2>2
<1>4. FailureCount(sched.limit, s.failures) \in Nat
  BY FailureCountType
<1> HIDE DEF fires, injects, a
<1>5. QED
  BY <1>1, <1>2, <1>3, <1>4 DEF a

-----------------------------------------------------------------------------
(* A set of numbers with an element z has a least element.                 *)
LEMMA LeastElement ==
  ASSUME NEW T, T \subseteq Nat, NEW z \in T
  PROVE  \E x \in T : \A y \in T : x <= y
<1>1. PICK x \in T : \A y \in T : ~ (<<y, x>> \in OpToRel(<, Nat))
  BY WFMin, NatLessThanWellFounded
<1>2. ASSUME NEW y \in T
      PROVE  x <= y
  <2>1. OpToRel(<, Nat) = { ss \in Nat \X Nat : ss[1] < ss[2] }
    BY Zenon DEF OpToRel
  <2>2. x \in Nat /\ y \in Nat
    OBVIOUS
  <2>3. y < x => <<y, x>> \in OpToRel(<, Nat)
    BY <2>1, <2>2
  <2>4. ~ (y < x)
    BY <1>1, <2>3
  <2>5. QED
    BY <2>2, <2>4
<1>3. QED
  BY <1>2

-----------------------------------------------------------------------------
(* Sequences of bytes.                                                     *)

(* The first n bytes of a buffer.                                          *)
LEMMA PrefixFacts ==
  ASSUME NEW S, NEW s \in Seq(S), NEW n \in 0..Len(s)
  PROVE  /\ Prefix(s, n) \in Seq(S)
         /\ Len(Prefix(s, n)) = n
         /\ \A i \in 1..n : Prefix(s, n)[i] = s[i]
<1>1. \A i \in 1..n : s[i] \in S
  BY ElementOfSeq
<1>2. QED
  BY <1>1, SubSeqProperties DEF Prefix

(* The first bytes of the first bytes.                                     *)
LEMMA PrefixOfPrefix ==
  ASSUME NEW S, NEW s \in Seq(S), NEW l \in 0..Len(s), NEW n \in 0..l
  PROVE  Prefix(Prefix(s, l), n) = Prefix(s, n)
<1>1. n \in 0..Len(s) /\ l \in Nat /\ Len(s) \in Nat
  BY LenProperties
<1>2. /\ Prefix(s, l) \in Seq(S) /\ Len(Prefix(s, l)) = l
      /\ \A i \in 1..l : Prefix(s, l)[i] = s[i]
  BY PrefixFacts
<1>3. /\ Prefix(s, n) \in Seq(S) /\ Len(Prefix(s, n)) = n
      /\ \A i \in 1..n : Prefix(s, n)[i] = s[i]
  BY <1>1, PrefixFacts
<1>4. /\ Prefix(Prefix(s, l), n) \in Seq(S) /\ Len(Prefix(Prefix(s, l), n)) = n
      /\ \A i \in 1..n : Prefix(Prefix(s, l), n)[i] = Prefix(s, l)[i]
  BY <1>2, PrefixFacts
<1>5. \A i \in 1..n : Prefix(Prefix(s, l), n)[i] = Prefix(s, n)[i]
  BY <1>1, <1>2, <1>3, <1>4
<1>6. QED
  BY <1>3, <1>4, <1>5, SeqEqual

(* What a writer appends comes after what is there.                        *)
LEMMA OrderedConcat ==
  ASSUME NEW s \in Seq(Int), NEW t \in Seq(Int), Ordered(s), Ordered(t),
         \A i \in 1..Len(s), j \in 1..Len(t) : s[i] < t[j]
  PROVE  Ordered(s \o t)
<1>1. /\ s \o t \in Seq(Int) /\ Len(s \o t) = Len(s) + Len(t)
      /\ \A i \in 1..Len(s) + Len(t) :
           (s \o t)[i] = IF i <= Len(s) THEN s[i] ELSE t[i - Len(s)]
  BY ConcatProperties
<1>2. SUFFICES ASSUME NEW i \in 1..Len(s \o t), NEW j \in 1..Len(s \o t), i < j
               PROVE  (s \o t)[i] < (s \o t)[j]
  BY DEF Ordered
<1>3. Len(s) \in Nat /\ Len(t) \in Nat /\ i \in Int /\ j \in Int
  OBVIOUS
<1>4. CASE j <= Len(s)
  BY <1>1, <1>2, <1>3, <1>4 DEF Ordered
<1>5. CASE i <= Len(s) /\ j > Len(s)
  BY <1>1, <1>2, <1>3, <1>5
<1>6. CASE i > Len(s)
  <2>1. i - Len(s) \in 1..Len(t) /\ j - Len(s) \in 1..Len(t) /\ i - Len(s) < j - Len(s)
    BY <1>1, <1>2, <1>3, <1>6
  <2>2. t[i - Len(s)] < t[j - Len(s)]
    BY <2>1 DEF Ordered
  <2>3. (s \o t)[i] = t[i - Len(s)] /\ (s \o t)[j] = t[j - Len(s)]
    BY <1>1, <1>2, <1>3, <1>6
  <2>4. QED
    BY <2>2, <2>3
<1>7. QED
  BY <1>3, <1>4, <1>5, <1>6

(* Appending to a sequence keeps its bytes, and adds those of the other.   *)
LEMMA HoldsConcat ==
  ASSUME NEW S, NEW s \in Seq(S), NEW t \in Seq(S), NEW b
  PROVE  Holds(s \o t, b) <=> Holds(s, b) \/ Holds(t, b)
<1>1. /\ Len(s \o t) = Len(s) + Len(t) /\ Len(s) \in Nat /\ Len(t) \in Nat
      /\ \A i \in 1..Len(s) + Len(t) :
           (s \o t)[i] = IF i <= Len(s) THEN s[i] ELSE t[i - Len(s)]
  BY ConcatProperties, LenProperties
<1>2. ASSUME Holds(s \o t, b)
      PROVE  Holds(s, b) \/ Holds(t, b)
  <2>1. PICK i \in 1..Len(s \o t) : (s \o t)[i] = b
    BY <1>2 DEF Holds
  <2>2. CASE i <= Len(s)
    BY <1>1, <2>1, <2>2 DEF Holds
  <2>3. CASE i > Len(s)
    <3>1. i - Len(s) \in 1..Len(t) /\ t[i - Len(s)] = b
      BY <1>1, <2>1, <2>3
    <3>2. QED
      BY <3>1 DEF Holds
  <2>4. QED
    BY <1>1, <2>2, <2>3
<1>3. ASSUME Holds(s, b)
      PROVE  Holds(s \o t, b)
  BY <1>1, <1>3 DEF Holds
<1>4. ASSUME Holds(t, b)
      PROVE  Holds(s \o t, b)
  <2>1. PICK i \in 1..Len(t) : t[i] = b
    BY <1>4 DEF Holds
  <2>2. Len(s) + i \in 1..Len(s \o t) /\ (s \o t)[Len(s) + i] = b
    BY <1>1, <2>1
  <2>3. QED
    BY <2>2 DEF Holds
<1>5. QED
  BY <1>2, <1>3, <1>4

(* A prefix of a sequence in order is in order.                            *)
LEMMA OrderedPrefix ==
  ASSUME NEW b \in Seq(Int), NEW n \in 0..Len(b), Ordered(b)
  PROVE  Prefix(b, n) \in Seq(Int) /\ Ordered(Prefix(b, n))
<1>1. /\ Prefix(b, n) \in Seq(Int) /\ Len(Prefix(b, n)) = n
      /\ \A i \in 1..n : Prefix(b, n)[i] = b[i]
  BY PrefixFacts
<1>2. n \in Nat /\ n <= Len(b) /\ Len(b) \in Nat
  BY LenProperties
<1>3. ASSUME NEW i \in 1..Len(Prefix(b, n)), NEW j \in 1..Len(Prefix(b, n)), i < j
      PROVE  Prefix(b, n)[i] < Prefix(b, n)[j]
  <2>1. i \in 1..n /\ j \in 1..n /\ i \in 1..Len(b) /\ j \in 1..Len(b)
    BY <1>1, <1>2
  <2>2. b[i] < b[j]
    BY <1>3, <2>1 DEF Ordered
  <2>3. Prefix(b, n)[i] = b[i] /\ Prefix(b, n)[j] = b[j]
    BY <1>1, <2>1
  <2>4. QED
    BY <2>2, <2>3
<1>4. QED
  BY <1>1, <1>3 DEF Ordered

(* A writer appends k bytes of a new buffer to the sink, and acknowledges  *)
(* the first n of them: the sink still holds what was acknowledged, both   *)
(* in the order of the bytes.                                              *)
LEMMA AppendedInOrder ==
  ASSUME NEW s \in Seq(Int), NEW t \in Seq(Int), NEW b \in Seq(Int),
         NEW k \in 0..Len(b), NEW n \in 0..k,
         Ordered(s), Ordered(t), Ordered(b), HoldsAll(s, t),
         \A i \in 1..Len(s), j \in 1..Len(b) : s[i] < b[j]
  PROVE  /\ Ordered(s \o Prefix(b, k))
         /\ Ordered(t \o Prefix(b, n))
         /\ HoldsAll(s \o Prefix(b, k), t \o Prefix(b, n))
<1>1. n \in Nat /\ k \in Nat /\ Len(b) \in Nat /\ n <= k /\ k <= Len(b) /\ n \in 0..Len(b)
  BY LenProperties
<1>2. /\ Prefix(b, k) \in Seq(Int) /\ Ordered(Prefix(b, k)) /\ Len(Prefix(b, k)) = k
      /\ \A i \in 1..k : Prefix(b, k)[i] = b[i]
  BY OrderedPrefix, PrefixFacts
<1>3. /\ Prefix(b, n) \in Seq(Int) /\ Ordered(Prefix(b, n)) /\ Len(Prefix(b, n)) = n
      /\ \A i \in 1..n : Prefix(b, n)[i] = b[i]
  BY <1>1, OrderedPrefix, PrefixFacts
<1>4. \A i \in 1..Len(t), j \in 1..Len(b) : t[i] < b[j]
  BY DEF HoldsAll, Holds
<1>5. Ordered(s \o Prefix(b, k))
  <2>1. ASSUME NEW i \in 1..Len(s), NEW j \in 1..Len(Prefix(b, k))
        PROVE  s[i] < Prefix(b, k)[j]
    <3>1. j \in 1..k /\ j \in 1..Len(b)
      BY <1>1, <1>2
    <3>2. s[i] < b[j] /\ Prefix(b, k)[j] = b[j]
      BY <1>2, <3>1
    <3>3. QED
      BY <3>2
  <2>2. QED
    BY <1>2, <2>1, OrderedConcat
<1>6. Ordered(t \o Prefix(b, n))
  <2>1. ASSUME NEW i \in 1..Len(t), NEW j \in 1..Len(Prefix(b, n))
        PROVE  t[i] < Prefix(b, n)[j]
    <3>1. j \in 1..n /\ j \in 1..Len(b)
      BY <1>1, <1>3
    <3>2. t[i] < b[j] /\ Prefix(b, n)[j] = b[j]
      BY <1>3, <1>4, <3>1
    <3>3. QED
      BY <3>2
  <2>2. QED
    BY <1>3, <2>1, OrderedConcat
<1>7. ASSUME NEW i \in 1..Len(t \o Prefix(b, n))
      PROVE  Holds(s \o Prefix(b, k), (t \o Prefix(b, n))[i])
  <2> DEFINE x == (t \o Prefix(b, n))[i]
  <2>1. Holds(t \o Prefix(b, n), x)
    BY DEF Holds
  <2> HIDE DEF x
  <2>2. Holds(t, x) \/ Holds(Prefix(b, n), x)
    BY <1>3, <2>1, HoldsConcat
  <2>3. CASE Holds(t, x)
    <3>1. Holds(s, x)
      BY <2>3 DEF Holds, HoldsAll
    <3>2. QED
      BY <1>2, <3>1, HoldsConcat DEF x
  <2>4. CASE Holds(Prefix(b, n), x)
    <3>1. Holds(Prefix(b, k), x)
      <4>1. PICK j \in 1..Len(Prefix(b, n)) : Prefix(b, n)[j] = x
        BY <2>4 DEF Holds
      <4>2. j \in 1..n /\ j \in 1..k
        BY <1>1, <1>3
      <4>3. Prefix(b, k)[j] = b[j] /\ Prefix(b, n)[j] = b[j]
        BY <1>2, <1>3, <4>2
      <4>4. j \in 1..Len(Prefix(b, k)) /\ Prefix(b, k)[j] = x
        BY <1>2, <4>1, <4>2, <4>3
      <4>5. QED
        BY <4>4 DEF Holds
    <3>2. QED
      BY <1>2, <3>1, HoldsConcat DEF x
  <2>5. QED
    BY <2>2, <2>3, <2>4
<1>8. QED
  BY <1>5, <1>6, <1>7 DEF HoldsAll
=============================================================================
