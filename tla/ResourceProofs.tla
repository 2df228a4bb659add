--------------------------- MODULE ResourceProofs ---------------------------
(***************************************************************************)
(* Proofs about the two injectors that act on a resource, time or memory.  *)
(* Latency: for every width of its integers, every profile and every       *)
(* attempt number.  MemoryPressure: for every width of usize, every stride *)
(* and size of page, and every address and size of a buffer.               *)
(***************************************************************************)
EXTENDS Latency, MemoryPressure, ChaosIOProofs

-----------------------------------------------------------------------------
(* Durations.                                                              *)

(* A count of nanoseconds is converted exactly up to the largest Duration, *)
(* and to that one from there on.                                          *)
LEMMA ConversionSaturates ==
  ASSUME NEW ns \in Nat
  PROVE  DurationFromNanosSaturating(ns) = IF ns <= DurationMax THEN ns ELSE DurationMax
<1> DEFINE secs == ns \div NanosPerSec
           rest == ns % NanosPerSec
           p == NanosPerSec * secs
           m == NanosPerSec * U64Max
<1>1. NanosPerSec \in Nat \ {0} /\ U64Max \in Nat
  BY WidthsAssumption
<1>2. secs \in Nat /\ rest \in 0..(NanosPerSec - 1) /\ ns = NanosPerSec * secs + rest
  BY <1>1
<1>3. DurationFromNanosSaturating(ns) =
        IF secs <= U64Max THEN secs * NanosPerSec + rest ELSE DurationMax
  BY DEF DurationFromNanosSaturating
<1> HIDE DEF secs, rest
<1>4. p \in Nat /\ m \in Nat /\ secs * NanosPerSec = p /\ ns = p + rest
  BY <1>1, <1>2
<1>5. DurationMax = m + NanosPerSec - 1
  <2>1. (U64Max + 1) * NanosPerSec = NanosPerSec * U64Max + NanosPerSec
    BY <1>1
  <2>2. QED
    BY <1>1, <1>4, <2>1 DEF DurationMax
<1>6. CASE secs <= U64Max
  <2>1. p <= m
    <3>1. PICK r \in Nat : U64Max = secs + r
      <4>1. U64Max - secs \in Nat /\ U64Max = secs + (U64Max - secs)
        BY <1>1, <1>2, <1>6
      <4>2. QED
        BY <4>1
    <3>2. m = p + NanosPerSec * r /\ NanosPerSec * r \in Nat
      BY <1>1, <1>2, <3>1
    <3> HIDE DEF m, p
    <3>3. QED
      BY <1>4, <3>2
  <2> HIDE DEF m, p
  <2>2. ns <= DurationMax
    BY <1>1, <1>2, <1>4, <1>5, <2>1
  <2>3. QED
    BY <1>3, <1>4, <1>6, <2>2
<1>7. CASE secs > U64Max
  <2>1. p >= m + NanosPerSec
    <3>1. PICK r \in Nat : secs = U64Max + 1 + r
      <4>1. secs - U64Max - 1 \in Nat /\ secs = U64Max + 1 + (secs - U64Max - 1)
        BY <1>1, <1>2, <1>7
      <4>2. QED
        BY <4>1
    <3>2. p = m + NanosPerSec + NanosPerSec * r /\ NanosPerSec * r \in Nat
      BY <1>1, <1>2, <3>1
    <3> HIDE DEF m, p
    <3>3. QED
      BY <1>1, <1>4, <3>2
  <2> HIDE DEF m, p
  <2>2. ~ (ns <= DurationMax)
    BY <1>1, <1>2, <1>4, <1>5, <2>1
  <2>3. ~ (secs <= U64Max)
    BY <1>1, <1>2, <1>7
  <2>4. QED
    BY <1>3, <2>2, <2>3
<1>8. QED
  BY <1>1, <1>2, <1>6, <1>7

(* The longest Duration, in nanoseconds, fits a u128.                      *)
LEMMA DurationMaxType == DurationMax \in Nat /\ DurationMax <= U128Max /\ U128Max \in Nat
<1>1. NanosPerSec \in Nat \ {0} /\ U64Max \in Nat /\ U128Max \in Nat /\ DurationMax <= U128Max
  BY WidthsAssumption
<1>2. (U64Max + 1) * NanosPerSec = NanosPerSec * U64Max + NanosPerSec /\ NanosPerSec * U64Max \in Nat
  BY <1>1
<1>3. NanosPerSec * U64Max + NanosPerSec - 1 \in Nat
  BY <1>1, <1>2
<1>4. QED
  BY <1>1, <1>2, <1>3 DEF DurationMax

(* Both paths of delay_for for a ramp, the checked one and the wide one,   *)
(* agree with the exact sum up to the largest Duration.                    *)
LEMMA RampExact ==
  ASSUME NEW start \in Durations, NEW step \in Durations, NEW a \in Nat
  PROVE  LET exact == start + (IF a = 0 THEN 0 ELSE a - 1) * step
         IN  RampDelay(start, step, a) = IF exact <= DurationMax THEN exact ELSE DurationMax
<1> DEFINE n == Before(a)
           p == step * n
           d == DurationMax
           fast == RampFast(start, step, n)
           ns == U128Saturate(U128Saturate(p) + start)
<1>1. /\ d \in Nat /\ d <= U128Max /\ U128Max \in Nat /\ U32Max \in Nat
      /\ start \in 0..d /\ step \in 0..d
  BY DurationMaxType, WidthsAssumption DEF Durations
<1>2. n \in Nat /\ n = IF a = 0 THEN 0 ELSE a - 1
  BY DEF Before
<1> HIDE DEF n
<1>3. p \in Nat /\ (IF a = 0 THEN 0 ELSE a - 1) * step = p
  BY <1>1, <1>2
<1>4. /\ fast = Overflow \/ fast = start + p
      /\ fast = start + p => start + p <= d
  <2>1. CheckedMul(step, n) = IF p <= d THEN p ELSE Overflow
    BY DEF CheckedMul
  <2>2. \/ fast = Overflow
        \/ p <= d /\ fast = CheckedAdd(start, p)
    BY <1>1, <1>2, <2>1 DEF RampFast, TryU32, Overflow
  <2> HIDE DEF p, d, fast
  <2>3. CheckedAdd(start, p) = IF start + p <= d THEN start + p ELSE Overflow
    BY DEF CheckedAdd, d
  <2>4. start + p # Overflow
    BY <1>1, <1>3 DEF Overflow
  <2>5. QED
    BY <2>2, <2>3, <2>4
<1>5. RampDelay(start, step, a) =
        IF fast # Overflow THEN fast ELSE DurationFromNanosSaturating(ns)
  BY DEF RampDelay, LinearRampWide, n
<1> HIDE DEF p, fast
<1>6. ns \in Nat /\ (IF ns <= d THEN ns ELSE d) = IF start + p <= d THEN start + p ELSE d
  <2> HIDE DEF d
  <2>1. QED
    BY <1>1, <1>3 DEF U128Saturate
<1>7. DurationFromNanosSaturating(ns) = IF ns <= d THEN ns ELSE d
  BY <1>6, ConversionSaturates
<1> HIDE DEF d, ns
<1>8. RampDelay(start, step, a) = IF start + p <= d THEN start + p ELSE d
  BY <1>4, <1>5, <1>6, <1>7
<1>9. QED
  BY <1>3, <1>8 DEF d

(* The loop over the boundaries returns at the first that reaches the      *)
(* attempt, or takes the last one's delay.                                 *)
LEMMA StepServes ==
  ASSUME NEW b \in Seq(Nat \X Durations), b # <<>>, NEW a \in Nat
  PROVE  \E k \in 1..Len(b) :
           /\ \/ k = Len(b) /\ \A j \in 1..Len(b) : b[j][1] < a
              \/ b[k][1] >= a /\ \A j \in 1..(k - 1) : b[j][1] < a
           /\ StepDelay(b, a) = b[k][2]
<1> DEFINE reach == { k \in 1..Len(b) : Reaches(b[k], a) }
<1>1. Len(b) \in Nat \ {0} /\ \A k \in 1..Len(b) : b[k][1] \in Nat
  <2>1. Len(b) \in Nat \ {0}
    BY EmptySeq, LenProperties
  <2>2. \A k \in 1..Len(b) : b[k] \in Nat \X Durations
    BY ElementOfSeq
  <2>3. QED
    BY <2>1, <2>2
<1>2. CASE reach = {}
  <2>1. StepDelay(b, a) = b[Len(b)][2]
    BY <1>2 DEF StepDelay
  <2>2. Len(b) \in 1..Len(b)
    BY <1>1
  <2>3. ASSUME NEW j \in 1..Len(b)
        PROVE  b[j][1] < a
    <3>1. ~ Reaches(b[j], a)
      BY <1>2
    <3>2. QED
      BY <1>1, <3>1 DEF Reaches
  <2>4. QED
    BY <2>1, <2>2, <2>3
<1>3. CASE reach # {}
  <2> DEFINE first == CHOOSE k \in reach : \A j \in reach : k <= j
  <2>1. StepDelay(b, a) = b[first][2]
    BY <1>3 DEF StepDelay
  <2>2. \E k \in reach : \A j \in reach : k <= j
    <3>1. reach \subseteq Nat
      BY <1>1
    <3> HIDE DEF reach
    <3>2. PICK k \in reach : TRUE
      BY <1>3
    <3>3. QED
      BY <3>1, <3>2, LeastElement
  <2>3. first \in reach /\ \A j \in reach : first <= j
    BY <2>2
  <2> HIDE DEF first
  <2>4. first \in 1..Len(b) /\ a <= b[first][1]
    BY <2>3 DEF Reaches
  <2>5. ASSUME NEW j \in 1..(first - 1)
        PROVE  b[j][1] < a
    <3>1. j \in 1..Len(b) /\ ~ (first <= j)
      BY <1>1, <2>4
    <3>2. ~ (a <= b[j][1])
      BY <2>3, <3>1 DEF Reaches
    <3>3. QED
      BY <1>1, <3>1, <3>2
  <2>6. b[first][1] >= a
    BY <1>1, <2>4
  <2>7. QED
    BY <2>1, <2>4, <2>5, <2>6
<1>4. QED
  BY <1>2, <1>3

-----------------------------------------------------------------------------
(* The last delay is that of the profile for the last attempt.             *)
LatencyInv == profile \in Profiles /\ attempt \in Nat /\ delay = DelayFor(profile, attempt)

(* LatencyInjector and LatencyAndFailure, whatever was asked before and    *)
(* whatever the schedule decides, delay by the profile (delay_for,         *)
(* apply_blocking).                                                        *)
THEOREM DelayIsOfProfile == LatencySpec => []LatencyInv
<1>1. LatencyInit => LatencyInv
  BY DEF LatencyInit, LatencyInv
<1>2. LatencyInv /\ [LatencyNext]_latencyVars => LatencyInv'
  <2> SUFFICES ASSUME LatencyInv, [LatencyNext]_latencyVars
               PROVE  LatencyInv'
    OBVIOUS
  <2>1. ASSUME NEW a \in 0..MaxAttempt, ApplyBlocking(a) \/ Diagnose(a)
        PROVE  LatencyInv'
    <3>1. a \in Nat
      BY AttemptsAssumption
    <3>2. QED
      BY <2>1, <3>1 DEF ApplyBlocking, Diagnose, LatencyInv
  <2>2. CASE UNCHANGED latencyVars
    BY <2>2 DEF latencyVars, LatencyInv
  <2>3. QED
    BY <2>1, <2>2 DEF LatencyNext
<1>3. QED
  BY <1>1, <1>2, PTL DEF LatencySpec

(* `start + (attempt - 1) * step, saturating at Duration::MAX', on every   *)
(* path of delay_for and for every width of its arithmetic.                *)
THEOREM RampAlwaysExact == LatencySpec => []RampIsExact
<1>1. LatencyInv => RampIsExact
  <2> SUFFICES ASSUME LatencyInv, profile.kind = "linear_ramp"
               PROVE  LET exact == profile.start
                                     + (IF attempt = 0 THEN 0 ELSE attempt - 1) * profile.step
                      IN  delay = IF exact <= DurationMax THEN exact ELSE DurationMax
    BY DEF RampIsExact
  <2>1. profile.start \in Durations /\ profile.step \in Durations
    BY ProfilesAssumption DEF LatencyInv
  <2>2. delay = RampDelay(profile.start, profile.step, attempt)
    BY DEF LatencyInv, DelayFor
  <2>3. QED
    BY <2>1, <2>2, RampExact DEF LatencyInv
<1>2. QED
  BY <1>1, DelayIsOfProfile, PTL

(* `use delay while attempt is <= attempt_threshold': an entry that        *)
(* reaches the attempt is served, or the final one if there is none, and   *)
(* in a sorted list the one of the smallest such threshold (delay_for).    *)
THEOREM StepsAlwaysFollow == LatencySpec => []StepsFollowThresholds
<1>1. LatencyInv => StepsFollowThresholds
  <2> SUFFICES ASSUME LatencyInv, profile.kind = "step_schedule", profile.boundaries # <<>>
               PROVE  LET b == profile.boundaries
                          reaching == { j \in 1..Len(b) : b[j][1] >= attempt }
                      IN  \E k \in 1..Len(b) :
                            /\ delay = b[k][2]
                            /\ IF reaching = {} THEN k = Len(b) ELSE k \in reaching
                            /\ Sorted(b) => \A j \in reaching :
                                 b[k][1] < b[j][1] \/ (b[k][1] = b[j][1] /\ k <= j)
    BY DEF StepsFollowThresholds
  <2> DEFINE b == profile.boundaries
             reaching == { j \in 1..Len(b) : b[j][1] >= attempt }
  <2>1. b \in Seq(Nat \X Durations) /\ attempt \in Nat
    BY ProfilesAssumption DEF LatencyInv
  <2>2. delay = StepDelay(b, attempt)
    BY DEF LatencyInv, DelayFor
  <2>3. PICK k \in 1..Len(b) :
          /\ \/ k = Len(b) /\ \A j \in 1..Len(b) : b[j][1] < attempt
             \/ b[k][1] >= attempt /\ \A j \in 1..(k - 1) : b[j][1] < attempt
          /\ delay = b[k][2]
    BY <2>1, <2>2, StepServes
  <2>4. Len(b) \in Nat /\ \A j \in 1..Len(b) : b[j][1] \in Nat
    <3>1. Len(b) \in Nat /\ \A j \in 1..Len(b) : b[j] \in Nat \X Durations
      BY <2>1, LenProperties, ElementOfSeq
    <3>2. QED
      BY <3>1
  <2> HIDE DEF b
  <2>5. ASSUME b[k][1] < attempt
        PROVE  k = Len(b) /\ reaching = {}
    BY <2>1, <2>3, <2>4, <2>5
  <2>6. b[k][1] >= attempt => k \in reaching
    OBVIOUS
  <2>7. ASSUME Sorted(b), NEW j \in reaching
        PROVE  b[k][1] < b[j][1] \/ (b[k][1] = b[j][1] /\ k <= j)
    <3>1. j \in 1..Len(b) /\ b[j][1] >= attempt /\ j \in Nat /\ k \in Nat
      BY <2>4
    <3>2. ~ (b[k][1] < attempt)
      BY <2>5
    <3>3. k <= j
      <4>1. ~ (j \in 1..(k - 1))
        BY <2>1, <2>3, <2>4, <3>1, <3>2
      <4>2. QED
        BY <2>4, <3>1, <4>1
    <3>4. b[k][1] <= b[j][1]
      BY <2>4, <2>7, <3>1, <3>3 DEF Sorted
    <3>5. QED
      BY <2>4, <3>1, <3>3, <3>4
  <2>8. b[k][1] < attempt \/ b[k][1] >= attempt
    BY <2>1, <2>4
  <2> HIDE DEF reaching
  <2>9. QED
    BY <2>3, <2>5, <2>6, <2>7, <2>8 DEF reaching, b
<1>2. QED
  BY <1>1, DelayIsOfProfile, PTL

-----------------------------------------------------------------------------
(* Division.                                                               *)

(* Quotient and remainder.                                                 *)
LEMMA DivMod ==
  ASSUME NEW a \in Nat, NEW d \in Nat \ {0}
  PROVE  /\ a \div d \in Nat /\ a % d \in 0..(d - 1)
         /\ a = d * (a \div d) + (a % d)
OBVIOUS

(* A product grows with its factor, by the other one at least.             *)
LEMMA ProductGrows ==
  ASSUME NEW d \in Nat, NEW p \in Nat, NEW q \in Nat, p < q
  PROVE  d * p + d <= d * q
<1>1. PICK r \in Nat : q = p + 1 + r
  <2>1. q - p - 1 \in Nat /\ q = p + 1 + (q - p - 1)
    OBVIOUS
  <2>2. QED
    BY <2>1
<1>2. d * q = d * p + d + d * r
  BY <1>1
<1>3. d * r \in Nat /\ d * p \in Nat
  OBVIOUS
<1>4. QED
  BY <1>2, <1>3

(* The quotient is the number of the block that holds a.                   *)
LEMMA DivUnique ==
  ASSUME NEW a \in Nat, NEW d \in Nat \ {0}, NEW p \in Nat,
         d * p <= a, a < d * p + d
  PROVE  a \div d = p
<1> DEFINE q == a \div d
<1>1. q \in Nat /\ d * q <= a /\ a < d * q + d /\ d * p \in Nat /\ d * q \in Nat
  BY DivMod
<1> HIDE DEF q
<1>2. ~ (p < q)
  <2>1. SUFFICES ASSUME p < q PROVE FALSE
    OBVIOUS
  <2>2. d * p + d <= d * q
    BY <1>1, <2>1, ProductGrows
  <2>3. QED
    BY <1>1, <2>2
<1>3. ~ (q < p)
  <2>1. SUFFICES ASSUME q < p PROVE FALSE
    OBVIOUS
  <2>2. d * q + d <= d * p
    BY <1>1, <2>1, ProductGrows
  <2>3. QED
    BY <1>1, <2>2
<1>4. QED
  BY <1>1, <1>2, <1>3 DEF q

(* Multiples of d are d apart.                                             *)
LEMMA MultiplesApart ==
  ASSUME NEW d \in Nat \ {0}, NEW a \in Nat, NEW b \in Nat,
         a % d = 0, b % d = 0, a < b
  PROVE  a + d <= b
<1>1. /\ a \div d \in Nat /\ b \div d \in Nat
      /\ a = d * (a \div d) /\ b = d * (b \div d)
  BY DivMod
<1>2. a \div d < b \div d
  <2>1. SUFFICES ASSUME b \div d <= a \div d PROVE FALSE
    BY <1>1
  <2>2. CASE b \div d = a \div d
    BY <1>1, <2>2
  <2>3. CASE b \div d < a \div d
    <3>1. d * (b \div d) + d <= d * (a \div d)
      BY <1>1, <2>3, ProductGrows
    <3>2. QED
      BY <1>1, <3>1
  <2>4. QED
    BY <1>1, <2>1, <2>2, <2>3
<1>3. QED
  BY <1>1, <1>2, ProductGrows

(* The product of d and q is a multiple of d.                              *)
LEMMA MultipleMod ==
  ASSUME NEW d \in Nat \ {0}, NEW q \in Nat
  PROVE  d * q \in Nat /\ (d * q) % d = 0
<1> DEFINE a == d * q
<1>1. a \in Nat
  OBVIOUS
<1>2. a \div d = q
  BY <1>1, DivUnique
<1> HIDE DEF a
<1>3. a = d * (a \div d) + (a % d) /\ a % d \in Nat
  BY <1>1, DivMod
<1>4. a = a + (a % d)
  BY <1>2, <1>3 DEF a
<1>5. a % d = 0
  BY <1>1, <1>3, <1>4
<1>6. QED
  BY <1>1, <1>5 DEF a

(* The next multiple of d.                                                 *)
LEMMA NextMultiple ==
  ASSUME NEW d \in Nat \ {0}, NEW a \in Nat, a % d = 0
  PROVE  (a + d) % d = 0
<1> DEFINE q == a \div d
<1>1. q \in Nat /\ a = d * q
  BY DivMod
<1> HIDE DEF q
<1>2. d * (q + 1) = a + d
  BY <1>1
<1>3. q + 1 \in Nat
  BY <1>1
<1>4. (d * (q + 1)) % d = 0
  BY <1>3, MultipleMod
<1>5. QED
  BY <1>2, <1>4, Zenon

(* The first multiple of d from a on.                                      *)
LEMMA FirstMultiple ==
  ASSUME NEW d \in Nat \ {0}, NEW a \in Nat
  PROVE  \E m \in a..(a + d - 1) : m % d = 0
<1> DEFINE q == (a + d - 1) \div d
<1>1. a + d - 1 \in Nat
  OBVIOUS
<1>2. q \in Nat /\ a + d - 1 = d * q + ((a + d - 1) % d) /\ (a + d - 1) % d \in 0..(d - 1)
  BY <1>1, DivMod
<1> HIDE DEF q
<1>3. d * q \in Nat /\ (d * q) % d = 0
  BY <1>2, MultipleMod
<1>4. d * q \in a..(a + d - 1)
  BY <1>2, <1>3
<1>5. QED
  BY <1>3, <1>4

-----------------------------------------------------------------------------
(* The invariants.                                                         *)

Multiples(n) == { k \in 0..(n - 1) : k % STRIDE = 0 }

TypeInv ==
  /\ page \in PageSizes /\ address \in Addresses
  /\ len \in 0..IsizeMax /\ i \in Nat
  /\ filled \in BOOLEAN
  /\ pc \in {"start", "touching", "done", "refused"}

(* The index has passed no byte it should stop at, and the bytes before it *)
(* that are a multiple of the stride are those written; the loop is left   *)
(* only at the end.                                                        *)
LoopInv ==
  /\ i % STRIDE = 0 /\ i < len + STRIDE
  /\ written = Multiples(i)
  /\ pc = "start" => i = 0
  /\ pc = "done" => len <= i

(* A buffer that exists is as long as was asked for.                       *)
SizeInv == pc \in {"touching", "done"} => len = asked

MemoryInv == TypeInv /\ LoopInv /\ SizeInv

-----------------------------------------------------------------------------
(* A buffer and one stride more are within a usize.                        *)
LEMMA Widths ==
  /\ UsizeMax \in Nat /\ STRIDE \in Nat \ {0} /\ IsizeMax \in Nat
  /\ IsizeMax < UsizeMax /\ IsizeMax + STRIDE <= UsizeMax
<1>1. UsizeMax \in Nat /\ STRIDE \in Nat \ {0} /\ 2 * STRIDE <= UsizeMax
  BY MemoryAssumption, UsizeMaxAssumption
<1>2. /\ IsizeMax \in Nat
      /\ UsizeMax = 2 * IsizeMax + (UsizeMax % 2) /\ UsizeMax % 2 \in 0..1
  BY <1>1, DivMod DEF IsizeMax
<1>3. QED
  BY <1>1, <1>2

(* Nothing is written before the loop starts.                              *)
LEMMA NoMultiples == Multiples(0) = {} /\ 0 % STRIDE = 0
BY Widths, DivMod DEF Multiples

(* An allocation is as long as was asked for, also where the product would *)
(* not fit a usize.                                                        *)
LEMMA ReserveKeeps ==
  ASSUME MemoryInv, NEW x \in Nat, NEW y \in Nat,
         NEW size, size = x * y \/ size = SaturatingMul(x, y),
         Reserve(size, x * y), filled' \in BOOLEAN
  PROVE  MemoryInv'
<1>1. /\ UsizeMax \in Nat /\ STRIDE \in Nat \ {0} /\ IsizeMax \in Nat
      /\ IsizeMax < UsizeMax
  BY Widths
<1> DEFINE p == x * y
<1>2. p \in Nat
  OBVIOUS
<1>3. size = p \/ size = IF p <= UsizeMax THEN p ELSE UsizeMax
  BY DEF SaturatingMul
<1>4. /\ pc = "start" /\ pc' = "touching" /\ size <= IsizeMax
      /\ address' \in Addresses /\ len' = size /\ asked' = p
      /\ UNCHANGED <<page, i, written>>
  BY DEF Reserve
<1> HIDE DEF p
<1>5. size = p
  BY <1>1, <1>2, <1>3, <1>4
<1>6. TypeInv'
  BY <1>1, <1>2, <1>4, <1>5 DEF MemoryInv, TypeInv
<1>7. LoopInv'
  <2>1. i = 0 /\ written = Multiples(0)
    BY <1>4 DEF MemoryInv, LoopInv
  <2>2. /\ i' = 0 /\ written' = Multiples(0) /\ len' \in Nat
    BY <1>2, <1>4, <1>5, <2>1
  <2>3. 0 < len' + STRIDE
    <3>1. STRIDE \in Nat /\ STRIDE > 0
      BY <1>1
    <3>2. 0 < p + STRIDE
      BY <1>2, <3>1
    <3>3. QED
      BY <1>4, <1>5, <3>2, Zenon
  <2>4. QED
    BY <1>4, <2>2, <2>3, NoMultiples DEF LoopInv
<1>8. SizeInv'
  BY <1>4, <1>5 DEF SizeInv
<1>9. QED
  BY <1>6, <1>7, <1>8 DEF MemoryInv

(* The loop writes the next multiple of the stride, and its index does not *)
(* wrap around.                                                            *)
LEMMA TouchKeeps ==
  ASSUME MemoryInv, Touch
  PROVE  MemoryInv'
<1>1. /\ UsizeMax \in Nat /\ STRIDE \in Nat \ {0} /\ IsizeMax \in Nat
      /\ IsizeMax + STRIDE <= UsizeMax
  BY Widths
<1>2. /\ i \in Nat /\ len \in Nat /\ len <= IsizeMax /\ i < len /\ i % STRIDE = 0
      /\ written = Multiples(i)
  BY <1>1 DEF MemoryInv, TypeInv, LoopInv, Touch, InBounds
<1>3. i' = i + STRIDE
  <2>1. i + STRIDE \in 0..UsizeMax
    BY <1>1, <1>2
  <2>2. Wrap(i + STRIDE) = i + STRIDE
    BY <1>1, <2>1, WrapSmall
  <2>3. QED
    BY <2>2 DEF Touch
<1>4. i' \in Nat /\ i' < len + STRIDE
  BY <1>1, <1>2, <1>3
<1>5. i' % STRIDE = 0
  BY <1>1, <1>2, <1>3, NextMultiple
<1>6. written' = Multiples(i')
  <2>1. ASSUME NEW k \in Multiples(i')
        PROVE  k \in Multiples(i) \cup {i}
    <3>1. k \in Nat /\ k < i + STRIDE /\ k % STRIDE = 0
      BY <1>1, <1>2, <1>3 DEF Multiples
    <3>2. ~ (i < k)
      <4>1. SUFFICES ASSUME i < k PROVE FALSE
        OBVIOUS
      <4>2. i + STRIDE <= k
        BY <1>1, <1>2, <3>1, <4>1, MultiplesApart
      <4>3. QED
        BY <1>1, <1>2, <3>1, <4>2
    <3>3. CASE k < i
      BY <1>2, <3>1, <3>3 DEF Multiples
    <3>4. QED
      BY <1>2, <3>1, <3>2, <3>3
  <2>2. ASSUME NEW k \in Multiples(i) \cup {i}
        PROVE  k \in Multiples(i')
    BY <1>1, <1>2, <1>3, <2>2 DEF Multiples
  <2>3. QED
    BY <1>2, <2>1, <2>2 DEF Touch
<1>7. TypeInv'
  BY <1>4 DEF MemoryInv, TypeInv, Touch
<1>8. LoopInv'
  BY <1>4, <1>5, <1>6 DEF LoopInv, Touch
<1>9. SizeInv'
  BY DEF MemoryInv, SizeInv, Touch
<1>10. QED
  BY <1>7, <1>8, <1>9 DEF MemoryInv

(* Every step keeps the invariant.                                         *)
LEMMA StepKeeps ==
  ASSUME MemoryInv, [Next]_vars
  PROVE  MemoryInv'
<1>1. /\ UsizeMax \in Nat /\ STRIDE \in Nat \ {0} /\ IsizeMax \in Nat
  BY Widths
<1>2. ASSUME NEW n \in Sizes, Allocate(n) \/ AllocateKib(n) \/ AllocateMib(n)
      PROVE  MemoryInv'
  <2>1. n \in Nat /\ Kib \in Nat /\ Mib \in Nat /\ n = n * 1
    BY MemoryAssumption DEF Mib
  <2>2. filled' \in BOOLEAN
    BY <1>2 DEF Allocate, AllocateKib, AllocateMib, Zeroed, MemoryInv, TypeInv
  <2>3. CASE Allocate(n)
    <3>1. Reserve(n, n * 1)
      BY <2>1, <2>3 DEF Allocate, Zeroed
    <3>2. QED
      BY <2>1, <2>2, <3>1, ReserveKeeps
  <2>4. CASE AllocateKib(n)
    BY <2>1, <2>2, <2>4, ReserveKeeps DEF AllocateKib, Zeroed
  <2>5. CASE AllocateMib(n)
    BY <2>1, <2>2, <2>5, ReserveKeeps DEF AllocateMib, Zeroed
  <2>6. QED
    BY <1>2, <2>3, <2>4, <2>5
<1>3. ASSUME NEW n \in Sizes, TryAllocate(n)
      PROVE  MemoryInv'
  <2>1. CASE Reserve(n, n) /\ filled' = TRUE
    <3>1. n \in Nat /\ n = n * 1
      BY MemoryAssumption
    <3>2. filled' \in BOOLEAN
      BY <2>1
    <3>3. Reserve(n, n * 1)
      BY <2>1, <3>1
    <3>4. QED
      BY <3>1, <3>2, <3>3, ReserveKeeps
  <2>2. CASE pc' = "refused" /\ UNCHANGED <<page, address, buffer>>
    BY <2>2 DEF MemoryInv, TypeInv, LoopInv, SizeInv, Multiples, buffer
  <2>3. QED
    BY <1>3, <2>1, <2>2 DEF TryAllocate
<1>4. CASE Touch
  BY <1>4, TouchKeeps
<1>5. CASE Finish
  <2>1. len <= i
    BY <1>1, <1>5 DEF MemoryInv, TypeInv, Finish, InBounds
  <2>2. QED
    BY <1>5, <2>1 DEF Finish, MemoryInv, TypeInv, LoopInv, SizeInv, Multiples, buffer
<1>6. CASE Drop
  <2>1. TypeInv'
    <3>1. filled' \in BOOLEAN
      BY <1>6 DEF Drop
    <3>2. QED
      BY <1>1, <1>6, <3>1 DEF Drop, MemoryInv, TypeInv
  <2>2. LoopInv'
    <3>1. i' = 0 /\ len' = 0 /\ written' = {} /\ pc' = "start"
      BY <1>6 DEF Drop
    <3>2. 0 < 0 + STRIDE
      BY <1>1
    <3>3. QED
      BY <3>1, <3>2, NoMultiples DEF LoopInv
  <2>3. SizeInv'
    BY <1>6 DEF Drop, SizeInv
  <2>4. QED
    BY <2>1, <2>2, <2>3 DEF MemoryInv
<1>7. CASE UNCHANGED vars
  BY <1>7 DEF vars, buffer, MemoryInv, TypeInv, LoopInv, SizeInv, Multiples
<1>8. QED
  BY <1>2, <1>3, <1>4, <1>5, <1>6, <1>7 DEF Next

(* The loop of touch_pages keeps its index a multiple of the stride and    *)
(* within one stride of the end, also next to the largest usize.           *)
THEOREM MemoryInvariant == Spec => []MemoryInv
<1>1. Init => MemoryInv
  <2> SUFFICES ASSUME Init PROVE MemoryInv
    OBVIOUS
  <2>1. /\ len \in 0..IsizeMax /\ i = 0 /\ len = 0 /\ 0 < 0 + STRIDE
    BY Widths DEF Init
  <2>2. LoopInv
    BY <2>1, NoMultiples DEF Init, LoopInv
  <2>3. filled \in BOOLEAN
    BY DEF Init
  <2>4. QED
    BY <2>1, <2>2, <2>3 DEF Init, MemoryInv, TypeInv, SizeInv
<1>2. MemoryInv /\ [Next]_vars => MemoryInv'
  BY StepKeeps
<1>3. QED
  BY <1>1, <1>2, PTL DEF Spec

(* The unsafe write of touch_pages stays inside the buffer, and no index   *)
(* is missed or reached twice by a sum that wraps around.                  *)
THEOREM InBoundsAlways == Spec => []WritesInBounds
<1>1. MemoryInv => WritesInBounds
  <2> SUFFICES ASSUME MemoryInv, NEW k \in Multiples(i)
               PROVE  k \in 0..(len - 1)
    BY DEF MemoryInv, LoopInv, WritesInBounds, Multiples
  <2>1. /\ STRIDE \in Nat \ {0} /\ i \in Nat /\ len \in Nat
        /\ i % STRIDE = 0 /\ i < len + STRIDE
    BY Widths DEF MemoryInv, TypeInv, LoopInv
  <2>2. k \in Nat /\ k < i /\ k % STRIDE = 0
    BY <2>1 DEF Multiples
  <2>3. k + STRIDE <= i
    BY <2>1, <2>2, MultiplesApart
  <2>4. QED
    BY <2>1, <2>2, <2>3
<1>2. QED
  BY <1>1, MemoryInvariant, PTL

(* A guard holds as many bytes as were asked for, whatever the unit and    *)
(* also where the product exceeds a usize (allocate_kib, allocate_mib).    *)
THEOREM SizeIsExact == Spec => []HoldsWhatWasAsked
<1>1. MemoryInv => HoldsWhatWasAsked
  BY DEF MemoryInv, SizeInv, HoldsWhatWasAsked, SizeBytes
<1>2. QED
  BY <1>1, MemoryInvariant, PTL

-----------------------------------------------------------------------------
(* The pages of the buffer.                                                *)

(* A page with a later one behind it in the buffer has a byte that is a    *)
(* multiple of a stride no longer than the page.                           *)
LEMMA PageHasMultiple ==
  ASSUME STRIDE \in Nat \ {0}, page \in Nat, STRIDE <= page, address \in Nat,
         NEW j \in Nat, NEW k \in Nat, PageOf(j) < PageOf(k)
  PROVE  \E m \in 0..(k - 1) : m % STRIDE = 0 /\ PageOf(m) = PageOf(j)
<1> DEFINE s == STRIDE
           g == page
           a == address
           p == (a + j) \div g
           q == (a + k) \div g
           b == g * p
<1>1. g \in Nat \ {0} /\ s \in Nat \ {0} /\ s <= g /\ a \in Nat
  OBVIOUS
<1>2. p < q
  BY DEF PageOf
<1> HIDE DEF s, g, a
<1>3. p \in Nat /\ g * p <= a + j /\ a + j < g * p + g
  <2> DEFINE x == a + j
  <2>1. x \in Nat
    BY <1>1
  <2> HIDE DEF x
  <2>2. /\ x \div g \in Nat /\ x % g \in 0..(g - 1)
        /\ x = g * (x \div g) + (x % g)
    BY <1>1, <2>1, DivMod
  <2>3. x \div g \in Nat /\ g * (x \div g) <= x /\ x < g * (x \div g) + g
    BY <1>1, <2>1, <2>2
  <2>4. QED
    BY <2>3 DEF x
<1>4. q \in Nat /\ g * q <= a + k
  <2> DEFINE x == a + k
  <2>1. x \in Nat
    BY <1>1
  <2> HIDE DEF x
  <2>2. /\ x \div g \in Nat /\ x % g \in 0..(g - 1)
        /\ x = g * (x \div g) + (x % g)
    BY <1>1, <2>1, DivMod
  <2>3. x \div g \in Nat /\ g * (x \div g) <= x
    BY <1>1, <2>1, <2>2
  <2>4. QED
    BY <2>3 DEF x
<1> HIDE DEF p, q
<1>5. g * p + g <= g * q
  BY <1>1, <1>3, <1>4, <1>2, ProductGrows
<1>6. b \in Nat /\ g * q \in Nat
  BY <1>1, <1>3, <1>4
<1>7. b <= a + j /\ a + j < b + g /\ b + g <= a + k
  BY <1>1, <1>3, <1>4, <1>5, <1>6
<1>8. SUFFICES \E m \in 0..(k - 1) : m % s = 0 /\ b <= a + m /\ a + m < b + g
  <2>1. ASSUME NEW m \in Nat, b <= a + m, a + m < b + g
        PROVE  (a + m) \div g = p
    <3>1. a + m \in Nat
      BY <1>1
    <3>2. QED
      BY <1>1, <1>3, <2>1, <3>1, DivUnique
  <2>2. PICK m \in 0..(k - 1) : m % s = 0 /\ b <= a + m /\ a + m < b + g
    BY <1>8
  <2>3. m \in Nat
    BY <1>1
  <2>4. (a + m) \div g = p
    BY <2>1, <2>2, <2>3
  <2>5. QED
    BY <2>2, <2>4 DEF p, s, g, a, PageOf
<1> HIDE DEF b
<1>9. CASE b <= a
  <2>1. 0 % s = 0
    BY <1>1, DivMod
  <2>2. 0 \in 0..(k - 1) /\ b <= a + 0 /\ a + 0 < b + g
    BY <1>1, <1>6, <1>7, <1>9
  <2>3. QED
    BY <2>1, <2>2
<1>10. CASE a < b
  <2>1. b - a \in Nat
    BY <1>1, <1>6, <1>10
  <2>2. PICK m \in (b - a)..(b - a + s - 1) : m % s = 0
    BY <1>1, <2>1, FirstMultiple
  <2>3. m \in 0..(k - 1) /\ b <= a + m /\ a + m < b + g
    BY <1>1, <1>6, <1>7, <1>10, <2>2
  <2>4. QED
    BY <2>2, <2>3
<1>11. QED
  BY <1>1, <1>6, <1>9, <1>10

(* With pages no smaller than the stride every page of the allocation is   *)
(* resident in the end, except possibly the last one, wherever in a page   *)
(* the buffer starts and whatever its length (touch_pages).                *)
THEOREM PagesResident == Spec => []AllButLastPageResident
<1>1. MemoryInv => AllButLastPageResident
  <2> SUFFICES ASSUME MemoryInv, pc = "done", page >= STRIDE,
                      NEW p \in Pages \ Resident, NEW q \in Pages
               PROVE  q <= p
    BY DEF AllButLastPageResident
  <2>1. /\ STRIDE \in Nat \ {0} /\ page \in Nat \ {0} /\ address \in Nat
        /\ len \in Nat /\ i \in Nat /\ len <= i
        /\ written = Multiples(i)
    BY Widths, MemoryAssumption DEF MemoryInv, TypeInv, LoopInv
  <2>2. PICK j \in 0..(len - 1) : p = (address + j) \div page
    BY DEF Pages, PageOf
  <2>3. PICK k \in 0..(len - 1) : q = (address + k) \div page
    BY DEF Pages, PageOf
  <2>4. ~ filled
    BY DEF Resident
  <2>5. ~ (p < q)
    <3>1. SUFFICES ASSUME p < q PROVE FALSE
      OBVIOUS
    <3>2. /\ STRIDE \in Nat \ {0} /\ page \in Nat /\ STRIDE <= page
          /\ address \in Nat /\ j \in Nat /\ k \in Nat
      BY <2>1
    <3>3. PageOf(j) < PageOf(k) /\ p = PageOf(j)
      BY <2>2, <2>3, <3>1 DEF PageOf
    <3>4. PICK m \in 0..(k - 1) : m % STRIDE = 0 /\ PageOf(m) = PageOf(j)
      BY <3>2, <3>3, PageHasMultiple
    <3>5. m \in Multiples(i)
      BY <2>1, <3>2, <3>4 DEF Multiples
    <3>6. PageOf(m) = p /\ m \in written
      BY <2>1, <3>3, <3>4, <3>5
    <3>7. p \in Resident
      BY <2>4, <3>6 DEF Resident
    <3>8. QED
      BY <3>7
  <2>6. p \in Nat /\ q \in Nat
    <3>1. address + j \in Nat /\ address + k \in Nat
      BY <2>1
    <3>2. QED
      BY <2>1, <2>2, <2>3, <3>1, DivMod
  <2>7. QED
    BY <2>5, <2>6
<1>2. QED
  BY <1>1, MemoryInvariant, PTL
=============================================================================
