-------------------------- MODULE WriterStackProofs --------------------------
(***************************************************************************)
(* Proofs about WriterStack, for every stack, schedule and crash point,    *)
(* and any number and length of calls.                                     *)
(***************************************************************************)
EXTENDS WriterStack, ChaosIOProofs, FiniteSetTheorems

IoType == [sink : Seq(Bytes), flushed : Nat, attempt : Nat, failures : Nat, written : Nat]
OutType == [io : IoType, n : Nat, err : Errors]

-----------------------------------------------------------------------------
(* The outcomes of one call of write.                                      *)

(* The outcome o of a write of b in state s that no schedule takes part    *)
(* in: o.n bytes reach the file.                                           *)
Plain(s, b, o, d) ==
  /\ o \in OutType /\ o.n \in 0..Len(b)
  /\ o.io.sink = s.sink \o Prefix(b, o.n) /\ o.io.flushed = s.flushed
  /\ o.io.attempt = s.attempt /\ o.io.failures = s.failures
  /\ d \in Nat /\ o.io.written = s.written + d
  /\ o.err \in InnerErrors \cup {"none", "crash"}
  /\ o.err # "none" => o.n = 0

(* The outcome o of which k bytes reach the file and d are counted by a    *)
(* CrashWriter, when the schedule injects f failures.                      *)
Written(s, b, o, k, f, d) ==
  /\ o \in OutType /\ k \in 0..Len(b) /\ f \in {0, 1}
  /\ o.io.sink = s.sink \o Prefix(b, k) /\ o.io.flushed = s.flushed
  /\ \/ o.io.attempt = s.attempt /\ o.io.failures = s.failures
     \/ o.io.attempt = s.attempt + 1 /\ o.io.failures \in {s.failures, s.failures + 1}
  /\ o.io.failures <= UsizeMax =>
       FailureCount(setup.sched.limit, o.io.failures) =
         FailureCount(setup.sched.limit, s.failures) + f
  /\ d \in Nat /\ o.io.written = s.written + d
  /\ o.err # "none" => o.n = 0
  /\ f = 0 => o.n = k /\ o.err # "injected"
  /\ f = 1 => k <= 1 /\ o.err # "none"
  /\ f = 1 /\ setup.sched.mode # "partial_write" => k = 0 /\ o.err = "injected"
  /\ o.err \notin {"none", "injected"} => k = 0

(* The file takes the first n bytes of what it is given, or none.          *)
LEMMA FileWrites ==
  ASSUME NEW s \in IoType, NEW b \in Seq(Bytes), NEW o \in InnerWrite(s, b)
  PROVE  Plain(s, b, o, 0)
<1>1. ASSUME NEW n \in 0..Len(b), o = Ok([s EXCEPT !.sink = @ \o Prefix(b, n)], n)
      PROVE  Plain(s, b, o, 0)
  <2> DEFINE t == s.sink \o Prefix(b, n)
  <2>1. t \in Seq(Bytes)
    BY PrefixFacts, ConcatProperties DEF IoType
  <2>2. o = [io |-> [s EXCEPT !.sink = t], n |-> n, err |-> "none"]
    BY <1>1 DEF Ok
  <2> HIDE DEF t
  <2>3. [s EXCEPT !.sink = t] \in IoType
    BY <2>1 DEF IoType
  <2>4. o \in OutType
    BY <2>2, <2>3 DEF OutType, Errors
  <2>5. /\ o.io.sink = t /\ o.io.flushed = s.flushed /\ o.io.attempt = s.attempt
        /\ o.io.failures = s.failures /\ o.io.written = s.written + 0
        /\ o.n = n /\ o.err = "none"
    BY <2>2 DEF IoType
  <2>6. QED
    BY <2>4, <2>5 DEF Plain, t
<1>2. ASSUME NEW e \in InnerErrors, o = Err(s, e)
      PROVE  Plain(s, b, o, 0)
  <2>1. o = [io |-> s, n |-> 0, err |-> e]
    BY <1>2 DEF Err
  <2>2. Prefix(b, 0) = <<>> /\ s.sink \o <<>> = s.sink /\ 0 \in 0..Len(b)
    BY SubSeqEmpty, ConcatEmptySeq, LenProperties DEF Prefix, IoType
  <2>3. o \in OutType
    BY <2>1 DEF OutType, Errors
  <2>4. o.io = s /\ o.n = 0 /\ o.err = e /\ s.written = s.written + 0
    BY <2>1 DEF IoType
  <2>5. QED
    BY <2>2, <2>3, <2>4 DEF Plain
<1>3. QED
  BY <1>1, <1>2 DEF InnerWrite

(* A write without a schedule injects nothing.                             *)
LEMMA PlainIsWritten ==
  ASSUME NEW s \in IoType, NEW b \in Seq(Bytes), NEW o, NEW d, Plain(s, b, o, d),
         setup.sched.limit \in Nat \cup {NoLimit}
  PROVE  Written(s, b, o, o.n, 0, d)
<1>1. FailureCount(setup.sched.limit, s.failures) \in Nat
  BY FailureCountType DEF IoType
<1>2. QED
  BY <1>1 DEF Plain, Written, InnerErrors

-----------------------------------------------------------------------------
(* CrashWriter::write.                                                     *)

(* The call is passed on while there is room before the crash point, with  *)
(* no more bytes than fit.                                                 *)
LEMMA CrashEnters ==
  ASSUME NEW s \in IoType, NEW b \in Seq(Bytes), setup.after \in Nat
  PROVE  LET e == CrashEnter(s, b)
         IN  /\ e.io = s
             /\ e.stops => /\ Plain(s, b, e.out, 0)
                           /\ Crashed(s) => e.out.err = "crash"
             /\ ~ e.stops => /\ ~ Crashed(s)
                             /\ e.buf = Prefix(b, LetThrough(s, b))
                             /\ LetThrough(s, b) \in 0..Len(b)
                             /\ s.written + LetThrough(s, b) <= setup.after
<1> DEFINE e == CrashEnter(s, b)
<1>1. /\ e.io = s /\ e.buf = Prefix(b, LetThrough(s, b))
      /\ e.stops <=> (Crashed(s) \/ b = <<>>)
      /\ e.out = IF Crashed(s) THEN Err(s, "crash") ELSE Ok(s, 0)
  BY DEF CrashEnter
<1>2. s.written \in Nat /\ Len(b) \in Nat /\ (Crashed(s) <=> s.written >= setup.after)
  BY LenProperties DEF IoType, Crashed
<1>3. ~ Crashed(s) => /\ LetThrough(s, b) \in 0..Len(b)
                      /\ s.written + LetThrough(s, b) <= setup.after
  BY <1>2 DEF LetThrough
<1>4. Plain(s, b, e.out, 0)
  <2>1. e.out.io = s /\ e.out.n = 0 /\ e.out.err \in {"crash", "none"} /\ e.out \in OutType
    BY <1>1 DEF Err, Ok, OutType, Errors
  <2>2. Prefix(b, 0) = <<>> /\ s.sink \o <<>> = s.sink /\ 0 \in 0..Len(b)
    BY SubSeqEmpty, ConcatEmptySeq, LenProperties DEF Prefix, IoType
  <2>3. s.written = s.written + 0
    BY <1>2
  <2>4. QED
    BY <2>1, <2>2, <2>3 DEF Plain
<1>5. Crashed(s) => e.out.err = "crash"
  BY <1>1 DEF Err
<1> HIDE DEF e
<1>6. QED
  BY <1>1, <1>3, <1>4, <1>5 DEF e

(* What comes back is counted.                                             *)
LEMMA CrashLeaves ==
  ASSUME NEW p \in OutType
  PROVE  /\ CrashLeave(p) \in OutType
         /\ CrashLeave(p).n = p.n /\ CrashLeave(p).err = p.err
         /\ CrashLeave(p).io.written = p.io.written + p.n
         /\ CrashLeave(p).io.sink = p.io.sink /\ CrashLeave(p).io.flushed = p.io.flushed
         /\ CrashLeave(p).io.attempt = p.io.attempt
         /\ CrashLeave(p).io.failures = p.io.failures
<1> DEFINE w == p.io.written + p.n
           t == [p.io EXCEPT !.written = w]
<1>1. CrashLeave(p) = [p EXCEPT !.io = t]
  BY DEF CrashLeave, OutType, IoType
<1>2. p.io \in IoType /\ w \in Nat
  BY DEF OutType, IoType
<1> HIDE DEF w
<1>3. /\ t \in IoType /\ t.written = w /\ t.sink = p.io.sink /\ t.flushed = p.io.flushed
      /\ t.attempt = p.io.attempt /\ t.failures = p.io.failures
  BY <1>2 DEF IoType
<1> HIDE DEF t
<1>4. QED
  BY <1>1, <1>3 DEF OutType, w

(* CrashWriter over the file, or over another writer: what the outcome of  *)
(* the inner write becomes.                                                *)
LEMMA CrashOverPlain ==
  ASSUME NEW s \in IoType, NEW b \in Seq(Bytes), NEW l \in 0..Len(b), NEW p,
         Plain(s, Prefix(b, l), p, 0)
  PROVE  Plain(s, b, CrashLeave(p), p.n) /\ p.n \in 0..l /\ CrashLeave(p).n = p.n
<1>1. Prefix(b, l) \in Seq(Bytes) /\ Len(Prefix(b, l)) = l
  BY PrefixFacts
<1>2. p \in OutType /\ p.n \in 0..l /\ Len(b) \in Nat
  BY <1>1, LenProperties DEF Plain
<1>3. p.n \in Nat /\ p.n \in 0..Len(b)
  BY <1>2
<1>4. Prefix(Prefix(b, l), p.n) = Prefix(b, p.n)
  BY <1>2, PrefixOfPrefix
<1>5. s.written \in Nat /\ s.written + 0 = s.written
  BY DEF IoType
<1>6. /\ CrashLeave(p) \in OutType /\ CrashLeave(p).n = p.n /\ CrashLeave(p).err = p.err
      /\ CrashLeave(p).io.written = s.written + p.n
      /\ CrashLeave(p).io.sink = s.sink \o Prefix(b, p.n)
      /\ CrashLeave(p).io.flushed = s.flushed
      /\ CrashLeave(p).io.attempt = s.attempt /\ CrashLeave(p).io.failures = s.failures
  <2>1. /\ p.io.sink = s.sink \o Prefix(Prefix(b, l), p.n) /\ p.io.flushed = s.flushed
        /\ p.io.written = s.written + 0
        /\ p.io.attempt = s.attempt /\ p.io.failures = s.failures
    BY DEF Plain
  <2>2. p.io.sink = s.sink \o Prefix(b, p.n) /\ p.io.written = s.written
    BY <1>4, <1>5, <2>1, Zenon
  <2>3. QED
    BY <1>2, <2>1, <2>2, CrashLeaves, Zenon
<1> DEFINE c == CrashLeave(p)
<1> HIDE DEF c
<1>7. Plain(s, b, c, p.n)
  BY <1>3, <1>6 DEF Plain, c
<1>8. QED
  BY <1>2, <1>6, <1>7 DEF c

(* CrashWriter over a write with a schedule, which may have torn it: the   *)
(* byte of the torn write is in the file and is not counted.               *)
LEMMA CrashOverWritten ==
  ASSUME NEW s \in IoType, NEW b \in Seq(Bytes), NEW l \in 0..Len(b), NEW p,
         NEW k, NEW f, Written(s, Prefix(b, l), p, k, f, 0)
  PROVE  Written(s, b, CrashLeave(p), k, f, p.n) /\ p.n \in {0, k} /\ k \in 0..l
<1>1. Prefix(b, l) \in Seq(Bytes) /\ Len(Prefix(b, l)) = l
  BY PrefixFacts
<1>2. p \in OutType /\ k \in 0..l /\ Len(b) \in Nat
  BY <1>1, LenProperties DEF Written
<1>3. k \in Nat /\ k \in 0..Len(b) /\ p.n \in Nat
  BY <1>2 DEF OutType
<1>4. Prefix(Prefix(b, l), k) = Prefix(b, k)
  BY <1>2, PrefixOfPrefix
<1>5. s.written \in Nat /\ s.written + 0 = s.written
  BY DEF IoType
<1>6. p.n \in {0, k}
  BY DEF Written
<1>7. /\ CrashLeave(p) \in OutType /\ CrashLeave(p).n = p.n /\ CrashLeave(p).err = p.err
      /\ CrashLeave(p).io.written = s.written + p.n
      /\ CrashLeave(p).io.sink = s.sink \o Prefix(b, k)
      /\ CrashLeave(p).io.flushed = s.flushed
      /\ CrashLeave(p).io.attempt = p.io.attempt
      /\ CrashLeave(p).io.failures = p.io.failures
  <2>1. /\ p.io.sink = s.sink \o Prefix(Prefix(b, l), k) /\ p.io.flushed = s.flushed
        /\ p.io.written = s.written + 0
    BY DEF Written
  <2>2. p.io.sink = s.sink \o Prefix(b, k) /\ p.io.written = s.written
    BY <1>4, <1>5, <2>1, Zenon
  <2>3. QED
    BY <1>2, <2>1, <2>2, CrashLeaves, Zenon
<1> DEFINE c == CrashLeave(p)
<1> HIDE DEF c
<1>8. Written(s, b, c, k, f, p.n)
  BY <1>3, <1>7 DEF Written, c
<1>9. QED
  BY <1>2, <1>6, <1>8 DEF c

-----------------------------------------------------------------------------
(* ChaosWriter::write.                                                     *)

(* One failure is injected, or none.                                       *)
Fails(s) == IF Attempt(setup.sched, s).fails THEN 1 ELSE 0

(* The attempt is counted, and the call passed on unless it is refused:    *)
(* all of the buffer, or the one byte that a partial write lets through.   *)
LEMMA ChaosEnters ==
  ASSUME NEW s \in IoType, NEW b \in Seq(Bytes),
         setup.sched.limit \in Nat \cup {NoLimit}
  PROVE  LET e == ChaosEnter(setup.sched, s, b)
         IN  /\ e.io \in IoType /\ e.io.sink = s.sink /\ e.io.flushed = s.flushed
             /\ e.io.written = s.written
             /\ e.io.attempt = s.attempt + 1
             /\ e.io.failures \in {s.failures, s.failures + 1}
             /\ Fails(s) \in {0, 1}
             /\ e.io.failures <= UsizeMax =>
                  FailureCount(setup.sched.limit, e.io.failures) =
                    FailureCount(setup.sched.limit, s.failures) + Fails(s)
             /\ e.stops => e.out = Err(e.io, "injected") /\ Fails(s) = 1
             /\ ~ e.stops /\ e.tears =>
                  /\ Fails(s) = 1 /\ setup.sched.mode = "partial_write"
                  /\ e.buf = Prefix(b, 1) /\ 1 \in 0..Len(b)
             /\ ~ e.stops /\ ~ e.tears => Fails(s) = 0 /\ e.buf = b
<1> DEFINE e == ChaosEnter(setup.sched, s, b)
           a == Attempt(setup.sched, s)
           tears == a.fails /\ TearsOn(setup.sched, b)
           limit == setup.sched.limit
<1>1. /\ e.io = a.io /\ e.tears = tears
      /\ e.buf = IF tears THEN TornBuffer(b) ELSE b
      /\ e.stops = (a.fails /\ ~ tears)
      /\ e.out = Err(a.io, "injected")
  BY DEF ChaosEnter
<1>2. /\ a.io.attempt = s.attempt + 1
      /\ a.io.failures \in {s.failures, s.failures + 1}
      /\ a.fails \in BOOLEAN
      /\ a.io.failures <= UsizeMax =>
           FailureCount(limit, a.io.failures) =
             FailureCount(limit, s.failures) + (IF a.fails THEN 1 ELSE 0)
  BY AttemptCounts DEF IoType
<1>3. PICK k \in {s.failures, s.failures + 1} :
        a.io = [[s EXCEPT !.attempt = @ + 1] EXCEPT !.failures = k]
  BY AttemptRecord
<1>4. tears => setup.sched.mode = "partial_write" /\ b # <<>> /\ a.fails
  BY DEF TearsOn
<1>5. Fails(s) = IF a.fails THEN 1 ELSE 0
  BY DEF Fails
<1> HIDE DEF a, e, tears, limit
<1>6. /\ a.io \in IoType /\ a.io.sink = s.sink /\ a.io.flushed = s.flushed
      /\ a.io.written = s.written
  <2> DEFINE r == [s EXCEPT !.attempt = @ + 1]
  <2>1. /\ k \in Nat /\ r \in IoType
        /\ r.sink = s.sink /\ r.flushed = s.flushed /\ r.written = s.written
    <3>1. s.attempt + 1 \in Nat /\ s.failures \in Nat
      BY DEF IoType
    <3>2. k \in Nat
      BY <3>1
    <3>3. QED
      BY <3>1, <3>2 DEF IoType
  <2>2. a.io = [r EXCEPT !.failures = k]
    BY <1>3
  <2> HIDE DEF r
  <2>3. QED
    BY <2>1, <2>2 DEF IoType
<1>7. b # <<>> => 1 \in 0..Len(b)
  BY EmptySeq, LenProperties
<1>8. e.stops => e.out = Err(e.io, "injected") /\ Fails(s) = 1
  BY <1>1, <1>5
<1>9. ~ e.stops /\ e.tears => /\ Fails(s) = 1 /\ setup.sched.mode = "partial_write"
                              /\ e.buf = Prefix(b, 1) /\ 1 \in 0..Len(b)
  BY <1>1, <1>4, <1>5, <1>7 DEF TornBuffer
<1>10. ~ e.stops /\ ~ e.tears => Fails(s) = 0 /\ e.buf = b
  BY <1>1, <1>2, <1>5
<1>11. Fails(s) \in {0, 1}
  BY <1>5
<1>12. QED
  BY <1>1, <1>2, <1>5, <1>6, <1>8, <1>9, <1>10, <1>11 DEF e, limit

(* What is passed on.                                                      *)
LEMMA ChaosPassesType ==
  ASSUME NEW s \in IoType, NEW b \in Seq(Bytes),
         setup.sched.limit \in Nat \cup {NoLimit},
         ~ ChaosEnter(setup.sched, s, b).stops
  PROVE  LET e == ChaosEnter(setup.sched, s, b)
         IN  e.io \in IoType /\ e.buf \in Seq(Bytes) /\ e.io.written = s.written
<1> DEFINE e == ChaosEnter(setup.sched, s, b)
<1>1. /\ e.io \in IoType /\ e.io.written = s.written
      /\ e.tears => e.buf = Prefix(b, 1) /\ 1 \in 0..Len(b)
      /\ ~ e.tears => e.buf = b
  BY ChaosEnters
<1> HIDE DEF e
<1>2. 1 \in 0..Len(b) => Prefix(b, 1) \in Seq(Bytes)
  BY PrefixFacts
<1>3. e.buf \in Seq(Bytes)
  BY <1>1, <1>2
<1>4. QED
  BY <1>1, <1>3 DEF e

(* A refused write.                                                        *)
LEMMA ChaosRefuses ==
  ASSUME NEW s \in IoType, NEW b \in Seq(Bytes),
         setup.sched.limit \in Nat \cup {NoLimit},
         ChaosEnter(setup.sched, s, b).stops
  PROVE  Written(s, b, ChaosEnter(setup.sched, s, b).out, 0, 1, 0)
<1> DEFINE e == ChaosEnter(setup.sched, s, b)
           o == e.out
<1>1. /\ e.io \in IoType /\ e.io.sink = s.sink /\ e.io.flushed = s.flushed
      /\ e.io.written = s.written
      /\ e.io.attempt = s.attempt + 1
      /\ e.io.failures \in {s.failures, s.failures + 1}
      /\ e.io.failures <= UsizeMax =>
           FailureCount(setup.sched.limit, e.io.failures) =
             FailureCount(setup.sched.limit, s.failures) + 1
      /\ o = Err(e.io, "injected")
  BY ChaosEnters
<1> HIDE DEF e, o
<1>2. o.io = e.io /\ o.n = 0 /\ o.err = "injected" /\ o \in OutType
  BY <1>1 DEF Err, OutType, Errors
<1>3. Prefix(b, 0) = <<>> /\ s.sink \o <<>> = s.sink /\ 0 \in 0..Len(b)
  BY SubSeqEmpty, ConcatEmptySeq, LenProperties DEF Prefix, IoType
<1>4. s.written = s.written + 0
  BY DEF IoType
<1>5. /\ o.io.sink = s.sink \o Prefix(b, 0) /\ o.io.flushed = s.flushed
      /\ o.io.attempt = s.attempt + 1 /\ o.io.failures \in {s.failures, s.failures + 1}
      /\ o.io.failures <= UsizeMax =>
           FailureCount(setup.sched.limit, o.io.failures) =
             FailureCount(setup.sched.limit, s.failures) + 1
      /\ o.io.written = s.written + 0
  BY <1>1, <1>2, <1>3, <1>4
<1>6. Written(s, b, o, 0, 1, 0)
  BY <1>2, <1>3, <1>5 DEF Written
<1>7. QED
  BY <1>6 DEF o, e

(* A write passed on, with the outcome p of the inner one.                 *)
LEMMA ChaosPasses ==
  ASSUME NEW s \in IoType, NEW b \in Seq(Bytes), NEW p, NEW d,
         setup.sched.limit \in Nat \cup {NoLimit},
         ~ ChaosEnter(setup.sched, s, b).stops,
         Plain(ChaosEnter(setup.sched, s, b).io, ChaosEnter(setup.sched, s, b).buf, p, d)
  PROVE  LET o == ChaosLeave(ChaosEnter(setup.sched, s, b), p)
         IN  /\ Written(s, b, o, p.n, Fails(s), d)
             /\ p.err # "none" => o.err = p.err
<1> DEFINE e == ChaosEnter(setup.sched, s, b)
           o == ChaosLeave(e, p)
<1>1. /\ e.io \in IoType /\ e.io.sink = s.sink /\ e.io.flushed = s.flushed
      /\ e.io.written = s.written
      /\ e.io.attempt = s.attempt + 1
      /\ e.io.failures \in {s.failures, s.failures + 1}
      /\ Fails(s) \in {0, 1}
      /\ e.io.failures <= UsizeMax =>
           FailureCount(setup.sched.limit, e.io.failures) =
             FailureCount(setup.sched.limit, s.failures) + Fails(s)
      /\ e.tears => /\ Fails(s) = 1 /\ setup.sched.mode = "partial_write"
                    /\ e.buf = Prefix(b, 1) /\ 1 \in 0..Len(b)
      /\ ~ e.tears => Fails(s) = 0 /\ e.buf = b
      /\ Plain(e.io, e.buf, p, d)
  BY ChaosEnters
<1>2. o = IF e.tears THEN Torn(p) ELSE p
  BY DEF ChaosLeave
<1> HIDE DEF e, o
<1>3. /\ p \in OutType /\ p.n \in 0..Len(e.buf) /\ d \in Nat
      /\ p.io.sink = s.sink \o Prefix(e.buf, p.n) /\ p.io.flushed = s.flushed
      /\ p.io.attempt = s.attempt + 1 /\ p.io.failures = e.io.failures
      /\ p.io.written = s.written + d
      /\ p.err \in InnerErrors \cup {"none", "crash"}
      /\ p.err # "none" => p.n = 0
  BY <1>1, Zenon DEF Plain
<1>4. p.err # "injected"
  BY <1>3 DEF InnerErrors
<1>5. CASE ~ e.tears
  <2>1. o = p /\ e.buf = b /\ Fails(s) = 0
    BY <1>1, <1>2, <1>5
  <2>2. Written(s, b, p, p.n, Fails(s), d)
    BY <1>1, <1>3, <1>4, <2>1 DEF Written
  <2>3. QED
    BY <2>1, <2>2 DEF o, e
<1>6. CASE e.tears
  <2>1. /\ e.buf = Prefix(b, 1) /\ 1 \in 0..Len(b) /\ Fails(s) = 1
        /\ setup.sched.mode = "partial_write"
    BY <1>1, <1>6
  <2>2. e.buf \in Seq(Bytes) /\ Len(e.buf) = 1
    <3>1. Prefix(b, 1) \in Seq(Bytes) /\ Len(Prefix(b, 1)) = 1
      BY <2>1, PrefixFacts
    <3>2. QED
      BY <2>1, <3>1
  <2>3. p.n \in 0..1 /\ p.n \in 0..Len(b) /\ p.n <= 1
    <3>1. p.n \in 0..1 /\ Len(b) \in Nat
      BY <1>3, <2>2, LenProperties
    <3>2. QED
      BY <2>1, <3>1
  <2>4. Prefix(e.buf, p.n) = Prefix(b, p.n)
    BY <2>1, <2>3, PrefixOfPrefix
  <2>5. /\ o.io = p.io /\ o.err = IF p.err = "none" THEN "injected" ELSE p.err
        /\ o.n = 0 /\ o \in OutType
    BY <1>2, <1>3, <1>6 DEF Torn, Err, OutType, Errors
  <2>6. Written(s, b, o, p.n, Fails(s), d)
    <3>1. /\ o.io.sink = s.sink \o Prefix(b, p.n) /\ o.io.flushed = s.flushed
          /\ o.io.attempt = s.attempt + 1
          /\ o.io.failures \in {s.failures, s.failures + 1}
          /\ o.io.failures <= UsizeMax =>
               FailureCount(setup.sched.limit, o.io.failures) =
                 FailureCount(setup.sched.limit, s.failures) + Fails(s)
          /\ o.io.written = s.written + d /\ d \in Nat
      BY <1>1, <1>3, <2>4, <2>5
    <3>2. /\ o.err # "none" /\ (o.err # "injected" => p.n = 0)
      BY <1>3, <2>5
    <3>3. QED
      BY <2>1, <2>3, <2>5, <3>1, <3>2 DEF Written
  <2>7. QED
    BY <2>5, <2>6 DEF o, e
<1>7. QED
  BY <1>5, <1>6

-----------------------------------------------------------------------------
(* One call of write on the outermost wrapper: in any stack some k bytes   *)
(* reach the file, d of them counted by the CrashWriter, and f failures    *)
(* are injected.                                                           *)
Effect(s, b, o, k, f, d) ==
  /\ Written(s, b, o, k, f, d)
  /\ setup.stack = <<"chaos">> => d = 0
  /\ setup.stack = <<"crash">> => f = 0
  /\ setup.stack # <<"chaos">> =>
       /\ s.written + d <= setup.after
       /\ d <= k
       /\ k - d <= IF /\ setup.stack = <<"crash", "chaos">>
                      /\ setup.sched.mode = "partial_write"
                   THEN f ELSE 0
       /\ Crashed(s) => k = 0 /\ o.err # "none"

SetupOK ==
  /\ setup.stack \in Stacks /\ setup.sched.mode \in Modes
  /\ setup.sched.limit \in Nat \cup {NoLimit} /\ setup.after \in Nat

(* A CrashWriter over the file: what passes is counted, up to the crash    *)
(* point.                                                                  *)
LEMMA CrashWritesFile ==
  ASSUME SetupOK, NEW s \in IoType, NEW b \in Seq(Bytes), s.written <= setup.after,
         NEW o \in WriteOnFile("crash", s, b)
  PROVE  /\ Plain(s, b, o, o.n)
         /\ s.written + o.n <= setup.after
         /\ Crashed(s) => o.n = 0 /\ o.err = "crash"
<1> DEFINE e == CrashEnter(s, b)
           l == LetThrough(s, b)
<1>1. /\ e.io = s
      /\ e.stops => /\ Plain(s, b, e.out, 0)
                    /\ Crashed(s) => e.out.err = "crash"
      /\ ~ e.stops => /\ ~ Crashed(s) /\ e.buf = Prefix(b, l) /\ l \in 0..Len(b)
                      /\ s.written + l <= setup.after
  BY CrashEnters DEF SetupOK
<1>2. IF e.stops THEN o = e.out ELSE \E p \in InnerWrite(e.io, e.buf) : o = CrashLeave(p)
  BY DEF WriteOnFile, Enter, Leave
<1>3. e.stops => e.out.n = 0
  BY DEF CrashEnter, Err, Ok
<1> HIDE DEF e, l
<1>4. s.written \in Nat /\ s.written + 0 = s.written /\ setup.after \in Nat
  BY DEF IoType, SetupOK
<1>5. CASE e.stops
  <2>1. o.n = 0 /\ Plain(s, b, o, 0)
    BY <1>1, <1>2, <1>3, <1>5
  <2>2. Crashed(s) => o.err = "crash"
    BY <1>1, <1>2, <1>5
  <2>3. Plain(s, b, o, o.n)
    BY <2>1
  <2>4. QED
    BY <1>4, <2>1, <2>2, <2>3
<1>6. CASE ~ e.stops
  <2>1. /\ e.io = s /\ e.buf = Prefix(b, l) /\ l \in 0..Len(b)
        /\ ~ Crashed(s) /\ s.written + l <= setup.after
    BY <1>1, <1>6
  <2>2. PICK p \in InnerWrite(s, Prefix(b, l)) : o = CrashLeave(p)
    BY <1>2, <1>6, <2>1
  <2>3. Prefix(b, l) \in Seq(Bytes)
    BY <2>1, PrefixFacts
  <2>4. Plain(s, Prefix(b, l), p, 0)
    BY <2>3, FileWrites
  <2>5. Plain(s, b, o, p.n) /\ p.n \in 0..l /\ o.n = p.n
    BY <2>1, <2>2, <2>4, CrashOverPlain
  <2>6. s.written + o.n <= setup.after
    BY <1>4, <2>1, <2>5
  <2>7. QED
    BY <2>1, <2>5, <2>6
<1>7. QED
  BY <1>5, <1>6

(* A ChaosWriter over the file.                                            *)
LEMMA ChaosWritesFile ==
  ASSUME SetupOK, NEW s \in IoType, NEW b \in Seq(Bytes),
         NEW o \in WriteOnFile("chaos", s, b)
  PROVE  \E k, f : Written(s, b, o, k, f, 0)
<1> DEFINE e == ChaosEnter(setup.sched, s, b)
<1>1. IF e.stops THEN o = e.out ELSE \E p \in InnerWrite(e.io, e.buf) : o = ChaosLeave(e, p)
  BY DEF WriteOnFile, Enter, Leave
<1>2. setup.sched.limit \in Nat \cup {NoLimit}
  BY DEF SetupOK
<1>3. CASE e.stops
  <2>1. Written(s, b, o, 0, 1, 0)
    BY <1>1, <1>2, <1>3, ChaosRefuses
  <2>2. QED
    BY <2>1
<1>4. CASE ~ e.stops
  <2>1. PICK p \in InnerWrite(e.io, e.buf) : o = ChaosLeave(e, p)
    BY <1>1, <1>4
  <2>2. e.io \in IoType /\ e.buf \in Seq(Bytes)
    BY <1>2, <1>4, ChaosPassesType
  <2>3. Plain(e.io, e.buf, p, 0)
    BY <2>2, FileWrites
  <2>4. Written(s, b, o, p.n, Fails(s), 0)
    BY <1>2, <1>4, <2>1, <2>3, ChaosPasses
  <2>5. QED
    BY <2>4
<1>5. QED
  BY <1>3, <1>4

(* The four stacks.                                                        *)
LEMMA StackWrites ==
  ASSUME SetupOK, NEW s \in IoType, NEW b \in Seq(Bytes), s.written <= setup.after,
         NEW o \in StackWrite(s, b)
  PROVE  \E k, f, d : Effect(s, b, o, k, f, d)
<1>1. /\ setup.after \in Nat /\ setup.sched.limit \in Nat \cup {NoLimit}
      /\ s.written \in Nat /\ s.written + 0 = s.written
  BY DEF SetupOK, IoType
<1>2. CASE setup.stack = <<"chaos">>
  <2>1. o \in WriteOnFile("chaos", s, b)
    BY <1>2 DEF StackWrite
  <2>2. PICK k, f : Written(s, b, o, k, f, 0)
    BY <2>1, ChaosWritesFile
  <2>3. setup.stack # <<"crash">>
    BY <1>2
  <2>4. Effect(s, b, o, k, f, 0)
    BY <1>2, <2>2, <2>3 DEF Effect
  <2>5. QED
    BY <2>4
<1>3. CASE setup.stack = <<"crash">>
  <2>1. o \in WriteOnFile("crash", s, b)
    BY <1>3 DEF StackWrite
  <2>2. /\ Plain(s, b, o, o.n)
        /\ s.written + o.n <= setup.after
        /\ Crashed(s) => o.n = 0 /\ o.err = "crash"
    BY <2>1, CrashWritesFile
  <2>3. Written(s, b, o, o.n, 0, o.n) /\ o.n \in Nat
    BY <1>1, <2>2, PlainIsWritten DEF Plain, OutType
  <2>4. setup.stack # <<"chaos">> /\ setup.stack # <<"crash", "chaos">>
    BY <1>3
  <2>5. o.n <= o.n /\ o.n - o.n <= 0
    BY <2>3
  <2>6. Effect(s, b, o, o.n, 0, o.n)
    BY <2>2, <2>3, <2>4, <2>5 DEF Effect
  <2>7. QED
    BY <2>6
<1>4. CASE setup.stack = <<"chaos", "crash">>
  <2> DEFINE e == ChaosEnter(setup.sched, s, b)
  <2>1. o \in WriteOnWriter("chaos", "crash", s, b)
    BY <1>4 DEF StackWrite
  <2>2. IF e.stops THEN o = e.out
                   ELSE \E p \in WriteOnFile("crash", e.io, e.buf) : o = ChaosLeave(e, p)
    BY <2>1 DEF WriteOnWriter, Enter, Leave
  <2>3. setup.stack # <<"chaos">> /\ setup.stack # <<"crash">> /\ setup.stack # <<"crash", "chaos">>
    BY <1>4
  <2>4. CASE e.stops
    <3>1. Written(s, b, e.out, 0, 1, 0)
      BY <1>1, <2>4, ChaosRefuses
    <3>2. o = e.out
      BY <2>2, <2>4
    <3>3. Written(s, b, o, 0, 1, 0)
      BY <3>1, <3>2
    <3>4. o.err # "none"
      BY <3>3 DEF Written
    <3>5. Effect(s, b, o, 0, 1, 0)
      BY <1>1, <2>3, <3>3, <3>4 DEF Effect
    <3>6. QED
      BY <3>5
  <2>5. CASE ~ e.stops
    <3>1. PICK p \in WriteOnFile("crash", e.io, e.buf) : o = ChaosLeave(e, p)
      BY <2>2, <2>5
    <3>2. e.io \in IoType /\ e.buf \in Seq(Bytes) /\ e.io.written = s.written
      BY <1>1, <2>5, ChaosPassesType
    <3>3. /\ Plain(e.io, e.buf, p, p.n)
          /\ s.written + p.n <= setup.after
          /\ Crashed(s) => p.n = 0 /\ p.err = "crash"
      BY <3>2, CrashWritesFile DEF Crashed
    <3>4. /\ Written(s, b, o, p.n, Fails(s), p.n)
          /\ p.err # "none" => o.err = p.err
      BY <1>1, <2>5, <3>1, <3>3, ChaosPasses
    <3>5. p.n \in Nat /\ p.n <= p.n /\ p.n - p.n <= 0
      BY <3>3 DEF Plain, OutType
    <3>6. Crashed(s) => p.n = 0 /\ o.err # "none"
      BY <3>3, <3>4
    <3>7. Effect(s, b, o, p.n, Fails(s), p.n)
      BY <2>3, <3>3, <3>4, <3>5, <3>6 DEF Effect
    <3>8. QED
      BY <3>7
  <2>6. QED
    BY <2>4, <2>5
<1>5. CASE setup.stack = <<"crash", "chaos">>
  <2> DEFINE e == CrashEnter(s, b)
             l == LetThrough(s, b)
  <2>1. o \in WriteOnWriter("crash", "chaos", s, b)
    BY <1>5 DEF StackWrite
  <2>2. IF e.stops THEN o = e.out
                   ELSE \E p \in WriteOnFile("chaos", e.io, e.buf) : o = CrashLeave(p)
    BY <2>1 DEF WriteOnWriter, Enter, Leave
  <2>3. setup.stack # <<"chaos">> /\ setup.stack # <<"crash">>
    BY <1>5
  <2>4. /\ e.io = s
        /\ e.stops => /\ Plain(s, b, e.out, 0)
                      /\ Crashed(s) => e.out.err = "crash"
        /\ ~ e.stops => /\ ~ Crashed(s) /\ e.buf = Prefix(b, l) /\ l \in 0..Len(b)
                        /\ s.written + l <= setup.after
    BY CrashEnters DEF SetupOK
  <2>5. e.stops => e.out.n = 0
    BY DEF CrashEnter, Err, Ok
  <2> HIDE DEF e, l
  <2>6. CASE e.stops
    <3>1. Plain(s, b, o, 0) /\ o.n = 0 /\ (Crashed(s) => o.err = "crash")
      BY <2>2, <2>4, <2>5, <2>6
    <3>2. Written(s, b, o, 0, 0, 0)
      BY <1>1, <3>1, PlainIsWritten
    <3>3. Effect(s, b, o, 0, 0, 0)
      BY <1>1, <2>3, <3>1, <3>2 DEF Effect
    <3>4. QED
      BY <3>3
  <2>7. CASE ~ e.stops
    <3>1. /\ e.io = s /\ e.buf = Prefix(b, l) /\ l \in 0..Len(b)
          /\ ~ Crashed(s) /\ s.written + l <= setup.after
      BY <2>4, <2>7
    <3>2. PICK p \in WriteOnFile("chaos", s, Prefix(b, l)) : o = CrashLeave(p)
      BY <2>2, <2>7, <3>1
    <3>3. Prefix(b, l) \in Seq(Bytes)
      BY <3>1, PrefixFacts
    <3>4. PICK k, f : Written(s, Prefix(b, l), p, k, f, 0)
      BY <3>3, ChaosWritesFile
    <3>5. Written(s, b, o, k, f, p.n) /\ p.n \in {0, k} /\ k \in 0..l
      BY <3>1, <3>2, <3>4, CrashOverWritten
    <3>6. /\ f \in {0, 1} /\ (f = 0 => p.n = k) /\ (f = 1 => k <= 1)
          /\ f = 1 /\ setup.sched.mode # "partial_write" => k = 0
      BY <3>4 DEF Written
    <3>7. l \in Nat /\ k \in Nat /\ p.n \in Nat
      BY <3>1, <3>5
    <3>8. p.n <= k /\ s.written + p.n <= setup.after
      BY <1>1, <3>1, <3>5, <3>7
    <3>9. k - p.n <= f /\ (setup.sched.mode # "partial_write" => k - p.n <= 0)
      BY <3>5, <3>6, <3>7
    <3>10. Effect(s, b, o, k, f, p.n)
      BY <1>5, <2>3, <3>1, <3>5, <3>8, <3>9 DEF Effect
    <3>11. QED
      BY <3>10
  <2>8. QED
    BY <2>6, <2>7
<1>6. QED
  BY <1>2, <1>3, <1>4, <1>5 DEF SetupOK, Stacks

-----------------------------------------------------------------------------
(* The invariants.                                                         *)

(* The calls made bound what has been handed over, and the calls of write  *)
(* what the writers count.                                                 *)
Counted ==
  /\ calls \in 0..MaxCalls /\ writes \in 0..MaxWrites
  /\ bytes \in Nat /\ bytes <= calls * MaxChunk
  /\ io \in IoType /\ io.flushed <= Len(io.sink) /\ io.written <= setup.after
  /\ io.failures <= io.attempt /\ io.attempt <= writes

(* The bytes of s are the last ones before byte number b.                  *)
EndsAt(s, b) == Len(s) <= b /\ \A i \in 1..Len(s) : s[i] = b - Len(s) + i

(* The chunk holds the last bytes handed over, the rest the last of those. *)
RestIsLast ==
  /\ chunk \in Seq(Bytes) /\ rest \in Seq(Bytes) /\ Len(rest) <= Len(chunk)
  /\ EndsAt(chunk, bytes) /\ EndsAt(rest, bytes)
  /\ pc = "idle" => rest = <<>>

(* The file holds only bytes from before the rest of the chunk.            *)
SinkIsBefore == \A j \in 1..Len(io.sink) : io.sink[j] <= bytes - Len(rest)

(* The part of SinkReconstructable that holds even of a counter of         *)
(* failures that wraps.                                                    *)
SinkInOrder ==
  /\ acked \in Seq(Bytes)
  /\ Ordered(io.sink) /\ Ordered(acked) /\ HoldsAll(io.sink, acked)
  /\ SinkIsBefore

(* What a flush made safe is at the front of what was acknowledged, and in *)
(* the part of the file that a crash cannot lose.                          *)
SafeIsFlushed ==
  /\ safe \in Seq(Bytes) /\ Len(safe) <= Len(acked)
  /\ \A i \in 1..Len(safe) : acked[i] = safe[i]
  /\ \A i \in 1..Len(safe) : \E j \in 1..io.flushed : io.sink[j] = safe[i]

(* What write_all has written of its chunk is at the end of the file.      *)
WrittenIsLast ==
  /\ pc # "idle" => result = "none"
  /\ pc = "write_all" =>
       LET done == Len(chunk) - Len(rest)
       IN  /\ done <= Len(io.sink)
           /\ \A i \in 1..done : io.sink[Len(io.sink) - done + i] = chunk[i]
  /\ result = "write_all" =>
       /\ Len(chunk) <= Len(io.sink)
       /\ \A i \in 1..Len(chunk) : io.sink[Len(io.sink) - Len(chunk) + i] = chunk[i]

(* The rest of the state is well-formed.                                   *)
Formed ==
  /\ setup \in Setups
  /\ pc \in {"idle", "write", "write_all"}
  /\ result \in {"none", "write", "write_all", "flush", "err"}
  /\ base \in 0..Len(io.sink)
  /\ before \in Nat /\ opens \in Nat /\ errs \in Nat /\ injected \in Nat

IInv == Formed /\ Counted /\ RestIsLast /\ SinkInOrder /\ SafeIsFlushed /\ WrittenIsLast

(* No counter of failures can have wrapped around: there were not that     *)
(* many calls of write.                                                    *)
NoWrap == writes <= UsizeMax

(* What is true of the counts until then: the bytes no Ok accounted for,   *)
SinkBounded ==
  Len(io.sink) - Len(acked) <= IF Tears THEN before + Failures ELSE 0

(* and those the CrashWriter did not count.                                *)
CrashCounted ==
  setup.stack # <<"chaos">> =>
    LET uncounted == Len(io.sink) - base - io.written
    IN  /\ 0 <= uncounted
        /\ uncounted <= IF Tears /\ setup.stack = <<"crash", "chaos">>
                          THEN Failures ELSE 0

Accounted == SinkBounded /\ InjectedFailuresSurface /\ CrashCounted

-----------------------------------------------------------------------------
(* Facts the steps use.                                                    *)

(* The setup in use is one of Setups.                                      *)
LEMMA SetupFacts == Formed => SetupOK
BY SetupsAssumption DEF Formed, SetupOK

(* The bytes of the file, of the buffers and those acknowledged are numbers.*)
LEMMA BytesAreNumbers ==
  ASSUME NEW s \in Seq(Bytes)
  PROVE  s \in Seq(Int) /\ Len(s) \in Nat /\ \A i \in 1..Len(s) : s[i] \in Int
<1>1. Bytes \subseteq Int
  BY DEF Bytes
<1>2. s \in Seq(Int) /\ Len(s) \in Nat
  BY <1>1, SeqMonotonic, LenProperties
<1>3. QED
  BY <1>2, ElementOfSeq

(* What a call of write on the outermost wrapper returns is what the       *)
(* client's call goes on or ends with.                                     *)
Returns(o) ==
  /\ pc # "idle" /\ writes < MaxWrites /\ writes' = writes + 1
  /\ io' = o.io
  /\ acked' = acked \o Prefix(rest, o.n)
  /\ errs' = IF o.err = "none" THEN errs ELSE errs + 1
  /\ injected' = IF o.err = "injected" THEN injected + 1 ELSE injected
  /\ IF GoesOn(o) THEN rest' = Suffix(rest, Len(rest) - o.n) /\ UNCHANGED <<pc, result>>
                  ELSE /\ rest' = <<>> /\ pc' = "idle"
                       /\ result' = IF Succeeds(o) THEN pc ELSE "err"
  /\ UNCHANGED <<setup, chunk, bytes, safe, base, before, calls, opens>>

(* A call of write goes through one of the four stacks.                    *)
LEMMA WriteCases ==
  ASSUME IInv, Write
  PROVE  \E o, k, f, d : Effect(io, rest, o, k, f, d) /\ Returns(o)
<1>1. PICK o \in StackWrite(io, rest) : Returns(o)
  BY DEF Write, Returns
<1>2. SetupOK /\ io \in IoType /\ io.written <= setup.after /\ rest \in Seq(Bytes)
  BY SetupFacts DEF IInv, Counted, RestIsLast
<1>3. \E k, f, d : Effect(io, rest, o, k, f, d)
  BY <1>2, StackWrites
<1>4. QED
  BY <1>1, <1>3

(* An injected failure or a crash is no error that write_all retries.      *)
LEMMA RetriesInterrupted ==
  ASSUME SetupOK, NEW o, ErrorKind(setup.sched, o.err) = "interrupted"
  PROVE  o.err = "interrupted"
<1>1. ToIoKind(setup.sched.mode) # "interrupted"
  BY DEF ToIoKind, SetupOK, Modes
<1>2. QED
  BY <1>1 DEF ErrorKind

(* write_all goes on past the bytes that reached the file, and every call  *)
(* that succeeds acknowledges them.                                        *)
LEMMA GoesOnFacts ==
  ASSUME SetupOK, NEW s, NEW b, NEW o, NEW k, NEW f, NEW d,
         Written(s, b, o, k, f, d)
  PROVE  /\ GoesOn(o) => pc = "write_all" /\ o.n = k
         /\ o.err = "none" => o.n = k /\ f = 0
         /\ o.n \in {0, k}
<1>1. /\ f \in {0, 1} /\ (f = 0 => o.n = k) /\ (f = 1 => o.err # "none")
      /\ (o.err # "none" => o.n = 0)
      /\ (o.err \notin {"none", "injected"} => k = 0)
  BY DEF Written
<1>2. ErrorKind(setup.sched, o.err) = "interrupted" => k = 0 /\ o.n = 0
  BY <1>1, RetriesInterrupted
<1>3. QED
  BY <1>1, <1>2 DEF GoesOn

-----------------------------------------------------------------------------
(* A write.                                                                *)

(* The bytes of a file after k bytes of a buffer were appended.            *)
LEMMA Appended ==
  ASSUME NEW s \in Seq(Bytes), NEW b \in Seq(Bytes), NEW k \in 0..Len(b)
  PROVE  LET t == s \o Prefix(b, k)
         IN  /\ t \in Seq(Bytes) /\ Len(t) = Len(s) + k
             /\ \A i \in 1..Len(s) : t[i] = s[i]
             /\ \A i \in 1..k : t[Len(s) + i] = b[i]
<1> DEFINE p == Prefix(b, k)
           t == s \o p
<1>1. p \in Seq(Bytes) /\ Len(p) = k /\ \A i \in 1..k : p[i] = b[i]
  BY PrefixFacts
<1> HIDE DEF p
<1>2. /\ t \in Seq(Bytes) /\ Len(t) = Len(s) + Len(p)
      /\ \A i \in 1..Len(s) + Len(p) : t[i] = IF i <= Len(s) THEN s[i] ELSE p[i - Len(s)]
  BY <1>1, ConcatProperties
<1>3. Len(s) \in Nat /\ k \in Nat
  BY LenProperties
<1> HIDE DEF t
<1>4. \A i \in 1..Len(s) : t[i] = s[i]
  BY <1>1, <1>2, <1>3
<1>5. ASSUME NEW i \in 1..k
      PROVE  t[Len(s) + i] = b[i]
  <2>1. /\ Len(s) + i \in 1..Len(s) + Len(p) /\ ~ (Len(s) + i <= Len(s))
        /\ Len(s) + i - Len(s) = i
    BY <1>1, <1>3
  <2>2. t[Len(s) + i] = p[i]
    BY <1>2, <2>1
  <2>3. QED
    BY <1>1, <2>2
<1>6. QED
  BY <1>1, <1>2, <1>4, <1>5 DEF t, p

(* What is left of a buffer after its first k bytes.                       *)
LEMMA RestOfBuffer ==
  ASSUME NEW b \in Seq(Bytes), NEW k \in 0..Len(b), NEW e \in Nat, EndsAt(b, e)
  PROVE  LET r == Suffix(b, Len(b) - k)
         IN  r \in Seq(Bytes) /\ Len(r) = Len(b) - k /\ EndsAt(r, e)
<1> DEFINE r == SubSeq(b, k + 1, Len(b))
<1>1. Len(b) \in Nat /\ k \in Nat /\ k <= Len(b) /\ Len(b) - (Len(b) - k) + 1 = k + 1
  BY LenProperties
<1>2. Suffix(b, Len(b) - k) = r
  BY <1>1 DEF Suffix
<1>3. /\ Len(r) = Len(b) - k
      /\ \A i \in 1..Len(b) - k : r[i] = b[k + i]
  BY <1>1, SubSeqProperties
<1>4. r \in Seq(Bytes)
  <2>1. \A i \in k + 1..Len(b) : b[i] \in Bytes
    BY <1>1, ElementOfSeq
  <2>2. QED
    BY <1>1, <2>1, SubSeqProperties
<1> HIDE DEF r
<1>5. ASSUME NEW i \in 1..Len(r)
      PROVE  r[i] = e - Len(r) + i
  <2>1. k + i \in 1..Len(b) /\ i \in 1..Len(b) - k
    BY <1>1, <1>3
  <2>2. r[i] = b[k + i] /\ b[k + i] = e - Len(b) + (k + i)
    BY <1>3, <2>1 DEF EndsAt
  <2>3. QED
    BY <1>1, <1>3, <2>2
<1>6. Len(r) <= e
  BY <1>1, <1>3 DEF EndsAt
<1>7. QED
  BY <1>2, <1>3, <1>4, <1>5, <1>6 DEF EndsAt

(* A buffer whose bytes are numbered in a row is in order, and comes after *)
(* all that was handed over before it.                                     *)
LEMMA BufferInOrder ==
  ASSUME NEW b \in Seq(Bytes), NEW e \in Nat, EndsAt(b, e), NEW s \in Seq(Bytes),
         \A j \in 1..Len(s) : s[j] <= e - Len(b)
  PROVE  Ordered(b) /\ \A i \in 1..Len(s), j \in 1..Len(b) : s[i] < b[j]
<1>1. Len(b) \in Nat /\ \A i \in 1..Len(b) : b[i] = e - Len(b) + i
  BY LenProperties DEF EndsAt
<1>2. Ordered(b)
  BY <1>1 DEF Ordered
<1>3. ASSUME NEW i \in 1..Len(s), NEW j \in 1..Len(b)
      PROVE  s[i] < b[j]
  <2>1. s[i] \in Int /\ s[i] <= e - Len(b) /\ b[j] = e - Len(b) + j /\ j >= 1 /\ j \in Int
    BY <1>1, BytesAreNumbers
  <2>2. QED
    BY <1>1, <2>1
<1>4. QED
  BY <1>2, <1>3

(* What a write changes.                                                   *)
LEMMA WriteFacts ==
  ASSUME IInv, NEW o, NEW k, NEW f, NEW d, Effect(io, rest, o, k, f, d), Returns(o)
  PROVE  /\ SetupOK /\ k \in 0..Len(rest) /\ k \in Nat /\ o.n \in 0..k
         /\ io'.sink = io.sink \o Prefix(rest, k)
         /\ Len(io'.sink) = Len(io.sink) + k /\ Len(io.sink) \in Nat
         /\ \A i \in 1..Len(io.sink) : io'.sink[i] = io.sink[i]
         /\ \A i \in 1..k : io'.sink[Len(io.sink) + i] = rest[i]
         /\ Len(acked') = Len(acked) + o.n /\ acked' \in Seq(Bytes) /\ Len(acked) \in Nat
         /\ \A i \in 1..Len(acked) : acked'[i] = acked[i]
         /\ GoesOn(o) => /\ pc = "write_all" /\ o.n = k
                         /\ rest' \in Seq(Bytes) /\ Len(rest') = Len(rest) - k
                         /\ EndsAt(rest', bytes)
         /\ ~ GoesOn(o) => rest' = <<>>
<1>1. /\ SetupOK /\ rest \in Seq(Bytes) /\ EndsAt(rest, bytes) /\ bytes \in Nat
      /\ io \in IoType /\ io.sink \in Seq(Bytes) /\ acked \in Seq(Bytes)
  BY SetupFacts DEF IInv, Counted, RestIsLast, SinkInOrder, IoType
<1>2. /\ Written(io, rest, o, k, f, d) /\ k \in 0..Len(rest)
      /\ o.io.sink = io.sink \o Prefix(rest, k)
  BY DEF Effect, Written
<1>3. /\ io' = o.io /\ acked' = acked \o Prefix(rest, o.n)
      /\ GoesOn(o) => rest' = Suffix(rest, Len(rest) - o.n)
      /\ ~ GoesOn(o) => rest' = <<>>
  BY DEF Returns
<1>4. /\ GoesOn(o) => pc = "write_all" /\ o.n = k
      /\ o.n \in {0, k}
  BY <1>1, <1>2, GoesOnFacts
<1>5. Len(rest) \in Nat /\ Len(io.sink) \in Nat /\ Len(acked) \in Nat
  BY <1>1, LenProperties
<1>6. k \in Nat /\ o.n \in 0..k /\ o.n \in 0..Len(rest)
  BY <1>2, <1>4, <1>5
<1>7. /\ io'.sink = io.sink \o Prefix(rest, k)
      /\ Len(io'.sink) = Len(io.sink) + k
      /\ \A i \in 1..Len(io.sink) : io'.sink[i] = io.sink[i]
      /\ \A i \in 1..k : io'.sink[Len(io.sink) + i] = rest[i]
  <2> DEFINE t == io.sink \o Prefix(rest, k)
  <2>1. /\ Len(t) = Len(io.sink) + k
        /\ \A i \in 1..Len(io.sink) : t[i] = io.sink[i]
        /\ \A i \in 1..k : t[Len(io.sink) + i] = rest[i]
    <3>1. io.sink \in Seq(Bytes) /\ rest \in Seq(Bytes) /\ k \in 0..Len(rest)
      BY <1>1, <1>2
    <3>2. QED
      BY <3>1, Appended
  <2> HIDE DEF t
  <2>2. io'.sink = t
    BY <1>2, <1>3 DEF t
  <2>3. QED
    BY <2>1, <2>2 DEF t
<1>8. /\ acked' \in Seq(Bytes) /\ Len(acked') = Len(acked) + o.n
      /\ \A i \in 1..Len(acked) : acked'[i] = acked[i]
  <2> DEFINE t == acked \o Prefix(rest, o.n)
  <2>1. /\ t \in Seq(Bytes) /\ Len(t) = Len(acked) + o.n
        /\ \A i \in 1..Len(acked) : t[i] = acked[i]
    BY <1>1, <1>6, Appended
  <2> HIDE DEF t
  <2>2. QED
    BY <1>3, <2>1 DEF t
<1>9. GoesOn(o) => /\ rest' \in Seq(Bytes) /\ Len(rest') = Len(rest) - k
                  /\ EndsAt(rest', bytes)
  <2> DEFINE r == Suffix(rest, Len(rest) - k)
  <2>1. r \in Seq(Bytes) /\ Len(r) = Len(rest) - k /\ EndsAt(r, bytes)
    BY <1>1, <1>2, RestOfBuffer
  <2> HIDE DEF r
  <2>2. QED
    BY <1>3, <1>4, <2>1 DEF r
<1>10. QED
  BY <1>1, <1>2, <1>3, <1>4, <1>5, <1>6, <1>7, <1>8, <1>9

(* A write, whatever it returns, keeps each part of the invariant.         *)
LEMMA WriteStep ==
  ASSUME IInv, Write
  PROVE  IInv'
<1>1. PICK o, k, f, d : Effect(io, rest, o, k, f, d) /\ Returns(o)
  BY WriteCases
<1>2. /\ SetupOK /\ k \in 0..Len(rest) /\ k \in Nat /\ o.n \in 0..k
      /\ io'.sink = io.sink \o Prefix(rest, k)
      /\ Len(io'.sink) = Len(io.sink) + k /\ Len(io.sink) \in Nat
      /\ \A i \in 1..Len(io.sink) : io'.sink[i] = io.sink[i]
      /\ \A i \in 1..k : io'.sink[Len(io.sink) + i] = rest[i]
      /\ Len(acked') = Len(acked) + o.n /\ acked' \in Seq(Bytes) /\ Len(acked) \in Nat
      /\ \A i \in 1..Len(acked) : acked'[i] = acked[i]
  BY <1>1, WriteFacts
<1>3. /\ GoesOn(o) => /\ pc = "write_all" /\ o.n = k
                      /\ rest' \in Seq(Bytes) /\ Len(rest') = Len(rest) - k
                      /\ EndsAt(rest', bytes)
      /\ ~ GoesOn(o) => rest' = <<>>
  BY <1>1, WriteFacts
<1>4. /\ UNCHANGED <<setup, chunk, bytes, safe, base, before, calls, opens>>
      /\ pc # "idle" /\ writes < MaxWrites /\ writes' = writes + 1
      /\ GoesOn(o) => UNCHANGED <<pc, result>>
      /\ ~ GoesOn(o) => pc' = "idle" /\ result' = IF Succeeds(o) THEN pc ELSE "err"
      /\ errs' = IF o.err = "none" THEN errs ELSE errs + 1
      /\ injected' = IF o.err = "injected" THEN injected + 1 ELSE injected
  BY <1>1 DEF Returns
<1>5. /\ io' = o.io /\ io' \in IoType /\ io'.flushed = io.flushed
      /\ \/ io'.attempt = io.attempt /\ io'.failures = io.failures
         \/ io'.attempt = io.attempt + 1 /\ io'.failures \in {io.failures, io.failures + 1}
      /\ io'.written = io.written + d /\ d \in Nat
  BY <1>1 DEF Effect, Written, Returns, OutType
<1>6. /\ chunk \in Seq(Bytes) /\ rest \in Seq(Bytes) /\ Len(rest) <= Len(chunk)
      /\ EndsAt(chunk, bytes) /\ EndsAt(rest, bytes) /\ bytes \in Nat
      /\ Len(chunk) \in Nat /\ Len(rest) \in Nat /\ Len(rest) <= bytes
      /\ io.sink \in Seq(Bytes) /\ acked \in Seq(Bytes) /\ safe \in Seq(Bytes)
      /\ Len(safe) \in Nat
  BY LenProperties DEF IInv, RestIsLast, EndsAt, Counted, SinkInOrder, SafeIsFlushed, IoType
<1>7. Formed'
  <2>1. base' \in 0..Len(io'.sink)
    BY <1>2, <1>4 DEF IInv, Formed
  <2>2. errs' \in Nat /\ injected' \in Nat
    BY <1>4 DEF IInv, Formed
  <2>3. result' \in {"none", "write", "write_all", "flush", "err"}
    BY <1>4 DEF IInv, Formed
  <2>4. QED
    BY <1>4, <2>1, <2>2, <2>3 DEF IInv, Formed
<1>8. Counted'
  <2>1. io'.failures <= io'.attempt /\ io'.attempt <= writes' /\ writes' \in 0..MaxWrites
    <3>1. /\ io.failures \in Nat /\ io.attempt \in Nat /\ writes \in Nat
          /\ io.failures <= io.attempt /\ io.attempt <= writes /\ MaxWrites \in Nat
      BY BoundsAssumption DEF IInv, Counted, IoType
    <3>2. QED
      BY <1>4, <1>5, <3>1
  <2>2. io'.written <= setup'.after
    <3>1. setup.stack # <<"chaos">> => io.written + d <= setup.after
      BY <1>1 DEF Effect
    <3>2. setup.stack = <<"chaos">> => d = 0
      BY <1>1 DEF Effect
    <3>3. io.written <= setup.after /\ io.written \in Nat
      BY DEF IInv, Counted, IoType
    <3>4. QED
      BY <1>4, <1>5, <3>1, <3>2, <3>3
  <2>3. io'.flushed <= Len(io'.sink)
    <3>1. io.flushed \in Nat /\ io.flushed <= Len(io.sink)
      BY DEF IInv, Counted, IoType
    <3>2. QED
      BY <1>2, <1>5, <3>1
  <2>4. QED
    BY <1>4, <1>5, <2>1, <2>2, <2>3 DEF IInv, Counted
<1>9. RestIsLast'
  <2>1. CASE GoesOn(o)
    <3>1. pc' # "idle" /\ Len(rest') <= Len(chunk')
      BY <1>2, <1>3, <1>4, <1>6, <2>1
    <3>2. EndsAt(rest', bytes')
      BY <1>3, <1>4, <2>1
    <3>3. EndsAt(chunk', bytes')
      BY <1>4, <1>6
    <3>4. QED
      BY <1>3, <1>4, <1>6, <2>1, <3>1, <3>2, <3>3 DEF RestIsLast
  <2>2. CASE ~ GoesOn(o)
    <3>1. rest' = <<>> /\ Len(rest') = 0 /\ rest' \in Seq(Bytes)
      BY <1>3, <2>2, EmptySeq
    <3>2. EndsAt(rest', bytes')
      BY <1>4, <1>6, <3>1 DEF EndsAt
    <3>3. EndsAt(chunk', bytes')
      BY <1>4, <1>6
    <3>4. QED
      BY <1>4, <1>6, <3>1, <3>2, <3>3 DEF RestIsLast
  <2>3. QED
    BY <2>1, <2>2
<1>10. SinkInOrder'
  <2>1. \A j \in 1..Len(io.sink) : io.sink[j] <= bytes - Len(rest)
    BY DEF IInv, SinkInOrder, SinkIsBefore
  <2>2. Ordered(rest) /\ \A i \in 1..Len(io.sink), j \in 1..Len(rest) : io.sink[i] < rest[j]
    BY <1>6, <2>1, BufferInOrder
  <2>3. io.sink \in Seq(Int) /\ acked \in Seq(Int) /\ rest \in Seq(Int)
    BY <1>6, BytesAreNumbers
  <2>4. Ordered(io'.sink) /\ Ordered(acked') /\ HoldsAll(io'.sink, acked')
    <3>1. /\ Ordered(io.sink \o Prefix(rest, k)) /\ Ordered(acked \o Prefix(rest, o.n))
          /\ HoldsAll(io.sink \o Prefix(rest, k), acked \o Prefix(rest, o.n))
      BY <1>2, <2>2, <2>3, AppendedInOrder DEF IInv, SinkInOrder
    <3>2. io'.sink = io.sink \o Prefix(rest, k) /\ acked' = acked \o Prefix(rest, o.n)
      BY <1>1, <1>2 DEF Returns
    <3>3. QED
      BY <3>1, <3>2, Zenon
  <2>5. Len(rest') <= Len(rest) - k \/ rest' = <<>>
    BY <1>2, <1>3, <1>6
  <2>6. ASSUME NEW j \in 1..Len(io'.sink)
        PROVE  io'.sink[j] <= bytes - Len(rest) + k
    <3>1. CASE j <= Len(io.sink)
      <4>1. j \in 1..Len(io.sink)
        BY <1>2, <3>1
      <4>2. io'.sink[j] <= bytes - Len(rest) /\ io'.sink[j] \in Int
        BY <1>2, <1>6, <2>1, <4>1, BytesAreNumbers
      <4> DEFINE x == io'.sink[j]
                 m == Len(rest)
      <4> HIDE DEF x, m
      <4>3. /\ x <= bytes - m /\ x \in Int
            /\ m \in Nat /\ bytes \in Nat /\ k \in Nat
        BY <1>2, <1>6, <4>2 DEF x, m
      <4>4. x <= bytes - m + k
        BY <4>3
      <4>5. QED
        BY <4>4 DEF x, m
    <3>2. CASE j > Len(io.sink)
      <4> DEFINE i == j - Len(io.sink)
      <4>1. Len(io'.sink) = Len(io.sink) + k /\ Len(io.sink) \in Nat /\ k \in 0..Len(rest)
        BY <1>2
      <4>2. i \in 1..k /\ j = Len(io.sink) + i
        BY <3>2, <4>1
      <4>3. i \in 1..Len(rest)
        BY <1>6, <4>1, <4>2
      <4> HIDE DEF i
      <4>4. io'.sink[j] = rest[i] /\ rest[i] = bytes - Len(rest) + i
        BY <1>2, <1>6, <4>2, <4>3 DEF EndsAt
      <4>5. QED
        BY <1>2, <1>6, <4>2, <4>4
    <3>3. QED
      BY <1>2, <3>1, <3>2
  <2>7. io' \in IoType /\ io'.sink \in Seq(Bytes)
    BY <1>5 DEF IoType
  <2>8. bytes - Len(rest) + k <= bytes - Len(rest')
    <3>1. CASE GoesOn(o)
      BY <1>2, <1>3, <1>6, <3>1
    <3>2. CASE ~ GoesOn(o)
      <4>1. Len(rest') = 0
        BY <1>3, <3>2, EmptySeq
      <4>2. QED
        BY <1>2, <1>6, <4>1
    <3>3. QED
      BY <3>1, <3>2
  <2>9. Len(rest') \in Nat
    BY <1>9, LenProperties DEF RestIsLast
  <2>10. ASSUME NEW j \in 1..Len(io'.sink)
         PROVE  io'.sink[j] <= bytes' - Len(rest')
    <3>1. io'.sink[j] \in Int
      BY <2>7, BytesAreNumbers
    <3>2. io'.sink[j] <= bytes - Len(rest) + k
      BY <2>6
    <3> DEFINE x == io'.sink[j]
               m == bytes - Len(rest) + k
               n == bytes - Len(rest')
    <3>3. m \in Int /\ n \in Int
      BY <1>2, <1>6, <2>9
    <3>4. m <= n /\ x <= m /\ x \in Int
      BY <2>8, <3>1, <3>2
    <3> HIDE DEF x, m, n
    <3>5. x <= n
      BY <3>3, <3>4
    <3>6. bytes' = bytes
      BY <1>4
    <3>7. QED
      BY <3>5, <3>6, Zenon DEF x, n
  <2>11. QED
    BY <1>2, <2>4, <2>10 DEF SinkInOrder, SinkIsBefore
<1>11. SafeIsFlushed'
  <2>1. Len(safe) <= Len(acked')
    BY <1>2, <1>6 DEF IInv, SafeIsFlushed
  <2>2. ASSUME NEW i \in 1..Len(safe)
        PROVE  acked'[i] = safe[i] /\ \E j \in 1..io'.flushed : io'.sink[j] = safe[i]
    <3>1. i \in 1..Len(acked) /\ acked[i] = safe[i]
      BY <1>2, <1>6 DEF IInv, SafeIsFlushed
    <3>2. PICK j \in 1..io.flushed : io.sink[j] = safe[i]
      BY DEF IInv, SafeIsFlushed
    <3>3. io.flushed \in Nat /\ io.flushed <= Len(io.sink)
      BY DEF IInv, Counted, IoType
    <3>4. j \in 1..Len(io.sink) /\ j \in 1..io'.flushed
      BY <1>2, <1>5, <3>3
    <3>5. QED
      BY <1>2, <3>1, <3>2, <3>4
  <2>3. QED
    BY <1>4, <1>6, <2>1, <2>2 DEF SafeIsFlushed
<1>12. WrittenIsLast'
  <2> DEFINE done == Len(chunk) - Len(rest)
  <2>1. done \in Nat /\ done + k \in Nat /\ done + k <= Len(chunk)
    BY <1>2, <1>6
  <2>2. ASSUME pc = "write_all"
        PROVE  /\ done + k <= Len(io'.sink)
               /\ \A i \in 1..done + k : io'.sink[Len(io'.sink) - (done + k) + i] = chunk[i]
    <3>1. /\ done <= Len(io.sink)
          /\ \A i \in 1..done : io.sink[Len(io.sink) - done + i] = chunk[i]
      BY <2>2 DEF IInv, WrittenIsLast
    <3>2. \A i \in 1..Len(chunk) : chunk[i] = bytes - Len(chunk) + i
      BY <1>6 DEF EndsAt
    <3>3. \A i \in 1..Len(rest) : rest[i] = bytes - Len(rest) + i
      BY <1>6 DEF EndsAt
    <3>4. done + Len(rest) = Len(chunk)
      BY <1>6
    <3> HIDE DEF done
    <3>5. done + k <= Len(io'.sink)
      BY <1>2, <2>1, <3>1
    <3>6. ASSUME NEW i \in 1..done + k
          PROVE  io'.sink[Len(io'.sink) - (done + k) + i] = chunk[i]
      <4> DEFINE j == Len(io.sink) - done + i
      <4>1. Len(io'.sink) - (done + k) + i = j /\ i \in Nat
        BY <1>2, <2>1
      <4>2. CASE i <= done
        <5>1. i \in 1..done /\ j \in 1..Len(io.sink)
          BY <1>2, <2>1, <3>1, <4>1, <4>2
        <5>2. io.sink[j] = chunk[i] /\ io'.sink[j] = io.sink[j]
          BY <1>2, <3>1, <5>1
        <5>3. QED
          BY <4>1, <5>2
      <4>3. CASE i > done
        <5> DEFINE m == i - done
        <5>1. m \in 1..k /\ m \in 1..Len(rest) /\ j = Len(io.sink) + m /\ i = done + m
          BY <1>2, <1>6, <2>1, <4>1, <4>3
        <5> HIDE DEF m
        <5>2. io'.sink[Len(io.sink) + m] = rest[m] /\ rest[m] = bytes - Len(rest) + m
          BY <1>2, <3>3, <5>1
        <5>3. i \in 1..Len(chunk)
          BY <1>6, <2>1, <3>4
        <5>4. chunk[i] = bytes - Len(chunk) + i
          BY <3>2, <5>3
        <5>5. bytes - Len(chunk) + i = bytes - Len(rest) + m
          <6> DEFINE c == Len(chunk)
                     r == Len(rest)
          <6>1. c \in Nat /\ r \in Nat /\ done + r = c /\ i = done + m
            BY <1>6, <3>4, <5>1
          <6>2. m \in Nat /\ done \in Nat /\ bytes \in Nat
            BY <1>6, <2>1, <5>1
          <6> HIDE DEF c, r
          <6>3. bytes - c + i = bytes - r + m
            BY <6>1, <6>2
          <6>4. QED
            BY <6>3 DEF c, r
        <5>6. QED
          BY <4>1, <5>1, <5>2, <5>4, <5>5, Zenon
      <4>4. QED
        BY <2>1, <4>1, <4>2, <4>3
    <3>7. QED
      BY <3>5, <3>6
  <2>3. result = "none"
    BY <1>4 DEF IInv, WrittenIsLast
  <2>4. CASE GoesOn(o)
    <3>1. /\ pc = "write_all" /\ pc' = pc /\ result' = "none" /\ chunk' = chunk
          /\ Len(rest') = Len(rest) - k
      BY <1>3, <1>4, <2>3, <2>4
    <3>2. Len(chunk') - Len(rest') = done + k
      BY <1>2, <1>6, <3>1
    <3> HIDE DEF done
    <3>3. QED
      BY <2>2, <3>1, <3>2 DEF WrittenIsLast
  <2>5. CASE ~ GoesOn(o)
    <3>1. pc' = "idle" /\ chunk' = chunk /\ result' = IF Succeeds(o) THEN pc ELSE "err"
      BY <1>4, <2>5
    <3>2. ASSUME result' = "write_all"
          PROVE  /\ Len(chunk') <= Len(io'.sink)
                 /\ \A i \in 1..Len(chunk') :
                      io'.sink[Len(io'.sink) - Len(chunk') + i] = chunk'[i]
      <4>1. pc = "write_all" /\ Succeeds(o)
        BY <3>1, <3>2
      <4>2. o.err = "none" /\ o.n = Len(rest)
        BY <4>1 DEF Succeeds
      <4>3. k = Len(rest)
        BY <1>1, <1>2, <4>2, GoesOnFacts DEF Effect
      <4>4. done + k = Len(chunk)
        BY <1>6, <4>3
      <4> HIDE DEF done
      <4>5. QED
        BY <2>2, <3>1, <4>1, <4>4
    <3>3. QED
      BY <3>1, <3>2 DEF WrittenIsLast
  <2>6. QED
    BY <2>4, <2>5
<1>13. QED
  BY <1>7, <1>8, <1>9, <1>10, <1>11, <1>12 DEF IInv

-----------------------------------------------------------------------------
(* The other steps.                                                        *)

(* The bytes of the next chunk are within bounds.                          *)
LEMMA NextBytes ==
  ASSUME Counted, calls < MaxCalls, NEW n \in 0..MaxChunk
  PROVE  bytes + n <= (calls + 1) * MaxChunk /\ \A i \in 1..n : bytes + i \in Bytes
<1>1. calls \in Nat /\ MaxCalls \in Nat /\ MaxChunk \in Nat /\ bytes \in Nat
  BY BoundsAssumption DEF Counted
<1>2. (calls + 1) * MaxChunk = calls * MaxChunk + MaxChunk
  BY <1>1
<1>3. (calls + 1) * MaxChunk <= MaxCalls * MaxChunk
  BY <1>1
<1>4. calls * MaxChunk \in Nat /\ MaxCalls * MaxChunk \in Nat /\ bytes <= calls * MaxChunk
  BY <1>1 DEF Counted
<1> DEFINE p == calls * MaxChunk
           q == MaxCalls * MaxChunk
           r == (calls + 1) * MaxChunk
<1> HIDE DEF p, q, r
<1>5. p \in Nat /\ q \in Nat /\ r = p + MaxChunk /\ r <= q /\ bytes <= p
  BY <1>2, <1>3, <1>4 DEF p, q, r
<1>6. bytes + n <= r /\ \A i \in 1..n : bytes + i \in 1..q
  BY <1>1, <1>5
<1>7. QED
  BY <1>6 DEF Bytes, q, r

(* Starting write or write_all with the next chunk keeps the invariant.    *)
LEMMA CallStep ==
  ASSUME IInv, NEW kind \in {"write", "write_all"}, NEW n \in 0..MaxChunk, Call(kind, n)
  PROVE  IInv'
<1> DEFINE b == [i \in 1..n |-> bytes + i]
<1>1. /\ pc = "idle" /\ calls < MaxCalls /\ pc' = kind /\ chunk' = b /\ rest' = b
      /\ bytes' = bytes + n /\ calls' = calls + 1 /\ result' = "none"
      /\ UNCHANGED <<setup, io, acked, safe, base, before, writes, opens, errs, injected>>
  BY DEF Call
<1>2. /\ bytes + n <= (calls + 1) * MaxChunk /\ \A i \in 1..n : bytes + i \in Bytes
      /\ n \in Nat /\ bytes \in Nat /\ calls \in Nat /\ MaxCalls \in Nat
  <2>1. Counted /\ calls < MaxCalls
    BY <1>1 DEF IInv
  <2>2. n \in Nat /\ bytes \in Nat /\ calls \in Nat /\ MaxCalls \in Nat
    BY <2>1, BoundsAssumption DEF Counted
  <2>3. QED
    BY <2>1, <2>2, NextBytes
<1>3. b \in Seq(Bytes) /\ Len(b) = n
  BY <1>2, IsASeq
<1>4. \A i \in 1..n : b[i] = bytes + i
  OBVIOUS
<1> HIDE DEF b
<1>5. Formed'
  BY <1>1 DEF IInv, Formed
<1>6. Counted'
  BY <1>1, <1>2 DEF IInv, Counted
<1>7. RestIsLast'
  <2>1. EndsAt(b, bytes + n)
    <3>1. \A i \in 1..Len(b) : b[i] = (bytes + n) - Len(b) + i
      BY <1>2, <1>3, <1>4
    <3>2. Len(b) <= bytes + n
      BY <1>2, <1>3
    <3>3. QED
      BY <3>1, <3>2, Zenon DEF EndsAt
  <2>2. QED
    BY <1>1, <1>2, <1>3, <2>1 DEF RestIsLast
<1>8. SinkInOrder'
  <2>1. Len(rest) = 0
    BY <1>1, EmptySeq DEF IInv, RestIsLast
  <2>2. bytes' - Len(rest') = bytes - Len(rest)
    BY <1>1, <1>2, <1>3, <2>1
  <2>3. SinkIsBefore'
    BY <1>1, <2>2 DEF IInv, SinkInOrder, SinkIsBefore
  <2>4. QED
    BY <1>1, <2>3 DEF IInv, SinkInOrder
<1>9. SafeIsFlushed'
  BY <1>1 DEF IInv, SafeIsFlushed
<1>10. WrittenIsLast'
  <2>1. Len(chunk') - Len(rest') = 0
    BY <1>1, <1>2, <1>3
  <2>2. 0 <= Len(io'.sink)
    BY <1>1, LenProperties DEF IInv, Counted, IoType
  <2>3. result' = "none"
    BY <1>1
  <2>4. QED
    BY <2>1, <2>2, <2>3 DEF WrittenIsLast
<1>11. QED
  BY <1>5, <1>6, <1>7, <1>8, <1>9, <1>10 DEF IInv

(* A flush moves the bytes that a crash can lose, and nothing else.        *)
LEMMA FlushFacts ==
  ASSUME NEW s \in IoType, s.flushed <= Len(s.sink), NEW o \in StackFlush(s)
  PROVE  /\ o.io \in IoType /\ o.io.sink = s.sink
         /\ o.io.attempt = s.attempt /\ o.io.failures = s.failures
         /\ o.io.written = s.written
         /\ o.io.flushed \in s.flushed..Len(s.sink)
         /\ o.err = "none" => o.io.flushed = Len(s.sink)
<1>1. Len(s.sink) \in Nat /\ s.flushed \in Nat
  BY LenProperties DEF IoType
<1>2. PICK n \in s.flushed..Len(s.sink) :
        /\ o.io = [s EXCEPT !.flushed = n]
        /\ o.err = "none" => n = Len(s.sink)
  <2>1. CASE o = Ok([s EXCEPT !.flushed = Len(s.sink)], 0)
    BY <1>1, <2>1 DEF Ok
  <2>2. ASSUME NEW n \in s.flushed..Len(s.sink), NEW e \in InnerErrors,
               o = Err([s EXCEPT !.flushed = n], e)
        PROVE  o.io = [s EXCEPT !.flushed = n] /\ o.err # "none"
    BY <2>2 DEF Err, InnerErrors
  <2>3. QED
    BY <2>1, <2>2 DEF StackFlush, InnerFlush
<1>3. n \in Nat
  BY <1>1
<1>4. QED
  BY <1>2, <1>3 DEF IoType

(* Flushing the stack keeps the invariant: nothing but flushed moves.      *)
LEMMA FlushStep ==
  ASSUME IInv, Flush
  PROVE  IInv'
<1>1. PICK o \in StackFlush(io) :
        /\ io' = o.io
        /\ safe' = IF o.err = "none" THEN acked ELSE safe
        /\ result' = IF o.err = "none" THEN "flush" ELSE "err"
  BY DEF Flush
<1>2. /\ pc = "idle" /\ calls < MaxCalls /\ calls' = calls + 1
      /\ UNCHANGED <<setup, pc, chunk, rest, bytes, acked, base, before, writes,
                     opens, errs, injected>>
  BY DEF Flush
<1>3. io \in IoType /\ io.flushed <= Len(io.sink)
  BY DEF IInv, Counted
<1>4. /\ io' \in IoType /\ io'.sink = io.sink
      /\ io'.attempt = io.attempt /\ io'.failures = io.failures
      /\ io'.written = io.written
      /\ io'.flushed \in io.flushed..Len(io.sink)
      /\ o.err = "none" => io'.flushed = Len(io.sink)
  BY <1>1, <1>3, FlushFacts
<1>5. Len(io.sink) \in Nat /\ io.flushed \in Nat /\ io'.flushed \in Nat
  BY <1>3, <1>4, LenProperties DEF IoType
<1>6. Formed'
  <2>1. result' \in {"none", "write", "write_all", "flush", "err"}
    BY <1>1
  <2>2. QED
    BY <1>2, <1>4, <2>1 DEF IInv, Formed
<1>7. Counted'
  <2>1. bytes <= (calls + 1) * MaxChunk /\ calls + 1 \in 0..MaxCalls
    <3>1. 0 \in 0..MaxChunk /\ calls \in Nat /\ MaxCalls \in Nat /\ bytes \in Nat
      BY BoundsAssumption DEF IInv, Counted
    <3>2. bytes + 0 <= (calls + 1) * MaxChunk
      BY <1>2, <3>1, NextBytes DEF IInv
    <3>3. bytes + 0 = bytes /\ calls + 1 \in 0..MaxCalls
      BY <1>2, <3>1
    <3>4. QED
      BY <3>2, <3>3
  <2>2. io'.flushed <= Len(io'.sink)
    BY <1>4, <1>5
  <2>3. QED
    BY <1>2, <1>4, <2>1, <2>2 DEF IInv, Counted
<1>8. RestIsLast' /\ SinkInOrder'
  BY <1>2, <1>4 DEF IInv, RestIsLast, SinkInOrder, SinkIsBefore
<1>9. SafeIsFlushed'
  <2>1. CASE o.err = "none"
    <3>1. safe' = acked /\ acked' = acked /\ io'.flushed = Len(io.sink)
          /\ Len(acked) \in Nat /\ acked \in Seq(Bytes)
      BY <1>1, <1>2, <1>4, <2>1, LenProperties DEF IInv, SinkInOrder
    <3>2. \A i \in 1..Len(acked) : \E j \in 1..Len(io.sink) : io.sink[j] = acked[i]
      BY DEF IInv, SinkInOrder, HoldsAll, Holds
    <3>3. QED
      BY <1>4, <3>1, <3>2 DEF SafeIsFlushed
  <2>2. CASE o.err # "none"
    <3>1. safe' = safe /\ acked' = acked
      BY <1>1, <1>2, <2>2
    <3>2. ASSUME NEW i \in 1..Len(safe)
          PROVE  \E j \in 1..io'.flushed : io'.sink[j] = safe[i]
      <4>1. PICK j \in 1..io.flushed : io.sink[j] = safe[i]
        BY DEF IInv, SafeIsFlushed
      <4>2. j \in 1..io'.flushed
        BY <1>4, <1>5
      <4>3. QED
        BY <1>4, <4>1, <4>2
    <3>3. QED
      BY <3>1, <3>2 DEF IInv, SafeIsFlushed
  <2>3. QED
    BY <2>1, <2>2
<1>10. WrittenIsLast'
  <2>1. pc' = "idle" /\ result' # "write_all"
    BY <1>1, <1>2
  <2>2. QED
    BY <2>1 DEF WrittenIsLast
<1>11. QED
  BY <1>6, <1>7, <1>8, <1>9, <1>10 DEF IInv

(* What Open does to the state, whatever the bytes acknowledged become.    *)
LEMMA OpenFacts ==
  ASSUME IInv, NEW t \in Seq(Bytes), NEW n \in 0..Len(t), Open(t, n), before' \in Nat,
         \A j \in 1..Len(t) : t[j] <= bytes
  PROVE  /\ Formed' /\ Counted' /\ RestIsLast' /\ SinkIsBefore' /\ WrittenIsLast'
         /\ io'.sink = t /\ io'.flushed = n /\ io'.failures = 0 /\ io'.written = 0
<1>1. /\ opens' = opens + 1 /\ io' = FreshWriter(t, n) /\ base' = Len(t)
      /\ pc' = "idle" /\ chunk' = <<>> /\ rest' = <<>> /\ result' = "none"
      /\ errs' = 0 /\ injected' = 0
      /\ UNCHANGED <<setup, bytes, calls, writes>>
  BY DEF Open
<1>2. Len(t) \in Nat /\ n \in Nat /\ n <= Len(t)
  BY LenProperties
<1>3. /\ io' \in IoType /\ io'.sink = t /\ io'.flushed = n /\ io'.attempt = 0
      /\ io'.failures = 0 /\ io'.written = 0
  BY <1>1, <1>2 DEF FreshWriter, IoType
<1>4. Formed'
  BY <1>1, <1>2, <1>3 DEF IInv, Formed
<1>5. Counted'
  <2>1. 0 <= setup.after /\ 0 <= writes
    BY SetupFacts DEF IInv, SetupOK, Counted
  <2>2. QED
    BY <1>1, <1>2, <1>3, <2>1 DEF IInv, Counted
<1>6. Len(<<>>) = 0 /\ <<>> \in Seq(Bytes) /\ bytes \in Nat
  BY EmptySeq DEF IInv, Counted
<1>7. EndsAt(<<>>, bytes)
  BY <1>6 DEF EndsAt
<1>8. RestIsLast'
  BY <1>1, <1>6, <1>7 DEF RestIsLast
<1>9. SinkIsBefore'
  <2>1. bytes' - Len(rest') = bytes
    BY <1>1, <1>6
  <2>2. QED
    BY <1>3, <2>1 DEF SinkIsBefore
<1>10. WrittenIsLast'
  BY <1>1 DEF WrittenIsLast
<1>11. QED
  BY <1>3, <1>4, <1>5, <1>8, <1>9, <1>10

(* The file is never ahead of what was handed over.                        *)
LEMMA SinkBehind ==
  ASSUME IInv
  PROVE  /\ io.sink \in Seq(Bytes) /\ acked \in Seq(Bytes)
         /\ \A j \in 1..Len(io.sink) : io.sink[j] <= bytes
<1>1. /\ io.sink \in Seq(Bytes) /\ acked \in Seq(Bytes) /\ bytes \in Nat
      /\ Len(rest) \in Nat
  BY LenProperties DEF IInv, Counted, SinkInOrder, RestIsLast, IoType
<1>2. ASSUME NEW j \in 1..Len(io.sink)
      PROVE  io.sink[j] <= bytes
  <2>1. io.sink[j] \in Int
    BY <1>1, BytesAreNumbers
  <2>2. io.sink[j] <= bytes - Len(rest)
    BY DEF IInv, SinkInOrder, SinkIsBefore
  <2> DEFINE x == io.sink[j]
             r == Len(rest)
  <2> HIDE DEF x, r
  <2>3. x \in Int /\ x <= bytes - r /\ r \in Nat /\ bytes \in Nat
    BY <1>1, <2>1, <2>2 DEF x, r
  <2>4. x <= bytes
    BY <2>3
  <2>5. QED
    BY <2>4 DEF x
<1>3. QED
  BY <1>1, <1>2

(* ChaosFile::create starts again from an empty file.                      *)
LEMMA RecreateStep ==
  ASSUME IInv, Recreate
  PROVE  IInv'
<1>1. Open(<<>>, 0) /\ before' = 0 /\ acked' = <<>> /\ safe' = <<>>
  BY DEF Recreate
<1>2. <<>> \in Seq(Bytes) /\ Len(<<>>) = 0 /\ 0 \in 0..Len(<<>>)
  BY EmptySeq
<1>3. \A j \in 1..Len(<<>>) : <<>>[j] <= bytes
  BY <1>2
<1>4. before' \in Nat
  BY <1>1
<1>5. /\ Formed' /\ Counted' /\ RestIsLast' /\ SinkIsBefore' /\ WrittenIsLast'
      /\ io'.sink = <<>>
  BY <1>1, <1>2, <1>3, <1>4, OpenFacts
<1>6. SinkInOrder'
  BY <1>1, <1>2, <1>5 DEF SinkInOrder, Ordered, HoldsAll
<1>7. SafeIsFlushed'
  BY <1>1, <1>2 DEF SafeIsFlushed
<1>8. QED
  BY <1>5, <1>6, <1>7 DEF IInv

(* The failures counted so far.                                            *)
LEMMA FailuresType ==
  ASSUME IInv
  PROVE  Failures \in Nat /\ before + Failures \in Nat
<1>1. setup.sched.limit \in Nat \cup {NoLimit}
  BY SetupFacts DEF IInv, SetupOK
<1>2. io.failures \in Nat /\ before \in Nat
  BY DEF IInv, Counted, IoType, Formed
<1>3. FailureCount(setup.sched.limit, io.failures) \in Nat
  BY <1>1, <1>2, FailureCountType
<1>4. QED
  BY <1>2, <1>3 DEF Failures

(* Taking the file out and wrapping it anew keeps every byte.              *)
LEMMA IntoInnerStep ==
  ASSUME IInv, IntoInner
  PROVE  IInv'
<1>1. /\ Open(io.sink, io.flushed) /\ before' = before + Failures
      /\ UNCHANGED <<acked, safe>>
  BY DEF IntoInner, Failures
<1>2. io.sink \in Seq(Bytes) /\ \A j \in 1..Len(io.sink) : io.sink[j] <= bytes
  BY SinkBehind
<1>3. io.flushed \in 0..Len(io.sink)
  BY <1>2, LenProperties DEF IInv, Counted, IoType
<1>4. before' \in Nat
  BY <1>1, FailuresType
<1>5. /\ Formed' /\ Counted' /\ RestIsLast' /\ SinkIsBefore' /\ WrittenIsLast'
      /\ io'.sink = io.sink /\ io'.flushed = io.flushed
  BY <1>1, <1>2, <1>3, <1>4, OpenFacts
<1>6. SinkInOrder' /\ SafeIsFlushed'
  BY <1>1, <1>5 DEF IInv, SinkInOrder, SafeIsFlushed
<1>7. QED
  BY <1>5, <1>6 DEF IInv

-----------------------------------------------------------------------------
(* A crash that loses the end of the file.                                 *)

(* A byte that is acknowledged survives if and only if the file is not cut *)
(* before it, so the survivors are the first n bytes acknowledged.         *)
LEMMA SurvivorsFacts ==
  ASSUME NEW s \in Seq(Bytes), NEW t \in Seq(Bytes), NEW m \in 0..Len(s),
         Ordered(s), Ordered(t), HoldsAll(s, t)
  PROVE  \E n \in 0..Len(t) :
           /\ Survivors(t, Prefix(s, m)) = Prefix(t, n)
           /\ \A i \in 1..Len(t) : i <= n <=> Holds(Prefix(s, m), t[i])
<1> DEFINE r == Prefix(s, m)
           T == { i \in 1..Len(t) + 1 : i = Len(t) + 1 \/ ~ Holds(r, t[i]) }
<1>1. /\ Len(s) \in Nat /\ \A i \in 1..Len(s) : s[i] \in Int
      /\ Len(t) \in Nat /\ \A i \in 1..Len(t) : t[i] \in Int
      /\ m \in Nat /\ m <= Len(s)
  BY BytesAreNumbers
<1>2. Len(r) = m /\ \A i \in 1..m : r[i] = s[i]
  BY PrefixFacts
<1> HIDE DEF r
<1>3. T \subseteq Nat /\ Len(t) + 1 \in T
  BY <1>1
<1>4. PICK x \in T : \A y \in T : x <= y
  BY <1>3, LeastElement
<1>5. ASSUME NEW i \in 1..Len(t), NEW j \in 1..Len(t), i < j, Holds(r, t[j])
      PROVE  Holds(r, t[i])
  <2>1. PICK p \in 1..m : s[p] = t[j]
    BY <1>2, <1>5 DEF Holds
  <2>2. PICK q \in 1..Len(s) : s[q] = t[i]
    BY DEF HoldsAll, Holds
  <2>3. t[i] < t[j]
    BY <1>5 DEF Ordered
  <2>4. q < p
    <3>1. p \in 1..Len(s) /\ p \in Int /\ q \in Int
      BY <1>1
    <3>2. s[q] < s[p]
      BY <2>1, <2>2, <2>3
    <3>3. p < q => s[p] < s[q]
      BY <3>1 DEF Ordered
    <3>4. p = q => s[p] = s[q]
      OBVIOUS
    <3>5. s[p] \in Int /\ s[q] \in Int
      BY <1>1, <3>1
    <3>6. ~ (p < q) /\ p # q
      BY <3>2, <3>3, <3>4, <3>5
    <3>7. QED
      BY <3>1, <3>6
  <2>5. q \in 1..m
    BY <1>1, <2>4
  <2>6. r[q] = t[i]
    BY <1>2, <2>2, <2>5
  <2>7. QED
    BY <1>2, <2>5, <2>6 DEF Holds
<1>6. x \in 1..Len(t) + 1 /\ (x = Len(t) + 1 \/ ~ Holds(r, t[x]))
  OBVIOUS
<1>7. x - 1 \in 0..Len(t)
  BY <1>1, <1>6
<1>8. ASSUME NEW i \in 1..Len(t)
      PROVE  i <= x - 1 <=> Holds(r, t[i])
  <2>1. ASSUME i <= x - 1
        PROVE  Holds(r, t[i])
    <3>1. ~ (x <= i)
      BY <1>1, <1>6, <2>1
    <3>2. i \notin T
      BY <1>4, <3>1
    <3>3. i \in 1..Len(t) + 1
      BY <1>1
    <3>4. QED
      BY <3>2, <3>3
  <2>2. ASSUME Holds(r, t[i])
        PROVE  i <= x - 1
    <3>1. CASE x = Len(t) + 1
      BY <1>1, <3>1
    <3>2. CASE x # Len(t) + 1
      <4>1. x \in 1..Len(t) /\ ~ Holds(r, t[x])
        <5>1. x \in 1..Len(t)
          <6>1. x \in 1..Len(t) + 1
            BY <1>6
          <6> DEFINE c == Len(t)
          <6> HIDE DEF T, c
          <6>2. x \in 1..c + 1 /\ x # c + 1 /\ c \in Nat
            BY <1>1, <3>2, <6>1 DEF c
          <6>3. QED
            BY <6>2 DEF c
        <5>2. ~ Holds(r, t[x])
          BY <1>6, <3>2, Zenon
        <5>3. QED
          BY <5>1, <5>2
      <4>2. ~ (x < i) /\ x # i
        BY <1>5, <2>2, <4>1
      <4>3. QED
        BY <1>1, <4>1, <4>2
    <3>3. QED
      BY <3>1, <3>2
  <2>3. QED
    BY <2>1, <2>2
<1> HIDE DEF T
<1> DEFINE P(n) == \A i \in 1..Len(t) : i <= n <=> Holds(r, t[i])
           n == CHOOSE c \in 0..Len(t) : P(c)
<1>9. n \in 0..Len(t) /\ P(n)
  <2>1. \E c \in 0..Len(t) : P(c)
    BY <1>7, <1>8
  <2> HIDE DEF P
  <2>2. QED
    BY <2>1
<1>10. Survivors(t, r) = Prefix(t, n)
  BY DEF Survivors
<1> HIDE DEF n
<1>11. QED
  BY <1>9, <1>10 DEF r

(* Each of them lost takes a byte of the file with it.                     *)
LEMMA LostBytes ==
  ASSUME NEW s \in Seq(Bytes), NEW t \in Seq(Bytes), NEW m \in 0..Len(s), NEW n \in 0..Len(t),
         Ordered(s), Ordered(t), HoldsAll(s, t),
         \A i \in 1..Len(t) : i <= n <=> Holds(Prefix(s, m), t[i])
  PROVE  Len(t) - n <= Len(s) - m
<1> DEFINE r == Prefix(s, m)
           place == [i \in n + 1..Len(t) |-> CHOOSE j \in 1..Len(s) : s[j] = t[i]]
<1>1. /\ Len(s) \in Nat /\ Len(t) \in Nat /\ \A i \in 1..Len(t) : t[i] \in Int
      /\ m \in Nat /\ n \in Nat
  BY BytesAreNumbers
<1>2. Len(r) = m /\ \A i \in 1..m : r[i] = s[i]
  BY PrefixFacts
<1> HIDE DEF r
<1>3. ASSUME NEW i \in n + 1..Len(t)
      PROVE  place[i] \in m + 1..Len(s) /\ s[place[i]] = t[i]
  <2>1. i \in 1..Len(t) /\ ~ (i <= n)
    BY <1>1
  <2>2. \E j \in 1..Len(s) : s[j] = t[i]
    BY <2>1 DEF HoldsAll, Holds
  <2>3. place[i] \in 1..Len(s) /\ s[place[i]] = t[i]
    BY <2>2
  <2>4. ~ Holds(r, t[i])
    BY <2>1 DEF r
  <2>5. place[i] \notin 1..m
    BY <1>2, <2>3, <2>4 DEF Holds
  <2> HIDE DEF place
  <2>6. QED
    BY <1>1, <2>3, <2>5
<1>4. place \in [n + 1..Len(t) -> m + 1..Len(s)]
  BY <1>3
<1>5. ASSUME NEW i \in n + 1..Len(t), NEW j \in n + 1..Len(t), place[i] = place[j]
      PROVE  i = j
  <2>1. t[i] = t[j]
    <3>1. s[place[i]] = t[i] /\ s[place[j]] = t[j]
      BY <1>3
    <3>2. QED
      BY <1>5, <3>1, Zenon
  <2>2. i \in 1..Len(t) /\ j \in 1..Len(t)
    BY <1>1
  <2>3. (i < j => t[i] < t[j]) /\ (j < i => t[j] < t[i])
    BY <2>2 DEF Ordered
  <2>4. ~ (i < j) /\ ~ (j < i)
    BY <1>1, <2>1, <2>2, <2>3
  <2>5. QED
    BY <2>2, <2>4
<1> HIDE DEF place
<1>6. place \in Injection(n + 1..Len(t), m + 1..Len(s))
  BY <1>4, <1>5 DEF Injection, IsInjective
<1>7. /\ n + 1 \in Int /\ m + 1 \in Int
      /\ IsFiniteSet(m + 1..Len(s))
      /\ Cardinality(n + 1..Len(t)) = IF n + 1 > Len(t) THEN 0 ELSE Len(t) - (n + 1) + 1
      /\ Cardinality(m + 1..Len(s)) = IF m + 1 > Len(s) THEN 0 ELSE Len(s) - (m + 1) + 1
  <2> DEFINE p == n + 1
             q == m + 1
  <2>1. p \in Int /\ q \in Int /\ Len(s) \in Int /\ Len(t) \in Int
    BY <1>1
  <2> HIDE DEF p, q
  <2>2. /\ IsFiniteSet(q..Len(s))
        /\ Cardinality(p..Len(t)) = IF p > Len(t) THEN 0 ELSE Len(t) - p + 1
        /\ Cardinality(q..Len(s)) = IF q > Len(s) THEN 0 ELSE Len(s) - q + 1
    BY <2>1, FS_Interval
  <2>3. QED
    BY <2>1, <2>2 DEF p, q
<1>8. Cardinality(n + 1..Len(t)) <= Cardinality(m + 1..Len(s))
  BY <1>6, <1>7, FS_Injection
<1> DEFINE a == Cardinality(n + 1..Len(t))
           b == Cardinality(m + 1..Len(s))
<1> HIDE DEF a, b
<1>9. /\ a = IF n + 1 > Len(t) THEN 0 ELSE Len(t) - (n + 1) + 1
      /\ b = IF m + 1 > Len(s) THEN 0 ELSE Len(s) - (m + 1) + 1
      /\ a <= b
  BY <1>7, <1>8 DEF a, b
<1>10. QED
  BY <1>1, <1>9

(* What Reopen does to the bytes.                                          *)
LEMMA ReopenFacts ==
  ASSUME IInv, Reopen
  PROVE  \E m \in io.flushed..Len(io.sink), n \in 0..Len(acked) :
           /\ m \in 0..Len(io.sink)
           /\ Open(Prefix(io.sink, m), m)
           /\ before' = before + Failures /\ safe' = safe
           /\ acked' = Prefix(acked, n)
           /\ \A i \in 1..Len(acked) : i <= n <=> Holds(Prefix(io.sink, m), acked[i])
<1>1. PICK m \in io.flushed..Len(io.sink) : Open(Prefix(io.sink, m), m)
  BY DEF Reopen
<1>2. /\ io.sink \in Seq(Bytes) /\ acked \in Seq(Bytes) /\ io.flushed \in Nat
      /\ Ordered(io.sink) /\ Ordered(acked) /\ HoldsAll(io.sink, acked)
  BY DEF IInv, SinkInOrder, Counted, IoType
<1>3. m \in 0..Len(io.sink)
  BY <1>2, LenProperties
<1>4. io'.sink = Prefix(io.sink, m)
  BY <1>1 DEF Open, FreshWriter
<1>5. PICK n \in 0..Len(acked) :
        /\ Survivors(acked, Prefix(io.sink, m)) = Prefix(acked, n)
        /\ \A i \in 1..Len(acked) : i <= n <=> Holds(Prefix(io.sink, m), acked[i])
  BY <1>2, <1>3, SurvivorsFacts
<1>6. /\ before' = before + Failures /\ safe' = safe
      /\ acked' = Survivors(acked, Prefix(io.sink, m))
  BY <1>4 DEF Reopen, Failures
<1>7. QED
  BY <1>1, <1>3, <1>5, <1>6

(* Losing the writer and what was not flushed keeps the invariant, because *)
(* the bytes acknowledged and still in the file are a prefix of them.      *)
LEMMA ReopenStep ==
  ASSUME IInv, Reopen
  PROVE  IInv'
<1>1. PICK m \in io.flushed..Len(io.sink), n \in 0..Len(acked) :
        /\ m \in 0..Len(io.sink)
        /\ Open(Prefix(io.sink, m), m)
        /\ before' = before + Failures /\ safe' = safe
        /\ acked' = Prefix(acked, n)
        /\ \A i \in 1..Len(acked) : i <= n <=> Holds(Prefix(io.sink, m), acked[i])
  BY ReopenFacts
<1> DEFINE r == Prefix(io.sink, m)
           a == Prefix(acked, n)
<1>2. /\ io.sink \in Seq(Bytes) /\ acked \in Seq(Bytes)
      /\ \A j \in 1..Len(io.sink) : io.sink[j] <= bytes
  BY SinkBehind
<1>3. /\ Len(io.sink) \in Nat /\ Len(acked) \in Nat
      /\ io.sink \in Seq(Int) /\ acked \in Seq(Int)
      /\ m \in Nat /\ n \in Nat /\ io.flushed \in Nat
  BY <1>1, <1>2, BytesAreNumbers DEF IInv, Counted, IoType
<1>4. /\ r \in Seq(Bytes) /\ Len(r) = m /\ \A i \in 1..m : r[i] = io.sink[i]
      /\ a \in Seq(Bytes) /\ Len(a) = n /\ \A i \in 1..n : a[i] = acked[i]
  BY <1>1, <1>2, PrefixFacts
<1>5. Ordered(r) /\ Ordered(a)
  BY <1>1, <1>3, OrderedPrefix DEF IInv, SinkInOrder
<1>6. \A i \in 1..Len(acked) : i <= n <=> Holds(r, acked[i])
  BY <1>1
<1>7. Open(r, m) /\ acked' = a
  BY <1>1
<1> HIDE DEF r, a
<1>8. /\ Formed' /\ Counted' /\ RestIsLast' /\ SinkIsBefore' /\ WrittenIsLast'
      /\ io'.sink = r /\ io'.flushed = m
  <2>1. m \in 0..Len(r) /\ \A j \in 1..Len(r) : r[j] <= bytes
    <3>1. ASSUME NEW j \in 1..Len(r)
          PROVE  r[j] <= bytes
      <4>1. j \in 1..m /\ j \in 1..Len(io.sink)
        BY <1>1, <1>3, <1>4
      <4>2. QED
        BY <1>2, <1>4, <4>1
    <3>2. QED
      BY <1>3, <1>4, <3>1
  <2>2. before' \in Nat
    BY <1>1, FailuresType
  <2>3. QED
    BY <1>4, <1>7, <2>1, <2>2, OpenFacts
<1>9. HoldsAll(r, a)
  <2>1. ASSUME NEW i \in 1..Len(a)
        PROVE  Holds(r, a[i])
    <3>1. i \in 1..n /\ i \in 1..Len(acked) /\ i <= n
      BY <1>1, <1>3, <1>4
    <3>2. a[i] = acked[i] /\ Holds(r, acked[i])
      BY <1>4, <1>6, <3>1
    <3>3. QED
      BY <3>2
  <2>2. QED
    BY <2>1 DEF HoldsAll
<1>10. SinkInOrder'
  BY <1>4, <1>5, <1>7, <1>8, <1>9 DEF SinkInOrder
<1>11. SafeIsFlushed'
  <2>1. safe \in Seq(Bytes) /\ Len(safe) \in Nat /\ Len(safe) <= Len(acked)
    BY LenProperties DEF IInv, SafeIsFlushed
  <2>2. ASSUME NEW i \in 1..Len(safe)
        PROVE  /\ i <= n /\ a[i] = safe[i]
               /\ \E j \in 1..m : r[j] = safe[i]
    <3>1. i \in 1..Len(acked) /\ acked[i] = safe[i]
      <4>1. i \in 1..Len(acked)
        BY <1>3, <2>1
      <4>2. acked[i] = safe[i]
        BY DEF IInv, SafeIsFlushed
      <4>3. QED
        BY <4>1, <4>2
    <3>2. PICK j \in 1..io.flushed : io.sink[j] = safe[i]
      BY DEF IInv, SafeIsFlushed
    <3>3. j \in 1..m
      BY <1>1, <1>3
    <3>4. r[j] = acked[i]
      BY <1>4, <3>1, <3>2, <3>3
    <3>5. Holds(r, acked[i])
      BY <1>4, <3>3, <3>4 DEF Holds
    <3>6. i <= n
      BY <1>6, <3>1, <3>5
    <3>7. i \in 1..n
      BY <1>3, <3>1, <3>6
    <3>8. QED
      BY <1>4, <3>1, <3>3, <3>4, <3>6, <3>7
  <2>3. Len(safe) <= n
    <3>1. CASE Len(safe) = 0
      BY <1>3, <3>1
    <3>2. CASE Len(safe) # 0
      <4>1. Len(safe) \in 1..Len(safe)
        BY <2>1, <3>2
      <4>2. QED
        BY <2>2, <4>1
    <3>3. QED
      BY <3>1, <3>2
  <2>4. safe' = safe
    BY <1>1
  <2>5. QED
    BY <1>4, <1>7, <1>8, <2>1, <2>2, <2>3, <2>4 DEF SafeIsFlushed
<1>12. QED
  BY <1>8, <1>10, <1>11 DEF IInv

-----------------------------------------------------------------------------
(* The invariant.                                                          *)

(* A new writer over an empty file.                                        *)
LEMMA InitIInv == Init => IInv
<1> SUFFICES ASSUME Init PROVE IInv
  OBVIOUS
<1>1. <<>> \in Seq(Bytes) /\ Len(<<>>) = 0
  BY EmptySeq
<1>2. /\ io \in IoType /\ io.sink = <<>> /\ io.flushed = 0 /\ io.attempt = 0
      /\ io.failures = 0 /\ io.written = 0
  BY <1>1 DEF Init, FreshWriter, IoType
<1>3. Formed
  BY <1>1, <1>2 DEF Init, Formed
<1>4. setup.after \in Nat /\ 0 * MaxChunk = 0
  BY <1>3, SetupFacts, BoundsAssumption DEF SetupOK
<1>5. Counted
  <2>1. 0 \in 0..MaxCalls /\ 0 \in 0..MaxWrites /\ 0 <= setup.after
    BY <1>4, BoundsAssumption
  <2>2. QED
    BY <1>1, <1>2, <1>4, <2>1 DEF Init, Counted
<1>6. RestIsLast
  BY <1>1 DEF Init, RestIsLast, EndsAt
<1>7. SinkInOrder
  BY <1>1, <1>2 DEF Init, SinkInOrder, Ordered, HoldsAll, SinkIsBefore
<1>8. SafeIsFlushed /\ WrittenIsLast
  BY <1>1 DEF Init, SafeIsFlushed, WrittenIsLast
<1>9. QED
  BY <1>3, <1>5, <1>6, <1>7, <1>8 DEF IInv

(* Every step keeps the invariant.                                         *)
LEMMA NextIInv ==
  ASSUME IInv, [Next]_vars
  PROVE  IInv'
<1>1. CASE UNCHANGED vars
  BY <1>1 DEF vars, IInv, Formed, Counted, RestIsLast, EndsAt, SinkInOrder, SinkIsBefore,
              SafeIsFlushed, WrittenIsLast
<1>2. QED
  BY <1>1, CallStep, WriteStep, FlushStep, ReopenStep, IntoInnerStep, RecreateStep DEF Next

(* The bytes of the file, those acknowledged and those a flush made safe   *)
(* stay in the order the client handed them over, through short, torn and  *)
(* retried writes, the crash point, and the loss of a writer with any part *)
(* of the bytes that were not flushed (ChaosWriter::write,                 *)
(* CrashWriter::write).                                                    *)
THEOREM Invariant == Spec => []IInv
BY InitIInv, NextIInv, PTL DEF Spec

(* The state of the client and of the writers stays well-formed, and       *)
(* bytes_written() never passes the crash point (Write for CrashWriter).   *)
THEOREM TypeCorrect == Spec => []TypeOK
<1>1. IInv => TypeOK
  <2> SUFFICES ASSUME IInv PROVE TypeOK
    OBVIOUS
  <2>1. io \in IoType /\ io.failures <= io.attempt /\ io.attempt <= writes /\ writes \in 0..MaxWrites
        /\ io.written <= setup.after /\ io.flushed <= Len(io.sink)
    BY DEF IInv, Counted
  <2>2. setup.after \in Nat /\ MaxWrites \in Nat
    BY SetupFacts, BoundsAssumption DEF IInv, SetupOK
  <2>3. io.attempt \in 0..MaxWrites /\ io.failures \in 0..MaxWrites /\ io.written \in 0..setup.after
    BY <2>1, <2>2 DEF IoType
  <2>4. io \in [sink : Seq(Bytes), flushed : Nat, attempt : 0..MaxWrites,
                failures : 0..MaxWrites, written : 0..setup.after]
    BY <2>1, <2>3 DEF IoType
  <2>5. {chunk, rest, acked, safe} \subseteq Seq(Bytes)
    BY DEF IInv, RestIsLast, SinkInOrder, SafeIsFlushed
  <2>6. {bytes, before, calls, writes, opens, errs, injected} \subseteq Nat
    <3>1. calls \in Nat /\ writes \in Nat /\ bytes \in Nat
      BY BoundsAssumption DEF IInv, Counted
    <3>2. before \in Nat /\ opens \in Nat /\ errs \in Nat /\ injected \in Nat
      BY DEF IInv, Formed
    <3>3. QED
      BY <3>1, <3>2
  <2>7. QED
    BY <2>1, <2>4, <2>5, <2>6 DEF IInv, Formed, TypeOK
<1>2. QED
  BY <1>1, Invariant, PTL

(* What was in the file when a flush succeeded is never lost again, in any *)
(* stack and however the writer is lost (ChaosWriter::flush,               *)
(* CrashWriter::flush).                                                    *)
THEOREM FlushSurvives == Spec => []FlushedBytesSurvive
<1>1. IInv => FlushedBytesSurvive
  <2> SUFFICES ASSUME IInv PROVE FlushedBytesSurvive
    OBVIOUS
  <2>1. /\ safe \in Seq(Bytes) /\ acked \in Seq(Bytes) /\ Len(safe) <= Len(acked)
        /\ \A i \in 1..Len(safe) : acked[i] = safe[i]
    BY DEF IInv, SafeIsFlushed, SinkInOrder
  <2>2. Len(safe) \in 0..Len(acked)
    BY <2>1, LenProperties
  <2> DEFINE n == Len(safe)
             p == Prefix(acked, n)
  <2>3. p \in Seq(Bytes) /\ Len(p) = n /\ \A i \in 1..n : p[i] = acked[i]
    BY <2>1, <2>2, PrefixFacts
  <2> HIDE DEF p
  <2>4. p = safe
    BY <2>1, <2>3, SeqEqual
  <2>5. QED
    BY <2>1, <2>4 DEF FlushedBytesSurvive, p
<1>2. QED
  BY <1>1, Invariant, PTL

(* A write_all that reports success has put its whole buffer at the end of *)
(* the file in one piece (ChaosWriter::write, CrashWriter::write).         *)
THEOREM WriteAllIsComplete == Spec => []WriteAllComplete
<1>1. IInv => WriteAllComplete
  <2> SUFFICES ASSUME IInv, result = "write_all"
               PROVE  chunk = Suffix(io.sink, Len(chunk))
    BY DEF WriteAllComplete
  <2> DEFINE n == Len(chunk)
             l == Len(io.sink)
             r == SubSeq(io.sink, l - n + 1, l)
  <2>1. /\ chunk \in Seq(Bytes) /\ io.sink \in Seq(Bytes) /\ n <= l
        /\ \A i \in 1..n : io.sink[l - n + i] = chunk[i]
    BY DEF IInv, RestIsLast, Counted, IoType, WrittenIsLast
  <2>2. n \in Nat /\ l \in Nat
    BY <2>1, LenProperties
  <2>3. /\ \A i \in l - n + 1..l : io.sink[i] \in Bytes
        /\ l - n + 1 \in Int
    <3>1. \A i \in l - n + 1..l : i \in 1..l
      BY <2>1, <2>2
    <3>2. QED
      BY <2>1, <2>2, <3>1, ElementOfSeq
  <2>4. r \in Seq(Bytes) /\ Len(r) = n /\ \A i \in 1..n : r[i] = io.sink[l - n + i]
    <3> DEFINE m == l - n + 1
    <3>1. m \in Int /\ m <= l + 1 /\ l - m + 1 = n /\ \A i \in 1..n : m + i - 1 = l - n + i
      BY <2>1, <2>2
    <3>2. \A i \in m..l : io.sink[i] \in Bytes
      BY <2>3
    <3> HIDE DEF m
    <3>3. /\ SubSeq(io.sink, m, l) \in Seq(Bytes)
          /\ Len(SubSeq(io.sink, m, l)) = IF m <= l THEN l - m + 1 ELSE 0
          /\ \A i \in 1..l - m + 1 : SubSeq(io.sink, m, l)[i] = io.sink[m + i - 1]
      BY <2>2, <3>1, <3>2, SubSeqProperties
    <3>4. Len(SubSeq(io.sink, m, l)) = n
      BY <2>2, <3>1, <3>3
    <3>5. ASSUME NEW i \in 1..n
          PROVE  SubSeq(io.sink, m, l)[i] = io.sink[l - n + i]
      BY <3>1, <3>3
    <3>6. QED
      BY <3>3, <3>4, <3>5 DEF m
  <2> HIDE DEF r
  <2>5. chunk = r
    BY <2>1, <2>4, SeqEqual
  <2>6. QED
    BY <2>5 DEF r, Suffix
<1>2. QED
  BY <1>1, Invariant, PTL

-----------------------------------------------------------------------------
(* What a step may not do.                                                 *)

(* An injected failure ends the call it is injected in with an error:      *)
(* write_all retries none of the kinds to_io_kind gives one                *)
(* (From<InjectedFailure>).                                                *)
THEOREM InjectedFailureEnds == Spec => InjectedFailureEndsCall
<1>1. ASSUME IInv, Next, injected' > injected
      PROVE  pc' = "idle" /\ result' = "err"
  <2>1. injected \in Nat /\ SetupOK
    BY <1>1, SetupFacts DEF IInv, Formed
  <2>2. CASE Write
    <3>1. PICK o, k, f, d : Effect(io, rest, o, k, f, d) /\ Returns(o)
      BY <1>1, <2>2, WriteCases
    <3>2. o.err = "injected"
      BY <1>1, <2>1, <3>1 DEF Returns
    <3>3. ErrorKind(setup.sched, o.err) # "interrupted"
      BY <2>1, <3>2, RetriesInterrupted
    <3>4. ~ GoesOn(o) /\ ~ Succeeds(o)
      BY <3>2, <3>3 DEF GoesOn, Succeeds
    <3>5. QED
      BY <3>1, <3>4 DEF Returns
  <2>3. CASE ~ Write
    <3>1. injected' = injected \/ injected' = 0
      BY <1>1, <2>3 DEF Next, Call, Flush, Reopen, IntoInner, Recreate, Open
    <3>2. QED
      BY <1>1, <2>1, <3>1
  <2>4. QED
    BY <2>2, <2>3
<1>2. IInv /\ [Next]_vars => [injected' > injected => pc' = "idle" /\ result' = "err"]_vars
  BY <1>1
<1>3. QED
  BY <1>2, Invariant, PTL DEF Spec, InjectedFailureEndsCall

(* Past the crash point no call of write succeeds or changes the file,     *)
(* whatever wraps the CrashWriter or lies under it (CrashWriter::write).   *)
THEOREM CrashStaysFinal == Spec => CrashIsFinal
<1>1. ASSUME IInv, Next, setup.stack # <<"chaos">>, io.written >= setup.after, writes' # writes
      PROVE  io'.sink = io.sink /\ errs' = errs + 1
  <2>1. Write
    BY <1>1 DEF Next, Call, Flush, Reopen, IntoInner, Recreate, Open
  <2>2. PICK o, k, f, d : Effect(io, rest, o, k, f, d) /\ Returns(o)
    BY <1>1, <2>1, WriteCases
  <2>3. k = 0 /\ o.err # "none"
    BY <1>1, <2>2 DEF Effect, Crashed
  <2>4. io'.sink = io.sink \o Prefix(rest, 0)
    BY <1>1, <2>2, <2>3, WriteFacts
  <2>5. Prefix(rest, 0) = <<>> /\ io.sink \o <<>> = io.sink
    BY <1>1, SubSeqEmpty, ConcatEmptySeq DEF Prefix, IInv, Counted, RestIsLast, IoType
  <2>6. QED
    BY <2>2, <2>3, <2>4, <2>5 DEF Returns
<1>2. IInv /\ [Next]_vars =>
        [setup.stack # <<"chaos">> /\ io.written >= setup.after /\ writes' # writes
           => io'.sink = io.sink /\ errs' = errs + 1]_vars
  BY <1>1
<1>3. QED
  BY <1>2, Invariant, PTL DEF Spec, CrashIsFinal

-----------------------------------------------------------------------------
(* What is counted, while no counter can have wrapped.                     *)

(* The failures counted after a write.                                     *)
LEMMA WriteFailures ==
  ASSUME IInv, NEW o, NEW k, NEW f, NEW d, Effect(io, rest, o, k, f, d), Returns(o), NoWrap'
  PROVE  /\ Failures' = Failures + f /\ Failures \in Nat /\ f \in {0, 1}
         /\ Tears' <=> Tears
<1>1. /\ writes \in Nat /\ io.failures \in Nat /\ io.attempt \in Nat
      /\ io.failures <= io.attempt /\ io.attempt <= writes
  BY BoundsAssumption DEF IInv, Counted, IoType
<1>2. writes' = writes + 1 /\ writes' <= UsizeMax /\ io' = o.io /\ setup' = setup
  BY DEF Returns, NoWrap
<1>3. /\ \/ o.io.attempt = io.attempt /\ o.io.failures = io.failures
         \/ o.io.attempt = io.attempt + 1 /\ o.io.failures \in {io.failures, io.failures + 1}
      /\ o.io.failures <= UsizeMax =>
           FailureCount(setup.sched.limit, o.io.failures) =
             FailureCount(setup.sched.limit, io.failures) + f
      /\ f \in {0, 1}
  BY DEF Effect, Written
<1>4. o.io.failures <= UsizeMax
  BY <1>1, <1>2, <1>3, UsizeMaxAssumption
<1>5. Failures' = Failures + f
  BY <1>2, <1>3, <1>4 DEF Failures
<1>6. QED
  BY <1>2, <1>3, <1>5, FailuresType DEF Tears

(* A write adds to the file what it acknowledges, and one byte if it is torn.*)
LEMMA WriteAccounted ==
  ASSUME IInv, Accounted, Write, NoWrap'
  PROVE  Accounted'
<1>1. PICK o, k, f, d : Effect(io, rest, o, k, f, d) /\ Returns(o)
  BY WriteCases
<1>2. /\ Failures' = Failures + f /\ Failures \in Nat /\ f \in {0, 1}
      /\ Tears' <=> Tears
  BY <1>1, WriteFailures
<1>3. /\ k \in Nat /\ o.n \in 0..k /\ SetupOK
      /\ Len(io'.sink) = Len(io.sink) + k /\ Len(io.sink) \in Nat
      /\ Len(acked') = Len(acked) + o.n /\ Len(acked) \in Nat
  BY <1>1, WriteFacts
<1>4. /\ o.err # "none" => o.n = 0
      /\ f = 0 => o.n = k /\ o.err # "injected"
      /\ f = 1 => k <= 1 /\ o.err # "none"
      /\ f = 1 /\ setup.sched.mode # "partial_write" => k = 0 /\ o.err = "injected"
      /\ d \in Nat /\ o.io.written = io.written + d
  BY <1>1 DEF Effect, Written
<1>5. /\ setup.stack = <<"crash">> => f = 0
      /\ setup.stack # <<"chaos">> =>
           /\ d <= k
           /\ k - d <= IF setup.stack = <<"crash", "chaos">> /\ setup.sched.mode = "partial_write"
                       THEN f ELSE 0
  BY <1>1 DEF Effect
<1>6. /\ io' = o.io /\ UNCHANGED <<setup, base, before>>
      /\ errs' = IF o.err = "none" THEN errs ELSE errs + 1
      /\ injected' = IF o.err = "injected" THEN injected + 1 ELSE injected
  BY <1>1 DEF Returns
<1>7. before \in Nat /\ errs \in Nat /\ injected \in Nat /\ base \in Nat
  BY <1>3 DEF IInv, Formed
<1>8. ~ Tears /\ f = 1 => k = 0 /\ o.err = "injected"
  BY <1>4, <1>5 DEF Tears
<1>9. SinkBounded'
  <2> DEFINE extra == Len(io.sink) - Len(acked)
  <2>1. extra <= IF Tears THEN before + Failures ELSE 0
    BY DEF Accounted, SinkBounded
  <2>2. Len(io'.sink) - Len(acked') = extra + (k - o.n) /\ extra \in Int
    BY <1>3
  <2> HIDE DEF extra
  <2>3. k - o.n <= f /\ (~ Tears => k - o.n <= 0)
    BY <1>2, <1>3, <1>4, <1>8
  <2>4. CASE Tears
    <3>1. extra + (k - o.n) <= before + (Failures + f)
      BY <1>2, <1>3, <1>7, <2>1, <2>2, <2>3, <2>4
    <3>2. before' = before /\ Tears'
      BY <1>2, <1>6, <2>4
    <3>3. QED
      BY <1>2, <2>2, <3>1, <3>2 DEF SinkBounded
  <2>5. CASE ~ Tears
    <3>1. extra + (k - o.n) <= 0
      BY <1>3, <2>1, <2>2, <2>3, <2>5
    <3>2. ~ Tears'
      BY <1>2, <2>5
    <3>3. QED
      BY <2>2, <3>1, <3>2 DEF SinkBounded
  <2>6. QED
    BY <2>4, <2>5
<1>10. InjectedFailuresSurface'
  <2>1. /\ injected <= Failures /\ Failures <= errs
        /\ ~ Tears => Failures = injected
    BY DEF Accounted, InjectedFailuresSurface
  <2>2. CASE f = 0
    <3>1. o.err # "injected"
      BY <1>4, <2>2
    <3>2. injected' = injected /\ errs' >= errs /\ Failures' = Failures /\ errs' \in Nat
      BY <1>2, <1>6, <1>7, <2>2, <3>1
    <3>3. injected' <= Failures' /\ Failures' <= errs'
      BY <1>2, <1>7, <2>1, <3>2
    <3>4. ~ Tears' => Failures' = injected'
      BY <1>2, <2>1, <3>2
    <3>5. QED
      BY <3>3, <3>4 DEF InjectedFailuresSurface
  <2>3. CASE f = 1
    <3>1. o.err # "none"
      BY <1>4, <2>3
    <3>2. /\ errs' = errs + 1 /\ Failures' = Failures + 1
          /\ injected' <= injected + 1 /\ injected' \in Nat
      BY <1>2, <1>6, <1>7, <2>3, <3>1
    <3>3. injected' <= Failures' /\ Failures' <= errs'
      BY <1>2, <1>7, <2>1, <3>2
    <3>4. ~ Tears => injected' = injected + 1
      BY <1>6, <1>8, <2>3
    <3>5. ~ Tears' => Failures' = injected'
      BY <1>2, <2>1, <3>2, <3>4
    <3>6. QED
      BY <3>3, <3>5 DEF InjectedFailuresSurface
  <2>4. QED
    BY <1>2, <2>2, <2>3
<1>11. CrashCounted'
  <2> SUFFICES ASSUME setup.stack # <<"chaos">> PROVE CrashCounted'
    BY <1>6 DEF CrashCounted
  <2> DEFINE u == Len(io.sink) - base - io.written
             tears == Tears /\ setup.stack = <<"crash", "chaos">>
  <2>1. 0 <= u /\ u <= IF tears THEN Failures ELSE 0
    BY DEF Accounted, CrashCounted
  <2>2. Len(io'.sink) - base' - io'.written = u + (k - d) /\ u \in Int
    <3>1. io.written \in Nat
      BY DEF IInv, Counted, IoType
    <3>2. io'.written = io.written + d /\ base' = base
      BY <1>4, <1>6
    <3> DEFINE l == Len(io.sink)
               w == io.written
    <3>3. l \in Nat /\ w \in Nat /\ Len(io'.sink) = l + k /\ io'.written = w + d
      BY <1>3, <3>1, <3>2
    <3>4. u = l - base - w
      OBVIOUS
    <3> HIDE DEF l, w, u
    <3>5. (l + k) - base - (w + d) = (l - base - w) + (k - d) /\ l - base - w \in Int
      BY <1>3, <1>4, <1>7, <3>3
    <3>6. Len(io'.sink) - base' - io'.written = (l + k) - base - (w + d)
      BY <3>2, <3>3
    <3>7. QED
      BY <3>4, <3>5, <3>6
  <2>3. 0 <= k - d /\ k - d <= IF tears THEN f ELSE 0
    <3>1. setup.stack = <<"crash", "chaos">> => setup.stack # <<"crash">>
      OBVIOUS
    <3>2. tears <=> setup.stack = <<"crash", "chaos">> /\ setup.sched.mode = "partial_write"
      BY <3>1 DEF Tears
    <3> HIDE DEF tears
    <3>3. d <= k
      BY <1>5
    <3>4. k - d <= IF tears THEN f ELSE 0
      BY <1>5, <3>2
    <3>5. QED
      BY <1>3, <1>4, <3>3, <3>4
  <2> HIDE DEF u
  <2>4. (Tears' /\ setup'.stack = <<"crash", "chaos">>) <=> tears
    BY <1>2, <1>6
  <2> HIDE DEF tears
  <2>5. 0 <= u + (k - d)
    BY <1>3, <1>4, <2>1, <2>2, <2>3
  <2>6. u + (k - d) <= IF tears THEN Failures' ELSE 0
    <3>1. CASE tears
      BY <1>2, <1>3, <1>4, <2>1, <2>2, <2>3, <3>1
    <3>2. CASE ~ tears
      BY <1>3, <1>4, <2>1, <2>2, <2>3, <3>2
    <3>3. QED
      BY <3>1, <3>2
  <2>7. QED
    BY <2>2, <2>4, <2>5, <2>6 DEF CrashCounted
<1>12. QED
  BY <1>9, <1>10, <1>11 DEF Accounted

(* A new writer has counted nothing yet.                                   *)
LEMMA OpenAccounted ==
  ASSUME IInv, NEW t \in Seq(Bytes), NEW n \in 0..Len(t), Open(t, n)
  PROVE  /\ Failures' = 0 /\ io'.sink = t /\ (Tears' <=> Tears)
         /\ SinkBounded' => Accounted'
<1>1. /\ io' = FreshWriter(t, n) /\ base' = Len(t) /\ setup' = setup
      /\ errs' = 0 /\ injected' = 0 /\ Len(t) \in Nat
  BY LenProperties DEF Open
<1>2. io'.sink = t /\ io'.failures = 0 /\ io'.written = 0
  BY <1>1 DEF FreshWriter
<1>3. Failures' = 0
  BY <1>1, <1>2, SetupFacts, FailureCountZero DEF Failures, IInv, SetupOK
<1>4. InjectedFailuresSurface'
  BY <1>1, <1>3 DEF InjectedFailuresSurface
<1>5. Len(io'.sink) - base' - io'.written = 0
  BY <1>1, <1>2
<1>6. CrashCounted'
  BY <1>3, <1>5 DEF CrashCounted
<1>7. QED
  BY <1>1, <1>2, <1>3, <1>4, <1>6 DEF Accounted, Tears

(* What a crash takes from the file is at least what it takes from the bytes*)
(* acknowledged.                                                           *)
LEMMA ReopenAccounted ==
  ASSUME IInv, Accounted, Reopen
  PROVE  Accounted'
<1>1. PICK m \in io.flushed..Len(io.sink), n \in 0..Len(acked) :
        /\ m \in 0..Len(io.sink)
        /\ Open(Prefix(io.sink, m), m)
        /\ before' = before + Failures /\ safe' = safe
        /\ acked' = Prefix(acked, n)
        /\ \A i \in 1..Len(acked) : i <= n <=> Holds(Prefix(io.sink, m), acked[i])
  BY ReopenFacts
<1> DEFINE r == Prefix(io.sink, m)
           a == Prefix(acked, n)
<1>2. io.sink \in Seq(Bytes) /\ acked \in Seq(Bytes)
  BY SinkBehind
<1>3. /\ r \in Seq(Bytes) /\ Len(r) = m /\ Len(a) = n
      /\ Len(io.sink) \in Nat /\ Len(acked) \in Nat
  BY <1>1, <1>2, PrefixFacts, LenProperties
<1>4. Len(acked) - n <= Len(io.sink) - m
  BY <1>1, <1>2, LostBytes DEF IInv, SinkInOrder
<1>5. Open(r, m) /\ acked' = a
  BY <1>1
<1> HIDE DEF r, a
<1>6. m \in 0..Len(r)
  BY <1>1, <1>3
<1>7. /\ Failures' = 0 /\ io'.sink = r /\ (Tears' <=> Tears)
      /\ SinkBounded' => Accounted'
  BY <1>3, <1>5, <1>6, OpenAccounted
<1>8. Len(io.sink) - Len(acked) <= IF Tears THEN before + Failures ELSE 0
  BY DEF Accounted, SinkBounded
<1> DEFINE l == Len(io.sink)
           c == Len(acked)
<1>9. /\ l \in Nat /\ c \in Nat /\ m \in Nat /\ n \in Nat /\ c - n <= l - m
      /\ l - c <= IF Tears THEN before + Failures ELSE 0
      /\ before + Failures \in Nat
  BY <1>1, <1>3, <1>4, <1>8, FailuresType
<1> HIDE DEF l, c
<1>10. m - n <= IF Tears THEN before + Failures ELSE 0
  <2>1. m - n <= l - c
    BY <1>9
  <2>2. m - n \in Int /\ l - c \in Int
    BY <1>9
  <2>3. QED
    BY <1>9, <2>1, <2>2
<1>11. before' + Failures' = before + Failures
  BY <1>1, <1>7, <1>9
<1>12. SinkBounded'
  BY <1>3, <1>5, <1>7, <1>10, <1>11 DEF SinkBounded
<1>13. QED
  BY <1>7, <1>12

(* The counts of the wrapper taken off are those of its predecessors now.  *)
LEMMA IntoInnerAccounted ==
  ASSUME IInv, Accounted, IntoInner
  PROVE  Accounted'
<1>1. /\ Open(io.sink, io.flushed) /\ before' = before + Failures /\ acked' = acked
  BY DEF IntoInner, Failures
<1>2. io.sink \in Seq(Bytes)
  BY SinkBehind
<1>3. io.flushed \in 0..Len(io.sink)
  BY <1>2, LenProperties DEF IInv, Counted, IoType
<1>4. /\ Failures' = 0 /\ io'.sink = io.sink /\ (Tears' <=> Tears)
      /\ SinkBounded' => Accounted'
  BY <1>1, <1>2, <1>3, OpenAccounted
<1>5. before' + Failures' = before + Failures
  BY <1>1, <1>4, FailuresType
<1>6. SinkBounded'
  BY <1>1, <1>4, <1>5 DEF Accounted, SinkBounded
<1>7. QED
  BY <1>4, <1>6

(* An empty file has lost every byte and every torn write.                 *)
LEMMA RecreateAccounted ==
  ASSUME IInv, Accounted, Recreate
  PROVE  Accounted'
<1>1. Open(<<>>, 0) /\ before' = 0 /\ acked' = <<>>
  BY DEF Recreate
<1>2. <<>> \in Seq(Bytes) /\ Len(<<>>) = 0 /\ 0 \in 0..Len(<<>>)
  BY EmptySeq
<1>3. /\ Failures' = 0 /\ io'.sink = <<>>
      /\ SinkBounded' => Accounted'
  BY <1>1, <1>2, OpenAccounted
<1>4. Len(io'.sink) - Len(acked') = 0 /\ before' + Failures' = 0
  BY <1>1, <1>2, <1>3
<1>5. SinkBounded'
  BY <1>4 DEF SinkBounded
<1>6. QED
  BY <1>3, <1>5

(* Calls and flushes count no failure and write no byte.                   *)
LEMMA QuietAccounted ==
  ASSUME IInv, Accounted,
         \/ \E kind \in {"write", "write_all"}, n \in 0..MaxChunk : Call(kind, n)
         \/ Flush
         \/ UNCHANGED vars
  PROVE  Accounted'
<1>1. /\ io'.sink = io.sink /\ io'.failures = io.failures /\ io'.written = io.written
      /\ UNCHANGED <<setup, acked, base, before, errs, injected>>
  <2>1. CASE Flush
    <3>1. PICK o \in StackFlush(io) : io' = o.io
      BY <2>1 DEF Flush
    <3>2. io \in IoType /\ io.flushed <= Len(io.sink)
      BY DEF IInv, Counted
    <3>3. /\ o.io.sink = io.sink /\ o.io.failures = io.failures
          /\ o.io.written = io.written
      BY <3>1, <3>2, FlushFacts
    <3>4. QED
      BY <2>1, <3>1, <3>3 DEF Flush
  <2>2. CASE UNCHANGED vars
    BY <2>2 DEF vars
  <2>3. ASSUME NEW kind, NEW n, Call(kind, n)
        PROVE  /\ io' = io
               /\ UNCHANGED <<setup, acked, base, before, errs, injected>>
    BY <2>3 DEF Call
  <2>4. QED
    BY <2>1, <2>2, <2>3
<1>2. Failures' = Failures /\ (Tears' <=> Tears)
  BY <1>1 DEF Failures, Tears
<1>3. SinkBounded'
  BY <1>1, <1>2 DEF Accounted, SinkBounded
<1>4. InjectedFailuresSurface'
  BY <1>1, <1>2 DEF Accounted, InjectedFailuresSurface
<1>5. CrashCounted'
  BY <1>1, <1>2 DEF Accounted, CrashCounted
<1>6. QED
  BY <1>3, <1>4, <1>5 DEF Accounted

(* Every byte of the file that no Ok accounted for, and every failure the  *)
(* schedule counts, is one of an injected failure, and no other byte gets  *)
(* past the CrashWriter uncounted (ChaosWriter::write, CrashWriter::write).*)
THEOREM Accounts == Spec => [](NoWrap => Accounted)
<1>1. Init => Accounted
  <2> SUFFICES ASSUME Init PROVE Accounted
    OBVIOUS
  <2>1. io.sink = <<>> /\ Len(<<>>) = 0 /\ io.failures = 0 /\ io.written = 0
    BY EmptySeq DEF Init, FreshWriter
  <2>2. Failures = 0
    BY <2>1, InitIInv, SetupFacts, FailureCountZero DEF Failures, IInv, SetupOK
  <2>3. InjectedFailuresSurface
    BY <2>2 DEF Init, InjectedFailuresSurface
  <2>4. Len(io.sink) - Len(acked) = 0 /\ Len(io.sink) - base - io.written = 0 /\ before = 0
    BY <2>1 DEF Init
  <2>5. SinkBounded /\ CrashCounted
    BY <2>2, <2>4 DEF SinkBounded, CrashCounted
  <2>6. QED
    BY <2>3, <2>5 DEF Accounted
<1>2. IInv /\ (NoWrap => Accounted) /\ [Next]_vars => (NoWrap => Accounted)'
  <2> SUFFICES ASSUME IInv, NoWrap => Accounted, [Next]_vars, NoWrap'
               PROVE  Accounted'
    OBVIOUS
  <2>1. writes' >= writes
    <3>1. writes \in Nat
      BY BoundsAssumption DEF IInv, Counted
    <3>2. writes' = writes \/ writes' = writes + 1
      BY DEF Next, vars, Call, Write, Flush, Reopen, IntoInner, Recreate, Open
    <3>3. QED
      BY <3>1, <3>2
  <2>2. Accounted
    <3>1. writes \in Nat /\ writes' \in Nat
      BY NextIInv, BoundsAssumption DEF IInv, Counted
    <3>2. NoWrap
      BY <2>1, <3>1, UsizeMaxAssumption DEF NoWrap
    <3>3. QED
      BY <3>2
  <2>3. QED
    BY <2>2, WriteAccounted, ReopenAccounted, IntoInnerAccounted, RecreateAccounted,
       QuietAccounted DEF Next
<1>3. QED
  BY <1>1, <1>2, Invariant, PTL DEF Spec

(* The file holds what the caller was told it holds, in order and no byte  *)
(* twice, plus at most one byte for every partial write injected           *)
(* (ChaosWriter::write, CrashWriter::write).                               *)
THEOREM SinkIsReconstructable == Spec => [](NoWrap => SinkReconstructable)
<1>1. IInv /\ (NoWrap => Accounted) => (NoWrap => SinkReconstructable)
  BY DEF IInv, SinkInOrder, Accounted, SinkBounded, SinkReconstructable
<1>2. QED
  BY <1>1, Invariant, Accounts, PTL

(* A failure the schedule counts is never hidden: the call it was injected *)
(* in returned an error (ChaosWriter::write).                              *)
THEOREM FailuresSurface == Spec => [](NoWrap => InjectedFailuresSurface)
<1>1. (NoWrap => Accounted) => (NoWrap => InjectedFailuresSurface)
  BY DEF Accounted
<1>2. QED
  BY <1>1, Accounts, PTL

(* Of the bytes in the file since the writer was built, the CrashWriter    *)
(* counted at most its crash point, and all but the torn ones of a         *)
(* ChaosWriter under it (CrashWriter::write).                              *)
THEOREM CrashIsExact == Spec => [](NoWrap => CrashTruncates)
<1>1. IInv /\ (NoWrap => Accounted) => (NoWrap => CrashTruncates)
  BY DEF IInv, Counted, Accounted, CrashCounted, CrashTruncates, BytesWritten
<1>2. QED
  BY <1>1, Invariant, Accounts, PTL
=============================================================================
