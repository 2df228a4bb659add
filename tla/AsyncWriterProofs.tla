-------------------------- MODULE AsyncWriterProofs --------------------------
(***************************************************************************)
(* Proofs about AsyncWriter, for every schedule, every length of buffer    *)
(* and any number of operations and of dropped ones.                       *)
(***************************************************************************)
EXTENDS AsyncWriter, ChaosIOProofs

-----------------------------------------------------------------------------
(* The invariants.                                                         *)

(* The types of the state; the bounds of the model limit the counters.     *)
TypeOK ==
  /\ sched \in Schedules
  /\ io \in [sink : Seq(Bytes), attempt : 0..MaxOps, failures : 0..MaxOps]
  /\ state \in {"idle", "passing", "partial_byte"}
  /\ buf = NoBuf \/ buf \in Seq(Bytes)
  /\ runnable \in BOOLEAN /\ waker \in {"none", "armed", "called"}
  /\ result \in [n : 0..MaxBuf, err : Errors]
  /\ {bytes, ops, cancels, injected, errs} \subseteq Nat
  /\ acked \in Seq(Bytes)

IoType == [sink : Seq(Bytes), attempt : 0..MaxOps, failures : 0..MaxOps]

(* The operations started bound what the writer counts; one that has not   *)
(* been decided is still to be counted as an attempt.                      *)
Counted ==
  /\ ops \in 0..MaxOps /\ bytes \in Nat /\ bytes <= ops * MaxBuf
  /\ io.failures <= io.attempt /\ io.attempt <= ops
  /\ buf # NoBuf /\ state = "idle" => io.attempt < ops

(* The buffer of the operation holds the last bytes handed over,           *)
BufIsLast ==
  buf # NoBuf =>
    /\ Len(buf) <= MaxBuf /\ Len(buf) <= bytes
    /\ \A i \in 1..Len(buf) : buf[i] = bytes - Len(buf) + i

(* and the sink only bytes from before it.                                 *)
SinkIsBefore ==
  \A j \in 1..Len(io.sink) :
    io.sink[j] <= IF buf = NoBuf THEN bytes ELSE bytes - Len(buf)

(* An attempt that is pending was decided in state begun, and its state is *)
(* what that decision left.                                                *)
DecidedAtBegin ==
  state # "idle" => /\ io = Attempt(sched, begun).io
                    /\ state = "partial_byte" <=> Attempt(sched, begun).fails
                    /\ state = "partial_byte" => sched.mode = "partial_write"

TInv == TypeOK /\ begun \in IoType /\ Counted /\ BufIsLast

(* The counter of failures of the schedule has not wrapped around.         *)
NoWrap == io.failures <= UsizeMax

-----------------------------------------------------------------------------
(* A torn write that is still to be made.                                  *)
Due == IF state = "partial_byte" THEN 1 ELSE 0

(* The parts of SinkReconstructable: the sink is in order and holds what   *)
(* was acknowledged,                                                       *)
SinkInOrder ==
  Ordered(io.sink) /\ Ordered(acked) /\ HoldsAll(io.sink, acked) /\ SinkIsBefore

(* and has no byte more than the partial writes account for, of which one  *)
(* that is due has not reached it.                                         *)
SinkBounded ==
  Len(io.sink) - Len(acked) + Due <= IF sched.mode = "partial_write" THEN Failures ELSE 0

(* The state of the writer as a synchronous one would see it.              *)
SyncIo == IF state = "idle" THEN io ELSE begun

(* What the first block of a poll leaves.                                  *)
LEMMA DecidedFacts ==
  ASSUME TInv, DecidedAtBegin, buf # NoBuf
  PROVE  /\ Decided.io \in IoType
         /\ Decided.io.sink = io.sink
         /\ Decided.io.failures <= Decided.io.attempt
         /\ io.failures <= Decided.io.failures
         /\ Decided.io.attempt <= ops
         /\ Decided.io = Attempt(sched, SyncIo).io
         /\ Decided.state \in {"refused", "passing", "partial_byte"}
         /\ Decided.state = "passing" <=> ~ Attempt(sched, SyncIo).fails
         /\ Decided.state = "partial_byte" => sched.mode = "partial_write"
         /\ Decided.state = "refused" => state = "idle" /\ ~ TearsOn(sched, buf)
         /\ state # "idle" => Decided.state = state
         /\ Decided.io.failures <= UsizeMax =>
              FailureCount(sched.limit, Decided.io.failures) =
                FailureCount(sched.limit, io.failures)
                  + (IF state = "idle" /\ Decided.state # "passing" THEN 1 ELSE 0)
<1> DEFINE a == Attempt(sched, io)
<1>1. /\ sched.limit \in Nat \cup {NoLimit} /\ io \in IoType
      /\ io.failures \in Nat /\ io.attempt \in Nat /\ ops \in 0..MaxOps /\ MaxOps \in Nat
      /\ io.failures <= io.attempt /\ io.attempt <= ops
      /\ state = "idle" => io.attempt < ops
      /\ FailureCount(sched.limit, io.failures) \in Nat
  <2>1. sched.limit \in Nat \cup {NoLimit} /\ io \in IoType
    BY SchedulesAssumption DEF TInv, TypeOK, IoType
  <2>2. io.failures \in Nat /\ io.attempt \in Nat /\ MaxOps \in Nat
    BY <2>1, BoundsAssumption DEF IoType
  <2>3. QED
    BY <2>1, <2>2, FailureCountType DEF TInv, Counted
<1>2. CASE state = "idle"
  <2>1. /\ a.io.attempt = io.attempt + 1
        /\ a.io.failures \in {io.failures, io.failures + 1}
        /\ a.io.failures <= UsizeMax =>
             FailureCount(sched.limit, a.io.failures) =
               FailureCount(sched.limit, io.failures) + (IF a.fails THEN 1 ELSE 0)
    BY <1>1, AttemptCounts DEF IoType
  <2>2. PICK k \in {io.failures, io.failures + 1} :
          a.io = [[io EXCEPT !.attempt = @ + 1] EXCEPT !.failures = k]
    BY AttemptRecord
  <2>3. Decided.io = a.io /\ SyncIo = io
    BY <1>2 DEF Decided, ChaosEnter, SyncIo
  <2>4. /\ a.fails /\ ~ TearsOn(sched, buf) => Decided.state = "refused"
        /\ a.fails /\ TearsOn(sched, buf) => Decided.state = "partial_byte"
        /\ ~ a.fails => Decided.state = "passing"
    BY <1>2 DEF Decided, ChaosEnter
  <2> HIDE DEF a
  <2>5. a.io \in IoType /\ a.io.sink = io.sink
    <3>1. k \in 0..MaxOps /\ [io EXCEPT !.attempt = @ + 1] \in IoType
      BY <1>1, <1>2 DEF IoType
    <3>2. QED
      BY <1>1, <2>2, <3>1 DEF IoType
  <2>6. /\ a.io.failures <= a.io.attempt /\ io.failures <= a.io.failures
        /\ a.io.attempt <= ops
    BY <1>1, <1>2, <2>1
  <2>7. QED
    BY <1>1, <1>2, <2>1, <2>3, <2>4, <2>5, <2>6 DEF a, TearsOn
<1>3. CASE state # "idle"
  <2>1. Decided.io = io /\ Decided.state = state /\ SyncIo = begun
    BY <1>3 DEF Decided, SyncIo
  <2>2. state \in {"passing", "partial_byte"}
    BY <1>3 DEF TInv, TypeOK
  <2>3. QED
    BY <1>1, <1>3, <2>1, <2>2 DEF DecidedAtBegin
<1>4. QED
  BY <1>2, <1>3

(* The record t is s with the bytes b appended to the sink.                *)
Appended(t, s, b) ==
  /\ t \in IoType /\ t.sink = s.sink \o b
  /\ t.attempt = s.attempt /\ t.failures = s.failures

(* The inner writer takes the first n bytes of what it is given, or none.  *)
LEMMA InnerWriteFacts ==
  ASSUME NEW s \in IoType, NEW b \in Seq(Bytes), NEW o \in InnerWrite(s, b)
  PROVE  /\ o.n \in 0..Len(b)
         /\ Appended(o.io, s, Prefix(b, o.n))
         /\ o.err \in InnerErrors \cup {"none"}
         /\ o.err # "none" => o.n = 0
<1>1. ASSUME NEW n \in 0..Len(b), o = Ok([s EXCEPT !.sink = @ \o Prefix(b, n)], n)
      PROVE  /\ o.n \in 0..Len(b)
             /\ Appended(o.io, s, Prefix(b, o.n))
             /\ o.err = "none"
  <2>1. s.sink \o Prefix(b, n) \in Seq(Bytes)
    BY PrefixFacts, ConcatProperties DEF IoType
  <2>2. o.io = [s EXCEPT !.sink = s.sink \o Prefix(b, n)] /\ o.n = n /\ o.err = "none"
    BY <1>1 DEF Ok
  <2>3. QED
    BY <2>1, <2>2 DEF Appended, IoType
<1>2. ASSUME NEW e \in InnerErrors, o = Err(s, e)
      PROVE  /\ o.n \in 0..Len(b)
             /\ Appended(o.io, s, Prefix(b, o.n))
             /\ o.err = e /\ o.n = 0
  <2>1. o.io = s /\ o.n = 0 /\ o.err = e
    BY <1>2 DEF Err
  <2>2. Prefix(b, 0) = <<>> /\ s.sink \o <<>> = s.sink
    BY SubSeqEmpty, ConcatEmptySeq DEF Prefix, IoType
  <2>3. 0 \in 0..Len(b)
    BY LenProperties
  <2>4. QED
    BY <2>1, <2>2, <2>3 DEF Appended
<1>3. QED
  BY <1>1, <1>2 DEF InnerWrite

(* The outcome o of the attempt decided as d, of which k bytes reached the *)
(* sink.                                                                   *)
Outcome(d, o, k) ==
  /\ k \in 0..Len(buf) /\ Appended(o.io, d.io, Prefix(buf, k))
  /\ o.err \in Errors
  /\ d.state = "passing" => o.n = k /\ o.err # "injected"
  /\ d.state # "passing" => o.n = 0 /\ o.err # "none"
  /\ d.state = "partial_byte" => k <= 1
  /\ d.state = "refused" => k = 0 /\ o.err = "injected"

(* How a poll ends.                                                        *)
LEMMA PollCases ==
  ASSUME TInv, DecidedAtBegin, Poll
  PROVE  /\ buf # NoBuf
         /\ begun' = SyncIo
         /\ UNCHANGED <<sched, bytes, ops, cancels>>
         /\ waker' \in {"none", "armed", "called"}
         /\ \/ Decided.state # "refused" /\ Pending(Decided)
            \/ \E o \in ChaosWrite(sched, SyncIo, buf) :
                 Ready(o) /\ \E k \in 0..Len(buf) : Outcome(Decided, o, k)
<1> DEFINE d == Decided
           a == Attempt(sched, SyncIo)
           e == ChaosEnter(sched, SyncIo, buf)
<1>1. /\ buf # NoBuf /\ begun' = SyncIo
      /\ UNCHANGED <<sched, bytes, ops, cancels>>
      /\ PollAlone(d) \/ PollInner(d)
  BY DEF Poll, SyncIo
<1>2. /\ d.io \in IoType /\ d.io = a.io
      /\ d.state \in {"refused", "passing", "partial_byte"}
      /\ d.state = "passing" <=> ~ a.fails
      /\ d.state = "partial_byte" => sched.mode = "partial_write"
      /\ d.state = "refused" => ~ TearsOn(sched, buf)
  BY <1>1, DecidedFacts
<1>3. buf \in Seq(Bytes) /\ waker \in {"none", "armed", "called"}
  BY <1>1 DEF TInv, TypeOK
<1>4. /\ e.io = a.io
      /\ e.tears <=> (a.fails /\ TearsOn(sched, buf))
      /\ e.stops <=> (a.fails /\ ~ TearsOn(sched, buf))
      /\ e.out = Err(a.io, "injected")
      /\ e.buf = IF a.fails /\ TearsOn(sched, buf) THEN TornBuffer(buf) ELSE buf
  BY DEF ChaosEnter
<1> HIDE DEF d, e, a
<1>5. ASSUME d.state = "refused" \/ (d.state = "partial_byte" /\ buf = <<>>)
      PROVE  /\ Err(d.io, "injected") \in ChaosWrite(sched, SyncIo, buf)
             /\ Outcome(d, Err(d.io, "injected"), 0)
  <2>1. e.stops
    BY <1>2, <1>4, <1>5 DEF TearsOn
  <2>2. Prefix(buf, 0) = <<>> /\ d.io.sink \o <<>> = d.io.sink /\ 0 \in 0..Len(buf)
    BY <1>2, <1>3, SubSeqEmpty, ConcatEmptySeq, LenProperties DEF Prefix, IoType
  <2>3. /\ Err(d.io, "injected").io = d.io /\ Err(d.io, "injected").n = 0
        /\ Err(d.io, "injected").err = "injected"
    BY DEF Err
  <2>4. Appended(d.io, d.io, Prefix(buf, 0))
    BY <1>2, <2>2 DEF Appended
  <2>5. Outcome(d, Err(d.io, "injected"), 0)
    BY <1>5, <2>2, <2>3, <2>4 DEF Outcome, Errors
  <2>6. QED
    BY <1>2, <1>4, <2>1, <2>5 DEF ChaosWrite, e
<1>6. ASSUME d.state = "passing", NEW o \in InnerWrite(d.io, buf)
      PROVE  o \in ChaosWrite(sched, SyncIo, buf) /\ Outcome(d, o, o.n)
  <2>1. ~ e.tears /\ ~ e.stops /\ e.buf = buf /\ e.io = d.io
    BY <1>2, <1>4, <1>6
  <2>2. o \in ChaosWrite(sched, SyncIo, buf)
    BY <1>6, <2>1 DEF ChaosWrite, ChaosLeave, e
  <2>3. Outcome(d, o, o.n)
    BY <1>2, <1>3, <1>6, InnerWriteFacts DEF Outcome, Errors, InnerErrors
  <2>4. QED
    BY <2>2, <2>3
<1>7. ASSUME d.state = "partial_byte", buf # <<>>, NEW p \in InnerWrite(d.io, TornBuffer(buf))
      PROVE  Torn(p) \in ChaosWrite(sched, SyncIo, buf) /\ Outcome(d, Torn(p), p.n)
  <2>1. e.tears /\ ~ e.stops /\ e.buf = TornBuffer(buf) /\ e.io = d.io
    BY <1>2, <1>4, <1>7 DEF TearsOn
  <2>2. Torn(p) \in ChaosWrite(sched, SyncIo, buf)
    BY <1>7, <2>1 DEF ChaosWrite, ChaosLeave, e
  <2>3. Len(buf) \in Nat \ {0} /\ 1 \in 0..Len(buf)
    BY <1>3, <1>7, EmptySeq, LenProperties
  <2>4. TornBuffer(buf) \in Seq(Bytes) /\ Len(TornBuffer(buf)) = 1 /\ TornBuffer(buf)[1] = buf[1]
    <3>1. /\ Prefix(buf, 1) \in Seq(Bytes) /\ Len(Prefix(buf, 1)) = 1
          /\ \A i \in 1..1 : Prefix(buf, 1)[i] = buf[i]
      <4>1. buf \in Seq(Bytes) /\ 1 \in 0..Len(buf)
        BY <1>3, <2>3
      <4>2. QED
        BY <4>1, PrefixFacts
    <3>2. 1 \in 1..1 /\ Prefix(buf, 1)[1] = buf[1]
      BY <3>1
    <3>3. QED
      BY <3>1, <3>2 DEF TornBuffer
  <2>5. /\ p.n \in 0..1 /\ Appended(p.io, d.io, Prefix(TornBuffer(buf), p.n))
        /\ p.err \in InnerErrors \cup {"none"}
        /\ p.err # "none" => p.n = 0
    BY <1>2, <1>7, <2>4, InnerWriteFacts
  <2>6. Prefix(TornBuffer(buf), p.n) = Prefix(buf, p.n)
    <3>1. CASE p.n = 0
      BY <3>1, SubSeqEmpty, <1>3, <2>4 DEF Prefix
    <3>2. CASE p.n = 1
      <4>1. Prefix(TornBuffer(buf), 1) = TornBuffer(buf)
        BY <2>4, SubSeqFull DEF Prefix
      <4>2. QED
        BY <3>2, <4>1 DEF TornBuffer
    <3>3. QED
      BY <2>5, <3>1, <3>2
  <2>7. /\ Torn(p).io = p.io /\ Torn(p).n = IF p.err = "none" THEN 0 ELSE p.n
        /\ Torn(p).err = IF p.err = "none" THEN "injected" ELSE p.err
    BY DEF Torn, Err
  <2>8. Torn(p).n = 0 /\ Torn(p).err \in Errors \ {"none"}
    BY <2>5, <2>7 DEF Errors, InnerErrors
  <2>9. p.n \in 0..Len(buf) /\ p.n <= 1
    BY <2>3, <2>5
  <2>10. QED
    BY <1>7, <2>2, <2>5, <2>6, <2>7, <2>8, <2>9 DEF Outcome
<1>8. CASE PollAlone(d)
  BY <1>1, <1>3, <1>5, <1>8, LenProperties DEF PollAlone, d
<1>9. CASE PollInner(d)
  BY <1>1, <1>3, <1>6, <1>7, <1>9 DEF PollInner, Outcome, d
<1>10. QED
  BY <1>1, <1>8, <1>9

-----------------------------------------------------------------------------
(* Type correctness.                                                       *)

(* The bytes of the next operation are within bounds.                      *)
LEMMA NextBytes ==
  ASSUME Counted, ops < MaxOps, NEW n \in 0..MaxBuf
  PROVE  /\ bytes + n <= (ops + 1) * MaxBuf
         /\ \A i \in 1..n : bytes + i \in Bytes
         /\ bytes \in 0..(MaxOps * MaxBuf)
<1>1. ops \in Nat /\ MaxOps \in Nat /\ MaxBuf \in Nat /\ bytes \in Nat /\ n \in 0..MaxBuf
  BY BoundsAssumption DEF Counted
<1>2. (ops + 1) * MaxBuf = ops * MaxBuf + MaxBuf
  BY <1>1
<1>3. (ops + 1) * MaxBuf <= MaxOps * MaxBuf
  BY <1>1
<1>4. ops * MaxBuf \in Nat /\ MaxOps * MaxBuf \in Nat /\ bytes <= ops * MaxBuf
  BY <1>1 DEF Counted
<1> DEFINE p == ops * MaxBuf
           q == MaxOps * MaxBuf
           r == (ops + 1) * MaxBuf
<1> HIDE DEF p, q, r
<1>5. p \in Nat /\ q \in Nat /\ r = p + MaxBuf /\ r <= q /\ bytes <= p
  BY <1>2, <1>3, <1>4 DEF p, q, r
<1>6. /\ bytes + n <= r
      /\ \A i \in 1..n : bytes + i \in 1..q
      /\ bytes \in 0..q
  BY <1>1, <1>5
<1>7. QED
  BY <1>6 DEF Bytes, p, q, r

(* Every step keeps the state well-formed and within its bounds.           *)
LEMMA StepTInv ==
  ASSUME TInv, DecidedAtBegin, [Next]_vars
  PROVE  TInv'
<1>1. ASSUME NEW n \in 0..MaxBuf, Begin(n)
      PROVE  TInv'
  <2> DEFINE b == [i \in 1..n |-> bytes + i]
  <2>1. /\ bytes + n <= (ops + 1) * MaxBuf
        /\ \A i \in 1..n : bytes + i \in Bytes
    BY <1>1, NextBytes DEF Begin, TInv
  <2>2. /\ n \in Nat /\ n <= MaxBuf /\ bytes \in Nat /\ ops \in Nat /\ ops + 1 \in 0..MaxOps
        /\ io.attempt <= ops /\ io.attempt \in Nat
    BY <1>1, BoundsAssumption DEF Begin, TInv, TypeOK, Counted
  <2>3. b \in Seq(Bytes) /\ Len(b) = n
    BY <2>1, <2>2, IsASeq
  <2>4. TypeOK'
    BY <1>1, <2>2, <2>3 DEF Begin, TInv, TypeOK
  <2>5. Counted'
    BY <1>1, <2>1, <2>2 DEF Begin, TInv, Counted
  <2>6. BufIsLast'
    <3> HIDE DEF b
    <3>1. \A i \in 1..Len(b) : b[i] = bytes + n - Len(b) + i
      BY <2>2, <2>3 DEF b
    <3>2. buf' = b /\ bytes' = bytes + n
      BY <1>1 DEF Begin, b
    <3>3. Len(buf') <= MaxBuf /\ Len(buf') <= bytes'
      BY <2>2, <2>3, <3>2
    <3>4. ASSUME NEW i \in 1..Len(buf')
          PROVE  buf'[i] = bytes' - Len(buf') + i
      <4>1. b[i] = bytes + n - Len(b) + i
        BY <3>1, <3>2
      <4>2. buf'[i] = b[i] /\ Len(buf') = Len(b) /\ bytes' = bytes + n
        BY <3>2
      <4>3. QED
        BY <2>2, <2>3, <4>1, <4>2
    <3>5. QED
      BY <3>3, <3>4 DEF BufIsLast
  <2>7. QED
    BY <1>1, <2>4, <2>5, <2>6 DEF Begin, TInv, IoType
<1>2. ASSUME Poll
      PROVE  TInv'
  <2>1. /\ buf # NoBuf /\ begun' = SyncIo /\ UNCHANGED <<sched, bytes, ops, cancels>>
        /\ waker' \in {"none", "armed", "called"}
    BY <1>2, PollCases
  <2>2. /\ Decided.io \in IoType
        /\ Decided.io.failures <= Decided.io.attempt
        /\ Decided.io.attempt <= ops
        /\ Decided.state \in {"refused", "passing", "partial_byte"}
    BY <2>1, DecidedFacts
  <2>3. begun' \in IoType
    BY <2>1 DEF SyncIo, TInv, TypeOK, IoType
  <2>4. CASE Decided.state # "refused" /\ Pending(Decided)
    <3>1. TypeOK'
      BY <2>1, <2>2, <2>4 DEF Pending, TInv, TypeOK, IoType
    <3>2. Counted' /\ BufIsLast'
      BY <2>1, <2>2, <2>4 DEF Pending, TInv, Counted, BufIsLast
    <3>3. QED
      BY <2>3, <3>1, <3>2 DEF TInv
  <2>5. ASSUME NEW o, Ready(o), NEW k \in 0..Len(buf), Outcome(Decided, o, k)
        PROVE  TInv'
    <3>1. /\ o.io \in IoType /\ o.io.attempt = Decided.io.attempt
          /\ o.io.failures = Decided.io.failures
          /\ o.n = k \/ o.n = 0
          /\ o.err \in Errors
      BY <2>2, <2>5 DEF Outcome, Appended
    <3>2. buf \in Seq(Bytes) /\ Len(buf) <= MaxBuf
      BY <2>1 DEF TInv, TypeOK, BufIsLast
    <3>3. o.n \in 0..Len(buf) /\ o.n \in 0..MaxBuf
      BY <3>1, <3>2, BoundsAssumption, LenProperties
    <3>4. acked' \in Seq(Bytes)
      BY <2>5, <3>2, <3>3, PrefixFacts, ConcatProperties DEF Ready, TInv, TypeOK
    <3>5. result' \in [n : 0..MaxBuf, err : Errors]
      BY <2>5, <3>1, <3>3 DEF Ready
    <3>6. {bytes', ops', cancels', injected', errs'} \subseteq Nat
      BY <2>1, <2>5 DEF Ready, TInv, TypeOK
    <3>7. TypeOK'
      <4>1. io' \in IoType /\ state' = "idle" /\ buf' = NoBuf /\ runnable' = FALSE
        BY <2>5, <3>1 DEF Ready
      <4>2. sched' \in Schedules
        BY <2>1 DEF TInv, TypeOK
      <4>3. QED
        BY <2>1, <3>4, <3>5, <3>6, <4>1, <4>2 DEF TypeOK, IoType
    <3>8. Counted' /\ BufIsLast'
      BY <2>1, <2>2, <2>5, <3>1 DEF Ready, TInv, Counted, BufIsLast
    <3>9. QED
      BY <2>3, <3>7, <3>8 DEF TInv
  <2>6. QED
    BY <1>2, <2>4, <2>5, PollCases
<1>3. ASSUME PollFlush \/ Wake
      PROVE  TInv'
  <2>1. TypeOK'
    BY <1>3 DEF PollFlush, Wake, TInv, TypeOK
  <2>2. Counted' /\ BufIsLast' /\ begun' \in IoType
    BY <1>3 DEF PollFlush, Wake, TInv, Counted, BufIsLast
  <2>3. QED
    BY <2>1, <2>2 DEF TInv
<1>4. ASSUME Cancel
      PROVE  TInv'
  <2>1. TypeOK'
    BY <1>4 DEF Cancel, TInv, TypeOK
  <2>2. Counted' /\ BufIsLast' /\ begun' \in IoType
    BY <1>4 DEF Cancel, TInv, Counted, BufIsLast
  <2>3. QED
    BY <2>1, <2>2 DEF TInv
<1>5. CASE UNCHANGED vars
  BY <1>5 DEF vars, TInv, TypeOK, Counted, BufIsLast, IoType
<1>6. QED
  BY <1>1, <1>2, <1>3, <1>4, <1>5 DEF Next

(* An attempt in flight stays as it was decided.                           *)
LEMMA StepDecided ==
  ASSUME TInv, DecidedAtBegin, [Next]_vars
  PROVE  DecidedAtBegin'
<1>1. ASSUME NEW n \in 0..MaxBuf, Begin(n)
      PROVE  DecidedAtBegin'
  BY <1>1 DEF Begin, DecidedAtBegin
<1>2. ASSUME Poll
      PROVE  DecidedAtBegin'
  <2>1. buf # NoBuf /\ begun' = SyncIo /\ sched' = sched
    BY <1>2, PollCases
  <2>2. CASE Decided.state # "refused" /\ Pending(Decided)
    BY <2>1, <2>2, DecidedFacts DEF Pending, DecidedAtBegin
  <2>3. ASSUME NEW o, Ready(o)
        PROVE  DecidedAtBegin'
    BY <2>3 DEF Ready, DecidedAtBegin
  <2>4. QED
    BY <1>2, <2>2, <2>3, PollCases
<1>3. ASSUME PollFlush \/ Wake \/ Cancel
      PROVE  DecidedAtBegin'
  BY <1>3 DEF PollFlush, Wake, Cancel, DecidedAtBegin
<1>4. CASE UNCHANGED vars
  BY <1>4 DEF vars, DecidedAtBegin
<1>5. QED
  BY <1>1, <1>2, <1>3, <1>4 DEF Next

(* An attempt in flight is one the schedule decided once, when it began,   *)
(* and the counters and buffers stay within the bounds of the operations   *)
(* started (poll_write, WriteState).                                       *)
THEOREM DecidedOnce == Spec => [](TInv /\ DecidedAtBegin)
<1>1. Init => TInv /\ DecidedAtBegin
  <2> SUFFICES ASSUME Init PROVE TInv /\ DecidedAtBegin
    OBVIOUS
  <2>1. <<>> \in Seq(Bytes) /\ Len(<<>>) = 0 /\ 0 \in 0..MaxOps /\ 0 \in 0..MaxBuf
    BY EmptySeq, BoundsAssumption
  <2>2. io \in IoType /\ begun \in IoType /\ io.attempt = 0 /\ io.failures = 0
    BY <2>1 DEF Init, IoType
  <2>3. result \in [n : 0..MaxBuf, err : Errors]
    BY <2>1 DEF Init, Errors
  <2>4. TypeOK
    <3>1. {bytes, ops, cancels, injected, errs} \subseteq Nat
      BY DEF Init
    <3>2. runnable \in BOOLEAN
      BY DEF Init
    <3>3. QED
      BY <2>1, <2>2, <2>3, <3>1, <3>2 DEF Init, TypeOK, IoType
  <2>5. 0 <= 0 * MaxBuf
    BY BoundsAssumption
  <2>6. Counted /\ BufIsLast /\ DecidedAtBegin
    BY <2>1, <2>2, <2>5 DEF Init, Counted, BufIsLast, DecidedAtBegin
  <2>7. QED
    BY <2>2, <2>4, <2>6 DEF TInv
<1>2. (TInv /\ DecidedAtBegin) /\ [Next]_vars => (TInv /\ DecidedAtBegin)'
  BY StepTInv, StepDecided
<1>3. QED
  BY <1>1, <1>2, PTL DEF Spec

(* However often it is polled, an operation is one attempt at most: the    *)
(* schedule counts no more failures than attempts, the writer no more      *)
(* attempts than operations, and one that awaits its first poll has none   *)
(* yet (poll_write, attempt_count).                                        *)
THEOREM AttemptsCounted == Spec => []Counted
<1>1. TInv => Counted
  BY DEF TInv
<1>2. QED
  BY <1>1, DecidedOnce, PTL

-----------------------------------------------------------------------------
(* The bytes of the sink.                                                  *)

(* Every step keeps the order of the sink.                                 *)
LEMMA StepSinkInOrder ==
  ASSUME TInv, DecidedAtBegin, SinkInOrder, [Next]_vars
  PROVE  SinkInOrder'
<1>1. /\ bytes \in Nat /\ io.sink \in Seq(Int) /\ acked \in Seq(Int)
      /\ Bytes \subseteq Int
  <2>1. Bytes \subseteq Int
    BY DEF Bytes
  <2>2. bytes \in Nat /\ io.sink \in Seq(Bytes) /\ acked \in Seq(Bytes)
    BY DEF TInv, TypeOK
  <2>3. QED
    BY <2>1, <2>2, SeqMonotonic
<1>2. ASSUME buf # NoBuf
      PROVE  /\ buf \in Seq(Int) /\ Len(buf) \in Nat /\ Ordered(buf)
             /\ \A i \in 1..Len(buf) : buf[i] = bytes - Len(buf) + i
             /\ \A j \in 1..Len(io.sink) : io.sink[j] <= bytes - Len(buf)
             /\ \A j \in 1..Len(io.sink) : io.sink[j] \in Int
  <2>1. buf \in Seq(Bytes)
    BY <1>2 DEF TInv, TypeOK
  <2>2. buf \in Seq(Int) /\ Len(buf) \in Nat
    BY <1>1, <2>1, SeqMonotonic, LenProperties
  <2>3. \A i \in 1..Len(buf) : buf[i] = bytes - Len(buf) + i
    BY <1>2 DEF TInv, BufIsLast
  <2>4. \A j \in 1..Len(io.sink) : io.sink[j] <= bytes - Len(buf)
    BY <1>2 DEF SinkInOrder, SinkIsBefore
  <2>5. \A j \in 1..Len(io.sink) : io.sink[j] \in Int
    BY <1>1, ElementOfSeq
  <2>6. Ordered(buf)
    BY <1>1, <2>2, <2>3 DEF Ordered
  <2>7. QED
    BY <2>2, <2>3, <2>4, <2>5, <2>6
<1>3. ASSUME NEW n \in 0..MaxBuf, Begin(n)
      PROVE  SinkInOrder'
  <2> DEFINE b == [i \in 1..n |-> bytes + i]
  <2>1. n \in Nat
    BY BoundsAssumption
  <2>2. Len(b) = n
    <3>1. \A i \in 1..n : bytes + i \in Int
      BY <1>1
    <3>2. QED
      BY <2>1, <3>1, IsASeq
  <2>3. buf' = b /\ bytes' = bytes + n /\ UNCHANGED <<io, acked>> /\ buf = NoBuf
    BY <1>3 DEF Begin
  <2> HIDE DEF b
  <2>4. Len(buf') = n
    BY <2>2, <2>3
  <2>5. SinkIsBefore'
    BY <1>1, <2>1, <2>3, <2>4 DEF SinkInOrder, SinkIsBefore
  <2>6. QED
    BY <2>3, <2>5 DEF SinkInOrder
<1>4. ASSUME Poll
      PROVE  SinkInOrder'
  <2>1. buf # NoBuf /\ UNCHANGED <<sched, bytes, ops, cancels>>
    BY <1>4, PollCases
  <2>2. /\ Decided.io.sink = io.sink
        /\ Decided.state \in {"refused", "passing", "partial_byte"}
    BY <2>1, DecidedFacts
  <2>3. CASE Pending(Decided)
    BY <2>1, <2>2, <2>3 DEF Pending, SinkInOrder, SinkIsBefore
  <2>4. ASSUME NEW o, Ready(o), NEW k \in 0..Len(buf), Outcome(Decided, o, k)
        PROVE  SinkInOrder'
    <3>1. /\ io'.sink = io.sink \o Prefix(buf, k)
          /\ acked' = acked \o Prefix(buf, o.n)
          /\ buf' = NoBuf
      BY <2>2, <2>4 DEF Ready, Outcome, Appended
    <3>2. o.n \in 0..k
      BY <1>2, <2>1, <2>2, <2>4 DEF Outcome
    <3>3. ASSUME NEW i \in 1..Len(io.sink), NEW j \in 1..Len(buf)
          PROVE  io.sink[i] < buf[j]
      <4>1. Len(buf) \in Nat /\ bytes \in Nat /\ j \in Nat /\ j >= 1
        BY <1>1, <1>2, <2>1
      <4>2. buf[j] = bytes - Len(buf) + j
        BY <1>2, <2>1
      <4>3. io.sink[i] <= bytes - Len(buf) /\ io.sink[i] \in Int
        BY <1>2, <2>1
      <4>4. QED
        BY <4>1, <4>2, <4>3
    <3>4. Ordered(io'.sink) /\ Ordered(acked') /\ HoldsAll(io'.sink, acked')
      BY <1>1, <1>2, <2>1, <3>1, <3>2, <3>3, AppendedInOrder DEF SinkInOrder
    <3>5. SinkIsBefore'
      <4>1. /\ Prefix(buf, k) \in Seq(Int) /\ Len(Prefix(buf, k)) = k
            /\ \A i \in 1..k : Prefix(buf, k)[i] = buf[i]
        BY <1>2, <2>1, PrefixFacts
      <4>2. /\ Len(io'.sink) = Len(io.sink) + k /\ Len(io.sink) \in Nat
            /\ \A i \in 1..Len(io.sink) + k :
                 io'.sink[i] = IF i <= Len(io.sink) THEN io.sink[i]
                                                    ELSE Prefix(buf, k)[i - Len(io.sink)]
        <5> DEFINE p == Prefix(buf, k)
        <5> HIDE DEF p
        <5>1. p \in Seq(Int) /\ Len(p) = k
          BY <4>1 DEF p
        <5>2. /\ Len(io.sink \o p) = Len(io.sink) + Len(p)
              /\ \A i \in 1..Len(io.sink) + Len(p) :
                   (io.sink \o p)[i] = IF i <= Len(io.sink) THEN io.sink[i]
                                                           ELSE p[i - Len(io.sink)]
          BY <1>1, <5>1, ConcatProperties
        <5>3. Len(io.sink) \in Nat
          BY <1>1, LenProperties
        <5>4. io'.sink = io.sink \o p
          BY <3>1 DEF p
        <5>5. QED
          BY <5>1, <5>2, <5>3, <5>4 DEF p
      <4>3. ASSUME NEW i \in 1..Len(io'.sink)
            PROVE  io'.sink[i] <= bytes
        <5>1. CASE i <= Len(io.sink)
          <6>1. i \in 1..Len(io.sink) /\ io'.sink[i] = io.sink[i]
            BY <4>2, <5>1
          <6>2. /\ io.sink[i] <= bytes - Len(buf) /\ io.sink[i] \in Int
                /\ Len(buf) \in Nat /\ bytes \in Nat
            BY <1>1, <1>2, <2>1, <6>1
          <6>3. QED
            BY <6>1, <6>2
        <5>2. CASE i > Len(io.sink)
          <6> DEFINE m == i - Len(io.sink)
          <6>1. m \in 1..k /\ m \in 1..Len(buf) /\ io'.sink[i] = Prefix(buf, k)[m]
            BY <1>2, <2>1, <4>2, <5>2
          <6>2. Prefix(buf, k)[m] = buf[m]
            BY <4>1, <6>1
          <6> HIDE DEF m
          <6>3. buf[m] = bytes - Len(buf) + m
            BY <1>2, <2>1, <6>1
          <6>4. QED
            BY <1>1, <1>2, <2>1, <6>1, <6>2, <6>3
        <5>3. QED
          BY <4>2, <5>1, <5>2
      <4>4. QED
        BY <2>1, <3>1, <4>3 DEF SinkIsBefore
    <3>6. QED
      BY <3>4, <3>5 DEF SinkInOrder
  <2>5. QED
    BY <1>4, <2>3, <2>4, PollCases
<1>5. ASSUME PollFlush \/ Wake
      PROVE  SinkInOrder'
  BY <1>5 DEF PollFlush, Wake, SinkInOrder, SinkIsBefore
<1>6. ASSUME Cancel
      PROVE  SinkInOrder'
  <2>1. buf # NoBuf /\ buf' = NoBuf /\ UNCHANGED <<io, acked, bytes>>
    BY <1>6 DEF Cancel
  <2>2. \A j \in 1..Len(io.sink) : io.sink[j] <= bytes
    BY <1>1, <1>2, <2>1
  <2>3. QED
    BY <2>1, <2>2 DEF SinkInOrder, SinkIsBefore
<1>7. CASE UNCHANGED vars
  BY <1>7 DEF vars, SinkInOrder, SinkIsBefore
<1>8. QED
  BY <1>3, <1>4, <1>5, <1>6, <1>7 DEF Next

(* The counts of the bytes in the sink and of the errors keep up with the  *)
(* failures of the schedule.                                               *)
LEMMA StepCounts ==
  ASSUME TInv, DecidedAtBegin, NoWrap => SinkBounded /\ InjectedFailuresSurface,
         [Next]_vars
  PROVE  (NoWrap => SinkBounded /\ InjectedFailuresSurface)'
<1> SUFFICES ASSUME NoWrap'
             PROVE  SinkBounded' /\ InjectedFailuresSurface'
  OBVIOUS
<1>1. ASSUME NEW n \in 0..MaxBuf, Begin(n)
      PROVE  SinkBounded' /\ InjectedFailuresSurface'
  BY <1>1 DEF Begin, NoWrap, SinkBounded, InjectedFailuresSurface, Failures, Due
<1>2. ASSUME Poll
      PROVE  SinkBounded' /\ InjectedFailuresSurface'
  <2> DEFINE f == FailureCount(sched.limit, io.failures)
             g == FailureCount(sched.limit, Decided.io.failures)
             d == Decided.state
             torn == sched.mode = "partial_write"
             ls == Len(io.sink)
             la == Len(acked)
  <2>1. buf # NoBuf /\ sched' = sched
    BY <1>2, PollCases
  <2>2. /\ Decided.io \in IoType /\ io \in IoType
        /\ Decided.io.sink = io.sink
        /\ io.failures <= Decided.io.failures
        /\ d \in {"refused", "passing", "partial_byte"}
        /\ d = "partial_byte" => torn
        /\ d = "refused" => state = "idle"
        /\ state # "idle" => d = state
        /\ Decided.io.failures <= UsizeMax =>
             g = f + (IF state = "idle" /\ d # "passing" THEN 1 ELSE 0)
    BY <2>1, DecidedFacts DEF TInv, TypeOK, IoType
  <2>3. /\ io.sink \in Seq(Bytes) /\ acked \in Seq(Bytes) /\ buf \in Seq(Bytes)
        /\ ls \in Nat /\ la \in Nat /\ Len(buf) \in Nat
        /\ injected \in Nat /\ errs \in Nat
        /\ state \in {"idle", "passing", "partial_byte"}
    BY <2>1, LenProperties DEF TInv, TypeOK
  <2>4. f \in Nat
    <3>1. sched.limit \in Nat \cup {NoLimit} /\ io.failures \in Nat
      BY SchedulesAssumption DEF TInv, TypeOK
    <3>2. QED
      BY <3>1, FailureCountType
  <2>5. Due = IF state = "partial_byte" THEN 1 ELSE 0
    BY DEF Due
  <2>6. SUFFICES ASSUME io'.failures = Decided.io.failures
                 PROVE  /\ torn => Len(io'.sink) - Len(acked') + Due' <= g
                        /\ ~ torn => Len(io'.sink) - Len(acked') + Due' <= 0
                        /\ injected' + Due' <= g /\ g <= errs' + Due'
    <3>1. io'.failures = Decided.io.failures
      BY <1>2, PollCases DEF Pending, Ready, Outcome, Appended
    <3>2. Failures' = g
      BY <2>1, <3>1 DEF Failures
    <3>3. QED
      BY <2>1, <2>6, <3>1, <3>2 DEF SinkBounded, InjectedFailuresSurface, Due
  <2>7. /\ torn => ls - la + Due <= f
        /\ ~ torn => ls - la + Due <= 0
        /\ injected + Due <= f /\ f <= errs + Due
        /\ g = f + (IF state = "idle" /\ d # "passing" THEN 1 ELSE 0)
    <3>1. Decided.io.failures <= UsizeMax
      BY <2>6 DEF NoWrap
    <3>2. NoWrap
      BY <2>2, <3>1, UsizeMaxAssumption DEF NoWrap, IoType
    <3>3. SinkBounded /\ InjectedFailuresSurface
      BY <3>2
    <3>4. QED
      BY <2>2, <3>1, <3>3 DEF SinkBounded, InjectedFailuresSurface, Due, Failures
  <2> HIDE DEF f, g, d, ls, la
  <2>8. CASE d # "refused" /\ Pending(Decided)
    <3>1. /\ Len(io'.sink) = ls /\ Len(acked') = la
          /\ Due' = IF d = "partial_byte" THEN 1 ELSE 0
          /\ UNCHANGED <<injected, errs>>
      BY <2>2, <2>8 DEF Pending, Due, ls, la, d
    <3>2. QED
      BY <2>2, <2>3, <2>4, <2>5, <2>7, <2>8, <3>1
  <2>9. ASSUME NEW o, Ready(o), NEW k \in 0..Len(buf), Outcome(Decided, o, k)
        PROVE  /\ torn => Len(io'.sink) - Len(acked') + Due' <= g
               /\ ~ torn => Len(io'.sink) - Len(acked') + Due' <= 0
               /\ injected' + Due' <= g /\ g <= errs' + Due'
    <3>1. /\ io'.sink = io.sink \o Prefix(buf, k)
          /\ acked' = acked \o Prefix(buf, o.n)
          /\ Due' = 0
          /\ injected' = IF o.err = "injected" THEN injected + 1 ELSE injected
          /\ errs' = IF o.err = "none" THEN errs ELSE errs + 1
      BY <2>2, <2>9 DEF Ready, Outcome, Appended, Due
    <3>2. /\ d = "passing" => o.n = k /\ o.err # "injected"
          /\ d # "passing" => o.n = 0 /\ o.err # "none"
          /\ d = "partial_byte" => k <= 1
          /\ d = "refused" => k = 0
      BY <2>9 DEF Outcome, d
    <3>3. k \in Nat /\ o.n \in Nat /\ o.n \in 0..Len(buf)
      BY <2>2, <2>3, <3>2
    <3>4. Len(io'.sink) = ls + k /\ Len(acked') = la + o.n
      <4>1. /\ Prefix(buf, k) \in Seq(Bytes) /\ Len(Prefix(buf, k)) = k
            /\ Prefix(buf, o.n) \in Seq(Bytes) /\ Len(Prefix(buf, o.n)) = o.n
        BY <2>3, <3>3, PrefixFacts
      <4>2. /\ Len(io.sink \o Prefix(buf, k)) = ls + Len(Prefix(buf, k))
            /\ Len(acked \o Prefix(buf, o.n)) = la + Len(Prefix(buf, o.n))
        BY <2>3, <4>1, ConcatProperties DEF ls, la
      <4>3. QED
        BY <3>1, <4>1, <4>2
    <3>5. /\ injected' = injected \/ injected' = injected + 1
          /\ errs' = errs \/ errs' = errs + 1
          /\ d = "passing" => injected' = injected
          /\ d # "passing" => errs' = errs + 1
      BY <3>1, <3>2
    <3>6. CASE d = "passing"
      <4>1. Due = 0 /\ g = f /\ Due' = 0
        BY <2>2, <2>3, <2>4, <2>5, <2>7, <3>1, <3>6
      <4>2. Len(io'.sink) - Len(acked') + Due' = ls - la
        BY <2>3, <3>2, <3>3, <3>4, <3>6, <4>1
      <4>3. injected' + Due' <= g /\ g <= errs' + Due'
        <5>1. injected' = injected /\ errs <= errs' /\ errs' \in Nat
          BY <2>3, <3>5, <3>6
        <5>2. injected <= f /\ f <= errs
          BY <2>3, <2>4, <2>7, <4>1
        <5>3. injected \in Nat /\ errs \in Nat
          BY <2>3
        <5>4. injected' <= g
          BY <2>4, <4>1, <5>1, <5>2, <5>3
        <5>5. g <= errs'
          BY <2>4, <4>1, <5>1, <5>2, <5>3
        <5>6. QED
          BY <4>1, <5>1, <5>3, <5>4, <5>5
      <4>4. ls - la + Due = ls - la
        BY <2>3, <4>1
      <4>5. QED
        BY <2>7, <4>1, <4>2, <4>3, <4>4
    <3>7. CASE d # "passing"
      <4>1. Len(io'.sink) - Len(acked') + Due' = ls - la + k
        BY <2>3, <3>1, <3>2, <3>3, <3>4, <3>7
      <4>2. Due \in {0, 1} /\ g = f + 1 - Due /\ Due' = 0
        BY <2>2, <2>3, <2>4, <2>5, <2>7, <3>1, <3>7
      <4>3. k <= 1 /\ (~ torn => k = 0)
        BY <2>2, <3>2, <3>7
      <4>4. injected' + Due' <= g /\ g <= errs' + Due'
        <5>1. errs' = errs + 1 /\ injected' <= injected + 1 /\ injected' \in Nat
          BY <2>3, <3>5, <3>7
        <5>2. injected + 1 <= g /\ g <= errs + 1
          BY <2>3, <2>4, <2>7, <4>2
        <5>3. injected \in Nat /\ errs \in Nat
          BY <2>3
        <5>4. injected' <= g
          BY <2>4, <4>2, <5>1, <5>2, <5>3
        <5>5. g <= errs'
          BY <2>4, <4>2, <5>1, <5>2, <5>3
        <5>6. QED
          BY <4>2, <5>1, <5>3, <5>4, <5>5
      <4>5. ASSUME torn
            PROVE  ls - la + k <= g
        BY <2>3, <2>4, <2>7, <3>3, <4>2, <4>3, <4>5
      <4>6. ASSUME ~ torn
            PROVE  ls - la + k <= 0
        BY <2>3, <2>7, <3>3, <4>2, <4>3, <4>6
      <4>7. QED
        BY <4>1, <4>4, <4>5, <4>6
    <3>8. QED
      BY <3>6, <3>7
  <2>10. QED
    BY <1>2, <2>8, <2>9, PollCases DEF d
<1>3. ASSUME PollFlush \/ Wake \/ Cancel
      PROVE  SinkBounded' /\ InjectedFailuresSurface'
  BY <1>3 DEF PollFlush, Wake, Cancel, NoWrap, SinkBounded, InjectedFailuresSurface,
              Failures, Due
<1>4. CASE UNCHANGED vars
  BY <1>4 DEF vars, NoWrap, SinkBounded, InjectedFailuresSurface, Failures, Due
<1>5. QED
  BY <1>1, <1>2, <1>3, <1>4 DEF Next

(* The inductive invariant.                                                *)
THEOREM Invariant ==
  Spec => [](SinkInOrder /\ (NoWrap => SinkBounded /\ InjectedFailuresSurface))
<1> DEFINE I == SinkInOrder /\ (NoWrap => SinkBounded /\ InjectedFailuresSurface)
<1>1. Init => I
  <2> SUFFICES ASSUME Init PROVE I
    OBVIOUS
  <2>1. FailureCount(sched.limit, 0) = 0
    BY FailureCountZero, SchedulesAssumption DEF Init
  <2>2. io.sink = <<>> /\ acked = <<>> /\ Len(<<>>) = 0
    BY DEF Init
  <2>3. SinkInOrder
    BY <2>2 DEF SinkInOrder, SinkIsBefore, Ordered, HoldsAll
  <2>4. Failures = 0 /\ Due = 0 /\ state = "idle" /\ injected = 0 /\ errs = 0
    BY <2>1 DEF Init, Failures, Due
  <2>5. SinkBounded
    BY <2>2, <2>4 DEF SinkBounded
  <2>6. InjectedFailuresSurface
    BY <2>4 DEF InjectedFailuresSurface
  <2>7. QED
    BY <2>3, <2>5, <2>6
<1>2. TInv /\ DecidedAtBegin /\ I /\ [Next]_vars => I'
  BY StepSinkInOrder, StepCounts
<1>3. QED
  BY <1>1, <1>2, DecidedOnce, PTL DEF Spec

(* Until the counter wraps, the sink holds what was acknowledged, in order *)
(* and no byte twice, plus at most one byte per partial write, also when   *)
(* writes are dropped (poll_write).                                        *)
THEOREM SinkIsReconstructable == Spec => [](NoWrap => SinkReconstructable)
<1>1. /\ TInv /\ SinkInOrder /\ (NoWrap => SinkBounded /\ InjectedFailuresSurface)
      => (NoWrap => SinkReconstructable)
  <2> SUFFICES ASSUME TInv, SinkInOrder, SinkBounded
               PROVE  SinkReconstructable
    OBVIOUS
  <2> DEFINE n == Len(io.sink) - Len(acked)
             b == IF sched.mode = "partial_write" THEN Failures ELSE 0
  <2>1. n + Due <= b /\ Due \in {0, 1}
    BY DEF SinkBounded, Due
  <2>2. n \in Int /\ b \in Int
    <3>1. sched.limit \in Nat \cup {NoLimit} /\ io.failures \in Nat
      BY SchedulesAssumption DEF TInv, TypeOK
    <3>2. Failures \in Nat
      BY <3>1, FailureCountType DEF Failures
    <3>3. Len(io.sink) \in Nat /\ Len(acked) \in Nat
      BY LenProperties DEF TInv, TypeOK
    <3>4. QED
      BY <3>2, <3>3
  <2> HIDE DEF n, b
  <2>3. n <= b
    BY <2>1, <2>2
  <2>4. QED
    BY <2>3 DEF SinkReconstructable, SinkInOrder, n, b
<1>2. QED
  BY <1>1, DecidedOnce, Invariant, PTL

(* Until the counter wraps, a failure the schedule counts is returned to   *)
(* the task as an error, or is the torn write still to be made; dropping   *)
(* an operation loses none (poll_write).                                   *)
THEOREM FailuresSurface == Spec => [](NoWrap => InjectedFailuresSurface)
<1>1. (NoWrap => SinkBounded /\ InjectedFailuresSurface) => (NoWrap => InjectedFailuresSurface)
  OBVIOUS
<1>2. QED
  BY <1>1, Invariant, PTL

-----------------------------------------------------------------------------
(* Refinement.                                                             *)

(* A poll is the end of one synchronous write, or nothing it can see.      *)
LEMMA PollIsEnd ==
  ASSUME TInv, DecidedAtBegin, Poll
  PROVE  Sync!End \/ UNCHANGED Sync!vars
<1>1. buf # NoBuf /\ begun' = SyncIo /\ sched' = sched
  BY PollCases
<1>2. CASE Decided.state # "refused" /\ Pending(Decided)
  <2>1. state' # "idle" /\ UNCHANGED <<sched, buf, result>>
    BY <1>1, <1>2, DecidedFacts DEF Pending
  <2>2. QED
    BY <1>1, <2>1 DEF Sync!vars, SyncIo
<1>3. ASSUME NEW o \in ChaosWrite(sched, SyncIo, buf), Ready(o)
      PROVE  Sync!End
  BY <1>1, <1>3 DEF Sync!End, Ready, SyncIo
<1>4. QED
  BY <1>2, <1>3, PollCases

(* Whatever is polled, flushed, woken, dropped or begun instead, a write   *)
(* that ends is one write of ChaosWriter, also when it continues the       *)
(* attempt of one that was dropped (poll_write, AsyncChaosWriter: `same    *)
(* contract as the sync writer').                                          *)
THEOREM WriterIsSync == Spec => Sync!Spec
<1>1. Init => buf = NoBuf
  BY DEF Init
<1>2. TInv /\ DecidedAtBegin /\ [Next]_vars => [Sync!Next]_(Sync!vars)
  <2> SUFFICES ASSUME TInv, DecidedAtBegin, [Next]_vars
               PROVE  Sync!Next \/ UNCHANGED Sync!vars
    OBVIOUS
  <2>1. ASSUME NEW n \in 0..MaxBuf, Begin(n)
        PROVE  Sync!Next
    <3>1. bytes \in 0..(MaxOps * MaxBuf)
      BY <2>1, NextBytes DEF Begin, TInv
    <3>2. buf' \in Buffers
      BY <2>1, <3>1 DEF Begin, Buffers
    <3>3. QED
      BY <2>1, <3>2 DEF Begin, Sync!Next, Sync!Begin
  <2>2. CASE Poll
    BY <2>2, PollIsEnd DEF Sync!Next
  <2>3. CASE Wake \/ PollFlush
    BY <2>3 DEF Wake, PollFlush, Sync!vars
  <2>4. CASE Cancel
    BY <2>4 DEF Cancel, Sync!Next, Sync!Drop
  <2>5. CASE UNCHANGED vars
    BY <2>5 DEF vars, Sync!vars
  <2>6. QED
    BY <2>1, <2>2, <2>3, <2>4, <2>5 DEF Next
<1>3. QED
  BY <1>1, <1>2, DecidedOnce, PTL DEF Spec, Sync!Spec
=============================================================================
