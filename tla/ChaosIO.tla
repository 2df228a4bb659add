------------------------------- MODULE ChaosIO -------------------------------
(***************************************************************************)
(* One operation of the wrappers that consult a schedule: what ChaosReader *)
(* and ChaosWriter do around the operation of the object they wrap.  The   *)
(* asynchronous wrappers share these definitions.                          *)
(*                                                                         *)
(* A record s holds the state of the wrapper (attempt, and the counter     *)
(* `failures' of its schedule) and of the object wrapped: sink, the bytes  *)
(* written to it, of which the first `flushed' are safe from a crash, or   *)
(* taken, the number of bytes read from a source.                          *)
(*                                                                         *)
(* The wrapped object belongs to the caller.  It may do whatever the       *)
(* traits Read and Write allow: short reads and writes, also of no byte,   *)
(* and errors, after which no byte has moved.  It may buffer what it is    *)
(* given until it is flushed.                                              *)
(***************************************************************************)
EXTENDS Schedule, Sequences

Prefix(buf, n) == SubSeq(buf, 1, n)
Suffix(buf, n) == SubSeq(buf, Len(buf) - n + 1, Len(buf))

Ok(s, n) == [io |-> s, n |-> n, err |-> "none"]
Err(s, e) == [io |-> s, n |-> 0, err |-> e]

(* Errors of the wrapped object, and those an operation may return.        *)
InnerErrors == {"interrupted", "device"}
Errors == InnerErrors \cup {"none", "injected", "crash"}

InnerWrite(s, buf) ==
  { Ok([s EXCEPT !.sink = @ \o Prefix(buf, n)], n) : n \in 0..Len(buf) }
    \cup { Err(s, e) : e \in InnerErrors }

InnerFlush(s) ==
  { Ok([s EXCEPT !.flushed = Len(s.sink)], 0) }
    \cup { Err([s EXCEPT !.flushed = n], e) :
             n \in s.flushed..Len(s.sink), e \in InnerErrors }

InnerRead(s, want) ==
  { Ok([s EXCEPT !.taken = @ + n], n) : n \in 0..want }
    \cup { Err(s, e) : e \in InnerErrors }

(* Mutant: a timeout is mapped to the kind of an interrupted call.         *)
ToIoKindRetried(mode) ==
  [io_error |-> "other", partial_write |-> "write_zero",
   connection_reset |-> "connection_reset", timeout |-> "interrupted",
   corruption |-> "invalid_data", permission_denied |-> "permission_denied"][mode]

ToIoKind(mode) ==
  [io_error |-> "other", partial_write |-> "write_zero",
   connection_reset |-> "connection_reset", timeout |-> "timed_out",
   corruption |-> "invalid_data", permission_denied |-> "permission_denied"][mode]

(* The ErrorKind of an error, which is all that callers like write_all see *)
(* of it; an injected failure is converted to an io::Error.                *)
ErrorKind(sched, err) ==
  CASE err = "injected" -> ToIoKind(sched.mode)
    [] err = "crash"    -> "write_zero"
    [] OTHER            -> err

AttemptCount(s) == Wrap(s.attempt)

-----------------------------------------------------------------------------
(* The next attempt is numbered and put to the schedule: n, maybe_fail(n). *)
(* `attempt' counts the increments of a usize.  The number after UsizeMax  *)
(* is 0; a build with overflow checks panics there instead.                *)
Attempt(sched, s) ==
  LET fires == Fires(sched, Wrap(s.attempt + 1))
  IN  [io |-> [s EXCEPT !.attempt = @ + 1,
                        !.failures = IF fires THEN @ + 1 ELSE @],
       fails |-> fires /\ Injects(sched.limit, Wrap(s.failures))]

(* Does a failure of this write let one byte through?                      *)
TearsOn(sched, buf) == sched.mode = "partial_write" /\ buf # <<>>

(* Mutant: the torn write passes the whole buffer on.                      *)
WholeBuffer(buf) == buf

(* What a torn write passes to the inner writer: buf[..1].                 *)
TornBuffer(buf) == Prefix(buf, 1)

(* Mutants: the torn byte is reported as a short write; the error is of a  *)
(* kind that write_all retries.                                            *)
TornShort(o) == o
TornInterrupted(o) == IF o.err = "none" THEN Err(o.io, "interrupted") ELSE o

(* A torn write ends in an error: the inner writer's, or the injected one. *)
Torn(o) == IF o.err = "none" THEN Err(o.io, "injected") ELSE o

(* ChaosWriter::write up to the inner write, if it comes to one.           *)
ChaosEnter(sched, s, buf) ==
  LET a == Attempt(sched, s)
      tears == a.fails /\ TearsOn(sched, buf)
  IN  [io |-> a.io, tears |-> tears,
       buf |-> IF tears THEN TornBuffer(buf) ELSE buf,
       stops |-> a.fails /\ ~ tears, out |-> Err(a.io, "injected")]

ChaosLeave(entered, o) == IF entered.tears THEN Torn(o) ELSE o

(* The possible outcomes of ChaosWriter::write and of ChaosReader::read.   *)
ChaosWrite(sched, s, buf) ==
  LET e == ChaosEnter(sched, s, buf)
  IN  IF e.stops THEN {e.out}
                 ELSE { ChaosLeave(e, o) : o \in InnerWrite(e.io, e.buf) }

ChaosRead(sched, s, want) ==
  LET a == Attempt(sched, s)
  IN  IF a.fails THEN { Err(a.io, "injected") } ELSE InnerRead(a.io, want)

-----------------------------------------------------------------------------
(* For the properties of the writers, where a byte is the number of the    *)
(* place it has among all bytes handed over.                               *)

(* The bytes of s are in the order they were handed over, each of them     *)
(* once.                                                                   *)
Ordered(s) == \A i, j \in 1..Len(s) : i < j => s[i] < s[j]

(* The byte b, or every byte of t, is in s.                                *)
Holds(s, b) == \E i \in 1..Len(s) : s[i] = b
HoldsAll(s, t) == \A i \in 1..Len(t) : Holds(s, t[i])
=============================================================================
