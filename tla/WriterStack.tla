----------------------------- MODULE WriterStack -----------------------------
(***************************************************************************)
(* A client that writes to a file through ChaosWriter, CrashWriter or one  *)
(* of them over the other, flushes it, and may at any time lose the writer *)
(* and reopen the file.  The file and write_all belong to std.             *)
(*                                                                         *)
(* The bytes of all chunks are numbered in the order the client hands them *)
(* over, so that a byte names the place it came from.                      *)
(***************************************************************************)
EXTENDS ChaosIO

CONSTANTS
  Setups,     \* the writers that may be built: [stack, sched, after]
  MaxChunk,   \* bound on the length of a chunk
  MaxCalls,   \* bound on the calls of write, write_all and flush
  MaxWrites,  \* bound on the calls of Write::write they amount to
  MaxOpens    \* bound on the times the file is opened again

(* The wrappers, outermost first.                                          *)
Stacks == { <<"chaos">>, <<"crash">>, <<"chaos", "crash">>, <<"crash", "chaos">> }

ASSUME BoundsAssumption ==
  MaxChunk \in Nat /\ MaxCalls \in Nat /\ MaxWrites \in Nat
ASSUME SetupsAssumption ==
  \A s \in Setups : /\ s.stack \in Stacks
                    /\ s.sched.mode \in Modes
                    /\ s.sched.limit \in Nat \cup {NoLimit}
                    /\ s.after \in Nat

VARIABLES
  setup,   \* how the writer is built; never changes
  io,      \* the file and the fields of the wrappers:
           \*   sink      bytes written to the file
           \*   flushed   how many of them a crash cannot lose
           \*   attempt   ChaosWriter::attempt
           \*   failures  increments of FailureSchedule::failures
           \*   written   CrashWriter::written
  pc,      \* "idle", or "write" / "write_all" during a call of the client
  chunk,   \* the argument of the client's last call
  rest,    \* the part of it still to be written
  result,  \* how the client's last call ended: "err", or what succeeded
  (* History variables.                                                    *)
  bytes,   \* bytes handed over so far
  acked,   \* bytes in the file that an Ok accounted for
  safe,    \* those among them that were there at the last Ok of a flush
  base,    \* length of the file when the writer was built
  before,  \* failures injected in this file by earlier writers
  calls, writes, opens,
  errs,    \* calls of write on this writer that returned an error,
  injected \*   and those that returned the schedule's own error

vars == <<setup, io, pc, chunk, rest, result, bytes, acked, safe, base, before,
          calls, writes, opens, errs, injected>>

FreshWriter(sink, flushed) ==
  [sink |-> sink, flushed |-> flushed, attempt |-> 0, failures |-> 0, written |-> 0]

Init ==
  /\ setup \in Setups
  /\ io = FreshWriter(<<>>, 0)
  /\ pc = "idle" /\ chunk = <<>> /\ rest = <<>> /\ result = "none"
  /\ bytes = 0 /\ acked = <<>> /\ safe = <<>> /\ base = 0 /\ before = 0
  /\ calls = 0 /\ writes = 0 /\ opens = 0
  /\ errs = 0 /\ injected = 0

-----------------------------------------------------------------------------
(* Write::write of CrashWriter, and of a stack: the set of possible        *)
(* outcomes of a call.                                                     *)

(* Mutants: what was written before is not deducted; > instead of >=.      *)
LetThroughAll(s, buf) == IF setup.after < Len(buf) THEN setup.after ELSE Len(buf)
CrashedLate(s) == s.written > setup.after

(* The number of bytes of buf that fit before the crash point.             *)
LetThrough(s, buf) ==
  IF setup.after - s.written < Len(buf) THEN setup.after - s.written ELSE Len(buf)

Crashed(s) == s.written >= setup.after

(* CrashWriter::write up to the inner write, if it comes to one.           *)
CrashEnter(s, buf) ==
  [io |-> s, buf |-> Prefix(buf, LetThrough(s, buf)),
   stops |-> Crashed(s) \/ buf = <<>>,
   out |-> IF Crashed(s) THEN Err(s, "crash") ELSE Ok(s, 0)]

(* bytes_written(): what passed through to the inner writer.               *)
BytesWritten(s) == s.written

CrashLeave(o) == [o EXCEPT !.io.written = @ + o.n]

Enter(wrapper, s, buf) ==
  IF wrapper = "chaos" THEN ChaosEnter(setup.sched, s, buf) ELSE CrashEnter(s, buf)
Leave(wrapper, entered, o) ==
  IF wrapper = "chaos" THEN ChaosLeave(entered, o) ELSE CrashLeave(o)

(* The write of a wrapper over the file, and of one over another.          *)
WriteOnFile(wrapper, s, buf) ==
  LET e == Enter(wrapper, s, buf)
  IN  IF e.stops THEN {e.out}
                 ELSE { Leave(wrapper, e, o) : o \in InnerWrite(e.io, e.buf) }

WriteOnWriter(outer, inner, s, buf) ==
  LET e == Enter(outer, s, buf)
  IN  IF e.stops THEN {e.out}
                 ELSE { Leave(outer, e, o) : o \in WriteOnFile(inner, e.io, e.buf) }

StackWrite(s, buf) ==
  IF Len(setup.stack) = 1
  THEN WriteOnFile(setup.stack[1], s, buf)
  ELSE WriteOnWriter(setup.stack[1], setup.stack[2], s, buf)

-----------------------------------------------------------------------------
(* The client calls write or write_all with the next n bytes; write_all of *)
(* an empty buffer calls nothing.                                          *)
Call(kind, n) ==
  /\ pc = "idle"
  /\ calls < MaxCalls
  /\ kind = "write_all" => n > 0
  /\ pc' = kind
  /\ chunk' = [i \in 1..n |-> bytes + i]
  /\ rest' = chunk'
  /\ bytes' = bytes + n
  /\ calls' = calls + 1
  /\ result' = "none"
  /\ UNCHANGED <<setup, io, acked, safe, base, before, writes, opens, errs, injected>>

(* How write_all goes on after a write: with what is left of the buffer,   *)
(* or not at all.  A write that takes no byte is an error of its own, and  *)
(* an interrupted one is tried again.                                      *)
GoesOn(o) ==
  /\ pc = "write_all"
  /\ \/ o.err = "none" /\ 0 < o.n /\ o.n < Len(rest)
     \/ ErrorKind(setup.sched, o.err) = "interrupted"

Succeeds(o) == o.err = "none" /\ (pc = "write_all" => o.n = Len(rest))

(* One call of Write::write on the outermost wrapper.                      *)
Write ==
  /\ pc # "idle"
  /\ writes < MaxWrites
  /\ writes' = writes + 1
  /\ \E o \in StackWrite(io, rest) :
       /\ io' = o.io
       /\ acked' = acked \o Prefix(rest, o.n)
       /\ errs' = IF o.err = "none" THEN errs ELSE errs + 1
       /\ injected' = IF o.err = "injected" THEN injected + 1 ELSE injected
       /\ IF GoesOn(o)
          THEN /\ rest' = Suffix(rest, Len(rest) - o.n)
               /\ UNCHANGED <<pc, result>>
          ELSE /\ rest' = <<>>
               /\ pc' = "idle"
               /\ result' = IF Succeeds(o) THEN pc ELSE "err"
  /\ UNCHANGED <<setup, chunk, bytes, safe, base, before, calls, opens>>

(* Mutant: flush has nothing to do, as the wrapper holds no bytes.         *)
FlushOfNothing(s) == { Ok(s, 0) }

(* Both wrappers pass flush on, on either side of the crash point.         *)
StackFlush(s) == InnerFlush(s)

(* The client calls flush.                                                 *)
Flush ==
  /\ pc = "idle"
  /\ calls < MaxCalls
  /\ calls' = calls + 1
  /\ \E o \in StackFlush(io) :
       /\ io' = o.io
       /\ safe' = IF o.err = "none" THEN acked ELSE safe
       /\ result' = IF o.err = "none" THEN "flush" ELSE "err"
  /\ UNCHANGED <<setup, pc, chunk, rest, bytes, acked, base, before, writes,
                 opens, errs, injected>>

(* A new writer is built over a file that holds these bytes.               *)
Open(sink, flushed) ==
  /\ opens < MaxOpens
  /\ opens' = opens + 1
  /\ io' = FreshWriter(sink, flushed)
  /\ base' = Len(sink)
  /\ pc' = "idle" /\ chunk' = <<>> /\ rest' = <<>> /\ result' = "none"
  /\ errs' = 0 /\ injected' = 0
  /\ UNCHANGED <<setup, bytes, calls, writes>>

(* The bytes of s up to the first one that is not in the file any more.    *)
Survivors(s, sink) ==
  Prefix(s, CHOOSE n \in 0..Len(s) :
              \A i \in 1..Len(s) : i <= n <=> Holds(sink, s[i]))

(* The writer is lost, possibly in the middle of a call, and with it any   *)
(* bytes that were not flushed; the file is opened again for appending.    *)
Reopen ==
  /\ \E n \in io.flushed..Len(io.sink) : Open(Prefix(io.sink, n), n)
  /\ before' = before + FailureCount(setup.sched.limit, io.failures)
  /\ acked' = Survivors(acked, io'.sink)
  /\ UNCHANGED safe

(* The file is taken out of the writer and wrapped anew.                   *)
IntoInner ==
  /\ pc = "idle"
  /\ Open(io.sink, io.flushed)
  /\ before' = before + FailureCount(setup.sched.limit, io.failures)
  /\ UNCHANGED <<acked, safe>>

(* The writer is lost and the file created anew.                           *)
Recreate ==
  /\ Open(<<>>, 0)
  /\ before' = 0
  /\ acked' = <<>> /\ safe' = <<>>

Next ==
  \/ \E kind \in {"write", "write_all"}, n \in 0..MaxChunk : Call(kind, n)
  \/ Write
  \/ Flush
  \/ Reopen
  \/ IntoInner
  \/ Recreate

Spec == Init /\ [][Next]_vars
-----------------------------------------------------------------------------
(* Properties.                                                             *)

Bytes == 1..(MaxCalls * MaxChunk)

TypeOK ==
  /\ setup \in Setups
  /\ io \in [sink : Seq(Bytes), flushed : Nat, attempt : 0..MaxWrites,
             failures : 0..MaxWrites, written : 0..setup.after]
  /\ io.flushed <= Len(io.sink)
  /\ pc \in {"idle", "write", "write_all"}
  /\ {chunk, rest, acked, safe} \subseteq Seq(Bytes)
  /\ result \in {"none", "write", "write_all", "flush", "err"}
  /\ base \in 0..Len(io.sink)
  /\ {bytes, before, calls, writes, opens, errs, injected} \subseteq Nat

Failures == FailureCount(setup.sched.limit, io.failures)
Tears == setup.stack # <<"crash">> /\ setup.sched.mode = "partial_write"

(* The file holds what the caller was told it holds, in order and no byte  *)
(* twice, plus at most one byte for every partial write injected, and      *)
(* nothing more in any other mode: also after short writes, errors of the  *)
(* device, retries by write_all and reopening (ChaosWriter::write,         *)
(* CrashWriter::write).                                                    *)
SinkReconstructable ==
  /\ Ordered(io.sink) /\ Ordered(acked) /\ HoldsAll(io.sink, acked)
  /\ Len(io.sink) - Len(acked) <= IF Tears THEN before + Failures ELSE 0

(* A write_all that reports success has put its whole buffer at the end of *)
(* the file in one piece: no injected failure, crash point or retry left   *)
(* a hole or a torn copy in it (ChaosWriter::write, CrashWriter::write).   *)
WriteAllComplete ==
  result = "write_all" => chunk = Suffix(io.sink, Len(chunk))

(* A failure the schedule counts is never hidden by the wrapper: the call  *)
(* it was injected in returned an error, the schedule's own one unless the *)
(* torn byte met an error of the inner writer (ChaosWriter::write).        *)
InjectedFailuresSurface ==
  /\ injected <= Failures /\ Failures <= errs
  /\ ~ Tears => Failures = injected

(* What was in the file when a flush succeeded is never lost again, in     *)
(* whatever stack, and however the writer is lost, until the file is       *)
(* created anew (ChaosWriter::flush, CrashWriter::flush).                  *)
FlushedBytesSurvive ==
  Len(safe) <= Len(acked) /\ Prefix(acked, Len(safe)) = safe

(* An injected failure ends the call it is injected in with an error: its  *)
(* ErrorKind is none that write_all would retry, whatever the mode         *)
(* (to_io_kind, From<InjectedFailure>).                                    *)
InjectedFailureEndsCall ==
  [][injected' > injected => pc' = "idle" /\ result' = "err"]_vars

(* At the crash point the bytes let through by the CrashWriter are those   *)
(* counted; only a torn byte written by a ChaosWriter underneath can reach *)
(* the file uncounted (CrashWriter::write).                                *)
CrashTruncates ==
  setup.stack # <<"chaos">> =>
    LET uncounted == Len(io.sink) - base - BytesWritten(io)
    IN  /\ BytesWritten(io) <= setup.after
        /\ 0 <= uncounted
        /\ uncounted <= IF Tears /\ setup.stack = <<"crash", "chaos">>
                          THEN Failures ELSE 0

(* Past the crash point no call of write succeeds or changes the file, the *)
(* empty write included, until it is reopened (CrashWriter::write).        *)
CrashIsFinal ==
  [][setup.stack # <<"chaos">> /\ io.written >= setup.after /\ writes' # writes
       => io'.sink = io.sink /\ errs' = errs + 1]_vars

(* `the underlying writer receives at most N bytes cumulatively' (REPS     *)
(* section 7, of CrashPoint::after_byte(N).wrap).                          *)
AtMostAfterBytes ==
  setup.stack # <<"chaos">> => Len(io.sink) - base <= setup.after

(* `PartialWrite MUST emit exactly one byte (when the caller asked for at  *)
(* least one byte) before returning the error' (REPS section 5, of         *)
(* ChaosWriter::write): the step that injects one makes the file longer by *)
(* one byte.                                                               *)
PartialWriteEmitsOneByte ==
  [][(setup.stack = <<"chaos">> /\ Tears /\ injected' = injected + 1 /\ rest # <<>>)
       => Len(io'.sink) = Len(io.sink) + 1]_vars
=============================================================================
