--------------------------- MODULE MemoryPressure ---------------------------
(***************************************************************************)
(* MemoryPressure::allocate and the loop of touch_pages, which writes one  *)
(* byte in every STRIDE of the buffer.  The allocator chooses the address  *)
(* of the buffer, and the operating system the size of its pages; a page   *)
(* of fresh zeroed memory is resident only once a byte of it is written.   *)
(***************************************************************************)
EXTENDS Usize

CONSTANTS
  STRIDE,      \* 4096 in the code
  Kib,         \* 1024 in the code
  PageSizes,   \* page sizes the system may have
  Addresses,   \* addresses the allocator may choose
  Sizes        \* numbers of bytes, KiB or MiB to ask for

ASSUME MemoryAssumption ==
  /\ STRIDE \in Nat \ {0} /\ Kib \in Nat \ {0}
  /\ 2 * STRIDE <= UsizeMax
  /\ PageSizes \subseteq Nat \ {0}
  /\ Addresses \subseteq Nat /\ Sizes \subseteq 0..UsizeMax

Mib == Kib * Kib

VARIABLES
  page,      \* size of a page
  address,   \* address of the buffer
  len,       \* its length, which is also size_bytes
  asked,     \* history: the number of bytes the caller asked for, exactly
  pc,        \* "start", "touching", "done" (the guard is held) or "refused"
  filled,    \* has every byte been written already?
  i,         \* index of the next byte to write
  written    \* indices of the bytes written

buffer == <<len, asked, filled, i, written>>
vars == <<page, address, buffer, pc>>

(* The most bytes an allocation may have.                                  *)
IsizeMax == UsizeMax \div 2

Init ==
  /\ page \in PageSizes /\ address \in Addresses
  /\ len = 0 /\ asked = 0 /\ pc = "start" /\ filled = FALSE
  /\ i = 0 /\ written = {}

(* A Vec of more than IsizeMax bytes does not exist: allocate panics, and  *)
(* try_allocate reports an error.                                          *)
Reserve(size, exact) ==
  /\ pc = "start"
  /\ size <= IsizeMax
  /\ address' \in Addresses
  /\ len' = size
  /\ asked' = exact
  /\ pc' = "touching"
  /\ UNCHANGED <<page, i, written>>

(* Mutant: a product that wraps around.                                    *)
WrappingMul(x, y) == Wrap(x * y)

SaturatingMul(x, y) == IF x * y <= UsizeMax THEN x * y ELSE UsizeMax

(* vec![0; size] asks for zeroed memory; the process ends if there is none.*)
Zeroed(size, exact) == Reserve(size, exact) /\ UNCHANGED filled

Allocate(size) == Zeroed(size, size)
AllocateKib(kib) == Zeroed(SaturatingMul(kib, Kib), kib * Kib)
AllocateMib(mib) == Zeroed(SaturatingMul(mib, Mib), mib * Mib)

(* try_allocate: no memory is an error; resize writes every byte.          *)
TryAllocate(size) ==
  \/ Reserve(size, size) /\ filled' = TRUE
  \/ /\ pc = "start"
     /\ pc' = "refused"
     /\ UNCHANGED <<page, address, buffer>>

(* The guard is dropped, and its Vec with it; or, after an error, the      *)
(* caller asks again.                                                      *)
Drop ==
  /\ pc \in {"done", "refused"}
  /\ pc' = "start"
  /\ len' = 0 /\ asked' = 0 /\ filled' = FALSE /\ i' = 0 /\ written' = {}
  /\ UNCHANGED <<page, address>>

(* Mutants: the last stride is left out; the byte past the end is written. *)
TestAhead == i + STRIDE < len
TestPastEnd == i <= len

(* while i < bytes.len()                                                   *)
InBounds == i < len

Touch ==
  /\ pc = "touching"
  /\ InBounds
  /\ written' = written \cup {i}
  /\ i' = Wrap(i + STRIDE)
  /\ UNCHANGED <<page, address, len, asked, pc, filled>>

Finish ==
  /\ pc = "touching"
  /\ ~ InBounds
  /\ pc' = "done"
  /\ UNCHANGED <<page, address, buffer>>

(* size_bytes() of the guard.                                              *)
SizeBytes == len

Next ==
  \/ \E s \in Sizes :
       Allocate(s) \/ AllocateKib(s) \/ AllocateMib(s) \/ TryAllocate(s)
  \/ Touch
  \/ Finish
  \/ Drop

Spec == Init /\ [][Next]_vars
-----------------------------------------------------------------------------
(* Properties.                                                             *)

PageOf(k) == (address + k) \div page
Pages == { PageOf(k) : k \in 0..(len - 1) }
Resident == IF filled THEN Pages ELSE { PageOf(k) : k \in written }

(* The unsafe write of touch_pages stays inside the buffer, and no index   *)
(* is missed or reached twice by a sum that wraps around.                  *)
WritesInBounds ==
  /\ written \subseteq { k \in 0..(len - 1) : k % STRIDE = 0 }
  /\ pc = "touching" => written = { k \in 0..(i - 1) : k % STRIDE = 0 }

(* With pages no smaller than the stride every page of the allocation is   *)
(* resident in the end, except possibly the last one (touch_pages).        *)
AllButLastPageResident ==
  (pc = "done" /\ page >= STRIDE) =>
    \A p \in Pages \ Resident : \A q \in Pages : q <= p

(* A guard holds as many bytes as were asked for, whatever the unit: a     *)
(* product above usize is refused and never becomes a small allocation     *)
(* (allocate_kib, allocate_mib, size_bytes).                               *)
HoldsWhatWasAsked == pc = "done" => SizeBytes = asked
=============================================================================
