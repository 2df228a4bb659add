------------------------------- MODULE Usize --------------------------------
(***************************************************************************)
(* The usize of the platform, of any width.                                *)
(***************************************************************************)
EXTENDS Integers

CONSTANT UsizeMax   \* the largest usize; arithmetic wraps past it

ASSUME UsizeMaxAssumption == UsizeMax \in Nat

(* Mutant: a type half as wide.                                            *)
NarrowWrap(k) == k % ((UsizeMax + 1) \div 2)

(* The usize that stands for the number k: the value of an AtomicUsize     *)
(* after k increments.                                                     *)
Wrap(k) == k % (UsizeMax + 1)
=============================================================================
