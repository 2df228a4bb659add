-------------------------- MODULE MCMemoryPressure --------------------------
(* Instances of MemoryPressure for TLC.                                    *)
EXTENDS MemoryPressure
=============================================================================
