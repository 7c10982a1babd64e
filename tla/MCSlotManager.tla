---------------------------- MODULE MCSlotManager ----------------------------
(* A slot manager of three slots shared by two device threads.             *)
EXTENDS SlotManager, TLC

(* Device threads are interchangeable.                                     *)
ThreadSymmetry == Permutations(Threads)
=============================================================================
