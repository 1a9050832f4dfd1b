----------------------------- MODULE MCSpinlock -----------------------------
(* Spinlock for TLC: CPUs are interchangeable, so states that differ only  *)
(* by a renaming of CPUs are checked once.                                 *)
EXTENDS Spinlock, TLC

CPUSymmetry == Permutations(CPUs)
=============================================================================
