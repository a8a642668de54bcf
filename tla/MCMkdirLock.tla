------------------------------ MODULE MCMkdirLock ------------------------------
(* Model-checking instances of MkdirLock: three CLI processes. *)
EXTENDS MkdirLock, TLC

ProcSymmetry == Permutations(Procs)
================================================================================
