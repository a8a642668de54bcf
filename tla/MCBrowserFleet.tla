----------------------------- MODULE MCBrowserFleet -----------------------------
(* Model-checking instances of BrowserFleet: a profile that is only created   *)
(* and destroyed, and one that is deleted as well.                            *)
EXTENDS BrowserFleet, TLC

FleetSymmetry == Permutations(Procs) \cup Permutations(Backends) \cup Permutations(Names)
================================================================================
