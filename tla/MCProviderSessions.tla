--------------------------- MODULE MCProviderSessions ---------------------------
(* Model-checking instances of ProviderSessions. *)
EXTENDS ProviderSessions, TLC

CONSTANTS s1, s2, f1, f2, f3

\* Each session's own name, distinct from the saved profile f3; and a session
\* whose own name is a profile that another task may choose.
DistinctNames == s1 :> f1 @@ s2 :> f2
OneSharedName == s1 :> f3 @@ s2 :> f2

SessionSymmetry == Permutations(Procs) \cup Permutations(Backends)
                   \cup Permutations(Tokens) \cup Permutations(Leases)
================================================================================
