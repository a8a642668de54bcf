------------------------------ MODULE MCRestores ------------------------------
(* The two ways to restore a backup set, for one run: onto the machine that   *)
(* still has its own receipts (RestoreReservation), and after its host was    *)
(* lost, where stale receipts are retired first (Reconciliation).  A set is   *)
(* restored in one of the two ways, and a behaviour takes one of them.        *)
EXTENDS RestoreReservation, Reconciliation, TLC

CONSTANTS f1, f2, main, demo

VARIABLE part

TwoNames == <<f1, f2>>
TwoSpaces == <<main, demo>>
Interchangeable == Permutations(Clients)

\* Where the profiles are bound before the restore, and whether their targets have a receipt:
\* one in a namespace that is not the primary one, and one that has no home.
Elsewhere == [homes |-> {demo}, receipt |-> 0]
Nowhere == [homes |-> {}, receipt |-> Nothing]
Starts == {f1 :> Elsewhere @@ f2 :> Nowhere}

(* The part that a behaviour does not take has one initial state.             *)
MCInit ==
  /\ part \in {"ordinary", "lost"}
  /\ RestoreInit /\ LostInit
  /\ part = "ordinary" => planned = Nothing

MCNext ==
  \/ part = "ordinary" /\ RestoreNext /\ UNCHANGED <<part, lostVars>>
  \/ part = "lost" /\ LostNext /\ UNCHANGED <<part, all>>

MCSpec == MCInit /\ [][MCNext]_<<part, all, lostVars>>
===============================================================================
