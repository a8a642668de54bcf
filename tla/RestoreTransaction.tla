---------------------------- MODULE RestoreTransaction ----------------------------
(***************************************************************************)
(* What a restore of a backup set promises (docs/storage-recovery.md, "Be- *)
(* fore the host creates a volume, the client reserves every logical name" *)
(* and "writes new local backend bindings only after host success"): the   *)
(* names are taken one by one, but nothing is staged before all of them    *)
(* are, none is given back as a profile before all volumes are there, and  *)
(* none is let go while anything is staged.                                *)
(***************************************************************************)
CONSTANT SetProfiles

VARIABLES
  status,  \* what a name is to the clients
  data     \* what the destination host has for it

tvars == <<status, data>>

Init ==
  /\ status = [f \in SetProfiles |-> "free"]
  /\ data = [f \in SetProfiles |-> "none"]

Becomes(f, from, to) == status[f] \in from /\ status' = [status EXCEPT ![f] = to]
Turns(f, from, to) == data[f] = from /\ data' = [data EXCEPT ![f] = to]

Use(f) == Becomes(f, {"free"}, "used") /\ UNCHANGED data
Reserve(f) == Becomes(f, {"free"}, "pending") /\ UNCHANGED data

Stage(f) ==
  /\ \A g \in SetProfiles : status[g] \in {"pending", "restored"}
  /\ Turns(f, "none", "staged")
  /\ UNCHANGED status

Publish(f) == status[f] = "pending" /\ Turns(f, "staged", "published") /\ UNCHANGED status
Discard(f) == status[f] = "pending" /\ Turns(f, "staged", "none") /\ UNCHANGED status

Restore(f) ==
  /\ \A g \in SetProfiles : data[g] = "published"
  /\ Becomes(f, {"pending"}, "restored")
  /\ UNCHANGED data

Release(f) ==
  /\ \A g \in SetProfiles : data[g] = "none"
  /\ Becomes(f, {"pending"}, "free")
  /\ UNCHANGED data

Next == \E f \in SetProfiles :
  Use(f) \/ Reserve(f) \/ Stage(f) \/ Publish(f) \/ Discard(f) \/ Restore(f) \/ Release(f)

Spec == Init /\ [][Next]_tvars
================================================================================
