-------------------------- MODULE BrowserFleet_proofs --------------------------
(***************************************************************************)
(* Proofs about BrowserFleet, for every set of processes, profiles,        *)
(* backends and names, and about RestoreReservation, which adds the        *)
(* restore of a backup set to it, for every set.                           *)
(***************************************************************************)
EXTENDS RestoreReservation, FiniteSetTheorems, TLAPS

(***************************************************************************)
(* What the locals of an operation hold at each of its locations.          *)
(***************************************************************************)
Placing == {"ensure", "place", "run", "record", "await"}
Deleting == {"removeProfile", "deleteBinding"}
OnProfile == Placing \cup Deleting \cup {"bind"}
OnBackend == OnProfile \cup {"remove", "unrecord", "unbind"}
OnName == {"run", "record", "await", "remove", "unrecord", "unbind"}

LocalOK(l, j) ==
  /\ l \in OnBackend \cup {"idle"}
  /\ j \in Job({"idle"})
  /\ l \in OnProfile \cup {"unbind"} => j.profile \in Profiles
  /\ l \in OnBackend => j.backend \in Backends
  /\ l \in OnName => j.name \in AllNames
  /\ l \in Deleting => j.profile \in CliDeletes

JobOK == \A p \in Procs : LocalOK(at[p], job[p])

TypeInv == TypeOK /\ JobOK

(***************************************************************************)
(* Types, and the locals each location reads, are kept by every step.  A   *)
(* step of one process needs only that process's own locals, so the same   *)
(* lemmas serve the processes that restore a backup set beside it.         *)
(***************************************************************************)
Typed(p) == /\ FleetTypeOK
            /\ at = [q \in Procs |-> at[q]]
            /\ job = [q \in Procs |-> job[q]]
            /\ LocalOK(at[p], job[p])

Moved(p, l, j) == at' = [at EXCEPT ![p] = l] /\ job' = [job EXCEPT ![p] = j]
GoesOn(p) == \E l, j : LocalOK(l, j) /\ Moved(p, l, j)

\* A process that keeps its locals.
LEMMA Goes ==
  ASSUME NEW p \in Procs, Typed(p), NEW l, LocalOK(l, job[p]), Goto(p, l), UNCHANGED job
  PROVE  GoesOn(p)
<1>1. job' = [job EXCEPT ![p] = job[p]]
  BY DEF Typed
<1> QED
  BY <1>1 DEF Goto, GoesOn, Moved

LEMMA IdleOK == LocalOK("idle", NoJob)
BY DEF LocalOK, NoJob, NewJob, Job, Ops, OnBackend, OnProfile, OnName, Placing, Deleting

\* A new operation has the locals it was given.
LEMMA NewJobs ==
  ASSUME NEW op \in Ops, NEW f \in Profiles \cup {None}, NEW n \in AllNames \cup {None}
  PROVE  /\ NewJob(op, f, n) \in Job({"idle"})
         /\ NewJob(op, f, n).op = op
         /\ NewJob(op, f, n).profile = f
         /\ NewJob(op, f, n).name = n
BY DEF NewJob, Job

\* The operations of the command line return to no caller.
LEMMA Returns ==
  ASSUME NEW p \in Procs, Typed(p), Return(p)
  PROVE  Moved(p, "idle", NoJob) /\ GoesOn(p)
<1>1. job[p].next = "idle"
  BY DEF Typed, LocalOK, Job
<1>2. Moved(p, "idle", NoJob)
  BY <1>1 DEF Return, Goto, Moved, Typed
<1> QED
  BY <1>2, IdleOK DEF GoesOn

\* create and createProfile begin on a backend.
LEMMA Chooses ==
  ASSUME NEW p \in Procs, FleetTypeOK, NEW j \in Job({"idle"}), j.profile \in Profiles,
         ChooseBackend(p, j)
  PROVE  GoesOn(p)
<1>1. PICK b \in Backends, l \in {"ensure", "bind"} : Call(p, l, [j EXCEPT !.backend = b])
  BY DEF ChooseBackend, FleetTypeOK, Bound, Binding, Receipt, Job
<1>2. LocalOK(l, [j EXCEPT !.backend = b])
  BY DEF LocalOK, Job, OnBackend, OnProfile, OnName, Placing, Deleting
<1> QED
  BY <1>1, <1>2 DEF Call, Goto, GoesOn, Moved

\* The beginnings of the command line's operations.
LEMMA Begins ==
  ASSUME NEW p \in Procs, FleetTypeOK, Begin(p)
  PROVE  GoesOn(p) /\ UNCHANGED fleetVars
<1>1. ASSUME NEW f \in Profiles, NEW n \in Names, BeginCreate(p, f, n)
      PROVE  GoesOn(p) /\ UNCHANGED fleetVars
  <2> DEFINE j == NewJob("create", f, n)
  <2>1. j \in Job({"idle"}) /\ j.profile = f
    BY <1>1, NewJobs DEF Ops, AllNames
  <2>2. ChooseBackend(p, j)
    BY <1>1 DEF BeginCreate
  <2> HIDE DEF j
  <2> QED
    BY <1>1, <2>1, <2>2, Chooses DEF ChooseBackend
<1>2. ASSUME NEW f \in Profiles, BeginCreateProfile(p, f) PROVE GoesOn(p) /\ UNCHANGED fleetVars
  <2> DEFINE j == NewJob("createProfile", f, None)
  <2>1. j \in Job({"idle"}) /\ j.profile = f
    BY <1>2, NewJobs DEF Ops
  <2>2. ChooseBackend(p, j)
    BY <1>2 DEF BeginCreateProfile
  <2> HIDE DEF j
  <2> QED
    BY <1>2, <2>1, <2>2, Chooses DEF ChooseBackend
<1>3. ASSUME NEW n \in AllNames, BeginDestroy(p, n) PROVE GoesOn(p) /\ UNCHANGED fleetVars
  <2> DEFINE j == NewJob("destroy", None, n)
  <2>1. j \in Job({"idle"}) /\ j.name = n
    BY <1>3, NewJobs DEF Ops
  <2>2. FindTarget(p, j)
    BY <1>3 DEF BeginDestroy
  <2> HIDE DEF j
  <2>3. PICK b \in Backends : Call(p, "remove", [j EXCEPT !.backend = b])
    BY <1>3, <2>1, <2>2 DEF FindTarget, FleetTypeOK, Receipt, Container
  <2>4. LocalOK("remove", [j EXCEPT !.backend = b])
    BY <1>3, <2>1 DEF LocalOK, Job, OnBackend, OnProfile, OnName, Placing, Deleting
  <2> QED
    BY <2>2, <2>3, <2>4 DEF Call, Goto, FindTarget, GoesOn, Moved
<1>4. ASSUME NEW f \in Profiles, BeginDeleteProfile(p, f) PROVE GoesOn(p) /\ UNCHANGED fleetVars
  <2> DEFINE j == NewJob("deleteProfile", f, None)
  <2>1. j \in Job({"idle"}) /\ j.profile = f /\ f \in CliDeletes
    BY <1>4, NewJobs DEF Ops, BeginDeleteProfile
  <2>2. ChooseProfile(p, j)
    BY <1>4 DEF BeginDeleteProfile
  <2> HIDE DEF j
  <2>3. PICK b \in Backends :
          Call(p, "removeProfile", [j EXCEPT !.backend = b, !.bound = Bound(f)])
    BY <1>4, <2>1, <2>2 DEF ChooseProfile, HomeOf, Bound, FleetTypeOK, Binding, Volume
  <2>4. LocalOK("removeProfile", [j EXCEPT !.backend = b, !.bound = Bound(f)])
    BY <1>4, <2>1 DEF LocalOK, Job, OnBackend, OnProfile, OnName, Placing, Deleting, Bound
  <2> QED
    BY <2>2, <2>3, <2>4 DEF Call, Goto, ChooseProfile, GoesOn, Moved
<1> QED
  BY <1>1, <1>2, <1>3, <1>4 DEF Begin

LEMMA Places ==
  ASSUME NEW p \in Procs, Typed(p), Place(p)
  PROVE  FleetTypeOK' /\ GoesOn(p)
<1> DEFINE f == job[p].profile
           b == job[p].backend
<1>1. f \in Profiles /\ b \in Backends /\ LocalOK("place", job[p])
  BY DEF Place, Typed, LocalOK, OnBackend, OnProfile, Placing
<1>2. PICK n \in AllNames : /\ EnsureVolume(f, b)
                            /\ job' = [job EXCEPT ![p].name = n]
                            /\ drawn' = IF n \in Tokens THEN drawn \cup {n} ELSE drawn
  BY DEF Place
<1>3. LocalOK("run", [job[p] EXCEPT !.name = n])
  BY <1>1 DEF LocalOK, Job, OnBackend, OnProfile, OnName, Placing, Deleting
<1>4. job' = [job EXCEPT ![p] = [job[p] EXCEPT !.name = n]]
  BY <1>2 DEF Typed
<1>5. GoesOn(p)
  BY <1>3, <1>4 DEF Place, Goto, GoesOn, Moved
<1>6. FleetTypeOK'
  BY <1>1, <1>2 DEF Place, Typed, FleetTypeOK, EnsureVolume, Volume
<1> QED
  BY <1>5, <1>6

LEMMA RemovesContainer ==
  ASSUME NEW p \in Procs, Typed(p), RemoveContainer(p)
  PROVE  FleetTypeOK' /\ GoesOn(p)
<1>1. LocalOK("remove", job[p])
  BY DEF RemoveContainer, Typed
<1>2. PICK f \in Profiles \cup {None} : job' = [job EXCEPT ![p].profile = f]
  <2> DEFINE recorded == targets[job[p].name]
             found == {c \in HeldOn(job[p].backend) : c.name = job[p].name}
             hinted == IF job[p].profile # None THEN {job[p].profile}
                       ELSE IF recorded # None THEN {recorded.profile}
                       ELSE IF found # {} THEN {c.profile : c \in found} ELSE {None}
  <2>1. PICK f \in hinted : job' = [job EXCEPT ![p].profile = f]
    BY DEF RemoveContainer
  <2>2. recorded \in Receipt \cup {None} /\ job[p].profile \in Profiles \cup {None}
    BY <1>1 DEF LocalOK, OnName, Job, Typed, FleetTypeOK
  <2>3. \A c \in found : c.profile \in Profiles
    BY DEF HeldOn, Container, Typed, FleetTypeOK
  <2>4. f \in Profiles \cup {None}
    BY <2>2, <2>3 DEF Receipt
  <2> QED
    BY <2>1, <2>4
<1>3. LocalOK("unrecord", [job[p] EXCEPT !.profile = f])
  BY <1>1 DEF LocalOK, Job, OnBackend, OnProfile, OnName, Placing, Deleting
<1>4. job' = [job EXCEPT ![p] = [job[p] EXCEPT !.profile = f]]
  BY <1>2 DEF Typed
<1>5. GoesOn(p)
  BY <1>3, <1>4 DEF RemoveContainer, Goto, GoesOn, Moved
<1>6. FleetTypeOK'
  BY DEF RemoveContainer, Typed, FleetTypeOK
<1> QED
  BY <1>5, <1>6

LEMMA RemovesTarget ==
  ASSUME NEW p \in Procs, Typed(p), RemoveTarget(p)
  PROVE  FleetTypeOK' /\ GoesOn(p)
<1>1. LocalOK("unrecord", job[p])
  BY DEF RemoveTarget, Typed
<1>2. GoesOn(p)
  <2>1. CASE job[p].profile = None
    BY <2>1, Returns DEF RemoveTarget
  <2>2. CASE job[p].profile # None
    <3>1. LocalOK("unbind", job[p])
      BY <1>1, <2>2 DEF LocalOK, Job, OnBackend, OnProfile, OnName, Placing, Deleting
    <3> QED
      BY <2>2, <3>1, Goes DEF RemoveTarget
  <2> QED
    BY <2>1, <2>2
<1>3. FleetTypeOK'
  BY DEF RemoveTarget, Typed, FleetTypeOK
<1> QED
  BY <1>2, <1>3

LEMMA RemovesProfile ==
  ASSUME NEW p \in Procs, Typed(p), RemoveProfile(p)
  PROVE  FleetTypeOK' /\ GoesOn(p)
<1>1. LocalOK("removeProfile", job[p])
  BY DEF RemoveProfile, Typed
<1>2. GoesOn(p)
  <2>1. CASE job[p].bound
    <3>1. LocalOK("deleteBinding", job[p])
      BY <1>1 DEF LocalOK, OnBackend, OnProfile, OnName, Placing, Deleting
    <3> QED
      BY <2>1, <3>1, Goes DEF RemoveProfile
  <2>2. CASE ~ job[p].bound
    BY <2>2, Returns DEF RemoveProfile
  <2> QED
    BY <2>1, <2>2
<1>3. FleetTypeOK'
  BY DEF RemoveProfile, Typed, FleetTypeOK
<1> QED
  BY <1>2, <1>3

LEMMA BindsProfile ==
  ASSUME NEW p \in Procs, Typed(p), BindProfile(p)
  PROVE  FleetTypeOK' /\ GoesOn(p)
<1> DEFINE l == IF job[p].op = "createProfile" THEN "ensure" ELSE "place"
<1>1. LocalOK("bind", job[p]) /\ LocalOK(l, job[p])
  BY DEF BindProfile, Typed, LocalOK, OnBackend, OnProfile, OnName, Placing, Deleting
<1>2. GoesOn(p)
  BY <1>1, Goes DEF BindProfile
<1>3. FleetTypeOK'
  BY <1>1 DEF BindProfile, BindTo, LocalOK, OnBackend, OnProfile, Typed, FleetTypeOK, Binding
<1> QED
  BY <1>2, <1>3

LEMMA StepsTyped ==
  ASSUME NEW p \in Procs, Typed(p), Step(p)
  PROVE  FleetTypeOK' /\ GoesOn(p)
<1> USE DEF OnBackend, OnProfile, OnName, Placing, Deleting
<1>1. ASSUME EnsureProfile(p) PROVE FleetTypeOK' /\ GoesOn(p)
  <2>1. LocalOK("ensure", job[p])
    BY <1>1 DEF EnsureProfile, Typed
  <2>2. GoesOn(p)
    BY <1>1, Returns DEF EnsureProfile
  <2>3. FleetTypeOK'
    BY <1>1, <2>1 DEF EnsureProfile, EnsureVolume, LocalOK, Typed, FleetTypeOK, Volume
  <2> QED
    BY <2>2, <2>3
<1>2. ASSUME RunBrowser(p) PROVE FleetTypeOK' /\ GoesOn(p)
  <2>1. LocalOK("run", job[p]) /\ LocalOK("record", job[p])
    BY <1>2 DEF RunBrowser, Typed, LocalOK
  <2>2. GoesOn(p)
    BY <1>2, <2>1, Goes DEF RunBrowser
  <2>3. FleetTypeOK'
    BY <1>2, <2>1 DEF RunBrowser, LocalOK, Typed, FleetTypeOK, Container
  <2> QED
    BY <2>2, <2>3
<1>3. ASSUME WriteTarget(p) PROVE FleetTypeOK' /\ GoesOn(p)
  <2>1. LocalOK("record", job[p]) /\ LocalOK("await", job[p])
    BY <1>3 DEF WriteTarget, Typed, LocalOK
  <2>2. GoesOn(p)
    BY <1>3, <2>1, Goes DEF WriteTarget
  <2>3. FleetTypeOK'
    BY <1>3, <2>1 DEF WriteTarget, LocalOK, Typed, FleetTypeOK, Receipt
  <2> QED
    BY <2>2, <2>3
<1>4. ASSUME BindTarget(p) PROVE FleetTypeOK' /\ GoesOn(p)
  <2>1. LocalOK("await", job[p])
    BY <1>4 DEF BindTarget, Typed
  <2>2. GoesOn(p)
    BY <1>4, Returns DEF BindTarget
  <2>3. FleetTypeOK'
    BY <1>4, <2>1 DEF BindTarget, LocalOK, Typed, FleetTypeOK, Binding
  <2> QED
    BY <2>2, <2>3
<1>5. ASSUME ClearTarget(p) PROVE FleetTypeOK' /\ GoesOn(p)
  <2>1. GoesOn(p)
    BY <1>5, Returns DEF ClearTarget
  <2>2. FleetTypeOK'
    BY <1>5 DEF ClearTarget, Typed, FleetTypeOK, Binding
  <2> QED
    BY <2>1, <2>2
<1>6. ASSUME DeleteBinding(p) PROVE FleetTypeOK' /\ GoesOn(p)
  <2>1. GoesOn(p)
    BY <1>6, Returns DEF DeleteBinding
  <2>2. FleetTypeOK'
    BY <1>6 DEF DeleteBinding, Typed, FleetTypeOK
  <2> QED
    BY <2>1, <2>2
<1> QED
  BY <1>1, <1>2, <1>3, <1>4, <1>5, <1>6, BindsProfile, Places, RemovesContainer, RemovesTarget,
     RemovesProfile DEF Step

\* One process moves and the others stay where they are.
LEMMA Moves ==
  ASSUME TypeInv, NEW p \in Procs, GoesOn(p), FleetTypeOK'
  PROVE  TypeInv'
<1>1. PICK l, j : LocalOK(l, j) /\ Moved(p, l, j)
  BY DEF GoesOn
<1>2. j \in Job({"idle"}) /\ l \in Locations
  BY <1>1 DEF LocalOK, Locations, OnBackend, OnProfile, Placing, Deleting, Allocating
<1>3. at' \in [Procs -> Locations] /\ job' \in [Procs -> Job({"idle"})]
  BY <1>1, <1>2 DEF TypeInv, TypeOK, Moved
<1>4. \A q \in Procs : at'[q] = (IF q = p THEN l ELSE at[q]) /\ job'[q] = (IF q = p THEN j ELSE job[q])
  BY <1>1 DEF TypeInv, TypeOK, Moved
<1>5. ASSUME NEW q \in Procs PROVE LocalOK(at'[q], job'[q])
  BY <1>1, <1>4 DEF TypeInv, JobOK
<1> QED
  BY <1>3, <1>5 DEF TypeInv, TypeOK, JobOK, LocalOK

LEMMA TypeStep == TypeInv /\ [Next]_vars => TypeInv'
<1> SUFFICES ASSUME TypeInv, [Next]_vars PROVE TypeInv'
  OBVIOUS
<1>1. \A p \in Procs : Typed(p)
  BY DEF TypeInv, TypeOK, JobOK, Typed
<1>2. ASSUME NEW p \in Procs, Begin(p) PROVE TypeInv'
  BY <1>1, <1>2, Begins, Moves DEF Typed, FleetTypeOK, fleetVars
<1>3. ASSUME NEW p \in Procs, Step(p) PROVE TypeInv'
  BY <1>1, <1>3, StepsTyped, Moves
<1>4. ASSUME NEW p \in Procs, Fail(p) PROVE TypeInv'
  <2>1. GoesOn(p)
    BY <1>4, IdleOK DEF Fail, Call, Goto, GoesOn, Moved
  <2>2. FleetTypeOK'
    BY <1>1, <1>4 DEF Fail, fleetVars, Typed, FleetTypeOK
  <2> QED
    BY <2>1, <2>2, Moves
<1>5. CASE UNCHANGED vars
  BY <1>5 DEF vars, TypeInv, TypeOK, FleetTypeOK, JobOK, LocalOK
<1> QED
  BY <1>2, <1>3, <1>4, <1>5 DEF Next

LEMMA TypeInvariant == Spec => []TypeInv
<1>1. Init => TypeInv
  <2> SUFFICES ASSUME Init PROVE TypeInv
    OBVIOUS
  <2>1. NoJob \in Job({"idle"}) /\ LocalOK("idle", NoJob)
    BY IdleOK DEF LocalOK
  <2>2. TypeOK
    BY <2>1 DEF Init, InitWith, TypeOK, FleetTypeOK, Locations
  <2>3. JobOK
    BY <2>1 DEF Init, InitWith, JobOK
  <2> QED
    BY <2>2, <2>3 DEF TypeInv
<1> QED
  BY <1>1, TypeStep, PTL DEF Spec

\* Bindings, volumes, containers, receipts and locals keep their types.
THEOREM TypeCorrect == Spec => []TypeOK
<1>1. TypeInv => TypeOK
  BY DEF TypeInv
<1> QED
  BY <1>1, TypeInvariant, PTL

--------------------------------------------------------------------------------
(***************************************************************************)
(* MountedOnce and MountedVolumeExists need what the allocation lock gives *)
(* between Place and RunBrowser: nobody else is in a section under it, so  *)
(* what Place checked, and the volume it made sure of, are still there.    *)
(***************************************************************************)
MayRun(p) ==
  /\ [profile |-> job[p].profile, backend |-> job[p].backend] \in volumes
  /\ \A c \in HeldOn(job[p].backend) : c.name = job[p].name <=> c.profile = job[p].profile

AllocExclusive == \A p, q \in Procs : at[p] \in Allocating /\ at[q] \in Allocating => p = q
RunsChecked == \A p \in Procs : at[p] = "run" => MayRun(p)

MountInv == AllocExclusive /\ RunsChecked /\ MountedVolumeExists /\ MountedOnce

(***************************************************************************)
(* SingleHome and BindingIsHome need what an operation that places a       *)
(* profile knows from its binding until it is over, although it let the    *)
(* profile lock go: bindings of profiles that nobody deletes stay.         *)
(***************************************************************************)
Kept == Profiles \ CliDeletes
BoundTo(f, b) == Bound(f) /\ bindings[f].backend = b

PlacesOnHome ==
  \A p \in Procs : at[p] \in Placing /\ job[p].profile \in Kept
                   => BoundTo(job[p].profile, job[p].backend)
VolumesOnHome == \A v \in volumes : v.profile \in Kept => BoundTo(v.profile, v.backend)

HomeInv == PlacesOnHome /\ VolumesOnHome

Alone(p) == \A q \in Procs \ {p} : at'[q] = at[q] /\ job'[q] = job[q]

\* An operation begins with a call, outside the allocation lock.  It is at "ensure" only for a
\* profile whose binding named the backend.
LEMMA BeginsCall ==
  ASSUME TypeInv, NEW p \in Procs, Begin(p)
  PROVE  /\ UNCHANGED fleetVars
         /\ \E l \in {"bind", "ensure", "remove", "removeProfile"} : \E j :
              Call(p, l, j) /\ (l = "ensure" => BoundTo(j.profile, j.backend))
<1>1. UNCHANGED fleetVars
  BY Begins DEF TypeInv, TypeOK
<1>2. ASSUME NEW f \in Profiles, NEW n \in Names, BeginCreate(p, f, n)
      PROVE  \E j : Call(p, "bind", j)
  <2> DEFINE i == NewJob("create", f, n)
  <2>1. i.op = "create"
    BY <1>2, NewJobs DEF Ops, AllNames
  <2>2. ChooseBackend(p, i)
    BY <1>2 DEF BeginCreate
  <2> HIDE DEF i
  <2> QED
    BY <2>1, <2>2 DEF ChooseBackend
<1>3. ASSUME NEW f \in Profiles, BeginCreateProfile(p, f)
      PROVE  \/ \E j : Call(p, "bind", j)
             \/ \E j : Call(p, "ensure", j) /\ BoundTo(j.profile, j.backend)
  <2> DEFINE i == NewJob("createProfile", f, None)
  <2>1. i \in Job({"idle"}) /\ i.op = "createProfile" /\ i.profile = f /\ i.name = None
    BY <1>3, NewJobs DEF Ops
  <2>2. ChooseBackend(p, i)
    BY <1>3 DEF BeginCreateProfile
  <2> HIDE DEF i
  <2>3. CASE Bound(f)
    <3>1. Call(p, "ensure", [i EXCEPT !.backend = bindings[f].backend])
      BY <2>1, <2>2, <2>3 DEF ChooseBackend
    <3>2. BoundTo([i EXCEPT !.backend = bindings[f].backend].profile,
                  [i EXCEPT !.backend = bindings[f].backend].backend)
      BY <2>1, <2>3 DEF BoundTo, Job
    <3> QED
      BY <3>1, <3>2
  <2>4. CASE ~ Bound(f)
    BY <2>1, <2>2, <2>4 DEF ChooseBackend
  <2> QED
    BY <2>3, <2>4
<1>4. ASSUME NEW n \in AllNames, BeginDestroy(p, n) PROVE \E j : Call(p, "remove", j)
  BY <1>4 DEF BeginDestroy, FindTarget
<1>5. ASSUME NEW f \in Profiles, BeginDeleteProfile(p, f) PROVE \E j : Call(p, "removeProfile", j)
  BY <1>5 DEF BeginDeleteProfile, ChooseProfile
<1> QED
  BY <1>1, <1>2, <1>3, <1>4, <1>5 DEF Begin

\* A step of one process leaves the others where they are.
LEMMA StepsAlone ==
  ASSUME TypeInv, NEW p \in Procs, Begin(p) \/ Step(p) \/ Fail(p)
  PROVE  Alone(p)
<1> USE DEF Alone, TypeInv, TypeOK, Goto, Call, Return
<1>1. ASSUME Begin(p) PROVE Alone(p)
  BY <1>1, BeginsCall
<1>2. ASSUME Step(p) PROVE Alone(p)
  <2>1. ASSUME BindProfile(p) \/ RunBrowser(p) \/ WriteTarget(p) PROVE Alone(p)
    BY <2>1 DEF BindProfile, RunBrowser, WriteTarget
  <2>2. ASSUME EnsureProfile(p) \/ BindTarget(p) \/ ClearTarget(p) \/ DeleteBinding(p) PROVE Alone(p)
    BY <2>2 DEF EnsureProfile, BindTarget, ClearTarget, DeleteBinding
  <2>3. ASSUME Place(p) PROVE Alone(p)
    BY <2>3 DEF Place
  <2>4. ASSUME RemoveContainer(p) PROVE Alone(p)
    BY <2>4 DEF RemoveContainer
  <2>5. ASSUME RemoveTarget(p) \/ RemoveProfile(p) PROVE Alone(p)
    BY <2>5 DEF RemoveTarget, RemoveProfile
  <2> QED
    BY <1>2, <2>1, <2>2, <2>3, <2>4, <2>5 DEF Step
<1>3. ASSUME Fail(p) PROVE Alone(p)
  BY <1>3 DEF Fail
<1> QED
  BY <1>1, <1>2, <1>3

\* A step that adds no container, removes no volume and does not enter the lock keeps MountInv.
LEMMA MountKept ==
  ASSUME TypeInv, MountInv, NEW p \in Procs, Alone(p), at'[p] \notin Allocating,
         containers' \subseteq containers, volumes \subseteq volumes'
  PROVE  MountInv'
<1>1. AllocExclusive'
  BY DEF MountInv, AllocExclusive, Alone
<1>2. RunsChecked'
  <2> SUFFICES ASSUME NEW q \in Procs, at'[q] = "run" PROVE MayRun(q)'
    BY DEF RunsChecked
  <2>1. q # p /\ at[q] = "run" /\ job'[q] = job[q]
    BY DEF Alone, Allocating
  <2> QED
    BY <2>1 DEF MountInv, RunsChecked, MayRun, HeldOn
<1>3. MountedVolumeExists' /\ MountedOnce'
  BY DEF MountInv, MountedVolumeExists, MountedOnce
<1> QED
  BY <1>1, <1>2, <1>3 DEF MountInv

LEMMA MountStep == TypeInv /\ MountInv /\ [Next]_vars => MountInv'
<1> SUFFICES ASSUME TypeInv, MountInv, [Next]_vars PROVE MountInv'
  OBVIOUS
<1>1. ASSUME NEW p \in Procs, Alone(p), Begin(p) \/ Fail(p) PROVE MountInv'
  <2>1. at'[p] \notin Allocating /\ UNCHANGED fleetVars
    <3>1. CASE Begin(p)
      BY <3>1, BeginsCall DEF Call, Goto, Allocating, TypeInv, TypeOK
    <3>2. CASE Fail(p)
      BY <3>2 DEF Fail, Call, Goto, Allocating, TypeInv, TypeOK
    <3> QED
      BY <1>1, <3>1, <3>2
  <2> QED
    BY <1>1, <2>1, MountKept DEF fleetVars
<1>2. ASSUME NEW p \in Procs, Alone(p),
             \/ BindProfile(p) \/ EnsureProfile(p) \/ WriteTarget(p) \/ BindTarget(p)
             \/ RemoveTarget(p) \/ ClearTarget(p) \/ DeleteBinding(p)
      PROVE  MountInv'
  <2>1. at'[p] \notin Allocating
    BY <1>2 DEF BindProfile, EnsureProfile, WriteTarget, BindTarget, RemoveTarget, ClearTarget,
                DeleteBinding, Return, Goto, Allocating, TypeInv, TypeOK, Job
  <2>2. containers' = containers /\ volumes \subseteq volumes'
    BY <1>2 DEF BindProfile, EnsureProfile, WriteTarget, BindTarget, RemoveTarget, ClearTarget,
                DeleteBinding, EnsureVolume
  <2> QED
    BY <1>2, <2>1, <2>2, MountKept
<1>3. ASSUME NEW p \in Procs, Alone(p), Place(p) PROVE MountInv'
  <2> DEFINE f == job[p].profile
             b == job[p].backend
  <2>1. PICK n \in AllNames : MayPlace(f, b, n) /\ EnsureVolume(f, b) /\ job' = [job EXCEPT ![p].name = n]
    BY <1>3 DEF Place
  <2>2. job'[p].profile = f /\ job'[p].backend = b /\ job'[p].name = n
    BY <2>1 DEF TypeInv, TypeOK, Job
  <2>3. MayRun(p)'
    BY <1>3, <2>1, <2>2 DEF Place, MayRun, MayPlace, EnsureVolume, HeldOn
  <2>4. \A q \in Procs \ {p} : at'[q] \notin Allocating
    BY <1>3 DEF Place, AllocationFree, Alone
  <2>5. AllocExclusive' /\ RunsChecked'
    BY <2>3, <2>4 DEF AllocExclusive, RunsChecked, Allocating
  <2>6. MountedVolumeExists' /\ MountedOnce'
    BY <1>3, <2>1 DEF Place, EnsureVolume, MountInv, MountedVolumeExists, MountedOnce
  <2> QED
    BY <2>5, <2>6 DEF MountInv
<1>4. ASSUME NEW p \in Procs, Alone(p), RunBrowser(p) PROVE MountInv'
  <2> DEFINE new == [name |-> job[p].name, profile |-> job[p].profile, backend |-> job[p].backend]
  <2>1. MayRun(p) /\ containers' = containers \cup {new} /\ volumes' = volumes
    BY <1>4 DEF RunBrowser, MountInv, RunsChecked
  <2>2. at'[p] = "record" /\ at[p] = "run"
    BY <1>4 DEF RunBrowser, Goto, TypeInv, TypeOK
  <2>3. \A q \in Procs \ {p} : at'[q] \notin Allocating
    BY <1>4, <2>2 DEF MountInv, AllocExclusive, Alone, Allocating
  <2>4. AllocExclusive' /\ RunsChecked'
    BY <2>2, <2>3 DEF AllocExclusive, RunsChecked, Allocating
  <2>5. MountedVolumeExists'
    <3>1. [profile |-> new.profile, backend |-> new.backend] \in volumes
      BY <2>1 DEF MayRun
    <3> HIDE DEF new
    <3> QED
      BY <2>1, <3>1 DEF MountInv, MountedVolumeExists
  <2>6. ASSUME NEW c \in containers, c.profile = new.profile, c.backend = new.backend
        PROVE  c = new
    <3>1. c.name = new.name
      BY <2>1, <2>6 DEF MayRun, HeldOn
    <3>2. c \in Container
      BY DEF TypeInv, TypeOK, FleetTypeOK
    <3> QED
      BY <2>6, <3>1, <3>2 DEF Container
  <2>7. MountedOnce'
    BY <2>1, <2>6 DEF MountInv, MountedOnce
  <2> QED
    BY <2>4, <2>5, <2>7 DEF MountInv
<1>5. ASSUME NEW p \in Procs, Alone(p), RemoveContainer(p) PROVE MountInv'
  <2>1. at'[p] = "unrecord"
    BY <1>5 DEF RemoveContainer, Goto, TypeInv, TypeOK
  <2>2. \A q \in Procs \ {p} : at'[q] \notin Allocating
    BY <1>5 DEF RemoveContainer, AllocationFree, Alone
  <2>3. AllocExclusive' /\ RunsChecked'
    BY <2>1, <2>2 DEF AllocExclusive, RunsChecked, Allocating
  <2>4. containers' \subseteq containers /\ volumes' = volumes
    BY <1>5 DEF RemoveContainer
  <2>5. MountedVolumeExists' /\ MountedOnce'
    BY <2>4 DEF MountInv, MountedVolumeExists, MountedOnce
  <2> QED
    BY <2>3, <2>5 DEF MountInv
<1>6. ASSUME NEW p \in Procs, Alone(p), RemoveProfile(p) PROVE MountInv'
  <2> DEFINE v == [profile |-> job[p].profile, backend |-> job[p].backend]
  <2>1. /\ v \in volumes => \A c \in HeldOn(v.backend) : c.profile # v.profile
        /\ volumes' = volumes \ {v} /\ containers' = containers
    BY <1>6 DEF RemoveProfile
  <2>2. \A q \in Procs : at'[q] \notin Allocating
    BY <1>6 DEF RemoveProfile, AllocationFree, Alone, Return, Goto, TypeInv, TypeOK, Job, Allocating
  <2>3. AllocExclusive' /\ RunsChecked'
    BY <2>2 DEF AllocExclusive, RunsChecked, Allocating
  <2>4. MountedVolumeExists'
    BY <2>1 DEF MountInv, MountedVolumeExists, HeldOn
  <2>5. MountedOnce'
    BY <2>1 DEF MountInv, MountedOnce
  <2> QED
    BY <2>3, <2>4, <2>5 DEF MountInv
<1>7. CASE UNCHANGED vars
  BY <1>7 DEF vars, MountInv, AllocExclusive, RunsChecked, MayRun, HeldOn, MountedVolumeExists, MountedOnce
<1> QED
  BY <1>1, <1>2, <1>3, <1>4, <1>5, <1>6, <1>7, StepsAlone DEF Next, Step

LEMMA MountHolds == Spec => []MountInv
<1>1. Init => MountInv
  BY DEF Init, InitWith, MountInv, AllocExclusive, RunsChecked, MountedVolumeExists, MountedOnce, Allocating
<1> QED
  BY <1>1, TypeInvariant, MountStep, PTL DEF Spec

(***************************************************************************)
(* "attached to at most one VM": for every schedule of creates, destroys   *)
(* and deletes that may fail.                                              *)
(***************************************************************************)
THEOREM MountTheorem == Spec => []MountedOnce
<1>1. MountInv => MountedOnce
  BY DEF MountInv
<1> QED
  BY <1>1, MountHolds, PTL

(***************************************************************************)
(* A container never runs on a volume that a delete took away, though the  *)
(* delete only looked for containers before it: the name it allocated      *)
(* keeps every create off the profile in between.                          *)
(***************************************************************************)
THEOREM VolumeTheorem == Spec => []MountedVolumeExists
<1>1. MountInv => MountedVolumeExists
  BY DEF MountInv
<1> QED
  BY <1>1, MountHolds, PTL

--------------------------------------------------------------------------------
\* A step that keeps the bindings of kept profiles, adds no volume, and does not enter Placing.
LEMMA HomeKept ==
  ASSUME HomeInv, NEW p \in Procs, Alone(p),
         \A f \in Kept : \A b : BoundTo(f, b) => BoundTo(f, b)',
         volumes' \subseteq volumes,
         at'[p] \in Placing /\ job'[p].profile \in Kept
           => BoundTo(job[p].profile, job[p].backend)'
  PROVE  HomeInv'
<1> USE DEF BoundTo, Bound
<1>1. PlacesOnHome'
  <2> SUFFICES ASSUME NEW q \in Procs, at'[q] \in Placing, job'[q].profile \in Kept
               PROVE  BoundTo(job[q].profile, job[q].backend)'
    BY DEF PlacesOnHome, Kept
  <2>1. CASE q = p
    BY <2>1
  <2>2. CASE q # p
    BY <2>2 DEF Alone, HomeInv, PlacesOnHome
  <2> QED
    BY <2>1, <2>2
<1>2. VolumesOnHome'
  BY DEF HomeInv, VolumesOnHome, Kept
<1> QED
  BY <1>1, <1>2 DEF HomeInv

\* ensureProfile adds the volume where the binding has it.
LEMMA HomeEnsured ==
  ASSUME TypeInv, HomeInv, NEW p \in Procs, Alone(p), at[p] \in Placing,
         EnsureVolume(job[p].profile, job[p].backend), UNCHANGED bindings,
         at'[p] \in Placing => job'[p].profile = job[p].profile /\ job'[p].backend = job[p].backend
  PROVE  HomeInv'
<1> USE DEF BoundTo, Bound
<1>1. PlacesOnHome'
  <2> SUFFICES ASSUME NEW q \in Procs, at'[q] \in Placing, job'[q].profile \in Kept
               PROVE  BoundTo(job[q].profile, job[q].backend)'
    BY DEF PlacesOnHome, Kept
  <2> QED
    BY DEF Alone, HomeInv, PlacesOnHome
<1>2. VolumesOnHome'
  BY DEF HomeInv, PlacesOnHome, VolumesOnHome, EnsureVolume, BoundTo, Bound, Kept
<1> QED
  BY <1>1, <1>2 DEF HomeInv

LEMMA HomeStep == TypeInv /\ HomeInv /\ [Next]_vars => HomeInv'
<1> SUFFICES ASSUME TypeInv, HomeInv, [Next]_vars PROVE HomeInv'
  OBVIOUS
<1> USE DEF BoundTo, Bound
<1>1. ASSUME NEW p \in Procs, Alone(p), Begin(p) PROVE HomeInv'
  <2>1. PICK l \in {"bind", "ensure", "remove", "removeProfile"} : \E j :
          Call(p, l, j) /\ (l = "ensure" => BoundTo(j.profile, j.backend))
    BY <1>1, BeginsCall
  <2>2. PICK j : Call(p, l, j) /\ (l = "ensure" => BoundTo(j.profile, j.backend))
    BY <2>1
  <2>3. at'[p] = l /\ job'[p] = j
    BY <2>2 DEF Call, Goto, TypeInv, TypeOK
  <2>4. UNCHANGED fleetVars
    BY <1>1, BeginsCall
  <2> QED
    BY <1>1, <2>2, <2>3, <2>4, HomeKept DEF fleetVars, Placing
<1>2. ASSUME NEW p \in Procs, Alone(p), BindProfile(p) PROVE HomeInv'
  <2>1. LocalOK("bind", job[p])
    BY <1>2 DEF BindProfile, TypeInv, JobOK
  <2>2. job'[p] = job[p] /\ volumes' = volumes
    BY <1>2 DEF BindProfile
  <2>3. BoundTo(job[p].profile, job[p].backend)'
    BY <1>2, <2>1, NoneAssumption DEF BindProfile, BindTo, LocalOK, OnBackend, OnProfile, TypeInv, TypeOK,
                                      FleetTypeOK, Binding
  <2>4. \A f \in Kept : \A b : BoundTo(f, b) => BoundTo(f, b)'
    BY <1>2, NoneAssumption DEF BindProfile, BindTo, Kept, TypeInv, TypeOK, FleetTypeOK
  <2> QED
    BY <1>2, <2>2, <2>3, <2>4, HomeKept
<1>3. ASSUME NEW p \in Procs, Alone(p), EnsureProfile(p) PROVE HomeInv'
  <2>1. at'[p] = "idle"
    BY <1>3 DEF EnsureProfile, Return, Goto, TypeInv, TypeOK, Job
  <2> QED
    BY <1>3, <2>1, HomeEnsured DEF EnsureProfile, Placing
<1>4. ASSUME NEW p \in Procs, Alone(p), Place(p) PROVE HomeInv'
  <2>1. job'[p].profile = job[p].profile /\ job'[p].backend = job[p].backend
    BY <1>4 DEF Place, TypeInv, TypeOK, Job
  <2>2. EnsureVolume(job[p].profile, job[p].backend)
    BY <1>4 DEF Place
  <2> QED
    BY <1>4, <2>1, <2>2, HomeEnsured DEF Place, Placing
<1>5. ASSUME NEW p \in Procs, Alone(p), RunBrowser(p) \/ WriteTarget(p) PROVE HomeInv'
  <2>1. at[p] \in Placing /\ UNCHANGED <<bindings, volumes, job>>
    BY <1>5 DEF RunBrowser, WriteTarget, Placing
  <2> QED
    BY <1>5, <2>1, HomeKept DEF HomeInv, PlacesOnHome
<1>6. ASSUME NEW p \in Procs, Alone(p), BindTarget(p) PROVE HomeInv'
  <2>1. at'[p] = "idle" /\ volumes' = volumes
    BY <1>6 DEF BindTarget, Return, Goto, TypeInv, TypeOK, Job
  <2>2. \A f \in Kept : \A b : BoundTo(f, b) => BoundTo(f, b)'
    BY <1>6, NoneAssumption DEF BindTarget, Kept, TypeInv, TypeOK, FleetTypeOK, Binding, Job
  <2> QED
    BY <1>6, <2>1, <2>2, HomeKept DEF Placing
<1>7. ASSUME NEW p \in Procs, Alone(p), RemoveContainer(p) \/ RemoveTarget(p) PROVE HomeInv'
  <2>1. at'[p] \in {"unrecord", "unbind", "idle"} /\ UNCHANGED <<bindings, volumes>>
    BY <1>7 DEF RemoveContainer, RemoveTarget, Return, Goto, TypeInv, TypeOK, Job
  <2> QED
    BY <1>7, <2>1, HomeKept DEF Placing
<1>8. ASSUME NEW p \in Procs, Alone(p), ClearTarget(p) PROVE HomeInv'
  <2>1. at'[p] = "idle" /\ volumes' = volumes
    BY <1>8 DEF ClearTarget, Return, Goto, TypeInv, TypeOK, Job
  <2>2. \A f \in Kept : \A b : BoundTo(f, b) => BoundTo(f, b)'
    BY <1>8, NoneAssumption DEF ClearTarget, Kept, TypeInv, TypeOK, FleetTypeOK, Binding
  <2> QED
    BY <1>8, <2>1, <2>2, HomeKept DEF Placing
<1>9. ASSUME NEW p \in Procs, Alone(p), RemoveProfile(p) PROVE HomeInv'
  <2>1. at'[p] \in {"deleteBinding", "idle"} /\ volumes' \subseteq volumes /\ UNCHANGED bindings
    BY <1>9 DEF RemoveProfile, Return, Goto, TypeInv, TypeOK, Job
  <2> QED
    BY <1>9, <2>1, HomeKept DEF Placing
<1>10. ASSUME NEW p \in Procs, Alone(p), DeleteBinding(p) PROVE HomeInv'
  <2>1. job[p].profile \in CliDeletes
    BY <1>10 DEF DeleteBinding, TypeInv, JobOK, LocalOK, Deleting
  <2>2. at'[p] = "idle" /\ volumes' = volumes
    BY <1>10 DEF DeleteBinding, Return, Goto, TypeInv, TypeOK, Job
  <2>3. \A f \in Kept : \A b : BoundTo(f, b) => BoundTo(f, b)'
    BY <1>10, <2>1 DEF DeleteBinding, Kept, TypeInv, TypeOK, FleetTypeOK
  <2> QED
    BY <1>10, <2>2, <2>3, HomeKept DEF Placing
<1>11. ASSUME NEW p \in Procs, Alone(p), Fail(p) PROVE HomeInv'
  <2>1. at'[p] = "idle" /\ UNCHANGED <<bindings, volumes>>
    BY <1>11 DEF Fail, Call, Goto, fleetVars, TypeInv, TypeOK
  <2> QED
    BY <1>11, <2>1, HomeKept DEF Placing
<1>12. CASE UNCHANGED vars
  BY <1>12 DEF vars, HomeInv, PlacesOnHome, VolumesOnHome
<1> QED
  BY <1>1, <1>2, <1>3, <1>4, <1>5, <1>6, <1>7, <1>8, <1>9, <1>10, <1>11, <1>12, StepsAlone
  DEF Next, Step

(***************************************************************************)
(* "Once bound, a profile remains on its host", for the profiles that      *)
(* nobody deletes, however many processes place them at once and wherever  *)
(* they fail.                                                              *)
(***************************************************************************)
THEOREM HomeTheorem == Spec => [](SingleHome /\ BindingIsHome)
<1>1. Init => HomeInv
  BY DEF Init, InitWith, HomeInv, PlacesOnHome, VolumesOnHome, Placing
<1>2. TypeInv /\ HomeInv => BindingIsHome
  BY DEF TypeInv, TypeOK, FleetTypeOK, Volume, HomeInv, VolumesOnHome, Kept, BoundTo, BindingIsHome
<1>3. TypeInv /\ HomeInv => SingleHome
  <2> SUFFICES ASSUME HomeInv, NEW f \in Kept PROVE Cardinality(HomeOf(f)) <= 1
    BY DEF SingleHome, HasOneHome, Kept
  <2>1. HomeOf(f) \subseteq {bindings[f].backend}
    BY DEF HomeInv, VolumesOnHome, BoundTo, HomeOf
  <2>2. HomeOf(f) = {} \/ HomeOf(f) = {bindings[f].backend}
    BY <2>1
  <2> QED
    BY <2>2, FS_EmptySet, FS_Singleton
<1> QED
  BY <1>1, <1>2, <1>3, TypeInvariant, HomeStep, PTL DEF Spec

--------------------------------------------------------------------------------
(***************************************************************************)
(* A restore of a backup set is a transaction on its names and volumes:    *)
(* RestoreReservation implements RestoreTransaction, where one process     *)
(* restores and releases the set and nobody deletes its profiles.          *)
(*                                                                         *)
(* A process of the restore keeps its own locals; the others are those of  *)
(* BrowserFleet.                                                           *)
(***************************************************************************)
OneRestorer == \A p, q \in Restorers : p = q
SetIsKept == CliDeletes \cap SetProfiles = {}

Commands == {Command("restore"), Command("release")}
RestoreLocal(p, l, j) ==
  \/ LocalOK(l, j)
  \/ p \in Restorers /\ l \in RestoreLocations /\ j \in Commands

\* The types of what a section reads; nothing here depends on what the journal holds.
SetTyped ==
  /\ FleetTypeOK
  /\ marks \in [SetProfiles -> {"none", "pending", "restored"}]
  /\ receipt \in [SetProfiles -> {"none", "begun", "complete"}]
  /\ image \in [SetProfiles -> {"none", "staged", "filled", "published", "used"}]
  /\ entry \in [Procs -> 1..Len(Manifest)]

RestoreTypeInv ==
  /\ SetTyped
  /\ at \in [Procs -> Locations \cup RestoreLocations]
  /\ job \in [Procs -> Job({"idle"}) \cup Commands]
  /\ \A p \in Procs : RestoreLocal(p, at[p], job[p])

\* The entries of the manifest before and from index e.
Done(e) == {Manifest[k] : k \in 1..(e - 1)}
Left(e) == {Manifest[k] : k \in e..Len(Manifest)}

LEMMA Entries ==
  /\ SetProfiles \subseteq Profiles
  /\ Len(Manifest) \in Nat /\ 1 \in 1..Len(Manifest)
  /\ Done(1) = {} /\ Left(1) = SetProfiles
  /\ \A e \in 1..Len(Manifest) :
       /\ Manifest[e] \in SetProfiles
       /\ Done(e) \subseteq SetProfiles /\ Left(e) \subseteq SetProfiles
       /\ Manifest[e] \in Left(e)
       /\ Done(e + 1) = Done(e) \cup {Manifest[e]}
       /\ Left(e + 1) = Left(e) \ {Manifest[e]}
  /\ Done(Len(Manifest) + 1) = SetProfiles
<1> USE RestoreAssumption DEF SetProfiles, Done, Left
<1>1. Len(Manifest) \in Nat /\ 1 \in 1..Len(Manifest)
  BY Z3
<1>2. \A e \in 1..Len(Manifest) : Manifest[e] \in Profiles
  OBVIOUS
<1>3. ASSUME NEW e \in 1..Len(Manifest) PROVE Done(e + 1) = Done(e) \cup {Manifest[e]}
  BY <1>1
<1>4. ASSUME NEW e \in 1..Len(Manifest) PROVE Left(e + 1) = Left(e) \ {Manifest[e]}
  BY <1>1
<1>5. ASSUME NEW e \in 1..Len(Manifest) PROVE Manifest[e] \in Left(e)
  BY <1>1
<1>6. ASSUME NEW e \in 1..Len(Manifest)
      PROVE  Done(e) \subseteq SetProfiles /\ Left(e) \subseteq SetProfiles
  BY <1>1
<1>7. Done(1) = {} /\ Left(1) = SetProfiles
  BY <1>1
<1>8. Done(Len(Manifest) + 1) = SetProfiles
  BY <1>1
<1> QED
  BY <1>1, <1>2, <1>3, <1>4, <1>5, <1>6, <1>7, <1>8

(***************************************************************************)
(* What the restore knows at each of its sections.  The marks and the      *)
(* host's receipts say how far it has come, whoever died on the way; the   *)
(* locks keep a name as it is while a section is open.                     *)
(***************************************************************************)
AllMarked == \A f \in SetProfiles : marks[f] # "none"
AllComplete == \A f \in SetProfiles : receipt[f] = "complete"
NothingStaged == \A f \in SetProfiles : image[f] = "none"

SetOK ==
  /\ \A f \in SetProfiles : marks[f] # "none" => Bound(f)
  /\ \A f \in SetProfiles : receipt[f] = "complete" => image[f] \in {"published", "used"}
  /\ \A f \in SetProfiles : image[f] # "none" => AllMarked
  /\ \A f \in SetProfiles : marks[f] = "restored" => AllComplete

Counting == {"mark", "restoring", "releasing", "restored", "completed", "free"}

SectionOK(p) ==
  /\ at[p] \notin Counting => entry[p] = 1
  /\ at[p] = "mark" => /\ \A f \in SetProfiles : Bound(f) => marks[f] # "none"
                       /\ \A f \in Done(entry[p]) : marks[f] # "none"
  /\ at[p] \in {"host", "restoring", "releasing", "complete", "restored", "completed", "release"}
       => AllMarked
  /\ at[p] = "restoring" => \A f \in Done(entry[p]) : receipt[f] = "complete"
  /\ at[p] \in {"complete", "restored", "completed"} => AllComplete
  /\ at[p] = "releasing" => \A f \in Done(entry[p]) : image[f] = "none"
  /\ at[p] \in {"release", "free", "unjournal"} => NothingStaged
  /\ at[p] = "free" => \A f \in Left(entry[p]) : Pending(f)

RestoreInv == SetOK /\ \A p \in Procs : SectionOK(p)

AbstractStep == [Transaction!Next]_(Transaction!tvars)

\* A step that changes neither the names nor the volumes of the set is a stutter.
LEMMA Stutters ==
  ASSUME \A f \in SetProfiles : Bound(f)' <=> Bound(f), UNCHANGED marks,
         \A f \in SetProfiles : \/ image'[f] = image[f]
                                \/ {image[f], image'[f]} \subseteq {"staged", "filled"}
                                \/ image[f] = "published" /\ image'[f] = "used"
  PROVE  AbstractStep
<1>1. Status' = Status
  BY DEF Status
<1>2. Data' = Data
  BY DEF Data, Staged
<1> QED
  BY <1>1, <1>2 DEF AbstractStep, Transaction!tvars

\* A step on the name of one profile: it is taken, reserved, given out or let go.
LEMMA NameStep ==
  ASSUME NEW f \in SetProfiles, NEW from, NEW to, Status[f] = from, (Status[f])' = to,
         \A g \in SetProfiles \ {f} : (Bound(g)' <=> Bound(g)) /\ marks'[g] = marks[g],
         UNCHANGED image,
         \/ from = "free" /\ to \in {"used", "pending"}
         \/ from = "pending" /\ to = "restored" /\ \A g \in SetProfiles : Data[g] = "published"
         \/ from = "pending" /\ to = "free" /\ \A g \in SetProfiles : Data[g] = "none"
  PROVE  AbstractStep
<1>1. Data' = Data
  BY DEF Data, Staged
<1>2. Status' = [Status EXCEPT ![f] = to]
  BY DEF Status
<1>3. Transaction!Use(f) \/ Transaction!Reserve(f) \/ Transaction!Restore(f) \/ Transaction!Release(f)
  BY <1>1, <1>2 DEF Transaction!Use, Transaction!Reserve, Transaction!Restore, Transaction!Release,
                    Transaction!Becomes
<1> QED
  BY <1>3 DEF AbstractStep, Transaction!Next

\* A step on the volume of one profile.
LEMMA VolumeStep ==
  ASSUME NEW f \in SetProfiles, NEW from, NEW to, Data[f] = from, (Data[f])' = to,
         \A g \in SetProfiles \ {f} : image'[g] = image[g],
         UNCHANGED <<bindings, marks>>,
         \/ from = "none" /\ to = "staged" /\ \A g \in SetProfiles : Status[g] \in {"pending", "restored"}
         \/ from = "staged" /\ to \in {"published", "none"} /\ Status[f] = "pending"
  PROVE  AbstractStep
<1>1. Status' = Status
  BY DEF Status, Bound
<1>2. Data' = [Data EXCEPT ![f] = to]
  BY DEF Data, Staged
<1>3. Transaction!Stage(f) \/ Transaction!Publish(f) \/ Transaction!Discard(f)
  BY <1>1, <1>2 DEF Transaction!Stage, Transaction!Publish, Transaction!Discard, Transaction!Turns
<1> QED
  BY <1>3 DEF AbstractStep, Transaction!Next

LEMMA InSection ==
  ASSUME RestoreTypeInv, NEW p \in Procs, at[p] \in RestoreLocations
  PROVE  p \in Restorers /\ job[p] \in Commands
BY DEF RestoreTypeInv, RestoreLocal, LocalOK, RestoreLocations, Locking, Hosting, OnBackend, OnProfile,
       Placing, Deleting

\* A step to another place, on typed marks, receipts and entries.
RestoreGoesOn(p) == \E l, j : RestoreLocal(p, l, j) /\ Moved(p, l, j)

LEMMA RestoreMoves ==
  ASSUME RestoreTypeInv, NEW p \in Procs, RestoreGoesOn(p), SetTyped'
  PROVE  RestoreTypeInv'
<1>1. PICK l, j : RestoreLocal(p, l, j) /\ Moved(p, l, j)
  BY DEF RestoreGoesOn
<1>2. l \in Locations \cup RestoreLocations /\ j \in Job({"idle"}) \cup Commands
  BY <1>1 DEF RestoreLocal, LocalOK, Locations, OnBackend, OnProfile, Placing, Deleting, Allocating
<1>3. /\ at' \in [Procs -> Locations \cup RestoreLocations]
      /\ job' \in [Procs -> Job({"idle"}) \cup Commands]
  BY <1>1, <1>2 DEF RestoreTypeInv, Moved
<1>4. \A q \in Procs : at'[q] = (IF q = p THEN l ELSE at[q]) /\ job'[q] = (IF q = p THEN j ELSE job[q])
  BY <1>1 DEF RestoreTypeInv, Moved
<1>5. \A q \in Procs : RestoreLocal(q, at'[q], job'[q])
  BY <1>1, <1>4 DEF RestoreTypeInv
<1> QED
  BY <1>3, <1>5 DEF RestoreTypeInv, RestoreLocal, LocalOK

\* On in the same section or to the next.
LEMMA Advances ==
  ASSUME RestoreTypeInv, NEW p \in Procs, NEW loop, NEW next, Advance(p, loop, next)
  PROVE  /\ entry' \in [Procs -> 1..Len(Manifest)]
         /\ \A q \in Procs \ {p} : entry'[q] = entry[q]
         /\ \/ Goto(p, loop) /\ entry'[p] = entry[p] + 1 /\ entry[p] < Len(Manifest)
            \/ Goto(p, next) /\ entry'[p] = 1 /\ entry[p] = Len(Manifest)
<1>1. entry \in [Procs -> 1..Len(Manifest)] /\ Len(Manifest) \in Nat /\ entry[p] \in 1..Len(Manifest)
  BY Entries DEF RestoreTypeInv, SetTyped
<1>2. CASE entry[p] < Len(Manifest)
  <2>1. Goto(p, loop) /\ entry' = [entry EXCEPT ![p] = @ + 1]
    BY <1>2 DEF Advance
  <2>2. entry[p] + 1 \in 1..Len(Manifest)
    BY <1>1, <1>2
  <2> QED
    BY <1>1, <1>2, <2>1, <2>2
<1>3. CASE ~ (entry[p] < Len(Manifest))
  <2>1. Goto(p, next) /\ entry' = [entry EXCEPT ![p] = 1]
    BY <1>3 DEF Advance
  <2>2. 1 \in 1..Len(Manifest) /\ entry[p] = Len(Manifest)
    BY <1>1, <1>3
  <2> QED
    BY <1>1, <2>1, <2>2
<1> QED
  BY <1>2, <1>3

\* A step of the restore goes to another of its sections, or ends it.
LEMMA SectionGoes ==
  ASSUME RestoreTypeInv, NEW p \in Procs, at[p] \in RestoreLocations,
         NEW l \in RestoreLocations, Goto(p, l), UNCHANGED job
  PROVE  RestoreGoesOn(p)
<1>1. RestoreLocal(p, l, job[p])
  BY InSection DEF RestoreLocal
<1>2. Moved(p, l, job[p])
  BY DEF Moved, Goto, RestoreTypeInv
<1> QED
  BY <1>1, <1>2 DEF RestoreGoesOn

LEMMA SectionEnds ==
  ASSUME NEW p \in Procs, Call(p, "idle", NoJob)
  PROVE  RestoreGoesOn(p)
<1>1. RestoreLocal(p, "idle", NoJob) /\ Moved(p, "idle", NoJob)
  BY IdleOK DEF RestoreLocal, Moved, Call, Goto
<1> QED
  BY <1>1 DEF RestoreGoesOn

LEMMA SectionStays ==
  ASSUME RestoreTypeInv, NEW p \in Procs, UNCHANGED <<at, job>>
  PROVE  RestoreGoesOn(p)
<1>1. RestoreLocal(p, at[p], job[p]) /\ Moved(p, at[p], job[p])
  BY DEF RestoreTypeInv, Moved
<1> QED
  BY <1>1 DEF RestoreGoesOn

LEMMA RestoreStepTyped ==
  ASSUME RestoreTypeInv, NEW p \in Procs, RestoreStep(p)
  PROVE  RestoreTypeInv'
<1> DEFINE Moving == RestoreGoesOn(p)
<1>1. SetTyped /\ Current(p) \in SetProfiles /\ Current(p) \in Profiles
  BY Entries DEF RestoreTypeInv, SetTyped, Current
<1>2. at[p] \in RestoreLocations
  BY DEF RestoreStep, Reserve, Mark, OpenHost, Verify, CreateStaging, WriteReceipt, Fill, Publish,
         CompleteEntry, DeleteStaging, ReleaseEntry, OpenComplete, WriteRestored, WriteCompleted,
         OpenRelease, Free, RemoveJournal, Restoring, Releasing, RestoreLocations, Locking, Hosting
<1>3. {"mark", "host", "restoring", "releasing", "complete", "release", "restored", "completed", "free",
       "unjournal"} \subseteq RestoreLocations
  BY DEF RestoreLocations, Locking, Hosting
<1>4. ASSUME Reserve(p) \/ OpenHost(p) \/ OpenComplete(p) \/ WriteRestored(p) \/ OpenRelease(p)
      PROVE  RestoreGoesOn(p) /\ SetTyped'
  <2>1. RestoreGoesOn(p)
    BY <1>2, <1>3, <1>4, SectionGoes DEF Reserve, OpenHost, OpenComplete, WriteRestored, OpenRelease
  <2>2. UNCHANGED <<fleetVars, receipt, image, entry>>
    BY <1>4 DEF Reserve, OpenHost, OpenComplete, WriteRestored, OpenRelease, restoreVars
  <2>3. marks' \in [SetProfiles -> {"none", "pending", "restored"}]
    BY <1>1, <1>4 DEF Reserve, OpenHost, OpenComplete, WriteRestored, OpenRelease, restoreVars, SetTyped
  <2> QED
    BY <1>1, <2>1, <2>2, <2>3 DEF SetTyped, FleetTypeOK, fleetVars
<1>5. ASSUME Mark(p) \/ Free(p) PROVE RestoreGoesOn(p) /\ SetTyped'
  <2>1. RestoreGoesOn(p) /\ entry' \in [Procs -> 1..Len(Manifest)]
    BY <1>2, <1>3, <1>5, SectionGoes, Advances DEF Mark, Free
  <2>2. UNCHANGED <<volumes, containers, targets, drawn, receipt, image>>
    BY <1>5 DEF Mark, Free
  <2>3. bindings' \in [Profiles -> Binding \cup {None}]
    <3>1. [backend |-> Destination, target |-> None] \in Binding
      BY RestoreAssumption DEF Binding
    <3>2. PICK v \in Binding \cup {None} :
            bindings' = bindings \/ bindings' = [bindings EXCEPT ![Current(p)] = v]
      BY <1>5, <3>1 DEF Mark, Free
    <3> QED
      BY <1>1, <3>2 DEF SetTyped, FleetTypeOK
  <2>4. marks' \in [SetProfiles -> {"none", "pending", "restored"}]
    BY <1>1, <1>5 DEF Mark, Free, SetTyped
  <2> QED
    BY <1>1, <2>1, <2>2, <2>3, <2>4 DEF SetTyped, FleetTypeOK
<1>6. ASSUME CreateStaging(p) \/ WriteReceipt(p) \/ Fill(p) \/ Publish(p) \/ DeleteStaging(p)
      PROVE  RestoreGoesOn(p) /\ SetTyped'
  <2>1. RestoreGoesOn(p)
    BY <1>6, SectionStays DEF CreateStaging, WriteReceipt, Fill, Publish, DeleteStaging, Restoring, Releasing
  <2>2. UNCHANGED <<bindings, containers, targets, drawn, marks, entry>>
    BY <1>6 DEF CreateStaging, WriteReceipt, Fill, Publish, DeleteStaging, Restoring, Releasing, fleetVars
  <2>3. volumes' \subseteq Volume
    BY <1>1, <1>6, RestoreAssumption
    DEF CreateStaging, WriteReceipt, Fill, Publish, DeleteStaging, Releasing, fleetVars, Volumes, Volume,
        SetTyped, FleetTypeOK
  <2>4. receipt' \in [SetProfiles -> {"none", "begun", "complete"}]
    BY <1>1, <1>6 DEF CreateStaging, WriteReceipt, Fill, Publish, DeleteStaging, SetTyped
  <2>5. image' \in [SetProfiles -> {"none", "staged", "filled", "published", "used"}]
    BY <1>1, <1>6 DEF CreateStaging, WriteReceipt, Fill, Publish, DeleteStaging, SetTyped
  <2> QED
    BY <1>1, <2>1, <2>2, <2>3, <2>4, <2>5 DEF SetTyped, FleetTypeOK
<1>7. ASSUME Verify(p) \/ CompleteEntry(p) \/ ReleaseEntry(p) PROVE RestoreGoesOn(p) /\ SetTyped'
  <2>1. PICK loop, next \in RestoreLocations : Advance(p, loop, next)
    BY <1>3, <1>7 DEF Verify, CompleteEntry, ReleaseEntry
  <2>2. RestoreGoesOn(p) /\ entry' \in [Procs -> 1..Len(Manifest)]
    BY <1>2, <1>7, <2>1, SectionGoes, Advances DEF Verify, CompleteEntry, ReleaseEntry, Restoring, Releasing
  <2>3. UNCHANGED <<fleetVars, marks, image>>
    BY <1>7 DEF Verify, CompleteEntry, ReleaseEntry, Restoring, Releasing, fleetVars
  <2>4. receipt' \in [SetProfiles -> {"none", "begun", "complete"}]
    BY <1>1, <1>7 DEF Verify, CompleteEntry, ReleaseEntry, SetTyped
  <2> QED
    BY <1>1, <2>2, <2>3, <2>4 DEF SetTyped, FleetTypeOK, fleetVars
<1>8. ASSUME WriteCompleted(p) PROVE RestoreGoesOn(p) /\ SetTyped'
  <2>1. entry' \in [Procs -> 1..Len(Manifest)]
    BY <1>8, Advances DEF WriteCompleted
  <2>2. RestoreGoesOn(p)
    <3>1. CASE entry[p] < Len(Manifest)
      BY <1>2, <1>3, <1>8, <3>1, SectionGoes DEF WriteCompleted, Advance
    <3>2. CASE ~ (entry[p] < Len(Manifest))
      BY <1>8, <3>2, SectionEnds DEF WriteCompleted, Advance, Call
    <3> QED
      BY <3>1, <3>2
  <2> QED
    BY <1>1, <1>8, <2>1, <2>2 DEF WriteCompleted, SetTyped, FleetTypeOK, fleetVars
<1>9. ASSUME RemoveJournal(p) PROVE RestoreGoesOn(p) /\ SetTyped'
  BY <1>1, <1>9, SectionEnds DEF RemoveJournal, SetTyped, FleetTypeOK, fleetVars
<1> QED
  BY <1>4, <1>5, <1>6, <1>7, <1>8, <1>9, RestoreMoves DEF RestoreStep

--------------------------------------------------------------------------------
\* The ordinary commands change a name of the set only by taking it, and a volume of the set
\* only by writing to it once it is published.
OrdinaryStep(p) == OrdinaryBegin(p) \/ ReadyStep(p) \/ RunImage(p) \/ RemoveImage(p) \/ OtherStep(p)

NamesStay == \A f \in SetProfiles : Bound(f)' <=> Bound(f)
NameIsTaken ==
  /\ LocksFree
  /\ \E f \in SetProfiles : /\ ~ Bound(f) /\ Bound(f)'
                            /\ \A g \in SetProfiles \ {f} : Bound(g)' <=> Bound(g)

NameIsDropped ==
  /\ LocksFree
  /\ \E f \in SetProfiles \cap CliDeletes :
       /\ ~ Bound(f)' /\ marks'[f] = "none"
       /\ \A g \in SetProfiles \ {f} : (Bound(g)' <=> Bound(g)) /\ marks'[g] = marks[g]

OrdinaryEffect ==
  /\ UNCHANGED <<marks, receipt, entry>>
  /\ image' \in [SetProfiles -> {"none", "staged", "filled", "published", "used"}]
  /\ \A f \in SetProfiles : image'[f] # image[f] => image[f] = "published" /\ image'[f] = "used"
  /\ NamesStay \/ NameIsTaken

LEMMA OrdinaryTyped ==
  ASSUME RestoreTypeInv, NEW p \in Procs, Begin(p) \/ Step(p)
  PROVE  Typed(p) /\ FleetTypeOK' /\ GoesOn(p) /\ RestoreGoesOn(p)
<1>1. at[p] \in Locations
  BY DEF Begin, BeginCreate, BeginCreateProfile, BeginDestroy, BeginDeleteProfile, Step, BindProfile,
         EnsureProfile, Place, RunBrowser, WriteTarget, BindTarget, RemoveContainer, RemoveTarget,
         ClearTarget, RemoveProfile, DeleteBinding, Locations, Allocating
<1>2. at[p] \notin RestoreLocations
  BY <1>1 DEF Locations, Allocating, RestoreLocations, Locking, Hosting
<1>3. Typed(p)
  BY <1>2 DEF RestoreTypeInv, RestoreLocal, SetTyped, Typed
<1>4. FleetTypeOK' /\ GoesOn(p)
  <2>1. CASE Begin(p)
    BY <1>3, <2>1, Begins DEF Typed, FleetTypeOK, fleetVars
  <2>2. CASE Step(p)
    BY <1>3, <2>2, StepsTyped
  <2> QED
    BY <2>1, <2>2
<1> QED
  BY <1>3, <1>4 DEF GoesOn, RestoreGoesOn, RestoreLocal

\* A binding that is written keeps the names, or takes the one it is for.
LEMMA Rebinds ==
  ASSUME FleetTypeOK, NEW f \in Profiles, NEW v \in Binding, f \in SetProfiles => LocksFree,
         bindings' = bindings \/ bindings' = [bindings EXCEPT ![f] = v]
  PROVE  NamesStay \/ NameIsTaken
<1> USE NoneAssumption, Entries DEF NamesStay, Bound
<1>1. CASE bindings' = bindings
  BY <1>1
<1>2. CASE bindings' = [bindings EXCEPT ![f] = v] /\ (f \notin SetProfiles \/ Bound(f))
  BY <1>2 DEF FleetTypeOK
<1>3. CASE bindings' = [bindings EXCEPT ![f] = v] /\ f \in SetProfiles /\ ~ Bound(f)
  <2>1. Bound(f)' /\ \A g \in SetProfiles \ {f} : Bound(g)' <=> Bound(g)
    BY <1>3 DEF FleetTypeOK
  <2> QED
    BY <1>3, <2>1 DEF NameIsTaken
<1> QED
  BY <1>1, <1>2, <1>3

\* Of the ordinary steps only the deletion of a binding lets a name go.
LEMMA NamesKept ==
  ASSUME RestoreTypeInv, NEW p \in Procs, OrdinaryStep(p), ~ DeleteBinding(p)
  PROVE  NamesStay \/ NameIsTaken
<1>1. Begin(p) \/ Step(p)
  BY DEF OrdinaryStep, OrdinaryBegin, ReadyStep, RunImage, RemoveImage, OtherStep, Step
<1>2. Typed(p)
  BY <1>1, OrdinaryTyped
<1>3. FleetTypeOK
  BY DEF RestoreTypeInv, SetTyped
<1>4. CASE UNCHANGED bindings
  BY <1>4 DEF NamesStay, Bound
<1>5. CASE ReadyStep(p) /\ BindProfile(p)
  <2> DEFINE v == [backend |-> job[p].backend, target |-> None]
             f == job[p].profile
  <2>1. f \in Profiles /\ v \in Binding
    BY <1>2, <1>5 DEF BindProfile, Typed, LocalOK, OnBackend, OnProfile, Binding
  <2>2. bindings' = bindings \/ bindings' = [bindings EXCEPT ![f] = v]
    BY <1>3, <1>5 DEF BindProfile, BindTo, FleetTypeOK
  <2>3. f \in SetProfiles => LocksFree
    BY <1>5 DEF ReadyStep, Unlocked
  <2> HIDE DEF v, f
  <2> QED
    BY <1>3, <2>1, <2>2, <2>3, Rebinds
<1>6. CASE ReadyStep(p) /\ BindTarget(p)
  <2> DEFINE v == [backend |-> job[p].backend, target |-> job[p].name]
             f == job[p].profile
  <2>1. f \in Profiles /\ v \in Binding
    BY <1>2, <1>6 DEF BindTarget, Typed, LocalOK, OnBackend, OnProfile, OnName, Placing, Binding
  <2>2. bindings' = [bindings EXCEPT ![f] = v]
    BY <1>6 DEF BindTarget
  <2>3. f \in SetProfiles => LocksFree
    BY <1>6 DEF ReadyStep, Unlocked
  <2> HIDE DEF v, f
  <2> QED
    BY <1>3, <2>1, <2>2, <2>3, Rebinds
<1>7. CASE ReadyStep(p) /\ ClearTarget(p)
  <2> DEFINE f == job[p].profile
             v == [bindings[f] EXCEPT !.target = None]
  <2>1. f \in Profiles
    BY <1>2, <1>7 DEF ClearTarget, Typed, LocalOK
  <2>2. \/ UNCHANGED bindings
        \/ Bound(f) /\ bindings' = [bindings EXCEPT ![f] = v]
    BY <1>3, <1>7, <2>1 DEF ClearTarget, FleetTypeOK, Bound
  <2>3. Bound(f) => v \in Binding
    BY <1>3, <2>1 DEF FleetTypeOK, Bound, Binding
  <2>4. f \in SetProfiles => LocksFree
    BY <1>7 DEF ReadyStep, Unlocked
  <2> HIDE DEF v, f
  <2> QED
    BY <1>3, <1>4, <2>1, <2>2, <2>3, <2>4, Rebinds
<1>8. CASE OrdinaryBegin(p) \/ RunImage(p) \/ RemoveImage(p) \/ OtherStep(p)
  <2>1. Begin(p) => UNCHANGED bindings
    BY <1>2, Begins DEF fleetVars, Typed
  <2> QED
    BY <1>4, <1>8, <2>1
    DEF OrdinaryBegin, RunImage, RunBrowser, RemoveImage, RemoveProfile, OtherStep, EnsureProfile,
        Place, WriteTarget, RemoveContainer, RemoveTarget
<1> QED
  BY <1>5, <1>6, <1>7, <1>8 DEF OrdinaryStep, ReadyStep

LEMMA OrdinarySteps ==
  ASSUME SetIsKept, RestoreTypeInv, NEW p \in Procs, OrdinaryStep(p)
  PROVE  /\ Typed(p) /\ FleetTypeOK' /\ GoesOn(p) /\ RestoreGoesOn(p)
         /\ OrdinaryEffect
<1>1. Begin(p) \/ Step(p)
  BY DEF OrdinaryStep, OrdinaryBegin, ReadyStep, RunImage, RemoveImage, OtherStep, Step
<1>2. Typed(p) /\ FleetTypeOK' /\ GoesOn(p) /\ RestoreGoesOn(p)
  BY <1>1, OrdinaryTyped
<1>3. SetTyped
  BY DEF RestoreTypeInv
<1>4. UNCHANGED <<receipt, entry>>
  BY DEF OrdinaryStep, OrdinaryBegin, ReadyStep, RunImage, RemoveImage, OtherStep, restoreVars
<1>5. ASSUME job[p].profile \in CliDeletes PROVE job[p].profile \notin SetProfiles
  BY <1>5 DEF SetIsKept
<1>6. UNCHANGED marks
  <2>1. ASSUME DeleteBinding(p), marks' = With(marks, job[p].profile, "none") PROVE marks' = marks
    <3>1. job[p].profile \in CliDeletes
      BY <1>2, <2>1 DEF DeleteBinding, Typed, LocalOK, Deleting
    <3> QED
      BY <1>3, <1>5, <2>1, <3>1 DEF With, SetTyped
  <2> QED
    BY <2>1 DEF OrdinaryStep, OrdinaryBegin, ReadyStep, RunImage, RemoveImage, OtherStep, restoreVars
<1>7. /\ image' \in [SetProfiles -> {"none", "staged", "filled", "published", "used"}]
      /\ \A f \in SetProfiles : image'[f] # image[f] => image[f] = "published" /\ image'[f] = "used"
  <2>1. CASE UNCHANGED image
    BY <1>3, <2>1 DEF SetTyped
  <2>2. CASE RunImage(p)
    BY <1>3, <2>2 DEF RunImage, SetTyped
  <2>3. CASE RemoveImage(p)
    <3>1. job[p].profile \in CliDeletes
      BY <1>2, <2>3 DEF RemoveImage, RemoveProfile, Typed, LocalOK, Deleting
    <3>2. ImageOf(p) \notin SetProfiles
      BY <1>5, <3>1, Entries, NoneAssumption DEF ImageOf
    <3> QED
      BY <1>3, <2>3, <3>2 DEF RemoveImage, SetTyped
  <2> QED
    BY <2>1, <2>2, <2>3 DEF OrdinaryStep, OrdinaryBegin, ReadyStep, OtherStep, restoreVars
<1>8. NamesStay \/ NameIsTaken
  <2>1. CASE DeleteBinding(p)
    <3>1. job[p].profile \in CliDeletes
      BY <1>2, <2>1 DEF DeleteBinding, Typed, LocalOK, Deleting
    <3> QED
      BY <1>3, <1>5, <2>1, <3>1, Entries DEF DeleteBinding, NamesStay, Bound, SetTyped, FleetTypeOK
  <2>2. CASE ~ DeleteBinding(p)
    BY <2>2, NamesKept
  <2> QED
    BY <2>1, <2>2
<1> QED
  BY <1>2, <1>4, <1>6, <1>7, <1>8 DEF OrdinaryEffect

\* The places of the ordinary operations are none of the restore's.
LEMMA OutsideLocals ==
  ASSUME NEW l, NEW j, LocalOK(l, j)
  PROVE  l \notin RestoreLocations /\ l \notin Counting
BY DEF LocalOK, OnBackend, OnProfile, Placing, Deleting, RestoreLocations, Locking, Hosting, Counting

\* The others of a step of the restore's only process.
LEMMA OtherSections ==
  ASSUME OneRestorer, RestoreTypeInv, RestoreInv, NEW p \in Procs, at[p] \in RestoreLocations,
         \A q \in Procs \ {p} : at'[q] = at[q] /\ entry'[q] = entry[q]
  PROVE  \A q \in Procs \ {p} : SectionOK(q)'
<1> SUFFICES ASSUME NEW q \in Procs \ {p} PROVE SectionOK(q)'
  OBVIOUS
<1>1. at[q] \notin RestoreLocations
  BY InSection DEF OneRestorer
<1>2. entry[q] = 1
  BY <1>1 DEF RestoreInv, SectionOK, RestoreLocations, Locking, Hosting, Counting
<1> QED
  BY <1>1, <1>2 DEF SectionOK, RestoreLocations, Locking, Hosting, Counting

LEMMA OrdinaryKeeps ==
  ASSUME SetIsKept, RestoreTypeInv, RestoreInv, NEW p \in Procs, OrdinaryStep(p)
  PROVE  RestoreInv' /\ AbstractStep
<1>1. Typed(p) /\ GoesOn(p) /\ OrdinaryEffect
  BY OrdinarySteps
<1>2. PICK l, j : LocalOK(l, j) /\ Moved(p, l, j)
  BY <1>1 DEF GoesOn
<1>3. \A q \in Procs : at'[q] = (IF q = p THEN l ELSE at[q])
  BY <1>1, <1>2 DEF Moved, Typed
<1>4. at[p] \notin RestoreLocations /\ at[p] \notin Counting /\ l \notin RestoreLocations /\ l \notin Counting
  BY <1>1, <1>2, OutsideLocals DEF Typed
<1>5. UNCHANGED <<marks, receipt, entry>> /\ (AllMarked' <=> AllMarked) /\ (AllComplete' <=> AllComplete)
  BY <1>1 DEF OrdinaryEffect, AllMarked, AllComplete
<1>6. \A f \in SetProfiles : /\ image'[f] = "none" <=> image[f] = "none"
                             /\ image[f] \in {"published", "used"} => image'[f] \in {"published", "used"}
                             /\ Bound(f) => Bound(f)'
  BY <1>1 DEF OrdinaryEffect, NamesStay, NameIsTaken
<1>7. SetOK'
  BY <1>5, <1>6 DEF RestoreInv, SetOK
<1>8. ASSUME NEW q \in Procs \ {p} PROVE SectionOK(q)'
  <2>1. at'[q] = at[q] /\ entry'[q] = entry[q] /\ SectionOK(q)
    BY <1>3, <1>5 DEF RestoreInv
  <2>2. at[q] = "mark" => NamesStay
    BY <1>1 DEF OrdinaryEffect, NameIsTaken, LocksFree, Locking
  <2>3. at[q] = "mark" => \A f \in SetProfiles : Bound(f)' => marks'[f] # "none"
    BY <1>5, <2>1, <2>2 DEF SectionOK, NamesStay
  <2>4. NothingStaged' <=> NothingStaged
    BY <1>6 DEF NothingStaged
  <2>5. at[q] = "releasing" => \A f \in Done(entry[q]) : image'[f] = "none"
    <3>1. Done(entry[q]) \subseteq SetProfiles
      BY Entries DEF RestoreTypeInv, SetTyped
    <3> QED
      BY <1>6, <2>1, <3>1 DEF SectionOK
  <2>6. at[q] = "free" => \A f \in Left(entry[q]) : Pending(f)'
    BY <1>5, <2>1 DEF SectionOK, Pending
  <2> QED
    BY <1>5, <2>1, <2>3, <2>4, <2>5, <2>6 DEF SectionOK
<1>9. SectionOK(p)'
  <2>1. entry'[p] = 1
    BY <1>4, <1>5 DEF RestoreInv, SectionOK
  <2>2. at'[p] \notin RestoreLocations
    BY <1>3, <1>4
  <2> QED
    BY <2>1, <2>2 DEF SectionOK, Counting, RestoreLocations, Locking, Hosting
<1>10. AbstractStep
  <2>1. CASE NamesStay
    BY <1>1, <1>5, <2>1, Stutters DEF NamesStay, OrdinaryEffect
  <2>2. CASE NameIsTaken
    <3>1. PICK f \in SetProfiles : /\ ~ Bound(f) /\ Bound(f)'
                                   /\ \A g \in SetProfiles \ {f} : Bound(g)' <=> Bound(g)
      BY <2>2 DEF NameIsTaken
    <3>2. marks[f] = "none"
      BY <3>1 DEF RestoreInv, SetOK
    <3>3. Status[f] = "free" /\ (Status[f])' = "used"
      BY <1>5, <3>1, <3>2 DEF Status
    <3>4. UNCHANGED image
      <4>1. \A g \in SetProfiles : image[g] = "none"
        BY <3>2 DEF RestoreInv, SetOK, AllMarked
      <4> QED
        BY <1>1, <4>1 DEF OrdinaryEffect, RestoreTypeInv, SetTyped
    <3> QED
      BY <1>5, <3>1, <3>3, <3>4, NameStep
  <2> QED
    BY <1>1, <2>1, <2>2 DEF OrdinaryEffect
<1> QED
  BY <1>7, <1>8, <1>9, <1>10 DEF RestoreInv

--------------------------------------------------------------------------------
(***************************************************************************)
(* The restore's own steps.                                                *)
(***************************************************************************)
Keeps(p) == SetOK' /\ SectionOK(p)' /\ AbstractStep

\* Where a step leaves the process and its entry.
LEMMA Lands ==
  ASSUME RestoreTypeInv, NEW p \in Procs, NEW l, Goto(p, l)
  PROVE  at'[p] = l
BY DEF Goto, RestoreTypeInv

\* A step that leaves the set alone.
LEMMA SetStays ==
  ASSUME RestoreInv, UNCHANGED <<bindings, marks, receipt, image>>
  PROVE  SetOK' /\ AbstractStep
<1>1. SetOK'
  BY DEF RestoreInv, SetOK, AllMarked, AllComplete, Bound
<1>2. AbstractStep
  BY Stutters DEF Bound
<1> QED
  BY <1>1, <1>2

LEMMA ReserveSteps ==
  ASSUME RestoreTypeInv, RestoreInv, NEW p \in Procs, Reserve(p) \/ OpenHost(p)
  PROVE  Keeps(p)
<1>1. UNCHANGED <<bindings, marks, receipt, image, entry>>
  BY DEF Reserve, OpenHost, fleetVars, restoreVars
<1>2. entry'[p] = 1 /\ Done(1) = {}
  BY <1>1, Entries DEF Reserve, OpenHost, RestoreInv, SectionOK, Counting
<1>3. CASE Reserve(p)
  <2>1. at'[p] = "mark" /\ \A f \in SetProfiles : Bound(f)' => marks'[f] # "none"
    BY <1>1, <1>3, Lands DEF Reserve, Bound
  <2> QED
    BY <1>1, <1>2, <2>1, SetStays DEF Keeps, SectionOK, Counting
<1>4. CASE OpenHost(p)
  <2>1. at'[p] \in {"restoring", "releasing"}
    BY <1>4, Lands DEF OpenHost
  <2>2. AllMarked'
    BY <1>1, <1>4 DEF OpenHost, RestoreInv, SectionOK, AllMarked
  <2> QED
    BY <1>1, <1>2, <2>1, <2>2, SetStays DEF Keeps, SectionOK, Counting
<1> QED
  BY <1>3, <1>4

LEMMA MarkSteps ==
  ASSUME RestoreTypeInv, RestoreInv, NEW p \in Procs, Mark(p)
  PROVE  Keeps(p)
<1> PICK f \in SetProfiles : f = Current(p)
  BY Entries DEF RestoreTypeInv, SetTyped, Current
<1>1. /\ f \in Profiles
      /\ Done(entry[p] + 1) = Done(entry[p]) \cup {f}
      /\ Done(Len(Manifest) + 1) = SetProfiles
      /\ Done(entry[p]) \subseteq SetProfiles
  BY Entries DEF RestoreTypeInv, SetTyped, Current
<1>2. /\ \A g \in SetProfiles : Bound(g) => marks[g] # "none"
      /\ \A g \in Done(entry[p]) : marks[g] # "none"
  BY DEF Mark, RestoreInv, SectionOK
<1>3. UNCHANGED <<receipt, image>>
  BY DEF Mark
<1>4. /\ \A g \in SetProfiles : marks'[g] = IF g = f /\ marks[f] = "none" THEN "pending" ELSE marks[g]
      /\ \A g \in SetProfiles : Bound(g)' <=> Bound(g) \/ (g = f /\ marks[f] = "none")
  <2>1. [backend |-> Destination, target |-> None] # None
    BY RestoreAssumption, NoneAssumption DEF Binding
  <2>2. CASE marks[f] = "none"
    <3>1. /\ bindings' = [bindings EXCEPT ![f] = [backend |-> Destination, target |-> None]]
          /\ marks' = [marks EXCEPT ![f] = "pending"]
      BY <2>2 DEF Mark
    <3> QED
      BY <1>1, <2>1, <2>2, <3>1, Entries DEF Bound, RestoreTypeInv, SetTyped, FleetTypeOK
  <2>3. CASE marks[f] # "none"
    BY <2>3 DEF Mark, Bound
  <2> QED
    BY <2>2, <2>3
<1>5. SetOK'
  BY <1>3, <1>4 DEF RestoreInv, SetOK, AllMarked, AllComplete
<1>6. \A g \in Done(entry[p] + 1) : marks'[g] # "none"
  BY <1>1, <1>2, <1>4
<1>7. Advance(p, "mark", "host")
  BY DEF Mark
<1>8. SectionOK(p)'
  <2>1. CASE at'[p] = "mark" /\ entry'[p] = entry[p] + 1
    BY <1>2, <1>4, <1>6, <2>1 DEF SectionOK, Counting
  <2>2. CASE at'[p] = "host" /\ entry'[p] = 1 /\ entry[p] = Len(Manifest)
    BY <1>1, <1>6, <2>2 DEF SectionOK, Counting, AllMarked
  <2> QED
    BY <1>7, <2>1, <2>2, Advances, Lands
<1>9. AbstractStep
  <2>1. CASE marks[f] = "none"
    <3>1. Status[f] = "free" /\ (Status[f])' = "pending"
      BY <1>1, <1>2, <1>4, <2>1 DEF Status
    <3> QED
      BY <1>1, <1>3, <1>4, <3>1, NameStep
  <2>2. CASE marks[f] # "none"
    BY <2>2, Stutters DEF Mark, Bound
  <2> QED
    BY <2>1, <2>2
<1> QED
  BY <1>5, <1>8, <1>9 DEF Keeps

\* What a step of the host's section starts from.
LEMMA HostFacts ==
  ASSUME RestoreTypeInv, RestoreInv, NEW p \in Procs, at[p] \in {"restoring", "releasing"}
  PROVE  /\ Current(p) \in SetProfiles
         /\ Done(entry[p] + 1) = Done(entry[p]) \cup {Current(p)}
         /\ Done(entry[p]) \subseteq SetProfiles
         /\ AllMarked
         /\ \A g \in SetProfiles : Status[g] \in {"pending", "restored"}
         /\ ~ AllComplete => \A g \in SetProfiles : Status[g] = "pending"
         /\ at[p] = "restoring" => \A g \in Done(entry[p]) : receipt[g] = "complete"
         /\ at[p] = "releasing" => \A g \in Done(entry[p]) : image[g] = "none"
<1>1. /\ Current(p) \in SetProfiles
      /\ Done(entry[p] + 1) = Done(entry[p]) \cup {Current(p)}
      /\ Done(entry[p]) \subseteq SetProfiles
  BY Entries DEF RestoreTypeInv, SetTyped, Current
<1>2. /\ AllMarked
      /\ at[p] = "restoring" => \A g \in Done(entry[p]) : receipt[g] = "complete"
      /\ at[p] = "releasing" => \A g \in Done(entry[p]) : image[g] = "none"
  BY DEF RestoreInv, SectionOK
<1>3. \A g \in SetProfiles : marks[g] \in {"pending", "restored"} /\ Bound(g)
  BY <1>2 DEF AllMarked, RestoreInv, SetOK, RestoreTypeInv, SetTyped
<1>4. \A g \in SetProfiles : Status[g] = marks[g]
  BY <1>3 DEF Status
<1>5. ~ AllComplete => \A g \in SetProfiles : marks[g] # "restored"
  BY DEF RestoreInv, SetOK
<1> QED
  BY <1>1, <1>2, <1>3, <1>4, <1>5

LEMMA VerifySteps ==
  ASSUME RestoreTypeInv, RestoreInv, NEW p \in Procs, Verify(p) \/ CompleteEntry(p)
  PROVE  Keeps(p)
<1>1. at[p] = "restoring" /\ Advance(p, "restoring", "complete")
  BY DEF Verify, CompleteEntry, Restoring
<1>2. PICK f \in SetProfiles :
        /\ f = Current(p)
        /\ Done(entry[p] + 1) = Done(entry[p]) \cup {f}
        /\ Done(entry[p]) \subseteq SetProfiles
        /\ \A g \in Done(entry[p]) : receipt[g] = "complete"
  BY <1>1, HostFacts
<1>3. UNCHANGED <<bindings, marks, image>> /\ AllMarked
  BY <1>1, HostFacts DEF Verify, CompleteEntry, Restoring
<1>4. \A g \in SetProfiles : receipt'[g] = IF g = f THEN "complete" ELSE receipt[g]
  BY <1>2 DEF Verify, CompleteEntry, RestoreTypeInv, SetTyped
<1>5. image[f] = "published"
  BY <1>2 DEF Verify, CompleteEntry
<1>6. SetOK'
  BY <1>3, <1>4, <1>5 DEF RestoreInv, SetOK, AllMarked, AllComplete, Bound
<1>7. \A g \in Done(entry[p] + 1) : receipt'[g] = "complete"
  BY <1>2, <1>4
<1>8. AllMarked'
  BY <1>3 DEF AllMarked
<1>9. SectionOK(p)'
  <2>1. CASE at'[p] = "restoring" /\ entry'[p] = entry[p] + 1
    BY <1>7, <1>8, <2>1 DEF SectionOK, Counting
  <2>2. CASE at'[p] = "complete" /\ entry'[p] = 1 /\ entry[p] = Len(Manifest)
    BY <1>7, <1>8, <2>2, Entries DEF SectionOK, Counting, AllComplete
  <2> QED
    BY <1>1, <2>1, <2>2, Advances, Lands
<1>10. AbstractStep
  BY <1>3, Stutters DEF Bound
<1> QED
  BY <1>6, <1>9, <1>10 DEF Keeps

\* A change of one volume or receipt in the same section: nothing is complete, and nothing done is undone.
LEMMA SectionKept ==
  ASSUME RestoreTypeInv, RestoreInv, NEW p \in Procs, at[p] \in {"restoring", "releasing"},
         UNCHANGED <<at, entry, bindings, marks>>, NEW f \in SetProfiles,
         receipt[f] # "complete", receipt'[f] # "complete",
         \A g \in SetProfiles \ {f} : image'[g] = image[g] /\ receipt'[g] = receipt[g],
         at[p] = "releasing" /\ image[f] = "none" => image'[f] = "none"
  PROVE  SetOK' /\ SectionOK(p)'
<1>1. /\ AllMarked
      /\ Done(entry[p]) \subseteq SetProfiles
      /\ at[p] = "restoring" => \A g \in Done(entry[p]) : receipt[g] = "complete"
      /\ at[p] = "releasing" => \A g \in Done(entry[p]) : image[g] = "none"
  BY HostFacts
<1>2. AllMarked'
  BY <1>1 DEF AllMarked
<1>3. \A g \in SetProfiles : marks'[g] # "restored"
  BY DEF RestoreInv, SetOK, AllComplete
<1>4. SetOK'
  BY <1>2, <1>3 DEF RestoreInv, SetOK, Bound
<1>5. /\ at[p] = "restoring" => \A g \in Done(entry[p]) : receipt'[g] = "complete"
      /\ at[p] = "releasing" => \A g \in Done(entry[p]) : image'[g] = "none"
  BY <1>1
<1> QED
  BY <1>2, <1>4, <1>5 DEF SectionOK, Counting

LEMMA VolumeSteps ==
  ASSUME RestoreTypeInv, RestoreInv, NEW p \in Procs,
         CreateStaging(p) \/ WriteReceipt(p) \/ Fill(p) \/ Publish(p) \/ DeleteStaging(p)
  PROVE  Keeps(p)
<1>1. at[p] \in {"restoring", "releasing"} /\ UNCHANGED <<at, entry, bindings, marks>>
  BY DEF CreateStaging, WriteReceipt, Fill, Publish, DeleteStaging, Restoring, Releasing, fleetVars
<1>2. PICK f \in SetProfiles : f = Current(p)
  BY <1>1, HostFacts
<1>3. /\ receipt[f] # "complete" /\ receipt'[f] # "complete"
      /\ \A g \in SetProfiles \ {f} : image'[g] = image[g] /\ receipt'[g] = receipt[g]
  BY <1>2 DEF CreateStaging, WriteReceipt, Fill, Publish, DeleteStaging, RestoreTypeInv, SetTyped
<1>4. at[p] = "releasing" /\ image[f] = "none" => image'[f] = "none"
  BY <1>2 DEF CreateStaging, WriteReceipt, Fill, Publish, DeleteStaging, Restoring, RestoreTypeInv, SetTyped
<1>5. SetOK' /\ SectionOK(p)'
  BY <1>1, <1>3, <1>4, SectionKept
<1>6. (\A g \in SetProfiles : Status[g] \in {"pending", "restored"}) /\ Status[f] = "pending"
  BY <1>1, <1>3, HostFacts DEF AllComplete
<1>7. AbstractStep
  <2>1. CASE CreateStaging(p)
    <3>1. image[f] = "none" /\ image'[f] = "staged"
      BY <1>2, <2>1 DEF CreateStaging, RestoreTypeInv, SetTyped
    <3>2. Data[f] = "none" /\ (Data[f])' = "staged"
      BY <3>1 DEF Data, Staged
    <3> QED
      BY <1>1, <1>3, <1>6, <3>2, VolumeStep
  <2>2. CASE WriteReceipt(p)
    BY <1>1, <2>2, Stutters DEF WriteReceipt, Bound
  <2>3. CASE Fill(p)
    <3>1. image[f] = "staged" /\ image'[f] = "filled"
      BY <1>2, <2>3 DEF Fill, RestoreTypeInv, SetTyped
    <3> QED
      BY <1>1, <1>3, <3>1, Stutters DEF Bound
  <2>4. CASE Publish(p)
    <3>1. image[f] = "filled" /\ image'[f] = "published"
      BY <1>2, <2>4 DEF Publish, RestoreTypeInv, SetTyped
    <3>2. Data[f] = "staged" /\ (Data[f])' = "published"
      BY <3>1 DEF Data, Staged
    <3> QED
      BY <1>1, <1>3, <1>6, <3>2, VolumeStep
  <2>5. CASE DeleteStaging(p)
    <3>1. image[f] \in {"staged", "filled"} /\ image'[f] = "none"
      BY <1>2, <2>5 DEF DeleteStaging, Staged, RestoreTypeInv, SetTyped
    <3>2. Data[f] = "staged" /\ (Data[f])' = "none"
      BY <3>1 DEF Data, Staged
    <3> QED
      BY <1>1, <1>3, <1>6, <3>2, VolumeStep
  <2> QED
    BY <2>1, <2>2, <2>3, <2>4, <2>5
<1> QED
  BY <1>5, <1>7 DEF Keeps

LEMMA ReleaseEntrySteps ==
  ASSUME RestoreTypeInv, RestoreInv, NEW p \in Procs, ReleaseEntry(p)
  PROVE  Keeps(p)
<1>1. at[p] = "releasing" /\ Advance(p, "releasing", "release")
  BY DEF ReleaseEntry, Releasing
<1>2. PICK f \in SetProfiles :
        /\ f = Current(p)
        /\ Done(entry[p] + 1) = Done(entry[p]) \cup {f}
        /\ \A g \in Done(entry[p]) : image[g] = "none"
  BY <1>1, HostFacts
<1>3. UNCHANGED <<bindings, marks, image>> /\ AllMarked
  BY <1>1, HostFacts DEF ReleaseEntry, Releasing, fleetVars
<1>4. image[f] = "none" /\ receipt[f] # "complete" /\ receipt' = [receipt EXCEPT ![f] = "none"]
  BY <1>2 DEF ReleaseEntry
<1>5. \A g \in SetProfiles : marks'[g] # "restored"
  BY <1>3, <1>4 DEF RestoreInv, SetOK, AllComplete
<1>6. \A g \in SetProfiles : receipt'[g] = "complete" => receipt[g] = "complete"
  BY <1>4 DEF RestoreTypeInv, SetTyped
<1>7. SetOK'
  BY <1>3, <1>5, <1>6 DEF RestoreInv, SetOK, AllMarked, Bound
<1>8. (\A g \in Done(entry[p] + 1) : image'[g] = "none") /\ AllMarked'
  BY <1>2, <1>3, <1>4 DEF AllMarked
<1>9. SectionOK(p)'
  <2>1. CASE at'[p] = "releasing" /\ entry'[p] = entry[p] + 1
    BY <1>8, <2>1 DEF SectionOK, Counting
  <2>2. CASE at'[p] = "release" /\ entry'[p] = 1 /\ entry[p] = Len(Manifest)
    BY <1>8, <2>2, Entries DEF SectionOK, Counting, NothingStaged
  <2> QED
    BY <1>1, <2>1, <2>2, Advances, Lands
<1>10. AbstractStep
  BY <1>3, Stutters DEF Bound
<1> QED
  BY <1>7, <1>9, <1>10 DEF Keeps

LEMMA CompleteSteps ==
  ASSUME RestoreTypeInv, RestoreInv, NEW p \in Procs,
         OpenComplete(p) \/ WriteCompleted(p) \/ RemoveJournal(p)
  PROVE  Keeps(p)
<1>1. UNCHANGED <<bindings, marks, receipt, image>>
  BY DEF OpenComplete, WriteCompleted, RemoveJournal, fleetVars, restoreVars
<1>2. SetOK' /\ AbstractStep
  BY <1>1, SetStays
<1>3. at[p] \in {"complete", "completed"} => AllMarked' /\ AllComplete'
  BY <1>1 DEF RestoreInv, SectionOK, AllMarked, AllComplete
<1>4. CASE OpenComplete(p)
  BY <1>2, <1>3, <1>4, Lands DEF OpenComplete, Keeps, SectionOK, Counting
<1>5. CASE WriteCompleted(p)
  <2>1. \/ at'[p] = "restored"
        \/ at'[p] = "idle" /\ entry'[p] = 1
    <3>1. Advance(p, "restored", "idle")
      BY <1>5 DEF WriteCompleted
    <3> QED
      BY <3>1, Advances, Lands
  <2> QED
    BY <1>2, <1>3, <1>5, <2>1 DEF WriteCompleted, Keeps, SectionOK, Counting
<1>6. CASE RemoveJournal(p)
  <2>1. at'[p] = "idle" /\ entry'[p] = 1
    BY <1>6, Lands DEF RemoveJournal, Call, RestoreInv, SectionOK, Counting
  <2> QED
    BY <1>2, <2>1 DEF Keeps, SectionOK, Counting
<1> QED
  BY <1>4, <1>5, <1>6

LEMMA WriteRestoredSteps ==
  ASSUME RestoreTypeInv, RestoreInv, NEW p \in Procs, WriteRestored(p)
  PROVE  Keeps(p)
<1>1. PICK f \in SetProfiles : f = Current(p)
  BY Entries DEF RestoreTypeInv, SetTyped, Current
<1>2. /\ UNCHANGED <<bindings, receipt, image, entry>> /\ at'[p] = "completed"
      /\ marks' = [marks EXCEPT ![f] = "restored"] /\ marks[f] # "none"
  BY <1>1, Lands DEF WriteRestored, fleetVars
<1>3. AllMarked /\ AllComplete
  BY DEF WriteRestored, RestoreInv, SectionOK
<1>4. \A g \in SetProfiles : marks'[g] = IF g = f THEN "restored" ELSE marks[g]
  BY <1>2 DEF RestoreTypeInv, SetTyped
<1>5. AllMarked' /\ AllComplete'
  BY <1>2, <1>3, <1>4 DEF AllMarked, AllComplete
<1>6. SetOK'
  BY <1>2, <1>3, <1>5 DEF RestoreInv, SetOK, AllMarked, Bound
<1>7. SectionOK(p)'
  BY <1>2, <1>5 DEF SectionOK, Counting
<1>8. AbstractStep
  <2>1. Bound(f) /\ marks[f] \in {"pending", "restored"}
    BY <1>2 DEF RestoreInv, SetOK, RestoreTypeInv, SetTyped
  <2>2. CASE marks[f] = "restored"
    <3>1. marks' = marks
      BY <1>2, <2>2 DEF RestoreTypeInv, SetTyped
    <3> QED
      BY <1>2, <3>1, Stutters DEF Bound
  <2>3. CASE marks[f] = "pending"
    <3>1. Status[f] = "pending" /\ (Status[f])' = "restored"
      BY <1>2, <1>4, <2>1, <2>3 DEF Status, Bound
    <3>2. \A g \in SetProfiles : Data[g] = "published"
      BY <1>3 DEF Data, Staged, AllComplete, RestoreInv, SetOK
    <3> QED
      BY <1>2, <1>4, <3>1, <3>2, NameStep DEF Bound
  <2> QED
    BY <2>1, <2>2, <2>3
<1> QED
  BY <1>6, <1>7, <1>8 DEF Keeps

LEMMA ReleaseSteps ==
  ASSUME RestoreTypeInv, RestoreInv, NEW p \in Procs, OpenRelease(p) \/ Free(p)
  PROVE  Keeps(p)
<1>1. NothingStaged
  BY DEF OpenRelease, Free, RestoreInv, SectionOK
<1>2. UNCHANGED <<receipt, image>> /\ NothingStaged'
  BY <1>1 DEF OpenRelease, Free, restoreVars, NothingStaged
<1>3. CASE OpenRelease(p)
  <2>1. at'[p] = "free" /\ entry'[p] = 1
    BY <1>3, Lands DEF OpenRelease, restoreVars, RestoreInv, SectionOK, Counting
  <2>2. \A g \in Left(1) : Pending(g)'
    BY <1>3, Entries DEF OpenRelease, restoreVars, Pending
  <2>3. SetOK' /\ AbstractStep
    BY <1>3, SetStays DEF OpenRelease, fleetVars, restoreVars
  <2> QED
    BY <1>2, <2>1, <2>2, <2>3 DEF Keeps, SectionOK, Counting
<1>4. CASE Free(p)
  <2>1. PICK f \in SetProfiles :
          /\ f = Current(p) /\ f \in Profiles
          /\ f \in Left(entry[p])
          /\ Left(entry[p] + 1) = Left(entry[p]) \ {f}
          /\ Left(entry[p]) \subseteq SetProfiles
    BY Entries DEF RestoreTypeInv, SetTyped, Current
  <2>2. \A g \in Left(entry[p]) : marks[g] = "pending"
    BY <1>4 DEF Free, RestoreInv, SectionOK, Pending
  <2>3. /\ bindings' = [bindings EXCEPT ![f] = None]
        /\ marks' = [marks EXCEPT ![f] = "none"]
    BY <1>4, <2>1 DEF Free
  <2>4. \A g \in SetProfiles : /\ marks'[g] = IF g = f THEN "none" ELSE marks[g]
                               /\ Bound(g)' <=> g # f /\ Bound(g)
    BY <2>1, <2>3, Entries DEF Bound, RestoreTypeInv, SetTyped, FleetTypeOK
  <2>5. \A g \in SetProfiles : marks[g] # "restored" /\ receipt[g] # "complete"
    BY <1>1 DEF NothingStaged, RestoreInv, SetOK, AllComplete
  <2>6. SetOK'
    BY <1>1, <1>2, <2>4, <2>5 DEF RestoreInv, SetOK, NothingStaged
  <2>7. Advance(p, "free", "unjournal")
    BY <1>4 DEF Free
  <2>8. SectionOK(p)'
    <3>1. CASE at'[p] = "free" /\ entry'[p] = entry[p] + 1
      <4>1. \A g \in Left(entry[p] + 1) : Pending(g)'
        BY <2>1, <2>2, <2>4 DEF Pending
      <4> QED
        BY <1>2, <3>1, <4>1 DEF SectionOK, Counting
    <3>2. CASE at'[p] = "unjournal" /\ entry'[p] = 1
      BY <1>2, <3>2 DEF SectionOK, Counting
    <3> QED
      BY <2>7, <3>1, <3>2, Advances, Lands
  <2>9. AbstractStep
    <3>1. Status[f] = "pending" /\ (Status[f])' = "free"
      BY <2>1, <2>2, <2>4 DEF Status, RestoreInv, SetOK
    <3>2. \A g \in SetProfiles : Data[g] = "none"
      BY <1>1 DEF NothingStaged, Data, Staged
    <3> QED
      BY <1>2, <2>4, <3>1, <3>2, NameStep
  <2> QED
    BY <2>6, <2>8, <2>9 DEF Keeps
<1> QED
  BY <1>3, <1>4

\* The process and its entry are all that a step of the restore moves.
LEMMA RestoreMovesOne ==
  ASSUME RestoreTypeInv, NEW p \in Procs, RestoreStep(p)
  PROVE  \A q \in Procs \ {p} : at'[q] = at[q] /\ entry'[q] = entry[q]
<1>1. \A q \in Procs \ {p} : at'[q] = at[q]
  BY DEF RestoreStep, Reserve, Mark, OpenHost, Verify, CreateStaging, WriteReceipt, Fill, Publish,
         CompleteEntry, DeleteStaging, ReleaseEntry, OpenComplete, WriteRestored, WriteCompleted,
         OpenRelease, Free, RemoveJournal, Restoring, Releasing, Advance, Goto, Call, RestoreTypeInv,
         fleetVars
<1>2. \A q \in Procs \ {p} : entry'[q] = entry[q]
  BY DEF RestoreStep, Reserve, Mark, OpenHost, Verify, CreateStaging, WriteReceipt, Fill, Publish,
         CompleteEntry, DeleteStaging, ReleaseEntry, OpenComplete, WriteRestored, WriteCompleted,
         OpenRelease, Free, RemoveJournal, Restoring, Releasing, Advance, restoreVars, RestoreTypeInv,
         SetTyped
<1> QED
  BY <1>1, <1>2

LEMMA RestoreSteps ==
  ASSUME OneRestorer, RestoreTypeInv, RestoreInv, NEW p \in Procs, RestoreStep(p)
  PROVE  RestoreTypeInv' /\ RestoreInv' /\ AbstractStep
<1>1. RestoreTypeInv'
  BY RestoreStepTyped
<1>2. Keeps(p)
  BY ReserveSteps, MarkSteps, VerifySteps, VolumeSteps, ReleaseEntrySteps, CompleteSteps,
     WriteRestoredSteps, ReleaseSteps DEF RestoreStep
<1>3. at[p] \in RestoreLocations
  BY DEF RestoreStep, Reserve, Mark, OpenHost, Verify, CreateStaging, WriteReceipt, Fill, Publish,
         CompleteEntry, DeleteStaging, ReleaseEntry, OpenComplete, WriteRestored, WriteCompleted,
         OpenRelease, Free, RemoveJournal, Restoring, Releasing, RestoreLocations, Locking, Hosting
<1>4. \A q \in Procs \ {p} : at'[q] = at[q] /\ entry'[q] = entry[q]
  BY RestoreMovesOne
<1>5. \A q \in Procs \ {p} : SectionOK(q)'
  BY <1>3, <1>4, OtherSections
<1> QED
  BY <1>1, <1>2, <1>5 DEF Keeps, RestoreInv

LEMMA RestoreNextStep ==
  ASSUME OneRestorer, SetIsKept, RestoreTypeInv, RestoreInv, [RestoreNext]_all
  PROVE  RestoreTypeInv' /\ RestoreInv' /\ AbstractStep
<1>1. SetTyped
  BY DEF RestoreTypeInv
<1>2. ASSUME NEW p \in Procs, NEW op \in {"restore", "release"}, BeginRestore(p, op)
      PROVE  RestoreTypeInv' /\ RestoreInv' /\ AbstractStep
  <2>1. UNCHANGED <<fleetVars, marks, receipt, image, entry>>
    BY <1>2 DEF BeginRestore, restoreVars
  <2>2. RestoreTypeInv'
    <3>1. SetTyped'
      BY <1>1, <2>1 DEF SetTyped, FleetTypeOK, fleetVars
    <3>2. RestoreLocal(p, "reserve", Command(op)) /\ Moved(p, "reserve", Command(op))
      BY <1>2 DEF BeginRestore, RestoreLocal, RestoreLocations, Commands, Call, Goto, Moved
    <3>3. RestoreGoesOn(p)
      BY <3>2 DEF RestoreGoesOn
    <3> QED
      BY <3>1, <3>3, RestoreMoves
  <2>3. SetOK' /\ AbstractStep
    BY <2>1, SetStays DEF fleetVars
  <2>4. ASSUME NEW q \in Procs PROVE SectionOK(q)'
    <3>1. at'[q] = IF q = p THEN "reserve" ELSE at[q]
      BY <1>2 DEF BeginRestore, Call, Goto, RestoreTypeInv
    <3> QED
      BY <1>2, <2>1, <3>1 DEF BeginRestore, RestoreInv, SectionOK, Counting, AllMarked, AllComplete,
                              NothingStaged, Pending, Bound, fleetVars
  <2> QED
    BY <2>2, <2>3, <2>4 DEF RestoreInv
<1>3. ASSUME NEW p \in Procs, OrdinaryStep(p)
      PROVE  RestoreTypeInv' /\ RestoreInv' /\ AbstractStep
  <2>1. FleetTypeOK' /\ RestoreGoesOn(p) /\ OrdinaryEffect
    BY <1>3, OrdinarySteps
  <2>2. SetTyped'
    BY <1>1, <2>1 DEF SetTyped, OrdinaryEffect
  <2> QED
    BY <1>3, <2>1, <2>2, OrdinaryKeeps, RestoreMoves
<1>4. ASSUME NEW p \in Procs, RestoreFail(p)
      PROVE  RestoreTypeInv' /\ RestoreInv' /\ AbstractStep
  <2>1. /\ UNCHANGED <<fleetVars, marks, receipt, image>> /\ entry' = [entry EXCEPT ![p] = 1]
        /\ Call(p, "idle", NoJob)
    BY <1>4 DEF RestoreFail, Fail
  <2>2. RestoreTypeInv'
    <3>1. SetTyped'
      BY <1>1, <2>1, Entries DEF SetTyped, FleetTypeOK, fleetVars
    <3> QED
      BY <2>1, <3>1, SectionEnds, RestoreMoves
  <2>3. SetOK' /\ AbstractStep
    BY <2>1, SetStays DEF fleetVars
  <2>4. ASSUME NEW q \in Procs PROVE SectionOK(q)'
    <3>1. /\ at'[q] = IF q = p THEN "idle" ELSE at[q]
          /\ entry'[q] = IF q = p THEN 1 ELSE entry[q]
      BY <1>1, <2>1 DEF Call, Goto, RestoreTypeInv, SetTyped
    <3> QED
      BY <2>1, <3>1 DEF RestoreInv, SectionOK, Counting, AllMarked, AllComplete, NothingStaged, Pending,
                        Bound, fleetVars
  <2> QED
    BY <2>2, <2>3, <2>4 DEF RestoreInv
<1>5. CASE UNCHANGED all
  <2>1. UNCHANGED <<bindings, volumes, containers, targets, drawn, at, job, marks, receipt, image, entry>>
    BY <1>5 DEF all, vars, restoreVars
  <2>2. RestoreTypeInv'
    BY <1>1, <2>1 DEF RestoreTypeInv, SetTyped, FleetTypeOK, RestoreLocal, LocalOK
  <2>3. SetOK' /\ AbstractStep
    BY <2>1, SetStays
  <2>4. \A q \in Procs : SectionOK(q)'
    BY <2>1 DEF RestoreInv, SectionOK, AllMarked, AllComplete, NothingStaged, Pending, Bound
  <2> QED
    BY <2>2, <2>3, <2>4 DEF RestoreInv
<1> QED
  BY <1>2, <1>3, <1>4, <1>5, RestoreSteps DEF RestoreNext, OrdinaryStep

LEMMA RestoreBegins ==
  ASSUME RestoreInit
  PROVE  RestoreTypeInv /\ RestoreInv /\ Transaction!Init
<1>1. NoJob \in Job({"idle"}) /\ LocalOK("idle", NoJob)
  BY IdleOK DEF LocalOK
<1>2. RestoreTypeInv
  BY <1>1, Entries
  DEF RestoreInit, Init, InitWith, RestoreTypeInv, SetTyped, FleetTypeOK, Locations, RestoreLocal
<1>3. RestoreInv
  BY DEF RestoreInit, Init, InitWith, RestoreInv, SetOK, SectionOK, Counting
<1>4. Transaction!Init
  BY Entries DEF RestoreInit, Init, InitWith, Transaction!Init, Status, Data, Staged, Bound
<1> QED
  BY <1>2, <1>3, <1>4

(***************************************************************************)
(* Every name of a backup set is reserved before the host stages anything, *)
(* given out only when the host has all volumes, and let go only when it   *)
(* has none: for every set, however the commands of others run beside the  *)
(* restore and wherever it is interrupted and run again.  One process      *)
(* restores or releases: of two, one may let the names go over the volumes *)
(* the other has published.  Nobody deletes profiles of the set: the       *)
(* promise has no step for it.                                             *)
(***************************************************************************)
THEOREM TransactionTheorem ==
  ASSUME OneRestorer, SetIsKept
  PROVE  RestoreSpec => IsTransaction
<1>1. RestoreInit => RestoreTypeInv /\ RestoreInv /\ Transaction!Init
  BY RestoreBegins
<1>2. RestoreTypeInv /\ RestoreInv /\ [RestoreNext]_all => RestoreTypeInv' /\ RestoreInv' /\ AbstractStep
  BY RestoreNextStep
<1>3. RestoreTypeInv /\ RestoreInv /\ [RestoreNext]_all => [Transaction!Next]_(Transaction!tvars)
  BY <1>2 DEF AbstractStep
<1> QED
  BY <1>1, <1>2, <1>3, PTL DEF RestoreSpec, IsTransaction, Transaction!Spec

--------------------------------------------------------------------------------
(***************************************************************************)
(* What the ordinary commands are refused for: the journal and the names   *)
(* that are withheld.  Here any number of processes may restore and        *)
(* release, and profiles of the set may be deleted.                        *)
(***************************************************************************)
\* What an ordinary step may write, whoever deletes what.
Runs(p, f) == at[p] = "run" /\ job[p].profile = f
OrdinaryWrites(p) ==
  /\ UNCHANGED <<journal, receipt, entry>>
  /\ \/ UNCHANGED marks /\ (NamesStay \/ NameIsTaken)
     \/ NameIsDropped
  /\ SetTyped'
  /\ \A f \in SetProfiles : image'[f] = "used" => image[f] = "used" \/ Runs(p, f)

LEMMA AnyOrdinary ==
  ASSUME RestoreTypeInv, NEW p \in Procs, OrdinaryStep(p)
  PROVE  Typed(p) /\ GoesOn(p) /\ RestoreTypeInv' /\ OrdinaryWrites(p)
<1>1. Begin(p) \/ Step(p)
  BY DEF OrdinaryStep, OrdinaryBegin, ReadyStep, RunImage, RemoveImage, OtherStep, Step
<1>2. Typed(p) /\ FleetTypeOK' /\ GoesOn(p) /\ RestoreGoesOn(p)
  BY <1>1, OrdinaryTyped
<1>3. SetTyped
  BY DEF RestoreTypeInv
<1>4. UNCHANGED <<journal, receipt, entry>>
  BY DEF OrdinaryStep, OrdinaryBegin, ReadyStep, RunImage, RemoveImage, OtherStep, restoreVars
<1>5. UNCHANGED marks \/ DeleteBinding(p)
  BY DEF OrdinaryStep, OrdinaryBegin, ReadyStep, RunImage, RemoveImage, OtherStep, restoreVars
<1>6. /\ image' \in [SetProfiles -> {"none", "staged", "filled", "published", "used"}]
      /\ \A f \in SetProfiles : image'[f] = "used" => image[f] = "used" \/ Runs(p, f)
  <2>1. CASE UNCHANGED image
    BY <1>3, <2>1 DEF SetTyped
  <2>2. CASE RunImage(p)
    <3>1. at[p] = "run"
      BY <2>2 DEF RunImage, RunBrowser
    <3>2. \A f \in SetProfiles : f = ImageOf(p) => f = job[p].profile
      BY Entries, NoneAssumption DEF ImageOf
    <3> QED
      BY <1>3, <2>2, <3>1, <3>2 DEF RunImage, SetTyped, Runs
  <2>3. CASE RemoveImage(p)
    BY <1>3, <2>3 DEF RemoveImage, SetTyped
  <2> QED
    BY <2>1, <2>2, <2>3 DEF OrdinaryStep, OrdinaryBegin, ReadyStep, OtherStep, restoreVars
<1>7. /\ marks' \in [SetProfiles -> {"none", "pending", "restored"}]
      /\ (UNCHANGED marks /\ (NamesStay \/ NameIsTaken)) \/ NameIsDropped
  <2>1. CASE DeleteBinding(p)
    <3> DEFINE f == job[p].profile
    <3>1. f \in CliDeletes /\ f \in Profiles
      BY <1>2, <2>1 DEF DeleteBinding, Typed, LocalOK, Deleting, OnProfile
    <3>2. ReadyStep(p) /\ marks' = With(marks, f, "none")
      <4>1. ReadyStep(p)
        <5>1. ~ Begin(p)
          BY <2>1 DEF DeleteBinding, Begin, BeginCreate, BeginCreateProfile, BeginDestroy, BeginDeleteProfile
        <5> QED
          BY <2>1, <5>1 DEF DeleteBinding, OrdinaryStep, OrdinaryBegin, RunImage, RunBrowser, RemoveImage, RemoveProfile,
               OtherStep, EnsureProfile, Place, WriteTarget, RemoveContainer, RemoveTarget
      <4> QED
        BY <2>1, <4>1 DEF DeleteBinding, ReadyStep, ClearTarget, BindProfile, BindTarget
    <3>3. bindings' = [bindings EXCEPT ![f] = None]
      BY <2>1 DEF DeleteBinding
    <3>4. f \in SetProfiles => LocksFree
      BY <3>2 DEF ReadyStep, Unlocked
    <3> HIDE DEF f
    <3>5. \A g \in SetProfiles : /\ marks'[g] = IF g = f THEN "none" ELSE marks[g]
                                 /\ Bound(g)' <=> g # f /\ Bound(g)
      BY <1>3, <3>1, <3>2, <3>3, Entries DEF With, SetTyped, FleetTypeOK, Bound
    <3>6. marks' \in [SetProfiles -> {"none", "pending", "restored"}]
      BY <1>3, <3>2 DEF With, SetTyped
    <3>7. CASE f \in SetProfiles
      BY <3>1, <3>4, <3>5, <3>6, <3>7 DEF NameIsDropped
    <3>8. CASE f \notin SetProfiles
      BY <1>3, <3>2, <3>5, <3>6, <3>8 DEF NamesStay, With, SetTyped
    <3> QED
      BY <3>7, <3>8
  <2>2. CASE ~ DeleteBinding(p)
    BY <1>3, <1>5, <2>2, NamesKept DEF SetTyped
  <2> QED
    BY <2>1, <2>2
<1>8. SetTyped'
  BY <1>2, <1>3, <1>4, <1>6, <1>7 DEF SetTyped
<1>9. RestoreTypeInv'
  BY <1>2, <1>8, RestoreMoves
<1> QED
  BY <1>2, <1>4, <1>6, <1>7, <1>8, <1>9 DEF OrdinaryWrites

\* The types do not depend on who restores and what is deleted.
LEMMA RestoreTypeStep == RestoreTypeInv /\ [RestoreNext]_all => RestoreTypeInv'
<1> SUFFICES ASSUME RestoreTypeInv, [RestoreNext]_all PROVE RestoreTypeInv'
  OBVIOUS
<1>1. SetTyped
  BY DEF RestoreTypeInv
<1>2. ASSUME NEW p \in Procs, NEW op \in {"restore", "release"}, BeginRestore(p, op) PROVE RestoreTypeInv'
  <2>1. SetTyped'
    BY <1>1, <1>2 DEF BeginRestore, restoreVars, SetTyped, FleetTypeOK, fleetVars
  <2>2. RestoreLocal(p, "reserve", Command(op)) /\ Moved(p, "reserve", Command(op))
    BY <1>2 DEF BeginRestore, RestoreLocal, RestoreLocations, Commands, Call, Goto, Moved
  <2> QED
    BY <2>1, <2>2, RestoreMoves DEF RestoreGoesOn
<1>3. ASSUME NEW p \in Procs, RestoreFail(p) PROVE RestoreTypeInv'
  <2>1. SetTyped'
    BY <1>1, <1>3, Entries DEF RestoreFail, Fail, SetTyped, FleetTypeOK, fleetVars
  <2> QED
    BY <1>3, <2>1, SectionEnds, RestoreMoves DEF RestoreFail, Fail
<1>4. CASE UNCHANGED all
  BY <1>1, <1>4 DEF RestoreTypeInv, SetTyped, FleetTypeOK, RestoreLocal, LocalOK, all, vars, restoreVars
<1> QED
  BY <1>2, <1>3, <1>4, RestoreStepTyped, AnyOrdinary DEF RestoreNext, OrdinaryStep

\* What a process knows while it has the profile locks.
LockedOK(p) ==
  /\ at[p] \notin Counting => entry[p] = 1
  /\ at[p] \in {"mark", "restored", "completed", "free"} => journal # None
  /\ at[p] = "mark" => \A f \in SetProfiles : Bound(f) => marks[f] # "none"
  /\ at[p] = "free" => /\ \A f \in Done(entry[p]) : ~ Pending(f)
                       /\ \A f \in Left(entry[p]) : Pending(f)
  /\ at[p] = "unjournal" => \A f \in SetProfiles : ~ Pending(f)

MarkedIsBound == \A f \in SetProfiles : marks[f] # "none" => Bound(f)
OneLocks == \A p, q \in Procs : at[p] \in Locking /\ at[q] \in Locking => p = q
JournalTyped == journal \in {None} \cup SUBSET SetProfiles

(***************************************************************************)
(* The locks of the names go from one process to the next, the journal is  *)
(* there from the first mark to the last, and a release removes it only    *)
(* when it has let every name go.                                          *)
(***************************************************************************)
LockInv ==
  /\ JournalTyped /\ OneLocks /\ MarkedIsBound /\ JournalCovers
  /\ \A p \in Procs : LockedOK(p)

\* Names and journal as they were, or changed by the only process with the locks.
LEMMA OthersLocked ==
  ASSUME LockInv, NEW p \in Procs, \A q \in Procs \ {p} : at'[q] = at[q] /\ entry'[q] = entry[q],
         \/ UNCHANGED <<marks, journal>> /\ NamesStay
         \/ LocksFree
         \/ at[p] \in Locking
  PROVE  \A q \in Procs \ {p} : LockedOK(q)'
<1> SUFFICES ASSUME NEW q \in Procs \ {p} PROVE LockedOK(q)'
  OBVIOUS
<1>1. LockedOK(q) /\ at'[q] = at[q] /\ entry'[q] = entry[q]
  BY DEF LockInv
<1>2. CASE at[q] \in Locking
  <2>1. UNCHANGED <<marks, journal>> /\ NamesStay
    BY <1>2 DEF LocksFree, LockInv, OneLocks
  <2> QED
    BY <1>1, <2>1 DEF LockedOK, NamesStay, Pending
<1>3. CASE at[q] \notin Locking
  BY <1>1, <1>3 DEF LockedOK, Locking
<1> QED
  BY <1>2, <1>3

\* The locks are taken only when they are free.
LEMMA LocksTaken ==
  ASSUME OneLocks, NEW p \in Procs, \A q \in Procs \ {p} : at'[q] = at[q],
         at'[p] \in Locking => at[p] \in Locking \/ LocksFree
  PROVE  OneLocks'
BY DEF OneLocks, LocksFree

\* A step of the restore changes names and journal only with the locks, and leaves them in order.
Keyed(p) ==
  /\ JournalTyped' /\ MarkedIsBound' /\ JournalCovers' /\ LockedOK(p)'
  /\ at'[p] \in Locking => at[p] \in Locking \/ LocksFree
  /\ UNCHANGED <<marks, journal, bindings>> \/ LocksFree \/ at[p] \in Locking

LEMMA ReserveKeyed ==
  ASSUME RestoreTypeInv, LockInv, NEW p \in Procs, Reserve(p)
  PROVE  Keyed(p)
<1>1. LocksFree /\ UNCHANGED <<bindings, marks, entry>> /\ at'[p] = "mark" /\ at[p] = "reserve"
  BY Lands DEF Reserve, fleetVars
<1>2. journal' # None /\ JournalTyped'
  BY RestoreAssumption DEF Reserve, LockInv, JournalTyped
<1>3. \A f \in SetProfiles : Bound(f)' => marks'[f] # "none"
  BY <1>1 DEF Reserve, Bound
<1>4. LockedOK(p)'
  BY <1>1, <1>2, <1>3 DEF LockedOK, Counting
<1>5. MarkedIsBound' /\ JournalCovers'
  BY <1>1, <1>2 DEF LockInv, MarkedIsBound, JournalCovers, Bound
<1> QED
  BY <1>1, <1>2, <1>4, <1>5 DEF Keyed

LEMMA MarkKeyed ==
  ASSUME RestoreTypeInv, LockInv, NEW p \in Procs, Mark(p)
  PROVE  Keyed(p)
<1> PICK f \in SetProfiles : f = Current(p)
  BY Entries DEF RestoreTypeInv, SetTyped, Current
<1>1. at[p] = "mark" /\ journal # None /\ UNCHANGED journal /\ at[p] \in Locking
  BY DEF Mark, LockInv, LockedOK, Locking
<1>2. f \in Profiles /\ [backend |-> Destination, target |-> None] # None
  BY RestoreAssumption, NoneAssumption, Entries DEF Binding
<1>3. \A g \in SetProfiles : /\ marks'[g] = IF g = f /\ marks[f] = "none" THEN "pending" ELSE marks[g]
                             /\ Bound(g)' <=> Bound(g) \/ (g = f /\ marks[f] = "none")
  <2>1. CASE marks[f] = "none"
    <3>1. /\ bindings' = [bindings EXCEPT ![f] = [backend |-> Destination, target |-> None]]
          /\ marks' = [marks EXCEPT ![f] = "pending"]
      BY <2>1 DEF Mark
    <3> QED
      BY <1>2, <2>1, <3>1, Entries DEF Bound, RestoreTypeInv, SetTyped, FleetTypeOK
  <2>2. CASE marks[f] # "none"
    BY <2>2 DEF Mark, Bound
  <2> QED
    BY <2>1, <2>2
<1>4. \A g \in SetProfiles : Bound(g)' => marks'[g] # "none"
  BY <1>1, <1>3 DEF LockInv, LockedOK
<1>5. MarkedIsBound' /\ JournalCovers' /\ JournalTyped'
  BY <1>1, <1>3 DEF LockInv, MarkedIsBound, JournalCovers, JournalTyped
<1>6. at'[p] = "mark" \/ (at'[p] = "host" /\ entry'[p] = 1)
  <2>1. Advance(p, "mark", "host")
    BY DEF Mark
  <2> QED
    BY <2>1, Advances, Lands
<1>7. LockedOK(p)'
  BY <1>1, <1>4, <1>6 DEF LockedOK, Counting
<1> QED
  BY <1>1, <1>5, <1>7 DEF Keyed

\* The host's sections have nothing to do with the names.
LEMMA HostKeyed ==
  ASSUME RestoreTypeInv, LockInv, NEW p \in Procs,
         \/ OpenHost(p) \/ Verify(p) \/ CreateStaging(p) \/ WriteReceipt(p) \/ Fill(p) \/ Publish(p)
         \/ CompleteEntry(p) \/ DeleteStaging(p) \/ ReleaseEntry(p)
  PROVE  Keyed(p)
<1>1. UNCHANGED <<bindings, marks, journal>>
  BY DEF OpenHost, Verify, CreateStaging, WriteReceipt, Fill, Publish, CompleteEntry, DeleteStaging,
         ReleaseEntry, Restoring, Releasing, fleetVars, restoreVars
<1>2. at'[p] \in Hosting \/ (at'[p] \in {"complete", "release"} /\ entry'[p] = 1)
  <2>1. CASE OpenHost(p)
    BY <2>1, Lands DEF OpenHost, Hosting
  <2>2. CASE CreateStaging(p) \/ WriteReceipt(p) \/ Fill(p) \/ Publish(p) \/ DeleteStaging(p)
    BY <2>2 DEF CreateStaging, WriteReceipt, Fill, Publish, DeleteStaging, Restoring, Releasing, Hosting
  <2>3. CASE Verify(p) \/ CompleteEntry(p)
    <3>1. Advance(p, "restoring", "complete")
      BY <2>3 DEF Verify, CompleteEntry
    <3> QED
      BY <3>1, Advances, Lands DEF Hosting
  <2>4. CASE ReleaseEntry(p)
    <3>1. Advance(p, "releasing", "release")
      BY <2>4 DEF ReleaseEntry
    <3> QED
      BY <3>1, Advances, Lands DEF Hosting
  <2> QED
    BY <2>1, <2>2, <2>3, <2>4
<1>3. LockedOK(p)'
  BY <1>2 DEF LockedOK, Counting, Hosting
<1>4. JournalTyped' /\ MarkedIsBound' /\ JournalCovers'
  BY <1>1 DEF LockInv, MarkedIsBound, JournalCovers, JournalTyped, Bound, Pending
<1> QED
  BY <1>1, <1>2, <1>3, <1>4 DEF Keyed, Locking, Hosting

LEMMA CompleteKeyed ==
  ASSUME RestoreTypeInv, LockInv, NEW p \in Procs, OpenComplete(p) \/ WriteRestored(p) \/ WriteCompleted(p)
  PROVE  Keyed(p)
<1>1. UNCHANGED bindings /\ (at[p] \in Locking \/ LocksFree) /\ journal # None
  BY DEF OpenComplete, WriteRestored, WriteCompleted, LockInv, LockedOK, Locking, fleetVars
<1>2. journal' # None /\ JournalTyped'
  <2>1. CASE OpenComplete(p) \/ WriteRestored(p)
    BY <1>1, <2>1 DEF OpenComplete, WriteRestored, LockInv, JournalTyped, restoreVars
  <2>2. CASE WriteCompleted(p)
    <3>1. Current(p) \in SetProfiles
      BY Entries DEF RestoreTypeInv, SetTyped, Current
    <3>2. journal' \in SUBSET SetProfiles
      BY <1>1, <2>2, <3>1 DEF WriteCompleted, LockInv, JournalTyped
    <3> QED
      BY <3>2, RestoreAssumption DEF JournalTyped
  <2> QED
    BY <2>1, <2>2
<1>3. MarkedIsBound' /\ JournalCovers'
  <2>1. CASE OpenComplete(p) \/ WriteCompleted(p)
    BY <1>1, <1>2, <2>1 DEF OpenComplete, WriteCompleted, LockInv, MarkedIsBound, JournalCovers, Bound, restoreVars
  <2>2. CASE WriteRestored(p)
    BY <1>1, <1>2, <2>2
    DEF WriteRestored, LockInv, MarkedIsBound, JournalCovers, AtHome, Bound, RestoreTypeInv, SetTyped
  <2> QED
    BY <2>1, <2>2
<1>4. at'[p] \in {"restored", "completed"} \/ (at'[p] = "idle" /\ entry'[p] = 1)
  <2>1. CASE OpenComplete(p) \/ WriteRestored(p)
    BY <2>1, Lands DEF OpenComplete, WriteRestored
  <2>2. CASE WriteCompleted(p)
    <3>1. Advance(p, "restored", "idle")
      BY <2>2 DEF WriteCompleted
    <3> QED
      BY <3>1, Advances, Lands
  <2> QED
    BY <2>1, <2>2
<1>5. LockedOK(p)'
  BY <1>2, <1>4 DEF LockedOK, Counting
<1> QED
  BY <1>1, <1>2, <1>3, <1>5 DEF Keyed

LEMMA ReleaseKeyed ==
  ASSUME RestoreTypeInv, LockInv, NEW p \in Procs, OpenRelease(p) \/ Free(p) \/ RemoveJournal(p)
  PROVE  Keyed(p)
<1>1. CASE OpenRelease(p)
  <2>1. UNCHANGED <<bindings, marks, journal, entry>> /\ LocksFree /\ journal # None /\ at'[p] = "free"
    BY <1>1, Lands DEF OpenRelease, fleetVars, restoreVars
  <2>2. entry'[p] = 1
    BY <1>1, <2>1 DEF OpenRelease, LockInv, LockedOK, Counting
  <2>3. LockedOK(p)'
    BY <1>1, <2>1, <2>2, Entries DEF OpenRelease, LockedOK, Pending, Counting
  <2> QED
    BY <2>1, <2>3 DEF Keyed, LockInv, JournalTyped, MarkedIsBound, JournalCovers, Bound, Pending
<1>2. CASE Free(p)
  <2>1. PICK f \in SetProfiles :
          /\ f = Current(p) /\ f \in Profiles
          /\ f \in Left(entry[p])
          /\ Left(entry[p] + 1) = Left(entry[p]) \ {f}
          /\ Done(entry[p] + 1) = Done(entry[p]) \cup {f}
          /\ Left(entry[p]) \subseteq SetProfiles /\ Done(entry[p]) \subseteq SetProfiles
    BY Entries DEF RestoreTypeInv, SetTyped, Current
  <2>2. /\ \A g \in Left(entry[p]) : marks[g] = "pending"
        /\ \A g \in Done(entry[p]) : marks[g] # "pending"
        /\ journal # None /\ at[p] \in Locking
    BY <1>2 DEF Free, LockInv, LockedOK, Pending, Locking
  <2>3. /\ bindings' = [bindings EXCEPT ![f] = None]
        /\ marks' = [marks EXCEPT ![f] = "none"]
        /\ UNCHANGED journal
    BY <1>2, <2>1 DEF Free
  <2>4. \A g \in SetProfiles : /\ marks'[g] = IF g = f THEN "none" ELSE marks[g]
                               /\ Bound(g)' <=> g # f /\ Bound(g)
    BY <2>1, <2>3, Entries DEF Bound, RestoreTypeInv, SetTyped, FleetTypeOK
  <2>5. JournalTyped' /\ MarkedIsBound' /\ JournalCovers'
    BY <2>2, <2>3, <2>4 DEF LockInv, JournalTyped, MarkedIsBound, JournalCovers
  <2>6. /\ \A g \in Left(entry[p] + 1) : Pending(g)'
        /\ \A g \in Done(entry[p] + 1) : ~ Pending(g)'
    BY <2>1, <2>2, <2>4 DEF Pending
  <2>7. Advance(p, "free", "unjournal")
    BY <1>2 DEF Free
  <2>8. LockedOK(p)'
    <3>1. CASE at'[p] = "free" /\ entry'[p] = entry[p] + 1
      BY <2>2, <2>3, <2>6, <3>1 DEF LockedOK, Counting
    <3>2. CASE at'[p] = "unjournal" /\ entry'[p] = 1 /\ entry[p] = Len(Manifest)
      BY <2>6, <3>2, Entries DEF LockedOK, Counting
    <3> QED
      BY <2>7, <3>1, <3>2, Advances, Lands
  <2> QED
    BY <2>2, <2>5, <2>8 DEF Keyed
<1>3. CASE RemoveJournal(p)
  <2>1. /\ UNCHANGED <<bindings, marks, entry>> /\ journal' = None /\ at[p] = "unjournal" /\ at'[p] = "idle"
    BY <1>3 DEF RemoveJournal, fleetVars, Call, Goto, RestoreTypeInv
  <2>2. \A f \in SetProfiles : marks[f] # "pending"
    BY <2>1 DEF LockInv, LockedOK, Pending
  <2>3. JournalTyped' /\ MarkedIsBound' /\ JournalCovers'
    BY <2>1, <2>2 DEF LockInv, JournalTyped, MarkedIsBound, JournalCovers, Bound, Pending
  <2>4. LockedOK(p)'
    BY <2>1 DEF LockedOK, Counting, LockInv
  <2> QED
    BY <2>1, <2>3, <2>4 DEF Keyed, Locking
<1> QED
  BY <1>1, <1>2, <1>3

LEMMA LockStep == RestoreTypeInv /\ LockInv /\ [RestoreNext]_all => LockInv'
<1> SUFFICES ASSUME RestoreTypeInv, LockInv, [RestoreNext]_all PROVE LockInv'
  OBVIOUS
<1>1. ASSUME NEW p \in Procs, NEW op \in {"restore", "release"}, BeginRestore(p, op) PROVE LockInv'
  <2>1. /\ UNCHANGED <<bindings, marks, journal, entry>> /\ at[p] = "idle"
        /\ \A q \in Procs : at'[q] = IF q = p THEN "reserve" ELSE at[q]
    BY <1>1 DEF BeginRestore, fleetVars, restoreVars, Call, Goto, RestoreTypeInv
  <2>2. LockedOK(p)'
    BY <2>1 DEF LockInv, LockedOK, Counting
  <2>3. \A q \in Procs \ {p} : LockedOK(q)'
    BY <2>1, OthersLocked DEF NamesStay, Bound
  <2>4. OneLocks'
    BY <2>1, LocksTaken DEF LockInv, Locking
  <2> QED
    BY <2>1, <2>2, <2>3, <2>4 DEF LockInv, JournalTyped, MarkedIsBound, JournalCovers, Bound, Pending
<1>2. ASSUME NEW p \in Procs, RestoreStep(p) PROVE LockInv'
  <2>1. Keyed(p)
    BY <1>2, ReserveKeyed, MarkKeyed, HostKeyed, CompleteKeyed, ReleaseKeyed DEF RestoreStep
  <2>2. \A q \in Procs \ {p} : at'[q] = at[q] /\ entry'[q] = entry[q]
    BY <1>2, RestoreMovesOne
  <2>3. \A q \in Procs \ {p} : LockedOK(q)'
    BY <2>1, <2>2, OthersLocked DEF Keyed, NamesStay, Bound
  <2>4. OneLocks'
    BY <2>1, <2>2, LocksTaken DEF LockInv, Keyed
  <2> QED
    BY <2>1, <2>3, <2>4 DEF Keyed, LockInv
<1>3. ASSUME NEW p \in Procs, OrdinaryStep(p) PROVE LockInv'
  <2>1. Typed(p) /\ GoesOn(p) /\ OrdinaryWrites(p)
    BY <1>3, AnyOrdinary
  <2>2. PICK l, j : LocalOK(l, j) /\ Moved(p, l, j)
    BY <2>1 DEF GoesOn
  <2>3. \A q \in Procs : at'[q] = (IF q = p THEN l ELSE at[q]) /\ entry'[q] = entry[q]
    BY <2>1, <2>2 DEF Moved, Typed, OrdinaryWrites
  <2>4. {at[p], l} \cap (RestoreLocations \cup Counting) = {}
    BY <2>1, <2>2, OutsideLocals DEF Typed
  <2>5. LockedOK(p)'
    BY <2>3, <2>4 DEF LockInv, LockedOK, RestoreLocations, Locking
  <2>6. \/ UNCHANGED <<marks, journal>> /\ NamesStay
        \/ LocksFree
    BY <2>1 DEF OrdinaryWrites, NameIsTaken, NameIsDropped
  <2>7. \A q \in Procs \ {p} : LockedOK(q)'
    BY <2>3, <2>6, OthersLocked
  <2>8. OneLocks'
    BY <2>3, <2>4, LocksTaken DEF LockInv, RestoreLocations
  <2>9. \A f \in SetProfiles : marks'[f] # "none" => marks'[f] = marks[f] /\ (Bound(f) => Bound(f)')
    BY <2>1 DEF OrdinaryWrites, NamesStay, NameIsTaken, NameIsDropped
  <2>10. MarkedIsBound' /\ JournalCovers' /\ JournalTyped'
    BY <2>1, <2>9 DEF OrdinaryWrites, LockInv, MarkedIsBound, JournalCovers, JournalTyped, Pending
  <2> QED
    BY <2>5, <2>7, <2>8, <2>10 DEF LockInv
<1>4. ASSUME NEW p \in Procs, RestoreFail(p) PROVE LockInv'
  <2>1. /\ UNCHANGED <<bindings, marks, journal>>
        /\ \A q \in Procs : /\ at'[q] = IF q = p THEN "idle" ELSE at[q]
                            /\ entry'[q] = IF q = p THEN 1 ELSE entry[q]
    BY <1>4 DEF RestoreFail, Fail, fleetVars, Call, Goto, RestoreTypeInv, SetTyped
  <2>2. LockedOK(p)'
    BY <2>1 DEF LockedOK
  <2>3. \A q \in Procs \ {p} : LockedOK(q)'
    BY <2>1, OthersLocked DEF NamesStay, Bound
  <2>4. OneLocks'
    BY <2>1, LocksTaken DEF LockInv, Locking
  <2> QED
    BY <2>1, <2>2, <2>3, <2>4 DEF LockInv, JournalTyped, MarkedIsBound, JournalCovers, Bound, Pending
<1>5. CASE UNCHANGED all
  BY <1>5 DEF all, vars, restoreVars, LockInv, LockedOK, OneLocks, JournalTyped, MarkedIsBound, JournalCovers,
              Bound, Pending
<1> QED
  BY <1>1, <1>2, <1>3, <1>4, <1>5 DEF RestoreNext, OrdinaryStep

LEMMA LockBegins == RestoreInit => RestoreTypeInv /\ LockInv
BY RestoreBegins
DEF RestoreInit, Init, InitWith, LockInv, LockedOK, OneLocks, JournalTyped, MarkedIsBound, JournalCovers, Pending,
    Locking

(***************************************************************************)
(* Wherever a reservation, its completion or its release is interrupted,   *)
(* a name that is still reserved has its journal (JournalCovers), without  *)
(* which the command would refuse to complete or to release it: whatever   *)
(* processes restore and release the set beside each other.                *)
(***************************************************************************)
THEOREM JournalTheorem == RestoreSpec => []JournalCovers
<1>1. RestoreInit => RestoreTypeInv /\ LockInv
  BY LockBegins
<1>2. RestoreTypeInv /\ LockInv /\ [RestoreNext]_all => (RestoreTypeInv /\ LockInv)'
  BY RestoreTypeStep, LockStep
<1>3. LockInv => JournalCovers
  BY DEF LockInv
<1> QED
  BY <1>1, <1>2, <1>3, PTL DEF RestoreSpec

--------------------------------------------------------------------------------
(***************************************************************************)
(* A name that is reserved, or that nobody has, is one that no browser has *)
(* been started on: whoever is about to start one has bound the name, and  *)
(* was refused while it was reserved.  The names of deleted profiles are   *)
(* excepted: their bindings go while a creation is under way.              *)
(***************************************************************************)
Untouched(f) ==
  /\ image[f] # "used"
  /\ \A c \in containers : c.profile # f
  /\ \A p \in Procs : at[p] \in {"place", "run"} => job[p].profile # f

Withheld(f) == Pending(f) \/ ~ Bound(f)
PristineInv == \A f \in SetProfiles \ CliDeletes : Withheld(f) => Untouched(f)

\* The step of p starts a browser on f, or comes to the point where it will.
Touches(p, f) ==
  \/ image'[f] = "used" /\ image[f] # "used"
  \/ \E c \in containers' \ containers : c.profile = f
  \/ at'[p] \in {"place", "run"} /\ job'[p].profile = f

\* A profile that was withheld and that no step touches.
LEMMA StaysUntouched ==
  ASSUME PristineInv, NEW p \in Procs, NEW f \in SetProfiles \ CliDeletes, Withheld(f),
         \A q \in Procs \ {p} : at'[q] = at[q] /\ job'[q] = job[q], ~ Touches(p, f)
  PROVE  Untouched(f)'
BY DEF PristineInv, Untouched, Touches

\* Only a process that has found the profile ready comes to start a browser on it.
LEMMA OrdinaryTouches ==
  ASSUME RestoreTypeInv, PristineInv, NEW p \in Procs, OrdinaryStep(p),
         NEW f \in SetProfiles \ CliDeletes, Withheld(f), Withheld(f)'
  PROVE  ~ Touches(p, f)
<1>1. Typed(p) /\ GoesOn(p) /\ OrdinaryWrites(p)
  BY AnyOrdinary
<1>2. Untouched(f)
  BY DEF PristineInv
<1>3. image'[f] = "used" => image[f] = "used"
  BY <1>1, <1>2 DEF OrdinaryWrites, Runs, Untouched
<1>4. \A c \in containers' \ containers : c.profile # f
  <2>1. CASE RunBrowser(p)
    BY <1>2, <2>1 DEF RunBrowser, Untouched
  <2>2. CASE ~ RunBrowser(p)
    <3>1. Begin(p) => UNCHANGED containers
      BY <1>1, Begins DEF fleetVars, Typed
    <3>2. containers' \subseteq containers
      BY <2>2, <3>1
      DEF OrdinaryStep, OrdinaryBegin, ReadyStep, ClearTarget, BindProfile, BindTarget, DeleteBinding, RunImage,
          RemoveImage, RemoveProfile, OtherStep, EnsureProfile, Place, WriteTarget, RemoveContainer, RemoveTarget
    <3> QED
      BY <3>2
  <2> QED
    BY <2>1, <2>2
<1>5. ASSUME at'[p] \in {"place", "run"} PROVE job'[p].profile # f
  <2>1. CASE Place(p)
    <3>1. PICK n \in AllNames : job' = [job EXCEPT ![p].name = n]
      BY <2>1 DEF Place
    <3>2. at[p] = "place" /\ job[p] \in Job({"idle"})
      BY <1>1, <2>1 DEF Place, Typed, LocalOK
    <3>3. job'[p].profile = job[p].profile
      BY <1>1, <3>1, <3>2 DEF Typed, Job
    <3> QED
      BY <1>2, <3>2, <3>3 DEF Untouched
  <2>2. CASE BindProfile(p) /\ ReadyStep(p)
    <3> DEFINE g == job[p].profile
    <3>1. g \in Profiles /\ job'[p] = job[p] /\ job[p].backend \in Backends
      BY <1>1, <2>2 DEF BindProfile, Typed, LocalOK, OnBackend, OnProfile
    <3>2. g \in SetProfiles => ~ Pending(g)'
      BY <2>2 DEF ReadyStep, Ready, BindProfile, ClearTarget, DeleteBinding, BindTarget, Pending
    <3>3. Bound(g)'
      <4>1. [backend |-> job[p].backend, target |-> None] # None
        BY <3>1, NoneAssumption DEF Binding
      <4> QED
        BY <1>1, <2>2, <3>1, <4>1 DEF BindProfile, BindTo, Bound, Typed, FleetTypeOK
    <3> QED
      BY <3>1, <3>2, <3>3 DEF Withheld
  <2>3. CASE OrdinaryBegin(p)
    <3>1. \E l \in {"bind", "ensure", "remove", "removeProfile"} : Goto(p, l)
      <4>1. ASSUME NEW j, ChooseBackend(p, j) PROVE Goto(p, "ensure") \/ Goto(p, "bind")
        BY <4>1 DEF ChooseBackend, Call
      <4>2. ASSUME NEW j, FindTarget(p, j) PROVE Goto(p, "remove")
        BY <4>2 DEF FindTarget, Call
      <4>3. ASSUME NEW j, ChooseProfile(p, j) PROVE Goto(p, "removeProfile")
        BY <4>3 DEF ChooseProfile, Call
      <4> QED
        BY <2>3, <4>1, <4>2, <4>3
        DEF OrdinaryBegin, Begin, BeginCreate, BeginCreateProfile, BeginDestroy, BeginDeleteProfile
    <3> QED
      BY <1>1, <1>5, <3>1 DEF Goto, Typed
  <2>4. ASSUME BindTarget(p) \/ EnsureProfile(p) \/ ClearTarget(p) \/ DeleteBinding(p) PROVE FALSE
    BY <1>1, <1>5, <2>4, Returns DEF BindTarget, EnsureProfile, ClearTarget, DeleteBinding, Moved, Typed
  <2>5. ASSUME RunBrowser(p) \/ WriteTarget(p) \/ RemoveContainer(p) PROVE FALSE
    BY <1>1, <1>5, <2>5 DEF RunBrowser, WriteTarget, RemoveContainer, Goto, Typed
  <2>6. ASSUME RemoveTarget(p) \/ RemoveProfile(p) PROVE FALSE
    <3>1. Return(p) \/ Goto(p, "unbind") \/ Goto(p, "deleteBinding")
      BY <2>6 DEF RemoveTarget, RemoveProfile
    <3> QED
      BY <1>1, <1>5, <3>1, Returns DEF Goto, Moved, Typed
  <2> QED
    BY <2>1, <2>2, <2>3, <2>4, <2>5, <2>6 DEF OrdinaryStep, ReadyStep, RunImage, RemoveImage, OtherStep
<1> QED
  BY <1>3, <1>4, <1>5 DEF Touches

\* The restore takes and gives out names, and starts no browser.
LEMMA RestoreTouches ==
  ASSUME RestoreTypeInv, LockInv, NEW p \in Procs, RestoreStep(p), NEW f \in SetProfiles
  PROVE  ~ Touches(p, f) /\ (Withheld(f)' => Withheld(f))
<1>1. UNCHANGED containers
  BY DEF RestoreStep, Reserve, Mark, OpenHost, Verify, CreateStaging, WriteReceipt, Fill, Publish,
         CompleteEntry, DeleteStaging, ReleaseEntry, OpenComplete, WriteRestored, WriteCompleted,
         OpenRelease, Free, RemoveJournal, Restoring, Releasing, fleetVars
<1>2. image'[f] = "used" => image[f] = "used"
  BY DEF RestoreStep, Reserve, Mark, OpenHost, Verify, CreateStaging, WriteReceipt, Fill, Publish,
         CompleteEntry, DeleteStaging, ReleaseEntry, OpenComplete, WriteRestored, WriteCompleted,
         OpenRelease, Free, RemoveJournal, Restoring, Releasing, restoreVars, RestoreTypeInv, SetTyped
<1>3. at'[p] \notin {"place", "run"}
  <2>1. at[p] \in RestoreLocations
    BY DEF RestoreStep, Reserve, Mark, OpenHost, Verify, CreateStaging, WriteReceipt, Fill, Publish,
           CompleteEntry, DeleteStaging, ReleaseEntry, OpenComplete, WriteRestored, WriteCompleted,
           OpenRelease, Free, RemoveJournal, Restoring, Releasing, RestoreLocations, Locking, Hosting
  <2>2. p \in Restorers /\ job[p] \in Commands
    BY <2>1, InSection
  <2> QED
    BY <2>1 DEF RestoreStep, Reserve, Mark, OpenHost, Verify, CreateStaging, WriteReceipt, Fill, Publish,
         CompleteEntry, DeleteStaging, ReleaseEntry, OpenComplete, WriteRestored, WriteCompleted,
         OpenRelease, Free, RemoveJournal, Restoring, Releasing, Advance, Goto, Call, RestoreTypeInv,
         RestoreLocations, Locking, Hosting
<1>4. Withheld(f)' => Withheld(f)
  <2>1. CASE Mark(p)
    <3>1. marks[f] = "none" => ~ Bound(f)
      BY <2>1 DEF Mark, LockInv, LockedOK
    <3>2. marks[f] = "restored" /\ Bound(f) => marks'[f] = "restored" /\ Bound(f)'
      <4>1. Current(p) \in SetProfiles /\ [backend |-> Destination, target |-> None] # None
        BY RestoreAssumption, NoneAssumption, Entries DEF Binding, RestoreTypeInv, SetTyped, Current
      <4> QED
        BY <2>1, <4>1, Entries DEF Mark, Bound, RestoreTypeInv, SetTyped, FleetTypeOK
    <3> QED
      BY <3>1, <3>2 DEF Withheld, Pending, RestoreTypeInv, SetTyped
  <2>2. CASE Free(p)
    <3>1. Current(p) \in SetProfiles /\ Pending(Current(p))
      BY <2>2, Entries DEF Free, LockInv, LockedOK, RestoreTypeInv, SetTyped, Current
    <3>2. f # Current(p) => marks'[f] = marks[f] /\ bindings'[f] = bindings[f]
      BY <2>2, <3>1, Entries DEF Free, RestoreTypeInv, SetTyped, FleetTypeOK
    <3> QED
      BY <3>1, <3>2 DEF Withheld, Pending, Bound
  <2>3. CASE WriteRestored(p)
    BY <2>3 DEF WriteRestored, fleetVars, Withheld, Pending, Bound, RestoreTypeInv, SetTyped
  <2>4. CASE ~ (Mark(p) \/ Free(p) \/ WriteRestored(p))
    BY <2>4
    DEF RestoreStep, Reserve, OpenHost, Verify, CreateStaging, WriteReceipt, Fill, Publish,
        CompleteEntry, DeleteStaging, ReleaseEntry, OpenComplete, WriteCompleted,
        OpenRelease, RemoveJournal, Restoring, Releasing, fleetVars, restoreVars, Withheld, Pending, Bound
  <2> QED
    BY <2>1, <2>2, <2>3, <2>4
<1> QED
  BY <1>1, <1>2, <1>3, <1>4 DEF Touches

LEMMA PristineStep ==
  RestoreTypeInv /\ LockInv /\ PristineInv /\ [RestoreNext]_all => PristineInv'
<1> SUFFICES ASSUME RestoreTypeInv, LockInv, PristineInv, [RestoreNext]_all,
                    NEW f \in SetProfiles \ CliDeletes, Withheld(f)'
             PROVE  Untouched(f)'
  BY DEF PristineInv
<1>1. ASSUME NEW p \in Procs, NEW op \in {"restore", "release"}, BeginRestore(p, op) PROVE Untouched(f)'
  <2>1. UNCHANGED <<fleetVars, marks, image>> /\ at' = [at EXCEPT ![p] = "reserve"]
        /\ job' = [job EXCEPT ![p] = Command(op)]
    BY <1>1 DEF BeginRestore, restoreVars, Call, Goto
  <2>2. Withheld(f) /\ ~ Touches(p, f)
    BY <2>1 DEF Withheld, Pending, Bound, Touches, fleetVars, RestoreTypeInv
  <2> QED
    BY <2>1, <2>2, StaysUntouched DEF RestoreTypeInv
<1>2. ASSUME NEW p \in Procs, RestoreStep(p) PROVE Untouched(f)'
  <2>1. Withheld(f) /\ ~ Touches(p, f)
    BY <1>2, RestoreTouches
  <2>2. \A q \in Procs \ {p} : at'[q] = at[q] /\ job'[q] = job[q]
    <3>1. \A q \in Procs \ {p} : at'[q] = at[q]
      BY <1>2, RestoreMovesOne
    <3>2. \A q \in Procs \ {p} : job'[q] = job[q]
      BY <1>2
      DEF RestoreStep, Reserve, Mark, OpenHost, Verify, CreateStaging, WriteReceipt, Fill, Publish,
          CompleteEntry, DeleteStaging, ReleaseEntry, OpenComplete, WriteRestored, WriteCompleted,
          OpenRelease, Free, RemoveJournal, Restoring, Releasing, Call, RestoreTypeInv
    <3> QED
      BY <3>1, <3>2
  <2> QED
    BY <2>1, <2>2, StaysUntouched
<1>3. ASSUME NEW p \in Procs, OrdinaryStep(p) PROVE Untouched(f)'
  <2>1. Typed(p) /\ GoesOn(p) /\ OrdinaryWrites(p)
    BY <1>3, AnyOrdinary
  <2>2. \A q \in Procs \ {p} : at'[q] = at[q] /\ job'[q] = job[q]
    BY <2>1 DEF GoesOn, Moved, Typed
  <2>3. Withheld(f)
    BY <2>1 DEF OrdinaryWrites, Withheld, Pending, NamesStay, NameIsTaken, NameIsDropped
  <2> QED
    BY <1>3, <2>2, <2>3, OrdinaryTouches, StaysUntouched
<1>4. ASSUME NEW p \in Procs, RestoreFail(p) PROVE Untouched(f)'
  <2>1. UNCHANGED <<fleetVars, marks, image>> /\ at' = [at EXCEPT ![p] = "idle"]
        /\ job' = [job EXCEPT ![p] = NoJob]
    BY <1>4 DEF RestoreFail, Fail, Call, Goto
  <2>2. Withheld(f) /\ ~ Touches(p, f)
    BY <2>1 DEF Withheld, Pending, Bound, Touches, fleetVars, RestoreTypeInv
  <2> QED
    BY <2>1, <2>2, StaysUntouched DEF RestoreTypeInv
<1>5. CASE UNCHANGED all
  BY <1>5 DEF all, vars, restoreVars, Withheld, Pending, Bound, PristineInv, Untouched
<1> QED
  BY <1>1, <1>2, <1>3, <1>4, <1>5 DEF RestoreNext, OrdinaryStep

(***************************************************************************)
(* "Ordinary profile launch, export, import, and deletion refuse pending   *)
(* restore bindings" (ADR 0018): until a restored volume is given out no   *)
(* browser mounts it or has written to it, so that the host does not       *)
(* refuse the retry (PendingIsPristine).  The creations that had begun     *)
(* before the name was reserved are no exception.                          *)
(***************************************************************************)
THEOREM PristineTheorem == RestoreSpec => []PendingIsPristine
<1>1. RestoreInit => RestoreTypeInv /\ LockInv /\ PristineInv
  BY LockBegins, Entries DEF RestoreInit, Init, InitWith, PristineInv, Untouched
<1>2. RestoreTypeInv /\ LockInv /\ PristineInv /\ [RestoreNext]_all => (RestoreTypeInv /\ LockInv /\ PristineInv)'
  BY RestoreTypeStep, LockStep, PristineStep
<1>3. PristineInv => PendingIsPristine
  BY DEF PristineInv, PendingIsPristine, Withheld, Untouched, Mounted, HeldOn
<1> QED
  BY <1>1, <1>2, <1>3, PTL DEF RestoreSpec
================================================================================
