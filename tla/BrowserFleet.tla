----------------------------- MODULE BrowserFleet -----------------------------
(***************************************************************************)
(* BrowserFleet (cli/fleet.ts) over its BrowserFarms (cli/farm.ts) and the *)
(* profile bindings (cli/profile-binding.ts): which backend keeps a        *)
(* profile's volume, which target runs it, and the receipts that say so.   *)
(*                                                                         *)
(* Several short-lived CLI processes run operations at once.  A read that  *)
(* an operation takes outside the locks is a step of its own.  A section   *)
(* under the allocation lock is one step per change, and no two processes  *)
(* are in such sections together (MkdirLock: ExclusiveUntilStale); a       *)
(* section under a profile lock makes one change and is one step.          *)
(*                                                                         *)
(* An error is thrown to the command line and undoes nothing, and so does  *)
(* a crash: Fail ends the operation wherever it is and leaves the state as *)
(* it stands.  Every throw of the code, of a backend that is unreachable,  *)
(* of a check that refuses and of waitReady is a Fail; the other actions   *)
(* are the steps that succeed and carry those checks as guards.            *)
(*                                                                         *)
(* Not here: slots and ports, images, archives, and the import and restore *)
(* marks of a binding.                                                     *)
(***************************************************************************)
EXTENDS Naturals, FiniteSets

CONSTANTS
  Procs,        \* CLI and provider processes
  Profiles,     \* profile names
  Backends,     \* configured farms
  Names,        \* target names a user gives to "agentbrowse create"
  Tokens,       \* incarnated target names still to be drawn (bound)
  CliProfiles,  \* bound: the profiles that create and profile create are used on
  CliDeletes,   \* bound: the profiles that profile delete is used on
  None

ASSUME ConstantAssumption ==
  /\ Names \cap Tokens = {}
  /\ CliProfiles \subseteq Profiles
  /\ CliDeletes \subseteq Profiles

VARIABLES
  bindings,    \* profile-bindings/profiles/*.json
  volumes,     \* the backends' profile volumes
  containers,  \* the backends' containers
  targets,     \* the target receipts in the runtime directory
  drawn,       \* incarnated names drawn so far
  at,          \* where each process is in its operation
  job          \* the operation's local variables

fleetVars == <<bindings, volumes, containers, targets, drawn>>
vars == <<bindings, volumes, containers, targets, drawn, at, job>>

AllNames == Names \cup Tokens
Binding == [backend : Backends, target : AllNames \cup {None}]
Volume == [profile : Profiles, backend : Backends]
Container == [name : AllNames, profile : Profiles, backend : Backends]
Receipt == [profile : Profiles, backend : Backends]

ASSUME NoneAssumption ==
  None \notin Binding \cup Receipt \cup Profiles \cup Backends \cup AllNames

Ops == {"provision", "create", "createProfile", "destroy", "deleteProfile"}
Job(returns) == [op : Ops, profile : Profiles \cup {None}, name : AllNames \cup {None},
                 backend : Backends \cup {None}, bound : BOOLEAN, next : returns]

NewJob(op, f, n) == [op |-> op, profile |-> f, name |-> n, backend |-> None,
                     bound |-> FALSE, next |-> "idle"]
NoJob == NewJob("provision", None, None)

\* Mutant of AllocationFree: no allocation lock.
NoAllocationLock == TRUE

\* Sections under the runtime directory's one allocation lock.
Allocating == {"run", "record", "unrecord"}
Locations == {"idle", "bind", "ensure", "place", "await", "remove", "unbind",
              "removeProfile", "deleteBinding"} \cup Allocating
AllocationFree == \A p \in Procs : at[p] \notin Allocating

InitWith(vs) ==
  /\ bindings = [f \in Profiles |-> None]
  /\ volumes = vs
  /\ containers = {}
  /\ targets = [n \in AllNames |-> None]
  /\ drawn = {}
  /\ at = [p \in Procs |-> "idle"]
  /\ job = [p \in Procs |-> NoJob]

Init == InitWith({})

Goto(p, l) == at' = [at EXCEPT ![p] = l]

\* The operation is over: its caller goes on, and its locals are gone unless the caller uses them.
Return(p) ==
  /\ Goto(p, job[p].next)
  /\ job' = [job EXCEPT ![p] = IF @.next = "idle" THEN NoJob ELSE @]

Call(p, entry, j) ==
  /\ Goto(p, entry)
  /\ job' = [job EXCEPT ![p] = j]

HeldOn(b) == {c \in containers : c.backend = b}
Bound(f) == bindings[f] # None
HomeOf(f) == {v.backend : v \in {w \in volumes : w.profile = f}}

--------------------------------------------------------------------------------
(* provisionProfile, create and createProfile *)

\* The binding and the target receipt decide the backend; without either, selectForMutation
\* takes the first farm that answers and has room, which may be any of them.
ChooseBackend(p, j) ==
  /\ LET f == j.profile
         targetFarm == IF j.name # None /\ targets[j.name] # None
                       THEN {targets[j.name].backend} ELSE {}
         profileFarm == IF Bound(f) THEN {bindings[f].backend} ELSE {}
         named == targetFarm \cup profileFarm
     IN /\ Cardinality(named) <= 1
        /\ \E b \in IF named = {} THEN Backends ELSE named :
             Call(p, IF j.op = "createProfile" /\ Bound(f) THEN "ensure" ELSE "bind",
                  [j EXCEPT !.backend = b])
  /\ UNCHANGED fleetVars

\* Mutant of BindTo: a new binding is checked for and not written.
BindToNothing(f, b) ==
  /\ Bound(f) => bindings[f].backend = b
  /\ UNCHANGED bindings

\* bindings.bindProfile, under the profile lock.
BindTo(f, b) ==
  /\ Bound(f) => bindings[f].backend = b
  /\ bindings' = [bindings EXCEPT ![f] = IF @ = None THEN [backend |-> b, target |-> None] ELSE @]

BindProfile(p) ==
  /\ at[p] = "bind"
  /\ BindTo(job[p].profile, job[p].backend)
  /\ Goto(p, IF job[p].op = "createProfile" THEN "ensure" ELSE "place")
  /\ UNCHANGED <<volumes, containers, targets, drawn, job>>

EnsureVolume(f, b) == volumes' = volumes \cup {[profile |-> f, backend |-> b]}

\* farm.createProfile.
EnsureProfile(p) ==
  /\ at[p] = "ensure"
  /\ AllocationFree
  /\ EnsureVolume(job[p].profile, job[p].backend)
  /\ Return(p)
  /\ UNCHANGED <<bindings, containers, targets, drawn>>

\* farm.provisionProfile's name: the profile's only target on this backend, or a fresh incarnation.
ProvisionName(p, n) ==
  LET profileTargets == {c \in HeldOn(job[p].backend) : c.profile = job[p].profile}
  IN IF profileTargets = {}
     THEN n \in Tokens \ drawn
     ELSE {n} = {c.name : c \in profileTargets}

\* Mutant of MayPlace: only the target's own name is checked, not who holds the profile.
MayPlaceName(f, b, n) ==
  /\ targets[n] # None => targets[n] = [profile |-> f, backend |-> b]
  /\ \A c \in HeldOn(b) : c.name = n => c.profile = f

\* The target receipt, the target's container and the profile's container agree.
MayPlace(f, b, n) ==
  /\ targets[n] # None => targets[n] = [profile |-> f, backend |-> b]
  /\ \A c \in HeldOn(b) : c.name = n <=> c.profile = f

\* Take the allocation lock, choose the name, run prepareCreate's checks, ensureProfile.
Place(p) ==
  /\ at[p] = "place"
  /\ AllocationFree
  /\ LET f == job[p].profile
         b == job[p].backend
     IN \E n \in AllNames :
          /\ IF job[p].op = "create" THEN n = job[p].name ELSE ProvisionName(p, n)
          /\ MayPlace(f, b, n)
          /\ EnsureVolume(f, b)
          /\ job' = [job EXCEPT ![p].name = n]
          /\ drawn' = IF n \in Tokens THEN drawn \cup {n} ELSE drawn
  /\ Goto(p, "run")
  /\ UNCHANGED <<bindings, containers, targets>>

\* runBrowser, or startContainer when it is there already.
RunBrowser(p) ==
  /\ at[p] = "run"
  /\ containers' = containers \cup
       {[name |-> job[p].name, profile |-> job[p].profile, backend |-> job[p].backend]}
  /\ Goto(p, "record")
  /\ UNCHANGED <<bindings, volumes, targets, drawn, job>>

\* writeTarget, then release the allocation lock.
WriteTarget(p) ==
  /\ at[p] = "record"
  /\ targets' = [targets EXCEPT ![job[p].name] =
                   [profile |-> job[p].profile, backend |-> job[p].backend]]
  /\ Goto(p, "await")
  /\ UNCHANGED <<bindings, volumes, containers, drawn, job>>

\* waitReady succeeded; bindings.bindTarget, under the profile lock.
BindTarget(p) ==
  /\ at[p] = "await"
  /\ LET f == job[p].profile
         b == job[p].backend
     IN /\ Bound(f) => bindings[f].backend = b
        /\ bindings' = [bindings EXCEPT ![f] = [backend |-> b, target |-> job[p].name]]
  /\ Return(p)
  /\ UNCHANGED <<volumes, containers, targets, drawn>>

--------------------------------------------------------------------------------
(* destroy *)

\* The command line's destroy: the target receipt's farm, or the one that lists the name;
\* the first farm when none does.  A release names the farm and begins at "remove".
FindTarget(p, j) ==
  /\ LET n == j.name
         listed == {c.backend : c \in {d \in containers : d.name = n}}
         farms == IF targets[n] # None THEN {targets[n].backend}
                  ELSE IF listed # {} THEN listed ELSE Backends
     IN \E b \in farms : Call(p, "remove", [j EXCEPT !.backend = b])
  /\ UNCHANGED fleetVars

\* destroyTarget: take the allocation lock and remove the container, if it is there and is
\* the one the receipt describes.  The profile of the result is the caller's hint, the
\* receipt's or the container's.
RemoveContainer(p) ==
  /\ at[p] = "remove"
  /\ AllocationFree
  /\ LET n == job[p].name
         b == job[p].backend
         recorded == targets[n]
         found == {c \in HeldOn(b) : c.name = n}
         profileOf == {c.profile : c \in found}
     IN /\ recorded # None => recorded.backend = b /\ profileOf \subseteq {recorded.profile}
        /\ containers' = containers \ found
        /\ \E f \in IF job[p].profile # None THEN {job[p].profile}
                    ELSE IF recorded # None THEN {recorded.profile}
                    ELSE IF found # {} THEN profileOf ELSE {None} :
             job' = [job EXCEPT ![p].profile = f]
  /\ Goto(p, "unrecord")
  /\ UNCHANGED <<bindings, volumes, targets, drawn>>

\* removeTarget, then release the allocation lock.
RemoveTarget(p) ==
  /\ at[p] = "unrecord"
  /\ targets' = [targets EXCEPT ![job[p].name] = None]
  /\ IF job[p].profile = None THEN Return(p) ELSE Goto(p, "unbind") /\ UNCHANGED job
  /\ UNCHANGED <<bindings, volumes, containers, drawn>>

\* clearDestroyedTarget, under the profile lock.
ClearTarget(p) ==
  /\ at[p] = "unbind"
  /\ bindings' = [bindings EXCEPT ![job[p].profile] =
       IF @ # None /\ @ = [backend |-> job[p].backend, target |-> job[p].name]
       THEN [@ EXCEPT !.target = None] ELSE @]
  /\ Return(p)
  /\ UNCHANGED <<volumes, containers, targets, drawn>>

--------------------------------------------------------------------------------
(* deleteProfile *)

ChooseProfile(p, j) ==
  /\ LET f == j.profile
         homes == HomeOf(f)
     IN /\ Bound(f) \/ Cardinality(homes) <= 1
        /\ \E b \in IF Bound(f) THEN {bindings[f].backend}
                    ELSE IF homes # {} THEN homes ELSE Backends :
             Call(p, "removeProfile", [j EXCEPT !.backend = b, !.bound = Bound(f)])
  /\ UNCHANGED fleetVars

\* farm.deleteProfile, under the allocation lock: refused while a container mounts the volume.
RemoveProfile(p) ==
  /\ at[p] = "removeProfile"
  /\ AllocationFree
  /\ LET v == [profile |-> job[p].profile, backend |-> job[p].backend]
     IN /\ v \in volumes => \A c \in HeldOn(v.backend) : c.profile # v.profile
        /\ volumes' = volumes \ {v}
  /\ IF job[p].bound THEN Goto(p, "deleteBinding") /\ UNCHANGED job ELSE Return(p)
  /\ UNCHANGED <<bindings, containers, targets, drawn>>

\* bindings.delete, under the profile lock: whatever target the binding names by now.
DeleteBinding(p) ==
  /\ at[p] = "deleteBinding"
  /\ LET f == job[p].profile
     IN /\ Bound(f) => bindings[f].backend = job[p].backend
        /\ bindings' = [bindings EXCEPT ![f] = None]
  /\ Return(p)
  /\ UNCHANGED <<volumes, containers, targets, drawn>>

--------------------------------------------------------------------------------
(* The command line *)

BeginCreate(p, f, n) ==
  /\ at[p] = "idle"
  /\ f \in CliProfiles
  /\ ChooseBackend(p, NewJob("create", f, n))

BeginCreateProfile(p, f) ==
  /\ at[p] = "idle"
  /\ f \in CliProfiles
  /\ ChooseBackend(p, NewJob("createProfile", f, None))

\* agentbrowse destroy NAME passes neither a backend nor a profile.
BeginDestroy(p, n) ==
  /\ at[p] = "idle"
  /\ n \in Names \cup drawn
  /\ FindTarget(p, NewJob("destroy", None, n))

BeginDeleteProfile(p, f) ==
  /\ at[p] = "idle"
  /\ f \in CliDeletes
  /\ ChooseProfile(p, NewJob("deleteProfile", f, None))

Begin(p) ==
  \/ \E f \in Profiles : \/ \E n \in Names : BeginCreate(p, f, n)
                         \/ BeginCreateProfile(p, f)
                         \/ BeginDeleteProfile(p, f)
  \/ \E n \in AllNames : BeginDestroy(p, n)

Step(p) ==
  \/ BindProfile(p) \/ EnsureProfile(p)
  \/ Place(p) \/ RunBrowser(p) \/ WriteTarget(p) \/ BindTarget(p)
  \/ RemoveContainer(p) \/ RemoveTarget(p) \/ ClearTarget(p)
  \/ RemoveProfile(p) \/ DeleteBinding(p)

Fail(p) ==
  /\ at[p] # "idle"
  /\ Call(p, "idle", NoJob)
  /\ UNCHANGED fleetVars

Next == \E p \in Procs : Begin(p) \/ Step(p) \/ Fail(p)

Spec == Init /\ [][Next]_vars

--------------------------------------------------------------------------------
FleetTypeOK ==
  /\ bindings \in [Profiles -> Binding \cup {None}]
  /\ volumes \subseteq Volume
  /\ containers \subseteq Container
  /\ targets \in [AllNames -> Receipt \cup {None}]
  /\ drawn \subseteq Tokens

TypeOK ==
  /\ FleetTypeOK
  /\ at \in [Procs -> Locations]
  /\ job \in [Procs -> Job({"idle"})]

HasOneHome(f) == Cardinality(HomeOf(f)) <= 1

(***************************************************************************)
(* What creation does promise: a profile that nobody deletes has one home, *)
(* although the backend is chosen before the profile lock is taken and the *)
(* volume is created after it was let go.                                  *)
(***************************************************************************)
SingleHome == \A f \in Profiles \ CliDeletes : HasOneHome(f)

(***************************************************************************)
(* And its binding never names another backend than the one with the       *)
(* profile's data, so a saved sign-in is never looked for on the wrong     *)
(* host.                                                                   *)
(***************************************************************************)
BindingIsHome ==
  \A v \in volumes : v.profile \notin CliDeletes /\ Bound(v.profile)
                     => bindings[v.profile].backend = v.backend

(***************************************************************************)
(* The volume under a container is there for as long as the container:     *)
(* profile deletion and container creation never pass each other, even     *)
(* with operations that end half-way.                                      *)
(***************************************************************************)
MountedVolumeExists ==
  \A c \in containers : [profile |-> c.profile, backend |-> c.backend] \in volumes

(***************************************************************************)
(* A volume is "attached to at most one VM" (docs/local-runtime.md).       *)
(***************************************************************************)
MountedOnce ==
  \A c, d \in containers : c.profile = d.profile /\ c.backend = d.backend => c = d

(***************************************************************************)
(* A binding stops naming a target, or names another one, only when the    *)
(* container it named is gone.  The code does not keep this: clearTarget   *)
(* and the deletion of a binding take the profile lock long after the      *)
(* allocation lock was let go, when a creation may have used the name      *)
(* again.                                                                  *)
(***************************************************************************)
IsTargetOf(f, n) == Bound(f) /\ bindings[f].target = n
ForgetsOnlyGoneTargets ==
  [][\A c \in containers :
       IsTargetOf(c.profile, c.name) /\ bindings[c.profile].backend = c.backend /\ c \in containers'
       => IsTargetOf(c.profile, c.name)']_vars
================================================================================
