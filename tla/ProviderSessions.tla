---------------------------- MODULE ProviderSessions ----------------------------
(***************************************************************************)
(* ProviderSessions (cli/sessions.ts): session leases over BrowserFleet.   *)
(* prepare, launch and release run from start to end under the registry    *)
(* lock and call the fleet's operations as subroutines; the command line's *)
(* own create, destroy, profile create and profile delete (Begin of        *)
(* BrowserFleet) take no registry lock and come between any two steps.     *)
(*                                                                         *)
(* A session operation that throws, or whose process dies, ends with Fail  *)
(* and leaves its receipt; the registry lock comes free (MkdirLock).       *)
(*                                                                         *)
(* A release by the provider passes the cleanup record that its launch     *)
(* returned; a record that differs from the receipt makes it throw, which  *)
(* is a Fail, so the record itself is not kept here.                       *)
(***************************************************************************)
EXTENDS BrowserFleet

CONSTANTS
  Sessions,        \* driver session names
  providerProfileName,  \* the profile name a session has when none is chosen
  LegacyProfiles,  \* durable profiles from before there were bindings
  SavedProfiles,   \* bound: the profiles that session prepare --profile names
  Leases,          \* lease tokens still to be drawn (bound)
  MAX_DISPOSABLE_SESSIONS

Target == [name : AllNames, backend : Backends]
SessionReceipt == [profile : Profiles, persistent : BOOLEAN, lease : Leases,
                   target : Target \cup {None}]

ASSUME SessionAssumption ==
  /\ providerProfileName \in [Sessions -> Profiles]
  /\ SavedProfiles \subseteq Profiles
  /\ LegacyProfiles \subseteq Profiles
  /\ MAX_DISPOSABLE_SESSIONS \in Nat
  /\ None \notin Sessions \cup Leases \cup Procs \cup SessionReceipt

VARIABLES
  receipts,  \* provider-sessions/*.json
  registry,  \* the process that holds the registry lock
  issued,    \* lease tokens drawn so far
  call       \* the session operation's own local variables

sessionVars == <<receipts, registry, issued, call>>
allVars == <<vars, sessionVars>>

CallRecord == [session : Sessions \cup {None}, profile : Profiles \cup {None},
               launching : BOOLEAN, home : Backends \cup {None}, lease : Leases \cup {None}]
NoCall == [session |-> None, profile |-> None, launching |-> FALSE, home |-> None, lease |-> None]

SessionInit ==
  /\ \E home \in [LegacyProfiles -> Backends] :
       InitWith({[profile |-> f, backend |-> home[f]] : f \in LegacyProfiles})
  /\ receipts = [s \in Sessions |-> None]
  /\ registry = None
  /\ issued = {}
  /\ call = [p \in Procs |-> NoCall]

\* Mutant of Owners: a lease that has not launched yet is overlooked.
LaunchedOwners(f) ==
  {s \in Sessions : receipts[s] # None /\ receipts[s].profile = f /\ receipts[s].target # None}

Owners(f) == {s \in Sessions : receipts[s] # None /\ receipts[s].profile = f}
Disposable == {s \in Sessions : receipts[s] # None /\ ~ receipts[s].persistent}

Enter(p, l, c) ==
  /\ at[p] = "idle"
  /\ registry = None
  /\ registry' = p
  /\ Goto(p, l)
  /\ call' = [call EXCEPT ![p] = c]
  /\ UNCHANGED <<fleetVars, job, receipts, issued>>

\* The operation ends and lets the registry lock go.
Leave(p) ==
  /\ Call(p, "idle", NoJob)
  /\ call' = [call EXCEPT ![p] = NoCall]
  /\ registry' = None

--------------------------------------------------------------------------------
(* prepare and launch *)

BeginPrepare(p, s, f) ==
  Enter(p, "prepare", [NoCall EXCEPT !.session = s, !.profile = f])

BeginLaunch(p, s) ==
  Enter(p, "prepare", [NoCall EXCEPT !.session = s, !.launching = TRUE])

\* What launch does once prepareLocked has returned the session's receipt.
Prepared(p, f) ==
  IF call[p].launching
  THEN /\ Call(p, "choose", [NoJob EXCEPT !.profile = f, !.next = "launched"])
       /\ UNCHANGED <<call, registry>>
  ELSE Leave(p)

PrepareAgain(p) ==
  /\ at[p] = "prepare"
  /\ LET receipt == receipts[call[p].session]
     IN /\ receipt # None
        /\ call[p].profile # None => receipt.persistent /\ receipt.profile = call[p].profile
        /\ Prepared(p, receipt.profile)
  /\ UNCHANGED <<fleetVars, receipts, issued>>

Named(p) == IF call[p].profile # None THEN call[p].profile ELSE providerProfileName[call[p].session]

\* A profile that has a binding, or a volume on one backend, has a home; a session with
\* no chosen profile whose own name has a home takes that durable profile.
FindHome(p) ==
  /\ at[p] = "prepare"
  /\ receipts[call[p].session] = None
  /\ LET matches == HomeOf(Named(p))
     IN IF Bound(Named(p))
        THEN /\ call' = [call EXCEPT ![p].home = bindings[Named(p)].backend]
             /\ Goto(p, "lease")
        ELSE IF matches = {}
        THEN Goto(p, "lease") /\ UNCHANGED call
        ELSE /\ Cardinality(matches) = 1
             /\ \E b \in matches : call' = [call EXCEPT ![p].home = b]
             /\ Goto(p, "adopt")
  /\ UNCHANGED <<fleetVars, job, receipts, registry, issued>>

\* bindings.bindProfile for a volume that had no binding.
Adopt(p) ==
  /\ at[p] = "adopt"
  /\ BindTo(Named(p), call[p].home)
  /\ Goto(p, "lease")
  /\ UNCHANGED <<volumes, containers, targets, drawn, job, sessionVars>>

IsLive(f) == \/ Bound(f) /\ bindings[f].target # None
             \/ \E c \in containers : c.profile = f

\* The owner, target and capacity checks, then the new receipt.
WriteLease(p) ==
  /\ at[p] = "lease"
  /\ LET chosen == call[p].profile # None
         persistent == chosen \/ call[p].home # None
     IN /\ IF persistent
           THEN /\ Owners(Named(p)) = {}
                /\ chosen => ~ IsLive(Named(p))
           ELSE Cardinality(Disposable) < MAX_DISPOSABLE_SESSIONS
        /\ \E l \in Leases \ issued :
             /\ receipts' = [receipts EXCEPT ![call[p].session] =
                  [profile |-> Named(p), persistent |-> persistent, lease |-> l, target |-> None]]
             /\ issued' = issued \cup {l}
  /\ Prepared(p, Named(p))
  /\ UNCHANGED fleetVars

\* provisionProfile begins.
Provision(p) ==
  /\ at[p] = "choose"
  /\ ChooseBackend(p, job[p])
  /\ UNCHANGED sessionVars

\* provisionProfile returned: record the target in the receipt.
Launched(p) ==
  /\ at[p] = "launched"
  /\ receipts' = [receipts EXCEPT ![call[p].session].target =
                    [name |-> job[p].name, backend |-> job[p].backend]]
  /\ Leave(p)
  /\ UNCHANGED <<fleetVars, issued>>

--------------------------------------------------------------------------------
(* release *)

BeginRelease(p, s, l) ==
  /\ l \in issued
  /\ Enter(p, "release", [NoCall EXCEPT !.session = s, !.lease = l])

\* Mutant of HoldsLease: the session name is enough.
HoldsSession(p) == receipts[call[p].session] # None

HoldsLease(p) ==
  LET receipt == receipts[call[p].session]
  IN receipt # None /\ receipt.lease = call[p].lease

\* Another lease, or none: { released: false }.
ReleaseStale(p) ==
  /\ at[p] = "release"
  /\ ~ HoldsLease(p)
  /\ Leave(p)
  /\ UNCHANGED <<fleetVars, receipts, issued>>

\* The target to clean up: the receipt's, else the binding's, else the only one listed.
Release(p) ==
  /\ at[p] = "release"
  /\ HoldsLease(p)
  /\ LET receipt == receipts[call[p].session]
         f == receipt.profile
         published == IF Bound(f) /\ bindings[f].target # None
                      THEN {[name |-> bindings[f].target, backend |-> bindings[f].backend]} ELSE {}
         listed == IF Bound(f)
                   THEN {[name |-> c.name, backend |-> c.backend] : c \in {d \in containers : d.profile = f}}
                   ELSE {}
         found == IF receipt.target # None THEN {receipt.target}
                  ELSE IF published # {} THEN published ELSE listed
     IN /\ Cardinality(found) <= 1
        /\ receipt.target # None => \A t \in published : t.name = receipt.target.name
        /\ IF found = {}
           THEN Goto(p, "released") /\ UNCHANGED job
           ELSE \E t \in found :
                  Call(p, "remove", [NoJob EXCEPT !.op = "destroy", !.profile = f, !.name = t.name,
                                                  !.backend = t.backend, !.next = "released"])
        /\ call' = [call EXCEPT ![p].home = IF Bound(f) THEN bindings[f].backend ELSE None]
  /\ UNCHANGED <<fleetVars, receipts, registry, issued>>

\* Mutant of Released: the kind of the lease is not looked at.
ReleasedDeletes(p) ==
  /\ at[p] = "released"
  /\ IF call[p].home # None
     THEN Call(p, "findProfile", [NoJob EXCEPT !.op = "deleteProfile",
                 !.profile = receipts[call[p].session].profile, !.next = "unlease"])
     ELSE Goto(p, "unlease") /\ UNCHANGED job
  /\ UNCHANGED <<fleetVars, sessionVars>>

\* Mutant of Released: the profile is left behind.
ReleasedKeeps(p) ==
  /\ at[p] = "released"
  /\ Goto(p, "unlease")
  /\ UNCHANGED <<fleetVars, job, sessionVars>>

\* The target is gone; a disposable lease that had a binding deletes its profile.
Released(p) ==
  /\ at[p] = "released"
  /\ LET receipt == receipts[call[p].session]
     IN IF ~ receipt.persistent /\ call[p].home # None
        THEN Call(p, "findProfile", [NoJob EXCEPT !.op = "deleteProfile",
                                       !.profile = receipt.profile, !.next = "unlease"])
        ELSE Goto(p, "unlease") /\ UNCHANGED job
  /\ UNCHANGED <<fleetVars, sessionVars>>

\* deleteProfile begins.
DeleteDisposable(p) ==
  /\ at[p] = "findProfile"
  /\ ChooseProfile(p, job[p])
  /\ UNCHANGED sessionVars

RemoveReceipt(p) ==
  /\ at[p] = "unlease"
  /\ receipts' = [receipts EXCEPT ![call[p].session] = None]
  /\ Leave(p)
  /\ UNCHANGED <<fleetVars, issued>>

--------------------------------------------------------------------------------
BeginSession(p) ==
  \E s \in Sessions :
    \/ \E f \in SavedProfiles \cup {None} : BeginPrepare(p, s, f)
    \/ BeginLaunch(p, s)
    \/ \E l \in Leases : BeginRelease(p, s, l)

SessionStep(p) ==
  \/ PrepareAgain(p) \/ FindHome(p) \/ Adopt(p) \/ WriteLease(p) \/ Provision(p)
  \/ Launched(p) \/ ReleaseStale(p) \/ Release(p) \/ Released(p) \/ DeleteDisposable(p)
  \/ RemoveReceipt(p)

SessionFail(p) ==
  /\ Fail(p)
  /\ registry' = IF registry = p THEN None ELSE registry
  /\ call' = [call EXCEPT ![p] = NoCall]
  /\ UNCHANGED <<receipts, issued>>

SessionNext ==
  \E p \in Procs :
    \/ (Begin(p) \/ Step(p)) /\ UNCHANGED sessionVars
    \/ BeginSession(p)
    \/ SessionStep(p)
    \/ SessionFail(p)

SessionSpec == SessionInit /\ [][SessionNext]_allVars

--------------------------------------------------------------------------------
Returns == {"launched", "released", "unlease"}
SessionLocations == {"prepare", "adopt", "lease", "choose", "release", "findProfile"} \cup Returns

SessionTypeOK ==
  /\ FleetTypeOK
  /\ at \in [Procs -> Locations \cup SessionLocations]
  /\ job \in [Procs -> Job(Returns \cup {"idle"})]
  /\ receipts \in [Sessions -> SessionReceipt \cup {None}]
  /\ registry \in Procs \cup {None}
  /\ issued \subseteq Leases
  /\ call \in [Procs -> CallRecord]

(***************************************************************************)
(* "One task owns it at a time" (README.md): no two sessions hold leases   *)
(* on one profile.                                                         *)
(***************************************************************************)
OneOwner ==
  \A s, t \in Sessions :
    receipts[s] # None /\ receipts[t] # None /\ receipts[s].profile = receipts[t].profile => s = t

(***************************************************************************)
(* "Only disposable profile storage is deleted" (CONTEXT.md): a session    *)
(* operation never removes the volume of a profile that tasks choose by    *)
(* name.                                                                   *)
(***************************************************************************)
SavedStorageSurvives ==
  [][\A p \in Procs :
       registry = p /\ at[p] = "removeProfile" /\ volumes' # volumes
       => at'[p] = "removeProfile" \/ job[p].profile \notin SavedProfiles]_allVars

(***************************************************************************)
(* "A stale lease cannot close a replacement session" (README.md): the     *)
(* session operation that removes a container acts for the session that    *)
(* owns its profile, under the lease that is in force.  This is promised   *)
(* of the names that provisionProfile draws; a name that a user gives may  *)
(* be another profile's by the time its container is removed.              *)
(***************************************************************************)
Releasing(p) == registry = p /\ call[p].lease # None

OnlyOwnerCleansUp ==
  [][\A c \in containers \ containers' : \A p \in Procs :
       Releasing(p) /\ at[p] = "remove" /\ job[p].name = c.name /\ c.name \in Tokens
       => /\ c.profile = receipts[call[p].session].profile
          /\ receipts[call[p].session].lease = call[p].lease]_allVars

(***************************************************************************)
(* "Closing or releasing that exact lease cleans up its target"            *)
(* (CONTEXT.md): when a receipt goes, no container runs its profile.       *)
(***************************************************************************)
Ended(s) == receipts[s] # None /\ receipts'[s] = None

ReleaseLeavesNoTarget ==
  [][\A s \in Sessions : Ended(s) => \A c \in containers : c.profile # receipts[s].profile]_allVars

(***************************************************************************)
(* "Disposable profiles are removed with their owning task" (CONTEXT.md):  *)
(* neither a container nor a volume outlives a disposable lease.           *)
(***************************************************************************)
DisposableLeavesNothing ==
  [][\A s \in Sessions :
       Ended(s) /\ ~ receipts[s].persistent =>
         /\ \A c \in containers : c.profile # receipts[s].profile
         /\ HomeOf(receipts[s].profile) = {}]_allVars
================================================================================
