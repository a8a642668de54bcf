--------------------------- MODULE RestoreReservation ---------------------------
(***************************************************************************)
(* Restoring one backup set: the client's reservation and journal          *)
(* (cli/profile-binding.ts, cli/backup.ts) and the host's staging volumes  *)
(* and receipts (restore_locked of host/profile-backup.py), beside the     *)
(* ordinary commands of BrowserFleet.                                      *)
(*                                                                         *)
(* A restore or a release goes through three sections: the client's under  *)
(* the registry lock and the profile locks of all names, the host's under  *)
(* a file lock of its own, and the client's again.  Each commit is a step, *)
(* and Fail may end the command after any of them; it is then run again.   *)
(* The host reads its volumes once, when it has its lock.  A command that  *)
(* ends takes its host section with it.                                    *)
(*                                                                         *)
(* Not here: a second set, the sessions' receipts (a name that a session   *)
(* holds is refused), dry runs, and the reconciliation of stale bindings.  *)
(* Two volumes of one name on a host are one element of volumes.           *)
(***************************************************************************)
EXTENDS BrowserFleet, Sequences

CONSTANTS
  Manifest,     \* the set's profile names, in order
  Destination,  \* the backend that the set is restored on
  Restorers     \* bound: the processes that restore and release

SetProfiles == {Manifest[i] : i \in 1..Len(Manifest)}

ASSUME RestoreAssumption ==
  /\ Manifest \in Seq(Profiles)
  /\ \A i, j \in 1..Len(Manifest) : Manifest[i] = Manifest[j] => i = j
  /\ Manifest # <<>>
  /\ Destination \in Backends
  /\ Restorers \subseteq Procs
  /\ \A finished \in SUBSET SetProfiles : finished # None

VARIABLES
  marks,    \* pendingRestore and restoredFrom of the bindings
  journal,  \* restore-operations/DIGEST.json: the completed profiles
  receipt,  \* the host's profile-restores/DIGEST/*.json
  image,    \* the volume that the receipt names, and whether a browser has written to it
  entry     \* the manifest index that each restoring process is at

restoreVars == <<marks, journal, receipt, image, entry>>
all == <<vars, restoreVars>>

Pending(f) == marks[f] = "pending"
Volumes(f) == [profile |-> f, backend |-> Destination]
Mounted(f) == \E c \in HeldOn(Destination) : c.profile = f
AtHome(f) == Bound(f) /\ bindings[f].backend = Destination /\ bindings[f].target = None

RestoreInit ==
  /\ Init
  /\ marks = [f \in SetProfiles |-> "none"]
  /\ journal = None
  /\ receipt = [f \in SetProfiles |-> "none"]
  /\ image = [f \in SetProfiles |-> "none"]
  /\ entry = [p \in Procs |-> 1]

\* Sections of a restore under the profile locks, and under the host's restore lock.
Locking == {"mark", "restored", "completed", "free", "unjournal"}
Hosting == {"restoring", "releasing"}
LocksFree == \A p \in Procs : at[p] \notin Locking
HostFree == \A p \in Procs : at[p] \notin Hosting

Current(p) == Manifest[entry[p]]

\* On to the next entry, or, after the last, to the next section.
Advance(p, loop, next) ==
  IF entry[p] < Len(Manifest)
  THEN Goto(p, loop) /\ entry' = [entry EXCEPT ![p] = @ + 1]
  ELSE Goto(p, next) /\ entry' = [entry EXCEPT ![p] = 1]

Command(op) == NewJob(op, None, None)

BeginRestore(p, op) ==
  /\ p \in Restorers
  /\ at[p] = "idle"
  /\ Call(p, "reserve", Command(op))
  /\ UNCHANGED <<fleetVars, restoreVars>>

--------------------------------------------------------------------------------
(* reserveRestore, by a restore and by a release *)

\* Mutant of Reserve: an ordinary binding does not stop the reservation.
ReserveAnyway(p) ==
  /\ at[p] = "reserve"
  /\ LocksFree
  /\ journal' = IF journal = None THEN {} ELSE journal
  /\ Goto(p, "mark")
  /\ UNCHANGED <<fleetVars, job, marks, receipt, image, entry>>

\* The check of all names, then the journal.
Reserve(p) ==
  /\ at[p] = "reserve"
  /\ LocksFree
  /\ \A f \in SetProfiles : Bound(f) => AtHome(f) /\ marks[f] # "none"
  /\ journal' = IF journal = None THEN {} ELSE journal
  /\ Goto(p, "mark")
  /\ UNCHANGED <<fleetVars, job, marks, receipt, image, entry>>

\* The binding of a name that had none.
Mark(p) ==
  /\ at[p] = "mark"
  /\ LET f == Current(p)
     IN IF marks[f] = "none"
        THEN /\ bindings' = [bindings EXCEPT ![f] = [backend |-> Destination, target |-> None]]
             /\ marks' = [marks EXCEPT ![f] = "pending"]
        ELSE UNCHANGED <<bindings, marks>>
  /\ Advance(p, "mark", "host")
  /\ UNCHANGED <<volumes, containers, targets, drawn, job, journal, receipt, image>>

--------------------------------------------------------------------------------
(* restore_locked *)

\* Take the host's lock and read its volumes: a name that has one is refused unless it is the
\* one this set restored.
OpenHost(p) ==
  /\ at[p] = "host"
  /\ HostFree
  /\ job[p].op = "restore" =>
       \A f \in SetProfiles : Volumes(f) \in volumes
                              => receipt[f] # "none" /\ image[f] \in {"published", "used"}
  /\ Goto(p, IF job[p].op = "restore" THEN "restoring" ELSE "releasing")
  /\ UNCHANGED <<fleetVars, job, restoreVars>>

Restoring(p) == at[p] = "restoring" /\ UNCHANGED <<bindings, containers, targets, drawn, job, marks, journal>>

\* An entry that is complete: its volume must be there, detached and unchanged.
Verify(p) ==
  /\ Restoring(p)
  /\ receipt[Current(p)] = "complete"
  /\ image[Current(p)] = "published" /\ ~ Mounted(Current(p))
  /\ Advance(p, "restoring", "complete")
  /\ UNCHANGED <<volumes, receipt, image>>

CreateStaging(p) ==
  /\ Restoring(p)
  /\ receipt[Current(p)] = "none" /\ image[Current(p)] = "none"
  /\ image' = [image EXCEPT ![Current(p)] = "staged"]
  /\ UNCHANGED <<volumes, at, receipt, entry>>

\* For the volume that was just created, or that an earlier run left under the same name.
WriteReceipt(p) ==
  /\ Restoring(p)
  /\ receipt[Current(p)] = "none" /\ image[Current(p)] = "staged"
  /\ receipt' = [receipt EXCEPT ![Current(p)] = "begun"]
  /\ UNCHANGED <<volumes, at, image, entry>>

\* Extract, check and install the image.  (The code fills a published one again when a browser
\* wrote to it before its receipt was complete; PendingIsPristine says that there is none.)
Fill(p) ==
  /\ Restoring(p)
  /\ receipt[Current(p)] = "begun" /\ image[Current(p)] = "staged"
  /\ image' = [image EXCEPT ![Current(p)] = "filled"]
  /\ UNCHANGED <<volumes, at, receipt, entry>>

\* The new name and tags in metadata.json.
Publish(p) ==
  /\ Restoring(p)
  /\ receipt[Current(p)] = "begun" /\ image[Current(p)] = "filled"
  /\ image' = [image EXCEPT ![Current(p)] = "published"]
  /\ volumes' = volumes \cup {Volumes(Current(p))}
  /\ UNCHANGED <<at, receipt, entry>>

CompleteEntry(p) ==
  /\ Restoring(p)
  /\ receipt[Current(p)] = "begun" /\ image[Current(p)] = "published" /\ ~ Mounted(Current(p))
  /\ receipt' = [receipt EXCEPT ![Current(p)] = "complete"]
  /\ Advance(p, "restoring", "complete")
  /\ UNCHANGED <<volumes, image>>

Releasing(p) == at[p] = "releasing" /\ UNCHANGED <<fleetVars, job, marks, journal>>
Staged(f) == image[f] \in {"staged", "filled"}

DeleteStaging(p) ==
  /\ Releasing(p)
  /\ receipt[Current(p)] # "complete" /\ Staged(Current(p))
  /\ image' = [image EXCEPT ![Current(p)] = "none"]
  /\ UNCHANGED <<at, receipt, entry>>

\* Unlink the receipt, if there is one; a completed one cannot be released.
ReleaseEntry(p) ==
  /\ Releasing(p)
  /\ receipt[Current(p)] # "complete" /\ image[Current(p)] = "none"
  /\ receipt' = [receipt EXCEPT ![Current(p)] = "none"]
  /\ Advance(p, "releasing", "release")
  /\ UNCHANGED image

--------------------------------------------------------------------------------
(* completeRestore and releaseRestore *)

OpenComplete(p) ==
  /\ at[p] = "complete"
  /\ LocksFree
  /\ journal # None
  /\ Goto(p, "restored")
  /\ UNCHANGED <<fleetVars, job, restoreVars>>

WriteRestored(p) ==
  /\ at[p] = "restored"
  /\ AtHome(Current(p)) /\ marks[Current(p)] # "none"
  /\ marks' = [marks EXCEPT ![Current(p)] = "restored"]
  /\ Goto(p, "completed")
  /\ UNCHANGED <<fleetVars, job, journal, receipt, image, entry>>

WriteCompleted(p) ==
  /\ at[p] = "completed"
  /\ journal' = journal \cup {Current(p)}
  /\ Advance(p, "restored", "idle")
  /\ job' = IF entry[p] < Len(Manifest) THEN job ELSE [job EXCEPT ![p] = NoJob]
  /\ UNCHANGED <<fleetVars, marks, receipt, image>>

OpenRelease(p) ==
  /\ at[p] = "release"
  /\ LocksFree
  /\ journal # None
  /\ \A f \in SetProfiles : Bound(f) /\ bindings[f].backend = Destination /\ Pending(f)
  /\ Goto(p, "free")
  /\ UNCHANGED <<fleetVars, job, restoreVars>>

Free(p) ==
  /\ at[p] = "free"
  /\ bindings' = [bindings EXCEPT ![Current(p)] = None]
  /\ marks' = [marks EXCEPT ![Current(p)] = "none"]
  /\ Advance(p, "free", "unjournal")
  /\ UNCHANGED <<volumes, containers, targets, drawn, job, journal, receipt, image>>

RemoveJournal(p) ==
  /\ at[p] = "unjournal"
  /\ journal' = None
  /\ Call(p, "idle", NoJob)
  /\ UNCHANGED <<fleetVars, marks, receipt, image, entry>>

RestoreStep(p) ==
  \/ Reserve(p) \/ Mark(p) \/ OpenHost(p)
  \/ Verify(p) \/ CreateStaging(p) \/ WriteReceipt(p) \/ Fill(p) \/ Publish(p) \/ CompleteEntry(p)
  \/ DeleteStaging(p) \/ ReleaseEntry(p)
  \/ OpenComplete(p) \/ WriteRestored(p) \/ WriteCompleted(p)
  \/ OpenRelease(p) \/ Free(p) \/ RemoveJournal(p)

--------------------------------------------------------------------------------
(* The ordinary commands *)

\* requireReadyProfile.
Ready(f) == f \in SetProfiles => ~ Pending(f)

Unlocked(p) == job[p].profile \in SetProfiles => LocksFree
With(func, f, v) == [g \in DOMAIN func |-> IF g = f THEN v ELSE func[g]]

OrdinaryBegin(p) ==
  /\ Begin(p)
  /\ Ready(job'[p].profile)
  /\ UNCHANGED restoreVars

\* A section under the profile's lock; only clearTarget does not ask whether the profile is ready.
ReadyStep(p) ==
  /\ Unlocked(p)
  /\ \/ ClearTarget(p) /\ UNCHANGED marks
     \/ (BindProfile(p) \/ BindTarget(p)) /\ Ready(job[p].profile) /\ UNCHANGED marks
     \/ DeleteBinding(p) /\ Ready(job[p].profile) /\ marks' = With(marks, job[p].profile, "none")
  /\ UNCHANGED <<journal, receipt, image, entry>>

ImageOf(p) == IF job[p].backend = Destination THEN job[p].profile ELSE None

\* A browser on a restored volume writes to it.
RunImage(p) ==
  /\ RunBrowser(p)
  /\ image' = [f \in SetProfiles |-> IF f = ImageOf(p) /\ image[f] = "published" THEN "used" ELSE image[f]]
  /\ UNCHANGED <<marks, journal, receipt, entry>>

RemoveImage(p) ==
  /\ RemoveProfile(p)
  /\ image' = [f \in SetProfiles |-> IF f = ImageOf(p) /\ ~ Staged(f) THEN "none" ELSE image[f]]
  /\ UNCHANGED <<marks, journal, receipt, entry>>

OtherStep(p) ==
  /\ EnsureProfile(p) \/ Place(p) \/ WriteTarget(p) \/ RemoveContainer(p) \/ RemoveTarget(p)
  /\ UNCHANGED restoreVars

RestoreFail(p) ==
  /\ Fail(p)
  /\ entry' = [entry EXCEPT ![p] = 1]
  /\ UNCHANGED <<marks, journal, receipt, image>>

RestoreNext ==
  \E p \in Procs :
    \/ \E op \in {"restore", "release"} : BeginRestore(p, op)
    \/ RestoreStep(p)
    \/ OrdinaryBegin(p) \/ ReadyStep(p) \/ RunImage(p) \/ RemoveImage(p) \/ OtherStep(p)
    \/ RestoreFail(p)

RestoreSpec == RestoreInit /\ [][RestoreNext]_all

--------------------------------------------------------------------------------
RestoreLocations == {"reserve", "host", "complete", "release"} \cup Locking \cup Hosting

RestoreTypeOK ==
  /\ FleetTypeOK
  /\ at \in [Procs -> Locations \cup RestoreLocations]
  /\ job \in [Procs -> Job({"idle"}) \cup {Command("restore"), Command("release")}]
  /\ marks \in [SetProfiles -> {"none", "pending", "restored"}]
  /\ journal \in {None} \cup SUBSET SetProfiles
  /\ receipt \in [SetProfiles -> {"none", "begun", "complete"}]
  /\ image \in [SetProfiles -> {"none", "staged", "filled", "published", "used"}]
  /\ entry \in [Procs -> 1..Len(Manifest)]

(***************************************************************************)
(* Wherever a reservation, its completion or its release is interrupted,   *)
(* the journal that they require is there as long as one name is reserved. *)
(***************************************************************************)
JournalCovers == \A f \in SetProfiles : Pending(f) => journal # None

(***************************************************************************)
(* "Ordinary profile launch, export, import, and deletion refuse pending   *)
(* restore bindings" (ADR 0018): until a restored volume is given out no   *)
(* browser mounts or has written to it, or a retry would refuse it.        *)
(***************************************************************************)
PendingIsPristine ==
  \A f \in SetProfiles \ CliDeletes : Pending(f) => image[f] # "used" /\ ~ Mounted(f)

(***************************************************************************)
(* The names and volumes of the set change only as a transaction on it     *)
(* may: see RestoreTransaction.                                            *)
(***************************************************************************)
Status == [f \in SetProfiles |-> IF ~ Bound(f) THEN "free"
                                 ELSE IF marks[f] = "none" THEN "used" ELSE marks[f]]
Data == [f \in SetProfiles |-> IF Staged(f) THEN "staged"
                               ELSE IF image[f] = "none" THEN "none" ELSE "published"]

Transaction == INSTANCE RestoreTransaction WITH status <- Status, data <- Data
IsTransaction == Transaction!Spec

(***************************************************************************)
(* "retry backup restore with the same set, or use its explicit            *)
(* reservation release" (requireReadyProfile): while a name is reserved    *)
(* the host does not refuse both, whatever targets are destroyed and       *)
(* ordinary profiles deleted first.  The code does not keep this: a name   *)
(* that is given out before the others makes the host refuse.              *)
(***************************************************************************)
Retryable ==
  \A f \in SetProfiles :
    /\ receipt[f] = "complete" => image[f] = "published"
    /\ receipt[f] = "begun" => image[f] # "none"

Releasable == \A f \in SetProfiles : receipt[f] # "complete" /\ image[f] \in {"none", "staged", "filled"}

CanBeResolved == (\E f \in SetProfiles : Pending(f)) => Retryable \/ Releasable
================================================================================
