----------------------------- MODULE Reconciliation -----------------------------
(***************************************************************************)
(* Restoring a backup set after the source host was lost                   *)
(* (cli/restore-reconciliation.ts, driven by runBackup of cli/backup.ts):  *)
(* old binding and target receipts are retired into archives, the names    *)
(* reserved, the volumes restored on the host and the names given out, or  *)
(* the reservations released; in several state namespaces at once.         *)
(*                                                                         *)
(* A client follows a plan that the operator approved (approved).  Its     *)
(* locked section and its completion commit one receipt or journal at a    *)
(* time, and ClientEnds, a crash or an error, comes between any two        *)
(* commits; the operator then runs it again.  A guard that does not hold   *)
(* where the code throws leaves only ClientEnds.                           *)
(*                                                                         *)
(* Beside it run the ordinary commands, each step under a profile lock or  *)
(* the runtime allocation lock.                                            *)
(*                                                                         *)
(* A receipt is its revision: a rewritten receipt is another one even when *)
(* its bytes are the same.  Not here: a second set, an ordinary restore of *)
(* the same set (RestoreReservation), pending imports, provider sessions   *)
(* that hold a name (both are refused), the waits for the locks            *)
(* (MkdirLock), and replaced state and runtime directories.                *)
(***************************************************************************)
EXTENDS Naturals, Sequences, FiniteSets

CONSTANTS
  Clients,      \* the processes that run agentbrowse backup restore
  NameList,     \* the set's profile names, sorted
  SpaceList,    \* the state namespaces, the primary one first
  Originals,    \* LostInit: the receipts of a profile before the restore
  MaxEdits,     \* bound: receipts written by ordinary commands, and replacements of the host
  Nothing

SetNames == {NameList[i] : i \in 1..Len(NameList)}
Spaces == {SpaceList[i] : i \in 1..Len(SpaceList)}
Primary == SpaceList[1]

(* What the files hold: receipts, by their revision, plans and the journal. *)
Receipts == [kind : {"ordinary", "pending", "restored"}, rev : Nat, target : BOOLEAN]
Entries ==
  [owner : Spaces, binding : Receipts \cup {Nothing}, receipt : Nat \cup {Nothing}]
Plans == [host : Nat \cup {Nothing}, names : [SetNames -> Entries]]
Journals ==
  [plan : Plans, status : {"prepared", "reserved", "releasing", "released"},
   completed : SUBSET SetNames,
   reservations : UNION {[D -> SUBSET SetNames] : D \in SUBSET Spaces},
   intents : SUBSET Spaces, released : SUBSET Spaces]

ASSUME ReconciliationAssumption ==
  /\ NameList \in Seq(SetNames) /\ NameList # <<>>
  /\ \A i, j \in 1..Len(NameList) : NameList[i] = NameList[j] => i = j
  /\ SpaceList \in Seq(Spaces) /\ SpaceList # <<>>
  /\ \A i, j \in 1..Len(SpaceList) : SpaceList[i] = SpaceList[j] => i = j
  /\ Nothing \notin Nat /\ \A names \in SUBSET SetNames : Nothing # names
  /\ Nothing \notin Receipts /\ Nothing \notin Plans /\ Nothing \notin Journals
  /\ MaxEdits \in Nat

VARIABLES
  live,      \* profiles/NAME.json of each namespace
  tgt,       \* the receipts of the profiles' targets in the runtime directory
  archive,   \* the retired receipts of each profile
  op,        \* restore-operations/DIGEST.json of each namespace: the completed names
  planned,   \* restore-reconciliations/DIGEST.json of the primary namespace
  host,      \* the destination: its identity and how far the restore is
  approved,  \* the plan whose digest each client was started with
  task,      \* what each client does: a restore or a release
  stage, space, \* where each process is, and the index of the namespace that a client is at
  edits      \* the revisions drawn so far

disk == <<live, tgt, archive, op, planned>>
lostVars == <<live, tgt, archive, op, planned, host, approved, task, stage, space, edits>>

BindingOf(kind, rev, target) == [kind |-> kind, rev |-> rev, target |-> target]

Kind(b) == IF b = Nothing THEN "none" ELSE b.kind
HasTarget(b) == IF b = Nothing THEN FALSE ELSE b.target

\* A binding that this set wrote.
Mine(b) == Kind(b) \in {"pending", "restored"} /\ ~ HasTarget(b)
IsPending(b) == Kind(b) = "pending"

Draw == edits < MaxEdits /\ edits' = edits + 1
GoOn(p, l) == stage' = [stage EXCEPT ![p] = l]
Live(s, f, b) == live' = [live EXCEPT ![s][f] = b]
Position(f) == CHOOSE i \in 1..Len(NameList) : NameList[i] = f
UpTo(f) == {g \in SetNames : Position(g) <= Position(f)}
First(f, S) == f \in S /\ \A g \in S : Position(f) <= Position(g)

--------------------------------------------------------------------------------
(* Plans and journals *)

Owner(f) == LET homes == {s \in Spaces : live[s][f] # Nothing}
            IN IF homes = {} THEN Primary ELSE CHOOSE s \in homes : TRUE

\* buildPlanLocked refuses a name that has two bindings, or one that is not an ordinary one.
Plannable ==
  \A f \in SetNames :
    /\ Cardinality({s \in Spaces : live[s][f] # Nothing}) <= 1
    /\ Kind(live[Owner(f)][f]) \in {"none", "ordinary"}

PlanFor(h) ==
  [host |-> h,
   names |-> [f \in SetNames |->
     LET b == live[Owner(f)][f]
     IN [owner |-> Owner(f), binding |-> b,
         receipt |-> IF HasTarget(b) THEN tgt[f] ELSE Nothing]]]

Owned(plan, s) == {f \in SetNames : plan.names[f].owner = s}

\* A journal of before the host fence has no host: readJournal gives it the one it is asked for.
Upgraded(j, h) == IF j.plan.host = Nothing THEN [j EXCEPT !.plan.host = h] ELSE j

NewJournal(plan) ==
  [plan |-> plan, status |-> "prepared", completed |-> {},
   reservations |-> [s \in {} |-> {}], intents |-> {}, released |-> {}]

Journal(c) == Upgraded(planned, approved[c].host)
Matches(c) == planned # Nothing /\ Journal(c).plan = approved[c]

IsPlan(plan) ==
  \A f \in SetNames :
    LET e == plan.names[f]
    IN /\ e.owner \in Spaces
       /\ e.binding = Nothing => e.receipt = Nothing
       /\ e.receipt # Nothing => HasTarget(e.binding)

\* What readJournal accepts.
IsJournal(j) ==
  /\ IsPlan(j.plan)
  /\ j.completed \subseteq SetNames
  /\ \A s \in DOMAIN j.reservations : j.reservations[s] \subseteq Owned(j.plan, s)
  /\ j.released \subseteq j.intents
  /\ j.status = "released" => j.released = Spaces
  /\ j.status \in {"prepared", "reserved"} => j.intents = {} /\ j.released = {}

Extended(func, key, v) == [k \in DOMAIN func \cup {key} |-> IF k = key THEN v ELSE func[k]]

LostInit ==
  /\ live \in [Spaces -> [SetNames -> {Nothing, BindingOf("ordinary", 0, TRUE)}]]
  /\ tgt \in [SetNames -> {Nothing, 0}]
  /\ [f \in SetNames |-> [homes |-> {s \in Spaces : live[s][f] # Nothing}, receipt |-> tgt[f]]] \in Originals
  /\ archive = [f \in SetNames |-> [binding |-> Nothing, receipt |-> Nothing]]
  /\ op = [s \in Spaces |-> Nothing]
  /\ host = [id |-> 1, data |-> "none"]
  /\ Plannable
  /\ planned \in {Nothing, NewJournal(PlanFor(Nothing))}
  /\ approved = [c \in Clients |-> Nothing]
  /\ task = [c \in Clients |-> Nothing]
  /\ stage = [c \in Clients |-> "idle"]
  /\ space = [c \in Clients |-> 1]
  /\ edits = 0

--------------------------------------------------------------------------------
(* Locks: the session registries, the allocation lock and all profile locks *)

Locked == {"open", "retire", "mark", "record", "settle",
           "hostRelease", "validate", "free", "commit", "settled"}
Completing == {"restored", "completed"}

NobodyLocks == \A c \in Clients : stage[c] \notin Locked
NameFree(s, f) ==
  /\ NobodyLocks
  /\ \A c \in Clients : stage[c] \in Completing => f \notin Owned(approved[c], s) \/ SpaceList[space[c]] # s

\* withReconciliationLocks.
TakeLocks(c) ==
  /\ stage[c] = "locks"
  /\ \A s \in Spaces, f \in SetNames : NameFree(s, f)
  /\ GoOn(c, "open")
  /\ UNCHANGED <<disk, host, approved, task, space, edits>>

\* The next attempt starts from a dry run of its own.
Finish(c) ==
  /\ GoOn(c, "idle")
  /\ task' = [task EXCEPT ![c] = Nothing]
  /\ space' = [space EXCEPT ![c] = 1]
  /\ approved' = [approved EXCEPT ![c] = Nothing]

\* A crash or an error: the locks of a process that is gone are broken.
ClientEnds(c) ==
  /\ stage[c] # "idle"
  /\ Finish(c)
  /\ UNCHANGED <<disk, host, edits>>

--------------------------------------------------------------------------------
(* The operator *)

\* The operator reviews the plan of a dry run, that of the journal or a new one, for the host that
\* inspect finds, and starts a command with its digest.  Everything may change before the locks.
Start(c, what, plan) ==
  /\ stage[c] = "idle"
  /\ plan.host = host.id
  /\ approved' = [approved EXCEPT ![c] = plan]
  /\ task' = [task EXCEPT ![c] = what]
  /\ GoOn(c, "locks")
  /\ UNCHANGED <<disk, host, space, edits>>

StartRestore(c) ==
  \/ planned = Nothing /\ Plannable /\ Start(c, "restore", PlanFor(host.id))
  \/ planned # Nothing /\ Start(c, "restore", Upgraded(planned, host.id).plan)

StartRelease(c) == planned # Nothing /\ Start(c, "release", Upgraded(planned, host.id).plan)

--------------------------------------------------------------------------------
(* applyRestoreBindingReconciliation *)

Here(c) == SpaceList[space[c]]
Expected(c, f) == approved[c].names[f]

\* On to the next namespace, or, after the last, to the next section or the end of the command.
NextSpace(c, loop, next) ==
  IF space[c] < Len(SpaceList)
  THEN GoOn(c, loop) /\ space' = [space EXCEPT ![c] = @ + 1] /\ UNCHANGED <<task, approved>>
  ELSE IF next = "idle" THEN Finish(c)
  ELSE GoOn(c, next) /\ space' = [space EXCEPT ![c] = 1] /\ UNCHANGED <<task, approved>>

\* Under the locks the plan is made again, or the journal read again, and must be the approved one.
OpenApply(c) ==
  /\ stage[c] = "open" /\ task[c] = "restore"
  /\ IF planned = Nothing
     THEN /\ Plannable /\ PlanFor(approved[c].host) = approved[c]
          /\ planned' = NewJournal(approved[c])
     ELSE /\ IsJournal(planned) /\ Matches(c)
          /\ planned.status \in {"prepared", "reserved"}
          /\ UNCHANGED planned
  /\ GoOn(c, "retire")
  /\ UNCHANGED <<live, tgt, archive, op, host, approved, task, space, edits>>

\* Mutant of TargetGone: a target receipt that is still live is left where it is.
TargetLeft(f, e) == tgt[f] # Nothing \/ e.receipt = Nothing \/ archive[f].receipt = e.receipt

\* The binding's target receipt is not live, and archived if the plan has one.
TargetGone(f, e) ==
  HasTarget(e.binding) => tgt[f] = Nothing /\ (e.receipt # Nothing => archive[f].receipt = e.receipt)

\* Mutant of Retired: a name that had no binding may have one by now.
RetiredLoosely(c, f) ==
  LET e == Expected(c, f)  b == live[Here(c)][f]
  IN \/ e.owner # Here(c) /\ b = Nothing
     \/ e.owner = Here(c) /\ e.binding = Nothing
     \/ e.owner = Here(c) /\ e.binding # Nothing /\ archive[f].binding = e.binding
        /\ (Mine(b) \/ (b = Nothing /\ TargetGone(f, e)))

\* retireExpectedBinding has nothing left to do, or a name of another namespace has no binding here.
Retired(c, f) ==
  LET e == Expected(c, f)  b == live[Here(c)][f]
  IN CASE e.owner # Here(c) -> b = Nothing
       [] e.owner = Here(c) /\ e.binding = Nothing -> b = Nothing \/ Mine(b)
       [] OTHER -> /\ archive[f].binding = e.binding
                   /\ Mine(b) \/ (b = Nothing /\ TargetGone(f, e))

\* Mutant of Unretired: the receipts are taken by the profile's name.
UnretiredByName(c, f) ==
  /\ stage[c] = "retire"
  /\ \A g \in UpTo(f) \ {f} : Retired(c, g)
  /\ Expected(c, f).owner = Here(c) /\ Expected(c, f).binding # Nothing
  /\ live[Here(c)][f] # Nothing => ~ Mine(live[Here(c)][f])

\* The next name to retire: its binding receipt is still the planned one, or is in the archive.
Unretired(c, f) ==
  /\ stage[c] = "retire"
  /\ \A g \in UpTo(f) \ {f} : Retired(c, g)
  /\ Expected(c, f).owner = Here(c) /\ Expected(c, f).binding # Nothing
  /\ \/ live[Here(c)][f] = Expected(c, f).binding
     \/ live[Here(c)][f] = Nothing /\ archive[f].binding = Expected(c, f).binding

RetireTarget(c, f) ==
  /\ Unretired(c, f)
  /\ Expected(c, f).binding.target /\ tgt[f] # Nothing /\ tgt[f] = Expected(c, f).receipt
  /\ archive' = [archive EXCEPT ![f].receipt = tgt[f]]
  /\ tgt' = [tgt EXCEPT ![f] = Nothing]
  /\ UNCHANGED <<live, op, planned, host, approved, task, stage, space, edits>>

RetireBinding(c, f) ==
  /\ Unretired(c, f)
  /\ live[Here(c)][f] # Nothing /\ TargetGone(f, Expected(c, f))
  /\ archive' = [archive EXCEPT ![f].binding = live[Here(c)][f]]
  /\ Live(Here(c), f, Nothing)
  /\ UNCHANGED <<tgt, op, planned, host, approved, task, stage, space, edits>>

\* reserveRestoreLocked: the check of the owned names and the namespace's journal.
ReserveNames(c) ==
  /\ stage[c] = "retire"
  /\ \A f \in SetNames : Retired(c, f)
  /\ IF Owned(approved[c], Here(c)) = {} THEN GoOn(c, "record") /\ UNCHANGED op
     ELSE /\ op' = IF op[Here(c)] = Nothing THEN [op EXCEPT ![Here(c)] = {}] ELSE op
          /\ GoOn(c, "mark")
  /\ UNCHANGED <<live, tgt, archive, planned, host, approved, task, space, edits>>

Unmarked(c) == {f \in Owned(approved[c], Here(c)) : ~ Mine(live[Here(c)][f])}

MarkNames(c) ==
  /\ stage[c] = "mark"
  /\ \/ Unmarked(c) = {} /\ GoOn(c, "record") /\ UNCHANGED live
     \/ \E f \in SetNames :
          /\ First(f, Unmarked(c))
          /\ Live(Here(c), f, BindingOf("pending", 0, FALSE)) /\ UNCHANGED stage
  /\ UNCHANGED <<tgt, archive, op, planned, host, approved, task, space, edits>>

\* The namespace's reservations, once, and its completed names.
Record(c) ==
  /\ stage[c] = "record"
  /\ LET s == Here(c)  names == Owned(approved[c], s)  j == Journal(c)
         new == names # {} /\ s \notin DOMAIN j.reservations
     IN /\ new => op[s] = {} /\ \A f \in names : IsPending(live[s][f])
        /\ planned' = [j EXCEPT !.completed = @ \cup names,
                                !.reservations = IF new THEN Extended(@, s, names) ELSE @]
  /\ NextSpace(c, "retire", "settle")
  /\ UNCHANGED <<live, tgt, archive, op, host, edits>>

Settle(c) ==
  /\ stage[c] = "settle"
  /\ planned' = [Journal(c) EXCEPT !.status = "reserved"]
  /\ GoOn(c, "host")
  /\ UNCHANGED <<live, tgt, archive, op, host, approved, task, space, edits>>

--------------------------------------------------------------------------------
(* The host: profile-backup.py restore, with the identity that the plan names *)

HostIdle == \A c \in Clients : stage[c] # "restoring"
SameHost(c) == host.id = approved[c].host

AskHost(c) ==
  /\ stage[c] = "host" /\ HostIdle /\ SameHost(c)
  /\ GoOn(c, "restoring")
  /\ UNCHANGED <<disk, host, approved, task, space, edits>>

\* No volume, a staging volume, a complete entry, all entries complete.
Stages == <<"none", "staged", "partial", "all">>
NextStage(d) == LET i == CHOOSE k \in 1..4 : Stages[k] = d IN Stages[i + 1]

RestoreHost(c) ==
  /\ stage[c] = "restoring"
  /\ IF host.data = "all" THEN GoOn(c, "complete") /\ UNCHANGED host
     ELSE SameHost(c) /\ host' = [host EXCEPT !.data = NextStage(@)] /\ UNCHANGED stage
  /\ UNCHANGED <<disk, approved, task, space, edits>>

\* A host that is installed again has no volumes.
ReplaceHost ==
  /\ HostIdle /\ Draw
  /\ host' = [id |-> host.id + 1, data |-> "none"]
  /\ UNCHANGED <<disk, approved, task, stage, space>>

--------------------------------------------------------------------------------
(* completeRestoreBindingReconciliation: completeRestore in each namespace, under its profile locks *)

\* Mutant of OpenCompletion: a namespace without a journal is taken for a finished one.
OpenCompletionLeniently(c) ==
  /\ stage[c] = "complete"
  /\ IF Owned(approved[c], Here(c)) = {} \/ op[Here(c)] = Nothing THEN NextSpace(c, "complete", "idle")
     ELSE /\ \A f \in Owned(approved[c], Here(c)) : NameFree(Here(c), f)
          /\ GoOn(c, "restored") /\ UNCHANGED <<space, task, approved>>
  /\ UNCHANGED <<disk, host, edits>>

OpenCompletion(c) ==
  /\ stage[c] = "complete"
  /\ IF Owned(approved[c], Here(c)) = {} THEN NextSpace(c, "complete", "idle")
     ELSE /\ \A f \in Owned(approved[c], Here(c)) : NameFree(Here(c), f)
          /\ op[Here(c)] # Nothing
          /\ GoOn(c, "restored") /\ UNCHANGED <<space, task, approved>>
  /\ UNCHANGED <<disk, host, edits>>

Incomplete(c) == Owned(approved[c], Here(c)) \ op[Here(c)]

GiveName(c) ==
  /\ stage[c] = "restored"
  /\ \/ /\ Incomplete(c) = {}
        /\ \A g \in Owned(approved[c], Here(c)) : Mine(live[Here(c)][g])
        /\ NextSpace(c, "complete", "idle") /\ UNCHANGED live
     \/ \E f \in SetNames :
          /\ First(f, Incomplete(c))
          /\ \A g \in Owned(approved[c], Here(c)) \cap UpTo(f) : Mine(live[Here(c)][g])
          /\ Live(Here(c), f, BindingOf("restored", 0, FALSE))
          /\ GoOn(c, "completed") /\ UNCHANGED <<space, task, approved>>
  /\ UNCHANGED <<tgt, archive, op, planned, host, edits>>

RecordGiven(c) ==
  /\ stage[c] = "completed"
  /\ \E f \in SetNames : First(f, Incomplete(c)) /\ op' = [op EXCEPT ![Here(c)] = @ \cup {f}]
  /\ GoOn(c, "restored")
  /\ UNCHANGED <<live, tgt, archive, planned, host, approved, task, space, edits>>

--------------------------------------------------------------------------------
(* releaseRestoreBindingReconciliation *)

\* The binding and its target are as they were planned.
Original(s, f, e) == live[s][f] = e.binding /\ (HasTarget(e.binding) => tgt[f] = e.receipt)

\* inspectRestoreReleaseLocked: nothing of this namespace was given out.
Inspectable(s, names) ==
  IF op[s] = Nothing THEN \A f \in names : Kind(live[s][f]) \notin {"pending", "restored"}
  ELSE op[s] = {} /\ \A f \in names : Kind(live[s][f]) \in {"none", "pending"}

PendingIn(s, names) == {f \in names : op[s] # Nothing /\ IsPending(live[s][f])}

\* validateNamespaceReleaseLocked.
ReleasableIn(plan, s, allowed) ==
  /\ \A f \in SetNames :
       LET e == plan.names[f]  b == live[s][f]
       IN CASE e.owner # s -> b = Nothing
            [] e.owner = s /\ e.binding = Nothing -> Kind(b) \in {"none", "pending"}
            [] OTHER -> \/ Kind(b) \in {"none", "pending"} /\ archive[f].binding = e.binding /\ TargetGone(f, e)
                        \/ b # Nothing /\ Original(s, f, e)
  /\ Inspectable(s, Owned(plan, s))
  /\ PendingIn(s, Owned(plan, s)) \subseteq allowed

\* What the journal has reserved in a namespace; before it has recorded any, all that is found.
Reservations(j, s) == IF s \in DOMAIN j.reservations THEN j.reservations[s] ELSE SetNames

OpenReleases(c) ==
  /\ stage[c] = "open" /\ task[c] = "release"
  /\ Matches(c) /\ IsJournal(planned)
  /\ IF planned.status = "released" THEN UNCHANGED planned
     ELSE LET j == Journal(c)  left == Spaces \ j.released
          IN /\ \A s \in left : ReleasableIn(j.plan, s, Reservations(j, s))
             /\ planned' = [j EXCEPT
                  !.status = "releasing",
                  !.reservations = [s \in left \cup DOMAIN @ |->
                    IF s \in left THEN PendingIn(s, Owned(j.plan, s)) ELSE @[s]],
                  !.intents = @ \cup left]
  /\ GoOn(c, "hostRelease")
  /\ UNCHANGED <<live, tgt, archive, op, host, approved, task, space, edits>>

\* restore --release on the host, which refuses when an entry is complete.
HostRelease(c) ==
  /\ stage[c] = "hostRelease" /\ HostIdle /\ SameHost(c)
  /\ host.data \in {"none", "staged"}
  /\ host' = [host EXCEPT !.data = "none"]
  /\ IF planned.status = "released" THEN Finish(c) ELSE GoOn(c, "validate") /\ UNCHANGED <<task, space, approved>>
  /\ UNCHANGED <<disk, edits>>

Validate(c) ==
  /\ stage[c] = "validate"
  /\ IF Here(c) \in planned.released THEN NextSpace(c, "validate", "settled")
     ELSE /\ ReleasableIn(planned.plan, Here(c), planned.reservations[Here(c)])
          /\ GoOn(c, "free") /\ UNCHANGED <<task, space, approved>>
  /\ UNCHANGED <<disk, host, edits>>

\* releaseRestorePartialLocked: the pending names one by one, then the namespace's journal.
FreeNames(c) ==
  /\ stage[c] = "free"
  /\ LET s == Here(c)  left == PendingIn(s, Owned(approved[c], s))
     IN \/ /\ \E f \in SetNames : First(f, left) /\ Live(s, f, Nothing)
           /\ UNCHANGED <<stage, op>>
        \/ /\ left = {}
           /\ op' = [op EXCEPT ![s] = Nothing]
           /\ GoOn(c, "commit")
           /\ UNCHANGED live
  /\ UNCHANGED <<tgt, archive, planned, host, approved, task, space, edits>>

Commit(c) ==
  /\ stage[c] = "commit"
  /\ planned' = [planned EXCEPT !.released = @ \cup {Here(c)}]
  /\ NextSpace(c, "validate", "settled")
  /\ UNCHANGED <<live, tgt, archive, op, host, edits>>

Released(c) ==
  /\ stage[c] = "settled"
  /\ planned' = [planned EXCEPT !.status = "released", !.completed = {}]
  /\ Finish(c)
  /\ UNCHANGED <<live, tgt, archive, op, host, edits>>

--------------------------------------------------------------------------------
(* The ordinary commands, in the namespace of their own *)

Ordinary == UNCHANGED <<archive, op, planned, host, approved, task, space>>

BindName(s, f) ==
  /\ NameFree(s, f) /\ live[s][f] = Nothing
  /\ Draw /\ Live(s, f, BindingOf("ordinary", edits', FALSE))
  /\ Ordinary /\ UNCHANGED <<tgt, stage>>

\* bindTarget and clearTarget.
WriteBinding(s, f) ==
  /\ NameFree(s, f) /\ Kind(live[s][f]) \in {"ordinary", "restored"}
  /\ Draw /\ Live(s, f, BindingOf(live[s][f].kind, edits', ~ live[s][f].target))
  /\ Ordinary /\ UNCHANGED <<tgt, stage>>

UnbindName(s, f) ==
  /\ NameFree(s, f) /\ live[s][f] # Nothing /\ ~ IsPending(live[s][f])
  /\ Live(s, f, Nothing)
  /\ Ordinary /\ UNCHANGED <<tgt, stage, edits>>

RewriteTarget(f) ==
  /\ NobodyLocks
  /\ Draw /\ tgt' = [tgt EXCEPT ![f] = edits']
  /\ Ordinary /\ UNCHANGED <<live, stage>>

ForgetTarget(f) ==
  /\ NobodyLocks /\ tgt[f] # Nothing
  /\ tgt' = [tgt EXCEPT ![f] = Nothing]
  /\ Ordinary /\ UNCHANGED <<live, stage, edits>>

--------------------------------------------------------------------------------
ClientStep(c) ==
  \/ TakeLocks(c)
  \/ OpenApply(c) \/ ReserveNames(c) \/ MarkNames(c) \/ Record(c) \/ Settle(c)
  \/ \E f \in SetNames : RetireTarget(c, f) \/ RetireBinding(c, f)
  \/ AskHost(c) \/ RestoreHost(c)
  \/ OpenCompletion(c) \/ GiveName(c) \/ RecordGiven(c)
  \/ OpenReleases(c) \/ HostRelease(c) \/ Validate(c) \/ FreeNames(c) \/ Commit(c) \/ Released(c)

OrdinaryStep ==
  \/ \E f \in SetNames : RewriteTarget(f) \/ ForgetTarget(f)
  \/ \E s \in Spaces, f \in SetNames : BindName(s, f) \/ WriteBinding(s, f) \/ UnbindName(s, f)

LostNext ==
  \/ \E c \in Clients : StartRestore(c) \/ StartRelease(c) \/ ClientStep(c) \/ ClientEnds(c)
  \/ OrdinaryStep
  \/ ReplaceHost

LostSpec == LostInit /\ [][LostNext]_lostVars

--------------------------------------------------------------------------------
ClientStages ==
  Locked \cup Completing \cup {"idle", "locks", "host", "restoring", "complete"}

(* Every file and every client's place.                                     *)
LostTypeOK ==
  /\ live \in [Spaces -> [SetNames -> Receipts \cup {Nothing}]]
  /\ tgt \in [SetNames -> Nat \cup {Nothing}]
  /\ archive \in [SetNames -> [binding : Receipts \cup {Nothing}, receipt : Nat \cup {Nothing}]]
  /\ op \in [Spaces -> (SUBSET SetNames) \cup {Nothing}]
  /\ planned \in Journals \cup {Nothing}
  /\ host \in [id : Nat, data : {"none", "staged", "partial", "all"}]
  /\ approved \in [Clients -> Plans \cup {Nothing}]
  /\ task \in [Clients -> {"restore", "release", Nothing}]
  /\ stage \in [Clients -> ClientStages]
  /\ space \in [Clients -> 1..Len(SpaceList)]
  /\ edits \in Nat

Entry(f) == planned.plan.names[f]
HomeBinding(f) == live[Entry(f).owner][f]

(***************************************************************************)
(* "No stale target or binding is deleted based on its filename, logical   *)
(* name, or byte equality alone" (ADR 0019): what was retired is exactly   *)
(* what the journalled plan names, whatever the ordinary commands wrote    *)
(* between the review of the plan and the locks, or between two retries.   *)
(***************************************************************************)
OnlyPlannedIsRetired ==
  \A f \in SetNames :
    /\ archive[f].binding # Nothing => planned # Nothing /\ archive[f].binding = Entry(f).binding
    /\ archive[f].receipt # Nothing => planned # Nothing /\ archive[f].receipt = Entry(f).receipt

(***************************************************************************)
(* A name is not reserved before its old receipts are in the archive: the  *)
(* evidence that a retry or a release asks for survives every crash.       *)
(***************************************************************************)
EvidenceIsKept ==
  planned # Nothing =>
    \A f \in SetNames :
      Mine(HomeBinding(f)) /\ Entry(f).binding # Nothing =>
        /\ archive[f].binding = Entry(f).binding
        /\ HasTarget(Entry(f).binding) => archive[f].receipt = Entry(f).receipt

(***************************************************************************)
(* Of one set no name is given out after another was released, although    *)
(* clients that restore and release it run at the same time, and each      *)
(* stops anywhere.                                                         *)
(***************************************************************************)
SetIsNotSplit ==
  planned # Nothing /\ (\E f \in SetNames : Entry(f).owner \in planned.released) =>
    \A s \in Spaces, f \in SetNames : Kind(live[s][f]) # "restored"

(***************************************************************************)
(* "without treating a fresh binding as prior work" (ADR 0019): a restore  *)
(* or a release changes no binding that an ordinary command wrote, but the *)
(* planned ones.                                                           *)
(***************************************************************************)
FreshBindingsStay ==
  [][\A s \in Spaces, f \in SetNames :
       ~ NameFree(s, f) /\ Kind(live[s][f]) = "ordinary" /\ live'[s][f] # live[s][f]
       => planned # Nothing /\ live[s][f] = Entry(f).binding]_lostVars

(***************************************************************************)
(* "Retry the same command after interruption.  To abandon an incomplete   *)
(* restore, use [...] --release-reservations" (docs/storage-recovery.md):  *)
(* while a name is reserved the journal does not refuse the restore unless *)
(* the host would let the set be released.  The code does not keep this:   *)
(* a release that the host refuses has already ended the restore.          *)
(***************************************************************************)
LostSetCanBeResolved ==
  planned # Nothing /\ (\E f \in SetNames : IsPending(HomeBinding(f))) /\ (\A c \in Clients : stage[c] = "idle") =>
    planned.status \in {"prepared", "reserved"} \/ host.data \in {"none", "staged"}
================================================================================
