----------------------------- MODULE GuestBrowser -----------------------------
(***************************************************************************)
(* The virtual machine behind a Browser target and the Chromium inside it: *)
(* HypemanFarmBackend (cli/hypeman-backend.ts), KernelBrowser              *)
(* (cli/kernel.ts) and the operations of BrowserFarm (cli/farm.ts) that    *)
(* drive them: create with its wait, destroy, export, import and uploads.  *)
(*                                                                         *)
(* BrowserFleet asks which backend and target a profile has; here there is *)
(* one profile on one backend, and the question is what becomes of the     *)
(* bytes Chromium wrote.  The processes of one runtime directory share an  *)
(* allocation lock; those of two machines share nothing but the backend.   *)
(* A create waits for its browser after it has released the lock.          *)
(*                                                                         *)
(* Reads of the backend that no write separates are one step.  A           *)
(* connection reaches whichever VM has the address it was opened to, and   *)
(* the next VM may have got the address of the last one.                   *)
(***************************************************************************)
EXTENDS Naturals

CONSTANTS
  Procs,         \* command-line and provider processes
  Runtimes,      \* their runtime directories
  Creators,      \* bound: those that create targets and stage uploads
  Destroyers,    \* bound: those that destroy them, export and import
  MaxInstances,  \* bound on the VMs created
  MaxPid         \* bound on the Chromium processes of a VM

ASSUME GuestAssumption ==
  /\ Creators \cup Destroyers \subseteq Procs /\ Runtimes # {}
  /\ MaxInstances \in Nat \ {0} /\ MaxPid \in Nat \ {0}

VARIABLES
  runtime,   \* the runtime directory each process works in, for good
  vm,        \* the instance that has the profile's volume, if any
  made,      \* how many there have been; an id is never used twice
  forward,   \* the instances the host forwards ports to
  receipts,  \* the container each runtime's target receipt names, 0 for none
  at, job,   \* where each process is, and its operation's locals
  archive,   \* what is at the path an export was asked for
  local,     \* the version of the local file uploads are made of
  staged,    \* the file of each process's upload in the guest
  told       \* what each process's last upload was told

hostVars == <<vm, made, forward, receipts>>
fileVars == <<archive, local, staged, told>>
guestVars == <<runtime, vm, made, forward, receipts, at, job, archive, local, staged, told>>

NoVm == [id |-> 0]
Exists == vm # NoVm
Names == {"main", "archive"}   \* the user's target and an archive operation's temporary one
Archiving == {"export", "import"}

NoJob == [op |-> "none", name |-> "main", force |-> FALSE, expected |-> 0, container |-> 0,
          observed |-> 0, id |-> 0, pid |-> 0, next |-> "idle", started |-> FALSE, version |-> "none"]

(* A VM boots with its Chromium STARTING.  "restarted": a create started   *)
(* it again since it was last closed.                                      *)
NewVm(n, c, id) ==
  [id |-> id, name |-> n, container |-> c, running |-> TRUE, legacy |-> FALSE,
   chromium |-> "STARTING", pid |-> 1, dirty |-> "clean", restarted |-> FALSE]

(* There may be a target of an earlier release, whose supervisor restarts  *)
(* Chromium whatever its exit status.                                      *)
Init ==
  /\ runtime \in [Procs -> Runtimes]
  /\ \E old \in BOOLEAN :
       /\ made = IF old THEN 1 ELSE 0
       /\ vm = IF old THEN [NewVm("main", 1, 1) EXCEPT !.legacy = TRUE, !.chromium = "RUNNING"]
               ELSE NoVm
       /\ forward = IF old THEN {1} ELSE {}
       /\ receipts = [r \in Runtimes |-> [n \in Names |-> IF old /\ n = "main" THEN 1 ELSE 0]]
  /\ at = [p \in Procs |-> "idle"]
  /\ job = [p \in Procs |-> NoJob]
  /\ archive = "none" /\ local = "v1"
  /\ staged = [p \in Procs |-> "none"]
  /\ told = [p \in Procs |-> "nothing"]

Goto(p, l) == at' = [at EXCEPT ![p] = l]
Keep(p, j) == job' = [job EXCEPT ![p] = j]
Return(p) == Goto(p, "idle") /\ Keep(p, NoJob)

(* withAllocationLock: a create that waits and an upload do not hold it.   *)
Waiting == {"access", "wait", "ensure"}
HoldsLock(p) ==
  /\ job[p].op \notin {"none", "upload"}
  /\ ~(job[p].op = "create" /\ (at[p] \in Waiting \/ job[p].next = "ensure"))
MayLock(p) == at[p] = "idle" /\ \A q \in Procs : runtime[q] = runtime[p] => ~HoldsLock(q)

Receipt(p, n) == receipts[runtime[p]][n]
SetReceipt(p, n, c) == receipts' = [receipts EXCEPT ![runtime[p]][n] = c]

(* Of a name, the container its receipt or the managed list gives.         *)
ContainerOf(p, n) ==
  IF Receipt(p, n) # 0 THEN Receipt(p, n)
  ELSE IF Exists /\ vm.name = n THEN vm.container ELSE 0
Present(c) == Exists /\ vm.container = c

(***************************************************************************)
(* create and prepareCreate                                                *)
(***************************************************************************)
(* prepareCreate up to its first change: no other container may have the   *)
(* profile, and inspectContainer remembers which instance it saw.          *)
Prepare(p, op, n) ==
  LET known == ContainerOf(p, n)
      c == IF known # 0 THEN known ELSE made + 1
  IN /\ Exists => vm.container = c
     /\ Keep(p, [NoJob EXCEPT !.op = op, !.name = n, !.container = c, !.observed = vm.id])
     /\ Goto(p, IF ~Exists THEN "run" ELSE IF vm.running THEN "sync" ELSE "start")

(* Another process's upload, or none: what the last one left is past.      *)
NewUpload(p) ==
  /\ staged' = [staged EXCEPT ![p] = "none"]
  /\ told' = [told EXCEPT ![p] = "nothing"]
  /\ local' = "v1"

Create(p) ==
  /\ MayLock(p) /\ p \in Creators
  /\ Prepare(p, "create", "main")
  /\ NewUpload(p)
  /\ UNCHANGED <<runtime, hostVars, archive>>

(* withIdleProfileTarget: the profile must have no consumer, its temporary *)
(* target no receipt.  An export wants its path free: it names a new one.  *)
Archive(p, op) ==
  /\ MayLock(p) /\ p \in Destroyers /\ ~Exists /\ Receipt(p, "archive") = 0
  /\ Prepare(p, op, "archive")
  /\ archive' = "none"
  /\ UNCHANGED <<runtime, hostVars, local, staged, told>>

(* runBrowser: Hypeman attaches a volume to one instance only.             *)
RunBrowser(p) ==
  /\ at[p] = "run" /\ ~Exists /\ made < MaxInstances
  /\ made' = made + 1
  /\ vm' = NewVm(job[p].name, job[p].container, made')
  /\ Goto(p, "sync") /\ Keep(p, [job[p] EXCEPT !.observed = 0])
  /\ UNCHANGED <<runtime, forward, receipts, fileVars>>

(* startContainer, and the inspection after it.                            *)
StartContainer(p) ==
  /\ at[p] = "start" /\ Present(job[p].container) /\ vm.id = job[p].observed
  /\ vm.running \/ vm.pid < MaxPid
  /\ vm' = IF vm.running THEN vm
           ELSE [vm EXCEPT !.running = TRUE, !.chromium = "STARTING", !.pid = @ + 1,
                           !.restarted = TRUE]
  /\ Goto(p, "sync")
  /\ UNCHANGED <<runtime, made, forward, receipts, job, fileVars>>

(* syncNetwork after a create or start, and on a target found running.     *)
SyncCreated(p) ==
  /\ at[p] = "sync"
  /\ forward' = IF Exists /\ vm.running THEN {vm.id} ELSE {}
  /\ Goto(p, "record")
  /\ UNCHANGED <<runtime, vm, made, receipts, job, fileVars>>

(* writeTarget; the allocation lock of a create is released here.          *)
Record(p) ==
  /\ at[p] = "record" /\ Present(job[p].container)
  /\ SetReceipt(p, job[p].name, job[p].container)
  /\ Goto(p, "access")
  /\ UNCHANGED <<runtime, vm, made, forward, job, fileVars>>

(***************************************************************************)
(* waitReady                                                               *)
(***************************************************************************)
(* browserAccess inspects the container, so the wait is for the instance   *)
(* that is there when it begins.                                           *)
Access(p) ==
  /\ at[p] = "access" /\ Present(job[p].container)
  /\ Goto(p, "wait") /\ Keep(p, [job[p] EXCEPT !.observed = vm.id])
  /\ UNCHANGED <<runtime, hostVars, fileVars>>

\* Mutant of Begins: an export downloads the profile of a running Chromium.
BeginsAtOnce(op) == IF op = "export" THEN "download" ELSE "configure"

(* exportProfile stops Chromium first; Kernel's import does so itself.      *)
Begins(op) == IF op = "export" THEN "stop" ELSE "configure"

(* The forwarded port answers: the create is over, the operation begins.   *)
Ready(p) ==
  /\ at[p] = "wait" /\ Exists /\ vm.id \in forward
  /\ vm.running /\ vm.chromium = "RUNNING"
  /\ IF job[p].op = "create" THEN Return(p)
     ELSE Goto(p, "open") /\ Keep(p, [job[p] EXCEPT !.next = Begins(job[p].op)])
  /\ UNCHANGED <<runtime, hostVars, fileVars>>

(* It does not, or not in time, whatever Chromium does: until that has     *)
(* succeeded once, Kernel is asked to start it.                            *)
NotReady(p) ==
  /\ at[p] = "wait" /\ ~job[p].started
  /\ Goto(p, "open") /\ Keep(p, [job[p] EXCEPT !.next = "ensure"])
  /\ UNCHANGED <<runtime, hostVars, fileVars>>

(* withKernel: the instance observed before, running; a tunnel to its      *)
(* address; and the same instance again once the tunnel is open.           *)
Open(p) ==
  /\ at[p] = "open" /\ Present(job[p].container) /\ vm.running
  /\ job[p].observed \in {0, vm.id}
  /\ Goto(p, "check") /\ Keep(p, [job[p] EXCEPT !.id = vm.id])
  /\ UNCHANGED <<runtime, hostVars, fileVars>>

Check(p) ==
  /\ at[p] = "check" /\ Exists /\ vm.id = job[p].id
  /\ Goto(p, job[p].next)
  /\ UNCHANGED <<runtime, hostVars, job, fileVars>>

Reached == Exists /\ vm.running

(* ensureStarted: Chromium is started, or found running.                   *)
EnsureStarted(p) ==
  /\ at[p] = "ensure" /\ Reached
  /\ \/ /\ vm.chromium = "RUNNING" /\ UNCHANGED vm
     \/ /\ vm.chromium \in {"STOPPED", "EXITED", "CRASHED"} /\ vm.pid < MaxPid
        /\ vm' = [vm EXCEPT !.chromium = "STARTING", !.pid = @ + 1, !.restarted = TRUE]
  /\ Goto(p, "wait") /\ Keep(p, [job[p] EXCEPT !.started = TRUE, !.next = "idle"])
  /\ UNCHANGED <<runtime, made, forward, receipts, fileVars>>

(* Whatever failed in between, the wait goes on.                           *)
EnsureFails(p) ==
  /\ at[p] \in {"open", "check", "ensure"} /\ job[p].next = "ensure"
  /\ Goto(p, "wait") /\ Keep(p, [job[p] EXCEPT !.next = "idle"])
  /\ UNCHANGED <<runtime, hostVars, fileVars>>

(***************************************************************************)
(* destroyTarget and removeContainer                                       *)
(***************************************************************************)
\* Mutant of Wanted: the identity the caller asked for is not compared.
WantsAny(j) == j.observed \in {0, vm.id}

(* The instance the caller asked for, or else the one seen before.         *)
Wanted(j) == vm.id = IF j.expected # 0 THEN j.expected ELSE j.observed

\* Mutant of Absent: an absent container leaves forwarding as it is.
AbsentUnsynced == "forget"

(* An absent container is no error: its delete may have been accepted and  *)
(* the response lost.  What forwarded to it is removed all the same.       *)
Absent == "unsync"

Destroy(p, n, force, expected) ==
  LET c == ContainerOf(p, n)
      j == [NoJob EXCEPT !.op = "destroy", !.name = n, !.force = force, !.expected = expected,
                         !.container = c, !.observed = IF Present(c) THEN vm.id ELSE 0]
  IN /\ MayLock(p) /\ p \in Destroyers
     /\ Present(c) => Wanted(j)
     /\ Goto(p, IF Present(c) THEN "remove" ELSE Absent)
     /\ Keep(p, j)
     /\ UNCHANGED <<runtime, hostVars, fileVars>>

(* removeContainer reads the instance once more, and stops its Chromium    *)
(* if it runs; --force abandons what Chromium has not written.             *)
Remove(p) ==
  /\ at[p] = "remove"
  /\ IF ~Present(job[p].container) THEN Goto(p, "forget") /\ UNCHANGED job
     ELSE /\ Wanted(job[p])
          /\ IF vm.running /\ ~job[p].force
             THEN Goto(p, "open") /\ Keep(p, [job[p] EXCEPT !.id = vm.id, !.next = "stop"])
             ELSE Goto(p, "delete") /\ Keep(p, [job[p] EXCEPT !.id = vm.id])
  /\ UNCHANGED <<runtime, hostVars, fileVars>>

Deleted(id) == vm' = IF vm.id = id THEN NoVm ELSE vm

(* DELETE by id: an instance that is gone already is no error.             *)
Delete(p) ==
  /\ at[p] = "delete"
  /\ Deleted(job[p].id)
  /\ IF vm.id = job[p].id
     THEN /\ staged' = [q \in Procs |-> "none"]
          /\ told' = [q \in Procs |-> "nothing"]
     ELSE UNCHANGED <<staged, told>>
  /\ Goto(p, "unsync")
  /\ UNCHANGED <<runtime, made, forward, receipts, job, archive, local>>

(* With the original gone, a release of that very instance is refused.     *)
SyncRemoved(p) ==
  /\ at[p] = "unsync"
  /\ forward' = IF Exists /\ vm.running THEN {vm.id} ELSE {}
  /\ IF job[p].expected # 0 /\ job[p].observed = 0 THEN Return(p)
     ELSE Goto(p, "forget") /\ UNCHANGED job
  /\ UNCHANGED <<runtime, vm, made, receipts, fileVars>>

(* removeTarget; the lock is released.                                     *)
Forget(p) ==
  /\ at[p] = "forget"
  /\ SetReceipt(p, job[p].name, 0)
  /\ Return(p)
  /\ UNCHANGED <<runtime, vm, made, forward, fileVars>>

(***************************************************************************)
(* KernelBrowser.stop: Chromium closes over CDP, the supervisor confirms   *)
(* that it exited, and the guest syncs its file systems.                   *)
(***************************************************************************)
Quiescent == vm.chromium = "STOPPED" \/ (~vm.legacy /\ vm.chromium = "EXITED")

Stop(p) ==
  /\ at[p] = "stop" /\ Reached
  /\ Quiescent \/ vm.chromium = "RUNNING"
  /\ vm' = [vm EXCEPT !.restarted = @ /\ ~Quiescent]
  /\ Goto(p, IF Quiescent THEN "flush" ELSE "close")
  /\ Keep(p, [job[p] EXCEPT !.pid = IF Quiescent THEN 0 ELSE vm.pid])
  /\ UNCHANGED <<runtime, made, forward, receipts, fileVars>>

(* Browser.close, and the poll that follows it.  A supervisor that always  *)
(* restarts has started a successor: it is stopped, not closed.            *)
Closed(p) ==
  /\ at[p] = "close" /\ Reached
  /\ \/ /\ Quiescent
        /\ vm' = [vm EXCEPT !.restarted = FALSE]
     \/ /\ vm.legacy /\ vm.chromium = "RUNNING" /\ vm.pid # job[p].pid
        /\ vm' = [vm EXCEPT !.chromium = "STOPPED", !.restarted = FALSE,
                            !.dirty = IF @ = "memory" THEN "cache" ELSE @]
  /\ Goto(p, "flush") /\ Keep(p, [job[p] EXCEPT !.pid = 0])
  /\ UNCHANGED <<runtime, made, forward, receipts, fileVars>>

\* Mutant of Synced: no sync.
NotSynced == vm

Synced == [vm EXCEPT !.dirty = IF @ = "cache" THEN "clean" ELSE @]

Flush(p) ==
  /\ at[p] = "flush" /\ Reached
  /\ vm' = Synced
  /\ Goto(p, IF job[p].op = "export" THEN "download" ELSE "delete")
  /\ UNCHANGED <<runtime, made, forward, receipts, job, fileVars>>

(***************************************************************************)
(* The archive operations; exportProfile calls stop() first.  A temporary  *)
(* file takes the stream and is linked to the path when it is complete.    *)
(* Whatever happened, the temporary target is destroyed.                   *)
(***************************************************************************)
CleanUp(p) ==
  /\ Goto(p, IF Present(job[p].container) THEN "remove" ELSE Absent)
  /\ Keep(p, [NoJob EXCEPT !.op = "destroy", !.name = "archive", !.container = job[p].container,
                           !.observed = IF Present(job[p].container) THEN vm.id ELSE 0])

(* The files of a Chromium that runs, or that no sync has reached, are not *)
(* all there.                                                              *)
Torn == vm.chromium \notin {"STOPPED", "EXITED"} \/ vm.dirty # "clean"

Download(p) ==
  /\ at[p] = "download" /\ Reached
  /\ archive = "none" /\ archive' = IF Torn THEN "torn" ELSE "whole"
  /\ CleanUp(p)
  /\ UNCHANGED <<runtime, hostVars, local, staged, told>>

(* importProfile: Kernel stops Chromium, replaces its data and starts it.  *)
Configure(p) ==
  /\ at[p] = "configure" /\ Reached /\ vm.pid < MaxPid
  /\ vm' = [vm EXCEPT !.chromium = "STARTING", !.pid = @ + 1, !.dirty = "cache"]
  /\ CleanUp(p)
  /\ UNCHANGED <<runtime, made, forward, receipts, fileVars>>

(***************************************************************************)
(* stageUpload, under no lock: the local file is hashed, a directory made, *)
(* the file sent, and what the guest then holds compared with the hash.    *)
(***************************************************************************)
Upload(p) ==
  /\ at[p] = "idle" /\ p \in Creators /\ Exists
  /\ Goto(p, "open")
  /\ Keep(p, [NoJob EXCEPT !.op = "upload", !.container = vm.container, !.next = "hash"])
  /\ NewUpload(p)
  /\ UNCHANGED <<runtime, hostVars, archive>>

Hash(p) ==
  /\ at[p] = "hash"
  /\ Goto(p, "mkdir") /\ Keep(p, [job[p] EXCEPT !.version = local])
  /\ UNCHANGED <<runtime, hostVars, fileVars>>

Mkdir(p) ==
  /\ at[p] = "mkdir" /\ Reached
  /\ staged' = [staged EXCEPT ![p] = "directory"]
  /\ Goto(p, "put")
  /\ UNCHANGED <<runtime, hostVars, job, archive, local, told>>

Put(p) ==
  /\ at[p] = "put" /\ Reached /\ staged[p] = "directory"
  /\ \/ /\ staged' = [staged EXCEPT ![p] = local]
        /\ Goto(p, "verify")
     \/ /\ staged' = [staged EXCEPT ![p] = "partial"]
        /\ Goto(p, "clean")
  /\ UNCHANGED <<runtime, hostVars, job, archive, local, told>>

Matches(p) == staged[p] = job[p].version

Verify(p) ==
  /\ at[p] = "verify" /\ Reached /\ Matches(p)
  /\ told' = [told EXCEPT ![p] = job[p].version]
  /\ Return(p)
  /\ UNCHANGED <<runtime, hostVars, archive, local, staged>>

(* Once the directory is made, a failure removes it.                       *)
AfterFailure(p) == Goto(p, "clean") /\ UNCHANGED <<job, told>>

UploadFails(p) ==
  /\ at[p] \in {"put", "verify"}
  /\ AfterFailure(p)
  /\ UNCHANGED <<runtime, hostVars, archive, local, staged>>

CleanUpload(p) ==
  /\ at[p] = "clean"
  /\ \/ /\ Reached
        /\ staged' = [staged EXCEPT ![p] = "none"]
        /\ told' = [told EXCEPT ![p] = "failed"]
     \/ /\ told' = [told EXCEPT ![p] = "upload_cleanup_failed"]
        /\ UNCHANGED staged
  /\ Return(p)
  /\ UNCHANGED <<runtime, hostVars, archive, local>>

(***************************************************************************)
(* Errors.  One is thrown to the command line and undoes nothing, but an   *)
(* archive operation that fails destroys its temporary target; a crash     *)
(* does not get that far.                                                  *)
(***************************************************************************)
Fail(p) ==
  /\ at[p] \notin {"idle", "put", "verify", "clean"} /\ job[p].next # "ensure"
  /\ IF job[p].op \in Archiving THEN CleanUp(p) ELSE Return(p)
  /\ UNCHANGED <<runtime, hostVars, fileVars>>

Crash(p) ==
  /\ at[p] # "idle" /\ job[p].op \in Archiving
  /\ Return(p)
  /\ UNCHANGED <<runtime, hostVars, fileVars>>

(***************************************************************************)
(* The guest: Chromium's writes reach its files when it exits, and the     *)
(* disk when the file systems sync.  The supervisor restarts a crash, and  *)
(* in a VM of an earlier release everything but a stop.                    *)
(***************************************************************************)
Guest(v) ==
  /\ vm' = v
  /\ UNCHANGED <<runtime, made, forward, receipts, at, job, fileVars>>

Chromium(state) == Exists /\ vm.running /\ vm.chromium = state
Starts == Chromium("STARTING") /\ Guest([vm EXCEPT !.chromium = "RUNNING"])
Writes == Chromium("RUNNING") /\ Guest([vm EXCEPT !.dirty = "memory"])
Exits == Chromium("RUNNING") /\ \E end \in {"EXITED", "CRASHED"} :
  Guest([vm EXCEPT !.chromium = end, !.dirty = IF @ = "memory" THEN "cache" ELSE @])
Restarts ==
  /\ Chromium("CRASHED") \/ (Chromium("EXITED") /\ vm.legacy)
  /\ vm.pid < MaxPid
  /\ Guest([vm EXCEPT !.chromium = "STARTING", !.pid = @ + 1])
Halts ==
  /\ Exists /\ vm.running
  /\ Guest([vm EXCEPT !.running = FALSE, !.chromium = "STOPPED", !.dirty = "clean"])

(* The local file may change once while an upload reads it.                *)
EditLocal ==
  /\ local = "v1" /\ local' = "v2"
  /\ \E p \in Procs : at[p] \in {"mkdir", "put"}
  /\ UNCHANGED <<runtime, hostVars, at, job, archive, staged, told>>

Next ==
  \/ \E p \in Procs :
       \/ Create(p) \/ RunBrowser(p) \/ StartContainer(p) \/ SyncCreated(p) \/ Record(p)
       \/ Access(p) \/ Ready(p) \/ NotReady(p) \/ Open(p) \/ Check(p)
       \/ EnsureStarted(p) \/ EnsureFails(p)
       \/ Remove(p) \/ Delete(p) \/ SyncRemoved(p) \/ Forget(p)
       \/ Stop(p) \/ Closed(p) \/ Flush(p) \/ Download(p) \/ Configure(p)
       \/ Upload(p) \/ Hash(p) \/ Mkdir(p) \/ Put(p) \/ Verify(p) \/ UploadFails(p)
       \/ CleanUpload(p) \/ Fail(p) \/ Crash(p)
       \/ \E op \in Archiving : Archive(p, op)
       \/ \E n \in Names, force \in BOOLEAN, expected \in 0..made : Destroy(p, n, force, expected)
  \/ Starts \/ Writes \/ Exits \/ Restarts \/ Halts \/ EditLocal

Spec == Init /\ [][Next]_guestVars

-----------------------------------------------------------------------------
(* PROPERTIES *)

Deleting(p) == at[p] = "delete" /\ at'[p] = "unsync" /\ Exists /\ vm' = NoVm

(* "wait for supervisor to confirm a successful exit, then sync guest       *)
(* filesystem buffers before deleting the exact Hypeman instance"           *)
(* (docs/profiles.md:66): a destroy without --force, and the end of an      *)
(* export or import, deletes no VM that holds writes the disk has not.      *)
NoUnflushedLoss ==
  [][\A p \in Procs : Deleting(p) /\ ~job[p].force => vm.dirty = "clean"]_guestVars

(* What follows is promised to the processes of one runtime directory.      *)
(* Another machine may destroy the temporary target of an import halfway.   *)
OneDirectory == \A p, q \in Procs : runtime[p] = runtime[q]

(* The same, but for the VM that a create started again after the stop:     *)
(* no crash, halt, legacy supervisor or retry loses writes.                 *)
WritesReachDisk ==
  [][OneDirectory =>
      \A p \in Procs : Deleting(p) /\ ~job[p].force => vm.dirty = "clean" \/ vm.restarted]_guestVars

(* A release that names an instance never deletes another that took its     *)
(* container name meanwhile, from whatever machine (removeContainer,        *)
(* destroyTarget).                                                          *)
OnlyExpectedIsDeleted ==
  [][\A p \in Procs : Deleting(p) /\ job[p].expected # 0 => vm.id = job[p].expected]_guestVars

(* An export takes its archive from a profile whose Chromium has exited and *)
(* whose files have reached the disk (kernel.ts: exportProfile stops it     *)
(* first), whatever destroys, halts, crashes and a legacy supervisor do,    *)
(* with one exception: a create that still waits has started Chromium again *)
(* since the stop.  It had opened its connection to the VM that had this    *)
(* address before; the archive is then of a running browser, as the deleted *)
(* VM of NoUnflushedLoss is.                                                *)
ArchiveIsWhole ==
  [][OneDirectory /\ archive # "torn" /\ archive' = "torn" => vm.restarted]_guestVars

(* When a destroy is about to forget its target, no port is forwarded to a  *)
(* VM that is gone, also after a retry of one whose answer was lost         *)
(* (farm.ts: destroyTarget).                                                *)
DestroyCleansForwarding ==
  OneDirectory => \A p \in Procs : at[p] = "forget" => forward \subseteq {vm.id}

(* A path an upload returned holds the bytes that were hashed, although the *)
(* local file may change and a transfer stop halfway; a failed upload       *)
(* leaves no file, unless its error says that it could not be removed.      *)
UploadIsWholeOrGone ==
  \A p \in Creators :
    /\ told[p] \in {"v1", "v2"} => staged[p] = told[p]
    /\ told[p] = "failed" => staged[p] \in {"none", "directory"}
    /\ at[p] = "idle" /\ staged[p] = "partial" => told[p] = "upload_cleanup_failed"

=============================================================================
