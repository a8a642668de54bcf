------------------------- MODULE GuestBrowser_proofs -------------------------
(***************************************************************************)
(* Proofs about GuestBrowser: an exported archive is whole, writes reach   *)
(* the disk, a destroy leaves no forwarding behind, and a release deletes  *)
(* the instance it names.                                                  *)
(*                                                                         *)
(* The processes of one directory take turns, but for the creates that     *)
(* wait.  Those can only start a Chromium, which marks the VM "restarted"; *)
(* so what the lock's holder has made sure of stays true until it acts.    *)
(*                                                                         *)
(* And about CdpPage: the temporary tab leaves the browser as it was found.*)
(***************************************************************************)
EXTENDS GuestBrowser, CdpPage, FiniteSetTheorems, SequenceTheorems, TLAPS

Places == {"idle", "run", "start", "sync", "record", "access", "wait", "open", "check", "ensure",
           "remove", "delete", "unsync", "forget", "stop", "close", "flush", "download",
           "configure", "hash", "mkdir", "put", "verify", "clean"}

Jobs == [op : {"none", "create", "export", "import", "destroy", "upload"}, name : Names,
         force : BOOLEAN, expected : Nat, container : Nat, observed : Nat, id : Nat, pid : Nat,
         next : {"idle", "ensure", "stop", "configure", "hash"}, started : BOOLEAN,
         version : {"none", "v1", "v2"}]

Vms == [id : Nat \ {0}, name : Names, container : Nat, running : BOOLEAN, legacy : BOOLEAN,
        chromium : {"STARTING", "RUNNING", "STOPPED", "EXITED", "CRASHED"}, pid : Nat,
        dirty : {"clean", "cache", "memory"}, restarted : BOOLEAN]

TypeInv ==
  /\ runtime \in [Procs -> Runtimes]
  /\ vm \in Vms \cup {NoVm} /\ made \in Nat
  /\ receipts \in [Runtimes -> [Names -> Nat]]
  /\ at \in [Procs -> Places] /\ job \in [Procs -> Jobs]
  /\ local \in {"v1", "v2"}

\* Where an operation can be, by its kind.
Begun == {"run", "start", "sync", "record"}
StageOK(l, j) ==
  /\ j.op = "none" => l = "idle"
  /\ j.op = "upload" => \/ l \in {"open", "check"} /\ j.next = "hash"
                        \/ l \in {"hash", "mkdir", "put", "verify", "clean"}
  /\ j.op = "create" => \/ l \in Begun /\ j.next = "idle"
                        \/ l \in {"access", "wait"}
                        \/ l \in {"open", "check", "ensure"} /\ j.next = "ensure"
  /\ j.op \in Archiving => \/ l \in Begun \cup {"access", "wait"}
                           \/ l \in {"open", "check", "ensure"} /\ j.next = "ensure"
                           \/ l \in {"open", "check"} /\ j.next = Begins(j.op)
                           \/ l \in {"stop", "close", "flush", "download"} /\ j.op = "export"
                           \/ l = "configure"
  /\ j.op = "destroy" => \/ l \in {"remove", "delete", "unsync", "forget", "stop", "close", "flush"}
                         \/ l \in {"open", "check"} /\ j.next = "stop"

Staged == \A p \in Procs : StageOK(at[p], job[p])

\* Of a release that names an instance, what it has seen and will delete.
TargetOK(l, j) ==
  j.op = "destroy" /\ j.expected # 0 =>
    /\ l \in {"remove", "open"} => j.observed = j.expected
    /\ l \in {"check", "stop", "close", "flush", "delete"} => j.id = j.expected

Targeted == \A p \in Procs : TargetOK(at[p], job[p])

Locks(l, j) ==
  /\ j.op \notin {"none", "upload"}
  /\ ~(j.op = "create" /\ (l \in Waiting \/ j.next = "ensure"))

OneHolder == \A p, q \in Procs : HoldsLock(p) /\ HoldsLock(q) => p = q

\* Chromium holds nothing back unless it runs, and nothing is unsynced in a halted VM.
VmOK(v) ==
  v # NoVm =>
    /\ v.dirty = "memory" => v.chromium = "RUNNING"
    /\ ~v.running => v.chromium = "STOPPED" /\ v.dirty = "clean"

Still(v) == v.chromium = "STOPPED" \/ (~v.legacy /\ v.chromium = "EXITED")
Settled(v) == v.restarted \/ (Still(v) /\ v.dirty = "clean")

\* What the lock's holder has made sure of.
SureOf(v, f, l, j) ==
  /\ l = "flush" /\ v # NoVm => v.restarted \/ Still(v)
  /\ l = "download" /\ v # NoVm => Settled(v)
  /\ l = "delete" /\ ~j.force /\ v # NoVm => Settled(v)
  /\ l = "remove" => v # NoVm /\ v.container = j.container
  /\ l = "forget" => f \subseteq {v.id}

Sure == \A p \in Procs : SureOf(vm, forward, at[p], job[p])

Turns == OneHolder /\ Sure

GuestInv ==
  /\ TypeInv
  /\ Staged
  /\ Targeted
  /\ VmOK(vm)
  /\ OneDirectory => Turns

(***************************************************************************)
(* Steps of one process.                                                   *)
(***************************************************************************)
Moves(p, l, j) == at' = [at EXCEPT ![p] = l] /\ job' = [job EXCEPT ![p] = j]

\* What others are sure of survives.
Kept ==
  /\ forward' = forward
  /\ \A l, j : SureOf(vm, forward, l, j) => SureOf(vm', forward, l, j)

LEMMA Moved ==
  ASSUME TypeInv, NEW p \in Procs, NEW l \in Places, NEW j \in Jobs, Moves(p, l, j)
  PROVE  /\ at' \in [Procs -> Places] /\ job' \in [Procs -> Jobs]
         /\ at'[p] = l /\ job'[p] = j
         /\ \A q \in Procs \ {p} : at'[q] = at[q] /\ job'[q] = job[q]
BY DEF TypeInv, Moves

LEMMA LocksAre == \A p \in Procs : HoldsLock(p) <=> Locks(at[p], job[p])
BY DEF HoldsLock, Locks

\* Who has to be sure of something holds the lock.
LEMMA SureNeedsLock ==
  ASSUME NEW l, NEW j \in Jobs, StageOK(l, j), ~Locks(l, j), NEW v, NEW f
  PROVE  SureOf(v, f, l, j)
<1>1. l \notin {"flush", "download", "delete", "remove", "forget"}
  BY DEF StageOK, Locks, Jobs, Archiving, Waiting, Begun
<1> QED
  BY <1>1 DEF SureOf

LEMMA OthersWait ==
  ASSUME OneDirectory, OneHolder, NEW p \in Procs, HoldsLock(p) \/ MayLock(p),
         NEW q \in Procs, q # p
  PROVE  ~HoldsLock(q)
BY DEF OneDirectory, OneHolder, MayLock

LEMMA Acts ==
  ASSUME GuestInv, NEW p \in Procs, NEW l \in Places, NEW j \in Jobs, Moves(p, l, j),
         StageOK(l, j), TargetOK(l, j),
         runtime' = runtime, made' \in Nat, receipts' \in [Runtimes -> [Names -> Nat]],
         local' \in {"v1", "v2"}, vm' \in Vms \cup {NoVm}, VmOK(vm'),
         OneDirectory => SureOf(vm', forward', l, j),
         HoldsLock(p) \/ MayLock(p) \/ (~Locks(l, j) /\ Kept)
  PROVE  GuestInv'
<1>1. /\ at' \in [Procs -> Places] /\ job' \in [Procs -> Jobs]
      /\ at'[p] = l /\ job'[p] = j
      /\ \A q \in Procs \ {p} : at'[q] = at[q] /\ job'[q] = job[q]
  BY Moved DEF GuestInv
<1>2. TypeInv'
  BY <1>1 DEF GuestInv, TypeInv
<1>3. Staged' /\ Targeted'
  BY <1>1 DEF GuestInv, Staged, Targeted
<1>4. ASSUME OneDirectory
      PROVE  OneHolder' /\ Sure'
  <2>1. OneHolder /\ Sure
    BY <1>4 DEF GuestInv, Turns
  <2>2. \A q \in Procs \ {p} : HoldsLock(q)' <=> HoldsLock(q)
    BY <1>1 DEF HoldsLock
  <2>3. HoldsLock(p)' <=> Locks(l, j)
    BY <1>1 DEF HoldsLock, Locks
  <2>4. CASE HoldsLock(p) \/ MayLock(p)
    <3>1. \A q \in Procs \ {p} : ~HoldsLock(q)
      BY <1>4, <2>1, <2>4, OthersWait
    <3>2. OneHolder'
      BY <2>2, <3>1 DEF OneHolder
    <3>3. \A q \in Procs \ {p} : SureOf(vm', forward', at[q], job[q])
      BY <3>1, SureNeedsLock, LocksAre DEF GuestInv, TypeInv, Staged
    <3> QED
      BY <1>1, <1>4, <3>2, <3>3 DEF Sure
  <2>5. CASE ~Locks(l, j) /\ Kept
    <3>1. OneHolder'
      BY <2>1, <2>2, <2>3, <2>5 DEF OneHolder
    <3>2. \A q \in Procs \ {p} : SureOf(vm', forward', at[q], job[q])
      BY <2>1, <2>5 DEF Sure, Kept
    <3> QED
      BY <1>1, <1>4, <3>1, <3>2 DEF Sure
  <2> QED
    BY <2>4, <2>5
<1>5. OneDirectory' => OneDirectory
  BY DEF OneDirectory
<1> QED
  BY <1>2, <1>3, <1>4, <1>5 DEF GuestInv, Turns

\* A step that only moves a process along.
LEMMA MovesOn ==
  ASSUME GuestInv, NEW p \in Procs, NEW l \in Places, NEW j \in Jobs, Moves(p, l, j),
         StageOK(l, j), TargetOK(l, j),
         UNCHANGED <<runtime, vm, made, forward, archive>>,
         receipts' \in [Runtimes -> [Names -> Nat]], local' \in {"v1", "v2"},
         OneDirectory => SureOf(vm, forward, l, j),
         HoldsLock(p) \/ MayLock(p) \/ ~Locks(l, j)
  PROVE  GuestInv'
<1>1. Kept
  BY DEF Kept
<1>2. vm' \in Vms \cup {NoVm} /\ VmOK(vm') /\ made' \in Nat
  BY DEF GuestInv, TypeInv
<1> QED
  BY <1>1, <1>2, Acts

\* A step of the guest.
LEMMA GuestActs ==
  ASSUME GuestInv, UNCHANGED <<runtime, made, receipts, at, job, archive>>,
         local' \in {"v1", "v2"}, vm' \in Vms \cup {NoVm}, VmOK(vm'), Kept
  PROVE  GuestInv'
<1>1. TypeInv' /\ Staged' /\ Targeted'
  BY DEF GuestInv, TypeInv, Staged, Targeted
<1>2. OneHolder => OneHolder'
  BY DEF OneHolder, HoldsLock
<1>3. Sure => Sure'
  BY DEF Sure, Kept
<1>4. OneDirectory' => OneDirectory
  BY DEF OneDirectory
<1> QED
  BY <1>1, <1>2, <1>3, <1>4 DEF GuestInv, Turns

LEMMA VmIsNot == \A v \in Vms : v # NoVm /\ v.id # 0
BY DEF Vms, NoVm

LEMMA KeptIf ==
  ASSUME vm \in Vms, vm' \in Vms, vm'.id = vm.id, vm'.container = vm.container,
         forward' = forward,
         vm.restarted \/ Still(vm) => vm'.restarted \/ Still(vm'),
         Settled(vm) => Settled(vm')
  PROVE  Kept
<1>1. vm # NoVm /\ vm' # NoVm
  BY VmIsNot
<1> QED
  BY <1>1 DEF Kept, SureOf

LEMMA Idles ==
  /\ NoJob \in Jobs /\ StageOK("idle", NoJob) /\ TargetOK("idle", NoJob) /\ ~Locks("idle", NoJob)
  /\ \A v, f : SureOf(v, f, "idle", NoJob)
BY DEF NoJob, Jobs, Names, StageOK, TargetOK, Locks, SureOf, Archiving

\* Whoever gives up or is done.
LEMMA Returns ==
  ASSUME GuestInv, NEW p \in Procs, Return(p),
         UNCHANGED <<runtime, vm, made, forward, archive>>,
         receipts' \in [Runtimes -> [Names -> Nat]], local' \in {"v1", "v2"}
  PROVE  GuestInv'
<1>1. Moves(p, "idle", NoJob) /\ "idle" \in Places
  BY DEF Return, Goto, Keep, Moves, Places
<1> QED
  BY <1>1, Idles, MovesOn

(***************************************************************************)
(* create and the wait                                                     *)
(***************************************************************************)
LEMMA ContainerIsNat ==
  ASSUME TypeInv, NEW p \in Procs, NEW n \in Names
  PROVE  ContainerOf(p, n) \in Nat
BY DEF TypeInv, ContainerOf, Receipt, Exists, Vms

LEMMA IdIsNat == ASSUME TypeInv PROVE vm.id \in Nat
BY DEF TypeInv, Vms, NoVm

LEMMA PreparesOn ==
  ASSUME GuestInv, NEW p \in Procs, MayLock(p), NEW op \in {"create", "export", "import"},
         NEW n \in Names, Prepare(p, op, n), UNCHANGED <<runtime, vm, made, forward, receipts>>,
         local' \in {"v1", "v2"}
  PROVE  GuestInv'
<1> DEFINE known == ContainerOf(p, n)
           c == IF known # 0 THEN known ELSE made + 1
           j == [NoJob EXCEPT !.op = op, !.name = n, !.container = c, !.observed = vm.id]
           l == IF ~Exists THEN "run" ELSE IF vm.running THEN "sync" ELSE "start"
<1>1. c \in Nat /\ vm.id \in Nat
  BY ContainerIsNat, IdIsNat DEF GuestInv, TypeInv
<1>2. Moves(p, l, j)
  BY DEF Prepare, Keep, Goto, Moves
<1> HIDE DEF c
<1>3. j \in Jobs /\ j.op = op /\ j.next = "idle"
  BY <1>1, Idles DEF Jobs, NoJob
<1>4. l \in {"run", "sync", "start"}
  OBVIOUS
<1> HIDE DEF j, l
<1>5. StageOK(l, j) /\ TargetOK(l, j) /\ SureOf(vm', forward', l, j) /\ l \in Places
  BY <1>3, <1>4 DEF StageOK, TargetOK, SureOf, Archiving, Begun, Places
<1>6. vm' \in Vms \cup {NoVm} /\ VmOK(vm') /\ made' \in Nat
      /\ receipts' \in [Runtimes -> [Names -> Nat]]
  BY DEF GuestInv, TypeInv
<1> QED
  BY <1>2, <1>3, <1>5, <1>6, Acts

LEMMA CreateKeeps ==
  ASSUME GuestInv, NEW p \in Procs,
         Create(p) \/ \E op \in Archiving : Archive(p, op)
  PROVE  GuestInv'
<1>1. CASE Create(p)
  <2>1. /\ MayLock(p) /\ Prepare(p, "create", "main") /\ local' = "v1"
        /\ UNCHANGED <<runtime, vm, made, forward, receipts, archive>>
    BY <1>1 DEF Create, NewUpload, hostVars
  <2> QED
    BY <2>1, PreparesOn DEF Names
<1>2. ASSUME NEW op \in Archiving, Archive(p, op)
      PROVE  GuestInv'
  <2>1. /\ MayLock(p) /\ Prepare(p, op, "archive") /\ archive' = "none"
        /\ UNCHANGED <<runtime, vm, made, forward, receipts, local>>
    BY <1>2 DEF Archive, hostVars
  <2>2. local' \in {"v1", "v2"} /\ op \in {"create", "export", "import"} /\ "archive" \in Names
    BY <2>1 DEF GuestInv, TypeInv, Names, Archiving
  <2> QED
    BY <2>1, <2>2, PreparesOn
<1> QED
  BY <1>1, <1>2

\* An operation that has begun and not yet begun to wait holds the lock.
LEMMA BegunLocks ==
  ASSUME GuestInv, NEW p \in Procs, at[p] \in Begun
  PROVE  /\ HoldsLock(p) /\ job[p] \in Jobs /\ job[p].op \in {"create", "export", "import"}
         /\ job[p].op = "create" => job[p].next = "idle"
<1>1. job[p] \in Jobs /\ StageOK(at[p], job[p])
  BY DEF GuestInv, TypeInv, Staged
<1>2. job[p].op \in {"create", "export", "import"} /\ (job[p].op = "create" => job[p].next = "idle")
  BY <1>1 DEF StageOK, Jobs, Begun, Archiving
<1> QED
  BY <1>1, <1>2 DEF HoldsLock, Waiting, Begun

LEMMA BegunKeeps ==
  ASSUME GuestInv, NEW p \in Procs,
         RunBrowser(p) \/ StartContainer(p) \/ SyncCreated(p) \/ Record(p)
  PROVE  GuestInv'
<1>1. at[p] \in Begun
  BY DEF RunBrowser, StartContainer, SyncCreated, Record, Begun
<1>2. /\ HoldsLock(p) /\ job[p] \in Jobs /\ job[p].op \in {"create", "export", "import"}
      /\ job[p].op = "create" => job[p].next = "idle"
  BY <1>1, BegunLocks
<1>3. ASSUME NEW l \in {"sync", "record", "access"}, NEW j \in Jobs, j.op = job[p].op,
             j.next = job[p].next
      PROVE  /\ StageOK(l, j) /\ TargetOK(l, j) /\ l \in Places
             /\ \A v, f : SureOf(v, f, l, j)
  BY <1>2, <1>3 DEF StageOK, TargetOK, SureOf, Archiving, Begun, Places
<1>4. CASE RunBrowser(p)
  <2> DEFINE j == [job[p] EXCEPT !.observed = 0]
             n == NewVm(job[p].name, job[p].container, made')
  <2>1. Moves(p, "sync", j) /\ vm' = n /\ made' = made + 1
        /\ UNCHANGED <<runtime, receipts, archive, local>>
    BY <1>4 DEF RunBrowser, Goto, Keep, Moves, fileVars
  <2>2. j \in Jobs /\ j.op = job[p].op /\ j.next = job[p].next
    BY <1>2 DEF Jobs
  <2>3. made' \in Nat \ {0}
    BY <2>1 DEF GuestInv, TypeInv
  <2>4. n \in Vms /\ VmOK(n)
    BY <1>2, <2>3 DEF Jobs, NewVm, Vms, VmOK
  <2>5. receipts' \in [Runtimes -> [Names -> Nat]] /\ local' \in {"v1", "v2"}
    BY <2>1 DEF GuestInv, TypeInv
  <2> HIDE DEF j, n
  <2>6. vm' \in Vms \cup {NoVm} /\ VmOK(vm')
    BY <2>1, <2>4
  <2>7. StageOK("sync", j) /\ TargetOK("sync", j) /\ "sync" \in Places
        /\ SureOf(vm', forward', "sync", j)
    BY <1>3, <2>2
  <2> QED
    BY <1>2, <2>1, <2>2, <2>3, <2>5, <2>6, <2>7, Acts
<1>5. CASE StartContainer(p)
  <2>1. /\ Moves(p, "sync", job[p])
        /\ vm' = IF vm.running THEN vm
                 ELSE [vm EXCEPT !.running = TRUE, !.chromium = "STARTING", !.pid = vm.pid + 1,
                                 !.restarted = TRUE]
        /\ UNCHANGED <<runtime, made, receipts, archive, local>> /\ vm \in Vms
    <3>1. job' = job /\ job = [job EXCEPT ![p] = job[p]]
      BY <1>5 DEF StartContainer, GuestInv, TypeInv
    <3> QED
      BY <1>5, <3>1 DEF StartContainer, Goto, Moves, fileVars, GuestInv, TypeInv, Present, Exists
  <2>2. vm' \in Vms /\ VmOK(vm')
    <3>1. CASE vm.running
      BY <2>1, <3>1 DEF GuestInv
    <3>2. CASE ~vm.running
      <4>1. vm.pid + 1 \in Nat /\ vm.dirty = "clean"
        BY <2>1, <3>2, VmIsNot DEF Vms, GuestInv, VmOK
      <4>2. vm' \in Vms
        BY <2>1, <3>2, <4>1 DEF Vms
      <4>3. vm'.dirty = "clean" /\ vm'.running
        BY <2>1, <3>2, <4>1 DEF Vms
      <4> QED
        BY <4>2, <4>3 DEF VmOK
    <3> QED
      BY <3>1, <3>2
  <2>3. receipts' \in [Runtimes -> [Names -> Nat]] /\ local' \in {"v1", "v2"} /\ made' \in Nat
    BY <2>1 DEF GuestInv, TypeInv
  <2> QED
    BY <1>2, <1>3, <2>1, <2>2, <2>3, Acts
<1>6. CASE SyncCreated(p)
  <2>1. Moves(p, "record", job[p]) /\ UNCHANGED <<runtime, vm, made, receipts, archive, local>>
    <3>1. job' = job /\ job = [job EXCEPT ![p] = job[p]]
      BY <1>6 DEF SyncCreated, GuestInv, TypeInv
    <3> QED
      BY <1>6, <3>1 DEF SyncCreated, Goto, Moves, fileVars
  <2>2. receipts' \in [Runtimes -> [Names -> Nat]] /\ local' \in {"v1", "v2"} /\ made' \in Nat
        /\ vm' \in Vms \cup {NoVm} /\ VmOK(vm')
    BY <2>1 DEF GuestInv, TypeInv, Turns
  <2> QED
    BY <1>2, <1>3, <2>1, <2>2, Acts
<1>7. CASE Record(p)
  <2>1. Moves(p, "access", job[p]) /\ UNCHANGED <<runtime, vm, made, forward, archive, local>>
    <3>1. job' = job /\ job = [job EXCEPT ![p] = job[p]]
      BY <1>7 DEF Record, GuestInv, TypeInv
    <3> QED
      BY <1>7, <3>1 DEF Record, Goto, Moves, fileVars
  <2>2. receipts' \in [Runtimes -> [Names -> Nat]] /\ local' \in {"v1", "v2"}
    <3>1. receipts' = [receipts EXCEPT ![runtime[p]][job[p].name] = job[p].container]
      BY <1>7 DEF Record, SetReceipt
    <3>2. job[p].name \in Names /\ job[p].container \in Nat /\ runtime[p] \in Runtimes
          /\ receipts \in [Runtimes -> [Names -> Nat]]
      BY <1>2 DEF Jobs, GuestInv, TypeInv
    <3> QED
      BY <2>1, <3>1, <3>2 DEF GuestInv, TypeInv
  <2> QED
    BY <1>2, <1>3, <2>1, <2>2, MovesOn
<1> QED
  BY <1>4, <1>5, <1>6, <1>7

(***************************************************************************)
(* Waiting and connecting: without the lock where a create waits.          *)
(***************************************************************************)
\* A step along that keeps the kind of the operation and concerns no VM.
LEMMA GoesOn ==
  ASSUME GuestInv, NEW p \in Procs, NEW l \in Places \ {"flush", "download", "delete", "remove", "forget"},
         NEW j \in Jobs, Moves(p, l, j), StageOK(l, j), TargetOK(l, j),
         UNCHANGED <<runtime, vm, made, forward, receipts, archive>>, local' \in {"v1", "v2"},
         Locks(l, j) => HoldsLock(p)
  PROVE  GuestInv'
<1>1. \A v, f : SureOf(v, f, l, j)
  BY DEF SureOf
<1>2. receipts' \in [Runtimes -> [Names -> Nat]]
  BY DEF GuestInv, TypeInv
<1> QED
  BY <1>1, <1>2, MovesOn

LEMMA HasJob ==
  ASSUME GuestInv, NEW p \in Procs
  PROVE  /\ job[p] \in Jobs /\ StageOK(at[p], job[p]) /\ TargetOK(at[p], job[p])
         /\ job = [job EXCEPT ![p] = job[p]] /\ vm.id \in Nat /\ local \in {"v1", "v2"}
BY IdIsNat DEF GuestInv, TypeInv, Staged, Targeted

LEMMA WaitKeeps ==
  ASSUME GuestInv, NEW p \in Procs, Access(p) \/ Ready(p) \/ NotReady(p)
  PROVE  GuestInv'
<1>1. job[p] \in Jobs /\ StageOK(at[p], job[p]) /\ vm.id \in Nat /\ local \in {"v1", "v2"}
  BY HasJob
<1>2. job[p].op \in {"create", "export", "import"} /\ at[p] \in {"access", "wait"}
  BY <1>1 DEF Access, Ready, NotReady, StageOK, Jobs, Archiving, Begun
<1>3. job[p].op # "create" => HoldsLock(p)
  BY <1>2 DEF HoldsLock
<1>4. CASE Access(p)
  <2> DEFINE j == [job[p] EXCEPT !.observed = vm.id]
  <2>1. Moves(p, "wait", j) /\ UNCHANGED <<runtime, vm, made, forward, receipts, archive, local>>
    BY <1>4 DEF Access, Goto, Keep, Moves, hostVars, fileVars
  <2>2. j \in Jobs /\ j.op = job[p].op
    BY <1>1 DEF Jobs
  <2> HIDE DEF j
  <2>3. StageOK("wait", j) /\ TargetOK("wait", j) /\ (Locks("wait", j) => j.op # "create")
    BY <1>2, <2>2 DEF StageOK, TargetOK, Locks, Waiting, Archiving
  <2> QED
    BY <1>1, <1>3, <2>1, <2>2, <2>3, GoesOn DEF Places
<1>5. CASE Ready(p) /\ job[p].op = "create"
  <2>1. Return(p) /\ UNCHANGED <<runtime, vm, made, forward, archive>>
        /\ UNCHANGED <<receipts, local>>
    BY <1>5 DEF Ready, hostVars, fileVars
  <2>2. receipts' \in [Runtimes -> [Names -> Nat]]
    BY <2>1 DEF GuestInv, TypeInv
  <2> QED
    BY <1>1, <2>1, <2>2, Returns
<1>6. CASE Ready(p) /\ job[p].op # "create"
  <2> DEFINE j == [job[p] EXCEPT !.next = Begins(job[p].op)]
  <2>1. Moves(p, "open", j) /\ UNCHANGED <<runtime, vm, made, forward, receipts, archive, local>>
    BY <1>6 DEF Ready, Goto, Keep, Moves, hostVars, fileVars
  <2>2. Begins(job[p].op) \in {"stop", "configure"}
    BY DEF Begins
  <2>3. j \in Jobs /\ j.op = job[p].op /\ j.next = Begins(job[p].op)
    BY <1>1, <2>2 DEF Jobs
  <2> HIDE DEF j
  <2>4. StageOK("open", j) /\ TargetOK("open", j)
    BY <1>2, <1>6, <2>3 DEF StageOK, TargetOK, Archiving
  <2> QED
    BY <1>1, <1>3, <1>6, <2>1, <2>3, <2>4, GoesOn DEF Places
<1>7. CASE NotReady(p)
  <2> DEFINE j == [job[p] EXCEPT !.next = "ensure"]
  <2>1. Moves(p, "open", j) /\ UNCHANGED <<runtime, vm, made, forward, receipts, archive, local>>
    BY <1>7 DEF NotReady, Goto, Keep, Moves, hostVars, fileVars
  <2>2. j \in Jobs /\ j.op = job[p].op /\ j.next = "ensure"
    BY <1>1 DEF Jobs
  <2> HIDE DEF j
  <2>3. StageOK("open", j) /\ TargetOK("open", j) /\ (Locks("open", j) => j.op # "create")
    BY <1>2, <2>2 DEF StageOK, TargetOK, Archiving, Locks
  <2> QED
    BY <1>1, <1>3, <2>1, <2>2, <2>3, GoesOn DEF Places
<1> QED
  BY <1>4, <1>5, <1>6, <1>7

LEMMA OpenKeeps ==
  ASSUME GuestInv, NEW p \in Procs, Open(p) \/ Check(p)
  PROVE  GuestInv'
<1>1. job[p] \in Jobs /\ StageOK(at[p], job[p]) /\ TargetOK(at[p], job[p])
      /\ job = [job EXCEPT ![p] = job[p]] /\ vm.id \in Nat /\ local \in {"v1", "v2"}
  BY HasJob
<1>2. CASE Open(p)
  <2> DEFINE j == [job[p] EXCEPT !.id = vm.id]
  <2>1. /\ Moves(p, "check", j) /\ UNCHANGED <<runtime, vm, made, forward, receipts, archive, local>>
        /\ at[p] = "open" /\ job[p].observed \in {0, vm.id}
    BY <1>2 DEF Open, Goto, Keep, Moves, hostVars, fileVars
  <2>2. /\ j \in Jobs /\ j.op = job[p].op /\ j.next = job[p].next /\ j.id = vm.id
        /\ j.expected = job[p].expected
    BY <1>1 DEF Jobs
  <2> HIDE DEF j
  <2>3. StageOK("check", j)
    BY <1>1, <2>1, <2>2 DEF StageOK, Begun
  <2>4. TargetOK("check", j)
    BY <1>1, <2>1, <2>2 DEF TargetOK
  <2>5. Locks("check", j) => HoldsLock(p)
    BY <2>1, <2>2 DEF Locks, HoldsLock, Waiting
  <2> QED
    BY <1>1, <2>1, <2>2, <2>3, <2>4, <2>5, GoesOn DEF Places
<1>3. CASE Check(p)
  <2> DEFINE l == job[p].next
  <2>1. /\ Moves(p, l, job[p]) /\ UNCHANGED <<runtime, vm, made, forward, receipts, archive, local>>
        /\ at[p] = "check"
    BY <1>1, <1>3 DEF Check, Goto, Moves, hostVars, fileVars
  <2>2. l \in {"ensure", "stop", "configure", "hash"} /\ StageOK(l, job[p])
    BY <1>1, <2>1 DEF StageOK, Begun, Begins, Jobs, Archiving
  <2> HIDE DEF l
  <2>3. TargetOK(l, job[p])
    BY <1>1, <2>1, <2>2 DEF TargetOK
  <2>4. Locks(l, job[p]) => HoldsLock(p)
    BY <1>1, <2>1, <2>2 DEF Locks, HoldsLock, Waiting, StageOK, Begun
  <2> QED
    BY <1>1, <2>1, <2>2, <2>3, <2>4, GoesOn DEF Places
<1> QED
  BY <1>2, <1>3

LEMMA EnsureKeeps ==
  ASSUME GuestInv, NEW p \in Procs, EnsureStarted(p) \/ EnsureFails(p)
  PROVE  GuestInv'
<1>1. job[p] \in Jobs /\ StageOK(at[p], job[p]) /\ local \in {"v1", "v2"}
  BY HasJob
<1>2. job[p].op \in {"create", "export", "import"} /\ job[p].next = "ensure"
  BY <1>1 DEF StageOK, Begun, Begins, Jobs, Archiving, EnsureStarted, EnsureFails
<1>3. job[p].op # "create" => HoldsLock(p)
  BY <1>2 DEF HoldsLock
<1>4. ASSUME NEW j \in Jobs, j.op = job[p].op
      PROVE  /\ StageOK("wait", j) /\ TargetOK("wait", j) /\ "wait" \in Places
             /\ \A v, f : SureOf(v, f, "wait", j)
             /\ Locks("wait", j) => HoldsLock(p)
  BY <1>2, <1>3, <1>4 DEF StageOK, TargetOK, SureOf, Locks, Waiting, Archiving, Places
<1>5. CASE EnsureStarted(p)
  <2> DEFINE j == [job[p] EXCEPT !.started = TRUE, !.next = "idle"]
  <2>1. /\ Moves(p, "wait", j) /\ UNCHANGED <<runtime, made, forward, receipts, archive, local>>
        /\ vm # NoVm
        /\ vm' = vm \/ (vm.running /\ vm' = [vm EXCEPT !.chromium = "STARTING", !.pid = vm.pid + 1, !.restarted = TRUE]
                        /\ vm.chromium # "RUNNING")
    BY <1>5 DEF EnsureStarted, Goto, Keep, Moves, fileVars, Reached, Exists
  <2>2. j \in Jobs /\ j.op = job[p].op
    BY <1>1 DEF Jobs
  <2> HIDE DEF j
  <2>3. vm \in Vms /\ VmOK(vm)
    BY <2>1 DEF GuestInv, TypeInv
  <2>4. vm' \in Vms /\ VmOK(vm') /\ Kept
    <3>1. CASE vm' = vm
      BY <2>1, <2>3, <3>1 DEF Kept
    <3>2. CASE vm' # vm
      <4>1. vm.pid + 1 \in Nat /\ vm.running /\ vm.dirty # "memory"
        BY <2>1, <2>3, <3>2 DEF Vms, VmOK
      <4>2. /\ vm' \in Vms /\ vm'.id = vm.id /\ vm'.container = vm.container /\ vm'.restarted
            /\ vm'.dirty = vm.dirty /\ vm'.running = vm.running
        BY <2>1, <2>3, <3>2, <4>1 DEF Vms
      <4>3. VmOK(vm')
        BY <4>1, <4>2 DEF VmOK
      <4> QED
        BY <2>1, <2>3, <4>2, <4>3, KeptIf DEF Settled
    <3> QED
      BY <3>1, <3>2
  <2>5. /\ made' \in Nat /\ receipts' \in [Runtimes -> [Names -> Nat]]
    BY <2>1 DEF GuestInv, TypeInv
  <2> QED
    BY <1>1, <1>4, <2>1, <2>2, <2>4, <2>5, Acts
<1>6. CASE EnsureFails(p)
  <2> DEFINE j == [job[p] EXCEPT !.next = "idle"]
  <2>1. Moves(p, "wait", j) /\ UNCHANGED <<runtime, vm, made, forward, receipts, archive, local>>
    BY <1>6 DEF EnsureFails, Goto, Keep, Moves, hostVars, fileVars
  <2>2. j \in Jobs /\ j.op = job[p].op
    BY <1>1 DEF Jobs
  <2> HIDE DEF j
  <2>3. StageOK("wait", j) /\ TargetOK("wait", j) /\ (Locks("wait", j) => HoldsLock(p))
    BY <1>4, <2>2
  <2> QED
    BY <1>1, <2>1, <2>2, <2>3, GoesOn DEF Places
<1> QED
  BY <1>5, <1>6

(***************************************************************************)
(* Destroying and stopping, under the lock.                                *)
(***************************************************************************)
LEMMA DestroyKeeps ==
  ASSUME GuestInv, NEW p \in Procs, NEW n \in Names, NEW force \in BOOLEAN,
         NEW expected \in 0..made, Destroy(p, n, force, expected)
  PROVE  GuestInv'
<1> DEFINE c == ContainerOf(p, n)
           o == IF Present(c) THEN vm.id ELSE 0
           j == [NoJob EXCEPT !.op = "destroy", !.name = n, !.force = force, !.expected = expected,
                              !.container = c, !.observed = o]
           l == IF Present(c) THEN "remove" ELSE "unsync"
<1>1. /\ MayLock(p) /\ Moves(p, l, j) /\ (Present(c) => Wanted(j))
      /\ UNCHANGED <<runtime, vm, made, forward, receipts, archive, local>>
  BY DEF Destroy, Absent, Goto, Keep, Moves, hostVars, fileVars
<1>2. c \in Nat /\ vm.id \in Nat /\ expected \in Nat
  BY ContainerIsNat, IdIsNat DEF GuestInv, TypeInv
<1> HIDE DEF c
<1>3. o \in Nat /\ (Present(c) => o = vm.id)
  BY <1>2
<1> HIDE DEF o
<1>4. j \in Jobs /\ j.op = "destroy" /\ j.container = c /\ j.observed = o /\ j.expected = expected
  BY <1>2, <1>3, Idles DEF Jobs, NoJob
<1>5. l = "remove" => (Present(c) /\ Wanted(j))
  BY <1>1
<1>6. l \in {"remove", "unsync"}
  OBVIOUS
<1> HIDE DEF j, l
<1>7. StageOK(l, j) /\ l \in Places
  BY <1>4, <1>6 DEF StageOK, Archiving, Places
<1>8. TargetOK(l, j)
  BY <1>3, <1>4, <1>5, <1>6 DEF TargetOK, Wanted
<1>9. SureOf(vm, forward, l, j)
  BY <1>4, <1>5, <1>6 DEF SureOf, Present, Exists
<1>10. receipts' \in [Runtimes -> [Names -> Nat]] /\ local' \in {"v1", "v2"}
  BY <1>1 DEF GuestInv, TypeInv
<1> QED
  BY <1>1, <1>4, <1>7, <1>8, <1>9, <1>10, MovesOn

\* An operation inside the lock.
Inside == {"stop", "close", "flush", "download", "configure", "remove", "delete", "unsync", "forget"}

LEMMA InsideLocks ==
  ASSUME GuestInv, NEW p \in Procs, at[p] \in Inside
  PROVE  /\ HoldsLock(p) /\ job[p].op \in {"export", "import", "destroy"}
         /\ at[p] \in {"remove", "delete", "unsync", "forget"} => job[p].op = "destroy"
         /\ at[p] \in {"stop", "close", "flush"} => job[p].op \in {"export", "destroy"}
<1>1. job[p] \in Jobs /\ StageOK(at[p], job[p])
  BY HasJob
<1>2. /\ job[p].op \in {"export", "import", "destroy"}
      /\ at[p] \in {"remove", "delete", "unsync", "forget"} => job[p].op = "destroy"
      /\ at[p] \in {"stop", "close", "flush"} => job[p].op \in {"export", "destroy"}
  BY <1>1 DEF StageOK, Jobs, Begun, Archiving, Inside
<1> QED
  BY <1>2 DEF HoldsLock

LEMMA RemoveKeeps ==
  ASSUME GuestInv, NEW p \in Procs, Remove(p)
  PROVE  GuestInv'
<1>1. job[p] \in Jobs /\ TargetOK(at[p], job[p])
      /\ job = [job EXCEPT ![p] = job[p]] /\ vm.id \in Nat /\ local \in {"v1", "v2"}
  BY HasJob
<1>2. at[p] = "remove" /\ UNCHANGED <<runtime, vm, made, forward, receipts, archive, local>>
  BY DEF Remove, hostVars, fileVars
<1>3. HoldsLock(p) /\ job[p].op = "destroy"
  BY <1>2, InsideLocks DEF Inside
<1>4. receipts' \in [Runtimes -> [Names -> Nat]] /\ local' \in {"v1", "v2"}
  BY <1>2 DEF GuestInv, TypeInv
<1>5. CASE ~Present(job[p].container)
  <2>1. Moves(p, "forget", job[p])
    BY <1>1, <1>5 DEF Remove, Goto, Moves
  <2>2. ~OneDirectory
    BY <1>2, <1>5 DEF GuestInv, Turns, Sure, SureOf, Present, Exists
  <2>3. StageOK("forget", job[p]) /\ TargetOK("forget", job[p])
    BY <1>3 DEF StageOK, TargetOK, Archiving
  <2> QED
    BY <1>1, <1>2, <1>3, <1>4, <2>1, <2>2, <2>3, MovesOn DEF Places
<1>6. CASE Present(job[p].container) /\ vm.running /\ ~job[p].force
  <2> DEFINE j == [job[p] EXCEPT !.id = vm.id, !.next = "stop"]
  <2>1. Moves(p, "open", j)
    BY <1>6 DEF Remove, Goto, Keep, Moves
  <2>2. /\ j \in Jobs /\ j.op = "destroy" /\ j.next = "stop" /\ j.expected = job[p].expected
        /\ j.observed = job[p].observed
    BY <1>1, <1>3 DEF Jobs
  <2> HIDE DEF j
  <2>3. StageOK("open", j) /\ TargetOK("open", j) /\ SureOf(vm, forward, "open", j)
    BY <1>1, <1>2, <1>3, <2>2 DEF StageOK, TargetOK, SureOf, Archiving
  <2> QED
    BY <1>2, <1>3, <1>4, <2>1, <2>2, <2>3, MovesOn DEF Places
<1>7. CASE Present(job[p].container) /\ ~(vm.running /\ ~job[p].force)
  <2> DEFINE j == [job[p] EXCEPT !.id = vm.id]
  <2>1. Moves(p, "delete", j) /\ Wanted(job[p])
    BY <1>7 DEF Remove, Goto, Keep, Moves
  <2>2. /\ j \in Jobs /\ j.op = "destroy" /\ j.expected = job[p].expected /\ j.id = vm.id
        /\ j.force = job[p].force
    BY <1>1, <1>3 DEF Jobs
  <2> HIDE DEF j
  <2>3. StageOK("delete", j) /\ TargetOK("delete", j)
    BY <1>3, <2>1, <2>2 DEF StageOK, TargetOK, Archiving, Wanted
  <2>4. ~j.force => Settled(vm)
    BY <1>7, <2>2 DEF GuestInv, VmOK, Settled, Still, Present, Exists
  <2>5. SureOf(vm, forward, "delete", j)
    BY <2>4 DEF SureOf
  <2> QED
    BY <1>2, <1>3, <1>4, <2>1, <2>2, <2>3, <2>5, MovesOn DEF Places
<1> QED
  BY <1>5, <1>6, <1>7

LEMMA ForgetKeeps ==
  ASSUME GuestInv, NEW p \in Procs, Delete(p) \/ SyncRemoved(p) \/ Forget(p)
  PROVE  GuestInv'
<1>1. job[p] \in Jobs /\ job = [job EXCEPT ![p] = job[p]] /\ local \in {"v1", "v2"}
  BY HasJob
<1>2. HoldsLock(p) /\ job[p].op = "destroy"
  BY InsideLocks DEF Inside, Delete, SyncRemoved, Forget
<1>3. \A l \in {"unsync", "forget"} :
         l \in Places /\ StageOK(l, job[p]) /\ TargetOK(l, job[p])
  BY <1>2 DEF StageOK, TargetOK, Archiving, Places
<1>4. CASE Delete(p)
  <2>1. /\ Moves(p, "unsync", job[p]) /\ vm' \in {vm, NoVm}
        /\ UNCHANGED <<runtime, made, receipts, archive, local>>
    BY <1>1, <1>4 DEF Delete, Deleted, Goto, Moves
  <2>2. /\ vm' \in Vms \cup {NoVm} /\ VmOK(vm') /\ made' \in Nat /\ local' \in {"v1", "v2"}
        /\ receipts' \in [Runtimes -> [Names -> Nat]]
    BY <2>1 DEF GuestInv, TypeInv, VmOK
  <2>3. SureOf(vm', forward', "unsync", job[p])
    BY DEF SureOf
  <2> QED
    BY <1>1, <1>2, <1>3, <2>1, <2>2, <2>3, Acts
<1>5. CASE SyncRemoved(p)
  <2>1. /\ Return(p) \/ Moves(p, "forget", job[p])
        /\ UNCHANGED <<runtime, vm, made, receipts, archive, local>>
        /\ forward' = IF Exists /\ vm.running THEN {vm.id} ELSE {}
    BY <1>1, <1>5 DEF SyncRemoved, Goto, Moves, fileVars
  <2>2. /\ vm' \in Vms \cup {NoVm} /\ VmOK(vm') /\ made' \in Nat /\ local' \in {"v1", "v2"}
        /\ receipts' \in [Runtimes -> [Names -> Nat]]
    BY <2>1 DEF GuestInv, TypeInv, VmOK
  <2>3. SureOf(vm', forward', "forget", job[p])
    BY <2>1 DEF SureOf
  <2>4. CASE Return(p)
    <3>1. Moves(p, "idle", NoJob) /\ "idle" \in Places
      BY <2>4 DEF Return, Goto, Keep, Moves, Places
    <3>2. SureOf(vm', forward', "idle", NoJob)
      BY Idles
    <3> QED
      BY <1>2, <2>1, <2>2, <3>1, <3>2, Idles, Acts
  <2>5. CASE Moves(p, "forget", job[p])
    BY <1>1, <1>2, <1>3, <2>1, <2>2, <2>3, <2>5, Acts
  <2> QED
    BY <2>1, <2>4, <2>5
<1>6. CASE Forget(p)
  <2>1. /\ Return(p) /\ UNCHANGED <<runtime, vm, made, forward, archive, local>>
        /\ receipts' = [receipts EXCEPT ![runtime[p]][job[p].name] = 0]
    BY <1>6 DEF Forget, SetReceipt, fileVars
  <2>2. receipts' \in [Runtimes -> [Names -> Nat]]
    <3>1. job[p].name \in Names /\ runtime[p] \in Runtimes
          /\ receipts \in [Runtimes -> [Names -> Nat]]
      BY <1>1 DEF Jobs, GuestInv, TypeInv
    <3> QED
      BY <2>1, <3>1
  <2> QED
    BY <1>1, <2>1, <2>2, Returns
<1> QED
  BY <1>4, <1>5, <1>6

LEMMA StopKeeps ==
  ASSUME GuestInv, NEW p \in Procs, Stop(p) \/ Closed(p) \/ Flush(p)
  PROVE  GuestInv'
<1>1. job[p] \in Jobs /\ TargetOK(at[p], job[p]) /\ local \in {"v1", "v2"}
      /\ job = [job EXCEPT ![p] = job[p]]
  BY HasJob
<1>2. HoldsLock(p) /\ job[p].op \in {"export", "destroy"} /\ at[p] \in {"stop", "close", "flush"}
  BY InsideLocks DEF Inside, Stop, Closed, Flush
<1>3. /\ vm \in Vms /\ VmOK(vm) /\ vm.running
      /\ UNCHANGED <<runtime, made, forward, receipts, archive, local>>
  BY DEF Stop, Closed, Flush, Reached, Exists, GuestInv, TypeInv, fileVars
<1>4. /\ made' \in Nat /\ local' \in {"v1", "v2"} /\ receipts' \in [Runtimes -> [Names -> Nat]]
  BY <1>3 DEF GuestInv, TypeInv
<1>5. vm.dirty = "memory" => vm.chromium = "RUNNING"
  BY <1>3, VmIsNot DEF VmOK
<1>6. ASSUME NEW pid \in Nat
      PROVE  LET j == [job[p] EXCEPT !.pid = pid]
             IN  j \in Jobs /\ \A l \in {"close", "flush"} : StageOK(l, j) /\ TargetOK(l, j)
  <2> DEFINE j == [job[p] EXCEPT !.pid = pid]
  <2>1. /\ j \in Jobs /\ j.op = job[p].op /\ j.next = job[p].next /\ j.id = job[p].id
        /\ j.expected = job[p].expected /\ j.observed = job[p].observed
    BY <1>1 DEF Jobs
  <2> HIDE DEF j
  <2>2. \A l \in {"close", "flush"} : StageOK(l, j) /\ TargetOK(l, j)
    BY <1>1, <1>2, <2>1 DEF StageOK, TargetOK, Archiving
  <2>3. j \in Jobs /\ \A l \in {"close", "flush"} : StageOK(l, j) /\ TargetOK(l, j)
    BY <2>1, <2>2
  <2> QED
    BY <2>3 DEF j
<1>7. CASE Stop(p)
  <2> DEFINE pid == IF Quiescent THEN 0 ELSE vm.pid
             j == [job[p] EXCEPT !.pid = pid]
             l == IF Quiescent THEN "flush" ELSE "close"
  <2>1. Moves(p, l, j) /\ vm' = [vm EXCEPT !.restarted = vm.restarted /\ ~Quiescent]
    BY <1>7 DEF Stop, Goto, Keep, Moves
  <2>2. pid \in Nat
    BY <1>3 DEF Vms
  <2> HIDE DEF pid
  <2>3. j \in Jobs /\ \A m \in {"close", "flush"} : StageOK(m, j) /\ TargetOK(m, j)
    BY <1>6, <2>2
  <2>4. l \in {"close", "flush"} /\ (l = "flush" => Still(vm))
    BY DEF Quiescent, Still
  <2>5. /\ vm' \in Vms /\ vm'.dirty = vm.dirty /\ vm'.chromium = vm.chromium
        /\ vm'.legacy = vm.legacy /\ vm'.running = vm.running
    BY <1>3, <2>1 DEF Vms
  <2> HIDE DEF j, l
  <2>6. VmOK(vm') /\ SureOf(vm', forward', l, j)
    BY <1>3, <1>5, <2>4, <2>5 DEF VmOK, SureOf, Still
  <2>7. StageOK(l, j) /\ TargetOK(l, j) /\ l \in Places
    BY <2>3, <2>4 DEF Places
  <2> QED
    BY <1>2, <1>3, <1>4, <2>1, <2>3, <2>5, <2>6, <2>7, Acts
<1>8. CASE Closed(p)
  <2> DEFINE j == [job[p] EXCEPT !.pid = 0]
  <2>1. Moves(p, "flush", j)
    BY <1>8 DEF Closed, Goto, Keep, Moves
  <2>2. j \in Jobs /\ StageOK("flush", j) /\ TargetOK("flush", j)
    BY <1>6
  <2> HIDE DEF j
  <2>3. vm' \in Vms /\ VmOK(vm') /\ Still(vm')
    <3>1. CASE Quiescent /\ vm' = [vm EXCEPT !.restarted = FALSE]
      <4>1. /\ vm' \in Vms /\ vm'.dirty = vm.dirty /\ vm'.chromium = vm.chromium
            /\ vm'.legacy = vm.legacy /\ vm'.running = vm.running
        BY <1>3, <3>1 DEF Vms
      <4> QED
        BY <1>3, <1>5, <3>1, <4>1 DEF VmOK, Still, Quiescent
    <3>2. CASE vm' = [vm EXCEPT !.chromium = "STOPPED", !.restarted = FALSE,
                                !.dirty = IF vm.dirty = "memory" THEN "cache" ELSE vm.dirty]
      <4>1. /\ vm' \in Vms /\ vm'.dirty # "memory" /\ vm'.chromium = "STOPPED" /\ vm'.running
        BY <1>3, <3>2 DEF Vms
      <4> QED
        BY <4>1 DEF VmOK, Still
    <3> QED
      BY <1>8, <3>1, <3>2 DEF Closed
  <2>4. SureOf(vm', forward', "flush", j) /\ "flush" \in Places
    BY <2>3 DEF SureOf, Places
  <2> QED
    BY <1>2, <1>3, <1>4, <2>1, <2>2, <2>3, <2>4, Acts
<1>9. CASE Flush(p)
  <2> DEFINE l == IF job[p].op = "export" THEN "download" ELSE "delete"
  <2>1. /\ Moves(p, l, job[p]) /\ at[p] = "flush"
        /\ vm' = [vm EXCEPT !.dirty = IF vm.dirty = "cache" THEN "clean" ELSE vm.dirty]
    BY <1>1, <1>9 DEF Flush, Synced, Goto, Moves
  <2>2. l \in {"download", "delete"} /\ (l = "download" <=> job[p].op = "export")
    OBVIOUS
  <2> HIDE DEF l
  <2>3. StageOK(l, job[p]) /\ TargetOK(l, job[p]) /\ l \in Places
    BY <1>1, <1>2, <2>1, <2>2 DEF StageOK, TargetOK, Archiving, Places
  <2>4. /\ vm' \in Vms /\ vm'.chromium = vm.chromium /\ vm'.legacy = vm.legacy
        /\ vm'.running = vm.running /\ (vm'.restarted <=> vm.restarted)
        /\ (vm.dirty # "memory" => vm'.dirty = "clean") /\ (vm.dirty = "memory" => vm'.dirty = "memory")
    BY <1>3, <2>1 DEF Vms
  <2>5. VmOK(vm')
    BY <1>3, <1>5, <2>4 DEF VmOK
  <2>6. ASSUME OneDirectory PROVE Settled(vm')
    <3>1. vm.restarted \/ Still(vm)
      BY <1>3, <2>1, <2>6, VmIsNot DEF GuestInv, Turns, Sure, SureOf
    <3> QED
      BY <1>5, <2>4, <3>1 DEF Settled, Still
  <2>7. OneDirectory => SureOf(vm', forward', l, job[p])
    BY <2>2, <2>6 DEF SureOf
  <2> QED
    BY <1>1, <1>2, <1>3, <1>4, <2>1, <2>3, <2>4, <2>5, <2>7, Acts
<1> QED
  BY <1>7, <1>8, <1>9

(***************************************************************************)
(* The end of an archive operation, uploads and errors.                    *)
(***************************************************************************)
LEMMA CleansUp ==
  ASSUME GuestInv, NEW p \in Procs, CleanUp(p), HoldsLock(p),
         UNCHANGED <<runtime, made, forward, receipts, local>>,
         vm' \in Vms \cup {NoVm}, VmOK(vm'), vm # NoVm => vm' # NoVm /\ vm'.container = vm.container
  PROVE  GuestInv'
<1> DEFINE c == job[p].container
           o == IF Present(c) THEN vm.id ELSE 0
           j == [NoJob EXCEPT !.op = "destroy", !.name = "archive", !.container = c,
                              !.observed = o]
           l == IF Present(c) THEN "remove" ELSE "unsync"
<1>1. Moves(p, l, j)
  BY DEF CleanUp, Absent, Goto, Keep, Moves
<1>2. c \in Nat /\ o \in Nat
  BY HasJob DEF Jobs
<1>3. l \in {"remove", "unsync"} /\ (l = "remove" => Present(c))
  OBVIOUS
<1> HIDE DEF o, c
<1>4. j \in Jobs /\ j.op = "destroy" /\ j.container = c /\ j.expected = 0
  BY <1>2, Idles DEF Jobs, NoJob, Names
<1> HIDE DEF j, l
<1>5. StageOK(l, j) /\ TargetOK(l, j) /\ l \in Places
  BY <1>3, <1>4 DEF StageOK, TargetOK, Archiving, Places
<1>6. SureOf(vm', forward', l, j)
  BY <1>3, <1>4 DEF SureOf, Present, Exists
<1>7. made' \in Nat /\ local' \in {"v1", "v2"} /\ receipts' \in [Runtimes -> [Names -> Nat]]
  BY DEF GuestInv, TypeInv
<1> QED
  BY <1>1, <1>4, <1>5, <1>6, <1>7, Acts

LEMMA ArchiveKeeps ==
  ASSUME GuestInv, NEW p \in Procs, Download(p) \/ Configure(p)
  PROVE  GuestInv'
<1>1. HoldsLock(p)
  BY InsideLocks DEF Inside, Download, Configure
<1>2. /\ CleanUp(p) /\ vm \in Vms /\ VmOK(vm) /\ UNCHANGED <<runtime, made, forward, receipts, local>>
  BY DEF Download, Configure, hostVars, fileVars, Reached, Exists, GuestInv, TypeInv
<1>3. CASE Download(p)
  BY <1>1, <1>2, <1>3, CleansUp DEF Download, hostVars
<1>4. CASE Configure(p)
  <2>1. /\ vm' = [vm EXCEPT !.chromium = "STARTING", !.pid = vm.pid + 1, !.dirty = "cache"]
        /\ vm.running
    BY <1>4 DEF Configure, Reached
  <2>2. vm.pid + 1 \in Nat
    BY <1>2 DEF Vms
  <2>3. /\ vm' \in Vms /\ vm'.container = vm.container /\ vm'.dirty = "cache" /\ vm'.running
    BY <1>2, <2>1, <2>2 DEF Vms
  <2>4. VmOK(vm') /\ vm' # NoVm
    BY <2>3, VmIsNot DEF VmOK
  <2> QED
    BY <1>1, <1>2, <2>3, <2>4, CleansUp
<1> QED
  BY <1>3, <1>4

LEMMA UploadKeeps ==
  ASSUME GuestInv, NEW p \in Procs,
         \/ Upload(p) \/ Hash(p) \/ Mkdir(p) \/ Put(p) \/ Verify(p) \/ UploadFails(p) \/ CleanUpload(p)
  PROVE  GuestInv'
<1>1. job[p] \in Jobs /\ StageOK(at[p], job[p]) /\ local \in {"v1", "v2"}
      /\ job = [job EXCEPT ![p] = job[p]]
  BY HasJob
<1>2. UNCHANGED <<runtime, vm, made, forward, receipts, archive>> /\ local' \in {local, "v1"}
  BY DEF Upload, Hash, Mkdir, Put, Verify, UploadFails, CleanUpload, hostVars, fileVars, NewUpload
<1>3. CASE Upload(p)
  <2> DEFINE j == [NoJob EXCEPT !.op = "upload", !.container = vm.container, !.next = "hash"]
  <2>1. Moves(p, "open", j) /\ vm.container \in Nat
    BY <1>3 DEF Upload, Goto, Keep, Moves, Exists, GuestInv, TypeInv, Vms
  <2>2. j \in Jobs /\ j.op = "upload" /\ j.next = "hash"
    BY <2>1, Idles DEF Jobs, NoJob
  <2> HIDE DEF j
  <2>3. StageOK("open", j) /\ TargetOK("open", j) /\ ~Locks("open", j)
    BY <2>2 DEF StageOK, TargetOK, Locks, Archiving
  <2> QED
    BY <1>1, <1>2, <2>1, <2>2, <2>3, GoesOn DEF Places
<1>4. CASE Verify(p) \/ CleanUpload(p)
  <2>1. Return(p) /\ receipts' \in [Runtimes -> [Names -> Nat]]
    BY <1>2, <1>4 DEF Verify, CleanUpload, GuestInv, TypeInv
  <2> QED
    BY <1>1, <1>2, <2>1, Returns
<1>5. ASSUME NEW l \in {"mkdir", "put", "verify", "clean"}, NEW j \in Jobs, Moves(p, l, j),
             j.op = "upload"
      PROVE  GuestInv'
  <2>1. StageOK(l, j) /\ TargetOK(l, j) /\ ~Locks(l, j)
    BY <1>5 DEF StageOK, TargetOK, Locks, Archiving
  <2>2. l \in Places \ {"flush", "download", "delete", "remove", "forget"}
    BY DEF Places
  <2> QED
    BY <1>1, <1>2, <1>5, <2>1, <2>2, GoesOn
<1>6. CASE Hash(p)
  <2> DEFINE j == [job[p] EXCEPT !.version = local]
  <2>1. Moves(p, "mkdir", j) /\ job[p].op = "upload"
    BY <1>1, <1>6 DEF Hash, Goto, Keep, Moves, StageOK, Jobs, Begun, Archiving
  <2>2. j \in Jobs /\ j.op = "upload"
    BY <1>1, <2>1 DEF Jobs
  <2> HIDE DEF j
  <2> QED
    BY <1>5, <2>1, <2>2
<1>7. CASE Mkdir(p) \/ Put(p) \/ UploadFails(p)
  <2>1. job[p].op = "upload"
    BY <1>1, <1>7 DEF Mkdir, Put, UploadFails, StageOK, Jobs, Begun, Archiving
  <2>2. \E l \in {"mkdir", "put", "verify", "clean"} : Moves(p, l, job[p])
    BY <1>1, <1>7 DEF Mkdir, Put, UploadFails, AfterFailure, Goto, Moves
  <2> QED
    BY <1>1, <1>5, <2>1, <2>2
<1> QED
  BY <1>3, <1>4, <1>6, <1>7

LEMMA ErrorKeeps ==
  ASSUME GuestInv, NEW p \in Procs, Fail(p) \/ Crash(p)
  PROVE  GuestInv'
<1>1. UNCHANGED <<runtime, vm, made, forward, receipts, archive, local>>
  BY DEF Fail, Crash, hostVars, fileVars
<1>2. /\ vm' \in Vms \cup {NoVm} /\ VmOK(vm') /\ local' \in {"v1", "v2"}
      /\ receipts' \in [Runtimes -> [Names -> Nat]]
  BY <1>1 DEF GuestInv, TypeInv
<1>3. CASE Return(p)
  BY <1>1, <1>2, <1>3, Returns
<1>4. CASE CleanUp(p) /\ job[p].op \in Archiving
  <2>1. HoldsLock(p)
    BY <1>4 DEF HoldsLock, Archiving
  <2> QED
    BY <1>1, <1>2, <1>4, <2>1, CleansUp
<1> QED
  BY <1>3, <1>4 DEF Fail, Crash

LEMMA GuestKeeps ==
  ASSUME GuestInv, Starts \/ Writes \/ Exits \/ Restarts \/ Halts \/ EditLocal
  PROVE  GuestInv'
<1>1. CASE EditLocal
  <2>1. /\ UNCHANGED <<runtime, vm, made, forward, receipts, at, job, archive>> /\ local' = "v2"
    BY <1>1 DEF EditLocal, hostVars
  <2>2. Kept /\ vm' \in Vms \cup {NoVm} /\ VmOK(vm')
    BY <2>1 DEF Kept, GuestInv, TypeInv
  <2> QED
    BY <2>1, <2>2, GuestActs
<1>2. CASE Starts \/ Writes \/ Exits \/ Restarts \/ Halts
  <2>1. /\ UNCHANGED <<runtime, made, forward, receipts, at, job, archive, local>>
        /\ vm \in Vms /\ VmOK(vm) /\ local' \in {"v1", "v2"} /\ vm.running
    BY <1>2 DEF Starts, Writes, Exits, Restarts, Halts, Guest, Chromium, Exists, fileVars,
                GuestInv, TypeInv
  <2>2. vm.dirty = "memory" => vm.chromium = "RUNNING"
    BY <2>1, VmIsNot DEF VmOK
  <2>3. \E chromium \in {"STARTING", "RUNNING", "STOPPED", "EXITED", "CRASHED"},
           pid \in Nat, dirty \in {"clean", "cache", "memory"}, running \in BOOLEAN :
          /\ vm' = [vm EXCEPT !.chromium = chromium, !.pid = pid, !.dirty = dirty,
                              !.running = running]
          /\ dirty = "memory" => chromium = "RUNNING"
          /\ ~running => chromium = "STOPPED" /\ dirty = "clean"
          /\ Still(vm) => chromium \in {vm.chromium, "STOPPED"}
          /\ Still(vm) /\ vm.dirty = "clean" => dirty = "clean"
    <3> USE DEF Vms
    <3>1. CASE Starts
      <4>1. vm' = [vm EXCEPT !.chromium = "RUNNING", !.pid = vm.pid, !.dirty = vm.dirty,
                             !.running = TRUE]
        BY <2>1, <3>1 DEF Starts, Guest
      <4>2. vm.chromium = "STARTING"
        BY <3>1 DEF Starts, Chromium
      <4> QED
        BY <2>1, <2>2, <4>1, <4>2 DEF Still
    <3>2. CASE Writes
      <4>1. vm' = [vm EXCEPT !.chromium = "RUNNING", !.pid = vm.pid, !.dirty = "memory",
                             !.running = TRUE]
        BY <2>1, <3>2 DEF Writes, Guest, Chromium
      <4>2. vm.chromium = "RUNNING"
        BY <3>2 DEF Writes, Chromium
      <4> QED
        BY <2>1, <4>1, <4>2 DEF Still
    <3>3. CASE Exits
      <4> DEFINE dirty == IF vm.dirty = "memory" THEN "cache" ELSE vm.dirty
      <4>1. PICK end \in {"EXITED", "CRASHED"} :
              vm' = [vm EXCEPT !.chromium = end, !.dirty = dirty]
        BY <3>3 DEF Exits, Guest
      <4>2. vm.chromium = "RUNNING"
        BY <3>3 DEF Exits, Chromium
      <4>3. dirty \in {"clean", "cache"}
        BY <2>1
      <4> HIDE DEF dirty
      <4>4. vm' = [vm EXCEPT !.chromium = end, !.pid = vm.pid, !.dirty = dirty, !.running = TRUE]
        BY <2>1, <4>1
      <4> QED
        BY <2>1, <4>2, <4>3, <4>4 DEF Still
    <3>4. CASE Restarts
      <4>1. vm' = [vm EXCEPT !.chromium = "STARTING", !.pid = vm.pid + 1, !.dirty = vm.dirty,
                             !.running = TRUE]
        BY <2>1, <3>4 DEF Restarts, Guest
      <4>2. ~Still(vm) /\ vm.dirty # "memory" /\ vm.pid + 1 \in Nat
        BY <2>1, <2>2, <3>4 DEF Restarts, Chromium, Still
      <4> QED
        BY <2>1, <4>1, <4>2
    <3>5. CASE Halts
      <4>1. vm' = [vm EXCEPT !.chromium = "STOPPED", !.pid = vm.pid, !.dirty = "clean",
                             !.running = FALSE]
        BY <2>1, <3>5 DEF Halts, Guest
      <4> QED
        BY <2>1, <4>1
    <3> QED
      BY <1>2, <3>1, <3>2, <3>3, <3>4, <3>5
  <2>4. PICK chromium \in {"STARTING", "RUNNING", "STOPPED", "EXITED", "CRASHED"},
             pid \in Nat, dirty \in {"clean", "cache", "memory"}, running \in BOOLEAN :
          /\ vm' = [vm EXCEPT !.chromium = chromium, !.pid = pid, !.dirty = dirty,
                              !.running = running]
          /\ dirty = "memory" => chromium = "RUNNING"
          /\ ~running => chromium = "STOPPED" /\ dirty = "clean"
          /\ Still(vm) => chromium \in {vm.chromium, "STOPPED"}
          /\ Still(vm) /\ vm.dirty = "clean" => dirty = "clean"
    BY <2>3
  <2>5. /\ vm' \in Vms /\ vm'.id = vm.id /\ vm'.container = vm.container
        /\ vm'.chromium = chromium /\ vm'.dirty = dirty /\ (vm'.running <=> running)
        /\ vm'.legacy = vm.legacy /\ (vm'.restarted <=> vm.restarted)
    BY <2>1, <2>4 DEF Vms
  <2>6. VmOK(vm')
    BY <2>4, <2>5 DEF VmOK
  <2>7. (Still(vm) => Still(vm')) /\ (Settled(vm) => Settled(vm'))
    BY <2>4, <2>5 DEF Still, Settled
  <2>8. Kept
    BY <2>1, <2>5, <2>7, KeptIf
  <2> QED
    BY <2>1, <2>5, <2>6, <2>8, GuestActs
<1> QED
  BY <1>1, <1>2

(***************************************************************************)
(* The invariant, and what follows.                                        *)
(***************************************************************************)
LEMMA GuestInvInit == Init => GuestInv
<1> SUFFICES ASSUME Init PROVE GuestInv
  OBVIOUS
<1>1. PICK old \in BOOLEAN :
        /\ made = IF old THEN 1 ELSE 0
        /\ vm = IF old THEN [NewVm("main", 1, 1) EXCEPT !.legacy = TRUE, !.chromium = "RUNNING"]
                ELSE NoVm
        /\ receipts = [r \in Runtimes |-> [n \in Names |-> IF old /\ n = "main" THEN 1 ELSE 0]]
  BY DEF Init
<1>2. made \in Nat /\ receipts \in [Runtimes -> [Names -> Nat]]
  BY <1>1
<1>3. vm \in Vms \cup {NoVm} /\ VmOK(vm)
  <2>1. CASE ~old
    BY <1>1, <2>1 DEF VmOK
  <2>2. CASE old
    <3>1. vm = [NewVm("main", 1, 1) EXCEPT !.legacy = TRUE, !.chromium = "RUNNING"]
      BY <1>1, <2>2
    <3>2. NewVm("main", 1, 1) \in Vms /\ NewVm("main", 1, 1).running
          /\ NewVm("main", 1, 1).dirty = "clean"
      BY DEF NewVm, Vms, Names
    <3> DEFINE n == NewVm("main", 1, 1)
    <3> HIDE DEF n
    <3>3. n \in Vms /\ n.running /\ n.dirty = "clean" /\ vm = [n EXCEPT !.legacy = TRUE, !.chromium = "RUNNING"]
      BY <3>1, <3>2 DEF n
    <3>4. vm \in Vms /\ vm.running /\ vm.dirty = "clean"
      BY <3>3 DEF Vms
    <3> QED
      BY <3>4 DEF VmOK
  <2> QED
    BY <2>1, <2>2
<1>4. /\ runtime \in [Procs -> Runtimes] /\ local = "v1" /\ archive = "none"
      /\ at = [p \in Procs |-> "idle"] /\ job = [p \in Procs |-> NoJob]
  BY DEF Init
<1>5. TypeInv
  BY <1>2, <1>3, <1>4, Idles DEF TypeInv, Places
<1>6. Staged /\ Targeted /\ Sure
  BY <1>4, Idles DEF Staged, Targeted, Sure
<1>7. OneHolder
  BY <1>4, Idles, LocksAre DEF OneHolder
<1> QED
  BY <1>3, <1>4, <1>5, <1>6, <1>7 DEF GuestInv, Turns

LEMMA GuestInvNext == GuestInv /\ [Next]_guestVars => GuestInv'
<1> SUFFICES ASSUME GuestInv, [Next]_guestVars PROVE GuestInv'
  OBVIOUS
<1>1. CASE UNCHANGED guestVars
  BY <1>1 DEF guestVars, GuestInv, TypeInv, Staged, Targeted, Turns, OneHolder, HoldsLock, Sure,
              OneDirectory
<1>2. CASE Next
  BY <1>2, CreateKeeps, BegunKeeps, WaitKeeps, OpenKeeps, EnsureKeeps, DestroyKeeps, RemoveKeeps,
     ForgetKeeps, StopKeeps, ArchiveKeeps, UploadKeeps, ErrorKeeps, GuestKeeps DEF Next
<1> QED
  BY <1>1, <1>2

LEMMA GuestInvariance == Spec => []GuestInv
BY GuestInvInit, GuestInvNext, PTL DEF Spec

\* An export archives a closed and synced profile: nobody in the directory starts its
\* Chromium between the stop and the download, unless a create that waits does.
THEOREM ArchiveTheorem == Spec => ArchiveIsWhole
<1> DEFINE Whole == OneDirectory /\ archive # "torn" /\ archive' = "torn" => vm.restarted
<1>1. ASSUME GuestInv, Next PROVE Whole
  <2> SUFFICES ASSUME OneDirectory, archive # "torn", archive' = "torn" PROVE vm.restarted
    OBVIOUS
  <2>1. \E p \in Procs : Download(p)
    <3>1. ~UNCHANGED fileVars /\ ~UNCHANGED archive
      BY DEF fileVars
    <3>2. ASSUME NEW p \in Procs
          PROVE  /\ ~RunBrowser(p) /\ ~StartContainer(p) /\ ~SyncCreated(p) /\ ~Record(p)
                 /\ ~Access(p) /\ ~Ready(p) /\ ~NotReady(p) /\ ~Open(p) /\ ~Check(p)
                 /\ ~EnsureStarted(p) /\ ~EnsureFails(p) /\ ~Remove(p) /\ ~SyncRemoved(p)
                 /\ ~Forget(p) /\ ~Stop(p) /\ ~Closed(p) /\ ~Flush(p) /\ ~Configure(p)
                 /\ ~Fail(p) /\ ~Crash(p)
                 /\ \A n \in Names, force \in BOOLEAN, expected \in 0..made :
                      ~Destroy(p, n, force, expected)
      BY <3>1 DEF RunBrowser, StartContainer, SyncCreated, Record, Access, Ready, NotReady, Open,
         Check, EnsureStarted, EnsureFails, Remove, SyncRemoved, Forget, Stop, Closed, Flush,
         Configure, Fail, Crash, Destroy
    <3>3. ASSUME NEW p \in Procs
          PROVE  /\ ~Create(p) /\ ~Delete(p) /\ ~Upload(p) /\ ~Hash(p) /\ ~Mkdir(p) /\ ~Put(p)
                 /\ ~Verify(p) /\ ~UploadFails(p) /\ ~CleanUpload(p)
                 /\ \A op \in Archiving : ~Archive(p, op)
      BY <3>1 DEF Create, Delete, Upload, Hash, Mkdir, Put, Verify, UploadFails, CleanUpload, Archive
    <3>4. ~Starts /\ ~Writes /\ ~Exits /\ ~Restarts /\ ~Halts /\ ~EditLocal
      BY <3>1 DEF Starts, Writes, Exits, Restarts, Halts, Guest, EditLocal
    <3> QED
      BY <1>1, <3>2, <3>3, <3>4 DEF Next
  <2> PICK p \in Procs : Download(p)
    BY <2>1
  <2>2. at[p] = "download" /\ Exists /\ Torn
    BY DEF Download, Reached
  <2>3. Settled(vm)
    BY <1>1, <2>2 DEF GuestInv, Turns, Sure, SureOf, Exists
  <2> QED
    BY <2>2, <2>3 DEF Torn, Settled, Still
<1>2. GuestInv /\ [Next]_guestVars => [Whole]_guestVars
  BY <1>1
<1> QED
  BY <1>2, GuestInvariance, PTL DEF Spec, ArchiveIsWhole

\* When a destroy forgets its target, no port leads to a VM that is gone.
THEOREM ForwardingTheorem == Spec => []DestroyCleansForwarding
<1>1. GuestInv => DestroyCleansForwarding
  BY DEF GuestInv, Turns, Sure, SureOf, DestroyCleansForwarding
<1> QED
  BY <1>1, GuestInvariance, PTL

\* A destroy that was not forced deletes no VM whose writes the disk lacks, unless a
\* create has started it again.
THEOREM DiskTheorem == Spec => WritesReachDisk
<1> DEFINE Flushed == OneDirectory =>
      \A p \in Procs : Deleting(p) /\ ~job[p].force => vm.dirty = "clean" \/ vm.restarted
<1>1. GuestInv => Flushed
  BY DEF GuestInv, Turns, Sure, SureOf, Settled, Deleting, Exists
<1>2. GuestInv /\ [Next]_guestVars => [Flushed]_guestVars
  BY <1>1
<1> QED
  BY <1>2, GuestInvariance, PTL DEF Spec, WritesReachDisk

\* Whoever the step is of, nobody else has moved.
LEMMA OneMoves ==
  ASSUME [Next]_guestVars, NEW p \in Procs, at'[p] # at[p]
  PROVE  \/ Create(p) \/ RunBrowser(p) \/ StartContainer(p) \/ SyncCreated(p) \/ Record(p)
         \/ Access(p) \/ Ready(p) \/ NotReady(p) \/ Open(p) \/ Check(p)
         \/ EnsureStarted(p) \/ EnsureFails(p)
         \/ Remove(p) \/ Delete(p) \/ SyncRemoved(p) \/ Forget(p)
         \/ Stop(p) \/ Closed(p) \/ Flush(p) \/ Download(p) \/ Configure(p)
         \/ Upload(p) \/ Hash(p) \/ Mkdir(p) \/ Put(p) \/ Verify(p) \/ UploadFails(p)
         \/ CleanUpload(p) \/ Fail(p) \/ Crash(p)
         \/ \E op \in Archiving : Archive(p, op)
         \/ \E n \in Names, force \in BOOLEAN, expected \in 0..made : Destroy(p, n, force, expected)
<1>1. ASSUME NEW q \in Procs, NEW l, Goto(q, l)
      PROVE  q = p
  BY <1>1 DEF Goto
<1>2. ASSUME NEW q \in Procs,
             \/ Create(q) \/ RunBrowser(q) \/ StartContainer(q) \/ SyncCreated(q) \/ Record(q)
             \/ Access(q) \/ Ready(q) \/ NotReady(q) \/ Open(q) \/ Check(q)
             \/ EnsureStarted(q) \/ EnsureFails(q)
      PROVE  \E l : Goto(q, l)
  BY <1>2 DEF Create, Prepare, RunBrowser, StartContainer, SyncCreated, Record, Access, Ready,
              NotReady, Open, Check, EnsureStarted, EnsureFails, Return
<1>3. ASSUME NEW q \in Procs,
             \/ Remove(q) \/ Delete(q) \/ SyncRemoved(q) \/ Forget(q)
             \/ Stop(q) \/ Closed(q) \/ Flush(q) \/ Download(q) \/ Configure(q)
      PROVE  \E l : Goto(q, l)
  BY <1>3 DEF Remove, Delete, SyncRemoved, Forget, Stop, Closed, Flush, Download, Configure,
              CleanUp, Return
<1>4. ASSUME NEW q \in Procs,
             \/ Upload(q) \/ Hash(q) \/ Mkdir(q) \/ Put(q) \/ Verify(q) \/ UploadFails(q)
             \/ CleanUpload(q) \/ Fail(q) \/ Crash(q)
             \/ \E op \in Archiving : Archive(q, op)
             \/ \E n \in Names, force \in BOOLEAN, expected \in 0..made :
                  Destroy(q, n, force, expected)
      PROVE  \E l : Goto(q, l)
  BY <1>4 DEF Upload, Hash, Mkdir, Put, Verify, UploadFails, AfterFailure, CleanUpload, Fail, Crash,
              CleanUp, Return, Archive, Prepare, Destroy
<1>5. ~(Starts \/ Writes \/ Exits \/ Restarts \/ Halts \/ EditLocal \/ UNCHANGED guestVars)
  BY DEF Starts, Writes, Exits, Restarts, Halts, EditLocal, Guest, guestVars
<1> QED
  BY <1>1, <1>2, <1>3, <1>4, <1>5 DEF Next

\* A release that names an instance deletes that one or none, from whatever machine.
THEOREM ExpectedTheorem == Spec => OnlyExpectedIsDeleted
<1> DEFINE Expected == \A p \in Procs :
      Deleting(p) /\ job[p].expected # 0 => vm.id = job[p].expected
<1>1. ASSUME GuestInv, [Next]_guestVars
      PROVE  Expected
  <2> SUFFICES ASSUME NEW p \in Procs, Deleting(p), job[p].expected # 0
               PROVE  vm.id = job[p].expected
    OBVIOUS
  <2>1. at[p] = "delete" /\ at'[p] = "unsync" /\ vm # NoVm /\ vm' = NoVm
    BY DEF Deleting, Exists
  <2>2. job[p].id = job[p].expected
    BY <1>1, <2>1, HasJob, InsideLocks DEF TargetOK, Inside
  <2>3. Delete(p) \/ Fail(p) \/ Crash(p)
    <3>1. /\ ~Create(p) /\ ~RunBrowser(p) /\ ~StartContainer(p) /\ ~SyncCreated(p) /\ ~Record(p)
          /\ ~Access(p) /\ ~Ready(p) /\ ~NotReady(p) /\ ~Open(p) /\ ~Check(p)
          /\ ~EnsureStarted(p) /\ ~EnsureFails(p)
      BY <2>1 DEF Create, MayLock, RunBrowser, StartContainer, SyncCreated, Record, Access, Ready,
                  NotReady, Open, Check, EnsureStarted, EnsureFails
    <3>2. /\ ~Remove(p) /\ ~SyncRemoved(p) /\ ~Forget(p)
          /\ ~Stop(p) /\ ~Closed(p) /\ ~Flush(p) /\ ~Download(p) /\ ~Configure(p)
      BY <2>1 DEF Remove, SyncRemoved, Forget, Stop, Closed, Flush, Download, Configure
    <3>3. /\ ~Upload(p) /\ ~Hash(p) /\ ~Mkdir(p) /\ ~Put(p) /\ ~Verify(p) /\ ~UploadFails(p)
          /\ ~CleanUpload(p)
          /\ \A op \in Archiving : ~Archive(p, op)
          /\ \A n \in Names, force \in BOOLEAN, expected \in 0..made :
               ~Destroy(p, n, force, expected)
      BY <2>1 DEF Upload, Hash, Mkdir, Put, Verify, UploadFails, CleanUpload, Archive, Destroy,
                  MayLock
    <3>4. at'[p] # at[p]
      BY <2>1
    <3> QED
      BY <1>1, <3>1, <3>2, <3>3, <3>4, OneMoves
  <2>4. Delete(p)
    BY <2>1, <2>3 DEF Fail, Crash, hostVars
  <2> QED
    BY <2>1, <2>2, <2>4 DEF Delete, Deleted
<1>2. GuestInv /\ [Next]_guestVars => [Expected]_guestVars
  BY <1>1
<1> QED
  BY <1>2, GuestInvariance, PTL DEF Spec, OnlyExpectedIsDeleted

(***************************************************************************)
(* Uploads.  While one is under way nobody has been told anything; what is *)
(* left partial is about to be removed, or its error says that it was not. *)
(***************************************************************************)
UploadOK(l, j, s, t) ==
  /\ j.op = "upload" => t = "nothing"
  /\ t \in {"v1", "v2"} => s = t
  /\ t = "failed" => s \in {"none", "directory"}
  /\ s = "partial" => l = "clean" \/ t = "upload_cleanup_failed"

Files == {"none", "directory", "partial", "v1", "v2"}
Verdicts == Files \cup {"nothing", "failed", "upload_cleanup_failed"}

Uploads ==
  /\ staged \in [Procs -> Files] /\ told \in [Procs -> Verdicts]
  /\ \A p \in Procs : UploadOK(at[p], job[p], staged[p], told[p])

\* A step that neither begins nor ends an upload.
Along(p, l, j) ==
  /\ Moves(p, l, j) /\ UNCHANGED <<staged, told>>
  /\ at[p] = "clean" => l = "clean"
  /\ j.op = "upload" => job[p].op = "upload"

LEMMA AlongUploads ==
  ASSUME GuestInv, Uploads, NEW p \in Procs, NEW l, NEW j, Along(p, l, j)
  PROVE  Uploads'
<1>1. at'[p] = l /\ job'[p] = j /\ \A q \in Procs \ {p} : at'[q] = at[q] /\ job'[q] = job[q]
  BY DEF GuestInv, TypeInv, Along, Moves
<1>2. UploadOK(l, j, staged[p], told[p])
  BY DEF Uploads, UploadOK, Along
<1> QED
  BY <1>1, <1>2 DEF Uploads, Along

\* Only the process of an upload changes its file and its answer, but for a delete.
LEMMA OwnUploads ==
  ASSUME GuestInv, Uploads, NEW p \in Procs, NEW l, NEW j, Moves(p, l, j),
         NEW s \in Files, NEW t \in Verdicts,
         staged' = [staged EXCEPT ![p] = s], told' = [told EXCEPT ![p] = t], UploadOK(l, j, s, t)
  PROVE  Uploads'
<1>1. at'[p] = l /\ job'[p] = j /\ \A q \in Procs \ {p} : at'[q] = at[q] /\ job'[q] = job[q]
  BY DEF GuestInv, TypeInv, Moves
<1>2. /\ staged' \in [Procs -> Files] /\ staged'[p] = s
      /\ told' \in [Procs -> Verdicts] /\ told'[p] = t
      /\ \A q \in Procs \ {p} : staged'[q] = staged[q] /\ told'[q] = told[q]
  BY DEF Uploads
<1> QED
  BY <1>1, <1>2 DEF Uploads

LEMMA CreateUploads ==
  ASSUME GuestInv, Uploads, NEW p \in Procs, Create(p) \/ Upload(p)
  PROVE  Uploads'
<1>1. PICK l, j : Moves(p, l, j)
  BY DEF Create, Prepare, Upload, Goto, Keep, Moves
<1>2. NewUpload(p)
  BY DEF Create, Upload
<1> QED
  BY <1>1, <1>2, OwnUploads DEF NewUpload, UploadOK, Files, Verdicts

LEMMA DeleteUploads ==
  ASSUME GuestInv, Uploads, NEW p \in Procs, Delete(p)
  PROVE  Uploads'
<1>1. job[p] \in Jobs /\ StageOK(at[p], job[p]) /\ job = [job EXCEPT ![p] = job[p]]
  BY HasJob
<1>2. Moves(p, "unsync", job[p]) /\ at[p] = "delete"
  BY <1>1 DEF Delete, Goto, Moves
<1>3. CASE UNCHANGED <<staged, told>>
  BY <1>2, <1>3, AlongUploads DEF Along
<1>4. CASE staged' = [q \in Procs |-> "none"] /\ told' = [q \in Procs |-> "nothing"]
  <2>1. \A q \in Procs : staged'[q] = "none" /\ told'[q] = "nothing"
    BY <1>4
  <2>2. staged' \in [Procs -> Files] /\ told' \in [Procs -> Verdicts]
    BY <1>4 DEF Files, Verdicts
  <2>3. \A l, j : UploadOK(l, j, "none", "nothing")
    BY DEF UploadOK
  <2> QED
    BY <2>1, <2>2, <2>3 DEF Uploads
<1> QED
  BY <1>3, <1>4 DEF Delete

\* The steps of an upload.
LEMMA TransferUploads ==
  ASSUME GuestInv, Uploads, NEW p \in Procs, Mkdir(p) \/ Put(p) \/ Verify(p) \/ CleanUpload(p)
  PROVE  Uploads'
<1>1. /\ job[p] \in Jobs /\ StageOK(at[p], job[p]) /\ local \in {"v1", "v2"}
      /\ job = [job EXCEPT ![p] = job[p]]
  BY HasJob
<1>2. job[p].op = "upload"
  BY <1>1 DEF Mkdir, Put, Verify, CleanUpload, StageOK, Jobs, Begun, Archiving
<1>3. /\ told[p] = "nothing" /\ (staged[p] = "partial" => at[p] = "clean")
      /\ staged[p] \in Files /\ told[p] \in Verdicts
      /\ staged = [staged EXCEPT ![p] = staged[p]] /\ told = [told EXCEPT ![p] = told[p]]
  BY <1>2 DEF Uploads, UploadOK
<1>4. CASE Mkdir(p)
  <2>1. Moves(p, "put", job[p]) /\ staged' = [staged EXCEPT ![p] = "directory"] /\ told' = told
    BY <1>1, <1>4 DEF Mkdir, Goto, Moves
  <2>2. UploadOK("put", job[p], "directory", told[p]) /\ "directory" \in Files
    BY <1>3 DEF UploadOK, Files
  <2> QED
    BY <1>3, <2>1, <2>2, OwnUploads
<1>5. CASE Put(p)
  <2>1. PICK l, s :
          /\ Moves(p, l, job[p]) /\ staged' = [staged EXCEPT ![p] = s] /\ told' = told
          /\ s = local \/ (s = "partial" /\ l = "clean")
    BY <1>1, <1>5 DEF Put, Goto, Moves
  <2>2. UploadOK(l, job[p], s, told[p]) /\ s \in Files
    BY <1>1, <1>3, <2>1 DEF UploadOK, Files
  <2> QED
    BY <1>3, <2>1, <2>2, OwnUploads
<1>6. CASE Verify(p)
  <2>1. /\ Moves(p, "idle", NoJob) /\ told' = [told EXCEPT ![p] = job[p].version] /\ staged' = staged
        /\ staged[p] = job[p].version /\ at[p] = "verify"
    BY <1>6 DEF Verify, Matches, Return, Goto, Keep, Moves
  <2>2. job[p].version \in {"none", "v1", "v2"}
    BY <1>1 DEF Jobs
  <2>3. job[p].version \in Verdicts /\ UploadOK("idle", NoJob, staged[p], job[p].version)
    BY <2>1, <2>2 DEF UploadOK, NoJob, Verdicts, Files
  <2> QED
    BY <1>3, <2>1, <2>3, OwnUploads
<1>7. CASE CleanUpload(p)
  <2>1. PICK s, t :
          /\ Moves(p, "idle", NoJob) /\ staged' = [staged EXCEPT ![p] = s]
          /\ told' = [told EXCEPT ![p] = t]
          /\ \/ s = "none" /\ t = "failed"
             \/ s = staged[p] /\ t = "upload_cleanup_failed"
    BY <1>3, <1>7 DEF CleanUpload, Return, Goto, Keep, Moves
  <2>2. UploadOK("idle", NoJob, s, t) /\ s \in Files /\ t \in Verdicts
    BY <1>3, <2>1 DEF UploadOK, NoJob, Files, Verdicts
  <2> QED
    BY <1>3, <2>1, <2>2, OwnUploads
<1> QED
  BY <1>4, <1>5, <1>6, <1>7

\* Everybody else leaves the files of uploads alone, and begins or ends none.
LEMMA OtherUploads ==
  ASSUME GuestInv, Uploads, NEW p \in Procs,
         \/ RunBrowser(p) \/ StartContainer(p) \/ SyncCreated(p) \/ Record(p)
         \/ Access(p) \/ Ready(p) \/ NotReady(p) \/ Open(p) \/ Check(p)
         \/ EnsureStarted(p) \/ EnsureFails(p)
         \/ Remove(p) \/ SyncRemoved(p) \/ Forget(p)
         \/ Stop(p) \/ Closed(p) \/ Flush(p) \/ Download(p) \/ Configure(p)
         \/ Hash(p) \/ UploadFails(p) \/ Fail(p) \/ Crash(p)
         \/ \E op \in Archiving : Archive(p, op)
         \/ \E n \in Names, force \in BOOLEAN, expected \in 0..made : Destroy(p, n, force, expected)
  PROVE  Uploads'
<1>1. /\ job[p] \in Jobs /\ StageOK(at[p], job[p])
      /\ job = [job EXCEPT ![p] = job[p]]
  BY HasJob
<1>2. UNCHANGED <<staged, told>>
  BY DEF RunBrowser, StartContainer, SyncCreated, Record, Access, Ready, NotReady, Open, Check,
         EnsureStarted, EnsureFails, Remove, SyncRemoved, Forget, Stop, Closed, Flush, Download,
         Configure, Hash, UploadFails, AfterFailure, Fail, Crash, Archive, Destroy, fileVars
<1>3. at[p] = "clean" => job[p].op = "upload"
  BY <1>1 DEF StageOK, Jobs, Begun, Archiving
<1>4. ASSUME NEW l, NEW j, Moves(p, l, j), at[p] = "clean" => l = "clean",
             j.op = "upload" => job[p].op = "upload"
      PROVE  Uploads'
  BY <1>2, <1>4, AlongUploads DEF Along
<1>5. ASSUME NEW l, Goto(p, l), at[p] = "clean" => l = "clean",
             UNCHANGED job \/ \E j : Keep(p, j) /\ (j.op = "upload" => job[p].op = "upload")
      PROVE  Uploads'
  <2>1. CASE UNCHANGED job
    <3>1. Moves(p, l, job[p])
      BY <1>1, <1>5, <2>1 DEF Goto, Moves
    <3> QED
      BY <1>4, <1>5, <3>1
  <2>2. ASSUME NEW j, Keep(p, j), j.op = "upload" => job[p].op = "upload" PROVE Uploads'
    <3>1. Moves(p, l, j)
      BY <1>5, <2>2 DEF Goto, Keep, Moves
    <3> QED
      BY <1>4, <1>5, <2>2, <3>1
  <2> QED
    BY <1>5, <2>1, <2>2
<1>6. ASSUME Return(p), at[p] # "clean"
      PROVE  Uploads'
  BY <1>5, <1>6 DEF Return, NoJob
<1>7. ASSUME CleanUp(p), at[p] # "clean"
      PROVE  Uploads'
  <2> DEFINE j == [NoJob EXCEPT !.op = "destroy", !.name = "archive", !.container = job[p].container,
                                !.observed = IF Present(job[p].container) THEN vm.id ELSE 0]
  <2>1. Keep(p, j) /\ \E l : Goto(p, l)
    BY <1>7 DEF CleanUp
  <2>2. j.op = "destroy"
    BY DEF NoJob
  <2> HIDE DEF j
  <2> QED
    BY <1>5, <1>7, <2>1, <2>2
<1>8. ASSUME at[p] # "clean", \E l : Goto(p, l),
             UNCHANGED job \/ \E j : Keep(p, j) /\ (j.op = "upload" => job[p].op = "upload")
      PROVE  Uploads'
  BY <1>5, <1>8
\* What a step notes of its operation leaves the kind of the operation.
<1>9. \A x, y : /\ [job[p] EXCEPT !.observed = x].op = job[p].op
                /\ [job[p] EXCEPT !.id = x].op = job[p].op
                /\ [job[p] EXCEPT !.pid = x].op = job[p].op
                /\ [job[p] EXCEPT !.next = x].op = job[p].op
                /\ [job[p] EXCEPT !.version = x].op = job[p].op
                /\ [job[p] EXCEPT !.id = x, !.next = y].op = job[p].op
                /\ [job[p] EXCEPT !.started = x, !.next = y].op = job[p].op
  BY <1>1 DEF Jobs
<1>10. CASE \/ StartContainer(p) \/ SyncCreated(p) \/ Record(p) \/ Check(p) \/ Flush(p)
  <2>1. at[p] # "clean" /\ UNCHANGED job /\ \E l : Goto(p, l)
    BY <1>10 DEF StartContainer, SyncCreated, Record, Check, Flush
  <2> QED
    BY <1>8, <2>1
<1>11. CASE RunBrowser(p) \/ Access(p) \/ NotReady(p) \/ Open(p) \/ EnsureStarted(p) \/ EnsureFails(p)
            \/ Stop(p) \/ Closed(p)
  <2>1. at[p] # "clean" /\ \E l : Goto(p, l)
    BY <1>11 DEF RunBrowser, Access, NotReady, Open, EnsureStarted, EnsureFails, Stop, Closed
  <2>2. CASE RunBrowser(p) \/ Access(p) \/ NotReady(p) \/ Open(p)
    BY <1>8, <1>9, <2>1, <2>2 DEF RunBrowser, Access, NotReady, Open
  <2>3. CASE EnsureStarted(p) \/ EnsureFails(p)
    <3> DEFINE started == [job[p] EXCEPT !.started = TRUE, !.next = "idle"]
               waiting == [job[p] EXCEPT !.next = "idle"]
    <3>1. started.op = job[p].op /\ waiting.op = job[p].op
      BY <1>9
    <3>2. Keep(p, started) \/ Keep(p, waiting)
      BY <2>3 DEF EnsureStarted, EnsureFails
    <3> HIDE DEF started, waiting
    <3> QED
      BY <1>8, <2>1, <3>1, <3>2
  <2>4. CASE Stop(p) \/ Closed(p)
    <3> DEFINE seen == [job[p] EXCEPT !.pid = IF Quiescent THEN 0 ELSE vm.pid]
               ended == [job[p] EXCEPT !.pid = 0]
    <3>1. seen.op = job[p].op /\ ended.op = job[p].op
      BY <1>9
    <3>2. Keep(p, seen) \/ Keep(p, ended)
      BY <2>4 DEF Stop, Closed
    <3> HIDE DEF seen, ended
    <3> QED
      BY <1>8, <2>1, <3>1, <3>2
  <2> QED
    BY <1>11, <2>2, <2>3, <2>4
<1>12. CASE Ready(p)
  <2>1. at[p] = "wait"
    BY <1>12 DEF Ready
  <2>2. Return(p) \/ ((\E l : Goto(p, l)) /\ \E j : Keep(p, j) /\ j.op = job[p].op)
    BY <1>9, <1>12 DEF Ready
  <2> QED
    BY <1>6, <1>8, <2>1, <2>2
<1>13. CASE Remove(p)
  <2>1. at[p] # "clean" /\ \E l : Goto(p, l)
    BY <1>13 DEF Remove
  <2> DEFINE inside == [job[p] EXCEPT !.id = vm.id, !.next = "stop"]
             gone == [job[p] EXCEPT !.id = vm.id]
  <2>2. inside.op = job[p].op /\ gone.op = job[p].op
    BY <1>9
  <2>3. UNCHANGED job \/ Keep(p, inside) \/ Keep(p, gone)
    BY <1>13 DEF Remove
  <2> HIDE DEF inside, gone
  <2> QED
    BY <1>8, <2>1, <2>2, <2>3
<1>14. CASE SyncRemoved(p) \/ Forget(p)
  <2>1. at[p] # "clean" /\ (Return(p) \/ (UNCHANGED job /\ \E l : Goto(p, l)))
    BY <1>14 DEF SyncRemoved, Forget
  <2> QED
    BY <1>6, <1>8, <2>1
<1>15. CASE Download(p) \/ Configure(p)
  BY <1>7, <1>15 DEF Download, Configure
<1>16. CASE Hash(p)
  <2>1. at[p] # "clean" /\ \E l : Goto(p, l)
    BY <1>16 DEF Hash
  <2>2. \E j : Keep(p, j) /\ j.op = job[p].op
    BY <1>9, <1>16 DEF Hash
  <2> QED
    BY <1>8, <2>1, <2>2
<1>17. CASE UploadFails(p)
  BY <1>5, <1>17 DEF UploadFails, AfterFailure
<1>18. CASE Fail(p) \/ Crash(p)
  BY <1>3, <1>6, <1>7, <1>18 DEF Fail, Crash, Archiving
<1>19. CASE \E op \in Archiving : Archive(p, op)
  <2>1. PICK op \in Archiving : MayLock(p) /\ Prepare(p, op, "archive")
    BY <1>19 DEF Archive
  <2> DEFINE known == ContainerOf(p, "archive")
             j == [NoJob EXCEPT !.op = op, !.name = "archive", !.observed = vm.id,
                                !.container = IF known # 0 THEN known ELSE made + 1]
  <2>2. j.op # "upload"
    BY DEF NoJob, Archiving
  <2>3. Keep(p, j) /\ \E l : Goto(p, l)
    BY <2>1 DEF Prepare, NoJob
  <2> HIDE DEF j
  <2> QED
    BY <1>8, <2>1, <2>2, <2>3 DEF MayLock
<1>20. CASE \E n \in Names, force \in BOOLEAN, expected \in 0..made : Destroy(p, n, force, expected)
  <2>1. PICK n \in Names, force \in BOOLEAN, expected \in 0..made : Destroy(p, n, force, expected)
    BY <1>20
  <2> DEFINE c == ContainerOf(p, n)
             j == [NoJob EXCEPT !.op = "destroy", !.name = n, !.force = force, !.expected = expected,
                                !.container = c, !.observed = IF Present(c) THEN vm.id ELSE 0]
  <2>2. j.op # "upload"
    BY DEF NoJob
  <2>3. at[p] = "idle" /\ Keep(p, j) /\ \E l : Goto(p, l)
    BY <2>1 DEF Destroy, MayLock
  <2> HIDE DEF j
  <2> QED
    BY <1>8, <2>2, <2>3
<1> QED
  BY <1>10, <1>11, <1>12, <1>13, <1>14, <1>15, <1>16, <1>17, <1>18, <1>19, <1>20

LEMMA GuestUploads ==
  ASSUME Uploads, UNCHANGED <<at, job, staged, told>>
  PROVE  Uploads'
BY DEF Uploads

LEMMA UploadsInvariance == Spec => []Uploads
<1>1. Init => Uploads
  BY DEF Init, Uploads, UploadOK, NoJob, Files, Verdicts
<1>2. ASSUME GuestInv, Uploads, [Next]_guestVars
      PROVE  Uploads'
  <2>1. CASE UNCHANGED guestVars
    BY <1>2, <2>1, GuestUploads DEF guestVars
  <2>2. CASE Starts \/ Writes \/ Exits \/ Restarts \/ Halts \/ EditLocal
    BY <1>2, <2>2, GuestUploads DEF Starts, Writes, Exits, Restarts, Halts, EditLocal, Guest, fileVars
  <2> QED
    BY <1>2, <2>1, <2>2, CreateUploads, DeleteUploads, TransferUploads, OtherUploads DEF Next
<1> QED
  BY <1>1, <1>2, GuestInvariance, PTL DEF Spec

\* A path an upload returned holds the bytes that were hashed; after a failure there is no
\* file, unless the error says that it could not be removed; for any processes and machines.
THEOREM UploadTheorem == Spec => []UploadIsWholeOrGone
<1>1. GuestInv /\ Uploads => UploadIsWholeOrGone
  BY GuestAssumption DEF Uploads, UploadOK, UploadIsWholeOrGone
<1> QED
  BY <1>1, GuestInvariance, UploadsInvariance, PTL

(***************************************************************************)
(* The temporary tab (CdpPage).  The browser can only be led back if it is *)
(* known at each step how far its tabs have come: Restored follows them    *)
(* from the one command that is on its way to the next, Known what the     *)
(* page has learnt, and Wired that no command that was given up can still  *)
(* undo it unless its loss is on record.                                   *)
(***************************************************************************)
AnyTab == Tabs \cup {Temporary, NoTab}
Asking == {"listing", "looking", "seeing", "leaving", "creating", "attaching", "undoing",
           "blanking", "detaching", "closing", "activating"}
Over == {"failed", "done"}
Methods == {"list", "attach", "evaluate", "detach", "create", "close", "navigate", "activate"}

Guests == [tabs : SUBSET (Tabs \cup {Temporary}), visible : AnyTab]
Commands == [id : Nat, method : Methods, tab : AnyTab]
Pages == [pc : Asking \cup Over \cup {"idle", "ready"}, rest : SUBSET (Tabs \cup {Temporary}),
          look : AnyTab, count : Nat, visible : AnyTab, target : AnyTab]

PageTyped ==
  /\ DOMAIN conn = {"socket", "closed", "sent", "pending"}
  /\ conn.socket \in {"none", "open", "closed"} /\ conn.closed \in BOOLEAN /\ conn.sent \in Nat
  /\ DOMAIN call = Callers
  /\ page \in Pages
  /\ wire \in Seq(Commands)
  /\ guest \in Guests
  /\ env.found \in Found /\ env.closed \in Nat
  /\ DOMAIN env = {"found", "lost", "closed"}

(* What the page's caller asks for where it is, and of which tab.          *)
Asked(p) ==
  CASE p.pc = "listing" -> "list"
    [] p.pc \in {"looking", "attaching"} -> "attach"
    [] p.pc = "seeing" -> "evaluate"
    [] p.pc \in {"leaving", "detaching"} -> "detach"
    [] p.pc = "creating" -> "create"
    [] p.pc \in {"undoing", "closing"} -> "close"
    [] p.pc = "blanking" -> "navigate"
    [] p.pc = "activating" -> "activate"
Of(p) ==
  CASE p.pc \in {"listing", "creating"} -> NoTab
    [] p.pc \in {"looking", "seeing", "leaving"} -> p.look
    [] p.pc \in {"attaching", "undoing", "blanking", "detaching", "closing"} -> p.target
    [] p.pc = "activating" -> p.visible

Waits == call["page"].state = "waiting"
Mine(m) == Waits /\ m.id = call["page"].id
OnItsWay == \E i \in DOMAIN wire : Mine(wire[i])

(* A number is on the wire once, or in an answer, and the caller waits for *)
(* the number of its last command.                                         *)
Numbers ==
  /\ \A i \in DOMAIN wire : wire[i].id \in 1 .. conn.sent
  /\ \A i, j \in DOMAIN wire : wire[i].id = wire[j].id => i = j
  /\ \A r \in replies : r.id \in 1 .. conn.sent /\ \A i \in DOMAIN wire : wire[i].id # r.id
  /\ \A n \in DOMAIN conn.pending :
       LET c == conn.pending[n] IN c \in Callers /\ call[c].state = "waiting" /\ call[c].id = n
  /\ Waits => call["page"].id \in 1 .. conn.sent

Steps ==
  /\ page.pc \in Asking => call["page"].state \in {"waiting", "settled"}
  /\ page.pc \notin Asking => call["page"].state = "idle"
  /\ Waits => call["page"].method = Asked(page)
  /\ page.pc = "idle" =>
       /\ wire = <<>> /\ replies = {} /\ env.lost = {} /\ env.closed = 0
       /\ guest = env.found /\ page.visible = NoTab
       /\ conn.socket = "none" /\ ~conn.closed /\ DOMAIN conn.pending = {}
  /\ page.pc = "listing" => page.visible = NoTab
  /\ page.pc \notin Over \cup {"idle"} => ~conn.closed /\ (conn.socket = "open" \/ "socket" \in env.lost)
  /\ page.pc \in {"attaching", "undoing", "ready", "blanking", "detaching", "closing", "activating"}
       => page.target = Temporary

KeepsTab == env.lost \cap {"create", "close", "socket"} = {}
KeepsAll == env.lost = {} /\ env.closed = 0

(* What is on the wire: the command that is waited for, and commands that  *)
(* were given up.                                                          *)
Wired ==
  \A i \in DOMAIN wire :
    IF Mine(wire[i]) THEN wire[i].method = Asked(page) /\ wire[i].tab = Of(page)
    ELSE /\ KeepsTab => wire[i].method \notin {"create", "close"}
         /\ KeepsAll => wire[i].method = "evaluate"

(* What the caller is told.                                                *)
Told(ok, value) ==
  /\ page.pc = "listing" /\ ok => value \in SUBSET (Tabs \cup {Temporary})
  /\ page.pc = "listing" /\ KeepsAll => ok /\ value = env.found.tabs
  /\ page.pc = "looking" /\ KeepsAll => ok
  /\ page.pc = "seeing" /\ KeepsAll => ok /\ value = (env.found.visible = page.look)
  /\ page.pc = "creating" => (ok => value = Temporary) /\ (KeepsTab => ok)
  /\ page.pc = "attaching" /\ KeepsAll => ok
  /\ page.pc \in {"undoing", "closing"} /\ KeepsTab => Temporary \notin guest.tabs
Answers ==
  /\ \A r \in replies : Mine(r) => Told(r.ok, r.value)
  /\ call["page"].state = "settled" => Told(call["page"].ok, call["page"].value)

(* The client's own tab.                                                   *)
Removed ==
  KeepsTab /\ page.pc \in {"idle", "listing", "looking", "seeing", "leaving", "failed", "activating", "done"}
    => \/ Temporary \notin guest.tabs
       \/ page.pc = "done" /\ page.count = 0

Opened(f) == [tabs |-> f.tabs \cup {Temporary}, visible |-> Temporary]

(* The browser, step by step, if nothing is lost.                          *)
Restored ==
  LET f == env.found IN KeepsAll =>
  /\ page.pc \in {"listing", "looking", "seeing", "leaving"} => guest = f
  /\ page.pc = "creating" => guest = IF OnItsWay THEN f ELSE Opened(f)
  /\ page.pc \in {"attaching", "ready", "blanking", "detaching"} => guest = Opened(f)
  /\ page.pc = "closing" =>
       f.tabs # {} /\ (IF OnItsWay THEN guest = Opened(f) ELSE guest.tabs = f.tabs)
  /\ page.pc = "activating" =>
       f.tabs # {} /\ (IF OnItsWay THEN guest.tabs = f.tabs ELSE guest = f)
  /\ page.pc = "done" => guest = IF f.tabs = {} THEN Opened(f) ELSE f

(* What the page knows of it.                                              *)
Known ==
  LET f == env.found IN KeepsAll =>
  /\ page.pc \in {"looking", "seeing", "leaving"} => page.look \in f.tabs /\ page.rest \subseteq f.tabs
  /\ page.pc \in {"looking", "seeing"} => page.visible = NoTab /\ f.visible \in page.rest \cup {page.look}
  /\ page.pc = "leaving" =>
       \/ page.visible = f.visible
       \/ page.visible = NoTab /\ f.visible \in page.rest
  /\ page.pc \in {"creating", "attaching", "ready", "blanking", "detaching", "closing", "activating"}
       => page.visible = f.visible
  /\ page.pc \notin {"idle", "failed", "listing"} => page.count = Cardinality(f.tabs)

PageInv == PageTyped /\ Numbers /\ Steps /\ Wired /\ Answers /\ Removed /\ Restored /\ Known

LEMMA PageInit == CdpInit => PageInv
<1> SUFFICES ASSUME CdpInit PROVE PageInv
  OBVIOUS
<1> USE DEF CdpInit, Idle
<1>1. /\ guest \in Guests /\ Temporary \notin guest.tabs /\ env.found \in Found
      /\ env = [found |-> guest, lost |-> {}, closed |-> 0]
  BY CdpAssumption DEF Guests, AnyTab
<1>2. page \in Pages /\ page.pc = "idle" /\ page.visible = NoTab
  BY DEF Pages, AnyTab
<1>3. wire \in Seq(Commands) /\ DOMAIN wire = {}
  OBVIOUS
<1>4. call["page"].state = "idle"
  BY DEF Callers
<1>5. PageTyped
  BY <1>1, <1>2, <1>3 DEF PageTyped
<1>6. Numbers /\ Wired /\ Answers
  BY <1>3, <1>4 DEF Numbers, Wired, Answers, Waits
<1>7. Steps
  BY <1>1, <1>2, <1>4 DEF Steps, Waits, Asking, Over
<1>8. Removed /\ Restored /\ Known
  BY <1>1, <1>2 DEF Removed, Restored, Known
<1> QED
  BY <1>5, <1>6, <1>7, <1>8 DEF PageInv

(* A command of the page's caller, wherever it is sent from.               *)
LEMMA AskKeeps ==
  ASSUME PageInv, ~Waits, page.pc \notin Over \cup {"idle"},
         NEW m \in Methods, NEW t \in AnyTab, Command("page", m, t),
         page' \in Pages, page'.pc \in Asking \ {"listing"}, m = Asked(page'), t = Of(page'),
         page'.pc \in {"attaching", "undoing", "blanking", "detaching", "closing", "activating"}
           => page'.target = Temporary,
         UNCHANGED <<replies, guest, env>>
  PROVE  /\ PageTyped' /\ Numbers' /\ Steps' /\ Wired' /\ Answers'
         /\ KeepsTab => OnItsWay'
<1> DEFINE e == [id |-> NextId, method |-> m, tab |-> t]
<1>1. /\ PageTyped /\ Numbers /\ Steps /\ Wired /\ Answers
      /\ (KeepsTab <=> KeepsTab') /\ (KeepsAll <=> KeepsAll')
  BY DEF PageInv, KeepsTab, KeepsAll
<1>2. /\ page'.pc \notin Over \cup {"idle", "ready", "listing"} /\ page'.pc \in Asking
      /\ DOMAIN call = Callers /\ "page" \in Callers
  BY <1>1 DEF Asking, Over, PageTyped, Callers
<1>3. CASE Usable
  <2>1. /\ conn' = [conn EXCEPT !.sent = NextId,
                                !.pending = [i \in DOMAIN conn.pending \cup {NextId} |->
                                               IF i = NextId THEN "page" ELSE conn.pending[i]]]
        /\ call' = [call EXCEPT !["page"] = [state |-> "waiting", method |-> m, id |-> NextId]]
        /\ wire' = Append(wire, e)
    BY <1>3 DEF Command
  <2>2. /\ DOMAIN conn' = DOMAIN conn /\ conn'.socket = conn.socket /\ conn'.closed = conn.closed
        /\ conn'.sent = NextId /\ DOMAIN conn'.pending = DOMAIN conn.pending \cup {NextId}
        /\ conn'.pending[NextId] = "page"
        /\ \A i \in DOMAIN conn.pending : i # NextId => conn'.pending[i] = conn.pending[i]
    BY <1>1, <2>1 DEF PageTyped
  <2>3. /\ call'["page"] = [state |-> "waiting", method |-> m, id |-> NextId]
        /\ \A c \in Callers : c # "page" => call'[c] = call[c]
        /\ DOMAIN call' = Callers
    BY <1>1, <1>2, <2>1 DEF PageTyped
  <2>4. NextId \in Nat /\ NextId = conn.sent + 1 /\ conn.sent \in Nat /\ e \in Commands
    BY <1>1 DEF PageTyped, NextId, Commands
  <2>5. /\ wire' \in Seq(Commands) /\ DOMAIN wire' = DOMAIN wire \cup {Len(wire) + 1}
        /\ \A i \in DOMAIN wire : wire'[i] = wire[i]
        /\ wire'[Len(wire) + 1] = e /\ Len(wire) + 1 \notin DOMAIN wire
    <3>1. wire \in Seq(Commands)
      BY <1>1 DEF PageTyped
    <3> HIDE DEF e
    <3> QED
      BY <2>1, <2>4, <3>1, AppendProperties
  <2>6. PageTyped'
    BY <1>1, <2>2, <2>3, <2>4, <2>5 DEF PageTyped
  <2>7. \A i \in DOMAIN wire : wire[i].id \in 1 .. conn.sent
    BY <1>1 DEF Numbers
  <2>8. Numbers'
    <3>1. \A i \in DOMAIN wire' : wire'[i].id \in 1 .. conn'.sent
      BY <2>2, <2>4, <2>5, <2>7
    <3>2. \A i, j \in DOMAIN wire' : wire'[i].id = wire'[j].id => i = j
      BY <1>1, <2>4, <2>5, <2>7 DEF Numbers
    <3>3. \A r \in replies' : r.id \in 1 .. conn'.sent /\ \A i \in DOMAIN wire' : wire'[i].id # r.id
      BY <1>1, <2>2, <2>4, <2>5 DEF Numbers
    <3>4. \A n \in DOMAIN conn'.pending :
            LET c == conn'.pending[n] IN c \in Callers /\ call'[c].state = "waiting" /\ call'[c].id = n
      <4> SUFFICES ASSUME NEW n \in DOMAIN conn'.pending
                   PROVE  LET c == conn'.pending[n]
                          IN  c \in Callers /\ call'[c].state = "waiting" /\ call'[c].id = n
        OBVIOUS
      <4>1. CASE n = NextId
        BY <1>2, <2>2, <2>3, <4>1
      <4>2. CASE n # NextId
        <5>1. n \in DOMAIN conn.pending /\ conn'.pending[n] = conn.pending[n]
          BY <2>2, <4>2
        <5>2. /\ conn.pending[n] \in Callers /\ call[conn.pending[n]].state = "waiting"
              /\ call[conn.pending[n]].id = n
          BY <1>1, <5>1 DEF Numbers
        <5>3. conn.pending[n] # "page"
          BY <5>2 DEF Waits
        <5> QED
          BY <2>3, <5>1, <5>2, <5>3
      <4> QED
        BY <4>1, <4>2
    <3>5. Waits' => call'["page"].id \in 1 .. conn'.sent
      BY <2>2, <2>3, <2>4
    <3> QED
      BY <3>1, <3>2, <3>3, <3>4, <3>5 DEF Numbers
  <2>9. Steps'
    BY <1>1, <1>2, <2>2, <2>3 DEF Steps, Over, Waits, Asking
  <2>10. /\ \A i \in DOMAIN wire : ~Mine(wire[i]) /\ ~Mine(wire[i])'
    <3>1. /\ \A i \in DOMAIN wire : wire'[i].id # NextId
          /\ wire'[Len(wire) + 1].id = NextId
          /\ call'["page"].state = "waiting" /\ call'["page"].id = NextId
      BY <2>3, <2>4, <2>5, <2>7
    <3> QED
      BY <2>3, <3>1 DEF Mine, Waits
  <2>11. Wired'
    <3> SUFFICES ASSUME NEW i \in DOMAIN wire'
                 PROVE  IF Mine(wire[i])' THEN wire'[i].method = Asked(page') /\ wire'[i].tab = Of(page')
                        ELSE /\ KeepsTab' => wire'[i].method \notin {"create", "close"}
                             /\ KeepsAll' => wire'[i].method = "evaluate"
      BY DEF Wired
    <3>1. CASE i \in DOMAIN wire
      BY <1>1, <2>5, <2>10, <3>1 DEF Wired
    <3>2. CASE i = Len(wire) + 1
      BY <2>3, <2>5, <3>2 DEF Mine, Waits
    <3> QED
      BY <2>5, <3>1, <3>2
  <2>12. Answers'
    BY <1>1, <2>3, <2>4 DEF Answers, Numbers, Mine
  <2>13. OnItsWay'
    BY <2>3, <2>5 DEF OnItsWay, Mine, Waits
  <2> QED
    BY <2>6, <2>8, <2>9, <2>11, <2>12, <2>13
<1>4. CASE ~Usable
  <2>1. /\ ~KeepsTab' /\ ~KeepsAll' /\ ~KeepsTab
    BY <1>1, <1>4 DEF Usable, Steps, KeepsTab, KeepsAll
  <2>2. /\ call' = [call EXCEPT !["page"] = Outcome(FALSE, NoTab)] /\ UNCHANGED <<conn, wire>>
    BY <1>4 DEF Command
  <2>3. /\ call'["page"] = Outcome(FALSE, NoTab) /\ ~Waits' /\ DOMAIN call' = Callers
        /\ \A c \in Callers : c # "page" => call'[c] = call[c]
    BY <1>1, <1>2, <2>2 DEF PageTyped, Outcome, Waits
  <2>4. PageTyped'
    BY <1>1, <2>2, <2>3 DEF PageTyped
  <2>5. Numbers'
    <3>1. \A n \in DOMAIN conn.pending :
            /\ conn.pending[n] \in Callers /\ call[conn.pending[n]].state = "waiting"
            /\ call[conn.pending[n]].id = n /\ conn.pending[n] # "page"
      BY <1>1 DEF Numbers, Waits
    <3>2. \A n \in DOMAIN conn'.pending :
            LET c == conn'.pending[n] IN c \in Callers /\ call'[c].state = "waiting" /\ call'[c].id = n
      BY <2>2, <2>3, <3>1
    <3> QED
      <4>1. conn' = conn /\ wire' = wire /\ replies' = replies
        BY <2>2
      <4> QED
        BY <1>1, <2>3, <3>2, <4>1, Zenon DEF Numbers
  <2>6. Steps'
    BY <1>1, <1>2, <2>2, <2>3 DEF Steps, Over, Waits, Asking, Outcome
  <2>7. Wired'
    BY <1>1, <2>1, <2>2, <2>3 DEF Wired, Mine
  <2>8. Answers'
    BY <1>2, <2>1, <2>3 DEF Answers, Mine, Told, Outcome
  <2> QED
    BY <2>1, <2>4, <2>5, <2>6, <2>7, <2>8
<1> QED
  BY <1>3, <1>4

(* close(): nothing is awaited any more.                                   *)
LEMMA CloseKeeps ==
  ASSUME PageInv, ~Waits, NEW pc \in Over, CloseConnection(pc), UNCHANGED <<replies, guest, env>>
  PROVE  PageTyped' /\ Numbers' /\ Steps' /\ Wired' /\ Answers'
<1>1. PageTyped /\ Numbers /\ Steps /\ Wired /\ Answers
  BY DEF PageInv
<1>2. /\ conn' = [conn EXCEPT !.closed = TRUE, !.socket = "closed", !.pending = <<>>]
      /\ call' = Rejected([call EXCEPT !["page"] = Idle])
      /\ page' = [page EXCEPT !.pc = pc]
      /\ UNCHANGED wire
  BY DEF CloseConnection
<1>3. /\ page' \in Pages /\ page'.pc = pc /\ pc \notin Asking
      /\ pc \notin {"idle", "ready"}
  BY <1>1, <1>2 DEF PageTyped, Pages, Over, Asking
<1>4. call'["page"] = Idle /\ DOMAIN call' = Callers
  BY <1>1, <1>2 DEF PageTyped, Rejected, Idle, Callers
<1>5. /\ DOMAIN conn' = DOMAIN conn /\ conn'.closed = TRUE /\ conn'.socket = "closed"
      /\ conn'.sent = conn.sent /\ DOMAIN conn'.pending = {}
  BY <1>1, <1>2 DEF PageTyped
<1>6. ~Waits' /\ call'["page"].state = "idle"
  BY <1>4 DEF Waits, Idle
<1>7. PageTyped'
  BY <1>1, <1>2, <1>3, <1>4, <1>5 DEF PageTyped
<1>8. Numbers'
  BY <1>1, <1>2, <1>5, <1>6 DEF Numbers
<1>9. Steps'
  BY <1>1, <1>3, <1>5, <1>6 DEF Steps, Over, Asking
<1>10. Wired' /\ Answers'
  BY <1>1, <1>2, <1>6 DEF Wired, Answers, Mine, KeepsTab, KeepsAll
<1> QED
  BY <1>7, <1>8, <1>9, <1>10

(* What is lost stays lost.                                                *)
LEMMA LostMore ==
  ASSUME PageTyped, NEW what, env' = Lost(what)
  PROVE  /\ DOMAIN env' = DOMAIN env /\ env'.found = env.found /\ env'.closed = env.closed
         /\ ~KeepsAll'
         /\ KeepsTab' => KeepsTab /\ what \notin {"create", "close", "socket"}
         /\ "socket" \in env.lost \/ what = "socket" => "socket" \in env'.lost
<1>1. /\ DOMAIN env' = DOMAIN env /\ env'.found = env.found /\ env'.closed = env.closed
      /\ env'.lost = IF "socket" \in env.lost \cup {what} THEN {"socket"}
                     ELSE env.lost \cup (IF what \in {"create", "close"} THEN {what} ELSE {"other"})
  BY DEF PageTyped, Lost
<1>2. ~KeepsAll'
  BY <1>1 DEF KeepsAll
<1>3. KeepsTab' => KeepsTab /\ what \notin {"create", "close", "socket"}
  BY <1>1 DEF KeepsTab
<1> QED
  BY <1>1, <1>2, <1>3

(* While page and browser stay as they are, so does what is said of them.  *)
LEMMA SameBrowser ==
  ASSUME PageInv, UNCHANGED <<page, guest>>, env'.found = env.found,
         KeepsTab' => KeepsTab, KeepsAll' => KeepsAll /\ (OnItsWay' <=> OnItsWay)
  PROVE  Removed' /\ Restored' /\ Known'
<1>1. Removed /\ Restored /\ Known /\ page' = page /\ guest' = guest
  BY DEF PageInv
<1>2. Removed'
  BY <1>1 DEF Removed
<1>3. Restored'
  BY <1>1, Zenon DEF Restored, Opened
<1>4. Known'
  BY <1>1, Zenon DEF Known
<1> QED
  BY <1>2, <1>3, <1>4

(* An answer reaches its caller, or nobody.                                *)
LEMMA AnswerKeeps == ASSUME PageInv, NEW r \in replies, Answer(r) PROVE PageInv'
<1>1. /\ PageTyped /\ Numbers /\ Steps /\ Wired /\ Answers
      /\ r \in replies /\ replies' = replies \ {r}
      /\ page' = page /\ wire' = wire /\ guest' = guest /\ env' = env
  BY DEF PageInv, Answer
<1>2. (KeepsTab' <=> KeepsTab) /\ (KeepsAll' <=> KeepsAll)
  BY <1>1 DEF KeepsTab, KeepsAll
<1>3. CASE r.id \notin DOMAIN conn.pending
  <2>1. conn' = conn /\ call' = call
    BY <1>3 DEF Answer
  <2>2. Waits' <=> Waits
    BY <2>1 DEF Waits
  <2>3. PageTyped' /\ Steps' /\ Wired'
    BY <1>1, <1>2, <2>1, <2>2, Zenon DEF PageTyped, Steps, Wired, Mine
  <2>4. Numbers'
    BY <1>1, <2>1, <2>2 DEF Numbers
  <2>5. Answers'
    BY <1>1, <1>2, <2>1, <2>2 DEF Answers, Mine, Told
  <2>6. OnItsWay' <=> OnItsWay
    BY <1>1, <2>1 DEF OnItsWay, Mine, Waits
  <2>7. Removed' /\ Restored' /\ Known'
    BY <1>1, <1>2, <2>6, SameBrowser
  <2> QED
    BY <2>3, <2>4, <2>5, <2>7 DEF PageInv
<1>4. CASE r.id \in DOMAIN conn.pending
  <2> DEFINE c == conn.pending[r.id]
  <2>1. /\ conn' = [conn EXCEPT !.pending = Without(conn.pending, r.id)]
        /\ call' = [call EXCEPT ![c] = Outcome(r.ok, r.value)]
    BY <1>4 DEF Answer
  <2>2. c \in Callers /\ call[c].state = "waiting" /\ call[c].id = r.id
    BY <1>1, <1>4 DEF Numbers
  <2> HIDE DEF c
  <2>3. /\ call'[c] = Outcome(r.ok, r.value) /\ DOMAIN call' = Callers
        /\ \A d \in Callers : d # c => call'[d] = call[d]
    BY <1>1, <2>1, <2>2 DEF PageTyped
  <2>4. /\ DOMAIN conn' = DOMAIN conn /\ conn'.socket = conn.socket /\ conn'.closed = conn.closed
        /\ conn'.sent = conn.sent /\ DOMAIN conn'.pending = DOMAIN conn.pending \ {r.id}
        /\ \A n \in DOMAIN conn'.pending : conn'.pending[n] = conn.pending[n]
    BY <1>1, <2>1 DEF PageTyped, Without
  <2>5. /\ c = "page" => Mine(r) /\ ~Waits' /\ call'["page"] = Outcome(r.ok, r.value)
        /\ c # "page" => (Waits' <=> Waits) /\ call'["page"] = call["page"]
    BY <2>2, <2>3 DEF Mine, Waits, Outcome, Callers
  <2>6. PageTyped'
    BY <1>1, <2>3, <2>4 DEF PageTyped
  <2>7. Numbers'
    <3>1. \A n \in DOMAIN conn'.pending :
            LET d == conn'.pending[n] IN d \in Callers /\ call'[d].state = "waiting" /\ call'[d].id = n
      <4> SUFFICES ASSUME NEW n \in DOMAIN conn'.pending
                   PROVE  LET d == conn'.pending[n]
                          IN  d \in Callers /\ call'[d].state = "waiting" /\ call'[d].id = n
        OBVIOUS
      <4>1. /\ conn.pending[n] \in Callers /\ call[conn.pending[n]].state = "waiting"
            /\ call[conn.pending[n]].id = n /\ n # r.id /\ conn'.pending[n] = conn.pending[n]
        BY <1>1, <2>4 DEF Numbers
      <4>2. conn.pending[n] # c
        BY <2>2, <4>1
      <4> QED
        BY <2>3, <4>1, <4>2
    <3>2. Waits' => Waits /\ call'["page"] = call["page"]
      BY <2>5
    <3> QED
      BY <1>1, <2>4, <3>1, <3>2 DEF Numbers
  <2>8. Steps'
    BY <1>1, <2>4, <2>5 DEF Steps, Waits, Outcome, Asking, Mine
  <2>9. \A i \in DOMAIN wire : wire[i].id # r.id
    BY <1>1 DEF Numbers
  <2>10. \A i \in DOMAIN wire : Mine(wire[i])' <=> Mine(wire[i])
    <3>1. c = "page" => \A i \in DOMAIN wire : ~Mine(wire[i])
      BY <2>5, <2>9 DEF Mine
    <3> QED
      BY <1>1, <2>5, <3>1 DEF Mine
  <2>11. Wired'
    BY <1>1, <1>2, <2>10, Zenon DEF Wired
  <2>12. Answers'
    <3>1. \A ok, value : Told(ok, value)' <=> Told(ok, value)
      BY <1>1, <1>2 DEF Told
    <3>2. CASE c = "page"
      <4>1. Told(r.ok, r.value)'
        BY <1>1, <2>5, <3>1, <3>2 DEF Answers
      <4> QED
        BY <2>5, <3>2, <4>1 DEF Answers, Mine, Outcome
    <3>3. CASE c # "page"
      BY <1>1, <2>5, <3>1, <3>3 DEF Answers, Mine
    <3> QED
      BY <3>2, <3>3
  <2>13. Removed' /\ Restored' /\ Known'
    <3>1. OnItsWay' <=> OnItsWay
      BY <1>1, <2>10 DEF OnItsWay
    <3> QED
      BY <1>1, <1>2, <3>1, SameBrowser
  <2> QED
    BY <2>6, <2>7, <2>8, <2>11, <2>12, <2>13 DEF PageInv
<1> QED
  BY <1>3, <1>4

(* A command's five seconds are over.                                      *)
LEMMA TimeOutKeeps == ASSUME PageInv, NEW id \in DOMAIN conn.pending, TimeOut(id) PROVE PageInv'
<1> DEFINE c == conn.pending[id]
<1>1. /\ PageTyped /\ Numbers /\ Steps /\ Wired /\ Answers
      /\ page' = page /\ wire' = wire /\ replies' = replies /\ guest' = guest
      /\ conn' = [conn EXCEPT !.pending = Without(conn.pending, id)]
      /\ call' = [call EXCEPT ![c] = Outcome(FALSE, NoTab)]
      /\ env' = Lost(call[c].method)
  BY DEF PageInv, TimeOut
<1>2. c \in Callers /\ call[c].state = "waiting" /\ call[c].id = id
  BY <1>1 DEF Numbers
<1> HIDE DEF c
<1>3. /\ call'[c] = Outcome(FALSE, NoTab) /\ DOMAIN call' = Callers
      /\ \A d \in Callers : d # c => call'[d] = call[d]
  BY <1>1, <1>2 DEF PageTyped
<1>4. /\ DOMAIN conn' = DOMAIN conn /\ conn'.socket = conn.socket /\ conn'.closed = conn.closed
      /\ conn'.sent = conn.sent /\ DOMAIN conn'.pending = DOMAIN conn.pending \ {id}
      /\ \A n \in DOMAIN conn'.pending : conn'.pending[n] = conn.pending[n]
  BY <1>1 DEF PageTyped, Without
<1>5. /\ c = "page" => Waits /\ ~Waits' /\ call'["page"] = Outcome(FALSE, NoTab)
      /\ c # "page" => (Waits' <=> Waits) /\ call'["page"] = call["page"]
  BY <1>2, <1>3 DEF Waits, Outcome, Callers
<1>6. /\ DOMAIN env' = DOMAIN env /\ env'.found = env.found /\ env'.closed = env.closed
      /\ ~KeepsAll'
      /\ KeepsTab' => KeepsTab /\ call[c].method \notin {"create", "close", "socket"}
      /\ "socket" \in env.lost => "socket" \in env'.lost
  BY <1>1, LostMore
<1>7. PageTyped'
  BY <1>1, <1>3, <1>4, <1>6 DEF PageTyped
<1>8. Numbers'
  <2>1. \A n \in DOMAIN conn'.pending :
          LET d == conn'.pending[n] IN d \in Callers /\ call'[d].state = "waiting" /\ call'[d].id = n
    <3> SUFFICES ASSUME NEW n \in DOMAIN conn'.pending
                 PROVE  LET d == conn'.pending[n]
                        IN  d \in Callers /\ call'[d].state = "waiting" /\ call'[d].id = n
      OBVIOUS
    <3>1. /\ conn.pending[n] \in Callers /\ call[conn.pending[n]].state = "waiting"
          /\ call[conn.pending[n]].id = n /\ n # id /\ conn'.pending[n] = conn.pending[n]
      BY <1>1, <1>4 DEF Numbers
    <3>2. conn.pending[n] # c
      BY <1>2, <3>1
    <3> QED
      BY <1>3, <3>1, <3>2
  <2>2. Waits' => Waits /\ call'["page"] = call["page"]
    BY <1>5
  <2> QED
    BY <1>1, <1>4, <2>1, <2>2 DEF Numbers
<1>9. Steps'
  <2>1. page.pc # "idle" \/ c # "page"
    BY <1>1, <1>5 DEF Steps, Waits, Asking
  <2>2. page.pc # "idle"
    BY <1>1, <1>2 DEF Steps
  <2>3. c = "page" => page.pc \in Asking
    BY <1>1, <1>5 DEF Steps, Waits
  <2> QED
    BY <1>1, <1>4, <1>5, <1>6, <2>2, <2>3 DEF Steps, Outcome
<1>10. Wired'
  <2> SUFFICES ASSUME NEW i \in DOMAIN wire
               PROVE  IF Mine(wire[i])' THEN wire[i].method = Asked(page) /\ wire[i].tab = Of(page)
                      ELSE /\ KeepsTab' => wire[i].method \notin {"create", "close"}
                           /\ KeepsAll' => wire[i].method = "evaluate"
    BY <1>1, Zenon DEF Wired
  <2>1. CASE c = "page"
    <3>1. ~Mine(wire[i])'
      BY <1>5, <2>1 DEF Mine
    <3>2. CASE Mine(wire[i])
      <4>1. wire[i].method = call[c].method
        BY <1>1, <1>5, <2>1, <3>2 DEF Wired, Steps
      <4> QED
        BY <1>6, <3>1, <4>1
    <3>3. CASE ~Mine(wire[i])
      BY <1>1, <1>6, <3>1, <3>3 DEF Wired
    <3> QED
      BY <3>2, <3>3
  <2>2. CASE c # "page"
    <3>1. Mine(wire[i])' <=> Mine(wire[i])
      BY <1>1, <1>5, <2>2 DEF Mine
    <3> QED
      BY <1>1, <1>6, <3>1 DEF Wired
  <2> QED
    BY <2>1, <2>2
<1>11. Answers'
  <2>1. \A ok, value : Told(ok, value) => Told(ok, value)'
    BY <1>1, <1>6 DEF Told
  <2>2. CASE c = "page"
    <3>1. call[c].method = Asked(page)
      BY <1>1, <1>5, <2>2 DEF Steps
    <3>2. page.pc = "creating" \/ page.pc \in {"undoing", "closing"} => ~KeepsTab'
      BY <1>6, <3>1 DEF Asked
    <3>3. \A ok, value : ok = FALSE => Told(ok, value)'
      BY <1>1, <1>6, <3>2 DEF Told
    <3> QED
      BY <1>5, <2>2, <3>3 DEF Answers, Mine, Outcome
  <2>3. CASE c # "page"
    BY <1>1, <1>5, <2>1, <2>3 DEF Answers, Mine
  <2> QED
    BY <2>2, <2>3
<1>12. Removed' /\ Restored' /\ Known'
  BY <1>1, <1>6, SameBrowser
<1> QED
  BY <1>7, <1>8, <1>9, <1>10, <1>11, <1>12 DEF PageInv

(* The socket ends: every command is rejected.                             *)
LEMMA SocketEndsKeeps == ASSUME PageInv, SocketEnds PROVE PageInv'
<1>1. /\ PageTyped /\ Numbers /\ Steps /\ Wired /\ Answers
      /\ page' = page /\ guest' = guest /\ replies' = {} /\ conn.socket = "open"
      /\ conn' = [conn EXCEPT !.socket = "closed", !.pending = <<>>]
      /\ call' = Rejected(call) /\ env' = Lost("socket")
  BY DEF PageInv, SocketEnds
<1>2. PICK n \in 0 .. Len(wire) : wire' = SubSeq(wire, 1, n)
  BY DEF SocketEnds
<1>3. wire \in Seq(Commands) /\ \A i \in 1 .. n : wire[i] \in Commands
  BY <1>1, <1>2 DEF PageTyped
<1>4. /\ wire' \in Seq(Commands) /\ Len(wire') = n
      /\ \A i \in DOMAIN wire' : i \in DOMAIN wire /\ wire'[i] = wire[i]
  BY <1>2, <1>3, SubSeqProperties
<1>5. /\ DOMAIN env' = DOMAIN env /\ env'.found = env.found /\ env'.closed = env.closed
      /\ ~KeepsAll' /\ ~KeepsTab' /\ "socket" \in env'.lost
  BY <1>1, LostMore
<1>6. /\ DOMAIN call' = Callers /\ \A c \in Callers : call'[c].state # "waiting"
      /\ Waits => call'["page"] = Outcome(FALSE, NoTab)
      /\ ~Waits => call'["page"] = call["page"]
  BY <1>1 DEF PageTyped, Rejected, Outcome, Waits, Callers
<1>7. ~Waits'
  BY <1>6 DEF Waits, Callers
<1>8. /\ DOMAIN conn' = DOMAIN conn /\ conn'.closed = conn.closed /\ conn'.socket = "closed"
      /\ conn'.sent = conn.sent /\ DOMAIN conn'.pending = {}
  BY <1>1 DEF PageTyped
<1>9. PageTyped'
  BY <1>1, <1>4, <1>5, <1>6, <1>8 DEF PageTyped
<1>10. Numbers'
  BY <1>1, <1>4, <1>7, <1>8 DEF Numbers
<1>11. Steps'
  <2>1. Waits => page.pc \in Asking
    BY <1>1 DEF Steps, Waits
  <2>2. page.pc # "idle"
    BY <1>1 DEF Steps
  <2> QED
    BY <1>1, <1>5, <1>6, <1>7, <1>8, <2>1, <2>2 DEF Steps, Outcome
<1>12. Wired' /\ Answers'
  <2>1. /\ \A ok, value : ok = FALSE => Told(ok, value)'
        /\ \A ok, value : Told(ok, value) => Told(ok, value)'
    BY <1>1, <1>5 DEF Told
  <2>2. call'["page"].state = "settled" => Told(call["page"].ok, call["page"].value)'
    <3>1. CASE Waits
      BY <1>6, <2>1, <3>1 DEF Outcome
    <3>2. CASE ~Waits
      BY <1>1, <1>6, <2>1, <3>2 DEF Answers
    <3> QED
      BY <3>1, <3>2
  <2> QED
    BY <1>1, <1>5, <1>7, <2>2 DEF Wired, Answers, Mine
<1>13. Removed' /\ Restored' /\ Known'
  BY <1>1, <1>5, SameBrowser
<1> QED
  BY <1>9, <1>10, <1>11, <1>12, <1>13 DEF PageInv

(* What a command may do to the tabs.                                      *)
IsEffect(g, m, e) ==
  /\ e.guest \in Guests
  /\ m.method # "create" => e.guest.tabs \subseteq g.tabs
  /\ m.method \notin {"create", "close", "activate"} => e.guest = g
  /\ m.method = "list" => e.ok = TRUE /\ e.value = g.tabs
  /\ m.method = "create" =>
       /\ e.ok = TRUE /\ e.value = Temporary
       /\ e.guest = [tabs |-> g.tabs \cup {Temporary}, visible |-> Temporary]
  /\ m.method = "evaluate" /\ m.tab \in g.tabs => e.ok = TRUE /\ e.value = (g.visible = m.tab)
  /\ m.method = "attach" /\ m.tab \in g.tabs => e.ok = TRUE
  /\ m.method = "close" => e.guest.tabs = g.tabs \ {m.tab}
  /\ m.method = "activate" /\ m.tab \in g.tabs =>
       e.guest = [tabs |-> g.tabs, visible |-> m.tab]

LEMMA EffectOf ==
  ASSUME NEW g \in Guests, NEW m \in Commands, NEW e \in Effects(g, m) PROVE IsEffect(g, m, e)
<1> USE DEF IsEffect
<1> USE DEF Effect
<1>1. g = [tabs |-> g.tabs, visible |-> g.visible] /\ g.tabs \subseteq Tabs \cup {Temporary}
  BY DEF Guests
<1>2. CASE m.method = "list"
  BY <1>2 DEF Effects
<1>3. CASE m.method = "create"
  <2>1. e = Effect([tabs |-> g.tabs \cup {Temporary}, visible |-> Temporary], TRUE, Temporary)
    BY <1>3 DEF Effects
  <2>2. e.guest \in Guests
    BY <1>1, <2>1 DEF Guests, AnyTab
  <2> QED
    BY <1>3, <2>1, <2>2
<1>4. CASE m.method \notin {"list", "create"} /\ m.tab \notin g.tabs
  <2>1. e = Effect(g, FALSE, NoTab)
    BY <1>4 DEF Effects
  <2> QED
    BY <1>4, <2>1
<1>5. CASE m.method = "close" /\ m.tab \in g.tabs
  <2>1. PICK h \in Closing(g, m.tab) : e = Effect(h, TRUE, NoTab)
    BY <1>5 DEF Effects
  <2>2. h \in Guests /\ h.tabs = g.tabs \ {m.tab}
    BY <1>1, <2>1 DEF Closing, Guests, AnyTab
  <2> QED
    BY <1>5, <2>1, <2>2
<1>6. CASE m.method = "activate" /\ m.tab \in g.tabs
  <2>1. e = Effect([g EXCEPT !.visible = m.tab], TRUE, NoTab)
    BY <1>6 DEF Effects
  <2>2. [g EXCEPT !.visible = m.tab] = [tabs |-> g.tabs, visible |-> m.tab]
    BY <1>1
  <2>3. [tabs |-> g.tabs, visible |-> m.tab] \in Guests
    BY DEF Guests, Commands
  <2> QED
    BY <1>6, <2>1, <2>2, <2>3
<1>7. CASE m.method \notin {"list", "create", "close", "activate"} /\ m.tab \in g.tabs
  <2>1. e = Effect(g, TRUE, IF m.method = "evaluate" THEN g.visible = m.tab ELSE m.tab)
    BY <1>7 DEF Effects
  <2> QED
    BY <1>7, <2>1
<1> QED
  BY <1>2, <1>3, <1>4, <1>5, <1>6, <1>7

(* The tabs of a browser that is found are not the client's.               *)
LEMMA FoundIs ==
  ASSUME PageTyped
  PROVE  LET f == env.found IN
         /\ f.tabs \subseteq Tabs /\ Temporary \notin f.tabs /\ NoTab \notin f.tabs
         /\ f = [tabs |-> f.tabs, visible |-> f.visible]
         /\ f.tabs = {} => f.visible = NoTab
         /\ f.tabs # {} => f.visible \in f.tabs
         /\ Cardinality(f.tabs) \in Nat /\ (Cardinality(f.tabs) = 0 <=> f.tabs = {})
<1> DEFINE f == env.found
<1>1. /\ f \in [tabs : SUBSET Tabs, visible : Tabs \cup {NoTab}]
      /\ IF f.tabs = {} THEN f.visible = NoTab ELSE f.visible \in f.tabs
  BY CdpAssumption DEF PageTyped
<1>2. IsFiniteSet(f.tabs)
  BY <1>1, CdpAssumption, FS_Subset
<1> QED
  BY <1>1, <1>2, FS_EmptySet, FS_CardinalityType, CdpAssumption

(* The browser executes a command and answers it.                          *)
LEMMA ExecuteKeeps == ASSUME PageInv, BrowserExecutes PROVE PageInv'
<1> DEFINE m == Head(wire)
<1>1. /\ PageTyped /\ Numbers /\ Steps /\ Wired /\ Answers /\ Removed /\ Restored /\ Known
      /\ wire # <<>> /\ wire' = Tail(wire)
      /\ conn' = conn /\ call' = call /\ page' = page /\ env' = env
  BY DEF PageInv, BrowserExecutes
<1>2. PICK e \in Effects(guest, m) :
        /\ guest' = e.guest
        /\ replies' = IF conn.socket # "open" THEN replies
                      ELSE replies \cup {[id |-> m.id, ok |-> e.ok, value |-> e.value]}
  BY DEF BrowserExecutes
<1>3. /\ wire \in Seq(Commands) /\ guest \in Guests
      /\ (KeepsTab' <=> KeepsTab) /\ (KeepsAll' <=> KeepsAll) /\ (Waits' <=> Waits)
  BY <1>1 DEF PageTyped, KeepsTab, KeepsAll, Waits
<1>4. /\ m \in Commands /\ wire' \in Seq(Commands) /\ 1 \in DOMAIN wire /\ m = wire[1]
      /\ \A i \in DOMAIN wire' : i + 1 \in DOMAIN wire /\ wire'[i] = wire[i + 1]
      /\ \A i \in DOMAIN wire : i # 1 => i - 1 \in DOMAIN wire' /\ wire'[i - 1] = wire[i]
  <2>1. m = wire[1] /\ Len(wire) \in Nat \ {0}
    BY <1>1, <1>3
  <2>2. /\ m \in Commands /\ wire' \in Seq(Commands) /\ Len(wire') = Len(wire) - 1
        /\ \A i \in 1 .. Len(wire') : wire'[i] = wire[i + 1]
    BY <1>1, <1>3, HeadTailProperties
  <2>3. /\ DOMAIN wire = 1 .. Len(wire) /\ DOMAIN wire' = 1 .. (Len(wire) - 1)
    BY <1>3, <2>1, <2>2
  <2>4. \A i \in 1 .. (Len(wire) - 1) : i + 1 \in 1 .. Len(wire) /\ wire'[i] = wire[i + 1]
    BY <2>1, <2>2
  <2>5. ASSUME NEW i \in 1 .. Len(wire), i # 1
        PROVE  i - 1 \in 1 .. (Len(wire) - 1) /\ wire'[i - 1] = wire[i]
    <3>1. i - 1 \in 1 .. (Len(wire) - 1) /\ (i - 1) + 1 = i
      BY <2>1, <2>5
    <3> QED
      BY <2>4, <3>1
  <2> QED
    BY <2>1, <2>2, <2>3, <2>4, <2>5
<1> HIDE DEF m
<1>5. IsEffect(guest, m, e) /\ e.guest \in Guests
  <2>1. guest \in Guests /\ m \in Commands /\ e \in Effects(guest, m)
    BY <1>2, <1>3, <1>4
  <2>2. IsEffect(guest, m, e)
    BY <2>1, EffectOf
  <2> QED
    BY <2>2 DEF IsEffect
<1>6. PageTyped'
  BY <1>1, <1>2, <1>4, <1>5 DEF PageTyped
<1>7. \A i \in DOMAIN wire' : wire'[i].id # m.id
  BY <1>1, <1>4 DEF Numbers
<1>8. Numbers'
  <2>1. \A i \in DOMAIN wire' : wire'[i].id \in 1 .. conn'.sent
    BY <1>1, <1>4 DEF Numbers
  <2>2. \A i, j \in DOMAIN wire' : wire'[i].id = wire'[j].id => i = j
    <3> SUFFICES ASSUME NEW i \in DOMAIN wire', NEW j \in DOMAIN wire', wire'[i].id = wire'[j].id
                 PROVE  i = j
      OBVIOUS
    <3>1. i + 1 = j + 1
      BY <1>1, <1>4 DEF Numbers
    <3>2. i \in Nat /\ j \in Nat
      BY <1>4
    <3> QED
      BY <3>1, <3>2
  <2>3. \A r \in replies' : r.id \in 1 .. conn'.sent /\ \A i \in DOMAIN wire' : wire'[i].id # r.id
    <3> SUFFICES ASSUME NEW r \in replies'
                 PROVE  r.id \in 1 .. conn'.sent /\ \A i \in DOMAIN wire' : wire'[i].id # r.id
      OBVIOUS
    <3>1. CASE r \in replies
      BY <1>1, <1>4, <3>1 DEF Numbers
    <3>2. CASE r.id = m.id
      BY <1>1, <1>4, <1>7, <3>2 DEF Numbers
    <3> QED
      BY <1>2, <3>1, <3>2
  <2> QED
    BY <1>1, <1>3, <2>1, <2>2, <2>3 DEF Numbers
<1>9. Steps'
  <2>1. page.pc # "idle"
    BY <1>1, <1>4 DEF Steps
  <2> QED
    BY <1>1, <1>3, <2>1 DEF Steps
<1>10. \A i \in DOMAIN wire' : Mine(wire[i])' <=> Mine(wire[i + 1])
  BY <1>1, <1>3, <1>4 DEF Mine
<1>11. Wired'
  BY <1>1, <1>3, <1>4, <1>10 DEF Wired
<1>12. Mine(m) => /\ m.method = Asked(page) /\ m.tab = Of(page)
                  /\ OnItsWay /\ ~OnItsWay'
  BY <1>1, <1>4, <1>7 DEF Wired, OnItsWay, Mine
<1>13. ~Mine(m) => /\ OnItsWay' <=> OnItsWay
                   /\ KeepsTab => m.method \notin {"create", "close"}
                   /\ KeepsAll => m.method = "evaluate" /\ guest' = guest
  <2>1. OnItsWay' <=> \E i \in DOMAIN wire' : Mine(wire[i + 1])
    BY <1>10 DEF OnItsWay
  <2>2. ~Mine(m) => (OnItsWay' <=> OnItsWay)
    <3> SUFFICES ASSUME ~Mine(m) PROVE (OnItsWay' <=> OnItsWay)
      OBVIOUS
    <3>1. OnItsWay' => OnItsWay
      BY <1>4, <2>1 DEF OnItsWay
    <3>2. ASSUME OnItsWay PROVE OnItsWay'
      <4>1. PICK i \in DOMAIN wire : Mine(wire[i])
        BY <3>2 DEF OnItsWay
      <4>2. i # 1
        BY <1>4, <4>1
      <4>3. i - 1 \in DOMAIN wire' /\ (i - 1) + 1 = i
        BY <1>3, <1>4, <4>2
      <4> QED
        BY <2>1, <4>1, <4>3
    <3> QED
      BY <3>1, <3>2
  <2>3. ~Mine(m) => /\ KeepsTab => m.method \notin {"create", "close"}
                    /\ KeepsAll => m.method = "evaluate"
    BY <1>1, <1>4 DEF Wired
  <2>4. m.method = "evaluate" => guest' = guest
    BY <1>2, <1>3, <1>5 DEF IsEffect
  <2> QED
    BY <2>2, <2>3, <2>4
<1>14. page.pc \notin Asking => ~Waits
  BY <1>1 DEF Steps, Waits
<1>15. Removed'
  <2> SUFFICES ASSUME KeepsTab, page.pc \in {"idle", "listing", "looking", "seeing", "leaving",
                                           "failed", "activating", "done"},
                      Temporary \notin guest.tabs
               PROVE  Temporary \notin guest'.tabs
    BY <1>1, <1>3 DEF Removed
  <2>1. m.method # "create"
    BY <1>12, <1>13, <1>14 DEF Asked, Mine, Asking
  <2> QED
    BY <1>2, <1>3, <1>5, <2>1 DEF IsEffect
<1>16. Mine(m) => page.pc \in Asking
  BY <1>14 DEF Mine
<1>17. Restored'
  <2> DEFINE f == env.found
  <2> SUFFICES ASSUME KeepsAll PROVE Restored'
    BY <1>3 DEF Restored
  <2>1. CASE ~Mine(m)
    BY <1>1, <1>3, <1>13, <2>1, Zenon DEF Restored, Opened
  <2>2. CASE Mine(m)
    <3>1. m.method \notin {"create", "close", "activate"} => guest' = guest
      BY <1>2, <1>3, <1>5 DEF IsEffect
    <3>2. page.pc \in {"listing", "looking", "seeing", "leaving", "attaching", "blanking", "detaching"}
            => guest' = guest
      BY <1>12, <2>2, <3>1 DEF Asked
    <3>3. page.pc = "creating" => guest' = Opened(f)
      BY <1>1, <1>2, <1>3, <1>5, <1>12, <2>2 DEF Restored, Opened, Asked, IsEffect
    <3>4. page.pc = "closing" => f.tabs # {} /\ guest'.tabs = f.tabs
      <4> SUFFICES ASSUME page.pc = "closing" PROVE f.tabs # {} /\ guest'.tabs = f.tabs
        OBVIOUS
      <4>1. m.method = "close" /\ m.tab = Temporary
        BY <1>1, <1>12, <2>2 DEF Asked, Of, Steps
      <4>2. guest = Opened(f) /\ f.tabs # {}
        BY <1>1, <1>12, <2>2 DEF Restored
      <4>3. guest'.tabs = guest.tabs \ {Temporary}
        BY <1>2, <1>3, <1>5, <4>1 DEF IsEffect
      <4> QED
        BY <1>1, <4>2, <4>3, FoundIs DEF Opened
    <3>5. page.pc = "activating" => f.tabs # {} /\ guest' = f
      <4> SUFFICES ASSUME page.pc = "activating" PROVE f.tabs # {} /\ guest' = f
        OBVIOUS
      <4>1. m.method = "activate" /\ m.tab = f.visible
        BY <1>1, <1>12, <2>2 DEF Asked, Of, Known
      <4>2. guest.tabs = f.tabs /\ f.tabs # {}
        BY <1>1, <1>12, <2>2 DEF Restored
      <4>3. f.visible \in guest.tabs /\ f = [tabs |-> f.tabs, visible |-> f.visible]
        BY <1>1, <4>2, FoundIs
      <4> QED
        BY <1>2, <1>3, <1>5, <4>1, <4>2, <4>3 DEF IsEffect
    <3>6. page.pc \notin {"ready", "done"}
      BY <1>16, <2>2 DEF Asking
    <3>7. env'.found = f
      BY <1>1
    <3> HIDE DEF f
    <3> QED
      BY <1>1, <1>3, <1>12, <2>2, <3>2, <3>3, <3>4, <3>5, <3>6 DEF Restored, Opened, f
  <2> QED
    BY <2>1, <2>2
<1>18. Known'
  BY <1>1, <1>3, Zenon DEF Known
<1>19. Answers'
  <2>1. ASSUME NEW ok, NEW value, Told(ok, value), ~Mine(m) PROVE Told(ok, value)'
    <3>1. KeepsTab /\ Temporary \notin guest.tabs => Temporary \notin guest'.tabs
      BY <1>2, <1>3, <1>5, <1>13, <2>1 DEF IsEffect
    <3> QED
      BY <1>1, <1>3, <2>1, <3>1 DEF Told
  <2>2. call["page"].state = "settled" => Told(call["page"].ok, call["page"].value)'
    BY <1>1, <2>1 DEF Answers, Mine, Waits
  <2>3. ASSUME NEW r \in replies, Mine(r)' PROVE Told(r.ok, r.value)'
    <3>1. Mine(r) /\ ~Mine(m)
      BY <1>1, <1>3, <1>4, <2>3 DEF Mine, Numbers
    <3> QED
      BY <1>1, <2>1, <3>1 DEF Answers
  <2>4. ASSUME Mine(m) PROVE Told(e.ok, e.value)'
    <3>1. m.method = Asked(page) /\ m.tab = Of(page) /\ OnItsWay /\ page' = page /\ env' = env
      BY <1>1, <1>12, <2>4
    <3>2. page.pc = "listing" =>
            /\ e.ok => e.value \in SUBSET (Tabs \cup {Temporary})
            /\ KeepsAll => e.ok /\ e.value = env.found.tabs
      BY <1>1, <1>3, <1>5, <3>1 DEF Asked, Guests, Restored, IsEffect
    <3>3. page.pc = "looking" /\ KeepsAll => e.ok
      BY <1>1, <1>3, <1>5, <3>1 DEF Asked, Of, Restored, Known, IsEffect
    <3>4. page.pc = "seeing" /\ KeepsAll => e.ok /\ e.value = (env.found.visible = page.look)
      BY <1>1, <1>3, <1>5, <3>1 DEF Asked, Of, Restored, Known, IsEffect
    <3>5. page.pc = "creating" => (e.ok => e.value = Temporary) /\ (KeepsTab => e.ok)
      BY <1>3, <1>5, <3>1 DEF Asked, IsEffect
    <3>6. page.pc = "attaching" /\ KeepsAll => e.ok
      BY <1>1, <1>3, <1>5, <3>1 DEF Asked, Of, Steps, Restored, Opened, IsEffect
    <3>7. page.pc \in {"undoing", "closing"} => Temporary \notin guest'.tabs
      BY <1>1, <1>2, <1>3, <1>5, <3>1 DEF Asked, Of, Steps, IsEffect
    <3> QED
      BY <1>3, <3>1, <3>2, <3>3, <3>4, <3>5, <3>6, <3>7 DEF Told
  <2>5. ASSUME NEW r \in replies', Mine(r)' PROVE Told(r.ok, r.value)'
    <3>1. CASE r \in replies
      BY <2>3, <2>5, <3>1
    <3>2. CASE r = [id |-> m.id, ok |-> e.ok, value |-> e.value]
      <4>1. Mine(m) /\ r.ok = e.ok /\ r.value = e.value
        BY <1>1, <1>3, <2>5, <3>2 DEF Mine
      <4> QED
        BY <2>4, <4>1
    <3> QED
      BY <1>2, <3>1, <3>2
  <2> QED
    BY <1>1, <2>2, <2>5 DEF Answers
<1> QED
  BY <1>6, <1>8, <1>9, <1>11, <1>15, <1>17, <1>18, <1>19 DEF PageInv

LEMMA SomebodyClosesKeeps == ASSUME PageInv, NEW t, SomebodyCloses(t) PROVE PageInv'
<1>1. /\ PageTyped /\ Numbers /\ Steps /\ Wired /\ Answers /\ Removed
      /\ conn' = conn /\ call' = call /\ page' = page /\ wire' = wire /\ replies' = replies
      /\ page.pc \notin {"idle", "failed", "done"}
      /\ guest' \in Closing(guest, t) /\ env' = [env EXCEPT !.closed = env.closed + 1]
  BY DEF PageInv, SomebodyCloses
<1>2. guest' \in Guests /\ guest'.tabs \subseteq guest.tabs
  <2>1. guest.tabs \subseteq Tabs \cup {Temporary} /\ guest.visible \in AnyTab
    BY <1>1 DEF PageTyped, Guests
  <2> QED
    BY <1>1, <2>1 DEF Closing, Guests, AnyTab
<1>3. /\ DOMAIN env' = DOMAIN env /\ env'.found = env.found /\ env'.lost = env.lost
      /\ env'.closed \in Nat /\ env'.closed # 0
  BY <1>1 DEF PageTyped
<1>4. ~KeepsAll' /\ (KeepsTab' <=> KeepsTab) /\ (Waits' <=> Waits)
  BY <1>1, <1>3 DEF KeepsAll, KeepsTab, Waits
<1>5. PageTyped'
  BY <1>1, <1>2, <1>3 DEF PageTyped
<1>6. Numbers'
  BY <1>1, <1>4, Zenon DEF Numbers
<1>7. Steps'
  BY <1>1, <1>3, <1>4 DEF Steps
<1>8. Wired'
  BY <1>1, <1>4 DEF Wired, Mine
<1>9. Answers'
  <2>1. \A ok, value : Told(ok, value) => Told(ok, value)'
    BY <1>1, <1>2, <1>4 DEF Told
  <2> QED
    BY <1>1, <1>4, <2>1 DEF Answers, Mine
<1>10. Removed' /\ Restored' /\ Known'
  BY <1>1, <1>2, <1>4 DEF Removed, Restored, Known
<1> QED
  BY <1>5, <1>6, <1>7, <1>8, <1>9, <1>10 DEF PageInv

(* The host evaluates in the page.                                         *)
LEMMA EvaluateKeeps == ASSUME PageInv, Evaluate PROVE PageInv'
<1> DEFINE e == [id |-> NextId, method |-> "evaluate", tab |-> page.target]
<1>1. /\ PageTyped /\ Numbers /\ Steps /\ Wired /\ Answers
      /\ page' = page /\ replies' = replies /\ guest' = guest /\ env' = env
      /\ call["probe"].state = "idle" /\ page.pc # "idle"
      /\ Command("probe", "evaluate", page.target)
  BY DEF PageInv, Evaluate
<1>2. /\ (KeepsTab' <=> KeepsTab) /\ (KeepsAll' <=> KeepsAll)
      /\ DOMAIN call = Callers /\ "page" \in Callers /\ "probe" \in Callers
  BY <1>1 DEF KeepsTab, KeepsAll, PageTyped, Callers
<1>3. \A n \in DOMAIN conn.pending :
        /\ conn.pending[n] = "page" /\ call["page"].state = "waiting" /\ call["page"].id = n
        /\ n \in Nat
  <2> SUFFICES ASSUME NEW n \in DOMAIN conn.pending
               PROVE  /\ conn.pending[n] = "page" /\ call["page"].state = "waiting"
                      /\ call["page"].id = n /\ n \in Nat
    OBVIOUS
  <2>1. /\ conn.pending[n] \in Callers /\ call[conn.pending[n]].state = "waiting"
        /\ call[conn.pending[n]].id = n
    BY <1>1 DEF Numbers
  <2>2. conn.pending[n] = "page"
    BY <1>1, <2>1 DEF Callers
  <2> QED
    BY <1>1, <2>1, <2>2 DEF Numbers, Waits, PageTyped
<1>4. CASE Usable
  <2>1. /\ conn' = [conn EXCEPT !.sent = NextId,
                                !.pending = [i \in DOMAIN conn.pending \cup {NextId} |->
                                               IF i = NextId THEN "probe" ELSE conn.pending[i]]]
        /\ call' = [call EXCEPT !["probe"] = [state |-> "waiting", method |-> "evaluate",
                                              id |-> NextId]]
        /\ wire' = Append(wire, e)
    BY <1>1, <1>4 DEF Command
  <2>2. /\ DOMAIN conn' = DOMAIN conn /\ conn'.socket = conn.socket /\ conn'.closed = conn.closed
        /\ conn'.sent = NextId /\ DOMAIN conn'.pending = DOMAIN conn.pending \cup {NextId}
        /\ conn'.pending[NextId] = "probe"
        /\ \A i \in DOMAIN conn.pending : i # NextId => conn'.pending[i] = conn.pending[i]
    BY <1>1, <2>1 DEF PageTyped
  <2>3. /\ call'["probe"] = [state |-> "waiting", method |-> "evaluate", id |-> NextId]
        /\ call'["page"] = call["page"] /\ DOMAIN call' = Callers
    BY <1>2, <2>1 DEF PageTyped
  <2>4. NextId \in Nat /\ NextId = conn.sent + 1 /\ conn.sent \in Nat /\ e \in Commands
    BY <1>1 DEF PageTyped, NextId, Commands, Methods, Pages
  <2>5. /\ wire' \in Seq(Commands) /\ DOMAIN wire' = DOMAIN wire \cup {Len(wire) + 1}
        /\ \A i \in DOMAIN wire : wire'[i] = wire[i]
        /\ wire'[Len(wire) + 1] = e /\ Len(wire) + 1 \notin DOMAIN wire
    <3>1. wire \in Seq(Commands)
      BY <1>1 DEF PageTyped
    <3> HIDE DEF e
    <3> QED
      BY <2>1, <2>4, <3>1, AppendProperties
  <2>6. PageTyped'
    BY <1>1, <2>2, <2>3, <2>4, <2>5 DEF PageTyped
  <2>7. /\ \A i \in DOMAIN wire : wire[i].id \in 1 .. conn.sent
        /\ Waits => call["page"].id \in 1 .. conn.sent
        /\ Waits' <=> Waits
    BY <1>1, <2>3 DEF Numbers, Waits
  <2>8. Numbers'
    <3>1. \A i \in DOMAIN wire' : wire'[i].id \in 1 .. conn'.sent
      BY <2>2, <2>4, <2>5, <2>7
    <3>2. \A i, j \in DOMAIN wire' : wire'[i].id = wire'[j].id => i = j
      BY <1>1, <2>4, <2>5, <2>7 DEF Numbers
    <3>3. \A r \in replies' : r.id \in 1 .. conn'.sent /\ \A i \in DOMAIN wire' : wire'[i].id # r.id
      BY <1>1, <2>2, <2>4, <2>5 DEF Numbers
    <3>4. \A n \in DOMAIN conn'.pending :
            LET c == conn'.pending[n] IN c \in Callers /\ call'[c].state = "waiting" /\ call'[c].id = n
      BY <1>2, <1>3, <2>2, <2>3
    <3>5. Waits' => call'["page"].id \in 1 .. conn'.sent
      BY <2>2, <2>3, <2>4, <2>7
    <3> QED
      BY <3>1, <3>2, <3>3, <3>4, <3>5 DEF Numbers
  <2>9. Steps'
    BY <1>1, <2>2, <2>3, <2>7 DEF Steps
  <2>10. /\ \A i \in DOMAIN wire : Mine(wire[i])' <=> Mine(wire[i])
         /\ ~(Waits /\ wire'[Len(wire) + 1].id = call["page"].id)
    BY <2>3, <2>4, <2>5, <2>7 DEF Mine
  <2>11. Wired'
    <3> SUFFICES ASSUME NEW i \in DOMAIN wire'
                 PROVE  IF Mine(wire[i])' THEN wire'[i].method = Asked(page') /\ wire'[i].tab = Of(page')
                        ELSE /\ KeepsTab' => wire'[i].method \notin {"create", "close"}
                             /\ KeepsAll' => wire'[i].method = "evaluate"
      BY DEF Wired
    <3>1. CASE i \in DOMAIN wire
      BY <1>1, <1>2, <2>5, <2>10, <3>1 DEF Wired
    <3>2. CASE i = Len(wire) + 1
      BY <2>3, <2>5, <2>7, <2>10, <3>2 DEF Mine
    <3> QED
      BY <2>5, <3>1, <3>2
  <2>12. Answers'
    <3>1. \A ok, value : Told(ok, value) => Told(ok, value)'
      BY <1>1, <1>2 DEF Told
    <3> QED
      BY <1>1, <2>3, <2>7, <3>1 DEF Answers, Mine
  <2>13. OnItsWay' <=> OnItsWay
    <3>1. OnItsWay => OnItsWay'
      BY <2>5, <2>10 DEF OnItsWay
    <3>2. ASSUME OnItsWay' PROVE OnItsWay
      <4>1. PICK i \in DOMAIN wire' : Mine(wire[i])'
        BY <3>2 DEF OnItsWay
      <4>2. i # Len(wire) + 1
        BY <2>3, <2>7, <2>10, <4>1 DEF Mine
      <4> QED
        BY <2>5, <2>10, <4>1, <4>2 DEF OnItsWay
    <3> QED
      BY <3>1, <3>2
  <2>14. Removed' /\ Restored' /\ Known'
    BY <1>1, <1>2, <2>13, SameBrowser
  <2> QED
    BY <2>6, <2>8, <2>9, <2>11, <2>12, <2>14 DEF PageInv
<1>5. CASE ~Usable
  <2>1. call' = [call EXCEPT !["probe"] = Outcome(FALSE, NoTab)] /\ conn' = conn /\ wire' = wire
    BY <1>1, <1>5 DEF Command
  <2>2. call'["page"] = call["page"] /\ DOMAIN call' = Callers /\ (Waits' <=> Waits)
    BY <1>2, <2>1 DEF Waits
  <2>3. PageTyped'
    BY <1>1, <2>1, <2>2 DEF PageTyped
  <2>4. Numbers'
    <3>1. \A n \in DOMAIN conn.pending :
            LET c == conn.pending[n] IN c \in Callers /\ call'[c].state = "waiting" /\ call'[c].id = n
      BY <1>2, <1>3, <2>1, <2>2
    <3> QED
      <4>1. Waits' => call'["page"].id \in 1 .. conn'.sent
        BY <1>1, <2>1, <2>2 DEF Numbers
      <4>2. conn' = conn /\ wire' = wire /\ replies' = replies /\ Numbers
        BY <1>1, <2>1
      <4> QED
        BY <3>1, <4>1, <4>2 DEF Numbers
  <2>5. Steps' /\ Wired'
    BY <1>1, <1>2, <2>1, <2>2, Zenon DEF Steps, Wired, Mine
  <2>6. Answers'
    <3>1. \A ok, value : Told(ok, value) => Told(ok, value)'
      BY <1>1, <1>2 DEF Told
    <3> QED
      BY <1>1, <2>2, <3>1 DEF Answers, Mine
  <2>7. Removed' /\ Restored' /\ Known'
    <3>1. OnItsWay' <=> OnItsWay
      BY <2>1, <2>2, Zenon DEF OnItsWay, Mine
    <3> QED
      BY <1>1, <1>2, <3>1, SameBrowser
  <2> QED
    BY <2>3, <2>4, <2>5, <2>6, <2>7 DEF PageInv
<1> QED
  BY <1>4, <1>5

LEMMA EvaluatedKeeps == ASSUME PageInv, Evaluated PROVE PageInv'
<1>1. /\ PageTyped /\ Numbers /\ Steps /\ Wired /\ Answers
      /\ conn' = conn /\ page' = page /\ wire' = wire /\ replies' = replies
      /\ guest' = guest /\ env' = env
      /\ call["probe"].state = "settled" /\ call' = [call EXCEPT !["probe"] = [state |-> "done"]]
  BY DEF PageInv, Evaluated
<1>2. /\ (KeepsTab' <=> KeepsTab) /\ (KeepsAll' <=> KeepsAll)
      /\ DOMAIN call' = Callers /\ call'["page"] = call["page"] /\ (Waits' <=> Waits)
  BY <1>1 DEF KeepsTab, KeepsAll, PageTyped, Callers, Waits
<1>3. PageTyped' /\ Steps' /\ Wired'
  BY <1>1, <1>2, Zenon DEF PageTyped, Steps, Wired, Mine
<1>4. Numbers'
  <2>1. \A n \in DOMAIN conn.pending :
          LET c == conn.pending[n] IN c \in Callers /\ call'[c].state = "waiting" /\ call'[c].id = n
    <3> SUFFICES ASSUME NEW n \in DOMAIN conn.pending
                 PROVE  LET c == conn.pending[n]
                        IN  c \in Callers /\ call'[c].state = "waiting" /\ call'[c].id = n
      OBVIOUS
    <3>1. /\ conn.pending[n] \in Callers /\ call[conn.pending[n]].state = "waiting"
          /\ call[conn.pending[n]].id = n
      BY <1>1 DEF Numbers
    <3>2. conn.pending[n] = "page"
      BY <1>1, <3>1 DEF Callers
    <3> QED
      BY <1>2, <3>1, <3>2
  <2> QED
    <3>1. Waits' => call'["page"].id \in 1 .. conn'.sent
      BY <1>1, <1>2 DEF Numbers
    <3> QED
      BY <1>1, <2>1, <3>1 DEF Numbers
<1>5. Answers'
  <2>1. \A ok, value : Told(ok, value) => Told(ok, value)'
    BY <1>1, <1>2 DEF Told
  <2> QED
    BY <1>1, <1>2, <2>1 DEF Answers, Mine
<1>6. Removed' /\ Restored' /\ Known'
  <2>1. OnItsWay' <=> OnItsWay
    BY <1>1, <1>2, Zenon DEF OnItsWay, Mine
  <2> QED
    BY <1>1, <1>2, <2>1, SameBrowser
<1> QED
  BY <1>3, <1>4, <1>5, <1>6 DEF PageInv

LEMMA ConnectFailsKeeps == ASSUME PageInv, ConnectFails PROVE PageInv'
<1>1. /\ PageTyped /\ Numbers /\ Steps /\ Wired /\ Answers /\ Removed
      /\ page.pc = "idle" /\ page' = [page EXCEPT !.pc = "failed"]
      /\ UNCHANGED <<conn, call, wire, replies, guest, env>>
  BY DEF PageInv, ConnectFails
<1>2. page' \in Pages /\ page'.pc = "failed"
  BY <1>1 DEF PageTyped, Pages, Over, Asking
<1>3. DOMAIN wire = {} /\ replies = {} /\ call["page"].state = "idle" /\ ~Waits
  BY <1>1 DEF Steps, Asking, Waits
<1>4. PageTyped'
  BY <1>1, <1>2 DEF PageTyped
<1>5. Numbers' /\ Wired' /\ Answers'
  BY <1>1, <1>3 DEF Numbers, Wired, Answers, Waits
<1>6. Steps'
  BY <1>1, <1>2, <1>3 DEF Steps, Asking, Over, Waits
<1>7. Removed' /\ Restored' /\ Known'
  BY <1>1, <1>2 DEF Removed, Restored, Known, KeepsTab
<1> QED
  BY <1>4, <1>5, <1>6, <1>7 DEF PageInv

LEMMA ConnectedKeeps == ASSUME PageInv, Connected PROVE PageInv'
<1> DEFINE m == [id |-> 1, method |-> "list", tab |-> NoTab]
<1>1. /\ PageTyped /\ Numbers /\ Steps /\ Wired /\ Answers /\ Removed
      /\ page.pc = "idle" /\ page' = [page EXCEPT !.pc = "listing"]
      /\ conn' = [conn EXCEPT !.socket = "open", !.sent = 1, !.pending = [i \in {1} |-> "page"]]
      /\ call' = [call EXCEPT !["page"] = [state |-> "waiting", method |-> "list", id |-> 1]]
      /\ wire' = <<m>>
      /\ replies' = replies /\ guest' = guest /\ env' = env
  BY DEF PageInv, Connected
<1>2. page' \in Pages /\ page'.pc = "listing" /\ page'.visible = page.visible
  BY <1>1 DEF PageTyped, Pages, Over, Asking
<1>3. /\ replies = {} /\ page.visible = NoTab /\ ~conn.closed /\ guest = env.found
      /\ "page" \in Callers
  BY <1>1 DEF Steps, Callers
<1>4. /\ call'["page"] = [state |-> "waiting", method |-> "list", id |-> 1]
      /\ DOMAIN call' = Callers
  BY <1>1, <1>3 DEF PageTyped
<1>5. /\ DOMAIN conn' = DOMAIN conn /\ conn'.socket = "open" /\ conn'.closed = conn.closed
      /\ conn'.sent = 1 /\ DOMAIN conn'.pending = {1} /\ conn'.pending[1] = "page"
  BY <1>1 DEF PageTyped
<1>6. wire' \in Seq(Commands) /\ DOMAIN wire' = {1} /\ wire'[1] = m
  BY <1>1 DEF Commands, Methods, AnyTab
<1>7. Waits' /\ Mine(wire[1])'
  BY <1>4, <1>6 DEF Waits, Mine
<1>8. PageTyped'
  BY <1>1, <1>2, <1>4, <1>5, <1>6 DEF PageTyped
<1>9. Numbers'
  BY <1>1, <1>3, <1>4, <1>5, <1>6 DEF Numbers
<1>10. Steps'
  BY <1>1, <1>2, <1>3, <1>4, <1>5 DEF Steps, Asking, Over, Asked
<1>11. Wired'
  BY <1>2, <1>6, <1>7 DEF Wired, Asked, Of
<1>12. Answers'
  BY <1>1, <1>3, <1>4 DEF Answers
<1>13. Removed' /\ Restored' /\ Known'
  BY <1>1, <1>2, <1>3 DEF Removed, Restored, Known, KeepsTab
<1> QED
  BY <1>8, <1>9, <1>10, <1>11, <1>12, <1>13 DEF PageInv

(* A caller that is told what came of its command waits for nothing.       *)
LEMMA AtIs ==
  ASSUME PageInv, NEW pc \in Asking, At(pc)
  PROVE  /\ page.pc = pc /\ ~Waits /\ ~OnItsWay /\ page.pc \notin Over \cup {"idle", "ready"}
         /\ Told(call["page"].ok, call["page"].value)
BY DEF PageInv, At, Answers, Waits, OnItsWay, Mine, Asking, Over

(* Only the place of the page's caller changes, and the browser does not.  *)
LEMMA GoesTo ==
  ASSUME PageTyped, NEW pc \in Asking \cup Over \cup {"ready"}, page' = [page EXCEPT !.pc = pc]
  PROVE  /\ page' \in Pages /\ page'.pc = pc /\ page'.target = page.target
         /\ page'.visible = page.visible /\ page'.count = page.count /\ page'.look = page.look
         /\ page'.rest = page.rest
BY DEF PageTyped, Pages

(* The loop over the tabs goes on, or the client's own tab is asked for.   *)
LEMMA InspectKeeps ==
  ASSUME PageInv, ~Waits, page.pc \in {"listing", "looking", "leaving"},
         NEW p \in Pages, InspectNext(p), UNCHANGED <<replies, guest, env>>,
         KeepsAll => /\ guest = env.found /\ p.rest \subseteq env.found.tabs
                     /\ p.count = Cardinality(env.found.tabs)
                     /\ \/ p.visible = env.found.visible
                        \/ p.visible = NoTab /\ env.found.visible \in p.rest
  PROVE  PageInv'
<1> DEFINE f == env.found
<1>1. /\ PageTyped /\ Removed /\ page.pc \notin Over \cup {"idle"}
      /\ guest' = guest /\ env' = env
      /\ (KeepsTab' <=> KeepsTab) /\ (KeepsAll' <=> KeepsAll) /\ (KeepsAll => KeepsTab)
  BY DEF PageInv, KeepsTab, KeepsAll, Over
<1>2. KeepsTab => Temporary \notin guest.tabs
  BY <1>1 DEF Removed
<1>3. CASE p.rest = {} \/ p.visible # NoTab
  <2>1. page' = [p EXCEPT !.pc = "creating", !.rest = {}, !.look = NoTab] /\ Command("page", "create", NoTab)
    BY <1>3 DEF InspectNext
  <2>2. /\ page' \in Pages /\ page'.pc = "creating" /\ page'.visible = p.visible
        /\ page'.count = p.count
    BY <2>1 DEF Pages, AnyTab, Asking
  <2>3. Asked(page') = "create" /\ Of(page') = NoTab
    BY <2>2 DEF Asked, Of
  <2>4. page'.pc \in Asking \ {"listing"} /\ "create" \in Methods /\ NoTab \in AnyTab
    BY <2>2 DEF Asking, Methods, AnyTab
  <2>5. PageTyped' /\ Numbers' /\ Steps' /\ Wired' /\ Answers' /\ (KeepsTab => OnItsWay')
    BY <1>1, <2>1, <2>2, <2>3, <2>4, AskKeeps
  <2>6. Removed'
    BY <2>2 DEF Removed
  <2>7. Restored'
    BY <1>1, <2>2, <2>5 DEF Restored
  <2>8. Known'
    BY <1>1, <1>3, <2>2 DEF Known
  <2> QED
    BY <2>5, <2>6, <2>7, <2>8 DEF PageInv
<1>4. CASE ~(p.rest = {} \/ p.visible # NoTab)
  <2>1. PICK t \in p.rest : /\ page' = [p EXCEPT !.pc = "looking", !.rest = p.rest \ {t}, !.look = t]
                            /\ Command("page", "attach", t)
    BY <1>4 DEF InspectNext
  <2>2. /\ page' \in Pages /\ page'.pc = "looking" /\ page'.visible = NoTab
        /\ page'.count = p.count /\ page'.rest = p.rest \ {t} /\ page'.look = t
        /\ t \in AnyTab
    BY <1>4, <2>1 DEF Pages, AnyTab, Asking
  <2>3. Asked(page') = "attach" /\ Of(page') = t
    BY <2>2 DEF Asked, Of
  <2>4. page'.pc \in Asking \ {"listing"} /\ "attach" \in Methods
    BY <2>2 DEF Asking, Methods
  <2>5. PageTyped' /\ Numbers' /\ Steps' /\ Wired' /\ Answers'
    BY <1>1, <2>1, <2>2, <2>3, <2>4, AskKeeps
  <2>6. Removed'
    BY <1>1, <1>2, <2>2 DEF Removed
  <2>7. Restored'
    BY <1>1, <2>2 DEF Restored
  <2>8. KeepsAll => f.visible \in p.rest
    BY <1>1, <1>4, FoundIs
  <2>9. Known'
    BY <1>1, <2>1, <2>2, <2>8 DEF Known
  <2> QED
    BY <2>5, <2>6, <2>7, <2>9 DEF PageInv
<1> QED
  BY <1>3, <1>4

LEMMA ListFailsKeeps == ASSUME PageInv, ListFails, UNCHANGED <<replies, guest, env>> PROVE PageInv'
<1>1. /\ PageTyped /\ Numbers /\ Steps /\ Wired /\ Answers /\ Removed
      /\ page' = [page EXCEPT !.pc = "failed"] /\ call' = [call EXCEPT !["page"] = Idle]
      /\ At("listing") /\ UNCHANGED <<conn, wire, replies, guest, env>>
  BY DEF PageInv, ListFails
<1>2. "failed" \in Asking \cup Over \cup {"ready"} /\ "listing" \in Asking
  BY DEF Over, Asking
<1>3. page.pc = "listing" /\ ~Waits
  BY <1>1, <1>2, AtIs
<1>4. page' \in Pages /\ page'.pc = "failed"
  BY <1>1, <1>2, GoesTo
<1>5. /\ call'["page"] = Idle /\ DOMAIN call' = Callers
      /\ \A c \in Callers : c # "page" => call'[c] = call[c]
  BY <1>1 DEF PageTyped, Callers
<1>6. ~Waits' /\ call'["page"].state = "idle"
  BY <1>5 DEF Waits, Idle
<1>7. PageTyped'
  BY <1>1, <1>4, <1>5 DEF PageTyped
<1>8. Numbers'
  <2>1. \A n \in DOMAIN conn.pending :
          LET c == conn.pending[n] IN c \in Callers /\ call'[c].state = "waiting" /\ call'[c].id = n
    <3> SUFFICES ASSUME NEW n \in DOMAIN conn.pending
                 PROVE  LET c == conn.pending[n]
                        IN  c \in Callers /\ call'[c].state = "waiting" /\ call'[c].id = n
      OBVIOUS
    <3>1. /\ conn.pending[n] \in Callers /\ call[conn.pending[n]].state = "waiting"
          /\ call[conn.pending[n]].id = n
      BY <1>1 DEF Numbers
    <3>2. conn.pending[n] # "page"
      BY <1>3, <3>1 DEF Waits
    <3> QED
      BY <1>5, <3>1, <3>2
  <2>2. conn' = conn /\ wire' = wire /\ replies' = replies /\ Numbers
    BY <1>1
  <2> QED
    BY <1>6, <2>1, <2>2 DEF Numbers
<1>9. Steps'
  BY <1>4, <1>6 DEF Steps, Asking, Over
<1>10. Wired' /\ Answers'
  BY <1>1, <1>3, <1>6 DEF Wired, Answers, Mine, KeepsTab, KeepsAll
<1>11. Removed' /\ Restored' /\ Known'
  BY <1>1, <1>3, <1>4 DEF Removed, Restored, Known, KeepsTab
<1> QED
  BY <1>7, <1>8, <1>9, <1>10, <1>11 DEF PageInv

LEMMA ListedKeeps == ASSUME PageInv, Listed, UNCHANGED <<replies, guest, env>> PROVE PageInv'
<1> DEFINE p == [page EXCEPT !.rest = call["page"].value, !.count = Cardinality(call["page"].value)]
<1>1. /\ PageTyped /\ Steps /\ Restored
      /\ At("listing") /\ "listing" \in Asking /\ call["page"].ok /\ InspectNext(p)
  BY DEF PageInv, Listed, Ok, Value, Asking
<1>2. /\ page.pc = "listing" /\ ~Waits /\ page.visible = NoTab
      /\ call["page"].value \in SUBSET (Tabs \cup {Temporary})
      /\ KeepsAll => call["page"].value = env.found.tabs /\ guest = env.found
  BY <1>1, AtIs DEF Told, Steps, Restored
<1>3. Cardinality(call["page"].value) \in Nat
  <2>1. IsFiniteSet(Tabs \cup {Temporary})
    BY CdpAssumption, FS_AddElement
  <2> QED
    BY <1>2, <2>1, FS_Subset, FS_CardinalityType
<1>4. /\ p \in Pages /\ p.rest = call["page"].value /\ p.visible = NoTab
      /\ p.count = Cardinality(call["page"].value)
  BY <1>1, <1>2, <1>3 DEF PageTyped, Pages
<1>5. KeepsAll => /\ guest = env.found /\ p.rest \subseteq env.found.tabs
                  /\ p.count = Cardinality(env.found.tabs)
                  /\ \/ p.visible = env.found.visible
                     \/ p.visible = NoTab /\ env.found.visible \in p.rest
  BY <1>1, <1>2, <1>4, FoundIs
<1> HIDE DEF p
<1> QED
  BY <1>1, <1>2, <1>4, <1>5, InspectKeeps

LEMMA LookFailsKeeps == ASSUME PageInv, LookFails, UNCHANGED <<replies, guest, env>> PROVE PageInv'
<1>1. /\ PageTyped /\ At("looking") /\ "looking" \in Asking /\ ~call["page"].ok /\ InspectNext(page)
  BY DEF PageInv, LookFails, Ok, Asking
<1>2. page.pc = "looking" /\ ~Waits /\ ~KeepsAll /\ page \in Pages
  BY <1>1, AtIs DEF Told, PageTyped
<1> QED
  BY <1>1, <1>2, InspectKeeps

LEMMA LooksKeeps == ASSUME PageInv, Looks, UNCHANGED <<replies, guest, env>> PROVE PageInv'
<1>1. /\ PageTyped /\ Removed /\ Restored /\ Known
      /\ At("looking") /\ "looking" \in Asking /\ "seeing" \in Asking \ {"listing"}
      /\ page' = [page EXCEPT !.pc = "seeing"] /\ Command("page", "evaluate", page.look)
      /\ guest' = guest /\ env' = env /\ (KeepsTab' <=> KeepsTab) /\ (KeepsAll' <=> KeepsAll)
  BY DEF PageInv, Looks, Ask, Asking, KeepsTab, KeepsAll
<1>2. page.pc = "looking" /\ ~Waits /\ page.pc \notin Over \cup {"idle"}
  BY <1>1, AtIs
<1>3. /\ page' \in Pages /\ page'.pc = "seeing" /\ page'.visible = page.visible
      /\ page'.count = page.count /\ page'.look = page.look /\ page'.rest = page.rest
  BY <1>1, GoesTo
<1>4. Asked(page') = "evaluate" /\ Of(page') = page.look
  BY <1>3 DEF Asked, Of
<1>5. "evaluate" \in Methods /\ page.look \in AnyTab
  BY <1>1 DEF Methods, PageTyped, Pages
<1>6. PageTyped' /\ Numbers' /\ Steps' /\ Wired' /\ Answers'
  BY <1>1, <1>2, <1>3, <1>4, <1>5, AskKeeps
<1>7. Removed' /\ Restored' /\ Known'
  BY <1>1, <1>2, <1>3 DEF Removed, Restored, Known
<1> QED
  BY <1>6, <1>7 DEF PageInv

LEMMA SeenKeeps == ASSUME PageInv, Seen, UNCHANGED <<replies, guest, env>> PROVE PageInv'
<1> DEFINE v == IF call["page"].ok /\ call["page"].value = TRUE THEN page.look ELSE page.visible
<1>1. /\ PageTyped /\ Removed /\ Restored /\ Known
      /\ At("seeing") /\ "seeing" \in Asking
      /\ page' = [page EXCEPT !.pc = "leaving", !.visible = v] /\ Command("page", "detach", page.look)
      /\ guest' = guest /\ env' = env /\ (KeepsTab' <=> KeepsTab) /\ (KeepsAll' <=> KeepsAll)
  BY DEF PageInv, Seen, Asking, KeepsTab, KeepsAll, Ok, Value
<1>2. /\ page.pc = "seeing" /\ ~Waits /\ page.pc \notin Over \cup {"idle"}
      /\ KeepsAll => call["page"].ok /\ call["page"].value = (env.found.visible = page.look)
  BY <1>1, AtIs DEF Told
<1>3. v \in AnyTab
  BY <1>1 DEF PageTyped, Pages
<1>4. KeepsAll => v = env.found.visible \/ (v = NoTab /\ env.found.visible \in page.rest)
  BY <1>1, <1>2 DEF Known
<1> HIDE DEF v
<1>5. /\ page' \in Pages /\ page'.pc = "leaving" /\ page'.visible = v
      /\ page'.count = page.count /\ page'.look = page.look /\ page'.rest = page.rest
  BY <1>1, <1>3 DEF PageTyped, Pages, Asking
<1>6. Asked(page') = "detach" /\ Of(page') = page.look
  BY <1>5 DEF Asked, Of
<1>7. /\ "detach" \in Methods /\ page.look \in AnyTab /\ "leaving" \in Asking \ {"listing"}
  BY <1>1 DEF Methods, PageTyped, Pages, Asking
<1>8. PageTyped' /\ Numbers' /\ Steps' /\ Wired' /\ Answers'
  BY <1>1, <1>2, <1>5, <1>6, <1>7, AskKeeps
<1>9. Removed' /\ Restored' /\ Known'
  BY <1>1, <1>2, <1>4, <1>5 DEF Removed, Restored, Known
<1> QED
  BY <1>8, <1>9 DEF PageInv

LEMMA LeftKeeps == ASSUME PageInv, Left, UNCHANGED <<replies, guest, env>> PROVE PageInv'
<1>1. /\ PageTyped /\ Restored /\ Known /\ At("leaving") /\ "leaving" \in Asking /\ InspectNext(page)
  BY DEF PageInv, Left, Asking
<1>2. page.pc = "leaving" /\ ~Waits /\ page \in Pages
  BY <1>1, AtIs DEF PageTyped
<1>3. KeepsAll => /\ guest = env.found /\ page.rest \subseteq env.found.tabs
                  /\ page.count = Cardinality(env.found.tabs)
                  /\ \/ page.visible = env.found.visible
                     \/ page.visible = NoTab /\ env.found.visible \in page.rest
  BY <1>1, <1>2 DEF Restored, Known
<1> QED
  BY <1>1, <1>2, <1>3, InspectKeeps

LEMMA CreatedKeeps == ASSUME PageInv, Created, UNCHANGED <<replies, guest, env>> PROVE PageInv'
<1>1. /\ PageTyped /\ Restored /\ Known
      /\ At("creating") /\ "creating" \in Asking /\ call["page"].ok
      /\ page' = [page EXCEPT !.pc = "attaching", !.target = call["page"].value]
      /\ Command("page", "attach", call["page"].value)
      /\ guest' = guest /\ env' = env /\ (KeepsAll' <=> KeepsAll)
  BY DEF PageInv, Created, Asking, KeepsAll, Ok, Value
<1>2. /\ page.pc = "creating" /\ ~Waits /\ ~OnItsWay /\ page.pc \notin Over \cup {"idle"}
      /\ call["page"].value = Temporary
  BY <1>1, AtIs DEF Told
<1>3. /\ page' \in Pages /\ page'.pc = "attaching" /\ page'.target = Temporary
      /\ page'.visible = page.visible /\ page'.count = page.count
  BY <1>1, <1>2 DEF PageTyped, Pages, Asking, AnyTab
<1>4. Asked(page') = "attach" /\ Of(page') = Temporary
  BY <1>3 DEF Asked, Of
<1>5. "attach" \in Methods /\ Temporary \in AnyTab /\ "attaching" \in Asking \ {"listing"}
  BY DEF Methods, AnyTab, Asking
<1>6. PageTyped' /\ Numbers' /\ Steps' /\ Wired' /\ Answers'
  BY <1>1, <1>2, <1>3, <1>4, <1>5, AskKeeps
<1>7. Removed' /\ Restored' /\ Known'
  BY <1>1, <1>2, <1>3 DEF Removed, Restored, Known, Opened
<1> QED
  BY <1>6, <1>7 DEF PageInv

LEMMA CreateFailsKeeps == ASSUME PageInv, CreateFails, UNCHANGED <<replies, guest, env>> PROVE PageInv'
<1>1. /\ PageTyped /\ Known
      /\ At("creating") /\ "creating" \in Asking /\ ~call["page"].ok /\ CloseConnection("failed")
      /\ page' = [page EXCEPT !.pc = "failed"] /\ "failed" \in Over
      /\ guest' = guest /\ env' = env /\ (KeepsTab' <=> KeepsTab)
  BY DEF PageInv, CreateFails, CloseConnection, Asking, Over, KeepsTab, Ok
<1>2. page.pc = "creating" /\ ~Waits /\ ~KeepsTab
  BY <1>1, AtIs DEF Told
<1>3. page'.pc = "failed"
  BY <1>1, GoesTo
<1>4. PageTyped' /\ Numbers' /\ Steps' /\ Wired' /\ Answers'
  BY <1>1, <1>2, CloseKeeps
<1>5. Removed' /\ Restored' /\ Known'
  BY <1>1, <1>2, <1>3 DEF Removed, Restored, Known
<1> QED
  BY <1>4, <1>5 DEF PageInv

LEMMA AttachedKeeps == ASSUME PageInv, Attached, UNCHANGED <<replies, guest, env>> PROVE PageInv'
<1>1. /\ PageTyped /\ Numbers /\ Steps /\ Wired /\ Answers /\ Restored /\ Known
      /\ page' = [page EXCEPT !.pc = "ready"] /\ call' = [call EXCEPT !["page"] = Idle]
      /\ At("attaching") /\ UNCHANGED <<conn, wire, replies, guest, env>>
      /\ (KeepsTab' <=> KeepsTab) /\ (KeepsAll' <=> KeepsAll)
  BY DEF PageInv, Attached, KeepsTab, KeepsAll
<1>2. "ready" \in Asking \cup Over \cup {"ready"} /\ "attaching" \in Asking
  BY DEF Over, Asking
<1>3. page.pc = "attaching" /\ ~Waits /\ page.pc \notin Over \cup {"idle"}
  BY <1>1, <1>2, AtIs
<1>4. /\ page' \in Pages /\ page'.pc = "ready" /\ page'.target = page.target
      /\ page'.visible = page.visible /\ page'.count = page.count
  BY <1>1, <1>2, GoesTo
<1>5. /\ call'["page"] = Idle /\ DOMAIN call' = Callers
      /\ \A c \in Callers : c # "page" => call'[c] = call[c]
  BY <1>1 DEF PageTyped, Callers
<1>6. ~Waits' /\ call'["page"].state = "idle"
  BY <1>5 DEF Waits, Idle
<1>7. PageTyped'
  BY <1>1, <1>4, <1>5 DEF PageTyped
<1>8. Numbers'
  <2>1. \A n \in DOMAIN conn.pending :
          LET c == conn.pending[n] IN c \in Callers /\ call'[c].state = "waiting" /\ call'[c].id = n
    <3> SUFFICES ASSUME NEW n \in DOMAIN conn.pending
                 PROVE  LET c == conn.pending[n]
                        IN  c \in Callers /\ call'[c].state = "waiting" /\ call'[c].id = n
      OBVIOUS
    <3>1. /\ conn.pending[n] \in Callers /\ call[conn.pending[n]].state = "waiting"
          /\ call[conn.pending[n]].id = n
      BY <1>1 DEF Numbers
    <3>2. conn.pending[n] # "page"
      BY <1>3, <3>1 DEF Waits
    <3> QED
      BY <1>5, <3>1, <3>2
  <2>2. conn' = conn /\ wire' = wire /\ replies' = replies /\ Numbers
    BY <1>1
  <2> QED
    BY <1>6, <2>1, <2>2 DEF Numbers
<1>9. Steps'
  BY <1>1, <1>3, <1>4, <1>6 DEF Steps, Asking, Over
<1>10. Wired' /\ Answers'
  BY <1>1, <1>3, <1>6 DEF Wired, Answers, Mine, KeepsTab, KeepsAll
<1>11. Removed' /\ Restored' /\ Known'
  BY <1>1, <1>3, <1>4 DEF Removed, Restored, Known, Opened
<1> QED
  BY <1>7, <1>8, <1>9, <1>10, <1>11 DEF PageInv

LEMMA AttachFailsKeeps == ASSUME PageInv, AttachFails, UNCHANGED <<replies, guest, env>> PROVE PageInv'
<1>1. /\ PageTyped /\ Steps /\ Known
      /\ At("attaching") /\ "attaching" \in Asking /\ ~call["page"].ok
      /\ page' = [page EXCEPT !.pc = "undoing"] /\ Command("page", "close", page.target)
      /\ "undoing" \in Asking \ {"listing"}
      /\ guest' = guest /\ env' = env /\ (KeepsAll' <=> KeepsAll)
  BY DEF PageInv, AttachFails, Ask, Asking, KeepsAll, Ok
<1>2. /\ page.pc = "attaching" /\ ~Waits /\ page.pc \notin Over \cup {"idle"} /\ ~KeepsAll
      /\ page.target = Temporary
  BY <1>1, AtIs DEF Told, Steps
<1>3. page' \in Pages /\ page'.pc = "undoing" /\ page'.target = Temporary
  BY <1>1, <1>2, GoesTo
<1>4. Asked(page') = "close" /\ Of(page') = Temporary
  BY <1>3 DEF Asked, Of
<1>5. "close" \in Methods /\ Temporary \in AnyTab
  BY DEF Methods, AnyTab
<1>6. PageTyped' /\ Numbers' /\ Steps' /\ Wired' /\ Answers'
  BY <1>1, <1>2, <1>3, <1>4, <1>5, AskKeeps
<1>7. Removed' /\ Restored' /\ Known'
  BY <1>1, <1>2, <1>3 DEF Removed, Restored, Known
<1> QED
  BY <1>6, <1>7 DEF PageInv

LEMMA UndoneKeeps == ASSUME PageInv, Undone, UNCHANGED <<replies, guest, env>> PROVE PageInv'
<1>1. /\ PageTyped
      /\ At("undoing") /\ "undoing" \in Asking /\ CloseConnection("failed")
      /\ page' = [page EXCEPT !.pc = "failed"] /\ "failed" \in Over
      /\ guest' = guest /\ env' = env /\ (KeepsTab' <=> KeepsTab)
  BY DEF PageInv, Undone, CloseConnection, Asking, Over, KeepsTab
<1>2. page.pc = "undoing" /\ ~Waits /\ (KeepsTab => Temporary \notin guest.tabs)
  BY <1>1, AtIs DEF Told
<1>3. page'.pc = "failed"
  BY <1>1, GoesTo
<1>4. PageTyped' /\ Numbers' /\ Steps' /\ Wired' /\ Answers'
  BY <1>1, <1>2, CloseKeeps
<1>5. Removed' /\ Restored' /\ Known'
  BY <1>1, <1>2, <1>3 DEF Removed, Restored, Known
<1> QED
  BY <1>4, <1>5 DEF PageInv

(* While the client's tab is open its commands change nothing.             *)
LEMMA TabStays ==
  ASSUME PageInv, ~Waits, page.pc \in {"ready", "blanking", "detaching"},
         NEW pc \in {"blanking", "detaching"}, NEW m \in {"navigate", "detach"},
         pc = "blanking" <=> m = "navigate",
         Ask(pc, m, page.target), UNCHANGED <<replies, guest, env>>
  PROVE  PageInv'
<1>1. /\ PageTyped /\ Steps /\ Restored /\ Known
      /\ page' = [page EXCEPT !.pc = pc] /\ Command("page", m, page.target)
      /\ pc \in Asking \ {"listing"} /\ page.pc \notin Over \cup {"idle"}
      /\ guest' = guest /\ env' = env /\ (KeepsAll' <=> KeepsAll)
  BY DEF PageInv, Ask, Asking, Over, KeepsAll
<1>2. /\ page' \in Pages /\ page'.pc = pc /\ page'.target = Temporary /\ page.target = Temporary
      /\ page'.visible = page.visible /\ page'.count = page.count
  BY <1>1, GoesTo DEF Steps
<1>3. Asked(page') = m /\ Of(page') = Temporary
  BY <1>2 DEF Asked, Of
<1>4. m \in Methods /\ Temporary \in AnyTab
  BY DEF Methods, AnyTab
<1>5. PageTyped' /\ Numbers' /\ Steps' /\ Wired' /\ Answers'
  BY <1>1, <1>2, <1>3, <1>4, AskKeeps
<1>6. Removed' /\ Restored' /\ Known'
  BY <1>1, <1>2 DEF Removed, Restored, Known, Opened
<1> QED
  BY <1>5, <1>6 DEF PageInv

LEMMA ClosePageKeeps == ASSUME PageInv, ClosePage PROVE PageInv'
<1>1. /\ page.pc = "ready" /\ UNCHANGED <<replies, guest, env>>
      /\ \/ Ask("blanking", "navigate", page.target)
         \/ Ask("detaching", "detach", page.target)
  BY DEF ClosePage
<1>2. ~Waits
  BY <1>1 DEF PageInv, Steps, Waits, Asking
<1> QED
  BY <1>1, <1>2, TabStays

LEMMA BlankedKeeps == ASSUME PageInv, Blanked, UNCHANGED <<replies, guest, env>> PROVE PageInv'
<1>1. At("blanking") /\ "blanking" \in Asking /\ Ask("detaching", "detach", page.target)
  BY DEF Blanked, Asking
<1>2. page.pc = "blanking" /\ ~Waits
  BY <1>1, AtIs
<1> QED
  BY <1>1, <1>2, TabStays

LEMMA DetachedKeeps == ASSUME PageInv, Detached, UNCHANGED <<replies, guest, env>> PROVE PageInv'
<1>1. /\ PageTyped /\ Steps /\ Restored /\ Known
      /\ At("detaching") /\ "detaching" \in Asking
      /\ guest' = guest /\ env' = env /\ (KeepsTab' <=> KeepsTab) /\ (KeepsAll' <=> KeepsAll)
      /\ KeepsAll => KeepsTab
  BY DEF PageInv, Detached, Asking, KeepsTab, KeepsAll
<1>2. /\ page.pc = "detaching" /\ ~Waits /\ page.pc \notin Over \cup {"idle"}
      /\ page.target = Temporary
  BY <1>1, AtIs DEF Steps
<1>3. KeepsAll => /\ guest = Opened(env.found) /\ page.visible = env.found.visible
                  /\ page.count = Cardinality(env.found.tabs)
                  /\ (page.count = 0 <=> env.found.tabs = {})
  BY <1>1, <1>2, FoundIs DEF Restored, Known
<1>4. CASE page.count = 0
  <2>1. /\ CloseConnection("done") /\ page' = [page EXCEPT !.pc = "done"]
        /\ "done" \in Over
    BY <1>4 DEF Detached, PreserveAsLastPage, CloseConnection, Over
  <2>2. page'.pc = "done" /\ page'.count = page.count
    BY <1>1, <2>1, GoesTo
  <2>3. PageTyped' /\ Numbers' /\ Steps' /\ Wired' /\ Answers'
    BY <1>1, <1>2, <2>1, CloseKeeps
  <2>4. Removed' /\ Restored' /\ Known'
    BY <1>1, <1>3, <1>4, <2>2 DEF Removed, Restored, Known, Opened
  <2> QED
    BY <2>3, <2>4 DEF PageInv
<1>5. CASE page.count # 0
  <2>1. /\ page' = [page EXCEPT !.pc = "closing"] /\ Command("page", "close", page.target)
        /\ "closing" \in Asking \ {"listing"}
    BY <1>5 DEF Detached, PreserveAsLastPage, Ask, Asking
  <2>2. /\ page' \in Pages /\ page'.pc = "closing" /\ page'.target = Temporary
        /\ page'.visible = page.visible /\ page'.count = page.count
    BY <1>1, <1>2, <2>1, GoesTo
  <2>3. Asked(page') = "close" /\ Of(page') = Temporary
    BY <2>2 DEF Asked, Of
  <2>4. "close" \in Methods /\ Temporary \in AnyTab
    BY DEF Methods, AnyTab
  <2>5. PageTyped' /\ Numbers' /\ Steps' /\ Wired' /\ Answers' /\ (KeepsTab => OnItsWay')
    BY <1>1, <1>2, <2>1, <2>2, <2>3, <2>4, AskKeeps
  <2>6. Removed' /\ Restored' /\ Known'
    BY <1>1, <1>3, <1>5, <2>2, <2>5 DEF Removed, Restored, Known, Opened
  <2> QED
    BY <2>5, <2>6 DEF PageInv
<1> QED
  BY <1>4, <1>5

LEMMA TabClosedKeeps == ASSUME PageInv, TabClosed, UNCHANGED <<replies, guest, env>> PROVE PageInv'
<1>1. /\ PageTyped /\ Steps /\ Restored /\ Known
      /\ At("closing") /\ "closing" \in Asking
      /\ guest' = guest /\ env' = env /\ (KeepsTab' <=> KeepsTab) /\ (KeepsAll' <=> KeepsAll)
      /\ KeepsAll => KeepsTab
  BY DEF PageInv, TabClosed, Asking, KeepsTab, KeepsAll
<1>2. /\ page.pc = "closing" /\ ~Waits /\ ~OnItsWay /\ page.pc \notin Over \cup {"idle"}
      /\ page.target = Temporary /\ (KeepsTab => Temporary \notin guest.tabs)
  BY <1>1, AtIs DEF Steps, Told
<1>3. KeepsAll => /\ guest.tabs = env.found.tabs /\ env.found.tabs # {}
                  /\ page.visible = env.found.visible /\ page.visible # NoTab
                  /\ page.count = Cardinality(env.found.tabs)
  BY <1>1, <1>2, FoundIs DEF Restored, Known
<1>4. CASE page.visible = NoTab
  <2>1. CloseConnection("done") /\ page' = [page EXCEPT !.pc = "done"] /\ "done" \in Over
    BY <1>4 DEF TabClosed, CloseConnection, Over
  <2>2. page'.pc = "done"
    BY <1>1, <2>1, GoesTo
  <2>3. PageTyped' /\ Numbers' /\ Steps' /\ Wired' /\ Answers'
    BY <1>1, <1>2, <2>1, CloseKeeps
  <2>4. Removed' /\ Restored' /\ Known'
    BY <1>1, <1>2, <1>3, <1>4, <2>2 DEF Removed, Restored, Known
  <2> QED
    BY <2>3, <2>4 DEF PageInv
<1>5. CASE page.visible # NoTab
  <2>1. /\ page' = [page EXCEPT !.pc = "activating"] /\ Command("page", "activate", page.visible)
        /\ "activating" \in Asking \ {"listing"}
    BY <1>5 DEF TabClosed, Ask, Asking
  <2>2. /\ page' \in Pages /\ page'.pc = "activating" /\ page'.target = Temporary
        /\ page'.visible = page.visible /\ page'.count = page.count
    BY <1>1, <1>2, <2>1, GoesTo
  <2>3. Asked(page') = "activate" /\ Of(page') = page.visible
    BY <2>2 DEF Asked, Of
  <2>4. "activate" \in Methods /\ page.visible \in AnyTab
    BY <1>1 DEF Methods, PageTyped, Pages
  <2>5. PageTyped' /\ Numbers' /\ Steps' /\ Wired' /\ Answers' /\ (KeepsTab => OnItsWay')
    BY <1>1, <1>2, <2>1, <2>2, <2>3, <2>4, AskKeeps
  <2>6. Removed' /\ Restored' /\ Known'
    BY <1>1, <1>2, <1>3, <2>2, <2>5 DEF Removed, Restored, Known
  <2> QED
    BY <2>5, <2>6 DEF PageInv
<1> QED
  BY <1>4, <1>5

LEMMA ActivatedKeeps == ASSUME PageInv, Activated, UNCHANGED <<replies, guest, env>> PROVE PageInv'
<1>1. /\ PageTyped /\ Removed /\ Restored /\ Known
      /\ At("activating") /\ "activating" \in Asking /\ CloseConnection("done")
      /\ page' = [page EXCEPT !.pc = "done"] /\ "done" \in Over
      /\ guest' = guest /\ env' = env /\ (KeepsTab' <=> KeepsTab) /\ (KeepsAll' <=> KeepsAll)
  BY DEF PageInv, Activated, CloseConnection, Asking, Over, KeepsTab, KeepsAll
<1>2. page.pc = "activating" /\ ~Waits /\ ~OnItsWay
  BY <1>1, AtIs
<1>3. page'.pc = "done" /\ page'.count = page.count
  BY <1>1, GoesTo
<1>4. PageTyped' /\ Numbers' /\ Steps' /\ Wired' /\ Answers'
  BY <1>1, <1>2, CloseKeeps
<1>5. Removed' /\ Restored' /\ Known'
  BY <1>1, <1>2, <1>3 DEF Removed, Restored, Known
<1> QED
  BY <1>4, <1>5 DEF PageInv

LEMMA PageIdle == ASSUME PageInv, UNCHANGED cdpVars PROVE PageInv'
<1>1. /\ conn' = conn /\ call' = call /\ page' = page /\ wire' = wire /\ replies' = replies
      /\ guest' = guest /\ env' = env
  BY DEF cdpVars
<1>2. /\ (KeepsTab' <=> KeepsTab) /\ (KeepsAll' <=> KeepsAll) /\ (Waits' <=> Waits)
      /\ (OnItsWay' <=> OnItsWay)
  BY <1>1, Zenon DEF KeepsTab, KeepsAll, Waits, OnItsWay, Mine
<1>3. Removed' /\ Restored' /\ Known'
  BY <1>1, <1>2, SameBrowser
<1>4. PageTyped' /\ Steps'
  BY <1>1, <1>2, Zenon DEF PageInv, PageTyped, Steps
<1>5. Numbers'
  BY <1>1, <1>2 DEF PageInv, Numbers
<1>6. Wired' /\ Answers'
  <2>1. \A ok, value : Told(ok, value) => Told(ok, value)'
    BY <1>1, <1>2 DEF Told
  <2>2. Wired'
    BY <1>1, <1>2, Zenon DEF PageInv, Wired, Mine
  <2> QED
    BY <1>1, <1>2, <2>1, <2>2 DEF PageInv, Answers, Mine
<1> QED
  BY <1>3, <1>4, <1>5, <1>6 DEF PageInv

LEMMA PageInvariance == CdpSpec => []PageInv
<1>1. PageInv /\ [CdpNext]_cdpVars => PageInv'
  <2> SUFFICES ASSUME PageInv, [CdpNext]_cdpVars PROVE PageInv'
    OBVIOUS
  <2>1. CASE ConnectFails
    BY <2>1, ConnectFailsKeeps
  <2>2. CASE Connected
    BY <2>2, ConnectedKeeps
  <2>3. CASE PageStep
    <3>1. UNCHANGED <<replies, guest, env>>
      BY <2>3 DEF PageStep
    <3>2. \/ ListFails \/ Listed \/ LookFails \/ Looks \/ Seen \/ Left
          \/ Created \/ CreateFails \/ Attached \/ AttachFails \/ Undone
          \/ Blanked \/ Detached \/ TabClosed \/ Activated
      BY <2>3 DEF PageStep
    <3> QED
      BY <3>1, <3>2, ListFailsKeeps, ListedKeeps, LookFailsKeeps, LooksKeeps, SeenKeeps, LeftKeeps,
         CreatedKeeps, CreateFailsKeeps, AttachedKeeps, AttachFailsKeeps, UndoneKeeps,
         BlankedKeeps, DetachedKeeps, TabClosedKeeps, ActivatedKeeps
  <2>4. CASE Evaluate \/ Evaluated \/ ClosePage
    BY <2>4, EvaluateKeeps, EvaluatedKeeps, ClosePageKeeps
  <2>5. CASE \E r \in replies : Answer(r)
    BY <2>5, AnswerKeeps
  <2>6. CASE \E id \in DOMAIN conn.pending : TimeOut(id)
    BY <2>6, TimeOutKeeps
  <2>7. CASE SocketEnds
    BY <2>7, SocketEndsKeeps
  <2>8. CASE BrowserExecutes
    BY <2>8, ExecuteKeeps
  <2>9. CASE \E t \in Tabs \cup {Temporary} : SomebodyCloses(t)
    BY <2>9, SomebodyClosesKeeps
  <2>10. CASE UNCHANGED cdpVars
    BY <2>10, PageIdle
  <2> QED
    BY <2>1, <2>2, <2>3, <2>4, <2>5, <2>6, <2>7, <2>8, <2>9, <2>10 DEF CdpNext
<1> QED
  BY <1>1, PageInit, PTL DEF CdpSpec

(* LeavesBrowserAsFound, whatever tabs there are and whatever is lost.     *)
THEOREM LeavesTheorem == CdpSpec => []LeavesBrowserAsFound
<1>1. PageInv => LeavesBrowserAsFound
  <2> SUFFICES ASSUME PageInv, page.pc \in {"failed", "done"}
               PROVE  /\ Temporary \in guest.tabs =>
                           \/ env.lost \cap {"create", "close", "socket"} # {}
                           \/ page.pc = "done" /\ page.count = 0
                      /\ page.pc = "done" /\ env.lost = {} /\ env.closed = 0 =>
                           IF env.found.tabs = {} THEN guest.tabs = {Temporary}
                                                  ELSE guest = env.found
    BY DEF LeavesBrowserAsFound
  <2>1. /\ Temporary \in guest.tabs =>
             \/ env.lost \cap {"create", "close", "socket"} # {}
             \/ page.pc = "done" /\ page.count = 0
    BY DEF PageInv, Removed, KeepsTab
  <2>2. page.pc = "done" /\ env.lost = {} /\ env.closed = 0 =>
          guest = IF env.found.tabs = {} THEN Opened(env.found) ELSE env.found
    BY DEF PageInv, Restored, KeepsAll
  <2>3. env.found.tabs = {} => Opened(env.found).tabs = {Temporary}
    BY DEF Opened
  <2> QED
    BY <2>1, <2>2, <2>3
<1> QED
  BY <1>1, PageInvariance, PTL
=============================================================================
