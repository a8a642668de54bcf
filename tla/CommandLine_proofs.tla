-------------------------- MODULE CommandLine_proofs --------------------------
(***************************************************************************)
(* Proofs about the parts of the command line that rest on its directory   *)
(* locks: the locks themselves (MkdirLock) and the restore of a set whose  *)
(* host was lost (Reconciliation), for any processes, clients, names and   *)
(* state namespaces.                                                       *)
(***************************************************************************)
EXTENDS MkdirLock, Reconciliation, Integers, TLAPS


(***************************************************************************)
(* The inductive strengthening of ExclusiveUntilStale.  Before any         *)
(* directory has been 90 s old, nobody is on the way to removing a         *)
(* directory it did not make, and a process past mkdir still owns the one  *)
(* it made.                                                                *)
(***************************************************************************)
FreshLock ==
  lock # None => /\ ~ lock.old
                 /\ pc[lock.maker] \in {"writeOwner", "undoFailed", "critical", "dead"}

MakerStillOwns ==
  \A p \in Procs :
    /\ pc[p] \in {"writeOwner", "undoFailed", "critical"} => lock # None /\ lock.maker = p
    /\ pc[p] = "writeOwner" => lock.owner = None
    /\ pc[p] = "critical" => lock.owner = p

NobodyBreaks == \A p \in Procs : pc[p] \notin {"readOwner", "break", "undoExists"}

FreshInv == aged = "never" => FreshLock /\ MakerStillOwns /\ NobodyBreaks

\* Types are kept by every step of every process.
THEOREM TypeCorrect == Spec => []TypeOK
<1> USE NoneAssumption, MaxOpsAssumption DEF TypeOK, LockDir, Locations, Acquiring, AgeHistory
<1>1. Init => TypeOK
  BY DEF Init
<1>2. TypeOK /\ [Next]_vars => TypeOK'
  <2> SUFFICES ASSUME TypeOK, [Next]_vars PROVE TypeOK'
    OBVIOUS
  <2>1. ASSUME NEW p \in Procs, Begin(p) PROVE TypeOK'
    BY <2>1 DEF Begin, Goto
  <2>2. ASSUME NEW p \in Procs, Mkdir(p) PROVE TypeOK'
    <3>1. CASE lock = None
      <4>1. lock' = [maker |-> p, owner |-> None, old |-> FALSE]
        BY <2>2, <3>1 DEF Mkdir
      <4>2. lock' \in LockDir
        BY <4>1
      <4> QED
        BY <2>2, <3>1, <4>2 DEF Mkdir, Goto
    <3>2. CASE lock # None
      BY <2>2, <3>2 DEF Mkdir, Goto
    <3> QED
      BY <3>1, <3>2
  <2>3. ASSUME NEW p \in Procs, WriteOwner(p) PROVE TypeOK'
    BY <2>3 DEF WriteOwner, Goto
  <2>4. ASSUME NEW p \in Procs, UndoMkdir(p) PROVE TypeOK'
    BY <2>4 DEF UndoMkdir, Goto
  <2>5. ASSUME NEW p \in Procs, Stat(p) PROVE TypeOK'
    BY <2>5 DEF Stat, Goto
  <2>6. ASSUME NEW p \in Procs, ReadOwner(p) PROVE TypeOK'
    BY <2>6 DEF ReadOwner, Goto
  <2>7. ASSUME NEW p \in Procs, Break(p) PROVE TypeOK'
    BY <2>7 DEF Break, Goto
  <2>8. ASSUME NEW p \in Procs, CheckDeadline(p) PROVE TypeOK'
    BY <2>8 DEF CheckDeadline, Goto
  <2>9. ASSUME NEW p \in Procs, Unlock(p) PROVE TypeOK'
    BY <2>9 DEF Unlock, Goto
  <2>10. ASSUME NEW p \in Procs, Throw(p) \/ Crash(p) PROVE TypeOK'
    BY <2>10 DEF Throw, Crash, Goto
  <2>11. ASSUME NEW p \in Procs, ExpireDeadline(p) PROVE TypeOK'
    BY <2>11 DEF ExpireDeadline
  <2>12. CASE Age
    BY <2>12 DEF Age
  <2>13. CASE UNCHANGED vars
    BY <2>13 DEF vars
  <2> QED
    BY <2>1, <2>2, <2>3, <2>4, <2>5, <2>6, <2>7, <2>8, <2>9, <2>10, <2>11, <2>12, <2>13
    DEF Next, Acquire
<1> QED
  BY <1>1, <1>2, PTL DEF Spec

\* One step of any process, with nothing older than 90 s, keeps the strengthening.
LEMMA FreshStep == TypeOK /\ FreshInv /\ [Next]_vars => FreshInv'
<1> USE NoneAssumption DEF TypeOK, LockDir, Locations, Acquiring, FreshInv, FreshLock,
                           MakerStillOwns, NobodyBreaks
<1> SUFFICES ASSUME TypeOK, FreshInv, [Next]_vars PROVE FreshInv'
  OBVIOUS
<1>1. ASSUME NEW p \in Procs, Begin(p) PROVE FreshInv'
  BY <1>1 DEF Begin, Goto
<1>2. ASSUME NEW p \in Procs, Mkdir(p) PROVE FreshInv'
  <2>1. CASE lock = None
    <3>1. lock' = [maker |-> p, owner |-> None, old |-> FALSE]
      BY <1>2, <2>1 DEF Mkdir
    <3>2. lock' \in LockDir /\ lock'.maker = p /\ lock'.owner = None /\ lock'.old = FALSE
      BY <3>1
    <3> QED
      BY <1>2, <2>1, <3>2 DEF Mkdir, Goto
  <2>2. CASE lock # None
    BY <1>2, <2>2 DEF Mkdir, Goto
  <2> QED
    BY <2>1, <2>2
<1>3. ASSUME NEW p \in Procs, WriteOwner(p) PROVE FreshInv'
  <2>1. CASE pc'[p] = "critical"
    <3>1. lock' \in LockDir /\ lock'.maker = lock.maker /\ lock'.owner = p /\ lock'.old = FALSE
      BY <1>3, <2>1 DEF WriteOwner, Goto
    <3> QED
      BY <1>3, <2>1, <3>1 DEF WriteOwner, Goto
  <2>2. CASE pc'[p] # "critical"
    BY <1>3, <2>2 DEF WriteOwner, Goto
  <2> QED
    BY <2>1, <2>2
<1>4. ASSUME NEW p \in Procs, UndoMkdir(p) PROVE FreshInv'
  BY <1>4 DEF UndoMkdir, Goto
<1>5. ASSUME NEW p \in Procs, Stat(p) PROVE FreshInv'
  BY <1>5 DEF Stat, Goto
<1>6. ASSUME NEW p \in Procs, ReadOwner(p) PROVE FreshInv'
  BY <1>6 DEF ReadOwner, Goto
<1>7. ASSUME NEW p \in Procs, Break(p) PROVE FreshInv'
  BY <1>7 DEF Break, Goto
<1>8. ASSUME NEW p \in Procs, CheckDeadline(p) PROVE FreshInv'
  BY <1>8 DEF CheckDeadline, Goto
<1>9. ASSUME NEW p \in Procs, Unlock(p) PROVE FreshInv'
  BY <1>9 DEF Unlock, Goto
<1>10. ASSUME NEW p \in Procs, Throw(p) \/ Crash(p) PROVE FreshInv'
  BY <1>10 DEF Throw, Crash, Goto
<1>11. ASSUME NEW p \in Procs, ExpireDeadline(p) PROVE FreshInv'
  BY <1>11 DEF ExpireDeadline
<1>12. CASE Age
  BY <1>12 DEF Age
<1>13. CASE UNCHANGED vars
  BY <1>13 DEF vars
<1> QED
  BY <1>1, <1>2, <1>3, <1>4, <1>5, <1>6, <1>7, <1>8, <1>9, <1>10, <1>11, <1>12, <1>13
  DEF Next, Acquire

\* The strengthening holds in every reachable state.
THEOREM FreshInvariant == Spec => []FreshInv
<1>1. Init => FreshInv
  BY DEF Init, FreshInv, FreshLock, MakerStillOwns, NobodyBreaks
<1> QED
  BY <1>1, TypeCorrect, FreshStep, PTL DEF Spec

\* Two processes are never inside the guarded operation while every lock directory is
\* younger than 90 s, and each holder's directory is its own.
THEOREM ExclusionTheorem == Spec => []ExclusiveUntilStale
<1>1. TypeOK /\ FreshInv => ExclusiveUntilStale
  BY DEF FreshInv, MakerStillOwns, ExclusiveUntilStale, MutualExclusion, HolderOwnsLock
<1> QED
  BY <1>1, TypeCorrect, FreshInvariant, PTL

\* A directory younger than 90 s is removed by its maker's own step and by no other process.
THEOREM OnlyMakerRemovesTheorem == Spec => OnlyMakerRemoves
<1>1. TypeOK /\ FreshInv /\ [Next]_vars
      => [(aged = "never" /\ lock # None /\ lock' = None) =>
            /\ pc[lock.maker] \in {"critical", "undoFailed"}
            /\ pc'[lock.maker] # pc[lock.maker]]_vars
  <2> SUFFICES ASSUME TypeOK, FreshInv, Next, aged = "never", lock # None, lock' = None
               PROVE  /\ pc[lock.maker] \in {"critical", "undoFailed"}
                      /\ pc'[lock.maker] # pc[lock.maker]
    BY DEF vars
  <2>1. PICK p \in Procs : UndoMkdir(p) \/ Break(p) \/ Unlock(p)
    BY NoneAssumption DEF Next, Acquire, Begin, Mkdir, WriteOwner, Stat, ReadOwner, CheckDeadline,
       Throw, Crash, Age, ExpireDeadline, TypeOK, LockDir
  <2>2. lock.maker = p /\ pc[p] \in {"critical", "undoFailed"}
    BY <2>1 DEF FreshInv, MakerStillOwns, NobodyBreaks, UndoMkdir, Break, Unlock
  <2>3. pc'[p] = "idle"
    BY <2>1, <2>2 DEF TypeOK, UndoMkdir, Break, Unlock, Goto
  <2> QED
    BY <2>2, <2>3
<1> QED
  BY <1>1, TypeCorrect, FreshInvariant, PTL DEF Spec, OnlyMakerRemoves

--------------------------------------------------------------------------------
(***************************************************************************)
(* Reconciliation: what is true of a client at each of its stages, and of  *)
(* the files whatever the clients do.                                      *)
(***************************************************************************)
Following == ClientStages \ {"idle", "locks", "open"}
AtFirst == {"idle", "locks", "open", "settle", "host", "restoring", "hostRelease", "settled"}
Retiring == {"retire", "mark", "record", "settle"}
Freeing == {"hostRelease", "validate", "free", "commit", "settled"}
Restorable == {"prepared", "reserved"}

Evidence(f) ==
  Entry(f).binding # Nothing =>
    /\ archive[f].binding = Entry(f).binding
    /\ HasTarget(Entry(f).binding) => archive[f].receipt = Entry(f).receipt

OwnNames(s) == Owned(planned.plan, s)
Given(s) == op[s] # Nothing /\ op[s] # {}
Marked(s, f) == Kind(live[s][f]) \in {"pending", "restored"}
GivenBefore(i) == \A k \in 1..(i - 1) : OwnNames(SpaceList[k]) # {} => Given(SpaceList[k])
ReleasedBefore(i) == \A k \in 1..(i - 1) : SpaceList[k] \in planned.released

\* What a client at stage l, namespace i, with the plan a relies on.
PlaceOK(l, i, a) ==
  /\ l # "idle" => a \in Plans
  /\ l \in Following => planned # Nothing /\ a.names = planned.plan.names
  /\ l \in AtFirst => i = 1
  /\ l \in Retiring => planned.status \in Restorable
  /\ l \in Freeing => planned.status \notin Restorable
  /\ l = "mark" =>
       \A f \in OwnNames(SpaceList[i]) :
         Evidence(f) /\ (live[SpaceList[i]][f] = Nothing \/ Mine(live[SpaceList[i]][f]))
  /\ l \in Completing => OwnNames(SpaceList[i]) # {} /\ op[SpaceList[i]] # Nothing
  /\ l \in Completing \cup {"complete"} => GivenBefore(i)
  /\ l \in {"validate", "free", "commit"} => ReleasedBefore(i)
  /\ l = "free" => Inspectable(SpaceList[i], OwnNames(SpaceList[i]))
  /\ l = "commit" => op[SpaceList[i]] = Nothing /\ \A f \in SetNames : ~ Marked(SpaceList[i], f)

ClientOK(c) == PlaceOK(stage[c], space[c], approved[c])

\* A client in the locked section excludes the others, and those that give names out.
Exclusive ==
  \A c, d \in Clients : stage[c] \in Locked /\ stage[d] \in Locked \cup Completing => c = d

MarksOK ==
  \A s \in Spaces, f \in SetNames :
    Marked(s, f) => planned # Nothing /\ Entry(f).owner = s /\ Evidence(f)

\* The namespaces are released in their order, and their names given out in the same order.
ReleaseOK ==
  /\ planned.status \in Restorable => planned.released = {}
  /\ \A s \in planned.released : OwnNames(s) # {} => op[s] = Nothing /\ \A f \in SetNames : ~ Marked(s, f)
  /\ \A i \in 1..Len(SpaceList) : SpaceList[i] \in planned.released => ReleasedBefore(i)

GivenOK ==
  \A i \in 1..Len(SpaceList) :
    Given(SpaceList[i]) \/ (\E f \in SetNames : Kind(live[SpaceList[i]][f]) = "restored")
    => GivenBefore(i)

DiskOK ==
  /\ OnlyPlannedIsRetired
  /\ MarksOK
  /\ IF planned = Nothing THEN \A s \in Spaces : op[s] = Nothing ELSE ReleaseOK /\ GivenOK

LostInv == LostTypeOK /\ (\A c \in Clients : ClientOK(c)) /\ Exclusive /\ DiskOK

LEMMA SpaceFacts ==
  /\ Len(SpaceList) \in Nat \ {0} /\ 1 \in 1..Len(SpaceList)
  /\ \A i \in 1..Len(SpaceList) : SpaceList[i] \in Spaces
  /\ \A s \in Spaces : \E i \in 1..Len(SpaceList) : s = SpaceList[i]
  /\ \A i, k \in 1..Len(SpaceList) : SpaceList[i] = SpaceList[k] => i = k
BY ReconciliationAssumption, SMTT(60) DEF Spaces

\* The files of a state, and where the clients are.
DiskTypeOK ==
  /\ live \in [Spaces -> [SetNames -> Receipts \cup {Nothing}]]
  /\ tgt \in [SetNames -> Nat \cup {Nothing}]
  /\ archive \in [SetNames -> [binding : Receipts \cup {Nothing}, receipt : Nat \cup {Nothing}]]
  /\ op \in [Spaces -> (SUBSET SetNames) \cup {Nothing}]
  /\ planned \in Journals \cup {Nothing}
  /\ host \in [id : Nat, data : {"none", "staged", "partial", "all"}]
  /\ edits \in Nat

ClientTypeOK ==
  /\ approved \in [Clients -> Plans \cup {Nothing}]
  /\ task \in [Clients -> {"restore", "release", Nothing}]
  /\ stage \in [Clients -> ClientStages]
  /\ space \in [Clients -> 1..Len(SpaceList)]

LEMMA LostTypes == LostTypeOK <=> DiskTypeOK /\ ClientTypeOK
BY DEF LostTypeOK, DiskTypeOK, ClientTypeOK

\* A client steps to stage l of namespace i, with the plan a and the task t.
Goes(c, l, i, a, t) ==
  /\ stage' = [stage EXCEPT ![c] = l] /\ space' = [space EXCEPT ![c] = i]
  /\ approved' = [approved EXCEPT ![c] = a] /\ task' = [task EXCEPT ![c] = t]
  /\ l \in ClientStages /\ i \in 1..Len(SpaceList)
  /\ a \in Plans \cup {Nothing} /\ t \in {"restore", "release", Nothing}

LEMMA GoesTo ==
  ASSUME LostTypeOK, NEW c \in Clients, NEW l, NEW i, NEW a, NEW t, Goes(c, l, i, a, t)
  PROVE  /\ ClientTypeOK'
         /\ stage'[c] = l /\ space'[c] = i /\ approved'[c] = a
         /\ \A d \in Clients \ {c} : stage'[d] = stage[d] /\ space'[d] = space[d] /\ approved'[d] = approved[d]
BY DEF Goes, LostTypeOK, ClientTypeOK

LEMMA GoesOn ==
  ASSUME LostTypeOK, NEW c \in Clients, NEW l \in ClientStages, GoOn(c, l), UNCHANGED <<space, approved, task>>
  PROVE  Goes(c, l, space[c], approved[c], task[c])
BY DEF Goes, GoOn, LostTypeOK

LEMMA Stays ==
  ASSUME LostTypeOK, NEW c \in Clients, UNCHANGED <<stage, space, approved, task>>
  PROVE  Goes(c, stage[c], space[c], approved[c], task[c])
BY DEF Goes, LostTypeOK

LEMMA Finishes ==
  ASSUME LostTypeOK, NEW c \in Clients, Finish(c)
  PROVE  Goes(c, "idle", 1, Nothing, Nothing)
BY SpaceFacts DEF Goes, GoOn, Finish, LostTypeOK, ClientStages

LEMMA GoesRound ==
  ASSUME LostTypeOK, NEW c \in Clients, NEW loop \in ClientStages, NEW next \in ClientStages,
         NextSpace(c, loop, next)
  PROVE  \/ space[c] < Len(SpaceList) /\ Goes(c, loop, space[c] + 1, approved[c], task[c])
         \/ space[c] = Len(SpaceList) /\ next # "idle" /\ Goes(c, next, 1, approved[c], task[c])
         \/ space[c] = Len(SpaceList) /\ next = "idle" /\ Goes(c, "idle", 1, Nothing, Nothing)
<1>1. space[c] \in 1..Len(SpaceList) /\ Len(SpaceList) \in Nat \ {0} /\ 1 \in 1..Len(SpaceList)
  BY SpaceFacts DEF LostTypeOK
<1>2. CASE space[c] < Len(SpaceList)
  <2>1. space[c] + 1 \in 1..Len(SpaceList)
    BY <1>1, <1>2
  <2> QED
    BY <1>2, <2>1 DEF NextSpace, GoOn, Goes, LostTypeOK
<1>3. CASE ~ (space[c] < Len(SpaceList)) /\ next = "idle"
  BY <1>1, <1>3, Finishes DEF NextSpace
<1>4. CASE ~ (space[c] < Len(SpaceList)) /\ next # "idle"
  BY <1>1, <1>4 DEF NextSpace, GoOn, Goes, LostTypeOK
<1> QED
  BY <1>2, <1>3, <1>4

\* The stages at which a client relies on files that only the locks keep.
LEMMA StageSets ==
  /\ Retiring \cup Freeing \cup {"mark", "validate", "free", "commit"} \subseteq Locked
  /\ Following \subseteq ClientStages /\ Locked \cap Completing = {}
BY DEF Retiring, Freeing, Locked, Completing, Following, ClientStages

\* A client outside the locked section relies on the plan's names and on what was given out.
LEMMA OthersKeep ==
  ASSUME LostInv, NEW d \in Clients, stage[d] \notin Locked,
         stage'[d] = stage[d], space'[d] = space[d], approved'[d] = approved[d],
         planned # Nothing => planned' # Nothing /\ planned'.plan.names = planned.plan.names,
         \A s \in Spaces : Given(s) => Given(s)',
         stage[d] \in Completing => \A s \in Spaces : op[s] # Nothing => op'[s] # Nothing
  PROVE  ClientOK(d)'
<1> PICK l, i, a : l = stage[d] /\ i = space[d] /\ a = approved[d]
  OBVIOUS
<1>1. PlaceOK(l, i, a) /\ l \in ClientStages /\ i \in 1..Len(SpaceList)
  BY DEF LostInv, ClientOK, LostTypeOK
<1>2. \A k \in 1..Len(SpaceList) : SpaceList[k] \in Spaces
  BY SpaceFacts
<1>3. l \notin Retiring /\ l \notin Freeing /\ l \notin {"mark", "validate", "free", "commit"}
  BY StageSets
<1>4. planned # Nothing => \A s \in Spaces : OwnNames(s)' = OwnNames(s)
  BY DEF OwnNames, Owned
<1>5. l \in Completing \cup {"complete"} => l \in Following
  BY DEF Completing, Following, ClientStages
<1>6. l \in Completing \cup {"complete"} => GivenBefore(i)'
  <2>1. i - 1 \in Int /\ \A k \in 1..(i - 1) : k \in 1..Len(SpaceList)
    BY <1>1, SpaceFacts
  <2> QED
    BY <1>1, <1>2, <1>4, <1>5, <2>1 DEF PlaceOK, GivenBefore
<1>7. PlaceOK(l, i, a)'
  BY <1>1, <1>2, <1>3, <1>4, <1>5, <1>6 DEF PlaceOK
<1> QED
  BY <1>7 DEF ClientOK

\* A step that writes no file of the set.
LEMMA QuietStep ==
  ASSUME LostInv, NEW c \in Clients, NEW l, NEW i, NEW a, NEW t, Goes(c, l, i, a, t),
         UNCHANGED disk, DiskTypeOK', PlaceOK(l, i, a),
         l \in Locked =>
           stage[c] \in Locked \/ \A d \in Clients : stage[d] \notin Locked \cup Completing,
         l \in Completing => stage[c] \in Completing \/ NobodyLocks
  PROVE  LostInv'
<1>1. /\ ClientTypeOK'
      /\ stage'[c] = l /\ space'[c] = i /\ approved'[c] = a
      /\ \A d \in Clients \ {c} : stage'[d] = stage[d] /\ space'[d] = space[d] /\ approved'[d] = approved[d]
  BY GoesTo DEF LostInv
<1>2. LostTypeOK'
  BY <1>1 DEF LostTypeOK, DiskTypeOK, ClientTypeOK
<1>3. ASSUME NEW d \in Clients PROVE ClientOK(d)'
  <2>1. PICK m, k, b : m = stage'[d] /\ k = space'[d] /\ b = approved'[d]
    OBVIOUS
  <2>2. PlaceOK(m, k, b)
    BY <1>1, <2>1 DEF LostInv, ClientOK
  <2>3. PlaceOK(m, k, b)'
    BY <2>2 DEF PlaceOK, disk, OwnNames, Owned, Evidence, Entry, GivenBefore, Given, ReleasedBefore,
      Inspectable, Marked
  <2> QED
    BY <2>1, <2>3 DEF ClientOK
<1>4. Exclusive'
  BY <1>1, StageSets DEF LostInv, Exclusive, NobodyLocks
<1>5. DiskOK'
  BY DEF LostInv, DiskOK, disk, OnlyPlannedIsRetired, MarksOK, ReleaseOK, GivenOK, OwnNames, Owned, Evidence,
    Entry, GivenBefore, Given, ReleasedBefore, Marked
<1> QED
  BY <1>2, <1>3, <1>4, <1>5 DEF LostInv

\* A step of a client in the locked section, or of one that gives names out, that writes a file.
LEMMA DiskStep ==
  ASSUME LostInv, NEW c \in Clients, NEW l, NEW i, NEW a, NEW t, Goes(c, l, i, a, t),
         stage[c] \in Locked \cup Completing,
         l \in Locked => stage[c] \in Locked, l \in Completing => stage[c] \in Completing,
         DiskTypeOK', DiskOK', PlaceOK(l, i, a)',
         planned # Nothing => planned' # Nothing /\ planned'.plan.names = planned.plan.names,
         \A s \in Spaces : Given(s) => Given(s)',
         stage[c] \in Completing => \A s \in Spaces : op[s] # Nothing => op'[s] # Nothing
  PROVE  LostInv'
<1>1. /\ ClientTypeOK'
      /\ stage'[c] = l /\ space'[c] = i /\ approved'[c] = a
      /\ \A d \in Clients \ {c} : stage'[d] = stage[d] /\ space'[d] = space[d] /\ approved'[d] = approved[d]
  BY GoesTo DEF LostInv
<1>2. LostTypeOK'
  BY <1>1 DEF LostTypeOK, DiskTypeOK, ClientTypeOK
<1>3. ClientOK(c)'
  BY <1>1 DEF ClientOK
<1>4. ASSUME NEW d \in Clients \ {c} PROVE ClientOK(d)'
  <2>1. stage[d] \notin Locked /\ (stage[d] \in Completing => stage[c] \in Completing)
    BY <1>4 DEF LostInv, Exclusive
  <2> QED
    BY <1>1, <2>1, OthersKeep
<1>5. Exclusive'
  BY <1>1, StageSets DEF LostInv, Exclusive
<1> QED
  BY <1>2, <1>3, <1>4, <1>5 DEF LostInv

\* A step of an ordinary command.
LEMMA CommandStep ==
  ASSUME LostInv, NobodyLocks, Ordinary, UNCHANGED stage, DiskTypeOK', MarksOK',
         planned # Nothing => GivenOK',
         \A s \in Spaces, f \in SetNames : Marked(s, f)' => Marked(s, f)
  PROVE  LostInv'
<1>1. LostTypeOK'
  BY DEF LostInv, LostTypeOK, DiskTypeOK, Ordinary
<1>2. ASSUME NEW d \in Clients PROVE ClientOK(d)'
  BY <1>2, OthersKeep DEF NobodyLocks, Ordinary, Given
<1>3. Exclusive'
  BY DEF LostInv, Exclusive, Ordinary
<1>4. OnlyPlannedIsRetired'
  BY DEF LostInv, DiskOK, OnlyPlannedIsRetired, Entry, Ordinary
<1>5. planned # Nothing => ReleaseOK'
  <2>1. ASSUME planned # Nothing PROVE /\ planned' = planned /\ op' = op /\ ReleaseOK
                                       /\ planned.released \subseteq Spaces
    BY <2>1 DEF LostInv, DiskOK, Ordinary, LostTypeOK, Journals
  <2> QED
    BY <2>1 DEF ReleaseOK, OwnNames, Owned, ReleasedBefore
<1>6. DiskOK'
  BY <1>4, <1>5 DEF LostInv, DiskOK, Ordinary
<1> QED
  BY <1>1, <1>2, <1>3, <1>6 DEF LostInv

\* A client that follows the plan has the names of the journal's.
LEMMA SameNames ==
  ASSUME LostInv, NEW c \in Clients, stage[c] \in Following
  PROVE  /\ planned # Nothing /\ planned \in Journals /\ approved[c].names = planned.plan.names
         /\ \A s : Owned(approved[c], s) = OwnNames(s)
         /\ \A f : Expected(c, f) = Entry(f)
         /\ Here(c) = SpaceList[space[c]] /\ Here(c) \in Spaces
<1>1. PlaceOK(stage[c], space[c], approved[c]) /\ space[c] \in 1..Len(SpaceList)
  BY DEF LostInv, ClientOK, LostTypeOK
<1>2. planned # Nothing /\ approved[c].names = planned.plan.names
  BY <1>1 DEF PlaceOK
<1>3. planned \in Journals
  BY <1>2 DEF LostInv, LostTypeOK
<1> QED
  BY <1>1, <1>2, <1>3, SpaceFacts DEF Owned, OwnNames, Expected, Entry, Here

LEMMA Place ==
  ASSUME LostInv, NEW c \in Clients
  PROVE  /\ PlaceOK(stage[c], space[c], approved[c])
         /\ stage[c] \in ClientStages /\ space[c] \in 1..Len(SpaceList)
         /\ SpaceList[space[c]] \in Spaces /\ Here(c) = SpaceList[space[c]]
         /\ DiskTypeOK /\ ClientTypeOK /\ LostTypeOK
BY SpaceFacts DEF LostInv, ClientOK, LostTypeOK, DiskTypeOK, ClientTypeOK, Here

LEMMA SomeName == SetNames # {} /\ Spaces # {}
BY ReconciliationAssumption DEF SetNames, Spaces

LEMMA QuietTypes ==
  ASSUME LostTypeOK, UNCHANGED disk, host' \in [id : Nat, data : {"none", "staged", "partial", "all"}],
         edits' \in Nat
  PROVE  DiskTypeOK'
BY DEF LostTypeOK, DiskTypeOK, disk

LEMMA TakeLocksStep ==
  ASSUME LostInv, NEW c \in Clients, TakeLocks(c)
  PROVE  LostInv'
<1> PICK i, a, t : i = space[c] /\ a = approved[c] /\ t = task[c]
  OBVIOUS
<1>1. Goes(c, "open", i, a, t)
  BY Place, GoesOn DEF TakeLocks, ClientStages, Locked
<1>2. PlaceOK("locks", i, a)
  BY Place DEF TakeLocks
<1>3. PlaceOK("open", i, a)
  BY <1>2 DEF PlaceOK, Following, AtFirst, Retiring, Freeing, Completing
<1>4. UNCHANGED disk /\ DiskTypeOK'
  BY Place, QuietTypes DEF TakeLocks, LostTypeOK
<1>5. ASSUME NEW d \in Clients PROVE stage[d] \notin Locked \cup Completing
  <2>1. stage[d] \notin Locked
    BY SomeName DEF TakeLocks, NameFree, NobodyLocks
  <2>2. ASSUME stage[d] \in Completing PROVE FALSE
    <3>1. stage[d] \in Following /\ OwnNames(Here(d)) # {}
      BY <2>2, Place DEF PlaceOK, Following, Completing, ClientStages
    <3>2. PICK f : f \in Owned(approved[d], Here(d))
      BY <3>1, SameNames
    <3>3. f \in SetNames /\ Here(d) \in Spaces
      BY <3>1, <3>2, SameNames DEF Owned
    <3> QED
      BY <2>2, <3>2, <3>3 DEF TakeLocks, NameFree, Here
  <2> QED
    BY <2>1, <2>2
<1> QED
  BY <1>1, <1>3, <1>4, <1>5, QuietStep DEF Completing

LEMMA IdlePlace == \A a : PlaceOK("idle", 1, a)
BY DEF PlaceOK, Following, AtFirst, Retiring, Freeing, Completing

\* Every way in which a command ends.
LEMMA EndStep ==
  ASSUME LostInv, NEW c \in Clients, Goes(c, "idle", 1, Nothing, Nothing), UNCHANGED disk, DiskTypeOK'
  PROVE  LostInv'
BY IdlePlace, QuietStep DEF Locked, Completing

LEMMA ClientEndsStep ==
  ASSUME LostInv, NEW c \in Clients, ClientEnds(c)
  PROVE  LostInv'
BY Place, Finishes, EndStep, QuietTypes DEF ClientEnds, LostTypeOK

LEMMA PlanTypes ==
  ASSUME LostTypeOK, NEW h \in Nat \cup {Nothing}
  PROVE  PlanFor(h) \in Plans /\ (planned # Nothing => Upgraded(planned, h) \in Journals)
<1>1. ASSUME NEW f \in SetNames PROVE Owner(f) \in Spaces
  BY SpaceFacts DEF Owner, Primary
<1>2. ASSUME NEW f \in SetNames PROVE PlanFor(h).names[f] \in Entries
  BY <1>1, <1>2 DEF PlanFor, LostTypeOK, Entries
<1>3. PlanFor(h) \in Plans
  BY <1>2 DEF PlanFor, Plans
<1>4. ASSUME planned # Nothing PROVE Upgraded(planned, h) \in Journals
  BY <1>4 DEF LostTypeOK, Upgraded, Journals, Plans
<1> QED
  BY <1>3, <1>4

LEMMA StartStep ==
  ASSUME LostInv, NEW c \in Clients, StartRestore(c) \/ StartRelease(c)
  PROVE  LostInv'
<1>1. PICK what \in {"restore", "release"}, plan \in Plans : Start(c, what, plan)
  BY Place, PlanTypes DEF StartRestore, StartRelease, LostTypeOK, Journals
<1>2. space[c] = 1
  BY <1>1, Place DEF Start, PlaceOK, AtFirst
<1>3. Goes(c, "locks", 1, plan, what)
  BY <1>1, <1>2, Place, SpaceFacts DEF Start, GoOn, Goes, ClientStages, LostTypeOK
<1>4. PlaceOK("locks", 1, plan)
  BY DEF PlaceOK, Following, AtFirst, Retiring, Freeing, Completing
<1>5. UNCHANGED disk /\ DiskTypeOK'
  BY <1>1, Place, QuietTypes DEF Start, LostTypeOK
<1> QED
  BY <1>3, <1>4, <1>5, QuietStep DEF Locked, Completing

LEMMA HostTypes ==
  ASSUME LostTypeOK, NEW d \in {"none", "staged", "partial", "all"}
  PROVE  /\ [host EXCEPT !.data = d] \in [id : Nat, data : {"none", "staged", "partial", "all"}]
         /\ host.data # "all" => NextStage(host.data) \in {"none", "staged", "partial", "all"}
<1>1. [host EXCEPT !.data = d] \in [id : Nat, data : {"none", "staged", "partial", "all"}]
  BY DEF LostTypeOK
<1>2. ASSUME host.data # "all" PROVE NextStage(host.data) \in {"none", "staged", "partial", "all"}
  <2>1. host.data \in {"none", "staged", "partial"}
    BY <1>2 DEF LostTypeOK
  <2>2. /\ Stages[1] = "none" /\ Stages[2] = "staged" /\ Stages[3] = "partial" /\ Stages[4] = "all"
    BY DEF Stages
  <2>3. \E k \in 1..4 : Stages[k] = host.data
    BY <2>1, <2>2
  <2>4. PICK k \in 1..4 : Stages[k] = host.data /\ NextStage(host.data) = Stages[k + 1]
    BY <2>3 DEF NextStage
  <2>5. k \in {1, 2, 3}
    BY <1>2, <2>2, <2>4
  <2> QED
    BY <2>2, <2>4, <2>5
<1> QED
  BY <1>1, <1>2

LEMMA AskHostStep ==
  ASSUME LostInv, NEW c \in Clients, AskHost(c)
  PROVE  LostInv'
<1> PICK i, a, t : i = space[c] /\ a = approved[c] /\ t = task[c]
  OBVIOUS
<1>1. Goes(c, "restoring", i, a, t)
  BY Place, GoesOn DEF AskHost, ClientStages
<1>2. PlaceOK("host", i, a)
  BY Place DEF AskHost
<1>3. PlaceOK("restoring", i, a)
  BY <1>2 DEF PlaceOK, Following, AtFirst, Retiring, Freeing, Completing, ClientStages
<1>4. UNCHANGED disk /\ DiskTypeOK'
  BY Place, QuietTypes DEF AskHost, LostTypeOK
<1> QED
  BY <1>1, <1>3, <1>4, QuietStep DEF Completing, Locked

LEMMA RestoreHostStep ==
  ASSUME LostInv, NEW c \in Clients, RestoreHost(c)
  PROVE  LostInv'
<1> PICK i, a, t : i = space[c] /\ a = approved[c] /\ t = task[c]
  OBVIOUS
<1>1. UNCHANGED disk /\ DiskTypeOK'
  <2>1. host' \in [id : Nat, data : {"none", "staged", "partial", "all"}]
    BY Place, HostTypes DEF RestoreHost, LostTypeOK
  <2> QED
    BY <2>1, Place, QuietTypes DEF RestoreHost, LostTypeOK
<1>2. PlaceOK("restoring", i, a)
  BY Place DEF RestoreHost
<1>3. CASE UNCHANGED stage
  <2>1. Goes(c, "restoring", i, a, t)
    BY <1>3, Place, Stays DEF RestoreHost
  <2> QED
    BY <2>1, <1>1, <1>2, QuietStep DEF Completing, Locked
<1>4. CASE GoOn(c, "complete")
  <2>1. Goes(c, "complete", i, a, t)
    BY <1>4, Place, GoesOn DEF RestoreHost, ClientStages
  <2>2. i = 1
    BY <1>2 DEF PlaceOK, AtFirst
  <2>3. PlaceOK("complete", i, a)
    BY <1>2, <2>2 DEF PlaceOK, Following, AtFirst, Retiring, Freeing, Completing, ClientStages, GivenBefore
  <2> QED
    BY <2>1, <2>3, <1>1, QuietStep DEF Completing, Locked
<1> QED
  BY <1>3, <1>4 DEF RestoreHost

LEMMA ReplaceHostStep ==
  ASSUME LostInv, ReplaceHost
  PROVE  LostInv'
<1>1. host'.id \in Nat /\ host' \in [id : Nat, data : {"none", "staged", "partial", "all"}] /\ edits' \in Nat
  BY DEF LostInv, LostTypeOK, ReplaceHost, Draw
<1>2. LostTypeOK'
  BY <1>1 DEF LostInv, LostTypeOK, ReplaceHost, disk
<1>3. ASSUME NEW d \in Clients PROVE ClientOK(d)'
  <2>1. ClientOK(d)
    BY DEF LostInv
  <2> QED
    BY <2>1, SMTT(60) DEF ReplaceHost, disk, ClientOK, PlaceOK, OwnNames, Owned, Evidence, Entry, GivenBefore, Given,
      ReleasedBefore, Inspectable, Marked
<1>4. Exclusive'
  BY DEF LostInv, Exclusive, ReplaceHost
<1>5. DiskOK'
  BY SMTT(60) DEF LostInv, DiskOK, ReplaceHost, disk, OnlyPlannedIsRetired, MarksOK, ReleaseOK, GivenOK, OwnNames,
    Owned, Evidence, Entry, GivenBefore, Given, ReleasedBefore, Marked
<1> QED
  BY <1>2, <1>3, <1>4, <1>5 DEF LostInv

\* The next namespace of a client that gives names out, or that releases them.
LEMMA BeforeNext ==
  ASSUME NEW i \in 1..Len(SpaceList)
  PROVE  /\ GivenBefore(i) /\ (OwnNames(SpaceList[i]) # {} => Given(SpaceList[i])) => GivenBefore(i + 1)
         /\ ReleasedBefore(i) /\ SpaceList[i] \in planned.released => ReleasedBefore(i + 1)
         /\ GivenBefore(1) /\ ReleasedBefore(1)
<1>1. i \in Int /\ \A k \in 1..((i + 1) - 1) : k = i \/ k \in 1..(i - 1)
  BY SpaceFacts
<1>2. ~ \E k \in 1..(1 - 1) : TRUE
  OBVIOUS
<1> QED
  BY <1>1, <1>2 DEF GivenBefore, ReleasedBefore

LEMMA OpenCompletionStep ==
  ASSUME LostInv, NEW c \in Clients, OpenCompletion(c)
  PROVE  LostInv'
<1> PICK i, a, t : i = space[c] /\ a = approved[c] /\ t = task[c]
  OBVIOUS
<1>1. PlaceOK("complete", i, a) /\ i \in 1..Len(SpaceList) /\ Here(c) = SpaceList[i]
  BY Place DEF OpenCompletion
<1>2. UNCHANGED disk /\ DiskTypeOK'
  BY Place, QuietTypes DEF OpenCompletion, LostTypeOK
<1>3. stage[c] \in Following /\ Owned(approved[c], Here(c)) = OwnNames(SpaceList[i])
  BY <1>1, SameNames DEF OpenCompletion, Following, ClientStages
<1>4. CASE Owned(approved[c], Here(c)) = {}
  <2>1. \/ Goes(c, "complete", i + 1, a, t) /\ i + 1 \in 1..Len(SpaceList)
        \/ Goes(c, "idle", 1, Nothing, Nothing)
    BY <1>4, GoesRound, Place DEF OpenCompletion, ClientStages, Goes
  <2>2. PlaceOK("complete", i + 1, a)
    BY <1>1, <1>3, <1>4, BeforeNext DEF PlaceOK, Following, AtFirst, Retiring, Freeing, Completing, ClientStages
  <2>3. CASE Goes(c, "complete", i + 1, a, t)
    BY <2>3, <2>2, <1>2, QuietStep DEF Locked, Completing
  <2> QED
    BY <2>1, <2>3, <1>2, EndStep
<1>5. CASE Owned(approved[c], Here(c)) # {}
  <2>1. Goes(c, "restored", i, a, t) /\ op[Here(c)] # Nothing
    BY <1>5, GoesOn, Place DEF OpenCompletion, ClientStages, Completing
  <2>2. PlaceOK("restored", i, a)
    BY <1>1, <1>3, <1>5, <2>1
    DEF PlaceOK, Following, AtFirst, Retiring, Freeing, Completing, ClientStages
  <2>3. NobodyLocks
    BY <1>5 DEF OpenCompletion, NameFree
  <2> QED
    BY <2>1, <2>2, <2>3, <1>2, QuietStep DEF Locked
<1> QED
  BY <1>4, <1>5

LEMMA HostReleaseStep ==
  ASSUME LostInv, NEW c \in Clients, HostRelease(c)
  PROVE  LostInv'
<1> PICK i, a, t : i = space[c] /\ a = approved[c] /\ t = task[c]
  OBVIOUS
<1>1. PlaceOK("hostRelease", i, a) /\ i \in 1..Len(SpaceList) /\ Here(c) = SpaceList[i]
  BY Place DEF HostRelease
<1>2. UNCHANGED disk /\ DiskTypeOK'
  BY Place, QuietTypes, HostTypes DEF HostRelease, LostTypeOK
<1>3. i = 1
  BY <1>1 DEF PlaceOK, AtFirst
<1>4. PlaceOK("validate", i, a)
  BY <1>1, <1>3, BeforeNext
  DEF PlaceOK, Following, AtFirst, Retiring, Freeing, Completing, ClientStages, Locked
<1>5. CASE Finish(c)
  BY <1>2, <1>5, Finishes, EndStep, Place
<1>6. CASE GoOn(c, "validate") /\ UNCHANGED <<task, space, approved>>
  <2>1. Goes(c, "validate", i, a, t)
    BY <1>6, GoesOn, Place DEF ClientStages, Locked
  <2> QED
    BY <2>1, <1>4, <1>2, QuietStep DEF Locked, HostRelease, Completing
<1> QED
  BY <1>5, <1>6 DEF HostRelease

LEMMA ValidateStep ==
  ASSUME LostInv, NEW c \in Clients, Validate(c)
  PROVE  LostInv'
<1> PICK i, a, t : i = space[c] /\ a = approved[c] /\ t = task[c]
  OBVIOUS
<1>1. PlaceOK("validate", i, a) /\ i \in 1..Len(SpaceList) /\ Here(c) = SpaceList[i]
  BY Place DEF Validate
<1>2. UNCHANGED disk /\ DiskTypeOK'
  BY Place, QuietTypes DEF Validate, LostTypeOK
<1>3. stage[c] \in Locked /\ "idle" \notin Locked \cup Completing
  BY DEF Validate, Locked, Completing
<1>4. CASE Here(c) \in planned.released
  <2>1. \/ Goes(c, "validate", i + 1, a, t) /\ i + 1 \in 1..Len(SpaceList)
        \/ Goes(c, "settled", 1, a, t)
    <3>1. NextSpace(c, "validate", "settled") /\ {"validate", "settled"} \subseteq ClientStages
      BY <1>4 DEF Validate, ClientStages, Locked
    <3>2. LostTypeOK
      BY Place
    <3> QED
      BY <3>1, <3>2, GoesRound DEF Goes
  <2>2. PlaceOK("validate", i + 1, a) /\ PlaceOK("settled", 1, a)
    BY <1>1, <1>4, BeforeNext
    DEF PlaceOK, Following, AtFirst, Retiring, Freeing, Completing, ClientStages, Locked
  <2>3. CASE Goes(c, "validate", i + 1, a, t)
    BY <2>3, <2>2, <1>2, <1>3, QuietStep DEF Completing
  <2>4. CASE Goes(c, "settled", 1, a, t)
    BY <2>4, <2>2, <1>2, <1>3, QuietStep DEF Completing
  <2> QED
    BY <2>1, <2>3, <2>4
<1>5. CASE Here(c) \notin planned.released
  <2>1. Goes(c, "free", i, a, t) /\ Inspectable(SpaceList[i], OwnNames(SpaceList[i]))
    BY <1>1, <1>5, GoesOn, Place DEF Validate, ClientStages, Locked, ReleasableIn, OwnNames
  <2>2. PlaceOK("free", i, a)
    BY <1>1, <2>1 DEF PlaceOK, Following, AtFirst, Retiring, Freeing, Completing, ClientStages, Locked
  <2> QED
    BY <2>1, <2>2, <1>2, <1>3, QuietStep DEF Completing
<1> QED
  BY <1>4, <1>5

LEMMA JournalFacts ==
  ASSUME LostInv, NEW c \in Clients, stage[c] # "idle", planned # Nothing
  PROVE  /\ approved[c] \in Plans /\ planned \in Journals /\ Journal(c) \in Journals
         /\ Journal(c).plan.names = planned.plan.names /\ Journal(c).status = planned.status
         /\ Journal(c).completed = planned.completed /\ Journal(c).reservations = planned.reservations
         /\ Journal(c).intents = planned.intents /\ Journal(c).released = planned.released
<1>1. approved[c] \in Plans /\ planned \in Journals
  BY Place DEF PlaceOK, LostTypeOK
<1>2. approved[c].host \in Nat \cup {Nothing}
  BY <1>1 DEF Plans
<1>3. Journal(c) \in Journals
  BY <1>2, PlanTypes, Place DEF Journal
<1> QED
  BY <1>1, <1>3 DEF Journal, Upgraded, Journals, Plans

\* A step of the journal that releases nothing more.
LEMMA ReleaseKept ==
  ASSUME LostInv, planned # Nothing, planned' \in Journals,
         planned'.plan.names = planned.plan.names, planned'.released = planned.released,
         planned'.status \in Restorable => planned.status \in Restorable,
         UNCHANGED <<live, op>>
  PROVE  ReleaseOK'
<1>1. ReleaseOK /\ planned.released \subseteq Spaces
  BY DEF LostInv, DiskOK, LostTypeOK, Journals
<1> QED
  BY <1>1 DEF ReleaseOK, OwnNames, Owned, ReleasedBefore, Marked

LEMMA JournalStep ==
  ASSUME LostInv, planned # Nothing, planned' \in Journals,
         planned'.plan.names = planned.plan.names, UNCHANGED <<live, archive, op>>, ReleaseOK'
  PROVE  DiskOK'
<1>1. planned' # Nothing
  BY ReconciliationAssumption
<1>2. OnlyPlannedIsRetired'
  BY <1>1 DEF LostInv, DiskOK, OnlyPlannedIsRetired, Entry
<1>3. MarksOK'
  BY <1>1 DEF LostInv, DiskOK, MarksOK, Marked, Entry, Evidence
<1>4. GivenOK'
  BY DEF LostInv, DiskOK, GivenOK, GivenBefore, Given, OwnNames, Owned
<1> QED
  BY <1>1, <1>2, <1>3, <1>4 DEF DiskOK

\* The types of a journal that was read and changed.
LEMMA JournalTypes ==
  ASSUME NEW j \in Journals
  PROVE  /\ [j EXCEPT !.status = "reserved"] \in Journals
         /\ \A names \in SUBSET SetNames : [j EXCEPT !.completed = @ \cup names] \in Journals
         /\ \A s \in Spaces : [j EXCEPT !.released = @ \cup {s}] \in Journals
         /\ [j EXCEPT !.status = "released", !.completed = {}] \in Journals
BY DEF Journals

LEMMA NewJournalFacts ==
  ASSUME NEW plan \in Plans
  PROVE  /\ NewJournal(plan) \in Journals /\ NewJournal(plan).plan = plan
         /\ NewJournal(plan).status = "prepared" /\ NewJournal(plan).released = {}
<1>1. [s \in {} |-> {}] \in [{} -> SUBSET SetNames]
  OBVIOUS
<1>2. [s \in {} |-> {}] \in UNION {[X -> SUBSET SetNames] : X \in SUBSET Spaces}
  BY <1>1
<1> QED
  BY <1>2 DEF NewJournal, Journals

LEMMA OpenApplyStep ==
  ASSUME LostInv, NEW c \in Clients, OpenApply(c)
  PROVE  LostInv'
<1> PICK i, a, t : i = space[c] /\ a = approved[c] /\ t = task[c]
  OBVIOUS
<1>1. PlaceOK("open", i, a) /\ i \in 1..Len(SpaceList) /\ a \in Plans
  BY Place DEF OpenApply, PlaceOK
<1>2. Goes(c, "retire", i, a, t)
  BY GoesOn, Place DEF OpenApply, ClientStages, Locked
<1>3. UNCHANGED <<live, tgt, archive, op, host, edits>> /\ stage[c] \in Locked
  BY DEF OpenApply, Locked
<1>4. /\ planned' \in Journals /\ planned'.plan.names = a.names /\ planned'.status \in Restorable
      /\ planned # Nothing => planned' = planned /\ planned.plan.names = a.names
  <2>1. CASE planned = Nothing
    BY <1>1, <2>1, NewJournalFacts DEF OpenApply, Restorable
  <2>2. CASE planned # Nothing
    <3>1. planned \in Journals /\ Journal(c).plan.names = planned.plan.names
      BY <2>2, JournalFacts DEF OpenApply
    <3> QED
      BY <2>2, <3>1 DEF OpenApply, Matches, Restorable
  <2> QED
    BY <2>1, <2>2
<1>5. planned' # Nothing
  BY <1>4, ReconciliationAssumption
<1>6. DiskTypeOK'
  BY <1>3, <1>4, Place DEF DiskTypeOK
<1>7. DiskOK'
  <2>1. CASE planned = Nothing
    <3>1. planned' = NewJournal(a)
      BY <2>1 DEF OpenApply
    <3>2. planned'.released = {}
      BY <1>1, <3>1, NewJournalFacts
    <3>3. /\ \A f \in SetNames : archive[f].binding = Nothing /\ archive[f].receipt = Nothing
          /\ \A s \in Spaces, f \in SetNames : ~ Marked(s, f)
          /\ \A s \in Spaces : op[s] = Nothing
      BY <2>1 DEF LostInv, DiskOK, OnlyPlannedIsRetired, MarksOK
    <3>4. OnlyPlannedIsRetired' /\ MarksOK'
      BY <1>3, <3>3 DEF OnlyPlannedIsRetired, MarksOK, Marked
    <3>5. ReleaseOK'
      BY <3>2 DEF ReleaseOK
    <3>6. GivenOK'
      BY <1>3, <3>3, SpaceFacts DEF GivenOK, Given, Marked
    <3> QED
      BY <1>5, <3>4, <3>5, <3>6 DEF DiskOK
  <2>2. CASE planned # Nothing
    <3>1. planned' = planned
      BY <2>2, <1>4
    <3> QED
      BY <1>3, <1>4, <2>2, <3>1, ReleaseKept, JournalStep
  <2> QED
    BY <2>1, <2>2
<1>8. PlaceOK("retire", i, a)'
  BY <1>1, <1>4, <1>5 DEF PlaceOK, Following, AtFirst, Retiring, Freeing, Completing, ClientStages, Locked
<1>9. \A s \in Spaces : Given(s) => Given(s)'
  BY <1>3 DEF Given
<1> QED
  BY <1>2, <1>3, <1>4, <1>5, <1>6, <1>7, <1>8, <1>9, DiskStep DEF Locked, Completing

\* A step that moves receipts and writes neither the namespaces' journals nor the set's.
LEMMA ReceiptStep ==
  ASSUME LostInv, planned # Nothing, UNCHANGED <<op, planned>>,
         OnlyPlannedIsRetired', MarksOK', ReleaseOK',
         \A i \in 1..Len(SpaceList), f \in SetNames :
           Kind(live'[SpaceList[i]][f]) = "restored" => GivenBefore(i)
  PROVE  DiskOK' /\ (\A s \in Spaces : Given(s) => Given(s)')
<1>1. GivenOK
  BY DEF LostInv, DiskOK
<1>2. GivenOK'
  BY <1>1 DEF GivenOK, GivenBefore, Given, OwnNames, Owned
<1> QED
  BY <1>2 DEF DiskOK, Given

LEMMA Retires ==
  ASSUME LostInv, NEW c \in Clients, NEW f \in SetNames, Unretired(c, f)
  PROVE  /\ stage[c] = "retire" /\ planned # Nothing /\ planned \in Journals
         /\ Expected(c, f) = Entry(f) /\ Entry(f).owner = Here(c) /\ Entry(f).binding # Nothing
         /\ Here(c) \in Spaces /\ Entry(f) \in Entries
<1>1. stage[c] = "retire" /\ stage[c] \in Following
  BY DEF Unretired, Following, ClientStages, Locked
<1>2. Entry(f) \in Entries
  BY <1>1, SameNames DEF Entry, Journals, Plans
<1> QED
  BY <1>1, <1>2, SameNames DEF Unretired

LEMMA RetireTargetStep ==
  ASSUME LostInv, NEW c \in Clients, NEW f \in SetNames, RetireTarget(c, f)
  PROVE  LostInv'
<1> PICK i, a, t : i = space[c] /\ a = approved[c] /\ t = task[c]
  OBVIOUS
<1>1. /\ stage[c] = "retire" /\ planned # Nothing /\ planned \in Journals
      /\ tgt[f] # Nothing /\ tgt[f] = Entry(f).receipt
  BY Retires DEF RetireTarget
<1>2. Goes(c, "retire", i, a, t) /\ PlaceOK("retire", i, a)
  BY <1>1, Stays, Place DEF RetireTarget
<1>3. /\ UNCHANGED <<live, op, planned, host, edits>>
      /\ archive' = [archive EXCEPT ![f].receipt = tgt[f]] /\ tgt' = [tgt EXCEPT ![f] = Nothing]
  BY DEF RetireTarget
<1>4. DiskTypeOK'
  BY <1>3, Place DEF DiskTypeOK
<1>5. \A g \in SetNames : /\ archive'[g].binding = archive[g].binding
                          /\ archive'[g].receipt = IF g = f THEN Entry(f).receipt ELSE archive[g].receipt
  BY <1>1, <1>3, Place DEF DiskTypeOK
<1>6. OnlyPlannedIsRetired'
  BY <1>1, <1>3, <1>5 DEF LostInv, DiskOK, OnlyPlannedIsRetired, Entry
<1>7. MarksOK'
  BY <1>1, <1>3, <1>5 DEF LostInv, DiskOK, MarksOK, Marked, Entry, Evidence
<1>8. ReleaseOK'
  BY <1>1, <1>3, ReleaseKept
<1>9. DiskOK' /\ (\A s \in Spaces : Given(s) => Given(s)')
  BY <1>1, <1>3, <1>6, <1>7, <1>8, ReceiptStep DEF LostInv, DiskOK, GivenOK
<1>10. PlaceOK("retire", i, a)'
  BY <1>2, <1>3 DEF PlaceOK, Following, AtFirst, Retiring, Freeing, Completing, ClientStages, Locked
<1> QED
  BY <1>1, <1>2, <1>3, <1>4, <1>9, <1>10, DiskStep DEF Locked, Completing

\* A binding is taken away: nothing is marked that was not.
LEMMA UnbindStep ==
  ASSUME LostInv, planned # Nothing, NEW s \in Spaces, NEW f \in SetNames, Live(s, f, Nothing),
         UNCHANGED <<op, planned>>, OnlyPlannedIsRetired',
         \A g \in SetNames : Evidence(g) => Evidence(g)'
  PROVE  DiskOK' /\ (\A r \in Spaces : Given(r) => Given(r)')
<1>1. \A r \in Spaces, g \in SetNames :
        live'[r][g] = IF r = s /\ g = f THEN Nothing ELSE live[r][g]
  BY Place DEF Live, LostInv, LostTypeOK
<1>2. \A r \in Spaces, g \in SetNames : Marked(r, g)' => Marked(r, g)
  BY <1>1 DEF Marked, Kind
<1>3. MarksOK'
  BY <1>2 DEF LostInv, DiskOK, MarksOK, Entry
<1>4. ReleaseOK /\ planned.released \subseteq Spaces
  BY DEF LostInv, DiskOK, LostTypeOK, Journals
<1>5. ReleaseOK'
  BY <1>2, <1>4 DEF ReleaseOK, OwnNames, Owned, ReleasedBefore
<1>6. \A i \in 1..Len(SpaceList), g \in SetNames :
        Kind(live'[SpaceList[i]][g]) = "restored" => GivenBefore(i)
  BY <1>1, SpaceFacts DEF LostInv, DiskOK, GivenOK, Kind
<1> QED
  BY <1>3, <1>5, <1>6, ReceiptStep

LEMMA RetireBindingStep ==
  ASSUME LostInv, NEW c \in Clients, NEW f \in SetNames, RetireBinding(c, f)
  PROVE  LostInv' /\ live[Here(c)][f] = Entry(f).binding
<1> PICK i, a, t, s : i = space[c] /\ a = approved[c] /\ t = task[c] /\ s = Here(c)
  OBVIOUS
<1>1. /\ stage[c] = "retire" /\ planned # Nothing /\ planned \in Journals /\ s \in Spaces
      /\ live[s][f] = Entry(f).binding /\ Entry(f).binding # Nothing
  BY Retires DEF RetireBinding, Unretired
<1>2. Goes(c, "retire", i, a, t) /\ PlaceOK("retire", i, a)
  BY <1>1, Stays, Place DEF RetireBinding
<1>3. /\ UNCHANGED <<tgt, op, planned, host, edits>>
      /\ archive' = [archive EXCEPT ![f].binding = live[s][f]] /\ Live(s, f, Nothing)
  BY DEF RetireBinding
<1>4. DiskTypeOK'
  <2>1. live[s][f] \in Receipts
    BY <1>1, Place DEF DiskTypeOK
  <2> QED
    BY <1>1, <1>3, <2>1, Place DEF DiskTypeOK, Live
<1>5. \A g \in SetNames : /\ archive'[g].receipt = archive[g].receipt
                          /\ archive'[g].binding = IF g = f THEN Entry(f).binding ELSE archive[g].binding
  BY <1>1, <1>3, Place DEF DiskTypeOK
<1>6. OnlyPlannedIsRetired'
  BY <1>1, <1>3, <1>5 DEF LostInv, DiskOK, OnlyPlannedIsRetired, Entry
<1>7. \A g \in SetNames : Evidence(g) => Evidence(g)'
  BY <1>3, <1>5 DEF Evidence, Entry
<1>8. DiskOK' /\ (\A r \in Spaces : Given(r) => Given(r)')
  BY <1>1, <1>3, <1>6, <1>7, UnbindStep
<1>9. PlaceOK("retire", i, a)'
  BY <1>2, <1>3 DEF PlaceOK, Following, AtFirst, Retiring, Freeing, Completing, ClientStages, Locked
<1> QED
  BY <1>1, <1>2, <1>3, <1>4, <1>8, <1>9, DiskStep DEF Locked, Completing

LEMMA ReserveNamesStep ==
  ASSUME LostInv, NEW c \in Clients, ReserveNames(c)
  PROVE  LostInv'
<1> PICK i, a, t, s : i = space[c] /\ a = approved[c] /\ t = task[c] /\ s = Here(c)
  OBVIOUS
<1>1. stage[c] = "retire" /\ stage[c] \in Following /\ PlaceOK("retire", i, a) /\ s = SpaceList[i]
  BY Place DEF ReserveNames, Following, ClientStages, Locked
<1>2. /\ planned # Nothing /\ planned \in Journals /\ Owned(approved[c], s) = OwnNames(s) /\ s \in Spaces
      /\ \A f : Expected(c, f) = Entry(f)
  BY <1>1, SameNames
<1>3. planned.status \in Restorable /\ planned.released = {}
  BY <1>1, <1>2 DEF PlaceOK, Retiring, LostInv, DiskOK, ReleaseOK
<1>4. UNCHANGED <<live, tgt, archive, planned, host, edits>>
  BY DEF ReserveNames
<1>5. CASE Owned(approved[c], s) = {}
  <2>1. Goes(c, "record", i, a, t) /\ UNCHANGED op
    BY <1>5, GoesOn, Place DEF ReserveNames, ClientStages, Locked
  <2>2. PlaceOK("record", i, a)
    BY <1>1 DEF PlaceOK, Following, AtFirst, Retiring, Freeing, Completing, ClientStages, Locked
  <2>3. UNCHANGED disk /\ DiskTypeOK'
    BY <1>4, <2>1, QuietTypes, Place DEF disk, LostTypeOK
  <2> QED
    BY <1>1, <2>1, <2>2, <2>3, QuietStep DEF Locked, Completing
<1>6. CASE Owned(approved[c], s) # {}
  <2>1. Goes(c, "mark", i, a, t) /\ op' = IF op[s] = Nothing THEN [op EXCEPT ![s] = {}] ELSE op
    BY <1>6, GoesOn, Place DEF ReserveNames, ClientStages, Locked
  <2>2. \A r \in Spaces : op'[r] = IF r = s /\ op[r] = Nothing THEN {} ELSE op[r]
    BY <1>2, <2>1, Place DEF DiskTypeOK
  <2>3. \A r \in Spaces : Given(r)' <=> Given(r)
    BY <2>2 DEF Given
  <2>4. DiskTypeOK'
    BY <1>2, <1>4, <2>1, Place DEF DiskTypeOK
  <2>5. OnlyPlannedIsRetired' /\ MarksOK' /\ ReleaseOK'
    BY <1>2, <1>3, <1>4 DEF LostInv, DiskOK, OnlyPlannedIsRetired, MarksOK, ReleaseOK, Entry, Evidence, Marked
  <2>6. GivenOK'
    <3>1. \A k \in 1..Len(SpaceList) : GivenBefore(k) => GivenBefore(k)'
      BY <1>4, <2>3, SpaceFacts DEF GivenBefore, OwnNames, Owned
    <3>2. GivenOK
      BY <1>2 DEF LostInv, DiskOK
    <3> QED
      BY <1>4, <2>3, <3>1, <3>2, SpaceFacts DEF GivenOK
  <2>7. ASSUME NEW f \in OwnNames(s)
        PROVE  Evidence(f) /\ (live[s][f] = Nothing \/ Mine(live[s][f]))
    <3>1. f \in SetNames /\ Entry(f).owner = s /\ Retired(c, f) /\ Expected(c, f) = Entry(f)
      BY <1>2, <2>7 DEF OwnNames, Owned, Entry, ReserveNames
    <3>2. live[s][f] = Nothing \/ Mine(live[s][f])
      BY <3>1 DEF Retired
    <3>3. CASE Mine(live[s][f])
      BY <1>2, <3>1, <3>2, <3>3 DEF LostInv, DiskOK, MarksOK, Marked, Mine
    <3>4. CASE live[s][f] = Nothing
      <4>1. ~ Mine(live[s][f])
        BY <3>4 DEF Mine, Kind
      <4>2. Entry(f).binding # Nothing =>
              archive[f].binding = Entry(f).binding /\ TargetGone(f, Entry(f))
        BY <3>1, <4>1 DEF Retired
      <4>3. archive[f].receipt # Nothing => archive[f].receipt = Entry(f).receipt
        BY <3>1 DEF LostInv, DiskOK, OnlyPlannedIsRetired
      <4> QED
        BY <3>2, <4>2, <4>3 DEF Evidence, TargetGone
    <3> QED
      BY <3>2, <3>3, <3>4
  <2>8. ASSUME NEW f \in OwnNames(s) PROVE Evidence(f)' /\ (live'[s][f] = Nothing \/ Mine(live'[s][f]))
    BY <1>4, <2>7 DEF Evidence, Entry
  <2>9. PlaceOK("mark", i, a)'
    BY <1>1, <1>2, <1>4, <2>8
    DEF PlaceOK, Following, AtFirst, Retiring, Freeing, Completing, ClientStages, Locked, OwnNames
  <2>10. DiskOK'
    BY <1>2, <1>4, <2>5, <2>6 DEF DiskOK
  <2> QED
    BY <1>1, <1>2, <1>4, <2>1, <2>3, <2>4, <2>9, <2>10, DiskStep DEF Locked, Completing
<1> QED
  BY <1>5, <1>6

\* What a client of the set writes.
LEMMA SetBindings ==
  ASSUME NEW kind \in {"pending", "restored"}
  PROVE  /\ BindingOf(kind, 0, FALSE) \in Receipts /\ BindingOf(kind, 0, FALSE) # Nothing
         /\ Mine(BindingOf(kind, 0, FALSE)) /\ Kind(BindingOf(kind, 0, FALSE)) = kind
<1>1. BindingOf(kind, 0, FALSE) \in Receipts
  BY DEF BindingOf, Receipts
<1>2. BindingOf(kind, 0, FALSE) # Nothing
  BY <1>1, ReconciliationAssumption
<1>3. Kind(BindingOf(kind, 0, FALSE)) = kind /\ ~ HasTarget(BindingOf(kind, 0, FALSE))
  BY <1>2 DEF BindingOf, Kind, HasTarget
<1> QED
  BY <1>1, <1>2, <1>3 DEF Mine

LEMMA MarkNamesStep ==
  ASSUME LostInv, NEW c \in Clients, MarkNames(c)
  PROVE  LostInv'
<1> PICK i, a, t, s : i = space[c] /\ a = approved[c] /\ t = task[c] /\ s = Here(c)
  OBVIOUS
<1>1. stage[c] = "mark" /\ stage[c] \in Following /\ PlaceOK("mark", i, a) /\ s = SpaceList[i]
  BY Place DEF MarkNames, Following, ClientStages, Locked
<1>2. /\ planned # Nothing /\ planned \in Journals /\ Owned(approved[c], s) = OwnNames(s) /\ s \in Spaces
  BY <1>1, SameNames
<1>3. planned.status \in Restorable /\ planned.released = {}
  BY <1>1, <1>2 DEF PlaceOK, Retiring, LostInv, DiskOK, ReleaseOK
<1>4. UNCHANGED <<tgt, archive, op, planned, host, edits>>
  BY DEF MarkNames
<1>5. CASE GoOn(c, "record") /\ UNCHANGED live
  <2>1. Goes(c, "record", i, a, t)
    BY <1>5, GoesOn, Place DEF MarkNames, ClientStages, Locked
  <2>2. PlaceOK("record", i, a)
    BY <1>1 DEF PlaceOK, Following, AtFirst, Retiring, Freeing, Completing, ClientStages, Locked
  <2>3. UNCHANGED disk /\ DiskTypeOK'
    BY <1>4, <1>5, QuietTypes, Place DEF disk, LostTypeOK
  <2> QED
    BY <1>1, <2>1, <2>2, <2>3, QuietStep DEF Locked, Completing
<1>6. ASSUME NEW f \in SetNames, First(f, Unmarked(c)), UNCHANGED stage,
             Live(s, f, BindingOf("pending", 0, FALSE))
      PROVE  LostInv'
  <2>1. Goes(c, "mark", i, a, t)
    BY <1>1, <1>6, Stays, Place DEF MarkNames
  <2>2. f \in OwnNames(s) /\ Entry(f).owner = s /\ Evidence(f)
    BY <1>1, <1>2, <1>6 DEF First, Unmarked, OwnNames, Owned, Entry, PlaceOK
  <2>3. BindingOf("pending", 0, FALSE) \in Receipts /\ Mine(BindingOf("pending", 0, FALSE))
        /\ Kind(BindingOf("pending", 0, FALSE)) = "pending"
    BY SetBindings
  <2>4. \A r \in Spaces, g \in SetNames :
          live'[r][g] = IF r = s /\ g = f THEN BindingOf("pending", 0, FALSE) ELSE live[r][g]
    BY <1>2, <1>6, Place DEF Live, DiskTypeOK
  <2>5. DiskTypeOK'
    BY <1>2, <1>4, <1>6, <2>3, Place DEF DiskTypeOK, Live
  <2>6. OnlyPlannedIsRetired' /\ ReleaseOK'
    BY <1>2, <1>3, <1>4 DEF LostInv, DiskOK, OnlyPlannedIsRetired, ReleaseOK, Entry
  <2>7. MarksOK'
    <3> SUFFICES ASSUME NEW r \in Spaces, NEW g \in SetNames, Marked(r, g)'
                 PROVE  Entry(g).owner = r /\ Evidence(g)
      BY <1>2, <1>4 DEF MarksOK, Entry, Evidence
    <3>1. CASE r = s /\ g = f
      BY <2>2, <3>1
    <3>2. CASE ~ (r = s /\ g = f)
      BY <2>4, <3>2 DEF LostInv, DiskOK, MarksOK, Marked
    <3> QED
      BY <3>1, <3>2
  <2>8. \A k \in 1..Len(SpaceList), g \in SetNames :
          Kind(live'[SpaceList[k]][g]) = "restored" => GivenBefore(k)
    BY <1>2, <2>3, <2>4, SpaceFacts DEF LostInv, DiskOK, GivenOK
  <2>9. DiskOK' /\ (\A r \in Spaces : Given(r) => Given(r)')
    BY <1>2, <1>4, <2>6, <2>7, <2>8, ReceiptStep
  <2>10. ASSUME NEW g \in OwnNames(s) PROVE Evidence(g)' /\ (live'[s][g] = Nothing \/ Mine(live'[s][g]))
    <3>1. g \in SetNames /\ Evidence(g) /\ (live[s][g] = Nothing \/ Mine(live[s][g]))
      BY <1>1, <2>10 DEF PlaceOK, OwnNames, Owned
    <3> QED
      BY <1>2, <1>4, <2>3, <2>4, <3>1 DEF Evidence, Entry
  <2>11. PlaceOK("mark", i, a)'
    BY <1>1, <1>2, <1>4, <2>10
    DEF PlaceOK, Following, AtFirst, Retiring, Freeing, Completing, ClientStages, Locked, OwnNames
  <2> QED
    BY <1>1, <1>2, <1>4, <2>1, <2>5, <2>9, <2>11, DiskStep DEF Locked, Completing
<1> QED
  BY <1>5, <1>6 DEF MarkNames

LEMMA RecordStep ==
  ASSUME LostInv, NEW c \in Clients, Record(c)
  PROVE  LostInv'
<1> PICK i, a, t, s : i = space[c] /\ a = approved[c] /\ t = task[c] /\ s = Here(c)
  OBVIOUS
<1> DEFINE j == Journal(c)
           names == Owned(approved[c], s)
           new == names # {} /\ s \notin DOMAIN j.reservations
           reserved == IF new THEN Extended(j.reservations, s, names) ELSE j.reservations
<1>1. stage[c] = "record" /\ stage[c] \in Following /\ PlaceOK("record", i, a) /\ s = SpaceList[i]
      /\ i \in 1..Len(SpaceList)
  BY Place DEF Record, Following, ClientStages, Locked
<1>2. planned # Nothing /\ planned \in Journals /\ s \in Spaces
  BY <1>1, SameNames
<1>3. UNCHANGED <<live, tgt, archive, op, host, edits>> /\ NextSpace(c, "retire", "settle")
  BY DEF Record
<1>4. /\ j \in Journals /\ j.plan.names = planned.plan.names /\ j.status = planned.status
      /\ j.released = planned.released
  BY <1>1, <1>2, JournalFacts
<1>5. planned' = [j EXCEPT !.completed = @ \cup names, !.reservations = reserved]
  BY DEF Record
<1>6. reserved \in UNION {[X -> SUBSET SetNames] : X \in SUBSET Spaces}
  <2>1. PICK D \in SUBSET Spaces : j.reservations \in [D -> SUBSET SetNames]
    BY <1>4 DEF Journals
  <2>2. names \in SUBSET SetNames /\ D \cup {s} \in SUBSET Spaces
    BY <1>2 DEF Owned
  <2>3. Extended(j.reservations, s, names) \in [D \cup {s} -> SUBSET SetNames]
    BY <2>1, <2>2 DEF Extended
  <2>4. CASE new
    BY <2>2, <2>3, <2>4
  <2>5. CASE ~ new
    BY <2>1, <2>5
  <2> QED
    BY <2>4, <2>5
<1> HIDE DEF reserved, j
<1>7. planned' \in Journals /\ planned'.plan = j.plan /\ planned'.status = j.status /\ planned'.released = j.released
  <2>1. names \in SUBSET SetNames
    BY DEF Owned
  <2> QED
    BY <1>4, <1>5, <1>6, <2>1 DEF Journals
<1>8. planned' # Nothing
  BY <1>7, ReconciliationAssumption
<1>9. DiskTypeOK'
  BY <1>3, <1>7, Place DEF DiskTypeOK
<1>10. DiskOK'
  BY <1>2, <1>3, <1>4, <1>7, ReleaseKept, JournalStep
<1>11. \/ Goes(c, "retire", i + 1, a, t) /\ i + 1 \in 1..Len(SpaceList)
       \/ Goes(c, "settle", 1, a, t)
  <2>1. LostTypeOK /\ {"retire", "settle"} \subseteq ClientStages
    BY Place DEF ClientStages, Locked
  <2> QED
    BY <1>3, <2>1, GoesRound DEF Goes
<1>12. PlaceOK("retire", i + 1, a)' /\ PlaceOK("settle", 1, a)'
  BY <1>1, <1>2, <1>4, <1>7, <1>8
  DEF PlaceOK, Following, AtFirst, Retiring, Freeing, Completing, ClientStages, Locked
<1>13. \A r \in Spaces : Given(r) => Given(r)'
  BY <1>3 DEF Given
<1>14. ASSUME NEW l \in {"retire", "settle"}, NEW k, Goes(c, l, k, a, t), PlaceOK(l, k, a)' PROVE LostInv'
  BY <1>1, <1>2, <1>4, <1>7, <1>8, <1>9, <1>10, <1>13, <1>14, DiskStep DEF Locked, Completing
<1> QED
  BY <1>11, <1>12, <1>14

LEMMA SettleStep ==
  ASSUME LostInv, NEW c \in Clients, Settle(c)
  PROVE  LostInv'
<1> PICK i, a, t, j : i = space[c] /\ a = approved[c] /\ t = task[c] /\ j = Journal(c)
  OBVIOUS
<1>1. stage[c] = "settle" /\ stage[c] \in Following /\ PlaceOK("settle", i, a)
  BY Place DEF Settle, Following, ClientStages, Locked
<1>2. planned # Nothing /\ planned \in Journals
  BY <1>1, SameNames
<1>3. UNCHANGED <<live, tgt, archive, op, host, edits>> /\ planned' = [j EXCEPT !.status = "reserved"]
  BY DEF Settle
<1>4. /\ j \in Journals /\ j.plan.names = planned.plan.names /\ j.released = planned.released
  BY <1>1, <1>2, JournalFacts
<1>5. planned' \in Journals /\ planned'.plan = j.plan /\ planned'.released = j.released
  BY <1>3, <1>4, JournalTypes DEF Journals
<1>6. planned' # Nothing
  BY <1>5, ReconciliationAssumption
<1>7. DiskTypeOK'
  BY <1>3, <1>5, Place DEF DiskTypeOK
<1>8. planned.status \in Restorable
  BY <1>1 DEF PlaceOK, Retiring
<1>9. DiskOK'
  BY <1>2, <1>3, <1>4, <1>5, <1>8, ReleaseKept, JournalStep
<1>10. Goes(c, "host", i, a, t)
  BY GoesOn, Place DEF Settle, ClientStages
<1>11. PlaceOK("host", i, a)'
  BY <1>1, <1>2, <1>4, <1>5, <1>6
  DEF PlaceOK, Following, AtFirst, Retiring, Freeing, Completing, ClientStages, Locked
<1>12. \A r \in Spaces : Given(r) => Given(r)'
  BY <1>3 DEF Given
<1> QED
  BY <1>1, <1>2, <1>4, <1>5, <1>6, <1>7, <1>9, <1>10, <1>11, <1>12, DiskStep DEF Locked, Completing

LEMMA Gives ==
  ASSUME LostInv, NEW c \in Clients, stage[c] \in Completing
  PROVE  /\ stage[c] \in Following /\ planned # Nothing /\ planned \in Journals /\ Here(c) \in Spaces
         /\ OwnNames(Here(c)) # {} /\ op[Here(c)] \in SUBSET SetNames
         /\ Owned(approved[c], Here(c)) = OwnNames(Here(c))
         /\ GivenBefore(space[c]) /\ ReleaseOK /\ GivenOK
<1>1. stage[c] \in Following
  BY DEF Following, Completing, ClientStages
<1>2. /\ planned # Nothing /\ planned \in Journals /\ Here(c) \in Spaces
      /\ Owned(approved[c], Here(c)) = OwnNames(Here(c))
  BY <1>1, SameNames
<1>3. OwnNames(Here(c)) # {} /\ op[Here(c)] # Nothing /\ GivenBefore(space[c])
  BY Place DEF PlaceOK
<1>4. op[Here(c)] \in SUBSET SetNames
  BY <1>2, <1>3, Place DEF DiskTypeOK
<1> QED
  BY <1>1, <1>2, <1>3, <1>4 DEF LostInv, DiskOK

LEMMA GiveNameStep ==
  ASSUME LostInv, NEW c \in Clients, GiveName(c)
  PROVE  LostInv'
<1> PICK i, a, t, s : i = space[c] /\ a = approved[c] /\ t = task[c] /\ s = Here(c)
  OBVIOUS
<1>1. /\ stage[c] = "restored" /\ PlaceOK("restored", i, a) /\ s = SpaceList[i] /\ i \in 1..Len(SpaceList)
      /\ stage[c] \in Completing /\ stage[c] \notin Locked
  BY Place DEF GiveName, Completing, Locked
<1>2. /\ planned # Nothing /\ planned \in Journals /\ s \in Spaces
      /\ OwnNames(s) # {} /\ op[s] \in SUBSET SetNames /\ Owned(approved[c], s) = OwnNames(s)
      /\ GivenBefore(i) /\ ReleaseOK /\ GivenOK
  BY <1>1, Gives
<1>3. op[s] # Nothing
  BY <1>2, ReconciliationAssumption
<1>4. UNCHANGED <<tgt, archive, op, planned, host, edits>>
  BY DEF GiveName
<1>5. CASE Incomplete(c) = {} /\ NextSpace(c, "complete", "idle") /\ UNCHANGED live
  <2>1. UNCHANGED disk /\ DiskTypeOK'
    BY <1>4, <1>5, QuietTypes, Place DEF disk, LostTypeOK
  <2>2. \/ Goes(c, "complete", i + 1, a, t) /\ i + 1 \in 1..Len(SpaceList)
        \/ Goes(c, "idle", 1, Nothing, Nothing)
    <3>1. LostTypeOK /\ {"complete", "idle"} \subseteq ClientStages
      BY Place DEF ClientStages
    <3> QED
      BY <1>5, <3>1, GoesRound DEF Goes
  <2>3. Given(s)
    BY <1>2, <1>3, <1>5 DEF Given, Incomplete
  <2>4. PlaceOK("complete", i + 1, a)
    BY <1>1, <1>2, <2>3, BeforeNext
    DEF PlaceOK, Following, AtFirst, Retiring, Freeing, Completing, ClientStages, Locked
  <2>5. CASE Goes(c, "complete", i + 1, a, t)
    BY <2>1, <2>4, <2>5, QuietStep DEF Locked, Completing
  <2> QED
    BY <2>1, <2>2, <2>5, EndStep
<1>6. ASSUME NEW f \in SetNames, First(f, Incomplete(c)),
             \A g \in Owned(approved[c], s) \cap UpTo(f) : Mine(live[s][g]),
             Live(s, f, BindingOf("restored", 0, FALSE)), GoOn(c, "completed"), UNCHANGED <<space, task, approved>>
      PROVE  LostInv'
  <2>1. Goes(c, "completed", i, a, t)
    <3>1. LostTypeOK /\ "completed" \in ClientStages
      BY Place DEF ClientStages, Completing
    <3> QED
      BY <1>6, <3>1, GoesOn
  <2>2. f \in OwnNames(s) /\ f \in UpTo(f)
    <3>1. Position(f) <= Position(f)
      BY <1>6 DEF First
    <3> QED
      BY <1>2, <1>6, <3>1 DEF First, Incomplete, UpTo
  <2>3. Entry(f).owner = s /\ Evidence(f)
    BY <1>2, <1>6, <2>2 DEF LostInv, DiskOK, MarksOK, Marked, Mine
  <2>4. /\ BindingOf("restored", 0, FALSE) \in Receipts
        /\ Kind(BindingOf("restored", 0, FALSE)) = "restored"
    BY SetBindings
  <2>5. \A r \in Spaces, g \in SetNames :
          live'[r][g] = IF r = s /\ g = f THEN BindingOf("restored", 0, FALSE) ELSE live[r][g]
    BY <1>2, <1>6, Place DEF Live, DiskTypeOK
  <2>6. DiskTypeOK'
    BY <1>2, <1>4, <1>6, <2>4, Place DEF DiskTypeOK, Live
  <2>7. OnlyPlannedIsRetired'
    BY <1>2, <1>4 DEF LostInv, DiskOK, OnlyPlannedIsRetired, Entry
  <2>8. MarksOK'
    <3> SUFFICES ASSUME NEW r \in Spaces, NEW g \in SetNames, Marked(r, g)'
                 PROVE  Entry(g).owner = r /\ Evidence(g)
      BY <1>2, <1>4 DEF MarksOK, Entry, Evidence
    <3>1. CASE r = s /\ g = f
      BY <2>3, <3>1
    <3>2. CASE ~ (r = s /\ g = f)
      BY <2>5, <3>2 DEF LostInv, DiskOK, MarksOK, Marked
    <3> QED
      BY <3>1, <3>2
  <2>9. ReleaseOK'
    <3>1. ASSUME NEW r \in planned.released, OwnNames(r) # {}
          PROVE  op[r] = Nothing /\ \A g \in SetNames : ~ Marked(r, g)'
      <4>1. r \in Spaces /\ op[r] = Nothing /\ \A g \in SetNames : ~ Marked(r, g)
        BY <1>2, <3>1 DEF ReleaseOK, Journals
      <4> QED
        BY <1>3, <2>5, <4>1 DEF Marked
    <3> QED
      BY <1>2, <1>4, <3>1 DEF ReleaseOK, OwnNames, ReleasedBefore, Owned
  <2>10. ASSUME NEW k \in 1..Len(SpaceList), NEW g \in SetNames, Kind(live'[SpaceList[k]][g]) = "restored"
         PROVE  GivenBefore(k)
    <3>1. SpaceList[k] \in Spaces
      BY SpaceFacts
    <3>2. CASE k = i
      BY <1>2, <3>2
    <3>3. CASE k # i
      <4>1. SpaceList[k] # s
        BY <1>1, <3>3, SpaceFacts
      <4>2. live'[SpaceList[k]][g] = live[SpaceList[k]][g]
        BY <2>5, <3>1, <4>1
      <4> QED
        BY <1>2, <2>10, <4>2 DEF GivenOK
    <3> QED
      BY <3>2, <3>3
  <2>11. DiskOK' /\ (\A r \in Spaces : Given(r) => Given(r)')
    BY <1>2, <1>4, <2>7, <2>8, <2>9, <2>10, ReceiptStep
  <2>12. PlaceOK("completed", i, a)'
    BY <1>1, <1>2, <1>3, <1>4
    DEF PlaceOK, Following, AtFirst, Retiring, Freeing, Completing, ClientStages, Locked, OwnNames, GivenBefore,
      Given
  <2> QED
    BY <1>1, <1>2, <1>4, <2>1, <2>6, <2>11, <2>12, DiskStep DEF Locked, Completing
<1> QED
  BY <1>5, <1>6 DEF GiveName

LEMMA RecordGivenStep ==
  ASSUME LostInv, NEW c \in Clients, RecordGiven(c)
  PROVE  LostInv'
<1> PICK i, a, t, s : i = space[c] /\ a = approved[c] /\ t = task[c] /\ s = Here(c)
  OBVIOUS
<1>1. /\ stage[c] = "completed" /\ PlaceOK("completed", i, a) /\ s = SpaceList[i] /\ i \in 1..Len(SpaceList)
      /\ stage[c] \in Completing /\ stage[c] \notin Locked
  BY Place DEF RecordGiven, Completing, Locked
<1>2. /\ planned # Nothing /\ planned \in Journals /\ s \in Spaces
      /\ OwnNames(s) # {} /\ op[s] \in SUBSET SetNames
      /\ GivenBefore(i) /\ ReleaseOK /\ GivenOK
  BY <1>1, Gives
<1>3. op[s] # Nothing
  BY <1>2, ReconciliationAssumption
<1>4. UNCHANGED <<live, tgt, archive, planned, host, edits>>
  BY DEF RecordGiven
<1>5. PICK f \in SetNames : op' = [op EXCEPT ![s] = op[s] \cup {f}]
  BY DEF RecordGiven
<1>6. op[s] \cup {f} \in SUBSET SetNames /\ op[s] \cup {f} # Nothing
  BY <1>2, ReconciliationAssumption
<1>7. \A r \in Spaces : op'[r] = IF r = s THEN op[s] \cup {f} ELSE op[r]
  BY <1>2, <1>5, Place DEF DiskTypeOK
<1>8. DiskTypeOK'
  BY <1>4, <1>5, <1>6, Place DEF DiskTypeOK
<1>9. \A r \in Spaces : (Given(r) => Given(r)') /\ (op[r] # Nothing => op'[r] # Nothing)
  BY <1>6, <1>7 DEF Given
<1>10. \A k \in 1..Len(SpaceList) : GivenBefore(k) => GivenBefore(k)'
  BY <1>4, <1>9, SpaceFacts DEF GivenBefore, OwnNames, Owned
<1>11. DiskOK'
  <2>1. OnlyPlannedIsRetired' /\ MarksOK'
    BY <1>2, <1>4 DEF LostInv, DiskOK, OnlyPlannedIsRetired, MarksOK, Entry, Evidence, Marked
  <2>2. ReleaseOK'
    <3>1. ASSUME NEW r \in planned.released, OwnNames(r) # {}
          PROVE  op'[r] = Nothing /\ \A g \in SetNames : ~ Marked(r, g)
      BY <1>2, <1>3, <1>7, <3>1 DEF ReleaseOK, Journals
    <3> QED
      BY <1>2, <1>4, <3>1 DEF ReleaseOK, OwnNames, Owned, ReleasedBefore, Marked
  <2>3. GivenOK'
    <3> SUFFICES ASSUME NEW k \in 1..Len(SpaceList),
                        Given(SpaceList[k])' \/ \E g \in SetNames : Kind(live[SpaceList[k]][g]) = "restored"
                 PROVE  GivenBefore(k)
      BY <1>4, <1>10 DEF GivenOK
    <3>1. CASE k = i
      BY <1>2, <3>1
    <3>2. CASE k # i
      BY <1>1, <1>2, <1>7, <3>2, SpaceFacts DEF GivenOK, Given
    <3> QED
      BY <3>1, <3>2
  <2> QED
    BY <1>2, <1>4, <2>1, <2>2, <2>3 DEF DiskOK
<1>12. Goes(c, "restored", i, a, t)
  <2>1. LostTypeOK /\ "restored" \in ClientStages
    BY Place DEF ClientStages, Completing
  <2> QED
    BY <2>1, GoesOn DEF RecordGiven
<1>13. PlaceOK("restored", i, a)'
  BY <1>1, <1>2, <1>4, <1>9, <1>10
  DEF PlaceOK, Following, AtFirst, Retiring, Freeing, Completing, ClientStages, Locked, OwnNames, Owned
<1> QED
  BY <1>1, <1>2, <1>4, <1>8, <1>9, <1>11, <1>12, <1>13, DiskStep DEF Locked

LEMMA OpenReleasesStep ==
  ASSUME LostInv, NEW c \in Clients, OpenReleases(c)
  PROVE  LostInv'
<1> PICK i, a, t, j : i = space[c] /\ a = approved[c] /\ t = task[c] /\ j = Journal(c)
  OBVIOUS
<1>1. stage[c] = "open" /\ PlaceOK("open", i, a) /\ i = 1 /\ a \in Plans
  BY Place DEF OpenReleases, PlaceOK, AtFirst
<1>2. planned # Nothing /\ j.plan = a
  BY DEF OpenReleases, Matches
<1>3. /\ planned \in Journals /\ j \in Journals /\ j.plan.names = planned.plan.names
      /\ j.reservations = planned.reservations /\ j.intents = planned.intents /\ j.released = planned.released
  BY <1>1, <1>2, JournalFacts
<1>4. UNCHANGED <<live, tgt, archive, op, host, edits>>
  BY DEF OpenReleases
<1>5. /\ planned' \in Journals /\ planned'.plan.names = planned.plan.names
      /\ planned'.released = planned.released /\ planned'.status \notin Restorable
  <2>1. CASE planned.status = "released"
    BY <1>3, <2>1 DEF OpenReleases, Restorable
  <2>2. CASE planned.status # "released"
    <3> DEFINE left == Spaces \ j.released
               reserved == [s \in left \cup DOMAIN j.reservations |->
                 IF s \in left THEN PendingIn(s, Owned(j.plan, s)) ELSE j.reservations[s]]
               intents == j.intents \cup left
    <3>1. planned' = [j EXCEPT !.status = "releasing", !.reservations = reserved, !.intents = intents]
      BY <2>2 DEF OpenReleases
    <3>2. PICK D \in SUBSET Spaces : j.reservations \in [D -> SUBSET SetNames]
      BY <1>3 DEF Journals
    <3>3. \A s : PendingIn(s, Owned(j.plan, s)) \in SUBSET SetNames
      BY DEF PendingIn, Owned
    <3>4. reserved \in [left \cup D -> SUBSET SetNames] /\ left \cup D \in SUBSET Spaces
      BY <3>2, <3>3
    <3>5. reserved \in UNION {[X -> SUBSET SetNames] : X \in SUBSET Spaces} /\ intents \in SUBSET Spaces
      BY <1>3, <3>4, ZenonT(60) DEF Journals
    <3> HIDE DEF reserved, intents
    <3> QED
      BY <1>3, <3>1, <3>5, ZenonT(60) DEF Journals, Restorable
  <2> QED
    BY <2>1, <2>2
<1>6. planned' # Nothing
  BY <1>5, ReconciliationAssumption
<1>7. DiskTypeOK'
  BY <1>4, <1>5, Place DEF DiskTypeOK
<1>8. DiskOK'
  BY <1>2, <1>4, <1>5, ReleaseKept, JournalStep
<1>9. Goes(c, "hostRelease", i, a, t)
  BY GoesOn, Place DEF OpenReleases, ClientStages, Locked
<1>10. PlaceOK("hostRelease", i, a)'
  BY <1>1, <1>2, <1>3, <1>5, <1>6
  DEF PlaceOK, Following, AtFirst, Retiring, Freeing, Completing, ClientStages, Locked
<1>11. \A r \in Spaces : Given(r) => Given(r)'
  BY <1>4 DEF Given
<1> QED
  BY <1>1, <1>2, <1>5, <1>6, <1>7, <1>8, <1>9, <1>10, <1>11, DiskStep DEF Locked, Completing

LEMMA Releases ==
  ASSUME LostInv, NEW c \in Clients, stage[c] \in {"free", "commit", "settled"}
  PROVE  /\ stage[c] \in Following /\ stage[c] \in Locked /\ stage[c] \notin Completing
         /\ planned # Nothing /\ planned \in Journals /\ planned.status \notin Restorable
         /\ approved[c].names = planned.plan.names /\ Owned(approved[c], Here(c)) = OwnNames(Here(c))
         /\ Here(c) \in Spaces /\ DiskOK /\ ReleaseOK /\ GivenOK
         /\ planned.released \subseteq Spaces
<1>1. stage[c] \in Following /\ stage[c] \in Locked /\ stage[c] \notin Completing /\ stage[c] \in Freeing
  BY DEF Following, ClientStages, Locked, Completing, Freeing
<1>2. planned.status \notin Restorable
  BY <1>1, Place DEF PlaceOK
<1>3. planned \in Journals => planned.released \subseteq Spaces
  BY DEF Journals
<1> QED
  BY <1>1, <1>2, <1>3, SameNames DEF LostInv, DiskOK

LEMMA FreeNamesStep ==
  ASSUME LostInv, NEW c \in Clients, FreeNames(c)
  PROVE  LostInv'
<1> PICK i, a, t, s : i = space[c] /\ a = approved[c] /\ t = task[c] /\ s = Here(c)
  OBVIOUS
<1>1. /\ stage[c] = "free" /\ PlaceOK("free", i, a) /\ s = SpaceList[i] /\ i \in 1..Len(SpaceList)
  BY Place DEF FreeNames
<1>2. /\ planned # Nothing /\ planned \in Journals /\ planned.status \notin Restorable
      /\ a.names = planned.plan.names /\ Owned(approved[c], s) = OwnNames(s)
      /\ s \in Spaces /\ ReleaseOK /\ GivenOK /\ planned.released \subseteq Spaces
      /\ stage[c] \in Locked /\ stage[c] \notin Completing
  BY <1>1, Releases
<1>3. UNCHANGED <<tgt, archive, planned, host, edits, approved, task, space>>
  BY DEF FreeNames
<1>4. Inspectable(s, OwnNames(s)) /\ ReleasedBefore(i)
  BY <1>1 DEF PlaceOK
<1>5. ASSUME NEW f \in SetNames, First(f, PendingIn(s, OwnNames(s))), Live(s, f, Nothing), UNCHANGED <<stage, op>>
      PROVE  LostInv'
  <2>1. Goes(c, "free", i, a, t)
    BY <1>1, <1>3, <1>5, Stays, Place
  <2>2. DiskTypeOK'
    BY <1>2, <1>3, <1>5, Place DEF DiskTypeOK, Live
  <2>3. OnlyPlannedIsRetired'
    BY <1>2, <1>3 DEF LostInv, DiskOK, OnlyPlannedIsRetired, Entry
  <2>4. DiskOK' /\ (\A r \in Spaces : Given(r) => Given(r)')
    BY <1>2, <1>3, <1>5, <2>3, UnbindStep DEF Evidence, Entry
  <2>5. \A r \in Spaces, g \in SetNames :
          live'[r][g] = IF r = s /\ g = f THEN Nothing ELSE live[r][g]
    BY <1>2, <1>5, Place DEF Live, DiskTypeOK
  <2>6. Inspectable(s, OwnNames(s))'
    <3>1. OwnNames(s)' = OwnNames(s) /\ OwnNames(s) \subseteq SetNames /\ op' = op
      BY <1>3, <1>5 DEF OwnNames, Owned
    <3>2. \A g \in OwnNames(s) : Kind(live'[s][g]) = "none" \/ Kind(live'[s][g]) = Kind(live[s][g])
      BY <1>2, <2>5, <3>1 DEF Kind
    <3> QED
      BY <1>4, <3>1, <3>2 DEF Inspectable
  <2>7. PlaceOK("free", i, a)'
    BY <1>1, <1>2, <1>3, <1>4, <2>6
    DEF PlaceOK, Following, AtFirst, Retiring, Freeing, Completing, ClientStages, Locked, ReleasedBefore
  <2> QED
    BY <1>2, <1>3, <2>1, <2>2, <2>4, <2>7, DiskStep DEF Locked, Completing
<1>6. ASSUME PendingIn(s, OwnNames(s)) = {}, op' = [op EXCEPT ![s] = Nothing], GoOn(c, "commit"), UNCHANGED live
      PROVE  LostInv'
  <2>1. Goes(c, "commit", i, a, t)
    BY <1>3, <1>6, GoesOn, Place DEF ClientStages, Locked
  <2>2. DiskTypeOK'
    BY <1>2, <1>3, <1>6, Place DEF DiskTypeOK
  <2>3. ~ Given(s) /\ \A r \in Spaces : op'[r] = IF r = s THEN Nothing ELSE op[r]
    BY <1>2, <1>4, <1>6, Place DEF DiskTypeOK, Inspectable, Given
  <2>4. \A r \in Spaces : Given(r)' <=> Given(r)
    BY <2>3 DEF Given
  <2>5. ASSUME NEW f \in SetNames PROVE ~ Marked(s, f)
    <3>1. CASE f \in OwnNames(s)
      <4>1. CASE op[s] = Nothing
        BY <1>4, <3>1, <4>1 DEF Inspectable, Marked
      <4>2. CASE op[s] # Nothing
        <5>1. Kind(live[s][f]) \in {"none", "pending"} /\ ~ IsPending(live[s][f])
          BY <1>4, <1>6, <3>1, <4>2 DEF Inspectable, PendingIn
        <5> QED
          BY <5>1 DEF Marked, IsPending
      <4> QED
        BY <4>1, <4>2
    <3>2. CASE f \notin OwnNames(s)
      BY <1>2, <3>2 DEF LostInv, DiskOK, MarksOK, OwnNames, Owned, Entry
    <3> QED
      BY <3>1, <3>2
  <2>6. OnlyPlannedIsRetired' /\ MarksOK'
    BY <1>2, <1>3, <1>6 DEF LostInv, DiskOK, OnlyPlannedIsRetired, MarksOK, Entry, Evidence, Marked
  <2>7. ReleaseOK'
    BY <1>2, <1>3, <1>6, <2>3 DEF ReleaseOK, OwnNames, Owned, ReleasedBefore, Marked
  <2>8. GivenOK'
    <3>1. \A k \in 1..Len(SpaceList) : GivenBefore(k) => GivenBefore(k)'
      BY <1>3, <2>4, SpaceFacts DEF GivenBefore, OwnNames, Owned
    <3> QED
      BY <1>2, <1>6, <2>4, <3>1, SpaceFacts DEF GivenOK
  <2>9. DiskOK'
    BY <1>2, <1>3, <2>6, <2>7, <2>8 DEF DiskOK
  <2>10. op'[s] = Nothing /\ \A f \in SetNames : ~ Marked(s, f)'
    BY <1>2, <1>6, <2>3, <2>5 DEF Marked
  <2>11. PlaceOK("commit", i, a)'
    BY <1>1, <1>2, <1>3, <1>4, <2>10
    DEF PlaceOK, Following, AtFirst, Retiring, Freeing, Completing, ClientStages, Locked, ReleasedBefore
  <2> QED
    BY <1>2, <1>3, <2>1, <2>2, <2>4, <2>9, <2>11, DiskStep DEF Locked, Completing
<1> QED
  BY <1>2, <1>5, <1>6 DEF FreeNames

LEMMA CommitStep ==
  ASSUME LostInv, NEW c \in Clients, Commit(c)
  PROVE  LostInv'
<1> PICK i, a, t, s : i = space[c] /\ a = approved[c] /\ t = task[c] /\ s = Here(c)
  OBVIOUS
<1>1. /\ stage[c] = "commit" /\ PlaceOK("commit", i, a) /\ s = SpaceList[i] /\ i \in 1..Len(SpaceList)
  BY Place DEF Commit
<1>2. /\ planned # Nothing /\ planned \in Journals /\ planned.status \notin Restorable
      /\ a.names = planned.plan.names /\ s \in Spaces /\ ReleaseOK /\ planned.released \subseteq Spaces
      /\ stage[c] \in Locked /\ stage[c] \notin Completing
  BY <1>1, Releases
<1>3. /\ UNCHANGED <<live, tgt, archive, op, host, edits>> /\ NextSpace(c, "validate", "settled")
      /\ planned' = [planned EXCEPT !.released = @ \cup {s}]
  BY DEF Commit
<1>4. /\ planned' \in Journals /\ planned'.plan = planned.plan /\ planned'.status = planned.status
      /\ planned'.released = planned.released \cup {s}
  BY <1>2, <1>3, JournalTypes DEF Journals
<1>5. planned' # Nothing
  BY <1>4, ReconciliationAssumption
<1>6. DiskTypeOK'
  BY <1>3, <1>4, Place DEF DiskTypeOK
<1>7. /\ op[s] = Nothing /\ (\A f \in SetNames : ~ Marked(s, f)) /\ ReleasedBefore(i)
  BY <1>1 DEF PlaceOK
<1>8. \A k \in 1..Len(SpaceList) : ReleasedBefore(k) => ReleasedBefore(k)'
  BY <1>4 DEF ReleasedBefore
<1>9. ReleaseOK'
  <2>1. \A k \in 1..Len(SpaceList) : SpaceList[k] \in planned'.released => ReleasedBefore(k)'
    <3> SUFFICES ASSUME NEW k \in 1..Len(SpaceList), SpaceList[k] \in planned.released \cup {s}
                 PROVE  ReleasedBefore(k)
      BY <1>4, <1>8
    <3>1. CASE SpaceList[k] = s
      BY <1>1, <1>7, <3>1, SpaceFacts
    <3> QED
      BY <1>2, <3>1 DEF ReleaseOK
  <2> QED
    BY <1>2, <1>3, <1>4, <1>7, <2>1 DEF ReleaseOK, OwnNames, Owned, Marked
<1>10. DiskOK'
  BY <1>2, <1>3, <1>4, <1>9, JournalStep
<1>11. \/ Goes(c, "validate", i + 1, a, t) /\ i + 1 \in 1..Len(SpaceList)
       \/ Goes(c, "settled", 1, a, t)
  <2>1. LostTypeOK /\ {"validate", "settled"} \subseteq ClientStages
    BY Place DEF ClientStages, Locked
  <2> QED
    BY <1>3, <2>1, GoesRound DEF Goes
<1>12. ReleasedBefore(i + 1)'
  <2>1. i \in Int /\ \A k \in 1..((i + 1) - 1) : k = i \/ k \in 1..(i - 1)
    BY <1>1, SpaceFacts
  <2> QED
    BY <1>1, <1>4, <1>7, <2>1 DEF ReleasedBefore
<1>13. PlaceOK("validate", i + 1, a)' /\ PlaceOK("settled", 1, a)'
  BY <1>1, <1>2, <1>4, <1>5, <1>12
  DEF PlaceOK, Following, AtFirst, Retiring, Freeing, Completing, ClientStages, Locked
<1>14. \A r \in Spaces : Given(r) => Given(r)'
  BY <1>3 DEF Given
<1>15. ASSUME NEW l \in {"validate", "settled"}, NEW k, Goes(c, l, k, a, t), PlaceOK(l, k, a)' PROVE LostInv'
  BY <1>2, <1>4, <1>5, <1>6, <1>10, <1>14, <1>15, DiskStep DEF Locked, Completing
<1> QED
  BY <1>11, <1>13, <1>15

LEMMA ReleasedStep ==
  ASSUME LostInv, NEW c \in Clients, Released(c)
  PROVE  LostInv'
<1>1. stage[c] = "settled"
  BY DEF Released
<1>2. planned # Nothing /\ planned \in Journals /\ stage[c] \in Locked /\ stage[c] \notin Completing
  BY <1>1, Releases
<1>3. /\ UNCHANGED <<live, tgt, archive, op, host, edits>> /\ Finish(c)
      /\ planned' = [planned EXCEPT !.status = "released", !.completed = {}]
  BY DEF Released
<1>4. /\ planned' \in Journals /\ planned'.plan = planned.plan /\ planned'.status \notin Restorable
      /\ planned'.released = planned.released
  BY <1>2, <1>3, JournalTypes DEF Journals, Restorable
<1>5. planned' # Nothing
  BY <1>4, ReconciliationAssumption
<1>6. DiskTypeOK'
  BY <1>3, <1>4, Place DEF DiskTypeOK
<1>7. DiskOK'
  BY <1>2, <1>3, <1>4, ReleaseKept, JournalStep
<1>8. Goes(c, "idle", 1, Nothing, Nothing)
  BY <1>3, Finishes, Place
<1>9. PlaceOK("idle", 1, Nothing)'
  BY DEF PlaceOK, Following, AtFirst, Retiring, Freeing, Completing
<1>10. \A r \in Spaces : Given(r) => Given(r)'
  BY <1>3 DEF Given
<1> QED
  BY <1>2, <1>4, <1>5, <1>6, <1>7, <1>8, <1>9, <1>10, DiskStep DEF Locked, Completing

\* An ordinary command neither reserves nor gives a name out.
LEMMA OrdinaryKinds ==
  ASSUME LostInv, NobodyLocks, Ordinary, UNCHANGED stage, DiskTypeOK',
         \A s \in Spaces, f \in SetNames :
           Kind(live'[s][f]) \in {"none", "ordinary"} \/ Kind(live'[s][f]) = Kind(live[s][f])
  PROVE  LostInv'
<1>1. UNCHANGED <<archive, op, planned>>
  BY DEF Ordinary
<1>2. \A s \in Spaces, f \in SetNames : Marked(s, f)' => Marked(s, f)
  BY DEF Marked
<1>3. MarksOK'
  BY <1>1, <1>2 DEF LostInv, DiskOK, MarksOK, Evidence, Entry
<1>4. ASSUME planned # Nothing PROVE GivenOK'
  <2>1. GivenOK
    BY <1>4 DEF LostInv, DiskOK
  <2>2. \A k \in 1..Len(SpaceList), f \in SetNames :
          Kind(live'[SpaceList[k]][f]) = "restored" => Kind(live[SpaceList[k]][f]) = "restored"
    BY SpaceFacts
  <2> QED
    BY <1>1, <2>1, <2>2 DEF GivenOK, GivenBefore, Given, OwnNames, Owned
<1> QED
  BY <1>2, <1>3, <1>4, CommandStep

\* One binding is written.
LEMMA OneBinding ==
  ASSUME LostInv, NobodyLocks, Ordinary, UNCHANGED <<tgt, stage>>, edits' \in Nat,
         NEW s \in Spaces, NEW f \in SetNames, NEW b \in Receipts \cup {Nothing}, Live(s, f, b),
         Kind(b) \in {"none", "ordinary"} \/ Kind(b) = Kind(live[s][f])
  PROVE  LostInv'
<1>1. \A r \in Spaces, g \in SetNames : live'[r][g] = IF r = s /\ g = f THEN b ELSE live[r][g]
  BY Place DEF Live, LostInv, LostTypeOK
<1>2. DiskTypeOK'
  BY DEF Live, LostInv, LostTypeOK, DiskTypeOK, Ordinary
<1> QED
  BY <1>1, <1>2, OrdinaryKinds

LEMMA BindNameStep ==
  ASSUME LostInv, NEW s \in Spaces, NEW f \in SetNames, BindName(s, f)
  PROVE  LostInv'
<1>1. edits' \in Nat
  BY DEF BindName, Draw, LostInv, LostTypeOK
<1> PICK e : e = edits'
  OBVIOUS
<1>2. BindingOf("ordinary", e, FALSE) \in Receipts
  BY <1>1 DEF BindingOf, Receipts
<1>3. Kind(BindingOf("ordinary", e, FALSE)) = "ordinary"
  BY <1>2, ReconciliationAssumption DEF BindingOf, Kind
<1>4. Live(s, f, BindingOf("ordinary", e, FALSE)) /\ NobodyLocks /\ Ordinary /\ UNCHANGED <<tgt, stage>>
  BY DEF BindName, NameFree
<1> QED
  BY <1>1, <1>2, <1>3, <1>4, OneBinding

LEMMA WriteBindingStep ==
  ASSUME LostInv, NEW s \in Spaces, NEW f \in SetNames, WriteBinding(s, f)
  PROVE  LostInv'
<1>1. edits' \in Nat
  BY DEF WriteBinding, Draw, LostInv, LostTypeOK
<1> PICK b : b = BindingOf(live[s][f].kind, edits', ~ live[s][f].target)
  OBVIOUS
<1>2. live[s][f] # Nothing /\ live[s][f] \in Receipts
  BY DEF WriteBinding, Kind, LostInv, LostTypeOK
<1>3. live[s][f].kind \in {"ordinary", "pending", "restored"} /\ (~ live[s][f].target) \in BOOLEAN
  BY <1>2 DEF Receipts
<1>4. b \in Receipts
  BY <1>1, <1>3 DEF BindingOf, Receipts
<1>5. b # Nothing
  BY <1>4, ReconciliationAssumption
<1>6. Kind(b) = Kind(live[s][f])
  BY <1>2, <1>5 DEF BindingOf, Kind
<1>7. Live(s, f, b) /\ NobodyLocks /\ Ordinary /\ UNCHANGED <<tgt, stage>>
  BY DEF WriteBinding, NameFree
<1> QED
  BY <1>1, <1>4, <1>6, <1>7, OneBinding

LEMMA UnbindNameStep ==
  ASSUME LostInv, NEW s \in Spaces, NEW f \in SetNames, UnbindName(s, f)
  PROVE  LostInv'
<1>1. edits' \in Nat /\ Kind(Nothing) = "none"
  BY DEF UnbindName, Kind, LostInv, LostTypeOK
<1>2. Live(s, f, Nothing) /\ NobodyLocks /\ Ordinary /\ UNCHANGED <<tgt, stage>>
  BY DEF UnbindName, NameFree
<1> QED
  BY <1>1, <1>2, OneBinding

LEMMA TargetsStep ==
  ASSUME LostInv, NEW f \in SetNames, RewriteTarget(f) \/ ForgetTarget(f)
  PROVE  LostInv'
<1>1. edits' \in Nat
  BY DEF RewriteTarget, ForgetTarget, Draw, LostInv, LostTypeOK
<1>2. tgt' \in [SetNames -> Nat \cup {Nothing}]
  BY <1>1 DEF RewriteTarget, ForgetTarget, LostInv, LostTypeOK
<1>3. NobodyLocks /\ Ordinary /\ UNCHANGED <<live, stage>>
  BY DEF RewriteTarget, ForgetTarget
<1>4. DiskTypeOK'
  BY <1>1, <1>2, <1>3 DEF LostInv, LostTypeOK, DiskTypeOK, Ordinary
<1> QED
  BY <1>3, <1>4, OrdinaryKinds

LEMMA LostStart == LostInit => LostInv
<1> SUFFICES ASSUME LostInit PROVE LostInv
  OBVIOUS
<1>1. BindingOf("ordinary", 0, TRUE) \in Receipts
  BY DEF BindingOf, Receipts
<1>2. /\ live \in [Spaces -> [SetNames -> Receipts \cup {Nothing}]]
      /\ tgt \in [SetNames -> Nat \cup {Nothing}]
      /\ \A s \in Spaces, f \in SetNames : live[s][f] \in {Nothing, BindingOf("ordinary", 0, TRUE)}
  <2> PICK b : b = BindingOf("ordinary", 0, TRUE)
    OBVIOUS
  <2>1. live \in [Spaces -> [SetNames -> {Nothing, b}]] /\ tgt \in [SetNames -> {Nothing, 0}]
    BY DEF LostInit
  <2>2. {Nothing, b} \subseteq Receipts \cup {Nothing}
    BY <1>1
  <2>3. \A s \in Spaces : live[s] \in [SetNames -> {Nothing, b}]
    BY <2>1
  <2>4. \A s \in Spaces : live[s] \in [SetNames -> Receipts \cup {Nothing}]
    BY <2>2, <2>3
  <2>5. tgt \in [SetNames -> Nat \cup {Nothing}]
    BY <2>1
  <2> QED
    BY <2>1, <2>3, <2>4, <2>5
<1>3. \A s \in Spaces, f \in SetNames : ~ Marked(s, f)
  BY <1>1, <1>2 DEF Marked, Kind, BindingOf
<1>4. ASSUME NEW f \in SetNames PROVE PlanFor(Nothing).names[f] \in Entries
  <2>1. Owner(f) \in Spaces
    BY SpaceFacts DEF Owner, Primary
  <2> QED
    BY <1>2, <2>1 DEF PlanFor, Entries
<1>5. PlanFor(Nothing) \in Plans
  BY <1>4 DEF PlanFor, Plans
<1>6. planned \in Journals \cup {Nothing} /\ (planned # Nothing => planned.released = {} /\ planned # Nothing)
  BY <1>5, NewJournalFacts DEF LostInit
<1>7. LostTypeOK
  BY <1>2, <1>6, SpaceFacts DEF LostInit, LostTypeOK, ClientStages
<1>8. \A c \in Clients : ClientOK(c)
  BY IdlePlace DEF LostInit, ClientOK
<1>9. Exclusive
  BY DEF LostInit, Exclusive, Locked
<1>10. DiskOK
  <2>1. OnlyPlannedIsRetired /\ MarksOK
    BY <1>3 DEF LostInit, OnlyPlannedIsRetired, MarksOK
  <2>2. planned # Nothing => ReleaseOK
    BY <1>6 DEF ReleaseOK
  <2>3. GivenOK
    BY <1>3, SpaceFacts DEF LostInit, GivenOK, Given, Marked
  <2> QED
    BY <2>1, <2>2, <2>3 DEF LostInit, DiskOK
<1> QED
  BY <1>7, <1>8, <1>9, <1>10 DEF LostInv

LEMMA StutterStep ==
  ASSUME LostInv, UNCHANGED lostVars
  PROVE  LostInv'
<1>1. LostTypeOK'
  BY DEF LostInv, LostTypeOK, lostVars
<1>2. ASSUME NEW d \in Clients PROVE ClientOK(d)'
  <2>1. ClientOK(d)
    BY DEF LostInv
  <2> QED
    BY <2>1 DEF lostVars, ClientOK, PlaceOK, OwnNames, Owned, Evidence, Entry, GivenBefore, Given,
      ReleasedBefore, Inspectable, Marked
<1>3. Exclusive'
  BY DEF LostInv, Exclusive, lostVars
<1>4. DiskOK'
  BY DEF LostInv, DiskOK, lostVars, OnlyPlannedIsRetired, MarksOK, ReleaseOK, GivenOK, OwnNames,
    Owned, Evidence, Entry, GivenBefore, Given, ReleasedBefore, Marked
<1> QED
  BY <1>1, <1>2, <1>3, <1>4 DEF LostInv

LEMMA ClientSteps ==
  ASSUME LostInv, NEW c \in Clients,
         StartRestore(c) \/ StartRelease(c) \/ ClientStep(c) \/ ClientEnds(c)
  PROVE  LostInv'
<1>1. CASE StartRestore(c) \/ StartRelease(c) \/ ClientEnds(c)
  BY <1>1, StartStep, ClientEndsStep
<1>2. CASE TakeLocks(c) \/ OpenApply(c) \/ ReserveNames(c) \/ MarkNames(c) \/ Record(c) \/ Settle(c)
  BY <1>2, TakeLocksStep, OpenApplyStep, ReserveNamesStep, MarkNamesStep, RecordStep, SettleStep
<1>3. CASE \E f \in SetNames : RetireTarget(c, f) \/ RetireBinding(c, f)
  BY <1>3, RetireTargetStep, RetireBindingStep
<1>4. CASE AskHost(c) \/ RestoreHost(c) \/ OpenCompletion(c) \/ GiveName(c) \/ RecordGiven(c)
  BY <1>4, AskHostStep, RestoreHostStep, OpenCompletionStep, GiveNameStep, RecordGivenStep
<1>5. CASE OpenReleases(c) \/ HostRelease(c) \/ Validate(c) \/ FreeNames(c) \/ Commit(c) \/ Released(c)
  BY <1>5, OpenReleasesStep, HostReleaseStep, ValidateStep, FreeNamesStep, CommitStep, ReleasedStep
<1> QED
  BY <1>1, <1>2, <1>3, <1>4, <1>5 DEF ClientStep

LEMMA LostInvStep == LostInv /\ [LostNext]_lostVars => LostInv'
<1> SUFFICES ASSUME LostInv, [LostNext]_lostVars PROVE LostInv'
  OBVIOUS
<1>1. CASE \E c \in Clients : StartRestore(c) \/ StartRelease(c) \/ ClientStep(c) \/ ClientEnds(c)
  BY <1>1, ClientSteps
<1>2. CASE OrdinaryStep
  BY <1>2, BindNameStep, WriteBindingStep, UnbindNameStep, TargetsStep DEF OrdinaryStep
<1> QED
  BY <1>1, <1>2, ReplaceHostStep, StutterStep DEF LostNext

(***************************************************************************)
(* The files keep their types, and what a client relies on at each of its  *)
(* stages is so, whatever crashes and whichever ordinary commands come     *)
(* between: for any clients, names and state namespaces.                   *)
(***************************************************************************)
THEOREM LostInvariance == LostSpec => []LostInv
BY LostStart, LostInvStep, PTL DEF LostSpec

(***************************************************************************)
(* "No stale target or binding is deleted based on its filename, logical   *)
(* name, or byte equality alone": everything in the archive is what the    *)
(* journalled plan names.                                                  *)
(***************************************************************************)
THEOREM RetiredTheorem == LostSpec => []OnlyPlannedIsRetired
<1>1. LostInv => OnlyPlannedIsRetired
  BY DEF LostInv, DiskOK
<1> QED
  BY <1>1, LostInvariance, PTL

(***************************************************************************)
(* The evidence that a retry or a release asks for is in the archive       *)
(* before the name is reserved, and stays there.                           *)
(***************************************************************************)
THEOREM EvidenceTheorem == LostSpec => []EvidenceIsKept
<1>1. LostInv => EvidenceIsKept
  <2> SUFFICES ASSUME LostInv, planned # Nothing, NEW f \in SetNames,
                      Mine(HomeBinding(f)), Entry(f).binding # Nothing
               PROVE  Evidence(f)
    BY DEF EvidenceIsKept, Evidence
  <2>1. Entry(f).owner \in Spaces
    BY DEF LostInv, LostTypeOK, Journals, Plans, Entries, Entry
  <2>2. Marked(Entry(f).owner, f)
    BY DEF Mine, HomeBinding, Marked
  <2> QED
    BY <2>1, <2>2 DEF LostInv, DiskOK, MarksOK
<1> QED
  BY <1>1, LostInvariance, PTL

(***************************************************************************)
(* One set is not split: after one of its names was released none is given *)
(* out, however many clients restore and release it at once.  A release    *)
(* and a restore take the namespaces in the same order, and the first      *)
(* namespace decides.                                                      *)
(***************************************************************************)
THEOREM SplitTheorem == LostSpec => []SetIsNotSplit
<1>1. LostInv => SetIsNotSplit
  <2> SUFFICES ASSUME LostInv, planned # Nothing, NEW g \in SetNames, Entry(g).owner \in planned.released,
                      NEW s \in Spaces, NEW f \in SetNames, Kind(live[s][f]) = "restored"
               PROVE  FALSE
    BY DEF SetIsNotSplit
  <2>1. PICK k \in 1..Len(SpaceList) : Entry(g).owner = SpaceList[k]
    BY SpaceFacts DEF LostInv, LostTypeOK, Journals
  <2>2. PICK i \in 1..Len(SpaceList) : s = SpaceList[i]
    BY SpaceFacts
  <2>3. ReleaseOK /\ GivenOK /\ MarksOK
    BY DEF LostInv, DiskOK
  <2>4. Marked(s, f)
    BY DEF Marked
  <2>5. OwnNames(SpaceList[k]) # {} /\ OwnNames(s) # {}
    BY <2>1, <2>3, <2>4 DEF OwnNames, Owned, Entry, MarksOK
  <2>6. SpaceList[i] \notin planned.released
    BY <2>2, <2>3, <2>4, <2>5 DEF ReleaseOK
  <2>7. op[SpaceList[k]] = Nothing
    BY <2>1, <2>3, <2>5 DEF ReleaseOK
  <2>8. GivenBefore(i)
    BY <2>2, <2>3 DEF GivenOK
  <2>9. ReleasedBefore(k)
    BY <2>1, <2>3 DEF ReleaseOK
  <2>10. k < i \/ i < k \/ i = k
    BY SpaceFacts
  <2>11. ~ (k < i)
    <3>1. k < i => k \in 1..(i - 1)
      BY SpaceFacts
    <3> QED
      BY <2>5, <2>7, <2>8, <3>1 DEF GivenBefore, Given
  <2>12. ~ (i < k)
    <3>1. i < k => i \in 1..(k - 1)
      BY SpaceFacts
    <3> QED
      BY <2>6, <2>9, <3>1 DEF ReleasedBefore
  <2> QED
    BY <2>1, <2>6, <2>10, <2>11, <2>12
<1> QED
  BY <1>1, LostInvariance, PTL

LEMMA OrdinaryIsFree ==
  ASSUME OrdinaryStep, NEW s \in Spaces, NEW f \in SetNames, LostTypeOK, live'[s][f] # live[s][f]
  PROVE  NameFree(s, f)
<1>1. PICK r \in Spaces, g \in SetNames : BindName(r, g) \/ WriteBinding(r, g) \/ UnbindName(r, g)
  BY DEF OrdinaryStep, RewriteTarget, ForgetTarget
<1>2. NameFree(r, g)
  BY <1>1 DEF BindName, WriteBinding, UnbindName
<1>3. PICK b : live' = [live EXCEPT ![r][g] = b]
  BY <1>1 DEF BindName, WriteBinding, UnbindName, Live
<1>4. r = s /\ g = f
  BY <1>3 DEF LostTypeOK
<1> QED
  BY <1>2, <1>4

(***************************************************************************)
(* "without treating a fresh binding as prior work": no step of a restore  *)
(* or of a release changes a binding that an ordinary command wrote after  *)
(* the plan was made.                                                      *)
(***************************************************************************)
THEOREM FreshTheorem == LostSpec => FreshBindingsStay
<1> DEFINE Fresh ==
      \A s \in Spaces, f \in SetNames :
        ~ NameFree(s, f) /\ Kind(live[s][f]) = "ordinary" /\ live'[s][f] # live[s][f]
        => planned # Nothing /\ live[s][f] = Entry(f).binding
<1>1. LostInv /\ [LostNext]_lostVars => [Fresh]_lostVars
  <2> SUFFICES ASSUME LostInv, LostNext, NEW s \in Spaces, NEW f \in SetNames,
                      ~ NameFree(s, f), Kind(live[s][f]) = "ordinary", live'[s][f] # live[s][f]
               PROVE  planned # Nothing /\ live[s][f] = Entry(f).binding
    OBVIOUS
  <2>1. CASE OrdinaryStep
    BY <2>1, OrdinaryIsFree DEF LostInv
  <2>2. CASE ReplaceHost
    BY <2>2 DEF ReplaceHost, disk
  <2>3. ASSUME NEW c \in Clients, StartRestore(c) \/ StartRelease(c) \/ ClientStep(c) \/ ClientEnds(c)
        PROVE  planned # Nothing /\ live[s][f] = Entry(f).binding
    <3>1. ~ UNCHANGED live
      OBVIOUS
    <3>2. \/ \E g \in SetNames : RetireBinding(c, g)
          \/ MarkNames(c) \/ GiveName(c) \/ FreeNames(c)
      BY <2>3, <3>1 DEF ClientStep, StartRestore, StartRelease, Start, ClientEnds, TakeLocks, OpenApply, ReserveNames,
        Record, Settle, RetireTarget, AskHost, RestoreHost, OpenCompletion, RecordGiven, OpenReleases, HostRelease,
        Validate, Commit, Released, disk
    <3>3. PICK g \in SetNames : (\E b : Live(Here(c), g, b)) /\
            \/ RetireBinding(c, g)
            \/ MarkNames(c) /\ First(g, Unmarked(c))
            \/ GiveName(c) /\ First(g, Incomplete(c))
                /\ \A h \in Owned(approved[c], Here(c)) \cap UpTo(g) : Mine(live[Here(c)][h])
            \/ FreeNames(c) /\ First(g, PendingIn(Here(c), Owned(approved[c], Here(c))))
      BY <3>1, <3>2 DEF RetireBinding, MarkNames, GiveName, FreeNames
    <3>4. s = Here(c) /\ f = g
      BY <3>3 DEF Live, LostInv, LostTypeOK
    <3>5. ~ Mine(live[s][f]) /\ ~ IsPending(live[s][f]) /\ live[s][f] # Nothing
      BY DEF Mine, IsPending, Kind
    <3>6. CASE RetireBinding(c, f)
      <4>1. stage[c] = "retire" /\ stage[c] \in Following
        BY <3>6 DEF RetireBinding, Unretired, Following, ClientStages, Locked
      <4> QED
        BY <3>4, <3>6, <4>1, RetireBindingStep, SameNames
    <3>7. CASE MarkNames(c) /\ First(f, Unmarked(c))
      <4>1. stage[c] = "mark" /\ stage[c] \in Following
        BY <3>7 DEF MarkNames, Following, ClientStages, Locked
      <4>2. f \in OwnNames(Here(c))
        BY <3>7, <4>1, SameNames DEF First, Unmarked
      <4> QED
        BY <3>4, <3>5, <4>1, <4>2, Place DEF PlaceOK
    <3>8. ~ (First(f, Incomplete(c)) /\ \A h \in Owned(approved[c], Here(c)) \cap UpTo(f) : Mine(live[Here(c)][h]))
      <4>1. First(f, Incomplete(c)) => f \in Owned(approved[c], Here(c)) \cap UpTo(f)
        BY DEF First, Incomplete, UpTo
      <4> QED
        BY <3>4, <3>5, <4>1
    <3>9. ~ First(f, PendingIn(Here(c), Owned(approved[c], Here(c))))
      BY <3>4, <3>5 DEF First, PendingIn
    <3> QED
      BY <3>3, <3>4, <3>6, <3>7, <3>8, <3>9
  <2> QED
    BY <2>1, <2>2, <2>3 DEF LostNext
<1>2. FreshBindingsStay <=> [][Fresh]_lostVars
  BY DEF FreshBindingsStay
<1> QED
  BY <1>1, <1>2, LostInvariance, PTL DEF LostSpec
================================================================================
