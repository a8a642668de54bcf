------------------------------- MODULE MkdirLock -------------------------------
(***************************************************************************)
(* The directory lock that every state file of the CLI is guarded by:      *)
(* withRuntimeAllocationLock (cli/farm.ts, one per runtime directory) and  *)
(* ProfileBindingStore.withProfileLock (cli/profile-binding.ts, one per    *)
(* profile, and the session registry's lock).  Both are the same loop:     *)
(*                                                                         *)
(*   mkdir the lock directory, write one's pid into its "owner" file;      *)
(*   when the directory exists, stat it: if it is older than 90 s and the  *)
(*   process its owner file names is not alive, remove it and try again;   *)
(*   otherwise sleep 50 ms and try again, up to a deadline of 10 s.        *)
(*                                                                         *)
(* Every file-system call is one step, so any call of another process may  *)
(* come between two of them.  rm -r of the two-entry directory is one step;*)
(* an owner file that exists but is still empty reads like a missing one.  *)
(***************************************************************************)
EXTENDS Naturals, FiniteSets

CONSTANTS
  Procs,    \* the operating-system processes that use the lock
  None,     \* no lock directory; no owner file
  MaxOps    \* bound: acquisitions each process begins

ASSUME MaxOpsAssumption == MaxOps \in Nat

VARIABLES
  lock,     \* the lock directory: None or [maker, owner, old]
  pc,       \* where each process is in the acquisition
  expired,  \* expired[p]: Date.now() >= deadline in p's current acquisition
  ops,      \* acquisitions p has begun
  aged      \* history: has a lock directory been 90 s old, and was its maker dead by then?

vars == <<lock, pc, expired, ops, aged>>

Acquiring == {"mkdir", "writeOwner", "undoExists", "undoFailed",
              "stat", "readOwner", "break", "check"}
Locations == Acquiring \cup {"idle", "busy", "critical", "dead"}

(***************************************************************************)
(* maker is the identity of the directory (who made it); the program never *)
(* reads it.  owner is the content of the owner file, None until written.  *)
(***************************************************************************)
AgeHistory == {"never", "abandoned", "held"}
LockDir == [maker : Procs, owner : Procs \cup {None}, old : BOOLEAN]

ASSUME NoneAssumption == None \notin Procs \cup LockDir

Init ==
  /\ lock = None
  /\ pc = [p \in Procs |-> "idle"]
  /\ expired = [p \in Procs |-> FALSE]
  /\ ops = [p \in Procs |-> 0]
  /\ aged = "never"

Goto(p, l) == pc' = [pc EXCEPT ![p] = l]

\* A command asks for the lock; its deadline starts now.
Begin(p) ==
  /\ pc[p] \in {"idle", "busy"}
  /\ ops[p] < MaxOps
  /\ Goto(p, "mkdir")
  /\ expired' = [expired EXCEPT ![p] = FALSE]
  /\ ops' = [ops EXCEPT ![p] = @ + 1]
  /\ UNCHANGED <<lock, aged>>

Mkdir(p) ==
  /\ pc[p] = "mkdir"
  /\ \/ /\ lock = None
        /\ lock' = [maker |-> p, owner |-> None, old |-> FALSE]
        /\ Goto(p, "writeOwner")
     \/ /\ lock # None
        /\ Goto(p, "stat")
        /\ UNCHANGED lock
  /\ UNCHANGED <<expired, ops, aged>>

\* writeFile(owner, pid, "wx").  Creating the file makes the directory young again.
\* The directory may be gone (ENOENT), or already have an owner file (EEXIST), or the disk may fail.
WriteOwner(p) ==
  /\ pc[p] = "writeOwner"
  /\ \/ /\ lock # None
        /\ lock.owner = None
        /\ lock' = [lock EXCEPT !.owner = p, !.old = FALSE]
        /\ Goto(p, "critical")
     \/ /\ lock # None
        /\ lock.owner # None
        /\ Goto(p, "undoExists")
        /\ UNCHANGED lock
     \/ /\ Goto(p, "undoFailed")
        /\ UNCHANGED lock
  /\ UNCHANGED <<expired, ops, aged>>

\* The inner catch: remove the directory, whoever made it, then rethrow.  An
\* EEXIST of writeFile is caught by the outer EEXIST branch; the rest is thrown.
UndoMkdir(p) ==
  /\ pc[p] \in {"undoExists", "undoFailed"}
  /\ lock' = None
  /\ Goto(p, IF pc[p] = "undoExists" THEN "stat" ELSE "idle")
  /\ UNCHANGED <<expired, ops, aged>>

\* Mutant of Stat: the age of the directory is not looked at.
StatIgnoresAge(p) ==
  /\ pc[p] = "stat"
  /\ Goto(p, IF lock = None THEN "mkdir" ELSE "readOwner")
  /\ UNCHANGED <<lock, expired, ops, aged>>

Stat(p) ==
  /\ pc[p] = "stat"
  /\ Goto(p, IF lock = None THEN "mkdir"
             ELSE IF lock.old THEN "readOwner" ELSE "check")
  /\ UNCHANGED <<lock, expired, ops, aged>>

\* process.kill(pid, 0): a process that ended is ESRCH.
OwnerIsAlive ==
  /\ lock # None
  /\ lock.owner # None
  /\ pc[lock.owner] # "dead"

ReadOwner(p) ==
  /\ pc[p] = "readOwner"
  /\ Goto(p, IF OwnerIsAlive THEN "check" ELSE "break")
  /\ UNCHANGED <<lock, expired, ops, aged>>

Break(p) ==
  /\ pc[p] = "break"
  /\ lock' = None
  /\ Goto(p, "mkdir")
  /\ UNCHANGED <<expired, ops, aged>>

\* Mutant of CheckDeadline: past the deadline the lock is taken by force.
CheckDeadlineSteals(p) ==
  /\ pc[p] = "check"
  /\ Goto(p, IF expired[p] THEN "break" ELSE "mkdir")
  /\ UNCHANGED <<lock, expired, ops, aged>>

\* Mutant of CheckDeadline: the deadline is not looked at.
CheckDeadlineWaits(p) ==
  /\ pc[p] = "check"
  /\ Goto(p, "mkdir")
  /\ UNCHANGED <<lock, expired, ops, aged>>

\* Past the deadline the acquisition ends with allocation_busy / profile_binding_busy.
CheckDeadline(p) ==
  /\ pc[p] = "check"
  /\ Goto(p, IF expired[p] THEN "busy" ELSE "mkdir")
  /\ UNCHANGED <<lock, expired, ops, aged>>

\* The finally block: remove the directory, whoever made it.
Unlock(p) ==
  /\ pc[p] = "critical"
  /\ lock' = None
  /\ Goto(p, "idle")
  /\ UNCHANGED <<expired, ops, aged>>

\* mkdir, stat, readFile or rm fails for another reason: thrown to the caller.
Throw(p) ==
  /\ pc[p] \in {"mkdir", "stat", "readOwner", "break"}
  /\ Goto(p, "idle")
  /\ UNCHANGED <<lock, expired, ops, aged>>

Acquire(p) ==
  \/ Mkdir(p) \/ WriteOwner(p) \/ UndoMkdir(p) \/ Stat(p)
  \/ ReadOwner(p) \/ Break(p) \/ CheckDeadline(p)

\* The process ends without running its finally block.
Crash(p) ==
  /\ pc[p] # "dead"
  /\ Goto(p, "dead")
  /\ UNCHANGED <<lock, expired, ops, aged>>

\* 90 s pass since the directory last changed.
Age ==
  /\ lock # None
  /\ ~ lock.old
  /\ lock' = [lock EXCEPT !.old = TRUE]
  /\ aged' = IF aged # "held" /\ pc[lock.maker] = "dead" THEN "abandoned" ELSE "held"
  /\ UNCHANGED <<pc, expired, ops>>

\* 10 s pass since p began.
ExpireDeadline(p) ==
  /\ pc[p] \in Acquiring
  /\ ~ expired[p]
  /\ expired' = [expired EXCEPT ![p] = TRUE]
  /\ UNCHANGED <<lock, pc, ops, aged>>

Next ==
  \/ \E p \in Procs :
       \/ Begin(p) \/ Acquire(p) \/ Unlock(p) \/ Throw(p)
       \/ Crash(p) \/ ExpireDeadline(p)
  \/ Age

Spec == Init /\ [][Next]_vars

(***************************************************************************)
(* A live process keeps running the loop and time passes.  Nothing says    *)
(* that a critical section ends, that a process begins, or that one dies.  *)
(***************************************************************************)
Fairness == \A p \in Procs : WF_vars(Acquire(p)) /\ WF_vars(ExpireDeadline(p))

FairSpec == Spec /\ Fairness

--------------------------------------------------------------------------------
TypeOK ==
  /\ lock \in LockDir \cup {None}
  /\ pc \in [Procs -> Locations]
  /\ expired \in [Procs -> BOOLEAN]
  /\ ops \in [Procs -> 0..MaxOps]
  /\ aged \in AgeHistory

\* No two processes are inside the guarded operation together.
MutualExclusion ==
  \A p, q \in Procs : pc[p] = "critical" /\ pc[q] = "critical" => p = q

(***************************************************************************)
(* "One registry lock serializes prepare/launch/close" (cli/sessions.ts),  *)
(* also while the lock of a process that died is being cleared: as long as *)
(* only abandoned directories have reached 90 s, the critical sections do  *)
(* not overlap.  The code does not keep this: finding a directory stale    *)
(* and removing it are separate steps, and a second waiter's removal takes *)
(* the directory the first waiter has just made.                           *)
(***************************************************************************)
SerializedAcrossCrashes == aged # "held" => MutualExclusion

(***************************************************************************)
(* What the lock does promise: until some lock directory has been 90 s old *)
(* (an owner that crashed or an operation that ran that long), the holder  *)
(* is alone, and the directory and its owner file are still its own, so    *)
(* that its finally block removes nobody else's lock.                      *)
(***************************************************************************)
HolderOwnsLock ==
  \A p \in Procs : pc[p] = "critical" => lock # None /\ lock.maker = p /\ lock.owner = p

ExclusiveUntilStale == aged = "never" => MutualExclusion /\ HolderOwnsLock

(***************************************************************************)
(* Until then the directory disappears only by a step of the process that  *)
(* made it, as it leaves the critical section or gives up after a failed   *)
(* writeFile: no waiter takes a fresh lock for an abandoned one, neither   *)
(* while its owner file is not there yet nor while its maker is inside.    *)
(* (Every step moves one process, so pc' of the maker tells whose it is.)  *)
(***************************************************************************)
OnlyMakerRemoves ==
  [][(aged = "never" /\ lock # None /\ lock' = None) =>
       /\ pc[lock.maker] \in {"critical", "undoFailed"}
       /\ pc'[lock.maker] # pc[lock.maker]]_vars

(***************************************************************************)
(* Every acquisition ends, in the critical section, in an error or with    *)
(* its process, even when the holder of the lock never lets go.            *)
(***************************************************************************)
AcquireEnds == \A p \in Procs : pc[p] \in Acquiring ~> pc[p] \notin Acquiring

(***************************************************************************)
(* A stale lock of a dead owner is cleared by the waiter that looks at it, *)
(* past its own deadline or not, unless that waiter fails or dies: nobody  *)
(* is told "busy" about a lock that nobody holds.                          *)
(***************************************************************************)
Abandoned ==
  lock # None /\ lock.old /\ (lock.owner # None => pc[lock.owner] = "dead")

AbandonedIsCleared ==
  \A p \in Procs :
    (pc[p] = "stat" /\ Abandoned) ~> (~ Abandoned \/ pc[p] \in {"idle", "dead"})
================================================================================
