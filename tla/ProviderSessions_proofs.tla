------------------------ MODULE ProviderSessions_proofs ------------------------
(***************************************************************************)
(* Proofs about the session leases (ProviderSessions), for any processes,  *)
(* sessions, profiles, backends, names and leases, with the command line's *)
(* own operations between any two of their steps.                          *)
(***************************************************************************)
EXTENDS ProviderSessions, TLAPS

Own(s) == providerProfileName[s]

\* Each session has a profile name to itself, which no task chooses.
OwnNames ==
  /\ \A s, t \in Sessions : Own(s) = Own(t) => s = t
  /\ \A s \in Sessions : Own(s) \notin SavedProfiles

\* And which the command line's own operations are not used on.
OwnProfiles == \A s \in Sessions : Own(s) \notin CliProfiles \cup CliDeletes

(***************************************************************************)
(* The places of an operation, and what its locals hold there.             *)
(***************************************************************************)
Preparing == {"prepare", "adopt", "lease"}
Launching == {"choose", "bind", "place", "run", "record", "await", "launched"}
Cleaning == {"remove", "unrecord", "unbind"}
Deleting == {"findProfile", "removeProfile", "deleteBinding"}

WithProfile == Launching \cup Deleting \cup {"ensure", "unbind"}
WithName == Cleaning \cup {"run", "record", "await", "launched"}
WithBackend == (WithProfile \cup WithName) \ {"choose", "findProfile"}

LocalOK(l, j) ==
  /\ l \in Locations \cup SessionLocations
  /\ j \in Job(Returns \cup {"idle"})
  /\ l \in WithProfile => j.profile \in Profiles
  /\ l \in WithBackend => j.backend \in Backends
  /\ l \in WithName => j.name \in AllNames
  /\ l = "ensure" => j.op = "createProfile"
  /\ l \in Preparing \cup {"idle", "release"} => j.next = "idle"
  /\ j.op = "createProfile" => j.next = "idle"
  /\ j.op = "create" => j.name \in Names

Locals == \A p \in Procs : LocalOK(at[p], job[p])

\* Whoever is not under the registry lock runs an operation of the command line.
Registered ==
  \A p \in Procs :
    /\ registry # p => at[p] \in Locations /\ job[p].next = "idle"
    /\ registry = p => at[p] # "idle" /\ call[p].session \in Sessions

\* What a prepare or launch at l, with locals j, knows of its receipt r.
PrepareOK(l, j, c, r) ==
  /\ l \in Preparing \cup Launching
  /\ c.profile \in SavedProfiles \cup {None}
  /\ l \in {"adopt", "lease"} => r = None
  /\ l = "adopt" => c.home \in Backends
  /\ l \in Launching => /\ r # None /\ j.profile = r.profile
                        /\ j.next = "launched" /\ j.op = "provision"

\* And what a release knows.
ReleaseOK(l, j, c, r) ==
  /\ l \in {"release", "released", "unlease"} \cup Cleaning \cup Deleting
  /\ l # "release" => r # None /\ r.lease = c.lease
  /\ l \in Cleaning => j.next = "released" /\ j.profile = r.profile
  /\ l \in Deleting => j.next = "unlease" /\ j.profile = r.profile /\ ~ r.persistent

Staged ==
  \A p \in Procs :
    registry = p =>
      IF call[p].lease = None
      THEN PrepareOK(at[p], job[p], call[p], receipts[call[p].session])
      ELSE ReleaseOK(at[p], job[p], call[p], receipts[call[p].session])

\* The profile of a lease is the session's own, or one chosen by name and kept.
Chosen ==
  \A s \in Sessions :
    receipts[s] # None =>
      receipts[s].profile = Own(s) \/ (receipts[s].persistent /\ receipts[s].profile \in SavedProfiles)

(***************************************************************************)
(* Whatever mentions a drawn name mentions it with one profile.            *)
(***************************************************************************)
Mentions(n, f) ==
  \/ \E c \in containers : c.name = n /\ c.profile = f
  \/ targets[n] # None /\ targets[n].profile = f
  \/ bindings[f] # None /\ bindings[f].target = n
  \/ \E p \in Procs : at[p] \in WithName /\ job[p].name = n /\ job[p].profile = f
  \/ \E s \in Sessions : /\ receipts[s] # None /\ receipts[s].target # None
                         /\ receipts[s].profile = f /\ receipts[s].target.name = n

NamesAgree ==
  \A n \in Tokens : \A f \in Profiles :
    Mentions(n, f) => n \in drawn /\ \A g \in Profiles : Mentions(n, g) => f = g

SessionInv == SessionTypeOK /\ Locals /\ Registered /\ Staged /\ Chosen /\ NamesAgree

(***************************************************************************)
(* A session's own profile.                                                *)
(***************************************************************************)
HasVolume(f, b) == [profile |-> f, backend |-> b] \in volumes
NoStorage(f) == (\A v \in volumes : v.profile # f) /\ (\A c \in containers : c.profile # f)

\* The operations of the command line are on other profiles.
Private ==
  \A p \in Procs :
    registry # p /\ at[p] \in WithProfile \ {"unbind"} =>
      job[p].profile \in CliProfiles \cup CliDeletes

Throwaway(s) == receipts[s] # None /\ ~ receipts[s].persistent
Placing == {"place", "run", "record", "await"}

\* Its containers mount a volume that is there, as the one does that is about to run.
MountedAt(s) ==
  /\ \A c \in containers : c.profile = Own(s) => HasVolume(Own(s), c.backend)
  /\ \A p \in Procs : at[p] = "run" /\ job[p].profile = Own(s) => HasVolume(Own(s), job[p].backend)

\* The storage of a disposable lease is where the binding says.
BoundTo(f, b) == bindings[f] # None /\ bindings[f].backend = b

LocatedAt(s) ==
  Throwaway(s) =>
    /\ \A v \in volumes : v.profile = Own(s) => BoundTo(Own(s), v.backend)
    /\ \A p \in Procs :
         at[p] \in Placing /\ job[p].profile = Own(s) => BoundTo(Own(s), job[p].backend)

\* How far the cleanup of one has come, at place l with locals j and c.
CleanAt(l, j, c) ==
  LET f == Own(c.session) IN
  /\ l = "lease" /\ c.profile = None /\ c.home = None => bindings[f] = None /\ NoStorage(f)
  /\ Throwaway(c.session) /\ c.lease # None =>
       /\ l \in Cleaning \cup {"released"} /\ c.home = None => bindings[f] = None /\ NoStorage(f)
       /\ l = "removeProfile" /\ bindings[f] # None => bindings[f].backend = j.backend
       /\ l \in {"deleteBinding", "unlease"} => NoStorage(f)

Mounted == \A s \in Sessions : MountedAt(s)
Located == \A s \in Sessions : LocatedAt(s)
Cleaned == \A p \in Procs : registry = p => CleanAt(at[p], job[p], call[p])

DisposableInv == SessionInv /\ Private /\ Mounted /\ Located /\ Cleaned

-----------------------------------------------------------------------------
(* One process moves and the others stay where they are.                   *)

Jobs == Job(Returns \cup {"idle"})

ControlOK ==
  /\ at \in [Procs -> Locations \cup SessionLocations]
  /\ job \in [Procs -> Jobs]
  /\ Locals /\ Registered /\ Staged

StageOK(l, j, c, r) == IF c.lease = None THEN PrepareOK(l, j, c, r) ELSE ReleaseOK(l, j, c, r)

LEMMA Moves ==
  ASSUME SessionInv, NEW p \in Procs, NEW l, NEW j, LocalOK(l, j),
         at' = [at EXCEPT ![p] = l], job' = [job EXCEPT ![p] = j],
         \A q \in Procs : q # p =>
           /\ registry' = q <=> registry = q
           /\ registry = q => call'[q] = call[q] /\ receipts' = receipts,
         registry' # p => l \in Locations /\ j.next = "idle",
         registry' = p => l # "idle" /\ call'[p].session \in Sessions
                          /\ StageOK(l, j, call'[p], receipts'[call'[p].session])
  PROVE  ControlOK'
<1>1. j \in Jobs /\ l \in Locations \cup SessionLocations
  BY DEF LocalOK, Jobs
<1>2. /\ at' \in [Procs -> Locations \cup SessionLocations] /\ job' \in [Procs -> Jobs]
      /\ at'[p] = l /\ job'[p] = j
      /\ \A q \in Procs : q # p => at'[q] = at[q] /\ job'[q] = job[q]
  BY <1>1 DEF SessionInv, SessionTypeOK, Jobs
<1>3. ASSUME NEW q \in Procs PROVE LocalOK(at'[q], job'[q])
  BY <1>2 DEF SessionInv, Locals
<1>4. Locals'
  BY <1>3 DEF Locals, LocalOK
<1>5. Registered'
  BY <1>2 DEF SessionInv, Registered
<1>6. Staged'
  <2> SUFFICES ASSUME NEW q \in Procs, registry' = q
               PROVE  StageOK(at'[q], job'[q], call'[q], receipts'[call'[q].session])
    BY DEF Staged, StageOK, PrepareOK, ReleaseOK
  <2>1. CASE q = p
    BY <1>2, <2>1
  <2>2. CASE q # p
    BY <1>2, <2>2 DEF SessionInv, Staged, StageOK
  <2> QED
    BY <2>1, <2>2
<1> QED
  BY <1>2, <1>4, <1>5, <1>6 DEF ControlOK

\* A process that keeps its locals.
LEMMA Goes ==
  ASSUME SessionInv, NEW p \in Procs, NEW l, LocalOK(l, job[p]), Goto(p, l),
         UNCHANGED <<job, sessionVars>>,
         registry # p => l \in Locations,
         registry = p => l # "idle" /\ StageOK(l, job[p], call[p], receipts[call[p].session])
  PROVE  ControlOK'
<1>1. job' = [job EXCEPT ![p] = job[p]]
  BY DEF SessionInv, SessionTypeOK
<1>2. registry # p => job[p].next = "idle"
  BY DEF SessionInv, Registered
<1>3. registry = p => call[p].session \in Sessions
  BY DEF SessionInv, Registered
<1> QED
  BY <1>1, <1>2, <1>3, Moves DEF Goto, sessionVars

LEMMA IdleOK == LocalOK("idle", NoJob) /\ NoJob.next = "idle" /\ "idle" \in Locations
BY DEF LocalOK, NoJob, NewJob, Job, Ops, Locations, Allocating, WithProfile, WithName,
   WithBackend, Launching, Deleting, Cleaning

\* The fleet's operation is over: the command line's process is idle, a session goes on.
LEMMA ReturnsTo ==
  ASSUME SessionInv, NEW p \in Procs, Return(p), UNCHANGED sessionVars,
         at[p] \in {"ensure", "await", "unbind", "removeProfile", "deleteBinding"}
         \/ (at[p] = "unrecord" /\ job[p].profile = None)
  PROVE  ControlOK'
<1> USE DEF SessionInv
<1>0. job \in [Procs -> Jobs] /\ at[p] \in Locations /\ LocalOK(at[p], job[p])
  BY DEF SessionTypeOK, Jobs, Locals, Locations, Allocating
<1>1. CASE registry # p
  <2>1. job[p].next = "idle"
    BY <1>1 DEF Registered
  <2>2. at' = [at EXCEPT ![p] = "idle"] /\ job' = [job EXCEPT ![p] = NoJob]
    BY <1>0, <2>1 DEF Return, Goto
  <2> QED
    BY <1>1, <2>2, IdleOK, Moves DEF sessionVars
<1>2. CASE registry = p
  <2>1. call[p].session \in Sessions
    BY <1>2 DEF Registered
  <2> DEFINE r == receipts[call[p].session]
  <2>2. r # None => r.profile \in Profiles
    BY <2>1 DEF SessionTypeOK, SessionReceipt
  <2>3. /\ job[p].next \in {"launched", "released", "unlease"}
        /\ StageOK(job[p].next, job[p], call[p], r)
        /\ LocalOK(job[p].next, job[p])
    <3>1. CASE call[p].lease = None
      <4>1. PrepareOK(at[p], job[p], call[p], r)
        BY <1>2, <3>1 DEF Staged
      <4>2. at[p] = "await" /\ job[p].next = "launched"
        BY <2>2, <4>1, NoneAssumption DEF PrepareOK, Launching, Preparing
      <4>3. PrepareOK("launched", job[p], call[p], r)
        BY <4>1, <4>2 DEF PrepareOK, Launching, Preparing
      <4>4. LocalOK("launched", job[p])
        BY <1>0, <4>2 DEF LocalOK, WithProfile, WithName, WithBackend, Launching, Deleting,
           Cleaning, Preparing, SessionLocations, Returns
      <4> QED
        BY <3>1, <4>2, <4>3, <4>4 DEF StageOK
    <3>2. CASE call[p].lease # None
      <4>1. ReleaseOK(at[p], job[p], call[p], r)
        BY <1>2, <3>2 DEF Staged
      <4>2. at[p] \in {"unbind", "removeProfile", "deleteBinding"}
        BY <2>2, <4>1, NoneAssumption DEF ReleaseOK, Cleaning, Deleting
      <4>3. job[p].next \in {"released", "unlease"}
        BY <4>1, <4>2 DEF ReleaseOK, Cleaning, Deleting
      <4>4. ReleaseOK(job[p].next, job[p], call[p], r)
        BY <4>1, <4>2, <4>3 DEF ReleaseOK, Cleaning, Deleting
      <4>5. LocalOK(job[p].next, job[p])
        BY <1>0, <4>3 DEF LocalOK, WithProfile, WithName, WithBackend, Launching, Deleting,
           Cleaning, Preparing, SessionLocations, Returns
      <4> QED
        BY <3>2, <4>3, <4>4, <4>5 DEF StageOK
    <3> QED
      BY <3>1, <3>2
  <2>4. at' = [at EXCEPT ![p] = job[p].next] /\ job' = [job EXCEPT ![p] = job[p]]
    BY <1>0, <2>3 DEF Return, Goto
  <2> QED
    BY <1>2, <2>1, <2>3, <2>4, Moves DEF sessionVars
<1> QED
  BY <1>1, <1>2

-----------------------------------------------------------------------------
(* Who mentions a drawn name.                                              *)

LEMMA Mentioned ==
  /\ \A c \in containers : Mentions(c.name, c.profile)
  /\ \A n \in AllNames : targets[n] # None => Mentions(n, targets[n].profile)
  /\ \A f \in Profiles : bindings[f] # None => Mentions(bindings[f].target, f)
  /\ \A p \in Procs : at[p] \in WithName => Mentions(job[p].name, job[p].profile)
  /\ \A s \in Sessions : receipts[s] # None /\ receipts[s].target # None =>
       Mentions(receipts[s].target.name, receipts[s].profile)
BY DEF Mentions

\* A step that takes every name from where it was mentioned keeps the names apart.
LEMMA KeepsNames ==
  ASSUME SessionInv, NEW p \in Procs, NEW l, NEW j,
         at' = [at EXCEPT ![p] = l], job' = [job EXCEPT ![p] = j], drawn \subseteq drawn',
         \A c \in containers' : c \in containers \/ Mentions(c.name, c.profile),
         \A n \in Tokens : targets'[n] # None =>
           targets'[n] = targets[n] \/ Mentions(n, targets'[n].profile),
         \A f \in Profiles : bindings'[f] # None /\ bindings'[f].target \in Tokens =>
           Mentions(bindings'[f].target, f),
         l \in WithName /\ j.name \in Tokens /\ j.profile \in Profiles =>
           Mentions(j.name, j.profile),
         \A s \in Sessions :
           receipts'[s] # None /\ receipts'[s].target # None =>
             receipts'[s] = receipts[s] \/ Mentions(receipts'[s].target.name, receipts'[s].profile)
  PROVE  NamesAgree'
<1>1. /\ \A q \in Procs : q # p => at'[q] = at[q] /\ job'[q] = job[q]
      /\ at'[p] = l /\ job'[p] = j
  BY DEF SessionInv, SessionTypeOK
<1>2. ASSUME NEW n \in Tokens, NEW f \in Profiles, Mentions(n, f)'
      PROVE  Mentions(n, f)
  <2>1. CASE \E c \in containers' : c.name = n /\ c.profile = f
    BY <2>1, Mentioned
  <2>2. CASE targets'[n] # None /\ targets'[n].profile = f
    BY <2>2, Mentioned DEF AllNames
  <2>3. CASE bindings'[f] # None /\ bindings'[f].target = n
    BY <2>3
  <2>4. CASE \E q \in Procs : at'[q] \in WithName /\ job'[q].name = n /\ job'[q].profile = f
    BY <1>1, <2>4, Mentioned
  <2>5. CASE \E s \in Sessions : /\ receipts'[s] # None /\ receipts'[s].target # None
                                 /\ receipts'[s].profile = f /\ receipts'[s].target.name = n
    BY <2>5, Mentioned
  <2> QED
    BY <1>2, <2>1, <2>2, <2>3, <2>4, <2>5 DEF Mentions
<1>3. ASSUME NEW n \in Tokens, NEW f \in Profiles, Mentions(n, f)'
      PROVE  n \in drawn' /\ \A g \in Profiles : Mentions(n, g)' => f = g
  BY <1>2, <1>3 DEF SessionInv, NamesAgree
<1> QED
  BY <1>3 DEF NamesAgree

\* The common case: the fleet's records and the leases stay.
LEMMA KeepsRecords ==
  ASSUME SessionInv, NEW p \in Procs, NEW l, NEW j,
         at' = [at EXCEPT ![p] = l], job' = [job EXCEPT ![p] = j],
         UNCHANGED <<bindings, containers, targets, drawn, receipts>>,
         l \in WithName => Mentions(j.name, j.profile)
  PROVE  NamesAgree'
BY KeepsNames, Mentioned

\* A process that leaves an operation of the fleet.
LEMMA Leaves ==
  ASSUME SessionInv, NEW p \in Procs, Return(p), at[p] \in Locations,
         job[p].next = "launched" => at[p] = "await"
  PROVE  \E l, j : /\ at' = [at EXCEPT ![p] = l] /\ job' = [job EXCEPT ![p] = j]
                   /\ l \in WithName => Mentions(j.name, j.profile)
<1> DEFINE l == job[p].next
           j == IF l = "idle" THEN NoJob ELSE job[p]
<1>1. job' = [job EXCEPT ![p] = j] /\ at' = [at EXCEPT ![p] = l]
  BY DEF Return, Goto, SessionInv, SessionTypeOK
<1>2. l \in Returns \cup {"idle"}
  BY DEF SessionInv, SessionTypeOK, Job
<1>3. l \in WithName => l = "launched" /\ at[p] = "await"
  BY <1>2 DEF WithName, Returns, Cleaning
<1>4. l \in WithName => Mentions(j.name, j.profile)
  BY <1>3, Mentioned DEF WithName
<1> QED
  BY <1>1, <1>4

-----------------------------------------------------------------------------
(* The fleet's steps, of the command line or called by a session operation. *)

LEMMA Facts ==
  ASSUME SessionInv, NEW p \in Procs
  PROVE  /\ LocalOK(at[p], job[p]) /\ job \in [Procs -> Jobs]
         /\ registry # p => at[p] \in Locations /\ job[p].next = "idle"
         /\ registry = p =>
              /\ at[p] # "idle" /\ call[p].session \in Sessions
              /\ StageOK(at[p], job[p], call[p], receipts[call[p].session])
BY DEF SessionInv, Locals, SessionTypeOK, Jobs, Registered, Staged, StageOK

LEMMA FleetKeeps ==
  ASSUME SessionInv, UNCHANGED sessionVars, FleetTypeOK', ControlOK', NamesAgree'
  PROVE  SessionInv'
BY DEF SessionInv, SessionTypeOK, ControlOK, Jobs, Chosen, sessionVars

\* A step within an operation that keeps its locals.
LEMMA StepsTo ==
  ASSUME SessionInv, NEW p \in Procs, NEW l, Goto(p, l), UNCHANGED <<job, sessionVars>>,
         \/ at[p] = "bind" /\ l = "ensure" /\ job[p].op = "createProfile"
         \/ at[p] = "bind" /\ l = "place" /\ job[p].op # "createProfile"
         \/ at[p] = "run" /\ l = "record"
         \/ at[p] = "record" /\ l = "await"
         \/ at[p] = "unrecord" /\ l = "unbind" /\ job[p].profile # None
         \/ at[p] = "removeProfile" /\ l = "deleteBinding"
  PROVE  ControlOK'
<1> USE DEF WithProfile, WithName, WithBackend, Launching, Deleting, Cleaning, Preparing
<1>1. LocalOK(l, job[p])
  BY Facts DEF LocalOK, Locations, Allocating, Job, Jobs
<1>2. registry # p => l \in Locations
  BY Facts DEF Locations, Allocating
<1>3. registry = p => StageOK(l, job[p], call[p], receipts[call[p].session])
  BY Facts DEF StageOK, PrepareOK, ReleaseOK
<1> QED
  BY <1>1, <1>2, <1>3, Goes

LEMMA BindProfileKeeps ==
  ASSUME SessionInv, NEW p \in Procs, BindProfile(p), UNCHANGED sessionVars
  PROVE  SessionInv'
<1>1. at[p] = "bind" /\ job[p].profile \in Profiles /\ job[p].backend \in Backends
  BY Facts DEF BindProfile, LocalOK, WithProfile, WithBackend, Launching
<1>2. ControlOK'
  BY StepsTo DEF BindProfile
<1>3. FleetTypeOK'
  BY <1>1 DEF BindProfile, BindTo, SessionInv, SessionTypeOK, FleetTypeOK, Binding
<1>4. NamesAgree'
  <2> DEFINE l == IF job[p].op = "createProfile" THEN "ensure" ELSE "place"
  <2>1. at' = [at EXCEPT ![p] = l] /\ job' = [job EXCEPT ![p] = job[p]]
    BY Facts DEF BindProfile, Goto
  <2>2. l \notin WithName
    BY DEF WithName, Cleaning
  <2>3. UNCHANGED <<containers, targets, drawn, receipts>>
    BY DEF BindProfile, sessionVars
  <2>4. ASSUME NEW f \in Profiles, bindings'[f] # None, bindings'[f].target \in Tokens
        PROVE  Mentions(bindings'[f].target, f)
    <3>1. bindings' = [bindings EXCEPT ![job[p].profile] =
                         IF @ = None THEN [backend |-> job[p].backend, target |-> None] ELSE @]
      BY DEF BindProfile, BindTo
    <3>2. None \notin Tokens
      BY NoneAssumption DEF AllNames
    <3>3. bindings'[f] = bindings[f]
      BY <1>1, <2>4, <3>1, <3>2 DEF SessionInv, SessionTypeOK, FleetTypeOK
    <3> QED
      BY <2>4, <3>3, Mentioned
  <2> HIDE DEF l
  <2> QED
    BY <2>1, <2>2, <2>3, <2>4, KeepsNames, Mentioned
<1> QED
  BY <1>2, <1>3, <1>4, FleetKeeps

LEMMA EnsureProfileKeeps ==
  ASSUME SessionInv, NEW p \in Procs, EnsureProfile(p), UNCHANGED sessionVars
  PROVE  SessionInv'
<1>1. /\ at[p] = "ensure" /\ job[p].profile \in Profiles /\ job[p].backend \in Backends
      /\ job[p].next = "idle" /\ Return(p)
  BY Facts DEF EnsureProfile, LocalOK, WithProfile, WithBackend, Launching
<1>2. ControlOK'
  BY <1>1, ReturnsTo
<1>3. FleetTypeOK'
  BY <1>1 DEF EnsureProfile, EnsureVolume, SessionInv, SessionTypeOK, FleetTypeOK, Volume
<1>4. NamesAgree'
  BY <1>1, Leaves, KeepsRecords DEF EnsureProfile, Locations, sessionVars
<1> QED
  BY <1>2, <1>3, <1>4, FleetKeeps

LEMMA PlaceKeeps ==
  ASSUME SessionInv, NEW p \in Procs, Place(p), UNCHANGED sessionVars
  PROVE  SessionInv'
<1> DEFINE f == job[p].profile
           b == job[p].backend
<1>1. at[p] = "place" /\ f \in Profiles /\ b \in Backends /\ LocalOK("place", job[p])
  BY Facts DEF Place, LocalOK, WithProfile, WithBackend, Launching
<1>2. PICK n \in AllNames : /\ IF job[p].op = "create" THEN n = job[p].name ELSE ProvisionName(p, n)
                            /\ EnsureVolume(f, b)
                            /\ job' = [job EXCEPT ![p].name = n]
                            /\ drawn' = IF n \in Tokens THEN drawn \cup {n} ELSE drawn
  BY DEF Place
<1> DEFINE j == [job[p] EXCEPT !.name = n]
<1>3. job' = [job EXCEPT ![p] = j] /\ at' = [at EXCEPT ![p] = "run"]
  BY <1>2, Facts DEF Place, Goto
<1>4. /\ j \in Jobs /\ j.profile = f /\ j.backend = b /\ j.name = n
      /\ j.op = job[p].op /\ j.next = job[p].next
  BY <1>1, <1>2, Facts DEF Jobs, Job
<1> HIDE DEF j
<1> USE DEF WithProfile, WithName, WithBackend, Launching, Deleting, Cleaning, Preparing
<1>5. ControlOK'
  <2>1. LocalOK("run", j)
    BY <1>1, <1>2, <1>4 DEF LocalOK, Locations, Allocating, Jobs
  <2>2. registry = p => StageOK("run", j, call[p], receipts[call[p].session])
    BY <1>1, <1>4, Facts DEF StageOK, PrepareOK, ReleaseOK
  <2>3. registry # p => "run" \in Locations /\ j.next = "idle"
    BY <1>4, Facts DEF Locations, Allocating
  <2> QED
    BY <1>3, <2>1, <2>2, <2>3, Facts, Moves DEF sessionVars
<1>6. FleetTypeOK'
  BY <1>1, <1>2 DEF Place, EnsureVolume, SessionInv, SessionTypeOK, FleetTypeOK, Volume
<1>7. NamesAgree'
  <2>1. UNCHANGED <<bindings, containers, targets, receipts>>
    BY DEF Place, sessionVars
  <2>2. n \in Tokens => n \notin drawn \/ Mentions(n, f)
    <3>1. SUFFICES ASSUME n \in Tokens, n \in drawn PROVE Mentions(n, f)
      OBVIOUS
    <3>2. job[p].op # "create"
      BY <1>1, <1>2, <3>1, ConstantAssumption DEF LocalOK
    <3>3. ProvisionName(p, n)
      BY <1>2, <3>2
    <3>4. n \in {c.name : c \in {d \in HeldOn(b) : d.profile = f}}
      BY <3>1, <3>3 DEF ProvisionName
    <3> QED
      BY <3>4 DEF HeldOn, Mentions
  <2>3. /\ \A q \in Procs : q # p => at'[q] = at[q] /\ job'[q] = job[q]
        /\ job'[p] = j
    BY <1>3, Facts DEF SessionInv, SessionTypeOK
  <2>4. ASSUME NEW m \in Tokens, NEW g \in Profiles, Mentions(m, g)'
        PROVE  Mentions(m, g) \/ (m = n /\ g = f)
    BY <1>4, <2>1, <2>3, <2>4 DEF Mentions
  <2>5. \A m \in Tokens : \A g, h \in Profiles :
          /\ Mentions(m, g) => m \in drawn
          /\ Mentions(m, g) /\ Mentions(m, h) => g = h
    BY DEF SessionInv, NamesAgree
  <2>6. ASSUME NEW m \in Tokens, NEW g \in Profiles, Mentions(m, g)'
        PROVE  m \in drawn' /\ \A h \in Profiles : Mentions(m, h)' => g = h
    BY <1>1, <1>2, <2>2, <2>4, <2>5, <2>6
  <2> QED
    BY <2>6 DEF NamesAgree
<1> QED
  BY <1>5, <1>6, <1>7, FleetKeeps

LEMMA RunBrowserKeeps ==
  ASSUME SessionInv, NEW p \in Procs, RunBrowser(p), UNCHANGED sessionVars
  PROVE  SessionInv'
<1>1. /\ at[p] = "run" /\ job[p].profile \in Profiles /\ job[p].backend \in Backends
      /\ job[p].name \in AllNames
  BY Facts DEF RunBrowser, LocalOK, WithProfile, WithBackend, WithName, Launching
<1>2. ControlOK'
  BY StepsTo DEF RunBrowser
<1>3. FleetTypeOK'
  BY <1>1 DEF RunBrowser, SessionInv, SessionTypeOK, FleetTypeOK, Container
<1>4. NamesAgree'
  <2>1. at' = [at EXCEPT ![p] = "record"] /\ job' = [job EXCEPT ![p] = job[p]]
    BY Facts DEF RunBrowser, Goto
  <2>2. Mentions(job[p].name, job[p].profile)
    BY <1>1, Mentioned DEF WithName
  <2>3. \A c \in containers' : c \in containers \/ Mentions(c.name, c.profile)
    BY <2>2 DEF RunBrowser
  <2>4. UNCHANGED <<bindings, targets, drawn, receipts>>
    BY DEF RunBrowser, sessionVars
  <2> QED
    BY <2>1, <2>2, <2>3, <2>4, KeepsNames, Mentioned
<1> QED
  BY <1>2, <1>3, <1>4, FleetKeeps

LEMMA WriteTargetKeeps ==
  ASSUME SessionInv, NEW p \in Procs, WriteTarget(p), UNCHANGED sessionVars
  PROVE  SessionInv'
<1>1. /\ at[p] = "record" /\ job[p].profile \in Profiles /\ job[p].backend \in Backends
      /\ job[p].name \in AllNames
  BY Facts DEF WriteTarget, LocalOK, WithProfile, WithBackend, WithName, Launching
<1>2. ControlOK'
  BY StepsTo DEF WriteTarget
<1>3. FleetTypeOK'
  BY <1>1 DEF WriteTarget, SessionInv, SessionTypeOK, FleetTypeOK, Receipt
<1>4. NamesAgree'
  <2>1. at' = [at EXCEPT ![p] = "await"] /\ job' = [job EXCEPT ![p] = job[p]]
    BY Facts DEF WriteTarget, Goto
  <2>2. Mentions(job[p].name, job[p].profile)
    BY <1>1, Mentioned DEF WithName
  <2>3. ASSUME NEW n \in Tokens, targets'[n] # None
        PROVE  targets'[n] = targets[n] \/ Mentions(n, targets'[n].profile)
    BY <1>1, <2>2, <2>3 DEF WriteTarget, SessionInv, SessionTypeOK, FleetTypeOK, AllNames
  <2>4. UNCHANGED <<bindings, containers, drawn, receipts>>
    BY DEF WriteTarget, sessionVars
  <2> QED
    BY <2>1, <2>2, <2>3, <2>4, KeepsNames, Mentioned
<1> QED
  BY <1>2, <1>3, <1>4, FleetKeeps

LEMMA BindTargetKeeps ==
  ASSUME SessionInv, NEW p \in Procs, BindTarget(p), UNCHANGED sessionVars
  PROVE  SessionInv'
<1>1. /\ at[p] = "await" /\ job[p].profile \in Profiles /\ job[p].backend \in Backends
      /\ job[p].name \in AllNames /\ Return(p)
  BY Facts DEF BindTarget, LocalOK, WithProfile, WithBackend, WithName, Launching
<1>2. bindings' = [bindings EXCEPT ![job[p].profile] =
                     [backend |-> job[p].backend, target |-> job[p].name]]
  BY DEF BindTarget
<1>3. ControlOK'
  BY <1>1, ReturnsTo
<1>4. FleetTypeOK'
  BY <1>1, <1>2 DEF BindTarget, SessionInv, SessionTypeOK, FleetTypeOK, Binding
<1>5. NamesAgree'
  <2>1. PICK l, j : /\ at' = [at EXCEPT ![p] = l] /\ job' = [job EXCEPT ![p] = j]
                    /\ l \in WithName => Mentions(j.name, j.profile)
    BY <1>1, Leaves DEF Locations
  <2>2. Mentions(job[p].name, job[p].profile)
    BY <1>1, Mentioned DEF WithName
  <2>3. ASSUME NEW f \in Profiles, bindings'[f] # None, bindings'[f].target \in Tokens
        PROVE  Mentions(bindings'[f].target, f)
    <3>1. CASE f = job[p].profile
      BY <1>2, <2>2, <3>1 DEF SessionInv, SessionTypeOK, FleetTypeOK
    <3>2. CASE f # job[p].profile
      BY <1>2, <2>3, <3>2, Mentioned DEF SessionInv, SessionTypeOK, FleetTypeOK
    <3> QED
      BY <3>1, <3>2
  <2>4. UNCHANGED <<targets, containers, drawn, receipts>>
    BY DEF BindTarget, sessionVars
  <2> QED
    BY <2>1, <2>3, <2>4, KeepsNames, Mentioned
<1> QED
  BY <1>3, <1>4, <1>5, FleetKeeps

LEMMA RemoveContainerKeeps ==
  ASSUME SessionInv, NEW p \in Procs, RemoveContainer(p), UNCHANGED sessionVars
  PROVE  SessionInv'
<1> DEFINE n == job[p].name
           b == job[p].backend
           recorded == targets[n]
           found == {c \in HeldOn(b) : c.name = n}
           profiles == IF job[p].profile # None THEN {job[p].profile}
                       ELSE IF recorded # None THEN {recorded.profile}
                       ELSE IF found # {} THEN {c.profile : c \in found} ELSE {None}
<1>1. at[p] = "remove" /\ n \in AllNames /\ b \in Backends /\ LocalOK("remove", job[p])
  BY Facts DEF RemoveContainer, LocalOK, WithName, WithBackend, Cleaning
<1>2. PICK f \in profiles : job' = [job EXCEPT ![p].profile = f]
  BY DEF RemoveContainer
<1>3. containers' = containers \ found /\ UNCHANGED <<bindings, volumes, targets, drawn>>
  BY DEF RemoveContainer
<1>4. f \in Profiles \cup {None} /\ (f # None => Mentions(n, f))
  <2>1. CASE job[p].profile # None
    BY <1>1, <1>2, <2>1, Facts, Mentioned DEF WithName, Cleaning, Jobs, Job
  <2>2. CASE job[p].profile = None /\ recorded # None
    <3>1. recorded \in Receipt
      BY <1>1, <2>2 DEF SessionInv, SessionTypeOK, FleetTypeOK
    <3> QED
      BY <1>1, <1>2, <2>2, <3>1, Mentioned DEF Receipt
  <2>3. CASE job[p].profile = None /\ recorded = None /\ found # {}
    <3>1. PICK c \in found : f = c.profile
      BY <1>2, <2>3
    <3>2. c \in containers /\ c.name = n /\ c \in Container
      BY DEF HeldOn, SessionInv, SessionTypeOK, FleetTypeOK
    <3> QED
      BY <3>1, <3>2, Mentioned DEF Container
  <2>4. CASE job[p].profile = None /\ recorded = None /\ found = {}
    BY <1>2, <2>4
  <2> QED
    BY <2>1, <2>2, <2>3, <2>4
<1> DEFINE j == [job[p] EXCEPT !.profile = f]
<1>5. job' = [job EXCEPT ![p] = j] /\ at' = [at EXCEPT ![p] = "unrecord"]
  BY <1>2, Facts DEF RemoveContainer, Goto
<1>6. /\ j \in Jobs /\ j.profile = f /\ j.backend = b /\ j.name = n
      /\ j.op = job[p].op /\ j.next = job[p].next
  BY <1>1, <1>4, Facts DEF Jobs, Job
<1>7. job[p].profile # None => f = job[p].profile
  BY <1>2
<1> HIDE DEF j, profiles
<1>8. ControlOK'
  <2> USE DEF WithProfile, WithName, WithBackend, Launching, Deleting, Cleaning, Preparing
  <2>1. LocalOK("unrecord", j)
    BY <1>1, <1>6 DEF LocalOK, Locations, Allocating, Jobs
  <2>2. registry = p => StageOK("unrecord", j, call[p], receipts[call[p].session])
    <3>1. SUFFICES ASSUME registry = p
                   PROVE  StageOK("unrecord", j, call[p], receipts[call[p].session])
      OBVIOUS
    <3> DEFINE r == receipts[call[p].session]
    <3>2. call[p].lease # None /\ ReleaseOK("remove", job[p], call[p], r)
      BY <1>1, <3>1, Facts DEF StageOK, PrepareOK
    <3>3. r.profile \in Profiles
      BY <3>1, <3>2, Facts DEF ReleaseOK, SessionInv, SessionTypeOK, SessionReceipt
    <3>4. f = r.profile
      BY <1>7, <3>2, <3>3, NoneAssumption DEF ReleaseOK
    <3> QED
      BY <1>6, <3>2, <3>4 DEF StageOK, ReleaseOK
  <2>3. registry # p => "unrecord" \in Locations /\ j.next = "idle"
    BY <1>6, Facts DEF Locations, Allocating
  <2> QED
    BY <1>5, <2>1, <2>2, <2>3, Facts, Moves DEF sessionVars
<1>9. FleetTypeOK'
  BY <1>3 DEF SessionInv, SessionTypeOK, FleetTypeOK
<1>10. NamesAgree'
  <2>1. j.profile \in Profiles => Mentions(j.name, j.profile)
    BY <1>4, <1>6, NoneAssumption
  <2>2. containers' \subseteq containers /\ UNCHANGED <<bindings, targets, drawn, receipts>>
    BY <1>3 DEF sessionVars
  <2> QED
    BY <1>5, <2>1, <2>2, KeepsNames, Mentioned
<1> QED
  BY <1>8, <1>9, <1>10, FleetKeeps

\* A release knows the profile of its target from the receipt.
LEMMA KnowsProfile ==
  ASSUME SessionInv, NEW p \in Procs, at[p] = "unrecord", job[p].profile = None
  PROVE  registry # p /\ job[p].next = "idle"
<1>1. SUFFICES ASSUME registry = p PROVE FALSE
  BY Facts
<1> DEFINE r == receipts[call[p].session]
<1>2. call[p].lease # None /\ ReleaseOK("unrecord", job[p], call[p], r)
  BY <1>1, Facts DEF StageOK, PrepareOK, Preparing, Launching
<1>3. r.profile \in Profiles /\ job[p].profile = r.profile
  BY <1>1, <1>2, Facts DEF ReleaseOK, Cleaning, SessionInv, SessionTypeOK, SessionReceipt
<1> QED
  BY <1>3, NoneAssumption

LEMMA RemoveTargetKeeps ==
  ASSUME SessionInv, NEW p \in Procs, RemoveTarget(p), UNCHANGED sessionVars
  PROVE  SessionInv'
<1>1. at[p] = "unrecord" /\ job[p].name \in AllNames
  BY Facts DEF RemoveTarget, LocalOK, WithName, Cleaning
<1>2. targets' = [targets EXCEPT ![job[p].name] = None]
      /\ UNCHANGED <<bindings, volumes, containers, drawn>>
  BY DEF RemoveTarget
<1>3. ControlOK' /\ \E l, j : /\ at' = [at EXCEPT ![p] = l] /\ job' = [job EXCEPT ![p] = j]
                              /\ l \in WithName => Mentions(j.name, j.profile)
  <2>1. CASE job[p].profile = None
    <3>1. Return(p) /\ job[p].next = "idle"
      BY <1>1, <2>1, KnowsProfile DEF RemoveTarget
    <3> QED
      BY <1>1, <2>1, <3>1, ReturnsTo, Leaves DEF Locations, Allocating
  <2>2. CASE job[p].profile # None
    <3>1. Goto(p, "unbind") /\ UNCHANGED job
      BY <2>2 DEF RemoveTarget
    <3>2. at' = [at EXCEPT ![p] = "unbind"] /\ job' = [job EXCEPT ![p] = job[p]]
      BY <3>1, Facts DEF Goto
    <3>3. Mentions(job[p].name, job[p].profile)
      BY <1>1, Mentioned DEF WithName, Cleaning
    <3> QED
      BY <1>1, <2>2, <3>1, <3>2, <3>3, StepsTo
  <2> QED
    BY <2>1, <2>2
<1>4. FleetTypeOK'
  BY <1>1, <1>2 DEF SessionInv, SessionTypeOK, FleetTypeOK
<1>5. NamesAgree'
  <2>1. \A n \in Tokens : targets'[n] # None => targets'[n] = targets[n]
    BY <1>1, <1>2 DEF SessionInv, SessionTypeOK, FleetTypeOK, AllNames
  <2>2. UNCHANGED receipts
    BY DEF sessionVars
  <2>3. PICK l, j : /\ at' = [at EXCEPT ![p] = l] /\ job' = [job EXCEPT ![p] = j]
                    /\ l \in WithName => Mentions(j.name, j.profile)
    BY <1>3
  <2> QED
    BY <1>2, <2>1, <2>2, <2>3, KeepsNames, Mentioned
<1> QED
  BY <1>3, <1>4, <1>5, FleetKeeps

\* ClearTarget, RemoveProfile and DeleteBinding are at the end of their operations.
LEMMA EndsAt ==
  ASSUME SessionInv, NEW p \in Procs, Return(p), UNCHANGED sessionVars,
         at[p] \in {"unbind", "removeProfile", "deleteBinding"}
  PROVE  ControlOK' /\ \E l, j : /\ at' = [at EXCEPT ![p] = l] /\ job' = [job EXCEPT ![p] = j]
                                 /\ l \in WithName => Mentions(j.name, j.profile)
<1>1. job[p].next # "launched"
  BY Facts DEF StageOK, PrepareOK, ReleaseOK, Preparing, Launching, Cleaning, Deleting
<1> QED
  BY <1>1, ReturnsTo, Leaves DEF Locations, Allocating

LEMMA ClearTargetKeeps ==
  ASSUME SessionInv, NEW p \in Procs, ClearTarget(p), UNCHANGED sessionVars
  PROVE  SessionInv'
<1>1. at[p] = "unbind" /\ Return(p) /\ UNCHANGED <<volumes, containers, targets, drawn>>
  BY DEF ClearTarget
<1>2. PICK l, j : /\ at' = [at EXCEPT ![p] = l] /\ job' = [job EXCEPT ![p] = j]
                  /\ l \in WithName => Mentions(j.name, j.profile)
  BY <1>1, EndsAt
<1>3. FleetTypeOK'
  BY DEF ClearTarget, SessionInv, SessionTypeOK, FleetTypeOK, Binding
<1>4. ASSUME NEW f \in Profiles, bindings'[f] # None, bindings'[f].target \in Tokens
      PROVE  Mentions(bindings'[f].target, f)
  <2>1. bindings[f] \in Binding \cup {None} /\ None \notin Tokens
    BY NoneAssumption DEF SessionInv, SessionTypeOK, FleetTypeOK, AllNames
  <2>2. bindings'[f] = bindings[f] \/ bindings'[f] = [bindings[f] EXCEPT !.target = None]
    BY DEF ClearTarget, SessionInv, SessionTypeOK, FleetTypeOK
  <2>3. CASE bindings'[f] = bindings[f]
    BY <1>4, <2>3, Mentioned
  <2>4. CASE bindings'[f] # bindings[f]
    <3>1. bindings[f] \in Binding /\ bindings'[f] = [bindings[f] EXCEPT !.target = None]
      BY <2>1, <2>2, <2>4 DEF ClearTarget, SessionInv, SessionTypeOK, FleetTypeOK
    <3> QED
      BY <1>4, <2>1, <3>1 DEF Binding
  <2> QED
    BY <2>3, <2>4
<1>5. NamesAgree'
  <2>1. UNCHANGED receipts
    BY DEF sessionVars
  <2> QED
    BY <1>1, <1>2, <1>4, <2>1, KeepsNames, Mentioned
<1> QED
  BY <1>1, <1>3, <1>5, EndsAt, FleetKeeps

LEMMA RemoveProfileKeeps ==
  ASSUME SessionInv, NEW p \in Procs, RemoveProfile(p), UNCHANGED sessionVars
  PROVE  SessionInv'
<1>1. at[p] = "removeProfile" /\ UNCHANGED <<bindings, containers, targets, drawn, receipts>>
  BY DEF RemoveProfile, sessionVars
<1>2. ControlOK' /\ \E l, j : /\ at' = [at EXCEPT ![p] = l] /\ job' = [job EXCEPT ![p] = j]
                              /\ l \in WithName => Mentions(j.name, j.profile)
  <2>1. CASE job[p].bound
    <3>1. Goto(p, "deleteBinding") /\ UNCHANGED job
      BY <2>1 DEF RemoveProfile
    <3>2. at' = [at EXCEPT ![p] = "deleteBinding"] /\ job' = [job EXCEPT ![p] = job[p]]
      BY <3>1, Facts DEF Goto
    <3>3. ControlOK'
      BY <1>1, <3>1, StepsTo
    <3>4. "deleteBinding" \notin WithName
      BY DEF WithName, Cleaning
    <3> QED
      BY <3>2, <3>3, <3>4
  <2>2. CASE ~ job[p].bound
    BY <1>1, <2>2, EndsAt DEF RemoveProfile
  <2> QED
    BY <2>1, <2>2
<1>3. FleetTypeOK'
  BY DEF RemoveProfile, SessionInv, SessionTypeOK, FleetTypeOK
<1>4. NamesAgree'
  BY <1>1, <1>2, KeepsRecords
<1> QED
  BY <1>2, <1>3, <1>4, FleetKeeps

LEMMA DeleteBindingKeeps ==
  ASSUME SessionInv, NEW p \in Procs, DeleteBinding(p), UNCHANGED sessionVars
  PROVE  SessionInv'
<1>1. /\ at[p] = "deleteBinding" /\ Return(p)
      /\ UNCHANGED <<volumes, containers, targets, drawn, receipts>>
      /\ bindings' = [bindings EXCEPT ![job[p].profile] = None]
  BY DEF DeleteBinding, sessionVars
<1>2. PICK l, j : /\ at' = [at EXCEPT ![p] = l] /\ job' = [job EXCEPT ![p] = j]
                  /\ l \in WithName => Mentions(j.name, j.profile)
  BY <1>1, EndsAt
<1>3. FleetTypeOK'
  BY <1>1 DEF SessionInv, SessionTypeOK, FleetTypeOK
<1>4. \A f \in Profiles : bindings'[f] # None => bindings'[f] = bindings[f]
  BY <1>1 DEF SessionInv, SessionTypeOK, FleetTypeOK
<1>5. NamesAgree'
  BY <1>1, <1>2, <1>4, KeepsNames, Mentioned
<1> QED
  BY <1>1, <1>3, <1>5, EndsAt, FleetKeeps

LEMMA StepKeeps ==
  ASSUME SessionInv, NEW p \in Procs, Step(p), UNCHANGED sessionVars
  PROVE  SessionInv'
BY BindProfileKeeps, EnsureProfileKeeps, PlaceKeeps, RunBrowserKeeps, WriteTargetKeeps,
   BindTargetKeeps, RemoveContainerKeeps, RemoveTargetKeeps, ClearTargetKeeps,
   RemoveProfileKeeps, DeleteBindingKeeps DEF Step

-----------------------------------------------------------------------------
(* Where operations begin.                                                 *)

\* create and createProfile begin on a backend; so does the launch of a session.
LEMMA Chooses ==
  ASSUME SessionInv, NEW p \in Procs, NEW j \in Jobs, j.profile \in Profiles, ChooseBackend(p, j)
  PROVE  \E b \in Backends, l \in {"ensure", "bind"} :
           /\ at' = [at EXCEPT ![p] = l] /\ job' = [job EXCEPT ![p] = [j EXCEPT !.backend = b]]
           /\ l = "ensure" => j.op = "createProfile"
<1>1. /\ j.name # None /\ targets[j.name] # None => targets[j.name].backend \in Backends
      /\ Bound(j.profile) => bindings[j.profile].backend \in Backends
  BY DEF SessionInv, SessionTypeOK, FleetTypeOK, Bound, Binding, Receipt, Jobs, Job
<1>2. PICK b \in Backends :
        Call(p, IF j.op = "createProfile" /\ Bound(j.profile) THEN "ensure" ELSE "bind",
             [j EXCEPT !.backend = b])
  BY <1>1 DEF ChooseBackend
<1> QED
  BY <1>2 DEF Call, Goto

LEMMA NewJobs ==
  ASSUME NEW op \in Ops, NEW f \in Profiles \cup {None}, NEW n \in AllNames \cup {None}
  PROVE  /\ NewJob(op, f, n) \in Jobs
         /\ NewJob(op, f, n).op = op /\ NewJob(op, f, n).profile = f
         /\ NewJob(op, f, n).name = n /\ NewJob(op, f, n).next = "idle"
BY DEF NewJob, Jobs, Job

\* The command line's operations begin without the registry lock.
LEMMA BeginsWith ==
  ASSUME SessionInv, NEW p \in Procs, NEW l \in Locations, NEW j, LocalOK(l, j), j.next = "idle",
         at[p] = "idle", at' = [at EXCEPT ![p] = l], job' = [job EXCEPT ![p] = j],
         UNCHANGED <<fleetVars, sessionVars>>,
         l \in WithName => j.profile = None
  PROVE  SessionInv'
<1>1. registry # p
  BY Facts
<1>2. ControlOK'
  BY <1>1, Moves DEF sessionVars
<1>3. FleetTypeOK'
  BY DEF SessionInv, SessionTypeOK, FleetTypeOK, fleetVars
<1>4. NamesAgree'
  <2>1. l \in WithName /\ j.profile \in Profiles => FALSE
    BY NoneAssumption
  <2>2. UNCHANGED <<bindings, containers, targets, drawn, receipts>>
    BY DEF fleetVars, sessionVars
  <2> QED
    BY <2>1, <2>2, KeepsNames, Mentioned
<1> QED
  BY <1>2, <1>3, <1>4, FleetKeeps

LEMMA BeginKeeps ==
  ASSUME SessionInv, NEW p \in Procs, Begin(p), UNCHANGED sessionVars
  PROVE  SessionInv'
<1> USE DEF WithProfile, WithName, WithBackend, Launching, Deleting, Cleaning, Preparing
<1>1. ASSUME NEW f \in Profiles, NEW n \in AllNames \cup {None}, NEW op \in {"create", "createProfile"},
             op = "create" => n \in Names,
             at[p] = "idle", ChooseBackend(p, NewJob(op, f, n))
      PROVE  SessionInv'
  <2> DEFINE j == NewJob(op, f, n)
  <2>1. j \in Jobs /\ j.op = op /\ j.profile = f /\ j.name = n /\ j.next = "idle"
    BY <1>1, NewJobs DEF Ops
  <2> HIDE DEF j
  <2>2. PICK b \in Backends, l \in {"ensure", "bind"} :
          /\ at' = [at EXCEPT ![p] = l] /\ job' = [job EXCEPT ![p] = [j EXCEPT !.backend = b]]
          /\ l = "ensure" => j.op = "createProfile"
    BY <1>1, <2>1, Chooses DEF j
  <2> DEFINE k == [j EXCEPT !.backend = b]
  <2>3. /\ k \in Jobs /\ k.op = op /\ k.profile = f /\ k.name = n /\ k.next = "idle"
        /\ k.backend = b
    BY <2>1 DEF Jobs, Job
  <2> HIDE DEF k
  <2>4. LocalOK(l, k)
    BY <1>1, <2>1, <2>2, <2>3 DEF LocalOK, Locations, Allocating, Jobs
  <2>5. l \in Locations /\ l \notin WithName
    BY <2>2 DEF Locations
  <2>6. at' = [at EXCEPT ![p] = l] /\ job' = [job EXCEPT ![p] = k]
    BY <2>2 DEF k
  <2>7. UNCHANGED fleetVars
    BY <1>1 DEF ChooseBackend
  <2> QED
    BY <1>1, <2>3, <2>4, <2>5, <2>6, <2>7, BeginsWith
<1>2. ASSUME NEW f \in Profiles, NEW n \in Names, BeginCreate(p, f, n) PROVE SessionInv'
  BY <1>1, <1>2 DEF BeginCreate, AllNames
<1>3. ASSUME NEW f \in Profiles, BeginCreateProfile(p, f) PROVE SessionInv'
  BY <1>1, <1>3 DEF BeginCreateProfile
<1>4. ASSUME NEW n \in AllNames, BeginDestroy(p, n) PROVE SessionInv'
  <2> DEFINE j == NewJob("destroy", None, n)
  <2>1. j \in Jobs /\ j.op = "destroy" /\ j.profile = None /\ j.name = n /\ j.next = "idle"
    BY <1>4 DEF NewJob, Jobs, Job, Ops
  <2>2. at[p] = "idle" /\ FindTarget(p, j)
    BY <1>4 DEF BeginDestroy
  <2> HIDE DEF j
  <2>3. PICK b \in Backends : Call(p, "remove", [j EXCEPT !.backend = b])
    BY <1>4, <2>1, <2>2 DEF FindTarget, SessionInv, SessionTypeOK, FleetTypeOK, Receipt, Container
  <2> DEFINE k == [j EXCEPT !.backend = b]
  <2>4. /\ k \in Jobs /\ k.op = "destroy" /\ k.profile = None /\ k.name = n /\ k.next = "idle"
        /\ k.backend = b
    BY <2>1 DEF Jobs, Job
  <2>5. at' = [at EXCEPT ![p] = "remove"] /\ job' = [job EXCEPT ![p] = k]
    BY <2>3 DEF Call, Goto
  <2> HIDE DEF k
  <2>6. LocalOK("remove", k) /\ "remove" \in Locations
    BY <1>4, <2>4 DEF LocalOK, Locations, Allocating, Jobs
  <2>7. UNCHANGED fleetVars
    BY <2>2 DEF FindTarget
  <2> QED
    BY <2>2, <2>4, <2>5, <2>6, <2>7, BeginsWith
<1>5. ASSUME NEW f \in Profiles, BeginDeleteProfile(p, f) PROVE SessionInv'
  <2> DEFINE j == NewJob("deleteProfile", f, None)
  <2>1. j \in Jobs /\ j.op = "deleteProfile" /\ j.profile = f /\ j.next = "idle"
    BY <1>5, NewJobs DEF Ops
  <2>2. at[p] = "idle" /\ ChooseProfile(p, j)
    BY <1>5 DEF BeginDeleteProfile
  <2> HIDE DEF j
  <2>3. PICK b \in Backends :
          Call(p, "removeProfile", [j EXCEPT !.backend = b, !.bound = Bound(f)])
    BY <1>5, <2>1, <2>2
    DEF ChooseProfile, HomeOf, Bound, SessionInv, SessionTypeOK, FleetTypeOK, Binding, Volume
  <2> DEFINE k == [j EXCEPT !.backend = b, !.bound = Bound(f)]
  <2>4. /\ k \in Jobs /\ k.op = "deleteProfile" /\ k.profile = f /\ k.next = "idle"
        /\ k.backend = b
    BY <2>1 DEF Jobs, Job, Bound
  <2>5. at' = [at EXCEPT ![p] = "removeProfile"] /\ job' = [job EXCEPT ![p] = k]
    BY <2>3 DEF Call, Goto
  <2> HIDE DEF k
  <2>6. LocalOK("removeProfile", k) /\ "removeProfile" \in Locations
    BY <1>5, <2>4 DEF LocalOK, Locations, Allocating, Jobs
  <2>7. UNCHANGED fleetVars /\ "removeProfile" \notin WithName
    BY <2>2 DEF ChooseProfile
  <2> QED
    BY <2>2, <2>4, <2>5, <2>6, <2>7, BeginsWith
<1> QED
  BY <1>2, <1>3, <1>4, <1>5 DEF Begin

-----------------------------------------------------------------------------
(* The session operations.                                                 *)

\* A step of the operation that holds the registry lock, or takes it, or lets it go.
LEMMA SessionKeeps ==
  ASSUME SessionInv, NEW p \in Procs, NEW l, NEW j, NEW c \in CallRecord, LocalOK(l, j),
         registry \in {p, None}, registry' \in {p, None},
         at' = [at EXCEPT ![p] = l], job' = [job EXCEPT ![p] = j], call' = [call EXCEPT ![p] = c],
         registry' = None => l = "idle" /\ j.next = "idle",
         registry' = p => l # "idle" /\ c.session \in Sessions
                          /\ StageOK(l, j, c, receipts'[c.session]),
         FleetTypeOK', receipts' \in [Sessions -> SessionReceipt \cup {None}],
         issued' \subseteq Leases, Chosen', NamesAgree'
  PROVE  SessionInv'
<1>1. None \notin Procs
  BY SessionAssumption
<1>2. call \in [Procs -> CallRecord]
  BY DEF SessionInv, SessionTypeOK
<1>3. \A q \in Procs : q # p =>
        /\ registry' = q <=> registry = q
        /\ registry = q => call'[q] = call[q] /\ receipts' = receipts
  BY <1>1
<1>4. call'[p] = c /\ call' \in [Procs -> CallRecord]
  BY <1>2
<1>5. registry' # p => l \in Locations /\ j.next = "idle"
  BY DEF Locations
<1>6. ControlOK'
  BY <1>3, <1>4, <1>5, Moves
<1> QED
  BY <1>4, <1>6 DEF SessionInv, SessionTypeOK, ControlOK, Jobs

\* What such an operation knows at a place of its own.
LEMMA Holds ==
  ASSUME SessionInv, NEW p \in Procs, at[p] \in SessionLocations
  PROVE  /\ registry = p /\ call[p].session \in Sessions /\ call[p] \in CallRecord
         /\ StageOK(at[p], job[p], call[p], receipts[call[p].session])
         /\ LocalOK(at[p], job[p])
         /\ receipts[call[p].session] \in SessionReceipt \cup {None}
<1>1. at[p] \notin Locations
  BY DEF SessionLocations, Returns, Locations, Allocating
<1>2. registry = p
  BY <1>1 DEF SessionInv, Registered
<1> QED
  BY <1>2, Facts DEF SessionInv, SessionTypeOK

\* It ends.
LEMMA LeaveKeeps ==
  ASSUME SessionInv, NEW p \in Procs, registry \in {p, None}, Leave(p), FleetTypeOK',
         receipts' \in [Sessions -> SessionReceipt \cup {None}], issued' \subseteq Leases,
         Chosen', NamesAgree'
  PROVE  SessionInv'
<1>1. NoCall \in CallRecord
  BY DEF NoCall, CallRecord
<1>2. /\ at' = [at EXCEPT ![p] = "idle"] /\ job' = [job EXCEPT ![p] = NoJob]
      /\ call' = [call EXCEPT ![p] = NoCall] /\ registry' = None
  BY DEF Leave, Call, Goto
<1>3. None # p
  BY SessionAssumption
<1> QED
  BY <1>1, <1>2, <1>3, IdleOK, SessionKeeps

LEMMA EnterKeeps ==
  ASSUME SessionInv, NEW p \in Procs, NEW l \in {"prepare", "release"}, NEW c \in CallRecord,
         Enter(p, l, c), c.session \in Sessions,
         l = "prepare" => c.lease = None /\ c.profile \in SavedProfiles \cup {None},
         l = "release" => c.lease # None
  PROVE  SessionInv'
<1> USE DEF WithProfile, WithName, WithBackend, Launching, Deleting, Cleaning, Preparing
<1>1. registry = None /\ at[p] = "idle" /\ registry' = p
      /\ at' = [at EXCEPT ![p] = l] /\ call' = [call EXCEPT ![p] = c]
      /\ UNCHANGED <<fleetVars, job, receipts, issued>>
  BY DEF Enter, Goto
<1>2. job' = [job EXCEPT ![p] = job[p]]
  BY <1>1, Facts
<1>3. LocalOK(l, job[p])
  BY <1>1, Facts DEF LocalOK, SessionLocations
<1>4. StageOK(l, job[p], c, receipts[c.session])
  BY DEF StageOK, PrepareOK, ReleaseOK
<1>5. FleetTypeOK' /\ Chosen' /\ issued' \subseteq Leases
      /\ receipts' \in [Sessions -> SessionReceipt \cup {None}]
  BY <1>1 DEF SessionInv, SessionTypeOK, FleetTypeOK, fleetVars, Chosen
<1>6. NamesAgree'
  BY <1>1, <1>2, KeepsRecords DEF fleetVars
<1>7. registry' # None
  BY <1>1, SessionAssumption
<1> QED
  BY <1>1, <1>2, <1>3, <1>4, <1>5, <1>6, <1>7, SessionKeeps

LEMMA BeginSessionKeeps ==
  ASSUME SessionInv, NEW p \in Procs, BeginSession(p)
  PROVE  SessionInv'
<1>1. PICK s \in Sessions :
        \/ \E f \in SavedProfiles \cup {None} : BeginPrepare(p, s, f)
        \/ BeginLaunch(p, s)
        \/ \E l \in Leases : BeginRelease(p, s, l)
  BY DEF BeginSession
<1>2. ASSUME NEW f \in SavedProfiles \cup {None}, BeginPrepare(p, s, f) PROVE SessionInv'
  <2> DEFINE c == [NoCall EXCEPT !.session = s, !.profile = f]
  <2>1. c \in CallRecord /\ c.session = s /\ c.profile = f /\ c.lease = None
    BY SessionAssumption DEF NoCall, CallRecord
  <2>2. Enter(p, "prepare", c)
    BY <1>2 DEF BeginPrepare
  <2> HIDE DEF c
  <2> QED
    BY <2>1, <2>2, EnterKeeps
<1>3. CASE BeginLaunch(p, s)
  <2> DEFINE c == [NoCall EXCEPT !.session = s, !.launching = TRUE]
  <2>1. c \in CallRecord /\ c.session = s /\ c.profile = None /\ c.lease = None
    BY DEF NoCall, CallRecord
  <2>2. Enter(p, "prepare", c)
    BY <1>3 DEF BeginLaunch
  <2> HIDE DEF c
  <2> QED
    BY <2>1, <2>2, EnterKeeps
<1>4. ASSUME NEW l \in Leases, BeginRelease(p, s, l) PROVE SessionInv'
  <2> DEFINE c == [NoCall EXCEPT !.session = s, !.lease = l]
  <2>1. c \in CallRecord /\ c.session = s /\ c.lease # None
    BY SessionAssumption DEF NoCall, CallRecord
  <2>2. Enter(p, "release", c)
    BY <1>4 DEF BeginRelease
  <2> HIDE DEF c
  <2> QED
    BY <2>1, <2>2, EnterKeeps
<1> QED
  BY <1>1, <1>2, <1>3, <1>4

\* prepareLocked is over, and the session has its receipt.
LEMMA PreparedKeeps ==
  ASSUME SessionInv, NEW p \in Procs, NEW f \in Profiles, at[p] \in {"prepare", "lease"},
         Prepared(p, f), UNCHANGED fleetVars,
         receipts' \in [Sessions -> SessionReceipt \cup {None}], issued' \subseteq Leases, Chosen',
         receipts'[call[p].session] # None, receipts'[call[p].session].profile = f,
         \A s \in Sessions : receipts'[s] # None /\ receipts'[s].target # None =>
                               receipts'[s] = receipts[s]
  PROVE  SessionInv'
<1> USE DEF WithProfile, WithName, WithBackend, Launching, Deleting, Cleaning, Preparing
<1>1. registry = p /\ call[p].session \in Sessions /\ call[p] \in CallRecord
      /\ call[p].lease = None /\ call[p].profile \in SavedProfiles \cup {None}
  BY Holds DEF SessionLocations, StageOK, PrepareOK, ReleaseOK
<1>2. FleetTypeOK'
  BY DEF SessionInv, SessionTypeOK, FleetTypeOK, fleetVars
<1>3. ASSUME NEW l, NEW j, at' = [at EXCEPT ![p] = l], job' = [job EXCEPT ![p] = j],
             l \notin WithName
      PROVE  NamesAgree'
  BY <1>3, KeepsNames, Mentioned DEF fleetVars
<1>4. CASE call[p].launching
  <2> DEFINE j == [NoJob EXCEPT !.profile = f, !.next = "launched"]
  <2>1. at' = [at EXCEPT ![p] = "choose"] /\ job' = [job EXCEPT ![p] = j]
        /\ UNCHANGED <<call, registry>>
    BY <1>4 DEF Prepared, Call, Goto
  <2>2. j \in Jobs /\ j.profile = f /\ j.op = "provision" /\ j.next = "launched"
    BY DEF Jobs, Job, NoJob, NewJob, Ops, Returns
  <2> HIDE DEF j
  <2>3. LocalOK("choose", j)
    BY <2>2 DEF LocalOK, Jobs, SessionLocations
  <2>4. StageOK("choose", j, call[p], receipts'[call[p].session])
    BY <1>1, <2>2 DEF StageOK, PrepareOK
  <2>5. call' = [call EXCEPT ![p] = call[p]]
    BY <2>1 DEF SessionInv, SessionTypeOK
  <2>6. registry' # None
    BY <1>1, <2>1, SessionAssumption
  <2> QED
    BY <1>1, <1>2, <1>3, <2>1, <2>3, <2>4, <2>5, <2>6, SessionKeeps
<1>5. CASE ~ call[p].launching
  <2>1. Leave(p)
    BY <1>5 DEF Prepared
  <2>2. NamesAgree'
    BY <1>3, <2>1 DEF Leave, Call, Goto
  <2> QED
    BY <1>1, <1>2, <2>1, <2>2, LeaveKeeps
<1> QED
  BY <1>4, <1>5

LEMMA PrepareAgainKeeps ==
  ASSUME SessionInv, NEW p \in Procs, PrepareAgain(p)
  PROVE  SessionInv'
<1>1. at[p] = "prepare" /\ UNCHANGED <<fleetVars, receipts, issued>>
      /\ receipts[call[p].session] # None /\ Prepared(p, receipts[call[p].session].profile)
  BY DEF PrepareAgain
<1>2. receipts[call[p].session].profile \in Profiles
  BY <1>1, Holds DEF SessionLocations, SessionReceipt
<1>3. Chosen' /\ issued' \subseteq Leases
      /\ receipts' \in [Sessions -> SessionReceipt \cup {None}]
  BY <1>1 DEF SessionInv, SessionTypeOK, Chosen
<1> QED
  BY <1>1, <1>2, <1>3, PreparedKeeps

\* It goes on.
LEMMA OnKeeps ==
  ASSUME SessionInv, NEW p \in Procs, NEW l, NEW j, NEW c \in CallRecord, LocalOK(l, j),
         registry = p, l # "idle", c.session \in Sessions, StageOK(l, j, c, receipts[c.session]),
         at' = [at EXCEPT ![p] = l], job' = [job EXCEPT ![p] = j], call' = [call EXCEPT ![p] = c],
         UNCHANGED <<containers, targets, drawn, receipts, registry, issued>>, FleetTypeOK',
         \A f \in Profiles : bindings'[f] # None /\ bindings'[f].target \in Tokens =>
           Mentions(bindings'[f].target, f),
         l \in WithName => Mentions(j.name, j.profile)
  PROVE  SessionInv'
<1>1. None # p
  BY SessionAssumption
<1>2. NamesAgree'
  BY KeepsNames, Mentioned
<1>3. Chosen' /\ issued' \subseteq Leases
      /\ receipts' \in [Sessions -> SessionReceipt \cup {None}]
  BY DEF SessionInv, SessionTypeOK, Chosen
<1> QED
  BY <1>1, <1>2, <1>3, SessionKeeps

LEMMA NamedIn ==
  ASSUME SessionInv, NEW p \in Procs, call[p].session \in Sessions
  PROVE  Named(p) \in Profiles
BY SessionAssumption DEF Named, SessionInv, SessionTypeOK, CallRecord

LEMMA FindHomeKeeps ==
  ASSUME SessionInv, NEW p \in Procs, FindHome(p)
  PROVE  SessionInv'
<1> USE DEF WithProfile, WithName, WithBackend, Launching, Deleting, Cleaning, Preparing
<1>1. at[p] = "prepare" /\ receipts[call[p].session] = None
      /\ UNCHANGED <<fleetVars, job, receipts, registry, issued>>
  BY DEF FindHome
<1>2. /\ registry = p /\ call[p].session \in Sessions /\ call[p] \in CallRecord
      /\ LocalOK("prepare", job[p]) /\ call[p].lease = None
      /\ call[p].profile \in SavedProfiles \cup {None}
  BY <1>1, Holds DEF SessionLocations, StageOK, PrepareOK, ReleaseOK
<1>3. Named(p) \in Profiles
  BY <1>2, NamedIn
<1>4. /\ Bound(Named(p)) => bindings[Named(p)].backend \in Backends
      /\ HomeOf(Named(p)) \subseteq Backends
  BY <1>3 DEF Bound, HomeOf, SessionInv, SessionTypeOK, FleetTypeOK, Binding, Volume
<1>5. PICK l \in {"lease", "adopt"}, b \in Backends \cup {None} :
        /\ Goto(p, l) /\ call' = [call EXCEPT ![p].home = b]
        /\ l = "adopt" => b \in Backends
  <2>1. CASE Bound(Named(p))
    BY <1>4, <2>1 DEF FindHome
  <2>2. CASE ~ Bound(Named(p)) /\ HomeOf(Named(p)) = {}
    <3>1. Goto(p, "lease") /\ UNCHANGED call
      BY <2>2 DEF FindHome
    <3>2. call' = [call EXCEPT ![p].home = call[p].home] /\ call[p].home \in Backends \cup {None}
      BY <1>2, <3>1 DEF CallRecord, SessionInv, SessionTypeOK
    <3> QED
      BY <3>1, <3>2
  <2>3. CASE ~ Bound(Named(p)) /\ HomeOf(Named(p)) # {}
    BY <1>4, <2>3 DEF FindHome
  <2> QED
    BY <2>1, <2>2, <2>3
<1> DEFINE c == [call[p] EXCEPT !.home = b]
<1>6. /\ call' = [call EXCEPT ![p] = c] /\ c \in CallRecord /\ c.session = call[p].session
      /\ c.lease = None /\ c.profile = call[p].profile /\ c.home = b
  BY <1>2, <1>5 DEF CallRecord
<1> HIDE DEF c
<1>7. /\ at' = [at EXCEPT ![p] = l] /\ job' = [job EXCEPT ![p] = job[p]]
      /\ LocalOK(l, job[p]) /\ l # "idle" /\ l \notin WithName
  BY <1>1, <1>2, <1>5, Facts DEF Goto, LocalOK, SessionLocations
<1>8. StageOK(l, job[p], c, receipts[c.session])
  BY <1>1, <1>2, <1>5, <1>6 DEF StageOK, PrepareOK
<1>9. FleetTypeOK'
  BY <1>1 DEF fleetVars, SessionInv, SessionTypeOK, FleetTypeOK
<1> QED
  BY <1>1, <1>2, <1>6, <1>7, <1>8, <1>9, OnKeeps, Mentioned DEF fleetVars

LEMMA AdoptKeeps ==
  ASSUME SessionInv, NEW p \in Procs, Adopt(p)
  PROVE  SessionInv'
<1> USE DEF WithProfile, WithName, WithBackend, Launching, Deleting, Cleaning, Preparing
<1>1. /\ at[p] = "adopt" /\ at' = [at EXCEPT ![p] = "lease"] /\ BindTo(Named(p), call[p].home)
      /\ UNCHANGED <<volumes, containers, targets, drawn, job, receipts, registry, issued, call>>
  BY DEF Adopt, Goto, sessionVars
<1>2. /\ registry = p /\ call[p].session \in Sessions /\ call[p] \in CallRecord
      /\ LocalOK("adopt", job[p])
      /\ StageOK("adopt", job[p], call[p], receipts[call[p].session])
  BY <1>1, Holds DEF SessionLocations
<1>3. Named(p) \in Profiles
  BY <1>2, NamedIn
<1>4. /\ job' = [job EXCEPT ![p] = job[p]] /\ LocalOK("lease", job[p])
      /\ call' = [call EXCEPT ![p] = call[p]]
  BY <1>1, <1>2, Facts DEF LocalOK, SessionLocations, SessionInv, SessionTypeOK
<1>5. StageOK("lease", job[p], call[p], receipts[call[p].session])
  BY <1>2 DEF StageOK, PrepareOK, ReleaseOK
<1>6. FleetTypeOK'
  BY <1>1, <1>2, <1>3 DEF BindTo, StageOK, PrepareOK, ReleaseOK, SessionInv, SessionTypeOK,
     FleetTypeOK, Binding
<1>7. ASSUME NEW f \in Profiles, bindings'[f] # None, bindings'[f].target \in Tokens
      PROVE  Mentions(bindings'[f].target, f)
  <2>1. bindings' = [bindings EXCEPT ![Named(p)] =
                       IF @ = None THEN [backend |-> call[p].home, target |-> None] ELSE @]
    BY <1>1 DEF BindTo
  <2>2. None \notin Tokens
    BY NoneAssumption DEF AllNames
  <2>3. bindings'[f] = bindings[f]
    BY <1>3, <1>7, <2>1, <2>2 DEF SessionInv, SessionTypeOK, FleetTypeOK
  <2> QED
    BY <1>7, <2>3, Mentioned
<1>8. "lease" \notin WithName
  OBVIOUS
<1> QED
  BY <1>1, <1>2, <1>4, <1>5, <1>6, <1>7, <1>8, OnKeeps

LEMMA WriteLeaseKeeps ==
  ASSUME SessionInv, NEW p \in Procs, WriteLease(p)
  PROVE  SessionInv'
<1> DEFINE s == call[p].session
           f == Named(p)
           persistent == call[p].profile # None \/ call[p].home # None
<1>1. at[p] = "lease" /\ Prepared(p, f) /\ UNCHANGED fleetVars
  BY DEF WriteLease
<1>2. PICK l \in Leases :
        /\ receipts' = [receipts EXCEPT ![s] = [profile |-> f, persistent |-> persistent,
                                                lease |-> l, target |-> None]]
        /\ issued' = issued \cup {l}
  BY DEF WriteLease
<1> DEFINE r == [profile |-> f, persistent |-> persistent, lease |-> l, target |-> None]
<1>3. s \in Sessions /\ call[p] \in CallRecord /\ call[p].profile \in SavedProfiles \cup {None}
  BY <1>1, Holds DEF SessionLocations, StageOK, PrepareOK, ReleaseOK, Cleaning, Deleting
<1>4. f \in Profiles
  BY <1>3, NamedIn
<1>5. r \in SessionReceipt /\ r # None /\ r.profile = f /\ r.target = None
  <2>1. r \in SessionReceipt /\ r.profile = f /\ r.target = None
    BY <1>4 DEF SessionReceipt
  <2>2. receipts'[s] = r
    BY <1>2, <1>3 DEF SessionInv, SessionTypeOK
  <2>3. r # None
    BY <2>1, SessionAssumption
  <2> QED
    BY <2>1, <2>3
<1>6. f = Own(s) \/ (r.persistent /\ f \in SavedProfiles)
  BY <1>3 DEF Named, Own
<1> HIDE DEF r, f, s
<1>7. /\ receipts' \in [Sessions -> SessionReceipt \cup {None}] /\ receipts'[s] = r
      /\ \A t \in Sessions : t # s => receipts'[t] = receipts[t]
  BY <1>2, <1>3, <1>5 DEF SessionInv, SessionTypeOK, r, s
<1>8. Chosen'
  BY <1>5, <1>6, <1>7 DEF SessionInv, Chosen, Own
<1>9. issued' \subseteq Leases
  BY <1>2 DEF SessionInv, SessionTypeOK
<1> QED
  BY <1>1, <1>4, <1>5, <1>7, <1>8, <1>9, PreparedKeeps DEF f, s

LEMMA ProvisionKeeps ==
  ASSUME SessionInv, NEW p \in Procs, Provision(p)
  PROVE  SessionInv'
<1> USE DEF WithProfile, WithName, WithBackend, Launching, Deleting, Cleaning, Preparing
<1>1. at[p] = "choose" /\ ChooseBackend(p, job[p]) /\ UNCHANGED <<fleetVars, sessionVars>>
  BY DEF Provision, ChooseBackend
<1>2. /\ registry = p /\ call[p].session \in Sessions /\ call[p] \in CallRecord
      /\ LocalOK("choose", job[p]) /\ job[p] \in Jobs /\ job[p].profile \in Profiles
      /\ StageOK("choose", job[p], call[p], receipts[call[p].session])
  BY <1>1, Holds DEF SessionLocations, LocalOK, Jobs
<1>3. PICK b \in Backends, l \in {"ensure", "bind"} :
        /\ at' = [at EXCEPT ![p] = l] /\ job' = [job EXCEPT ![p] = [job[p] EXCEPT !.backend = b]]
        /\ l = "ensure" => job[p].op = "createProfile"
  BY <1>1, <1>2, Chooses
<1> DEFINE j == [job[p] EXCEPT !.backend = b]
<1>4. /\ j \in Jobs /\ j.op = job[p].op /\ j.profile = job[p].profile /\ j.name = job[p].name
      /\ j.next = job[p].next /\ j.backend = b
  BY <1>2 DEF Jobs, Job
<1>5. job' = [job EXCEPT ![p] = j]
  BY <1>3
<1> HIDE DEF j
<1>6. job[p].op = "provision" /\ l = "bind"
  BY <1>2, <1>3 DEF StageOK, PrepareOK, ReleaseOK
<1>7. LocalOK("bind", j)
  BY <1>2, <1>4, <1>6 DEF LocalOK, Jobs, Locations
<1>8. StageOK("bind", j, call[p], receipts[call[p].session])
  BY <1>2, <1>4 DEF StageOK, PrepareOK, ReleaseOK
<1>9. call' = [call EXCEPT ![p] = call[p]] /\ FleetTypeOK'
  BY <1>1 DEF sessionVars, fleetVars, SessionInv, SessionTypeOK, FleetTypeOK
<1>10. at' = [at EXCEPT ![p] = "bind"] /\ "bind" \notin WithName
  BY <1>3, <1>6
<1>11. UNCHANGED <<bindings, containers, targets, drawn, receipts, registry, issued>>
  BY <1>1 DEF fleetVars, sessionVars
<1> QED
  BY <1>2, <1>5, <1>7, <1>8, <1>9, <1>10, <1>11, OnKeeps, Mentioned

LEMMA LaunchedKeeps ==
  ASSUME SessionInv, NEW p \in Procs, Launched(p)
  PROVE  SessionInv'
<1> DEFINE s == call[p].session
           t == [name |-> job[p].name, backend |-> job[p].backend]
<1>1. /\ at[p] = "launched" /\ Leave(p) /\ UNCHANGED <<fleetVars, issued>>
      /\ receipts' = [receipts EXCEPT ![s].target = t]
  BY DEF Launched
<1>2. /\ registry = p /\ s \in Sessions /\ t \in Target /\ receipts[s] \in SessionReceipt \cup {None}
      /\ StageOK("launched", job[p], call[p], receipts[s])
  BY <1>1, Holds DEF SessionLocations, Returns, LocalOK, WithName, WithBackend, WithProfile,
     Launching, Target
<1>3. receipts[s] \in SessionReceipt /\ job[p].profile = receipts[s].profile
  BY <1>2 DEF StageOK, PrepareOK, ReleaseOK, Launching, Cleaning, Deleting
<1>4. Mentions(job[p].name, job[p].profile)
  BY <1>1, Mentioned DEF WithName
<1> HIDE DEF t, s
<1>5. /\ receipts' \in [Sessions -> SessionReceipt \cup {None}]
      /\ \A u \in Sessions : u # s => receipts'[u] = receipts[u]
      /\ receipts'[s].profile = receipts[s].profile /\ receipts'[s].target = t
      /\ receipts'[s].persistent <=> receipts[s].persistent
      /\ receipts[s] # None
  BY <1>1, <1>2, <1>3, SessionAssumption DEF SessionReceipt, SessionInv, SessionTypeOK
<1>6. Chosen'
  BY <1>2, <1>5 DEF SessionInv, Chosen, Own
<1>7. FleetTypeOK' /\ issued' \subseteq Leases
  BY <1>1 DEF fleetVars, SessionInv, SessionTypeOK, FleetTypeOK
<1>8. NamesAgree'
  <2>1. /\ at' = [at EXCEPT ![p] = "idle"] /\ job' = [job EXCEPT ![p] = NoJob]
        /\ "idle" \notin WithName
    BY <1>1 DEF Leave, Call, Goto, WithName, Cleaning
  <2>2. t.name = job[p].name
    BY DEF t
  <2>3. \A u \in Sessions : receipts'[u] # None /\ receipts'[u].target # None =>
          receipts'[u] = receipts[u] \/ Mentions(receipts'[u].target.name, receipts'[u].profile)
    BY <1>3, <1>4, <1>5, <2>2
  <2> QED
    BY <1>1, <2>1, <2>3, KeepsNames, Mentioned DEF fleetVars
<1> QED
  BY <1>1, <1>2, <1>5, <1>6, <1>7, <1>8, LeaveKeeps

\* A session operation that ends without touching the receipts.
LEMMA QuietLeaveKeeps ==
  ASSUME SessionInv, NEW p \in Procs, registry \in {p, None}, Leave(p),
         UNCHANGED <<fleetVars, receipts, issued>>
  PROVE  SessionInv'
<1>1. FleetTypeOK' /\ Chosen' /\ issued' \subseteq Leases
      /\ receipts' \in [Sessions -> SessionReceipt \cup {None}]
  BY DEF SessionInv, SessionTypeOK, FleetTypeOK, fleetVars, Chosen
<1>2. /\ at' = [at EXCEPT ![p] = "idle"] /\ job' = [job EXCEPT ![p] = NoJob]
      /\ "idle" \notin WithName
  BY DEF Leave, Call, Goto, WithName, Cleaning
<1>3. NamesAgree'
  BY <1>2, KeepsRecords DEF fleetVars
<1> QED
  BY <1>1, <1>3, LeaveKeeps

LEMMA ReleaseStaleKeeps ==
  ASSUME SessionInv, NEW p \in Procs, ReleaseStale(p)
  PROVE  SessionInv'
<1>1. at[p] = "release" /\ Leave(p) /\ UNCHANGED <<fleetVars, receipts, issued>>
  BY DEF ReleaseStale
<1> QED
  BY <1>1, Holds, QuietLeaveKeeps DEF SessionLocations

LEMMA RemoveReceiptKeeps ==
  ASSUME SessionInv, NEW p \in Procs, RemoveReceipt(p)
  PROVE  SessionInv'
<1>1. /\ at[p] = "unlease" /\ Leave(p) /\ UNCHANGED <<fleetVars, issued>>
      /\ receipts' = [receipts EXCEPT ![call[p].session] = None]
  BY DEF RemoveReceipt
<1>2. registry = p /\ call[p].session \in Sessions
  BY <1>1, Holds DEF SessionLocations, Returns
<1>3. /\ receipts' \in [Sessions -> SessionReceipt \cup {None}]
      /\ \A s \in Sessions : receipts'[s] # None => receipts'[s] = receipts[s]
  BY <1>1, <1>2 DEF SessionInv, SessionTypeOK
<1>4. Chosen' /\ FleetTypeOK' /\ issued' \subseteq Leases
  BY <1>1, <1>3 DEF Chosen, SessionInv, SessionTypeOK, FleetTypeOK, fleetVars, Own
<1>5. /\ at' = [at EXCEPT ![p] = "idle"] /\ job' = [job EXCEPT ![p] = NoJob]
      /\ "idle" \notin WithName
  BY <1>1 DEF Leave, Call, Goto, WithName, Cleaning
<1>6. NamesAgree'
  BY <1>1, <1>3, <1>5, KeepsNames, Mentioned DEF fleetVars
<1> QED
  BY <1>1, <1>2, <1>3, <1>4, <1>6, LeaveKeeps

LEMMA ReleaseKeeps ==
  ASSUME SessionInv, NEW p \in Procs, Release(p)
  PROVE  SessionInv'
<1> USE DEF WithProfile, WithName, WithBackend, Launching, Deleting, Cleaning, Preparing
<1> DEFINE r == receipts[call[p].session]
           f == r.profile
           home == IF Bound(f) THEN bindings[f].backend ELSE None
           published == IF Bound(f) /\ bindings[f].target # None
                        THEN {[name |-> bindings[f].target, backend |-> bindings[f].backend]} ELSE {}
           listed == IF Bound(f)
                     THEN {[name |-> c.name, backend |-> c.backend] : c \in {d \in containers : d.profile = f}}
                     ELSE {}
           found == IF r.target # None THEN {r.target}
                    ELSE IF published # {} THEN published ELSE listed
           k(t) == [NoJob EXCEPT !.op = "destroy", !.profile = f, !.name = t.name,
                                 !.backend = t.backend, !.next = "released"]
           c1 == [call[p] EXCEPT !.home = home]
<1>1. /\ at[p] = "release" /\ r # None /\ r.lease = call[p].lease
      /\ call' = [call EXCEPT ![p].home = home]
      /\ UNCHANGED <<bindings, volumes, containers, targets, drawn, receipts, registry, issued>>
  BY DEF Release, HoldsLease, fleetVars
<1>2. /\ registry = p /\ call[p].session \in Sessions /\ call[p] \in CallRecord
      /\ LocalOK("release", job[p]) /\ r \in SessionReceipt /\ call[p].lease # None
  BY <1>1, Holds DEF SessionLocations, StageOK, PrepareOK
<1>3. f \in Profiles /\ r.target \in Target \cup {None}
  BY <1>2 DEF SessionReceipt
<1>4. home \in Backends \cup {None}
  BY <1>3 DEF Bound, SessionInv, SessionTypeOK, FleetTypeOK, Binding
<1>5. /\ call' = [call EXCEPT ![p] = c1] /\ c1 \in CallRecord
      /\ c1.session = call[p].session /\ c1.lease = call[p].lease
  BY <1>1, <1>2, <1>4 DEF CallRecord
<1>6. FleetTypeOK' /\ \A g \in Profiles : bindings'[g] # None => Mentions(bindings'[g].target, g)
  BY <1>1, Mentioned DEF SessionInv, SessionTypeOK, FleetTypeOK
<1>7. ASSUME NEW t \in found
      PROVE  t.name \in AllNames /\ t.backend \in Backends /\ Mentions(t.name, f)
  <2>1. CASE r.target # None
    <3>1. t = r.target /\ t \in Target
      BY <1>3, <1>7, <2>1
    <3> QED
      BY <1>1, <1>2, <2>1, <3>1, Mentioned DEF Target
  <2>2. CASE r.target = None /\ published # {}
    <3>1. bindings[f] \in Binding /\ bindings[f].target # None
          /\ t = [name |-> bindings[f].target, backend |-> bindings[f].backend]
      BY <1>3, <1>7, <2>2 DEF Bound, SessionInv, SessionTypeOK, FleetTypeOK
    <3> QED
      BY <1>3, <3>1, Mentioned, NoneAssumption DEF Binding
  <2>3. CASE r.target = None /\ published = {}
    <3>1. PICK c \in containers : c.profile = f /\ t = [name |-> c.name, backend |-> c.backend]
      BY <1>7, <2>3
    <3> QED
      BY <3>1, Mentioned DEF SessionInv, SessionTypeOK, FleetTypeOK, Container
  <2> QED
    BY <2>1, <2>2, <2>3
<1>8. \/ found = {} /\ Goto(p, "released") /\ UNCHANGED job
      \/ \E t \in found : Call(p, "remove", k(t))
  BY DEF Release, NoJob
<1> HIDE DEF c1, found, home, published, listed
<1>12. /\ c1.session \in Sessions /\ registry = p
       /\ UNCHANGED <<containers, targets, drawn, receipts, registry, issued>>
  BY <1>1, <1>2, <1>5
<1>9. CASE found = {} /\ Goto(p, "released") /\ UNCHANGED job
  <2>1. at' = [at EXCEPT ![p] = "released"] /\ job' = [job EXCEPT ![p] = job[p]]
    BY <1>9, Facts DEF Goto
  <2>2. LocalOK("released", job[p])
    BY <1>2 DEF LocalOK, SessionLocations, Returns
  <2>3. StageOK("released", job[p], c1, receipts[c1.session])
    BY <1>1, <1>2, <1>5 DEF StageOK, ReleaseOK
  <2> QED
    BY <1>5, <1>6, <1>12, <2>1, <2>2, <2>3, OnKeeps
<1>10. ASSUME NEW t \in found, Call(p, "remove", k(t))
       PROVE  SessionInv'
  <2> DEFINE j == k(t)
  <2>1. j \in Jobs /\ j.op = "destroy" /\ j.profile = f /\ j.name = t.name
        /\ j.backend = t.backend /\ j.next = "released"
    BY <1>3, <1>7 DEF Jobs, Job, NoJob, NewJob, Ops, Returns
  <2>2. at' = [at EXCEPT ![p] = "remove"] /\ job' = [job EXCEPT ![p] = j]
    BY <1>10 DEF Call, Goto
  <2> HIDE DEF j, k
  <2>3. LocalOK("remove", j)
    BY <1>7, <2>1 DEF LocalOK, Jobs, Locations
  <2>4. StageOK("remove", j, c1, receipts[c1.session])
    BY <1>1, <1>2, <1>5, <2>1 DEF StageOK, ReleaseOK
  <2>5. Mentions(j.name, j.profile)
    BY <1>7, <2>1
  <2> QED
    BY <1>5, <1>6, <1>12, <2>2, <2>3, <2>4, <2>5, OnKeeps
<1> QED
  BY <1>8, <1>9, <1>10

LEMMA ReleasedStays ==
  ASSUME SessionInv, NEW p \in Procs, Released(p)
  PROVE  SessionInv'
<1> USE DEF WithProfile, WithName, WithBackend, Launching, Deleting, Cleaning, Preparing
<1> DEFINE r == receipts[call[p].session]
           j == [NoJob EXCEPT !.op = "deleteProfile", !.profile = r.profile, !.next = "unlease"]
<1>1. /\ at[p] = "released"
      /\ UNCHANGED <<bindings, volumes, containers, targets, drawn, receipts, registry, issued, call>>
  BY DEF Released, fleetVars, sessionVars
<1>2. /\ registry = p /\ call[p].session \in Sessions /\ call[p] \in CallRecord
      /\ LocalOK("released", job[p]) /\ r \in SessionReceipt \cup {None}
      /\ call[p].lease # None /\ r # None /\ r.lease = call[p].lease
  BY <1>1, Holds DEF SessionLocations, Returns, StageOK, PrepareOK, ReleaseOK
<1>3. r \in SessionReceipt /\ r.profile \in Profiles
  BY <1>2 DEF SessionReceipt
<1>4. /\ call' = [call EXCEPT ![p] = call[p]] /\ FleetTypeOK'
      /\ \A g \in Profiles : bindings'[g] # None => Mentions(bindings'[g].target, g)
  BY <1>1, Mentioned DEF SessionInv, SessionTypeOK, FleetTypeOK
<1>5. CASE ~ r.persistent /\ call[p].home # None
  <2>1. at' = [at EXCEPT ![p] = "findProfile"] /\ job' = [job EXCEPT ![p] = j]
    BY <1>5 DEF Released, Call, Goto, NoJob
  <2>2. j \in Jobs /\ j.op = "deleteProfile" /\ j.profile = r.profile /\ j.next = "unlease"
    BY <1>3 DEF Jobs, Job, NoJob, NewJob, Ops, Returns
  <2> HIDE DEF j
  <2>3. LocalOK("findProfile", j)
    BY <1>3, <2>2 DEF LocalOK, Jobs, SessionLocations
  <2>4. StageOK("findProfile", j, call[p], receipts[call[p].session])
    BY <1>2, <1>5, <2>2 DEF StageOK, ReleaseOK
  <2> QED
    BY <1>1, <1>2, <1>4, <2>1, <2>3, <2>4, OnKeeps
<1>6. CASE ~ (~ r.persistent /\ call[p].home # None)
  <2>1. at' = [at EXCEPT ![p] = "unlease"] /\ job' = [job EXCEPT ![p] = job[p]]
    BY <1>6, Facts DEF Released, Goto
  <2>2. LocalOK("unlease", job[p])
    BY <1>2 DEF LocalOK, SessionLocations, Returns
  <2>3. StageOK("unlease", job[p], call[p], receipts[call[p].session])
    BY <1>2 DEF StageOK, ReleaseOK
  <2> QED
    BY <1>1, <1>2, <1>4, <2>1, <2>2, <2>3, OnKeeps
<1> QED
  BY <1>5, <1>6

LEMMA DeleteDisposableKeeps ==
  ASSUME SessionInv, NEW p \in Procs, DeleteDisposable(p)
  PROVE  SessionInv'
<1> USE DEF WithProfile, WithName, WithBackend, Launching, Deleting, Cleaning, Preparing
<1> DEFINE f == job[p].profile
<1>1. /\ at[p] = "findProfile" /\ ChooseProfile(p, job[p])
      /\ UNCHANGED <<bindings, volumes, containers, targets, drawn, receipts, registry, issued, call>>
  BY DEF DeleteDisposable, ChooseProfile, fleetVars, sessionVars
<1>2. /\ registry = p /\ call[p].session \in Sessions /\ call[p] \in CallRecord
      /\ LocalOK("findProfile", job[p]) /\ f \in Profiles /\ job[p] \in Jobs
      /\ call[p].lease # None
      /\ ReleaseOK("findProfile", job[p], call[p], receipts[call[p].session])
  BY <1>1, Holds DEF SessionLocations, LocalOK, Jobs, StageOK, PrepareOK
<1>3. /\ call' = [call EXCEPT ![p] = call[p]] /\ FleetTypeOK'
      /\ \A g \in Profiles : bindings'[g] # None => Mentions(bindings'[g].target, g)
  BY <1>1, Mentioned DEF SessionInv, SessionTypeOK, FleetTypeOK
<1>4. PICK b \in Backends : Call(p, "removeProfile", [job[p] EXCEPT !.backend = b, !.bound = Bound(f)])
  BY <1>1, <1>2
  DEF ChooseProfile, HomeOf, Bound, SessionInv, SessionTypeOK, FleetTypeOK, Binding, Volume
<1> DEFINE j == [job[p] EXCEPT !.backend = b, !.bound = Bound(f)]
<1>5. /\ j \in Jobs /\ j.op = job[p].op /\ j.profile = f /\ j.next = job[p].next
      /\ j.backend = b /\ j.name = job[p].name
  BY <1>2 DEF Jobs, Job, Bound
<1>6. at' = [at EXCEPT ![p] = "removeProfile"] /\ job' = [job EXCEPT ![p] = j]
  BY <1>4 DEF Call, Goto
<1> HIDE DEF j
<1>7. LocalOK("removeProfile", j)
  BY <1>2, <1>5 DEF LocalOK, Locations, Jobs
<1>8. StageOK("removeProfile", j, call[p], receipts[call[p].session])
  BY <1>2, <1>5 DEF StageOK, ReleaseOK
<1> QED
  BY <1>1, <1>2, <1>3, <1>6, <1>7, <1>8, OnKeeps

LEMMA SessionFailKeeps ==
  ASSUME SessionInv, NEW p \in Procs, SessionFail(p)
  PROVE  SessionInv'
<1>1. /\ at' = [at EXCEPT ![p] = "idle"] /\ job' = [job EXCEPT ![p] = NoJob]
      /\ UNCHANGED <<fleetVars, receipts, issued>>
      /\ registry' = IF registry = p THEN None ELSE registry
      /\ call' = [call EXCEPT ![p] = NoCall]
  BY DEF SessionFail, Fail, Call, Goto
<1>2. CASE registry = p
  <2>1. Leave(p)
    BY <1>1, <1>2 DEF Leave, Call, Goto
  <2> QED
    BY <1>1, <1>2, <2>1, QuietLeaveKeeps
<1>3. CASE registry # p
  <2>1. registry' = registry /\ p # None
    BY <1>1, <1>3, SessionAssumption
  <2>2. NoCall \in CallRecord /\ call \in [Procs -> CallRecord]
    BY DEF NoCall, CallRecord, SessionInv, SessionTypeOK
  <2>3. call' \in [Procs -> CallRecord] /\ \A q \in Procs : q # p => call'[q] = call[q]
    BY <1>1, <2>2
  <2>4. ControlOK'
    BY <1>1, <1>3, <2>1, <2>3, IdleOK, Moves
  <2>5. "idle" \notin WithName
    BY DEF WithName, Cleaning
  <2>6. NamesAgree'
    BY <1>1, <2>5, KeepsRecords DEF fleetVars
  <2>7. FleetTypeOK' /\ Chosen'
    BY <1>1 DEF SessionInv, SessionTypeOK, FleetTypeOK, fleetVars, Chosen
  <2> QED
    BY <1>1, <2>1, <2>3, <2>4, <2>6, <2>7 DEF SessionInv, SessionTypeOK, ControlOK, Jobs
<1> QED
  BY <1>2, <1>3

LEMMA SessionStarts == SessionInit => SessionInv
<1> SUFFICES ASSUME SessionInit PROVE SessionInv
  OBVIOUS
<1> USE SessionAssumption
<1>1. PICK home \in [LegacyProfiles -> Backends] :
        InitWith({[profile |-> f, backend |-> home[f]] : f \in LegacyProfiles})
  BY DEF SessionInit
<1>2. volumes \subseteq Volume
  BY <1>1 DEF InitWith, Volume
<1>3. /\ bindings = [f \in Profiles |-> None] /\ containers = {}
      /\ targets = [n \in AllNames |-> None] /\ drawn = {}
      /\ at = [p \in Procs |-> "idle"] /\ job = [p \in Procs |-> NoJob]
      /\ receipts = [s \in Sessions |-> None] /\ registry = None /\ issued = {}
      /\ call = [p \in Procs |-> NoCall]
  BY <1>1 DEF SessionInit, InitWith
<1>4. NoCall \in CallRecord
  BY DEF NoCall, CallRecord
<1>5. \A p \in Procs : at[p] = "idle" /\ job[p] = NoJob
  BY <1>3
<1>6. Locals
  BY <1>5, IdleOK DEF Locals
<1>7. SessionTypeOK
  <2>1. NoJob \in Job(Returns \cup {"idle"}) /\ "idle" \in Locations \cup SessionLocations
    BY IdleOK DEF LocalOK
  <2> QED
    BY <1>2, <1>3, <1>4, <2>1 DEF SessionTypeOK, FleetTypeOK
<1>8. Registered /\ Staged
  BY <1>3, <1>5, IdleOK DEF Registered, Staged
<1>9. Chosen
  BY <1>3 DEF Chosen
<1>10. NamesAgree
  <2>1. "idle" \notin WithName
    BY DEF WithName, Cleaning
  <2>2. \A n \in Tokens, f \in Profiles : ~ Mentions(n, f)
    BY <1>3, <1>5, <2>1 DEF Mentions, AllNames
  <2> QED
    BY <2>2 DEF NamesAgree
<1> QED
  BY <1>6, <1>7, <1>8, <1>9, <1>10 DEF SessionInv

LEMMA SessionStepKeeps ==
  ASSUME SessionInv, NEW p \in Procs, SessionStep(p)
  PROVE  SessionInv'
BY PrepareAgainKeeps, FindHomeKeeps, AdoptKeeps, WriteLeaseKeeps, ProvisionKeeps, LaunchedKeeps,
   ReleaseStaleKeeps, ReleaseKeeps, ReleasedStays, DeleteDisposableKeeps, RemoveReceiptKeeps
DEF SessionStep

LEMMA SessionNextKeeps == SessionInv /\ [SessionNext]_allVars => SessionInv'
<1> SUFFICES ASSUME SessionInv, [SessionNext]_allVars PROVE SessionInv'
  OBVIOUS
<1>1. CASE UNCHANGED allVars
  <2>1. UNCHANGED <<bindings, volumes, containers, targets, drawn, at, job, receipts, registry,
                    issued, call>>
    BY <1>1 DEF allVars, vars, sessionVars
  <2>2. SessionTypeOK' /\ Locals' /\ Registered' /\ Staged' /\ Chosen'
    BY <2>1 DEF SessionInv, SessionTypeOK, FleetTypeOK, Locals, Registered, Staged, Chosen
  <2>3. NamesAgree'
    BY <2>1 DEF SessionInv, NamesAgree, Mentions
  <2> QED
    BY <2>2, <2>3 DEF SessionInv
<1>2. CASE SessionNext
  BY <1>2, BeginKeeps, StepKeeps, BeginSessionKeeps, SessionStepKeeps, SessionFailKeeps
  DEF SessionNext
<1> QED
  BY <1>1, <1>2

(***************************************************************************)
(* In every state the receipts of profiles, leases and targets agree with  *)
(* what the operations under the locks hold in their locals.               *)
(***************************************************************************)
THEOREM SessionInvariance == SessionSpec => []SessionInv
BY SessionStarts, SessionNextKeeps, PTL DEF SessionSpec

-----------------------------------------------------------------------------
(* What follows.                                                           *)

(***************************************************************************)
(* A release under a lease that is not in force removes no container whose *)
(* name provisionProfile drew: the container that a release removes runs   *)
(* the profile of the lease it was given (release's comparison of the      *)
(* receipt's lease under the registry lock; names are drawn once).         *)
(***************************************************************************)
THEOREM CleanupTheorem == SessionSpec => OnlyOwnerCleansUp
<1>1. ASSUME SessionInv, NEW c \in containers \ containers', NEW p \in Procs,
             Releasing(p), at[p] = "remove", job[p].name = c.name, c.name \in Tokens
      PROVE  /\ c.profile = receipts[call[p].session].profile
             /\ receipts[call[p].session].lease = call[p].lease
  <2> DEFINE r == receipts[call[p].session]
  <2>1. call[p].session \in Sessions /\ ReleaseOK("remove", job[p], call[p], r)
    BY <1>1, Facts DEF Releasing, StageOK
  <2>2. r # None /\ r.lease = call[p].lease /\ job[p].profile = r.profile
    BY <2>1 DEF ReleaseOK, Cleaning
  <2>3. r.profile \in Profiles /\ c.profile \in Profiles
    <3>1. r \in SessionReceipt
      <4>1. receipts \in [Sessions -> SessionReceipt \cup {None}]
        BY <1>1 DEF SessionInv, SessionTypeOK
      <4> QED
        BY <2>1, <2>2, <4>1
    <3>2. c \in Container
      BY <1>1 DEF SessionInv, SessionTypeOK, FleetTypeOK
    <3> QED
      BY <3>1, <3>2 DEF SessionReceipt, Container
  <2>4. Mentions(c.name, c.profile) /\ Mentions(c.name, r.profile)
    BY <1>1, <2>2, Mentioned DEF WithName, Cleaning
  <2> QED
    BY <1>1, <2>2, <2>3, <2>4 DEF SessionInv, NamesAgree
<1>2. SessionInv => [ \A c \in containers \ containers' : \A p \in Procs :
       Releasing(p) /\ at[p] = "remove" /\ job[p].name = c.name /\ c.name \in Tokens
       => /\ c.profile = receipts[call[p].session].profile
          /\ receipts[call[p].session].lease = call[p].lease]_allVars
  BY <1>1
<1> QED
  BY <1>2, SessionInvariance, PTL DEF OnlyOwnerCleansUp

(***************************************************************************)
(* A session operation removes the volume of no profile that tasks choose  *)
(* by name, when no session's own name is such a profile (release, and     *)
(* the persistent flag that prepare writes).                               *)
(***************************************************************************)
THEOREM StorageTheorem == ASSUME OwnNames PROVE SessionSpec => SavedStorageSurvives
<1>1. ASSUME SessionInv, [SessionNext]_allVars, NEW p \in Procs, registry = p, at[p] = "removeProfile"
      PROVE  job[p].profile \notin SavedProfiles
  <2> DEFINE r == receipts[call[p].session]
  <2>1. call[p].session \in Sessions /\ ReleaseOK("removeProfile", job[p], call[p], r)
    BY <1>1, Facts DEF StageOK, PrepareOK, Preparing, Launching
  <2>2. r # None /\ job[p].profile = r.profile /\ ~ r.persistent
    BY <2>1 DEF ReleaseOK, Deleting
  <2>3. r.profile = Own(call[p].session)
    BY <1>1, <2>1, <2>2 DEF SessionInv, Chosen
  <2> QED
    BY <2>1, <2>2, <2>3 DEF OwnNames
<1>2. SessionInv /\ [SessionNext]_allVars =>
        [ \A p \in Procs :
       registry = p /\ at[p] = "removeProfile" /\ volumes' # volumes
       => at'[p] = "removeProfile" \/ job[p].profile \notin SavedProfiles]_allVars
  BY <1>1
<1> QED
  BY <1>2, SessionInvariance, PTL DEF SavedStorageSurvives, SessionSpec

-----------------------------------------------------------------------------
(* One owner.                                                              *)

LEMMA OwnersKept ==
  ASSUME SessionInv, OneOwner,
         \A s \in Sessions : receipts'[s] # None =>
           receipts[s] # None /\ receipts'[s].profile = receipts[s].profile
  PROVE  OneOwner'
BY DEF OneOwner

LEMMA WriteLeaseOwns ==
  ASSUME OwnNames, SessionInv, OneOwner, NEW p \in Procs, WriteLease(p)
  PROVE  OneOwner'
<1> DEFINE s == call[p].session
           f == Named(p)
           kept == call[p].profile # None \/ call[p].home # None
<1>1. PICK l \in Leases :
        receipts' = [receipts EXCEPT ![s] = [profile |-> f, persistent |-> kept,
                                             lease |-> l, target |-> None]]
  BY DEF WriteLease
<1>2. at[p] = "lease" /\ s \in Sessions /\ receipts[s] = None
  BY Holds DEF WriteLease, SessionLocations, StageOK, PrepareOK, ReleaseOK, Cleaning, Deleting
<1>3. /\ receipts'[s].profile = f
      /\ \A t \in Sessions : t # s => receipts'[t] = receipts[t]
  BY <1>1, <1>2 DEF SessionInv, SessionTypeOK
<1>4. ASSUME NEW t \in Sessions, t # s, receipts[t] # None PROVE receipts[t].profile # f
  <2>1. CASE kept
    <3>1. Owners(f) = {}
      BY <2>1 DEF WriteLease
    <3> QED
      BY <1>4, <3>1 DEF Owners
  <2>2. CASE ~ kept
    <3>1. f = Own(s) /\ f \notin SavedProfiles
      BY <1>2, <2>2 DEF Named, Own, OwnNames
    <3>2. receipts[t].profile = Own(t) \/ receipts[t].profile \in SavedProfiles
      BY <1>4 DEF SessionInv, Chosen
    <3> QED
      BY <1>2, <1>4, <3>1, <3>2 DEF OwnNames
  <2> QED
    BY <2>1, <2>2
<1> HIDE DEF s, f
<1> QED
  BY <1>2, <1>3, <1>4 DEF OneOwner

LEMMA OwnersStep ==
  ASSUME OwnNames, SessionInv, OneOwner, [SessionNext]_allVars
  PROVE  OneOwner'
<1>1. CASE UNCHANGED receipts
  BY <1>1 DEF OneOwner
<1>2. ASSUME NEW p \in Procs, Launched(p) PROVE OneOwner'
  <2> DEFINE s == call[p].session
  <2>1. at[p] = "launched" /\ receipts' = [receipts EXCEPT ![s].target =
                                [name |-> job[p].name, backend |-> job[p].backend]]
    BY <1>2 DEF Launched
  <2>2. s \in Sessions /\ receipts[s] \in SessionReceipt /\ receipts[s] # None
    BY <2>1, Holds DEF SessionLocations, Returns, StageOK, PrepareOK, ReleaseOK, Launching,
       Cleaning, Deleting
  <2> HIDE DEF s
  <2>3. /\ receipts'[s].profile = receipts[s].profile
        /\ \A t \in Sessions : t # s => receipts'[t] = receipts[t]
    BY <2>1, <2>2 DEF SessionInv, SessionTypeOK, SessionReceipt
  <2> QED
    BY <2>2, <2>3, OwnersKept
<1>3. ASSUME NEW p \in Procs, RemoveReceipt(p) PROVE OneOwner'
  <2>1. \A s \in Sessions : receipts'[s] # None => receipts'[s] = receipts[s]
    BY <1>3 DEF RemoveReceipt, SessionInv, SessionTypeOK
  <2> QED
    BY <2>1, OwnersKept
<1>4. ASSUME NEW p \in Procs, WriteLease(p) PROVE OneOwner'
  BY <1>4, WriteLeaseOwns
<1>5. CASE SessionNext
  <2>1. PICK p \in Procs : \/ (Begin(p) \/ Step(p)) /\ UNCHANGED sessionVars
                           \/ BeginSession(p) \/ SessionStep(p) \/ SessionFail(p)
    BY <1>5 DEF SessionNext
  <2>2. CASE BeginSession(p)
    BY <1>1, <2>2 DEF BeginSession, BeginPrepare, BeginLaunch, BeginRelease, Enter
  <2>3. CASE SessionStep(p)
    BY <1>1, <1>2, <1>3, <1>4, <2>3
    DEF SessionStep, PrepareAgain, FindHome, Adopt, Provision, ReleaseStale, Release, Released,
        DeleteDisposable, sessionVars
  <2> QED
    BY <1>1, <2>1, <2>2, <2>3 DEF sessionVars, SessionFail
<1> QED
  BY <1>1, <1>5 DEF allVars, sessionVars

(***************************************************************************)
(* No two sessions hold leases on one profile, when every session has a    *)
(* name of its own that no task chooses (prepareLocked: the owner check    *)
(* and the new receipt are one section of the registry lock).              *)
(***************************************************************************)
THEOREM OwnerTheorem == ASSUME OwnNames PROVE SessionSpec => []OneOwner
<1>1. SessionInit => OneOwner
  BY DEF SessionInit, OneOwner
<1>2. SessionInv /\ OneOwner /\ [SessionNext]_allVars => OneOwner'
  BY OwnersStep
<1> QED
  BY <1>1, <1>2, SessionInvariance, PTL DEF SessionSpec

-----------------------------------------------------------------------------
(* Disposable leases.                                                      *)

\* Whoever works on a session's own profile holds the registry lock for that session.
LEMMA Worker ==
  ASSUME OwnNames, OwnProfiles, SessionInv, Private, NEW p \in Procs, NEW s \in Sessions,
         at[p] \in WithProfile \ {"unbind"}, job[p].profile = Own(s)
  PROVE  /\ registry = p /\ call[p].session = s /\ receipts[s] # None
         /\ at[p] \in Deleting => Throwaway(s) /\ call[p].lease # None
<1>1. registry = p
  BY DEF Private, OwnProfiles
<1> DEFINE t == call[p].session
           r == receipts[t]
<1>2. t \in Sessions /\ StageOK(at[p], job[p], call[p], r) /\ LocalOK(at[p], job[p])
  BY <1>1, Facts
<1>3. at[p] \in Launching \cup Deleting
  BY <1>2 DEF LocalOK, WithProfile, StageOK, PrepareOK, ReleaseOK, Launching, Preparing, Deleting,
     Cleaning
<1>4. r # None /\ r.profile = Own(s) /\ (at[p] \in Deleting => ~ r.persistent /\ call[p].lease # None)
  BY <1>2, <1>3 DEF StageOK, PrepareOK, ReleaseOK, Launching, Deleting, Cleaning, Preparing
<1>5. r.profile = Own(t) \/ r.profile \in SavedProfiles
  BY <1>2, <1>4 DEF SessionInv, Chosen
<1> HIDE DEF t, r
<1>6. t = s
  BY <1>2, <1>4, <1>5 DEF OwnNames
<1> QED
  BY <1>1, <1>4, <1>6 DEF t, r, Throwaway

\* No storage under the session's own name, and nobody about to make some.
Unused(s) == NoStorage(Own(s)) /\ \A q \in Procs : ~ (at[q] \in Placing /\ job[q].profile = Own(s))

\* A step of p that leaves the storage of s where it is.
LEMMA KeepsAt ==
  ASSUME DisposableInv, SessionInv', NEW p \in Procs, NEW l, NEW j, NEW s \in Sessions,
         at' = [at EXCEPT ![p] = l], job' = [job EXCEPT ![p] = j],
         \A c \in containers' : c.profile = Own(s) => c \in containers \/ HasVolume(Own(s), c.backend)',
         \A v \in volumes : v.profile = Own(s) => v \in volumes',
         \A v \in volumes' : v.profile = Own(s) /\ Throwaway(s)' =>
           v \in volumes \/ BoundTo(Own(s), v.backend)',
         \A b : BoundTo(Own(s), b) => BoundTo(Own(s), b)',
         l = "run" /\ j.profile = Own(s) => HasVolume(Own(s), j.backend)',
         Throwaway(s)' /\ l \in Placing /\ j.profile = Own(s) => BoundTo(Own(s), j.backend)',
         Throwaway(s)' => Throwaway(s) \/ Unused(s)
  PROVE  MountedAt(s)' /\ LocatedAt(s)'
<1>1. /\ \A q \in Procs : q # p => at'[q] = at[q] /\ job'[q] = job[q]
      /\ at'[p] = l /\ job'[p] = j
  BY DEF DisposableInv, SessionInv, SessionTypeOK
<1>2. ASSUME NEW b, HasVolume(Own(s), b) PROVE HasVolume(Own(s), b)'
  BY <1>2 DEF HasVolume, Own
<1>3. MountedAt(s) /\ LocatedAt(s)
  BY DEF DisposableInv, Mounted, Located
<1>4. MountedAt(s)'
  <2>1. ASSUME NEW c \in containers', c.profile = Own(s) PROVE HasVolume(Own(s), c.backend)'
    BY <1>2, <1>3, <2>1 DEF MountedAt
  <2>2. ASSUME NEW q \in Procs, at'[q] = "run", job'[q].profile = Own(s)
        PROVE  HasVolume(Own(s), job[q].backend)'
    <3>1. CASE q = p
      BY <1>1, <2>2, <3>1 DEF HasVolume, Own
    <3>2. CASE q # p
      BY <1>1, <1>3, <2>2, <3>2 DEF MountedAt, HasVolume, Own
    <3> QED
      BY <3>1, <3>2
  <2> QED
    BY <2>1, <2>2 DEF MountedAt, HasVolume, Own
<1>5. LocatedAt(s)'
  <2> SUFFICES ASSUME Throwaway(s)'
               PROVE /\ \A v \in volumes' : v.profile = Own(s) => BoundTo(Own(s), v.backend)'
                     /\ \A q \in Procs :
                          at'[q] \in Placing /\ job'[q].profile = Own(s) => BoundTo(Own(s), job[q].backend)'
    BY DEF LocatedAt, Placing, BoundTo, Own
  <2>1. ASSUME NEW v \in volumes', v.profile = Own(s) PROVE BoundTo(Own(s), v.backend)'
    BY <1>3, <2>1 DEF LocatedAt, Unused, NoStorage
  <2>2. ASSUME NEW q \in Procs, at'[q] \in Placing, job'[q].profile = Own(s)
        PROVE  BoundTo(Own(s), job[q].backend)'
    <3>1. CASE q = p
      BY <1>1, <2>2, <3>1 DEF BoundTo, Own
    <3>2. CASE q # p
      <4>1. BoundTo(Own(s), job[q].backend)
        BY <1>1, <1>3, <2>2, <3>2 DEF LocatedAt, Unused
      <4> QED
        BY <1>1, <3>2, <4>1 DEF BoundTo, Own
    <3> QED
      BY <3>1, <3>2
  <2> QED
    BY <2>1, <2>2
<1> QED
  BY <1>4, <1>5

\* A step that brings the session's own profile no storage and no binding.
Spares(s) ==
  /\ \A c \in containers' : c.profile = Own(s) => c \in containers
  /\ \A v \in volumes' : v.profile = Own(s) => v \in volumes
  /\ bindings'[Own(s)] # None => bindings'[Own(s)] = bindings[Own(s)] \/ BoundTo(Own(s), bindings'[Own(s)].backend)

LEMMA SparedAt ==
  ASSUME NEW s \in Sessions, Spares(s), receipts' = receipts, NEW l, NEW j, NEW c,
         c.session = s, CleanAt(l, j, c)
  PROVE  CleanAt(l, j, c)'
<1>1. /\ NoStorage(Own(s)) => NoStorage(Own(s))'
      /\ bindings[Own(s)] = None => bindings'[Own(s)] = None
      /\ bindings'[Own(s)] # None => bindings[Own(s)] # None
                                     /\ bindings'[Own(s)].backend = bindings[Own(s)].backend
      /\ Throwaway(s)' <=> Throwaway(s)
  BY DEF Spares, NoStorage, BoundTo, Throwaway, Own
<1> QED
  BY <1>1 DEF CleanAt, Own

LEMMA Disposes ==
  ASSUME DisposableInv, SessionInv', NEW p \in Procs, NEW l, NEW j,
         at' = [at EXCEPT ![p] = l], job' = [job EXCEPT ![p] = j],
         \A q \in Procs : q # p =>
           /\ registry' = q <=> registry = q
           /\ registry = q => call'[q] = call[q] /\ receipts' = receipts,
         registry # p => \A s \in Sessions : Spares(s),
         registry' = p => CleanAt(l, j, call[p])',
         registry' # p /\ l \in WithProfile \ {"unbind"} => j.profile \in CliProfiles \cup CliDeletes,
         \A s \in Sessions : MountedAt(s)' /\ LocatedAt(s)'
  PROVE  DisposableInv'
<1>1. /\ \A q \in Procs : q # p => at'[q] = at[q] /\ job'[q] = job[q]
      /\ at'[p] = l /\ job'[p] = j
  BY DEF DisposableInv, SessionInv, SessionTypeOK
<1>2. Private'
  BY <1>1 DEF DisposableInv, Private
<1>3. ASSUME NEW q \in Procs, registry' = q PROVE CleanAt(at[q], job[q], call[q])'
  <2>1. CASE q = p
    BY <1>1, <1>3, <2>1 DEF CleanAt, Own, NoStorage, Throwaway
  <2>2. CASE q # p
    <3>1. registry = q /\ call'[q] = call[q] /\ receipts' = receipts
          /\ at'[q] = at[q] /\ job'[q] = job[q]
      BY <1>1, <1>3, <2>2
    <3>2. call[q].session \in Sessions /\ CleanAt(at[q], job[q], call[q]) /\ registry # p
      BY <2>2, <3>1 DEF DisposableInv, Cleaned, SessionInv, Registered
    <3>3. ASSUME NEW x, NEW y, NEW z, x = at[q], y = job[q], z = call[q]
          PROVE  CleanAt(x, y, z)'
      BY <3>1, <3>2, <3>3, SparedAt
    <3>4. ASSUME NEW x, NEW y, NEW z, x = at[q], y = job[q], z = call[q]
          PROVE  CleanAt(at[q], job[q], call[q])'
      BY <3>1, <3>3, <3>4 DEF CleanAt, Own, NoStorage, Throwaway
    <3> QED
      BY <3>4
  <2> QED
    BY <2>1, <2>2
<1>4. Cleaned' /\ Mounted' /\ Located'
  BY <1>3 DEF Cleaned, Mounted, Located
<1> QED
  BY <1>2, <1>4 DEF DisposableInv

\* A step that makes and removes no volume and starts no container.
LEMMA QuietDisposes ==
  ASSUME DisposableInv, SessionInv', NEW p \in Procs, NEW l, NEW j,
         at' = [at EXCEPT ![p] = l], job' = [job EXCEPT ![p] = j],
         \A q \in Procs : q # p =>
           /\ registry' = q <=> registry = q
           /\ registry = q => call'[q] = call[q] /\ receipts' = receipts,
         registry' = p => CleanAt(l, j, call[p])',
         registry' # p /\ l \in WithProfile \ {"unbind"} => j.profile \in CliProfiles \cup CliDeletes,
         containers' \subseteq containers, volumes' = volumes, l # "run",
         registry # p => \A s \in Sessions :
           bindings'[Own(s)] # None => bindings'[Own(s)] = bindings[Own(s)] \/ BoundTo(Own(s), bindings'[Own(s)].backend),
         \A s \in Sessions : \A b : BoundTo(Own(s), b) => BoundTo(Own(s), b)',
         \A s \in Sessions : l \in Placing /\ j.profile = Own(s) /\ Throwaway(s)' => BoundTo(Own(s), j.backend)',
         \A s \in Sessions : Throwaway(s)' => Throwaway(s) \/ Unused(s)
  PROVE  DisposableInv'
<1>1. registry # p => \A s \in Sessions : Spares(s)
  BY DEF Spares
<1>2. ASSUME NEW s \in Sessions PROVE MountedAt(s)' /\ LocatedAt(s)'
  BY KeepsAt
<1> QED
  BY <1>1, <1>2, Disposes

\* The same of a step of the fleet.
LEMMA FleetDisposes ==
  ASSUME DisposableInv, SessionInv', UNCHANGED sessionVars, NEW p \in Procs, NEW l, NEW j,
         at' = [at EXCEPT ![p] = l], job' = [job EXCEPT ![p] = j],
         registry = p => CleanAt(l, j, call[p])',
         registry # p /\ l \in WithProfile \ {"unbind"} => j.profile \in CliProfiles \cup CliDeletes,
         containers' \subseteq containers, volumes' = volumes, l # "run",
         registry # p => \A s \in Sessions :
           bindings'[Own(s)] # None => bindings'[Own(s)] = bindings[Own(s)] \/ BoundTo(Own(s), bindings'[Own(s)].backend),
         \A s \in Sessions : \A b : BoundTo(Own(s), b) => BoundTo(Own(s), b)',
         \A s \in Sessions : l \in Placing /\ j.profile = Own(s) /\ Throwaway(s)' => BoundTo(Own(s), j.backend)'
  PROVE  DisposableInv'
<1>1. UNCHANGED <<receipts, registry, issued, call>>
  BY DEF sessionVars
<1>2. \A s \in Sessions : Throwaway(s)' => Throwaway(s)
  BY <1>1 DEF Throwaway
<1> QED
  BY <1>1, <1>2, QuietDisposes

LEMMA Others ==
  ASSUME OwnProfiles, Private, NEW p \in Procs, registry # p, at[p] \in WithProfile \ {"unbind"}
  PROVE  /\ job[p].profile \in CliProfiles \cup CliDeletes
         /\ \A s \in Sessions : job[p].profile # Own(s)
BY DEF OwnProfiles, Private

LEMMA BindProfileDisposes ==
  ASSUME OwnNames, OwnProfiles, DisposableInv, SessionInv', UNCHANGED sessionVars,
         NEW p \in Procs, BindProfile(p)
  PROVE  DisposableInv'
<1>0. PICK j : j = job[p]
  OBVIOUS
<1> DEFINE f == j.profile
           b == j.backend
<1>1. PICK l \in {"ensure", "place"} :
        /\ at' = [at EXCEPT ![p] = l] /\ job' = [job EXCEPT ![p] = j]
        /\ at[p] = "bind" /\ BindTo(f, b) /\ UNCHANGED <<volumes, containers>>
  <2>1. job = [job EXCEPT ![p] = job[p]]
    BY Facts DEF DisposableInv
  <2> QED
    BY <1>0, <2>1 DEF BindProfile, Goto
<1>2. "bind" \in WithProfile \ {"unbind"}
  BY DEF WithProfile, Launching
<1>3. f \in Profiles /\ b \in Backends /\ bindings \in [Profiles -> Binding \cup {None}]
  BY <1>0, <1>1, Facts DEF LocalOK, WithBackend, WithProfile, Launching, DisposableInv, SessionInv,
     SessionTypeOK, FleetTypeOK
<1>4. /\ \A g \in Profiles : bindings[g] # None => bindings'[g] = bindings[g]
      /\ \A g \in Profiles : g # f => bindings'[g] = bindings[g]
      /\ bindings'[f] # None /\ bindings'[f].backend = b
  <2>1. bindings' = [bindings EXCEPT ![f] = IF @ = None THEN [backend |-> b, target |-> None] ELSE @]
        /\ (bindings[f] # None => bindings[f].backend = b)
    BY <1>1 DEF BindTo, Bound
  <2>2. [backend |-> b, target |-> None] # None
    BY <1>3, NoneAssumption DEF Binding
  <2> QED
    BY <1>3, <2>1, <2>2
<1>5. registry # p => f \in CliProfiles \cup CliDeletes /\ \A s \in Sessions : f # Own(s)
  BY <1>0, <1>1, <1>2, Others DEF DisposableInv
<1>6. \A s \in Sessions : Own(s) \in Profiles
  BY SessionAssumption DEF Own
<1>7. CleanAt(l, j, call[p])'
  BY <1>1 DEF CleanAt, Cleaning
<1>8. registry # p => \A s \in Sessions :
        bindings'[Own(s)] # None => bindings'[Own(s)] = bindings[Own(s)] \/ BoundTo(Own(s), bindings'[Own(s)].backend)
  BY <1>4, <1>5, <1>6
<1>9. \A s \in Sessions : \A c : BoundTo(Own(s), c) => BoundTo(Own(s), c)'
  BY <1>4, <1>6 DEF BoundTo, Own
<1>10. \A s \in Sessions : f = Own(s) => BoundTo(Own(s), b)'
  BY <1>4 DEF BoundTo, Own
<1> HIDE DEF f, b
<1> QED
  BY <1>1, <1>5, <1>7, <1>8, <1>9, <1>10, FleetDisposes DEF f, b

LEMMA StaysBound ==
  ASSUME UNCHANGED bindings
  PROVE  /\ \A s \in Sessions : \A b : BoundTo(Own(s), b) => BoundTo(Own(s), b)'
         /\ \A s \in Sessions :
              bindings'[Own(s)] # None =>
                bindings'[Own(s)] = bindings[Own(s)] \/ BoundTo(Own(s), bindings'[Own(s)].backend)
BY DEF BoundTo, Own

\* A process that stays in the section under the allocation lock, or waits for its browser.
LEMMA StaysPlaced ==
  ASSUME DisposableInv, UNCHANGED <<bindings, receipts>>, NEW p \in Procs, at[p] \in Placing,
         NEW j, j = job[p], NEW s \in Sessions, j.profile = Own(s), Throwaway(s)'
  PROVE  BoundTo(Own(s), j.backend)'
<1>1. Throwaway(s)
  BY DEF Throwaway
<1>2. BoundTo(Own(s), j.backend)
  BY <1>1 DEF DisposableInv, Located, LocatedAt
<1> QED
  BY <1>2 DEF BoundTo, Own

\* A cleanup that goes on.
LEMMA StaysClean ==
  ASSUME DisposableInv, UNCHANGED sessionVars, NEW p \in Procs, registry = p,
         at[p] \in Cleaning \cup {"released"}, NEW l \in Cleaning \cup {"released"}, NEW j,
         Spares(call[p].session)
  PROVE  CleanAt(l, j, call[p])'
<1>1. PICK c : c = call[p]
  OBVIOUS
<1>2. c.session \in Sessions /\ CleanAt(at[p], job[p], c) /\ call'[p] = c /\ receipts' = receipts
  BY <1>1, Facts DEF DisposableInv, Cleaned, sessionVars
<1>3. CleanAt(l, j, c)
  BY <1>2 DEF CleanAt, Cleaning
<1>4. CleanAt(l, j, c)'
  BY <1>1, <1>2, <1>3, SparedAt
<1> QED
  BY <1>2, <1>4 DEF CleanAt, Own, NoStorage, Throwaway

LEMMA WriteTargetDisposes ==
  ASSUME OwnNames, OwnProfiles, DisposableInv, SessionInv', UNCHANGED sessionVars,
         NEW p \in Procs, WriteTarget(p)
  PROVE  DisposableInv'
<1>0. PICK j : j = job[p]
  OBVIOUS
<1>1. /\ at[p] = "record" /\ at' = [at EXCEPT ![p] = "await"] /\ job' = [job EXCEPT ![p] = j]
      /\ UNCHANGED <<bindings, volumes, containers, receipts>>
  BY <1>0, Facts DEF WriteTarget, Goto, DisposableInv, sessionVars
<1>2. registry # p => j.profile \in CliProfiles \cup CliDeletes
  BY <1>0, <1>1, Others DEF WithProfile, Launching, DisposableInv
<1>3. CleanAt("await", j, call[p])'
  BY DEF CleanAt, Cleaning
<1>4. \A s \in Sessions : j.profile = Own(s) /\ Throwaway(s)' => BoundTo(Own(s), j.backend)'
  BY <1>0, <1>1, StaysPlaced DEF Placing
<1> QED
  BY <1>1, <1>2, <1>3, <1>4, StaysBound, FleetDisposes

LEMMA BindTargetDisposes ==
  ASSUME OwnNames, OwnProfiles, DisposableInv, SessionInv', UNCHANGED sessionVars,
         NEW p \in Procs, BindTarget(p)
  PROVE  DisposableInv'
<1> DEFINE f == job[p].profile
           b == job[p].backend
<1>0. PICK l : l = job[p].next
  OBVIOUS
<1>1. PICK j : j = IF l = "idle" THEN NoJob ELSE job[p]
  OBVIOUS
<1>2. /\ at[p] = "await" /\ at' = [at EXCEPT ![p] = l] /\ job' = [job EXCEPT ![p] = j]
      /\ UNCHANGED <<volumes, containers>>
      /\ bindings[f] # None => bindings[f].backend = b
      /\ bindings' = [bindings EXCEPT ![f] = [backend |-> b, target |-> job[p].name]]
  BY <1>0, <1>1, Facts DEF BindTarget, Return, Goto, Bound, DisposableInv
<1>3. /\ registry # p => l = "idle"
      /\ registry = p => l = "launched"
  BY <1>0, <1>2, Facts DEF StageOK, PrepareOK, ReleaseOK, Launching, Preparing, Cleaning, Deleting,
     DisposableInv
<1>4. f \in Profiles /\ bindings \in [Profiles -> Binding \cup {None}]
      /\ [backend |-> b, target |-> job[p].name] # None
  <2>1. f \in Profiles /\ b \in Backends /\ job[p].name \in AllNames
    BY <1>2, Facts DEF LocalOK, WithName, WithBackend, WithProfile, Launching, DisposableInv
  <2> QED
    BY <2>1, NoneAssumption DEF Binding, DisposableInv, SessionInv, SessionTypeOK, FleetTypeOK
<1>5. registry # p => \A s \in Sessions : f # Own(s)
  BY <1>2, Others DEF WithProfile, Launching, DisposableInv
<1>6. \A s \in Sessions : Own(s) \in Profiles
  BY SessionAssumption DEF Own
<1>7. registry = p => CleanAt(l, j, call[p])'
  BY <1>3 DEF CleanAt, Cleaning
<1>8. registry # p => \A s \in Sessions : bindings'[Own(s)] = bindings[Own(s)]
  BY <1>2, <1>4, <1>5, <1>6
<1>9. \A s \in Sessions : \A c : BoundTo(Own(s), c) => BoundTo(Own(s), c)'
  <2> SUFFICES ASSUME NEW s \in Sessions, NEW c, BoundTo(Own(s), c)
               PROVE  bindings'[Own(s)] # None /\ bindings'[Own(s)].backend = c
    BY DEF BoundTo, Own
  <2> QED
    BY <1>2, <1>4, <1>6 DEF BoundTo
<1>10. l \notin Placing /\ l # "run" /\ (registry # p => l \notin WithProfile)
  BY <1>3 DEF Placing, WithProfile, Launching, Deleting
<1> HIDE DEF f, b
<1> QED
  BY <1>2, <1>7, <1>8, <1>9, <1>10, FleetDisposes

LEMMA RemoveContainerDisposes ==
  ASSUME OwnNames, OwnProfiles, DisposableInv, SessionInv', UNCHANGED sessionVars,
         NEW p \in Procs, RemoveContainer(p)
  PROVE  DisposableInv'
<1>1. PICK j : /\ job' = [job EXCEPT ![p] = j] /\ at' = [at EXCEPT ![p] = "unrecord"]
               /\ at[p] = "remove" /\ containers' \subseteq containers
               /\ UNCHANGED <<bindings, volumes>>
  <2>1. PICK f : job' = [job EXCEPT ![p].profile = f]
    BY DEF RemoveContainer
  <2>2. job' = [job EXCEPT ![p] = [job[p] EXCEPT !.profile = f]]
    BY <2>1, Facts DEF DisposableInv
  <2> QED
    BY <2>2 DEF RemoveContainer, Goto
<1>2. \A s : Spares(s)
  BY <1>1 DEF Spares
<1>3. registry = p => CleanAt("unrecord", j, call[p])'
  BY <1>1, <1>2, StaysClean DEF Cleaning
<1>4. "unrecord" \notin Placing /\ "unrecord" \notin WithProfile
  BY DEF Placing, WithProfile, Launching, Deleting
<1> QED
  BY <1>1, <1>3, <1>4, StaysBound, FleetDisposes

LEMMA RemoveTargetDisposes ==
  ASSUME OwnNames, OwnProfiles, DisposableInv, SessionInv', UNCHANGED sessionVars,
         NEW p \in Procs, RemoveTarget(p)
  PROVE  DisposableInv'
<1>1. at[p] = "unrecord" /\ UNCHANGED <<bindings, volumes, containers>>
  BY DEF RemoveTarget
<1>2. \A s : Spares(s)
  BY <1>1 DEF Spares
<1>3. PICK l, j : /\ at' = [at EXCEPT ![p] = l] /\ job' = [job EXCEPT ![p] = j]
                  /\ l = "unbind" \/ (l = "idle" /\ registry # p)
  <2>1. CASE job[p].profile = None
    BY <1>1, <2>1, KnowsProfile DEF RemoveTarget, Return, Goto, DisposableInv, SessionInv, SessionTypeOK
  <2>2. CASE job[p].profile # None
    <3>1. job' = [job EXCEPT ![p] = job[p]]
      BY <2>2, Facts DEF RemoveTarget, DisposableInv
    <3> QED
      BY <2>2, <3>1 DEF RemoveTarget, Goto
  <2> QED
    BY <2>1, <2>2
<1>4. registry = p => CleanAt(l, j, call[p])'
  BY <1>1, <1>2, <1>3, StaysClean DEF Cleaning
<1>5. l \notin Placing /\ l # "run" /\ l \notin WithProfile \ {"unbind"}
  BY <1>3 DEF Placing, WithProfile, Launching, Deleting
<1> QED
  BY <1>1, <1>3, <1>4, <1>5, StaysBound, FleetDisposes

LEMMA ClearTargetDisposes ==
  ASSUME OwnNames, OwnProfiles, DisposableInv, SessionInv', UNCHANGED sessionVars,
         NEW p \in Procs, ClearTarget(p)
  PROVE  DisposableInv'
<1>1. /\ at[p] = "unbind" /\ Return(p) /\ UNCHANGED <<volumes, containers>>
  BY DEF ClearTarget
<1>2. ASSUME NEW f \in Profiles, bindings'[f] # None \/ bindings[f] # None
      PROVE  bindings'[f] # None /\ bindings[f] # None /\ bindings'[f].backend = bindings[f].backend
  <2>1. bindings \in [Profiles -> Binding \cup {None}]
    BY DEF DisposableInv, SessionInv, SessionTypeOK, FleetTypeOK
  <2>2. \/ bindings'[f] = bindings[f]
        \/ bindings[f] # None /\ bindings'[f] = [bindings[f] EXCEPT !.target = None]
    BY <2>1 DEF ClearTarget
  <2>3. CASE bindings'[f] = bindings[f]
    BY <1>2, <2>3
  <2>4. CASE bindings[f] # None /\ bindings'[f] = [bindings[f] EXCEPT !.target = None]
    <3>1. bindings[f] \in Binding
      BY <2>1, <2>4
    <3>2. bindings'[f] \in Binding /\ bindings'[f].backend = bindings[f].backend
      BY <2>4, <3>1 DEF Binding
    <3> QED
      BY <2>4, <3>2, NoneAssumption
  <2> QED
    BY <2>2, <2>3, <2>4
<1>3. \A s \in Sessions : Own(s) \in Profiles
  BY SessionAssumption DEF Own
<1>4. /\ \A s \in Sessions : \A b : BoundTo(Own(s), b) => BoundTo(Own(s), b)'
      /\ \A s \in Sessions :
           bindings'[Own(s)] # None => BoundTo(Own(s), bindings'[Own(s)].backend)
  BY <1>2, <1>3 DEF BoundTo, Own
<1>5. \A s \in Sessions : Spares(s)
  BY <1>1, <1>4 DEF Spares
<1>6. PICK l, j : /\ at' = [at EXCEPT ![p] = l] /\ job' = [job EXCEPT ![p] = j]
                  /\ l = job[p].next
  BY <1>1 DEF Return, Goto, DisposableInv, SessionInv, SessionTypeOK
<1>7. /\ registry # p => l = "idle"
      /\ registry = p => l = "released" /\ call[p].session \in Sessions
  BY <1>1, <1>6, Facts DEF StageOK, PrepareOK, ReleaseOK, Launching, Preparing, Cleaning, Deleting,
     DisposableInv
<1>8. registry = p => CleanAt(l, j, call[p])'
  BY <1>1, <1>5, <1>7, StaysClean DEF Cleaning
<1>9. l \notin Placing /\ l # "run" /\ l \notin WithProfile
  BY <1>7 DEF Placing, WithProfile, Launching, Deleting
<1> QED
  BY <1>1, <1>4, <1>6, <1>8, <1>9, FleetDisposes

LEMMA BeginDisposes ==
  ASSUME OwnNames, OwnProfiles, DisposableInv, SessionInv', UNCHANGED sessionVars,
         NEW p \in Procs, Begin(p)
  PROVE  DisposableInv'
<1>1. /\ at[p] = "idle" /\ UNCHANGED <<bindings, volumes, containers>> /\ registry # p
  BY Facts DEF Begin, BeginCreate, BeginCreateProfile, BeginDestroy, BeginDeleteProfile,
     ChooseBackend, FindTarget, ChooseProfile, fleetVars, DisposableInv
<1>2. PICK l, j : /\ at' = [at EXCEPT ![p] = l] /\ job' = [job EXCEPT ![p] = j]
                  /\ \/ l = "remove"
                     \/ l \in {"ensure", "bind", "removeProfile"} /\ j.profile \in CliProfiles \cup CliDeletes
  <2>1. ASSUME NEW f \in Profiles, NEW n \in AllNames \cup {None}, NEW op \in {"create", "createProfile"},
               f \in CliProfiles, ChooseBackend(p, NewJob(op, f, n))
        PROVE  \E l, j : /\ at' = [at EXCEPT ![p] = l] /\ job' = [job EXCEPT ![p] = j]
                         /\ \/ l = "remove"
                            \/ l \in {"ensure", "bind", "removeProfile"} /\ j.profile \in CliProfiles \cup CliDeletes
    <3> DEFINE j == NewJob(op, f, n)
    <3>1. j \in Jobs /\ j.profile = f
      BY NewJobs DEF Ops
    <3>2. PICK b \in Backends, l \in {"ensure", "bind"} :
            at' = [at EXCEPT ![p] = l] /\ job' = [job EXCEPT ![p] = [j EXCEPT !.backend = b]]
      BY <2>1, <3>1, Chooses DEF DisposableInv
    <3>3. [j EXCEPT !.backend = b].profile = f
      BY <3>1 DEF Jobs, Job
    <3> HIDE DEF j
    <3> QED
      BY <2>1, <3>2, <3>3
  <2>2. ASSUME NEW f \in Profiles, NEW n \in Names, BeginCreate(p, f, n)
        PROVE  f \in CliProfiles /\ ChooseBackend(p, NewJob("create", f, n)) /\ n \in AllNames
    BY <2>2 DEF BeginCreate, AllNames
  <2>3. ASSUME NEW f \in Profiles, BeginCreateProfile(p, f)
        PROVE  f \in CliProfiles /\ ChooseBackend(p, NewJob("createProfile", f, None))
    BY <2>3 DEF BeginCreateProfile
  <2>4. ASSUME NEW n \in AllNames, BeginDestroy(p, n)
        PROVE  \E j : at' = [at EXCEPT ![p] = "remove"] /\ job' = [job EXCEPT ![p] = j]
    BY <2>4 DEF BeginDestroy, FindTarget, Call, Goto
  <2>5. ASSUME NEW f \in Profiles, BeginDeleteProfile(p, f)
        PROVE  \E j : /\ at' = [at EXCEPT ![p] = "removeProfile"] /\ job' = [job EXCEPT ![p] = j]
                      /\ j.profile \in CliDeletes
    <3> DEFINE k == NewJob("deleteProfile", f, None)
    <3>1. f \in CliDeletes /\ ChooseProfile(p, k)
      BY <2>5 DEF BeginDeleteProfile
    <3>2. k \in Jobs /\ k.profile = f
      BY NewJobs DEF Ops
    <3> HIDE DEF k
    <3>3. PICK b : Call(p, "removeProfile", [k EXCEPT !.backend = b, !.bound = Bound(k.profile)])
      BY <3>1 DEF ChooseProfile
    <3>4. [k EXCEPT !.backend = b, !.bound = Bound(k.profile)].profile = f
      BY <3>2 DEF Jobs, Job
    <3> QED
      BY <3>1, <3>3, <3>4 DEF Call, Goto
  <2> QED
    BY <2>1, <2>2, <2>3, <2>4, <2>5 DEF Begin
<1>3. l \notin Placing /\ l # "run" /\ "remove" \notin WithProfile
  BY <1>2 DEF Placing, WithProfile, Launching, Deleting
<1> QED
  BY <1>1, <1>2, <1>3, StaysBound, FleetDisposes

LEMMA EnsureProfileDisposes ==
  ASSUME OwnNames, OwnProfiles, DisposableInv, SessionInv', UNCHANGED sessionVars,
         NEW p \in Procs, EnsureProfile(p)
  PROVE  DisposableInv'
<1>1. /\ at[p] = "ensure" /\ job[p].next = "idle"
      /\ at' = [at EXCEPT ![p] = "idle"] /\ job' = [job EXCEPT ![p] = NoJob]
      /\ UNCHANGED <<bindings, containers>>
      /\ volumes' = volumes \cup {[profile |-> job[p].profile, backend |-> job[p].backend]}
  BY Facts DEF EnsureProfile, EnsureVolume, Return, Goto, LocalOK, DisposableInv
<1>2. registry # p
  BY <1>1, Facts DEF StageOK, PrepareOK, ReleaseOK, Launching, Preparing, Cleaning, Deleting,
     DisposableInv
<1>3. \A s \in Sessions : job[p].profile # Own(s)
  BY <1>1, <1>2, Others DEF WithProfile, DisposableInv
<1>4. \A s \in Sessions : Spares(s)
  BY <1>1, <1>3 DEF Spares
<1>5. ASSUME NEW s \in Sessions PROVE MountedAt(s)' /\ LocatedAt(s)'
  <2>1. \A v \in volumes' : v.profile = Own(s) => v \in volumes
    BY <1>4 DEF Spares
  <2>2. Throwaway(s)' => Throwaway(s)
    BY DEF Throwaway, sessionVars
  <2>3. "idle" # "run" /\ "idle" \notin Placing
    BY DEF Placing
  <2> QED
    BY <1>1, <2>1, <2>2, <2>3, StaysBound, KeepsAt
<1>6. "idle" \notin WithProfile
  BY DEF WithProfile, Launching, Deleting
<1> QED
  BY <1>1, <1>2, <1>4, <1>5, <1>6, Disposes DEF sessionVars

LEMMA PlaceDisposes ==
  ASSUME OwnNames, OwnProfiles, DisposableInv, SessionInv', UNCHANGED sessionVars,
         NEW p \in Procs, Place(p)
  PROVE  DisposableInv'
<1>0. PICK f, b : f = job[p].profile /\ b = job[p].backend
  OBVIOUS
<1>1. PICK n \in AllNames : job' = [job EXCEPT ![p].name = n] /\ EnsureVolume(f, b)
  BY <1>0 DEF Place
<1>2. PICK j : j = [job[p] EXCEPT !.name = n]
  OBVIOUS
<1>3. j.profile = f /\ j.backend = b /\ job' = [job EXCEPT ![p] = j]
  BY <1>0, <1>1, <1>2, Facts DEF Jobs, Job, DisposableInv
<1>4. /\ at[p] = "place" /\ at' = [at EXCEPT ![p] = "run"]
      /\ UNCHANGED <<bindings, containers>>
      /\ volumes' = volumes \cup {[profile |-> f, backend |-> b]}
  BY <1>1 DEF Place, Goto, EnsureVolume
<1>5. registry # p => f \in CliProfiles \cup CliDeletes /\ \A s \in Sessions : f # Own(s)
  BY <1>0, <1>4, Others DEF WithProfile, Launching, DisposableInv
<1>6. ASSUME NEW s \in Sessions PROVE MountedAt(s)' /\ LocatedAt(s)'
  <2>1. Throwaway(s)' <=> Throwaway(s)
    BY DEF Throwaway, sessionVars
  <2>2. f = Own(s) /\ Throwaway(s) => BoundTo(Own(s), b)
    BY <1>0, <1>4 DEF DisposableInv, Located, LocatedAt, Placing
  <2>3. f = Own(s) /\ Throwaway(s)' => BoundTo(Own(s), b)'
    BY <1>4, <2>1, <2>2 DEF BoundTo, Own
  <2>4. f = Own(s) => HasVolume(Own(s), b)'
    BY <1>4 DEF HasVolume, Own
  <2>5. ASSUME NEW v \in volumes', v.profile = Own(s), Throwaway(s)'
        PROVE  v \in volumes \/ BoundTo(Own(s), v.backend)'
    <3>1. v \in volumes \/ v = [profile |-> f, backend |-> b]
      BY <1>4, <2>5
    <3>2. ASSUME v = [profile |-> f, backend |-> b] PROVE v.profile = f /\ v.backend = b
      BY <3>2
    <3> QED
      BY <2>3, <2>5, <3>1, <3>2
  <2> QED
    BY <1>3, <1>4, <2>1, <2>3, <2>4, <2>5, StaysBound, KeepsAt
<1>7. registry # p => \A s \in Sessions : Spares(s)
  BY <1>4, <1>5 DEF Spares
<1>8. CleanAt("run", j, call[p])'
  BY DEF CleanAt, Cleaning
<1> QED
  BY <1>3, <1>4, <1>5, <1>6, <1>7, <1>8, Disposes DEF sessionVars

LEMMA RunBrowserDisposes ==
  ASSUME OwnNames, OwnProfiles, DisposableInv, SessionInv', UNCHANGED sessionVars,
         NEW p \in Procs, RunBrowser(p)
  PROVE  DisposableInv'
<1>0. PICK j : j = job[p]
  OBVIOUS
<1>1. /\ at[p] = "run" /\ at' = [at EXCEPT ![p] = "record"] /\ job' = [job EXCEPT ![p] = j]
      /\ UNCHANGED <<bindings, volumes, receipts>>
      /\ containers' = containers \cup {[name |-> j.name, profile |-> j.profile, backend |-> j.backend]}
  BY <1>0, Facts DEF RunBrowser, Goto, DisposableInv, sessionVars
<1>2. registry # p => j.profile \in CliProfiles \cup CliDeletes /\ \A s \in Sessions : j.profile # Own(s)
  BY <1>0, <1>1, Others DEF WithProfile, Launching, DisposableInv
<1>3. ASSUME NEW c \in containers' PROVE c \in containers \/ (c.profile = j.profile /\ c.backend = j.backend)
  BY <1>1, <1>3
<1>4. ASSUME NEW s \in Sessions PROVE MountedAt(s)' /\ LocatedAt(s)'
  <2>1. Throwaway(s)' => Throwaway(s)
    BY <1>1 DEF Throwaway
  <2>2. j.profile = Own(s) => HasVolume(Own(s), j.backend)'
    BY <1>0, <1>1 DEF DisposableInv, Mounted, MountedAt, HasVolume, Own
  <2>3. j.profile = Own(s) /\ Throwaway(s)' => BoundTo(Own(s), j.backend)'
    BY <1>0, <1>1, StaysPlaced DEF Placing
  <2>4. ASSUME NEW c \in containers', c.profile = Own(s)
        PROVE  c \in containers \/ HasVolume(Own(s), c.backend)'
    BY <1>3, <2>2, <2>4
  <2> QED
    BY <1>1, <2>1, <2>3, <2>4, StaysBound, KeepsAt
<1>5. registry # p => \A s \in Sessions : Spares(s)
  BY <1>1, <1>2, <1>3 DEF Spares
<1>6. CleanAt("record", j, call[p])'
  BY DEF CleanAt, Cleaning
<1> QED
  BY <1>1, <1>2, <1>4, <1>5, <1>6, Disposes DEF sessionVars

\* The volume goes, and with it all storage of a disposable profile.
LEMMA RemoveProfileDisposes ==
  ASSUME OwnNames, OwnProfiles, DisposableInv, SessionInv', UNCHANGED sessionVars,
         NEW p \in Procs, RemoveProfile(p)
  PROVE  DisposableInv'
<1> DEFINE f == job[p].profile
           b == job[p].backend
<1>1. /\ at[p] = "removeProfile" /\ UNCHANGED <<bindings, containers>>
      /\ volumes' = volumes \ {[profile |-> f, backend |-> b]}
      /\ [profile |-> f, backend |-> b] \in volumes =>
           \A c \in containers : c.backend = b => c.profile # f
  BY DEF RemoveProfile, HeldOn
<1>2. PICK l, j : /\ at' = [at EXCEPT ![p] = l] /\ job' = [job EXCEPT ![p] = j]
                  /\ l = "deleteBinding" \/ (l = job[p].next /\ l \in {"idle", "unlease"})
                  /\ registry # p /\ l = "deleteBinding" => j = job[p]
  <2>1. job[p].next \in {"idle", "unlease"}
    BY <1>1, Facts DEF StageOK, PrepareOK, ReleaseOK, Launching, Preparing, Cleaning, Deleting,
       DisposableInv
  <2>2. CASE job[p].bound
    <3>1. job' = [job EXCEPT ![p] = job[p]] /\ at' = [at EXCEPT ![p] = "deleteBinding"]
      BY <2>2, Facts DEF RemoveProfile, Goto, DisposableInv
    <3> QED
      BY <3>1
  <2>3. CASE ~ job[p].bound
    BY <2>1, <2>3 DEF RemoveProfile, Return, Goto, DisposableInv, SessionInv, SessionTypeOK
  <2> QED
    BY <2>2, <2>3
<1>3. l # "run" /\ l \notin Placing /\ "idle" \notin WithProfile /\ "unlease" \notin WithProfile
      /\ at[p] \in WithProfile \ {"unbind"} /\ at[p] \in Deleting
  BY <1>1, <1>2 DEF Placing, WithProfile, Launching, Deleting
<1>4. \A s \in Sessions : Spares(s)
  BY <1>1 DEF Spares
<1>5. ASSUME NEW s \in Sessions, f = Own(s)
      PROVE  /\ registry = p /\ call[p].session = s /\ Throwaway(s) /\ call[p].lease # None
             /\ \A v \in volumes : v.profile = f => v.backend = b
             /\ \A c \in containers : c.profile # f
             /\ \A q \in Procs : q # p => ~ (at[q] \in Placing /\ job[q].profile = f)
  <2>1. registry = p /\ call[p].session = s /\ Throwaway(s) /\ call[p].lease # None
    BY <1>3, <1>5, Worker DEF DisposableInv
  <2>2. bindings[f] # None => bindings[f].backend = b
    BY <1>1, <1>5, <2>1 DEF DisposableInv, Cleaned, CleanAt
  <2>3. \A v \in volumes : v.profile = f => v.backend = b
    BY <1>5, <2>1, <2>2 DEF DisposableInv, Located, LocatedAt, BoundTo
  <2>4. \A c \in containers : c.profile # f
    <3> SUFFICES ASSUME NEW c \in containers, c.profile = f PROVE FALSE
      OBVIOUS
    <3>1. [profile |-> f, backend |-> c.backend] \in volumes
      BY <1>5 DEF DisposableInv, Mounted, MountedAt, HasVolume
    <3>2. c.backend = b
      BY <2>3, <3>1
    <3> QED
      BY <1>1, <3>1, <3>2
  <2>5. ASSUME NEW q \in Procs, q # p, at[q] \in Placing, job[q].profile = f PROVE FALSE
    BY <1>5, <2>1, <2>5, Worker DEF Placing, WithProfile, Launching, DisposableInv
  <2> QED
    BY <2>1, <2>3, <2>4, <2>5
<1> HIDE DEF f, b
<1>6. ASSUME NEW s \in Sessions PROVE MountedAt(s)' /\ LocatedAt(s)'
  <2>1. Throwaway(s)' => Throwaway(s)
    BY DEF Throwaway, sessionVars
  <2>2. CASE f # Own(s)
    <3>1. \A v \in volumes : v.profile = Own(s) => v \in volumes'
      BY <1>1, <2>2
    <3>2. volumes' \subseteq volumes
      BY <1>1
    <3> QED
      BY <1>1, <1>2, <1>3, <2>1, <3>1, <3>2, StaysBound, KeepsAt
  <2>3. CASE f = Own(s)
    <3>1. /\ \A q \in Procs : q # p => at'[q] = at[q] /\ job'[q] = job[q]
          /\ at'[p] = l
      BY <1>2 DEF DisposableInv, SessionInv, SessionTypeOK
    <3>2. \A q \in Procs : ~ (at'[q] \in Placing /\ job'[q].profile = Own(s))
      BY <1>3, <1>5, <2>3, <3>1
    <3>3. (\A c \in containers' : c.profile # Own(s)) /\ \A v \in volumes' : v.profile # Own(s)
      <4>1. \A c \in containers' : c.profile # Own(s)
        BY <1>1, <1>5, <2>3
      <4>2. ASSUME NEW v \in volumes', v.profile = Own(s) PROVE FALSE
        <5>1. v \in volumes /\ v.backend = b /\ v \in Volume
          BY <1>1, <1>5, <2>3, <4>2 DEF DisposableInv, SessionInv, SessionTypeOK, FleetTypeOK
        <5>2. v = [profile |-> f, backend |-> b]
          BY <2>3, <4>2, <5>1 DEF Volume
        <5> QED
          BY <1>1, <4>2, <5>2
      <4> QED
        BY <4>1, <4>2
    <3> QED
      BY <3>2, <3>3 DEF MountedAt, LocatedAt, Own, Placing
  <2> QED
    BY <2>2, <2>3
<1>7. ASSUME registry = p PROVE CleanAt(l, j, call[p])'
  <2> DEFINE s == call[p].session
  <2>1. s \in Sessions /\ receipts[s].profile = f /\ receipts[s] # None /\ ~ receipts[s].persistent
    BY <1>1, <1>7, Facts DEF StageOK, PrepareOK, ReleaseOK, Launching, Preparing, Deleting,
       DisposableInv, f
  <2>2. f = Own(s)
    BY <2>1 DEF DisposableInv, SessionInv, Chosen
  <2>3. (\A c \in containers' : c.profile # f) /\ \A v \in volumes' : v.profile # f
    <3>1. \A c \in containers' : c.profile # f
      BY <1>1, <1>5, <2>1, <2>2
    <3>2. ASSUME NEW v \in volumes', v.profile = f PROVE FALSE
      <4>1. v \in volumes /\ v.backend = b /\ v \in Volume
        BY <1>1, <1>5, <2>1, <2>2, <3>2 DEF DisposableInv, SessionInv, SessionTypeOK, FleetTypeOK
      <4>2. v = [profile |-> f, backend |-> b]
        BY <3>2, <4>1 DEF Volume
      <4> QED
        BY <1>1, <3>2, <4>2
    <3> QED
      BY <3>1, <3>2
  <2>4. call' = call
    BY DEF sessionVars
  <2>5. l \in {"deleteBinding", "unlease", "idle"}
    BY <1>2
  <2> QED
    BY <2>2, <2>3, <2>4, <2>5 DEF CleanAt, NoStorage, Own, Cleaning
<1>8. registry # p /\ l \in WithProfile => j.profile \in CliProfiles \cup CliDeletes
  BY <1>2, <1>3, Others DEF DisposableInv
<1> QED
  BY <1>2, <1>4, <1>6, <1>7, <1>8, Disposes DEF sessionVars

LEMMA DeleteBindingDisposes ==
  ASSUME OwnNames, OwnProfiles, DisposableInv, SessionInv', UNCHANGED sessionVars,
         NEW p \in Procs, DeleteBinding(p)
  PROVE  DisposableInv'
<1> DEFINE f == job[p].profile
<1>1. /\ at[p] = "deleteBinding" /\ Return(p) /\ UNCHANGED <<volumes, containers>>
      /\ bindings' = [bindings EXCEPT ![f] = None]
  BY DEF DeleteBinding
<1>2. PICK l, j : /\ at' = [at EXCEPT ![p] = l] /\ job' = [job EXCEPT ![p] = j]
                  /\ l = job[p].next
  BY <1>1 DEF Return, Goto, DisposableInv, SessionInv, SessionTypeOK
<1>3. l \in {"idle", "unlease"} /\ f \in Profiles
  BY <1>1, <1>2, Facts DEF StageOK, PrepareOK, ReleaseOK, Launching, Preparing, Cleaning, Deleting,
     LocalOK, WithProfile, DisposableInv
<1>4. \A g \in Profiles : bindings'[g] = IF g = f THEN None ELSE bindings[g]
  BY <1>1 DEF DisposableInv, SessionInv, SessionTypeOK, FleetTypeOK
<1>5. \A s \in Sessions : Own(s) \in Profiles
  BY SessionAssumption DEF Own
<1>6. \A s \in Sessions : Spares(s)
  BY <1>1, <1>4, <1>5 DEF Spares
<1>7. l # "run" /\ l \notin Placing /\ l \notin WithProfile
  BY <1>3 DEF Placing, WithProfile, Launching, Deleting
<1> HIDE DEF f
<1>8. ASSUME NEW s \in Sessions PROVE MountedAt(s)' /\ LocatedAt(s)'
  <2>1. Throwaway(s)' => Throwaway(s)
    BY DEF Throwaway, sessionVars
  <2>2. CASE f # Own(s)
    <3>1. \A b : BoundTo(Own(s), b) => BoundTo(Own(s), b)'
      BY <1>4, <1>5, <2>2 DEF BoundTo, Own
    <3> QED
      BY <1>1, <1>2, <1>7, <2>1, <3>1, KeepsAt
  <2>3. CASE f = Own(s)
    <3>1. at[p] \in WithProfile \ {"unbind"} /\ at[p] \in Deleting
      BY <1>1 DEF WithProfile, Deleting
    <3>2. registry = p /\ call[p].session = s /\ Throwaway(s) /\ call[p].lease # None
      BY <2>3, <3>1, Worker DEF DisposableInv, f
    <3>3. NoStorage(Own(s))
      BY <1>1, <3>2 DEF DisposableInv, Cleaned, CleanAt
    <3>4. ASSUME NEW q \in Procs, at'[q] \in Placing, job'[q].profile = Own(s) PROVE FALSE
      <4>1. q # p /\ at[q] \in Placing /\ job[q].profile = Own(s)
        BY <1>2, <1>7, <3>4 DEF DisposableInv, SessionInv, SessionTypeOK
      <4> QED
        BY <3>2, <4>1, Worker DEF Placing, WithProfile, Launching, DisposableInv
    <3> QED
      BY <1>1, <3>3, <3>4 DEF MountedAt, LocatedAt, NoStorage, Own, Placing
  <2> QED
    BY <2>2, <2>3
<1>9. ASSUME registry = p PROVE CleanAt(l, j, call[p])'
  <2>1. PICK c : c = call[p]
    OBVIOUS
  <2>2. /\ c.session \in Sessions /\ receipts' = receipts /\ call'[p] = c
        /\ CleanAt("deleteBinding", job[p], c)
    BY <1>1, <1>9, <2>1, Facts DEF DisposableInv, Cleaned, sessionVars
  <2>3. CleanAt(l, j, c)
    BY <1>3, <2>2 DEF CleanAt, Cleaning
  <2>4. CleanAt(l, j, c)'
    BY <1>6, <2>2, <2>3, SparedAt
  <2> QED
    BY <2>2, <2>4 DEF CleanAt, Own, NoStorage, Throwaway
<1> QED
  BY <1>2, <1>6, <1>7, <1>8, <1>9, Disposes DEF sessionVars

LEMMA StepDisposes ==
  ASSUME OwnNames, OwnProfiles, DisposableInv, SessionInv', UNCHANGED sessionVars,
         NEW p \in Procs, Step(p)
  PROVE  DisposableInv'
BY BindProfileDisposes, EnsureProfileDisposes, PlaceDisposes, RunBrowserDisposes,
   WriteTargetDisposes, BindTargetDisposes, RemoveContainerDisposes, RemoveTargetDisposes,
   ClearTargetDisposes, RemoveProfileDisposes, DeleteBindingDisposes DEF Step

\* The same of a step of a session operation.
LEMMA SessionDisposes ==
  ASSUME DisposableInv, SessionInv', NEW p \in Procs, NEW l, NEW j, NEW c,
         at' = [at EXCEPT ![p] = l], job' = [job EXCEPT ![p] = j], call' = [call EXCEPT ![p] = c],
         registry \in {p, None}, registry' \in {p, None}, registry' # p => l = "idle",
         registry' = p => CleanAt(l, j, c)', UNCHANGED <<volumes, containers>>, l \notin Placing,
         registry # p => UNCHANGED bindings,
         \A s \in Sessions : \A b : BoundTo(Own(s), b) => BoundTo(Own(s), b)',
         \A s \in Sessions : Throwaway(s)' => Throwaway(s) \/ Unused(s)
  PROVE  DisposableInv'
<1>1. call'[p] = c /\ None \notin Procs
  BY SessionAssumption DEF DisposableInv, SessionInv, SessionTypeOK
<1>2. registry' = p => CleanAt(l, j, call[p])'
  BY <1>1 DEF CleanAt, Own, NoStorage, Throwaway
<1>3. l # "run" /\ "idle" \notin WithProfile
  BY DEF Placing, WithProfile, Launching, Deleting
<1>4. registry # p => \A s \in Sessions :
        bindings'[Own(s)] # None => bindings'[Own(s)] = bindings[Own(s)] \/ BoundTo(Own(s), bindings'[Own(s)].backend)
  OBVIOUS
<1>5. \A q \in Procs : q # p =>
        /\ registry' = q <=> registry = q
        /\ registry = q => call'[q] = call[q] /\ receipts' = receipts
  BY <1>1
<1> QED
  BY <1>2, <1>3, <1>4, <1>5, QuietDisposes

LEMMA EnterDisposes ==
  ASSUME DisposableInv, SessionInv', NEW p \in Procs, NEW l \in {"prepare", "release"}, NEW c,
         Enter(p, l, c)
  PROVE  DisposableInv'
<1>1. PICK j : j = job[p]
  OBVIOUS
<1>2. /\ at' = [at EXCEPT ![p] = l] /\ job' = [job EXCEPT ![p] = j]
      /\ call' = [call EXCEPT ![p] = c] /\ registry = None /\ registry' = p
      /\ UNCHANGED <<bindings, volumes, containers, receipts>>
  BY <1>1, Facts DEF Enter, Goto, fleetVars, DisposableInv
<1>3. CleanAt(l, j, c)'
  BY DEF CleanAt, Cleaning
<1>4. \A s \in Sessions : Throwaway(s)' => Throwaway(s)
  BY <1>2 DEF Throwaway
<1>5. l \notin Placing
  BY DEF Placing
<1> QED
  BY <1>2, <1>3, <1>4, <1>5, StaysBound, SessionDisposes

LEMMA BeginSessionDisposes ==
  ASSUME DisposableInv, SessionInv', NEW p \in Procs, BeginSession(p)
  PROVE  DisposableInv'
BY EnterDisposes DEF BeginSession, BeginPrepare, BeginLaunch, BeginRelease

LEMMA LeaveDisposes ==
  ASSUME DisposableInv, SessionInv', NEW p \in Procs, registry = p, Leave(p), UNCHANGED fleetVars,
         \A s \in Sessions : Throwaway(s)' => Throwaway(s) \/ Unused(s)
  PROVE  DisposableInv'
<1>1. /\ at' = [at EXCEPT ![p] = "idle"] /\ job' = [job EXCEPT ![p] = NoJob]
      /\ call' = [call EXCEPT ![p] = NoCall] /\ registry' = None
      /\ UNCHANGED <<bindings, volumes, containers>>
  BY DEF Leave, Call, Goto, fleetVars
<1>2. "idle" \notin Placing /\ None # p
  BY SessionAssumption DEF Placing
<1> QED
  BY <1>1, <1>2, StaysBound, SessionDisposes

LEMMA PreparedDisposes ==
  ASSUME DisposableInv, SessionInv', NEW p \in Procs, NEW f, registry = p, Prepared(p, f),
         UNCHANGED fleetVars, \A s \in Sessions : Throwaway(s)' => Throwaway(s) \/ Unused(s)
  PROVE  DisposableInv'
<1>1. CASE call[p].launching
  <2>1. PICK j, c : /\ at' = [at EXCEPT ![p] = "choose"] /\ job' = [job EXCEPT ![p] = j]
                    /\ call' = [call EXCEPT ![p] = c] /\ registry' = registry
    BY <1>1 DEF Prepared, Call, Goto, DisposableInv, SessionInv, SessionTypeOK
  <2>2. CleanAt("choose", j, c)'
    BY DEF CleanAt, Cleaning
  <2>3. "choose" \notin Placing /\ UNCHANGED <<bindings, volumes, containers>>
    BY DEF Placing, fleetVars
  <2> QED
    BY <2>1, <2>2, <2>3, StaysBound, SessionDisposes
<1>2. CASE ~ call[p].launching
  BY <1>2, LeaveDisposes DEF Prepared
<1> QED
  BY <1>1, <1>2

LEMMA PrepareAgainDisposes ==
  ASSUME DisposableInv, SessionInv', NEW p \in Procs, PrepareAgain(p)
  PROVE  DisposableInv'
<1>1. registry = p
  BY Holds DEF PrepareAgain, SessionLocations, DisposableInv
<1>2. \A s \in Sessions : Throwaway(s)' => Throwaway(s)
  BY DEF PrepareAgain, Throwaway
<1> QED
  BY <1>1, <1>2, PreparedDisposes DEF PrepareAgain

\* A new disposable lease finds nothing under its session's name.
LEMMA WriteLeaseDisposes ==
  ASSUME OwnNames, OwnProfiles, DisposableInv, SessionInv', NEW p \in Procs, WriteLease(p)
  PROVE  DisposableInv'
<1> DEFINE s == call[p].session
           kept == call[p].profile # None \/ call[p].home # None
<1>1. at[p] = "lease" /\ Prepared(p, Named(p)) /\ UNCHANGED fleetVars
  BY DEF WriteLease
<1>2. PICK l \in Leases :
        receipts' = [receipts EXCEPT ![s] = [profile |-> Named(p), persistent |-> kept,
                                             lease |-> l, target |-> None]]
  BY DEF WriteLease
<1>3. registry = p /\ s \in Sessions
  BY <1>1, Holds DEF SessionLocations, DisposableInv
<1>4. receipts'[s].persistent <=> kept
  BY <1>2, <1>3 DEF DisposableInv, SessionInv, SessionTypeOK
<1>5. \A t \in Sessions : t # s => receipts'[t] = receipts[t]
  BY <1>2, <1>3 DEF DisposableInv, SessionInv, SessionTypeOK
<1>6. ASSUME ~ kept PROVE Unused(s)
  <2>1. NoStorage(Own(s))
    BY <1>1, <1>3, <1>6 DEF DisposableInv, Cleaned, CleanAt
  <2>2. ASSUME NEW q \in Procs, at[q] \in Placing, job[q].profile = Own(s) PROVE FALSE
    <3>1. registry = q
      BY <1>3, <2>2, Worker DEF Placing, WithProfile, Launching, DisposableInv
    <3> QED
      BY <1>1, <1>3, <2>2, <3>1 DEF Placing
  <2> QED
    BY <2>1, <2>2 DEF Unused
<1> HIDE DEF s, kept
<1>7. \A t \in Sessions : Throwaway(t)' => Throwaway(t) \/ Unused(t)
  BY <1>4, <1>5, <1>6 DEF Throwaway
<1> QED
  BY <1>1, <1>3, <1>7, PreparedDisposes

LEMMA SameReceipts ==
  ASSUME UNCHANGED receipts
  PROVE  \A s \in Sessions : Throwaway(s)' => Throwaway(s) \/ Unused(s)
BY DEF Throwaway

\* A session's own name without a binding and without a volume has nothing at all.
LEMMA NothingThere ==
  ASSUME DisposableInv, NEW s \in Sessions, \A v \in volumes : v.profile # Own(s)
  PROVE  NoStorage(Own(s))
<1>1. ASSUME NEW c \in containers, c.profile = Own(s) PROVE FALSE
  <2>1. [profile |-> Own(s), backend |-> c.backend] \in volumes
    BY <1>1 DEF DisposableInv, Mounted, MountedAt, HasVolume
  <2> QED
    BY <2>1
<1> QED
  BY <1>1 DEF NoStorage

LEMMA FindHomeDisposes ==
  ASSUME DisposableInv, SessionInv', NEW p \in Procs, FindHome(p)
  PROVE  DisposableInv'
<1> DEFINE s == call[p].session
           f == Named(p)
<1>1. /\ at[p] = "prepare" /\ UNCHANGED <<bindings, volumes, containers, receipts, registry, job>>
  BY DEF FindHome, fleetVars
<1>2. /\ registry = p /\ s \in Sessions /\ call[p] \in CallRecord
      /\ call[p].profile = None => f = Own(s)
  BY <1>1, Holds DEF SessionLocations, DisposableInv, Named, Own
<1>3. f \in Profiles
  BY <1>2, NamedIn DEF DisposableInv
<1>4. PICK l, c : /\ at' = [at EXCEPT ![p] = l] /\ call' = [call EXCEPT ![p] = c]
                  /\ l \in {"lease", "adopt"} /\ c.session = s /\ c.profile = call[p].profile
                  /\ l = "lease" /\ c.home = None => bindings[f] = None /\ \A v \in volumes : v.profile # f
  <2>1. \A h \in Backends \cup {None} :
          /\ [call[p] EXCEPT !.home = h].session = s /\ [call[p] EXCEPT !.home = h].home = h
          /\ [call[p] EXCEPT !.home = h].profile = call[p].profile
    BY <1>2 DEF CallRecord
  <2>2. /\ Bound(f) => bindings[f].backend \in Backends
        /\ HomeOf(f) \subseteq Backends
    BY <1>3 DEF Bound, HomeOf, DisposableInv, SessionInv, SessionTypeOK, FleetTypeOK, Binding, Volume
  <2>3. call \in [Procs -> CallRecord]
    BY DEF DisposableInv, SessionInv, SessionTypeOK
  <2>4. CASE Bound(f)
    <3>1. /\ at' = [at EXCEPT ![p] = "lease"]
          /\ call' = [call EXCEPT ![p] = [call[p] EXCEPT !.home = bindings[f].backend]]
      BY <2>3, <2>4 DEF FindHome, Goto
    <3>2. bindings[f].backend \in Backends /\ bindings[f].backend # None
      BY <2>2, <2>4, NoneAssumption
    <3>3. PICK c : c = [call[p] EXCEPT !.home = bindings[f].backend]
      OBVIOUS
    <3>4. c.session = s /\ c.profile = call[p].profile /\ c.home # None
      BY <2>1, <3>2, <3>3
    <3> HIDE DEF s, f
    <3> QED
      BY <3>1, <3>3, <3>4
  <2>5. CASE ~ Bound(f) /\ HomeOf(f) = {}
    <3>1. at' = [at EXCEPT ![p] = "lease"] /\ call' = [call EXCEPT ![p] = call[p]]
      BY <2>3, <2>5 DEF FindHome, Goto
    <3>2. \A v \in volumes : v.profile # f
      BY <2>5 DEF HomeOf
    <3> QED
      BY <2>5, <3>1, <3>2 DEF Bound
  <2>6. CASE ~ Bound(f) /\ HomeOf(f) # {}
    <3>1. PICK b \in HomeOf(f) : call' = [call EXCEPT ![p].home = b] /\ at' = [at EXCEPT ![p] = "adopt"]
      BY <2>6 DEF FindHome, Goto
    <3>2. call' = [call EXCEPT ![p] = [call[p] EXCEPT !.home = b]]
      BY <2>3, <3>1
    <3>3. PICK c : c = [call[p] EXCEPT !.home = b]
      OBVIOUS
    <3>4. c.session = s /\ c.profile = call[p].profile
      BY <2>1, <2>2, <3>3
    <3>5. call' = [call EXCEPT ![p] = c] /\ at' = [at EXCEPT ![p] = "adopt"]
      BY <3>1, <3>2, <3>3
    <3>6. "adopt" # "lease"
      OBVIOUS
    <3> HIDE DEF s, f
    <3> QED
      BY <3>4, <3>5, <3>6, Zenon
  <2> QED
    BY <2>4, <2>5, <2>6
<1>5. PICK j : job' = [job EXCEPT ![p] = j]
  BY <1>1, Facts DEF DisposableInv
<1>6. l = "lease" /\ c.profile = None /\ c.home = None => bindings[Own(s)] = None /\ NoStorage(Own(s))
  BY <1>2, <1>4, NothingThere
<1>7. CleanAt(l, j, c)'
  <2>1. CleanAt(l, j, c)
    BY <1>4, <1>6 DEF CleanAt, Cleaning
  <2>2. Spares(c.session)
    BY <1>1 DEF Spares
  <2> QED
    BY <1>1, <1>2, <1>4, <2>1, <2>2, SparedAt
<1>8. l \notin Placing /\ registry' = p
  BY <1>1, <1>2, <1>4 DEF Placing
<1> QED
  BY <1>1, <1>2, <1>4, <1>5, <1>7, <1>8, StaysBound, SameReceipts, SessionDisposes

LEMMA AdoptDisposes ==
  ASSUME DisposableInv, SessionInv', NEW p \in Procs, Adopt(p)
  PROVE  DisposableInv'
<1>1. /\ at[p] = "adopt" /\ at' = [at EXCEPT ![p] = "lease"] /\ BindTo(Named(p), call[p].home)
      /\ UNCHANGED <<volumes, containers, receipts, registry, call, job>>
  BY DEF Adopt, Goto, sessionVars
<1>2. /\ registry = p /\ call[p].session \in Sessions /\ call[p].home # None
  <2>1. /\ registry = p /\ call[p].session \in Sessions
        /\ StageOK("adopt", job[p], call[p], receipts[call[p].session])
    BY <1>1, Holds DEF SessionLocations, DisposableInv
  <2> QED
    BY <2>1, NoneAssumption DEF StageOK, PrepareOK, ReleaseOK, Cleaning, Deleting
<1>3. PICK j, c : /\ job' = [job EXCEPT ![p] = j] /\ call' = [call EXCEPT ![p] = c] /\ c = call[p]
  BY <1>1, Facts DEF DisposableInv, SessionInv, SessionTypeOK
<1>4. CleanAt("lease", j, c)'
  BY <1>2, <1>3 DEF CleanAt, Cleaning
<1>5. \A f \in Profiles : bindings[f] # None => bindings'[f] = bindings[f]
  BY <1>1 DEF BindTo, DisposableInv, SessionInv, SessionTypeOK, FleetTypeOK
<1>6. \A s \in Sessions : \A b : BoundTo(Own(s), b) => BoundTo(Own(s), b)'
  <2>1. \A s \in Sessions : Own(s) \in Profiles
    BY SessionAssumption DEF Own
  <2>2. \A s \in Sessions : bindings[Own(s)] # None => bindings'[Own(s)] = bindings[Own(s)]
    BY <1>5, <2>1
  <2> QED
    BY <2>2 DEF BoundTo, Own
<1>7. "lease" \notin Placing
  BY DEF Placing
<1> QED
  BY <1>1, <1>2, <1>3, <1>4, <1>6, <1>7, SameReceipts, SessionDisposes

LEMMA ProvisionDisposes ==
  ASSUME DisposableInv, SessionInv', NEW p \in Procs, Provision(p)
  PROVE  DisposableInv'
<1>1. /\ at[p] = "choose" /\ ChooseBackend(p, job[p])
      /\ UNCHANGED <<bindings, volumes, containers, receipts, registry, call>>
  BY DEF Provision, ChooseBackend, fleetVars, sessionVars
<1>2. registry = p
  BY <1>1, Holds DEF SessionLocations, DisposableInv
<1>3. PICK l, j, c : /\ at' = [at EXCEPT ![p] = l] /\ job' = [job EXCEPT ![p] = j]
                     /\ call' = [call EXCEPT ![p] = c] /\ l \in {"ensure", "bind"}
  <2>1. job[p] \in Jobs /\ job[p].profile \in Profiles
    BY <1>1, Facts DEF LocalOK, Jobs, WithProfile, Launching, DisposableInv
  <2>2. call' = [call EXCEPT ![p] = call[p]]
    BY <1>1 DEF DisposableInv, SessionInv, SessionTypeOK
  <2> QED
    <3>1. PICK b \in Backends, l \in {"ensure", "bind"} :
            at' = [at EXCEPT ![p] = l] /\ job' = [job EXCEPT ![p] = [job[p] EXCEPT !.backend = b]]
      BY <1>1, <2>1, Chooses DEF DisposableInv
    <3> QED
      BY <2>2, <3>1
<1>4. CleanAt(l, j, c)' /\ l \notin Placing
  BY <1>3 DEF CleanAt, Cleaning, Placing
<1> QED
  BY <1>1, <1>2, <1>3, <1>4, StaysBound, SameReceipts, SessionDisposes

LEMMA LaunchedDisposes ==
  ASSUME DisposableInv, SessionInv', NEW p \in Procs, Launched(p)
  PROVE  DisposableInv'
<1> DEFINE s == call[p].session
<1>1. /\ at[p] = "launched" /\ Leave(p) /\ UNCHANGED fleetVars
      /\ receipts' = [receipts EXCEPT ![s].target = [name |-> job[p].name, backend |-> job[p].backend]]
  BY DEF Launched
<1>2. registry = p /\ s \in Sessions /\ receipts[s] \in SessionReceipt /\ receipts[s] # None
  BY <1>1, Holds DEF SessionLocations, Returns, StageOK, PrepareOK, ReleaseOK, Launching, Cleaning,
     Deleting, DisposableInv
<1> HIDE DEF s
<1>3. /\ receipts'[s].persistent <=> receipts[s].persistent
      /\ \A t \in Sessions : t # s => receipts'[t] = receipts[t]
  BY <1>1, <1>2 DEF DisposableInv, SessionInv, SessionTypeOK, SessionReceipt
<1>4. \A t \in Sessions : Throwaway(t)' => Throwaway(t)
  BY <1>2, <1>3 DEF Throwaway
<1> QED
  BY <1>1, <1>2, <1>4, LeaveDisposes

LEMMA ReleaseStaleDisposes ==
  ASSUME DisposableInv, SessionInv', NEW p \in Procs, ReleaseStale(p)
  PROVE  DisposableInv'
<1>1. registry = p
  BY Holds DEF ReleaseStale, SessionLocations, DisposableInv
<1> QED
  BY <1>1, SameReceipts, LeaveDisposes DEF ReleaseStale

LEMMA RemoveReceiptDisposes ==
  ASSUME DisposableInv, SessionInv', NEW p \in Procs, RemoveReceipt(p)
  PROVE  DisposableInv'
<1>1. registry = p
  BY Holds DEF RemoveReceipt, SessionLocations, Returns, DisposableInv
<1>2. \A s \in Sessions : receipts'[s] # None => receipts'[s] = receipts[s]
  BY DEF RemoveReceipt, DisposableInv, SessionInv, SessionTypeOK
<1>3. \A s \in Sessions : Throwaway(s)' => Throwaway(s)
  BY <1>2 DEF Throwaway
<1> QED
  BY <1>1, <1>3, LeaveDisposes DEF RemoveReceipt

LEMMA ReleaseDisposes ==
  ASSUME DisposableInv, SessionInv', NEW p \in Procs, Release(p)
  PROVE  DisposableInv'
<1> DEFINE s == call[p].session
           f == receipts[s].profile
<1>1. /\ at[p] = "release" /\ receipts[s] # None
      /\ call' = [call EXCEPT ![p].home = IF Bound(f) THEN bindings[f].backend ELSE None]
      /\ UNCHANGED <<bindings, volumes, containers, receipts, registry>>
  BY DEF Release, HoldsLease, fleetVars
<1>2. registry = p /\ s \in Sessions /\ receipts[s] \in SessionReceipt /\ call[p] \in CallRecord
  BY <1>1, Holds DEF SessionLocations, DisposableInv
<1>3. f \in Profiles
  BY <1>2 DEF SessionReceipt
<1>4. PICK c : /\ call' = [call EXCEPT ![p] = c] /\ c.session = s
               /\ c.home = None => bindings[f] = None
  <2> DEFINE h == IF Bound(f) THEN bindings[f].backend ELSE None
  <2>1. Bound(f) => h # None
    BY <1>3, NoneAssumption DEF Bound, DisposableInv, SessionInv, SessionTypeOK, FleetTypeOK, Binding
  <2>2. h \in Backends \cup {None}
    BY <1>3 DEF Bound, DisposableInv, SessionInv, SessionTypeOK, FleetTypeOK, Binding
  <2>3. call' = [call EXCEPT ![p] = [call[p] EXCEPT !.home = h]]
    BY <1>1 DEF DisposableInv, SessionInv, SessionTypeOK
  <2> HIDE DEF h
  <2>4. [call[p] EXCEPT !.home = h].session = s /\ [call[p] EXCEPT !.home = h].home = h
    BY <1>2, <2>2 DEF CallRecord
  <2> QED
    BY <2>1, <2>3, <2>4 DEF Bound
<1>5. PICK l, j : /\ at' = [at EXCEPT ![p] = l] /\ job' = [job EXCEPT ![p] = j]
                  /\ l \in {"remove", "released"}
  <2>1. \/ Goto(p, "released") /\ UNCHANGED job
        \/ \E j : Call(p, "remove", j)
    BY DEF Release
  <2>2. job = [job EXCEPT ![p] = job[p]]
    BY Facts DEF DisposableInv
  <2> QED
    BY <2>1, <2>2 DEF Call, Goto
<1>6. ASSUME Throwaway(s), c.home = None PROVE bindings[Own(s)] = None /\ NoStorage(Own(s))
  <2>1. f = Own(s)
    BY <1>1, <1>2, <1>6 DEF Throwaway, DisposableInv, SessionInv, Chosen
  <2>2. bindings[Own(s)] = None
    BY <1>4, <1>6, <2>1
  <2>3. \A v \in volumes : v.profile # Own(s)
    BY <1>2, <1>6, <2>2 DEF DisposableInv, Located, LocatedAt, BoundTo
  <2> QED
    BY <1>2, <2>2, <2>3, NothingThere
<1>7. CleanAt(l, j, c)'
  <2>1. CleanAt(l, j, c)
    BY <1>4, <1>5, <1>6 DEF CleanAt
  <2>2. Spares(c.session)
    BY <1>1 DEF Spares
  <2> QED
    BY <1>1, <1>2, <1>4, <2>1, <2>2, SparedAt
<1>8. l \notin Placing /\ registry' = p
  BY <1>1, <1>2, <1>5 DEF Placing
<1> QED
  BY <1>1, <1>2, <1>4, <1>5, <1>7, <1>8, StaysBound, SameReceipts, SessionDisposes

LEMMA ReleasedDisposes ==
  ASSUME DisposableInv, SessionInv', NEW p \in Procs, Released(p)
  PROVE  DisposableInv'
<1> DEFINE s == call[p].session
<1>1. at[p] = "released" /\ UNCHANGED <<bindings, volumes, containers, receipts, registry, call>>
  BY DEF Released, fleetVars, sessionVars
<1>2. PICK c : c = call[p]
  OBVIOUS
<1>3. /\ registry = p /\ c.session \in Sessions /\ CleanAt("released", job[p], c)
      /\ call' = [call EXCEPT ![p] = c] /\ receipts[c.session] # None
      /\ c.lease # None
  BY <1>1, <1>2, Holds DEF SessionLocations, Returns, StageOK, PrepareOK, ReleaseOK, Launching,
     Preparing, DisposableInv, Cleaned, SessionInv, SessionTypeOK
<1>4. PICK l, j : /\ at' = [at EXCEPT ![p] = l] /\ job' = [job EXCEPT ![p] = j]
                  /\ l = "findProfile" \/ (l = "unlease" /\ (Throwaway(c.session) => c.home = None))
  BY <1>1, <1>2, <1>3 DEF Released, Throwaway, Call, Goto, DisposableInv, SessionInv, SessionTypeOK
<1>5. CleanAt(l, j, c)'
  <2>1. CleanAt(l, j, c)
    BY <1>3, <1>4 DEF CleanAt, Cleaning
  <2>2. Spares(c.session)
    BY <1>1 DEF Spares
  <2> QED
    BY <1>1, <1>3, <2>1, <2>2, SparedAt
<1>6. l \notin Placing /\ registry' = p
  BY <1>1, <1>3, <1>4 DEF Placing
<1> QED
  BY <1>1, <1>3, <1>4, <1>5, <1>6, StaysBound, SameReceipts, SessionDisposes

LEMMA DeleteDisposableDisposes ==
  ASSUME DisposableInv, SessionInv', NEW p \in Procs, DeleteDisposable(p)
  PROVE  DisposableInv'
<1>1. /\ at[p] = "findProfile" /\ ChooseProfile(p, job[p])
      /\ UNCHANGED <<bindings, volumes, containers, receipts, registry, call>>
  BY DEF DeleteDisposable, ChooseProfile, fleetVars, sessionVars
<1>2. PICK c : c = call[p]
  OBVIOUS
<1>3. /\ registry = p /\ c.session \in Sessions /\ call' = [call EXCEPT ![p] = c]
      /\ job[p] \in Jobs /\ ReleaseOK("findProfile", job[p], c, receipts[c.session])
  BY <1>1, <1>2, Holds DEF SessionLocations, LocalOK, Jobs, StageOK, PrepareOK, Launching,
     Preparing, DisposableInv, SessionInv, SessionTypeOK
<1>4. job[p].profile = Own(c.session)
  BY <1>3 DEF ReleaseOK, Deleting, DisposableInv, SessionInv, Chosen
<1>5. PICK b : /\ bindings[job[p].profile] # None => b = bindings[job[p].profile].backend
               /\ Call(p, "removeProfile", [job[p] EXCEPT !.backend = b, !.bound = Bound(job[p].profile)])
  BY <1>1 DEF ChooseProfile, Bound
<1>6. PICK j : j = [job[p] EXCEPT !.backend = b, !.bound = Bound(job[p].profile)]
  OBVIOUS
<1>7. j.backend = b /\ at' = [at EXCEPT ![p] = "removeProfile"] /\ job' = [job EXCEPT ![p] = j]
  BY <1>3, <1>5, <1>6 DEF Call, Goto, Jobs, Job
<1>8. CleanAt("removeProfile", j, c)'
  <2>1. CleanAt("removeProfile", j, c)
    BY <1>4, <1>5, <1>7 DEF CleanAt, Cleaning
  <2>2. Spares(c.session)
    BY <1>1 DEF Spares
  <2> QED
    BY <1>1, <1>3, <2>1, <2>2, SparedAt
<1>9. "removeProfile" \notin Placing /\ registry' = p
  BY <1>1, <1>3 DEF Placing
<1> QED
  BY <1>1, <1>3, <1>7, <1>8, <1>9, StaysBound, SameReceipts, SessionDisposes

LEMMA SessionFailDisposes ==
  ASSUME DisposableInv, SessionInv', NEW p \in Procs, SessionFail(p)
  PROVE  DisposableInv'
<1>1. /\ at' = [at EXCEPT ![p] = "idle"] /\ job' = [job EXCEPT ![p] = NoJob]
      /\ UNCHANGED <<bindings, volumes, containers, receipts>>
      /\ registry' = IF registry = p THEN None ELSE registry
      /\ \A q \in Procs : q # p => call'[q] = call[q]
  BY DEF SessionFail, Fail, Call, Goto, fleetVars, DisposableInv, SessionInv, SessionTypeOK
<1>2. None \notin Procs
  BY SessionAssumption
<1>3. \A q \in Procs : q # p =>
        /\ registry' = q <=> registry = q
        /\ registry = q => call'[q] = call[q] /\ receipts' = receipts
  BY <1>1, <1>2
<1>4. registry' # p /\ "idle" # "run" /\ "idle" \notin WithProfile /\ "idle" \notin Placing
  BY <1>1, <1>2 DEF Placing, WithProfile, Launching, Deleting
<1> QED
  BY <1>1, <1>3, <1>4, StaysBound, SameReceipts, QuietDisposes

LEMMA DisposableStarts == ASSUME OwnProfiles PROVE SessionInit => DisposableInv
<1> SUFFICES ASSUME SessionInit PROVE DisposableInv
  OBVIOUS
<1>1. /\ containers = {} /\ registry = None /\ \A p \in Procs : at[p] = "idle"
      /\ \A s \in Sessions : receipts[s] = None
  BY DEF SessionInit, InitWith
<1>2. "idle" \notin WithProfile /\ None \notin Procs
  BY SessionAssumption DEF WithProfile, Launching, Deleting
<1>3. Private /\ Mounted /\ Located /\ Cleaned
  BY <1>1, <1>2 DEF Private, Mounted, MountedAt, Located, LocatedAt, Throwaway, Cleaned
<1> QED
  BY <1>3, SessionStarts DEF DisposableInv

LEMMA DisposableNext ==
  ASSUME OwnNames, OwnProfiles, DisposableInv, [SessionNext]_allVars
  PROVE  DisposableInv'
<1>1. SessionInv'
  BY SessionNextKeeps DEF DisposableInv
<1>2. CASE UNCHANGED allVars
  <2>1. UNCHANGED <<bindings, volumes, containers, at, job, receipts, registry, call>>
    BY <1>2 DEF allVars, vars, sessionVars
  <2>2. Private' /\ Mounted' /\ Located'
    BY <2>1 DEF DisposableInv, Private, Mounted, MountedAt, Located, LocatedAt, HasVolume, BoundTo,
       Throwaway, Own
  <2>3. Cleaned'
    BY <2>1 DEF DisposableInv, Cleaned, CleanAt, NoStorage, Throwaway, Own
  <2> QED
    BY <1>1, <2>2, <2>3 DEF DisposableInv
<1>3. ASSUME NEW p \in Procs, SessionStep(p) PROVE DisposableInv'
  BY <1>1, <1>3, PrepareAgainDisposes, FindHomeDisposes, AdoptDisposes, WriteLeaseDisposes,
     ProvisionDisposes, LaunchedDisposes, ReleaseStaleDisposes, ReleaseDisposes, ReleasedDisposes,
     DeleteDisposableDisposes, RemoveReceiptDisposes DEF SessionStep
<1>4. CASE SessionNext
  BY <1>1, <1>3, <1>4, BeginDisposes, StepDisposes, BeginSessionDisposes, SessionFailDisposes
  DEF SessionNext
<1> QED
  BY <1>2, <1>4

\* Only a release that has got to its end takes a receipt away.
LEMMA EndsAtUnlease ==
  ASSUME SessionInv, [SessionNext]_allVars, NEW s \in Sessions, Ended(s)
  PROVE  \E p \in Procs : registry = p /\ at[p] = "unlease" /\ call[p].session = s /\ call[p].lease # None
<1>1. ~ UNCHANGED receipts
  BY DEF Ended
<1>2. PICK p \in Procs : BeginSession(p) \/ SessionStep(p)
  BY <1>1 DEF SessionNext, allVars, sessionVars, SessionFail
<1>3. ~ BeginSession(p)
  BY <1>1 DEF BeginSession, BeginPrepare, BeginLaunch, BeginRelease, Enter
<1>4. WriteLease(p) \/ Launched(p) \/ RemoveReceipt(p)
  BY <1>1, <1>2, <1>3 DEF SessionStep, PrepareAgain, FindHome, Adopt, Provision, ReleaseStale, Release,
     Released, DeleteDisposable, sessionVars
<1>5. receipts \in [Sessions -> SessionReceipt \cup {None}]
  BY DEF SessionInv, SessionTypeOK
<1>6. ASSUME WriteLease(p) PROVE FALSE
  <2>1. receipts[call[p].session] = None
    BY <1>6, Holds DEF WriteLease, SessionLocations, StageOK, PrepareOK, ReleaseOK, Cleaning, Deleting
  <2>2. call[p].session # s
    BY <2>1 DEF Ended
  <2> QED
    BY <1>5, <1>6, <2>2 DEF WriteLease, Ended
<1>7. ASSUME Launched(p) PROVE FALSE
  <2> DEFINE t == [name |-> job[p].name, backend |-> job[p].backend]
  <2>1. receipts' = [receipts EXCEPT ![call[p].session].target = t]
    BY <1>7 DEF Launched
  <2>2. t \in Target
    BY <1>7, Holds DEF Launched, SessionLocations, Returns, LocalOK, WithName, WithBackend, WithProfile,
       Launching, Target
  <2> HIDE DEF t
  <2>3. receipts'[s] \in SessionReceipt
    <3>1. receipts[s] \in SessionReceipt
      BY <1>5 DEF Ended
    <3> QED
      BY <1>5, <2>1, <2>2, <3>1 DEF SessionReceipt
  <2> QED
    BY <2>3, SessionAssumption DEF Ended
<1>8. RemoveReceipt(p)
  BY <1>4, <1>6, <1>7
<1>9. /\ registry = p /\ at[p] = "unlease" /\ call[p].lease # None
      /\ receipts' = [receipts EXCEPT ![call[p].session] = None]
  BY <1>8, Holds DEF RemoveReceipt, SessionLocations, Returns, StageOK, PrepareOK, Preparing, Launching
<1>10. call[p].session = s
  BY <1>5, <1>9 DEF Ended
<1> QED
  BY <1>9, <1>10

(***************************************************************************)
(* When the receipt of a disposable lease goes, no container and no volume *)
(* is left under its profile, if every session has a name of its own that  *)
(* no task chooses and the command line's own operations stay away from    *)
(* (release: the target, then the profile's volume, then the binding, and  *)
(* the receipt last).                                                      *)
(***************************************************************************)
THEOREM DisposableTheorem == ASSUME OwnNames, OwnProfiles PROVE SessionSpec => DisposableLeavesNothing
<1>1. SessionInit => DisposableInv
  BY DisposableStarts
<1>2. DisposableInv /\ [SessionNext]_allVars => DisposableInv'
  BY DisposableNext
<1>3. ASSUME DisposableInv, [SessionNext]_allVars, NEW s \in Sessions, Ended(s), ~ receipts[s].persistent
      PROVE  /\ \A c \in containers : c.profile # receipts[s].profile
             /\ HomeOf(receipts[s].profile) = {}
  <2>1. PICK p \in Procs : registry = p /\ at[p] = "unlease" /\ call[p].session = s /\ call[p].lease # None
    BY <1>3, EndsAtUnlease DEF DisposableInv
  <2>2. receipts[s].profile = Own(s) /\ Throwaway(s)
    BY <1>3 DEF Ended, Throwaway, DisposableInv, SessionInv, Chosen
  <2>3. NoStorage(Own(s))
    BY <1>3, <2>1, <2>2 DEF DisposableInv, Cleaned, CleanAt
  <2> QED
    BY <2>2, <2>3 DEF NoStorage, HomeOf
<1>4. DisposableInv /\ [SessionNext]_allVars =>
        [\A s \in Sessions :
       Ended(s) /\ ~ receipts[s].persistent =>
         /\ \A c \in containers : c.profile # receipts[s].profile
         /\ HomeOf(receipts[s].profile) = {}]_allVars
  BY <1>3
<1> QED
  BY <1>1, <1>2, <1>4, PTL DEF DisposableLeavesNothing, SessionSpec
================================================================================
