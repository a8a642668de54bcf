--------------------------- MODULE LiveViewSurface ---------------------------
(***************************************************************************)
(* The OpenTUI surface of the Live View, LiveViewRenderable, with the      *)
(* tunnel (client/tunnel.ts) and the native session it owns.  connect(),   *)
(* disconnect(), dispose() and destroy() are asynchronous: each is an      *)
(* operation that bumps operationGeneration, takes the current session and *)
(* tunnel away and then awaits, in this order, the frame conversion, the   *)
(* tunnel's child, its own tunnel or the connects it found pending.  What  *)
(* a slower operation does after an await must not disturb a newer one.    *)
(*                                                                         *)
(* An operation, its tunnel and its native session share one number.  What *)
(* JavaScript runs between two awaits is one action; the continuations of  *)
(* one conversion run together with it.  Sizes stand for the fitted output *)
(* size, 0 for a hidden surface; phase "live" stands for every lifecycle a  *)
(* native session reports.                                                 *)
(***************************************************************************)
EXTENDS Naturals, FiniteSets

CONSTANTS MaxOps,        \* bound on the operations called
          MaxFrames,     \* bound on the frames a native session decodes
          MaxResizes,    \* bound on the layout changes
          MaxErrors,     \* bound on failing polls and failed or refused conversions
          Kinds          \* the operations a host calls

ASSUME SurfaceBounds ==
  /\ MaxOps \in Nat /\ MaxFrames \in Nat /\ MaxResizes \in Nat /\ MaxErrors \in Nat
  /\ Kinds \subseteq {"connect", "disconnect", "dispose", "destroy"}

VARIABLES surf,    \* the fields of the renderable
          op,      \* the calls, by number
          tun,     \* the tunnel of each connect
          ses,     \* the native session of each connect
          conv,    \* the active conversion, or NoConversion
          env      \* the layout and what is left of the bounds

vars == <<surf, op, tun, ses, conv, env>>

Ops == 1 .. MaxOps
None == 0
NoConversion == [session |-> None]
NoPicture == [session |-> None, frame |-> 0, size |-> 0]

SurfaceInit ==
  /\ surf = [destroyed |-> FALSE, gen |-> 0, epoch |-> 0, controller |-> None,
             session |-> None, tunnel |-> None, polling |-> FALSE, phase |-> "empty",
             source |-> NoPicture, latest |-> 0, lastSize |-> 0, converter |-> "open"]
  /\ op = [i \in Ops |-> [kind |-> "none", gen |-> 0, pc |-> "idle", aborted |-> FALSE,
                          taken |-> None, pending |-> {}]]
  /\ tun = [i \in Ops |-> [child |-> "none", signal |-> 0, closing |-> FALSE]]
  /\ ses = [i \in Ops |-> [handle |-> "none", newest |-> 0]]
  /\ conv = NoConversion
  /\ env = [size |-> 1, resizes |-> 0, errors |-> 0]

Called(i) == op[i].pc # "idle"
Pending(i) == op[i].pc \notin {"idle", "done"}

\* Mutant of Overtaken: a newer operation does not count.
OvertakenByDestroy(i) == surf.destroyed

(* The test an operation repeats after every await.                        *)
Overtaken(i) == op[i].gen # surf.gen \/ surf.destroyed

(* A settled call keeps nothing of what it waited for.                     *)
Goto(i, pc) ==
  op' = [op EXCEPT ![i] =
    IF pc = "done" THEN [@ EXCEPT !.pc = pc, !.aborted = FALSE, !.taken = None, !.pending = {}]
    ELSE [@ EXCEPT !.pc = pc]]

(***************************************************************************)
(* LiveViewTunnel.close: at most one closeOnce per tunnel, SIGTERM first.  *)
(***************************************************************************)
Closing(t) ==
  [t EXCEPT !.closing = TRUE,
            !.signal = IF t.closing \/ t.child # "running" THEN @ ELSE 15]
Closed(t) == tun[t].closing /\ tun[t].child # "running"

CloseOf(t) == IF t = None THEN UNCHANGED tun ELSE tun' = [tun EXCEPT ![t] = Closing(@)]

\* Mutant of CloseEscalate: the child is waited for and never killed.
CloseWaits(t) ==
  /\ tun[t].closing /\ tun[t].child = "running"
  /\ UNCHANGED vars

(* One second after SIGTERM the child is killed.                           *)
CloseEscalate(t) ==
  /\ tun[t].closing /\ tun[t].child = "running" /\ tun[t].signal = 15
  /\ tun' = [tun EXCEPT ![t].signal = 9]
  /\ UNCHANGED <<surf, op, ses, conv, env>>

(* The ssh child exits: of itself, for SIGTERM, or for SIGKILL.  What it   *)
(* was sent matters no more.                                               *)
ChildExits(t) ==
  /\ tun[t].child = "running"
  /\ tun' = [tun EXCEPT ![t].child = "exited", ![t].signal = 0]
  /\ UNCHANGED <<surf, op, ses, conv, env>>

(***************************************************************************)
(* teardownCurrent, up to its first await.  The presentation is reset at   *)
(* once when no conversion is active, else together with its end.          *)
(***************************************************************************)
NoPresentation(s) ==
  [s EXCEPT !.source = IF s.destroyed THEN @ ELSE NoPicture, !.latest = 0, !.lastSize = 0]

TornDown(s) ==
  LET t == [s EXCEPT !.session = None, !.tunnel = None, !.polling = FALSE, !.epoch = @ + 1]
  IN IF conv = NoConversion THEN NoPresentation(t) ELSE t

CloseSession(s) == IF s = None THEN ses ELSE [ses EXCEPT ![s] = [handle |-> "closed", newest |-> 0]]

(* A call of kind k: beginOperation or invalidateOperation, then teardown. *)
Begin(i, k, destroyed) ==
  /\ ~Called(i) /\ \A j \in Ops : j < i => Called(j)
  /\ k \in Kinds
  /\ surf' = [TornDown(surf) EXCEPT !.gen = @ + 1,
                                    !.controller = IF k = "connect" THEN i ELSE None,
                                    !.destroyed = @ \/ destroyed,
                                    !.source = IF destroyed THEN NoPicture ELSE @]
  /\ op' = [j \in Ops |->
       CASE j = i -> [kind |-> k, gen |-> surf.gen + 1, aborted |-> FALSE,
                      pc |-> IF conv = NoConversion THEN "accessing" ELSE "converting",
                      taken |-> surf.tunnel,
                      pending |-> IF k = "connect" THEN {} ELSE
                                  {c \in Ops : op[c].kind = "connect" /\ Pending(c)}]
         [] j # i /\ j = surf.controller -> [op[j] EXCEPT !.aborted = TRUE]
         [] OTHER -> op[j]]
  /\ ses' = CloseSession(surf.session)
  /\ IF conv = NoConversion THEN CloseOf(surf.tunnel) ELSE UNCHANGED tun
  /\ UNCHANGED <<conv, env>>

(* A connect is refused by nothing, not even by a dispose that is under way. *)
Connect(i) == Begin(i, "connect", FALSE)
Disconnect(i) == Begin(i, "disconnect", FALSE)
Dispose(i) == ~surf.destroyed /\ Begin(i, "dispose", FALSE)
Destroy(i) == ~surf.destroyed /\ Begin(i, "destroy", TRUE)

(***************************************************************************)
(* connectTarget after its teardown.                                       *)
(***************************************************************************)
AccessGone(i) ==
  op[i].pc = "accessing" /\ \A t \in Ops : op[i].taken = t => Closed(t)

(* The operation's controller is dropped when it is still the current one. *)
Dropped(s, i) == IF s.controller = i THEN [s EXCEPT !.controller = None] ELSE s

OpenTunnel(i) ==
  /\ op[i].kind = "connect" /\ AccessGone(i)
  /\ IF Overtaken(i)
     THEN Goto(i, "done") /\ UNCHANGED surf
     ELSE Goto(i, "opening") /\ surf' = [surf EXCEPT !.phase = "opening"]
  /\ UNCHANGED <<tun, ses, conv, env>>

(* What connectTarget does with an error once no tunnel is left to close.  *)
Fail(i) ==
  /\ Goto(i, "done")
  /\ surf' = Dropped(IF Overtaken(i) THEN surf ELSE [surf EXCEPT !.phase = "failed"], i)

(* LiveViewTunnel.open: the port, then the child unless the signal fired.  *)
Spawn(i) ==
  /\ op[i].pc = "opening" /\ ~op[i].aborted
  /\ tun' = [tun EXCEPT ![i].child = "running"]
  /\ Goto(i, "waiting")
  /\ UNCHANGED <<surf, ses, conv, env>>

(* No port, the host's own signal, or the operation's, before the spawn.   *)
SpawnFails(i) ==
  /\ op[i].pc = "opening"
  /\ Fail(i)
  /\ UNCHANGED <<tun, ses, conv, env>>

(* waitUntilReady throws: aborted, child gone, or past the deadline.       *)
WaitFails(i) ==
  /\ op[i].pc = "waiting"
  /\ tun' = [tun EXCEPT ![i] = Closing(@)]
  /\ Goto(i, "reaping")
  /\ UNCHANGED <<surf, ses, conv, env>>

Reaped(i) ==
  /\ op[i].pc \in {"reaping", "failing"} /\ Closed(i)
  /\ Fail(i)
  /\ UNCHANGED <<tun, ses, conv, env>>

(* A direct access has no child; open returns without an await to lose.    *)
Reachable(i) ==
  \/ op[i].pc = "opening" /\ ~op[i].aborted
  \/ op[i].pc = "waiting" /\ tun[i].child = "running"

\* Mutant of OpenedLate: the tunnel that came late is forgotten.
ForgottenLate(i) ==
  /\ Reachable(i) /\ Overtaken(i)
  /\ Goto(i, "done")
  /\ surf' = Dropped(surf, i)
  /\ UNCHANGED <<tun, ses, conv, env>>

(* open returned to an operation that was overtaken: its tunnel is closed. *)
OpenedLate(i) ==
  /\ Reachable(i) /\ Overtaken(i)
  /\ tun' = [tun EXCEPT ![i] = Closing(@)]
  /\ Goto(i, "discarding")
  /\ UNCHANGED <<surf, ses, conv, env>>

Discarded(i) ==
  /\ op[i].pc = "discarding" /\ Closed(i)
  /\ Goto(i, "done")
  /\ surf' = Dropped(surf, i)
  /\ UNCHANGED <<tun, ses, conv, env>>

Opened(i) ==
  /\ Reachable(i) /\ ~Overtaken(i)
  /\ surf' = Dropped([surf EXCEPT !.session = i, !.tunnel = i, !.polling = TRUE,
                                  !.phase = "live"], i)
  /\ ses' = [ses EXCEPT ![i].handle = "open"]
  /\ Goto(i, "done")
  /\ UNCHANGED <<tun, conv, env>>

(* The descriptor, the native library or connect itself throws.            *)
SessionFails(i) ==
  /\ Reachable(i) /\ ~Overtaken(i)
  /\ tun' = [tun EXCEPT ![i] = Closing(@)]
  /\ Goto(i, "failing")
  /\ UNCHANGED <<surf, ses, conv, env>>

(***************************************************************************)
(* disconnect after its teardown, and destroyResources around it.          *)
(***************************************************************************)
Settle(i) ==
  /\ op[i].kind # "connect" /\ AccessGone(i)
  /\ \A c \in op[i].pending : op[c].pc = "done"
  /\ Goto(i, IF op[i].kind = "disconnect" THEN "done" ELSE "converter")
  /\ surf' = IF Overtaken(i) THEN surf ELSE [surf EXCEPT !.phase = "empty"]
  /\ UNCHANGED <<tun, ses, conv, env>>

(* closeFrameConverter: from now on the converter refuses new frames.      *)
CloseConverter(i) ==
  /\ op[i].pc = "converter"
  /\ Goto(i, "closing")
  /\ surf' = [surf EXCEPT !.converter = "closed"]
  /\ UNCHANGED <<tun, ses, conv, env>>

(* It has answered the frame it had, for every caller that awaits it.      *)
(* dispose then destroys the surface, as it finds it.                      *)
ConverterClosed(i) ==
  /\ op[i].pc = "closing"
  /\ conv # NoConversion => ~conv.accepted
  /\ Goto(i, "done")
  /\ surf' = [surf EXCEPT !.destroyed = TRUE, !.source = NoPicture]
  /\ UNCHANGED <<tun, ses, conv, env>>

(***************************************************************************)
(* pollNative and the conversion it starts.                                *)
(***************************************************************************)
SizeChanged == surf.latest # 0 /\ env.size # surf.lastSize

\* Mutant of After: a resize asks for newer frames only.
AfterLatest == surf.latest

(* acquireFrame(after) leases the newest frame when it is newer than after *)
After == IF SizeChanged THEN 0 ELSE surf.latest

Polls == surf.polling /\ surf.session # None /\ ~surf.destroyed

Acquires(s) == env.size # 0 /\ conv = NoConversion /\ ses[s].newest > After

Poll ==
  /\ Polls
  /\ LET s == surf.session IN
     /\ surf' = [surf EXCEPT !.phase = "live"]
     /\ conv' = IF Acquires(s)
                THEN [session |-> s, gen |-> surf.gen, epoch |-> surf.epoch,
                      frame |-> ses[s].newest, size |-> env.size,
                      accepted |-> surf.converter = "open"]
                ELSE conv
  /\ UNCHANGED <<op, tun, ses, env>>

Broken(s) == [s EXCEPT !.polling = FALSE, !.phase = "failed"]

PollThrows ==
  /\ Polls /\ env.errors < MaxErrors
  /\ surf' = Broken(surf)
  /\ env' = [env EXCEPT !.errors = @ + 1]
  /\ UNCHANGED <<op, tun, ses, conv>>

(* A completion that belongs to another session, operation or teardown.    *)
Foreign ==
  \/ conv.session # surf.session
  \/ conv.gen # surf.gen
  \/ conv.epoch # surf.epoch
  \/ surf.destroyed

StaleCompletion == Foreign \/ env.size # conv.size

Submitted(s) ==
  [s EXCEPT !.source = [session |-> conv.session, frame |-> conv.frame, size |-> conv.size],
            !.latest = conv.frame, !.lastSize = conv.size]

(* Those that wait for the conversion go on with their teardown at once.   *)
Waiting == {i \in Ops : op[i].pc = "converting"}
ConversionSettled(s) ==
  /\ conv' = NoConversion
  /\ surf' = IF Waiting = {} THEN s ELSE NoPresentation(s)
  /\ op' = [i \in Ops |-> IF i \in Waiting THEN [op[i] EXCEPT !.pc = "accessing"] ELSE op[i]]
  /\ tun' = [t \in Ops |-> IF \E i \in Waiting : op[i].taken = t
                           THEN Closing(tun[t]) ELSE tun[t]]
  /\ UNCHANGED ses

Converted ==
  /\ conv # NoConversion /\ conv.accepted
  /\ ConversionSettled(IF StaleCompletion THEN surf ELSE Submitted(surf))
  /\ UNCHANGED env

(* The native conversion fails, or the converter is closed: a current      *)
(* surface is marked failed.                                               *)
ConversionFails ==
  /\ conv # NoConversion /\ (conv.accepted => env.errors < MaxErrors)
  /\ ConversionSettled(IF Foreign THEN surf ELSE Broken(surf))
  /\ env' = [env EXCEPT !.errors = IF conv.accepted THEN @ + 1 ELSE @]

(* The worker became unavailable: nothing happens to the surface.          *)
ConversionRefused ==
  /\ conv # NoConversion /\ conv.accepted /\ env.errors < MaxErrors
  /\ ConversionSettled(surf)
  /\ env' = [env EXCEPT !.errors = @ + 1]

(***************************************************************************)
(* The native session's decoder and the terminal's layout.                 *)
(***************************************************************************)
FrameArrives(s) ==
  /\ ses[s].handle = "open" /\ ses[s].newest < MaxFrames
  /\ ses' = [ses EXCEPT ![s].newest = @ + 1]
  /\ UNCHANGED <<surf, op, tun, conv, env>>

Resize(z) ==
  /\ z # env.size /\ env.resizes < MaxResizes
  /\ env' = [env EXCEPT !.size = z, !.resizes = @ + 1]
  /\ UNCHANGED <<surf, op, tun, ses, conv>>

Step(i) ==
  \/ OpenTunnel(i) \/ Spawn(i) \/ SpawnFails(i) \/ WaitFails(i) \/ Reaped(i)
  \/ OpenedLate(i) \/ Discarded(i) \/ Opened(i) \/ SessionFails(i)
  \/ Settle(i) \/ CloseConverter(i) \/ ConverterClosed(i)

ConversionEnds == Converted \/ ConversionFails \/ ConversionRefused

SurfaceNext ==
  \/ \E i \in Ops :
       \/ Connect(i) \/ Disconnect(i) \/ Dispose(i) \/ Destroy(i)
       \/ Step(i)
       \/ CloseEscalate(i) \/ ChildExits(i) \/ FrameArrives(i)
  \/ Poll \/ PollThrows
  \/ ConversionEnds
  \/ \E z \in 0 .. 2 : Resize(z)

(* The event loop runs every continuation, the poll timer fires, the       *)
(* converter answers, and a killed child exits.  A waiting tunnel has a    *)
(* deadline, so WaitFails is among the steps that cannot be put off.       *)
Fairness ==
  /\ \A i \in Ops : WF_vars(Step(i)) /\ WF_vars(CloseEscalate(i))
  /\ \A t \in Ops : WF_vars(ChildExits(t) /\ tun[t].signal = 9)
  /\ WF_vars(Poll) /\ WF_vars(ConversionEnds)

SurfaceSpec == SurfaceInit /\ [][SurfaceNext]_vars /\ Fairness

-----------------------------------------------------------------------------
(* PROPERTIES *)

(* The session the surface shows belongs to its newest operation, and it    *)
(* never runs on a tunnel that somebody is closing: an older connect whose  *)
(* tunnel came late must not have installed itself over a newer call.       *)
SessionIsNewest ==
  surf.session # None =>
    /\ op[surf.session].gen = surf.gen
    /\ surf.tunnel = surf.session
    /\ ses[surf.session].handle = "open"
    /\ ~tun[surf.session].closing

(* Once every call has settled, each native session and each ssh child     *)
(* that is left is the one the surface owns, in whatever order the calls    *)
(* overlapped, failed and came late; and a destroyed surface owns none,     *)
(* with one exception: a connect that was called while a dispose was under  *)
(* way (calls are numbered in order) has overtaken its teardown.            *)
AllSettled == \A i \in Ops : ~Pending(i)
NothingLeaks ==
  AllSettled =>
    /\ \A i \in Ops : ses[i].handle = "open" => i = surf.session
    /\ \A i \in Ops : tun[i].child = "running" => i = surf.tunnel
    /\ surf.destroyed =>
         \/ surf.session = None /\ surf.tunnel = None /\ ~surf.polling
         \/ \E d \in Ops : op[d].kind = "dispose" /\ d < surf.session

(* The same without the exception.  The code does not keep it: dispose()    *)
(* awaits only the connects it found pending, and then calls                *)
(* super.destroy() on a surface that has a session and an ssh child again.  *)
DestroyedOwnsNothing == AllSettled /\ surf.destroyed => surf.session = None

(* Every call settles: a disconnect awaits the connects it found, they      *)
(* await a tunnel, a tunnel its child, and none of these waits is for ever  *)
(* although ssh may ignore SIGTERM and the tunnel may never become ready.   *)
CallsSettle == \A i \in Ops : Pending(i) ~> op[i].pc = "done"

(* In the long run a visible surface that polls shows the newest frame of   *)
(* its session in the current size: frames dropped as stale, skipped while  *)
(* the converter was busy or overtaken by a resize are asked for again.     *)
UpToDate ==
  LET s == surf.session IN
  Polls /\ env.size # 0 /\ ses[s].newest # 0 /\ surf.converter = "open" =>
    surf.source = [session |-> s, frame |-> ses[s].newest, size |-> env.size]
NewestIsShown == <>[]UpToDate

=============================================================================
