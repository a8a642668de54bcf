---------------------------- MODULE ScreencastRun ----------------------------
(***************************************************************************)
(* The opt-in screencast helper (tools/screencast): run() of run.ts, which *)
(* opens a disposable session, grants its page one loopback origin, lets a *)
(* supervisor permit every action, records the guest's display, copies and *)
(* verifies the recording and releases the session; the driver's commands  *)
(* and the ExecPeer it works through; its monitor; the driver daemon with  *)
(* the capture provider; the peer and the recorder in the guest.           *)
(*                                                                         *)
(* run() is a list of stages, those of an action repeated for each action; *)
(* `todo' is what the present stage has left to await.  The reads of the   *)
(* page, its geometry and identity, screenshots and comparisons are all    *)
(* "look".                                                                 *)
(* Deadlines and budgets are outcomes of the await they end.  Preparation  *)
(* and coordination are enabled: reply 1 is the accepted preparation,      *)
(* replies 2i and 2i+1 are permit and acknowledgement of action i.         *)
(***************************************************************************)
EXTENDS Naturals, Sequences

CONSTANTS Script,      \* the kinds of the actions
          MaxChanges   \* bound on what others do to the session and the VM

Kinds == {"wait", "press", "click", "focus"}

\* What the constants must be; the module that checks this one assumes it.
FilmAssumption == Script \in Seq(Kinds) /\ MaxChanges \in Nat

VARIABLES helper,   \* run(): where it is and what it knows
          await,    \* what it awaits, and how that ended
          failed,   \* the safety latch; helper-failure.json is there from then on
          peer,     \* ExecPeer: none, open or closed
          monitor,  \* the interval, and the check under way
          driver,   \* the driver daemon; its detach acknowledgement
          exec,     \* in the guest: the peer, its request and answer, the encoder
          owner,    \* the session's lease and the VM
          super,    \* the supervisor: abort, what it was asked, what it replied
          inputs    \* the actions whose input was dispatched

filmVars == <<helper, await, failed, peer, monitor, driver, exec, owner, super, inputs>>

Replies == 1 .. 2 * Len(Script) + 1
Ours == 1     \* the lease and the instance the run pinned
Other == 2
Nobody == 0

(***************************************************************************)
(* What run() awaits, in order.                                            *)
(***************************************************************************)
Commands == {"open", "info", "goto", "look", "act", "prepare", "decode"}
Rpcs == {"fullscreen", "snapshot", "allocate", "start", "status", "reply", "hover", "stop", "copy"}

Setup == <<"open", "info", "lease", "verify", "connect", "grant", "goto", "fullscreen", "look",
           "prepare">>

Ready == <<"verify", "look", "snapshot", "look", "allocate", "start">>

Permit == <<"status", "verify", "look", "reply">>

ActionBody ==
  [wait |-> <<"verify", "look", "status">>,
   press |-> <<"verify", "look", "status", "act">>,
   click |-> <<"verify", "look", "status", "look", "hover", "act">>,
   focus |-> <<"verify", "look", "status", "look", "act", "look", "verify", "look", "hover", "look">>]

Acknowledge == <<"status", "reply">>

Finish == <<"verify", "look", "status", "stop", "copy", "decode">>

(* releaseOwned and the confirmation of its callers                        *)
ReleaseOwned == <<"verify", "exit", "verify", "release", "gone">>
Cleanup(h) == [h EXCEPT !.phase = "cleaning", !.stage = "release", !.todo = ReleaseOwned]

NotAwaiting == [kind |-> "none", op |-> "none", end |-> "none"]
Awaiting(kind, op) == [kind |-> kind, op |-> op, end |-> "open"]

FilmInit ==
  /\ helper = [phase |-> "working", stage |-> "setup", action |-> 0, todo |-> Setup, replies |-> 0,
               recording |-> FALSE, saved |-> FALSE, pinned |-> Nobody, copied |-> FALSE,
               status |-> "pending"]
  /\ await = NotAwaiting
  /\ failed = FALSE /\ peer = "none"
  /\ monitor = [ticking |-> FALSE, at |-> "idle", ok |-> TRUE]
  /\ driver = [state |-> "none", detached |-> FALSE]
  /\ exec = [alive |-> FALSE, request |-> "none", answer |-> "none", encoder |-> "none"]
  /\ owner = [lease |-> Nobody, instance |-> Nobody, changes |-> 0, destroyed |-> {}]
  /\ super = [abort |-> FALSE, asked |-> 0, exact |-> {}, wrong |-> {}]
  /\ inputs = {}

Running(step) == helper.phase # "done" /\ await.kind = "none" /\ Head(helper.todo) = step

(***************************************************************************)
(* The latch.  Its first trip fails the peer, whose requests are rejected, *)
(* and kills the command that runs.                                        *)
(***************************************************************************)
Closed == IF peer = "none" THEN "none" ELSE "closed"

Cut(a) == IF a.kind \in {"command", "rpc"} /\ a.end = "open" THEN [a EXCEPT !.end = "failed"] ELSE a

Trip ==
  /\ failed' = TRUE
  /\ peer' = IF failed THEN peer ELSE Closed
  /\ await' = IF failed THEN await ELSE Cut(await)

(* checkExternalAbort and peer.check                                       *)
MayDispatch == ~failed /\ ~super.abort /\ peer # "closed"

(* The catch of run(): the lease is released unless a recording began.     *)
Throw ==
  /\ failed' = TRUE
  /\ peer' = Closed
  /\ await' = NotAwaiting
  /\ monitor' = [monitor EXCEPT !.ticking = FALSE]
  /\ helper' = IF helper.recording \/ helper.phase = "cleaning" \/ ~helper.saved \/ helper.pinned = Nobody
               THEN [helper EXCEPT !.phase = "done"]
               ELSE Cleanup(helper)

Enters(stage, action, todo) == [helper EXCEPT !.stage = stage, !.action = action, !.todo = todo]

(* What is left after a step.                                              *)
Rest ==
  IF Len(helper.todo) > 1 THEN [helper EXCEPT !.todo = Tail(@)]
  ELSE CASE helper.stage = "setup" -> Enters("ready", 0, Ready)
         [] helper.stage = "permit" -> Enters("act", helper.action, ActionBody[Script[helper.action]])
         [] helper.stage = "act" -> Enters("acknowledge", helper.action, Acknowledge)
         [] helper.stage \in {"ready", "acknowledge"} /\ helper.action < Len(Script) ->
              Enters("permit", helper.action + 1, Permit)
         [] OTHER -> Enters("finish", helper.action, Finish)

Go(next) ==
  /\ helper' = next
  /\ await' = NotAwaiting
  /\ UNCHANGED <<failed, peer, monitor>>

\* Mutant of ReplyRead: that there is a document is taken for consent.
AnyReplyRead ==
  IF helper.replies + 1 \in super.exact \cup super.wrong THEN Go([Rest EXCEPT !.replies = @ + 1])
                                                         ELSE Go(helper) \/ Throw

(* acceptPreparation and checkReply; without the document the wait goes on *)
ReplyRead ==
  CASE helper.replies + 1 \in super.exact -> Go([Rest EXCEPT !.replies = @ + 1])
    [] helper.replies + 1 \in super.wrong -> Throw
    [] OTHER -> Go(helper) \/ Throw

-----------------------------------------------------------------------------
(* The driver's commands and ffmpeg.                                        *)

Spawn(op) ==
  /\ Running(op) /\ op \in Commands
  /\ IF MayDispatch
     THEN /\ await' = Awaiting("command", op)
          /\ driver' = IF op = "open" THEN [driver EXCEPT !.state = "asked"] ELSE driver
          /\ super' = IF op = "prepare" THEN [super EXCEPT !.asked = 1] ELSE super
          /\ inputs' = IF op = "act" THEN inputs \cup {helper.action} ELSE inputs
          /\ UNCHANGED <<helper, failed, peer, monitor>>
     ELSE Throw /\ UNCHANGED <<driver, super, inputs>>
  /\ UNCHANGED <<exec, owner>>

(* The driver answers while its first daemon runs.                         *)
CommandEnds(op) ==
  /\ await.kind = "command" /\ await.op = op
  /\ \/ /\ await.end = "open" /\ (op # "decode" => driver.state = "running")
        /\ CASE op = "prepare" -> ReplyRead
             [] op = "decode" ->
                  /\ helper' = Cleanup([helper EXCEPT !.copied = TRUE])
                  /\ await' = NotAwaiting /\ peer' = "closed"
                  /\ monitor' = [monitor EXCEPT !.ticking = FALSE]
                  /\ UNCHANGED failed
             [] OTHER -> Go(Rest)
     \/ Throw
  /\ UNCHANGED <<driver, exec, owner, super, inputs>>

(* The daemon launches through the capture provider, once; a killed        *)
(* command does not stop it.                                               *)
Launch ==
  /\ driver.state = "asked"
  /\ \/ /\ driver' = [driver EXCEPT !.state = "running"]
        /\ owner' = [owner EXCEPT !.lease = Ours, !.instance = Ours]
     \/ driver' = [driver EXCEPT !.state = "exited"] /\ UNCHANGED owner
  /\ UNCHANGED <<helper, await, failed, peer, monitor, exec, super, inputs>>

(* Its idle timeout, whose detach the provider acknowledges, or its end.   *)
DriverExits ==
  /\ driver.state = "running"
  /\ \E d \in BOOLEAN : driver' = [state |-> "exited", detached |-> d]
  /\ UNCHANGED <<helper, await, failed, peer, monitor, exec, owner, super, inputs>>

-----------------------------------------------------------------------------
(* ExecPeer.                                                                *)

(* `new ExecPeer' and grant look at no latch: a trip before there is a peer *)
(* does not stop them.                                                      *)
Handshake(op) ==
  /\ Running(op) /\ op \in {"connect", "grant"}
  /\ IF peer # "closed"
     THEN /\ peer' = "open" /\ await' = Awaiting("rpc", op)
          /\ exec' = [exec EXCEPT !.request = op, !.answer = "none"]
          /\ UNCHANGED <<helper, failed, monitor>>
     ELSE Throw /\ UNCHANGED exec
  /\ UNCHANGED <<driver, owner, super, inputs>>

\* Mutant of Recording: the recorder counts once it said that it runs.
RecordingWhenAnswered(op, when) == op = "start" /\ when = "answered"

(* From which moment on a recording may exist in the guest.                *)
Recording(op, when) == op = "start" /\ when = "dispatched"

(* A request with what run() does before it: the display may be right      *)
(* already; the question that a reply answers is published first.          *)
Request(op) ==
  /\ Running(op) /\ op \in Rpcs
  /\ IF MayDispatch
     THEN \/ /\ await' = Awaiting("rpc", op)
             /\ exec' = [exec EXCEPT !.request = op, !.answer = "none"]
             /\ helper' = [helper EXCEPT !.recording = @ \/ Recording(op, "dispatched")]
             /\ super' = IF op = "reply" THEN [super EXCEPT !.asked = helper.replies + 1] ELSE super
             /\ inputs' = IF op = "hover" THEN inputs \cup {helper.action} ELSE inputs
             /\ UNCHANGED <<failed, peer, monitor>>
          \/ /\ op = "fullscreen" /\ Go(Rest)
             /\ UNCHANGED <<exec, super, inputs>>
     ELSE Throw /\ UNCHANGED <<exec, super, inputs>>
  /\ UNCHANGED <<driver, owner>>

Answered(op) ==
  /\ await.kind = "rpc" /\ await.op = op
  /\ \/ /\ await.end = "open" /\ exec.answer = "ok" /\ peer = "open"
        /\ CASE op = "reply" -> ReplyRead
             [] op = "connect" -> /\ helper' = Rest /\ await' = NotAwaiting
                                  /\ monitor' = [monitor EXCEPT !.ticking = TRUE]
                                  /\ UNCHANGED <<failed, peer>>
             [] OTHER -> Go([Rest EXCEPT !.recording = @ \/ Recording(op, "answered")])
     \/ Throw
  /\ exec' = [exec EXCEPT !.answer = "none"]
  /\ UNCHANGED <<driver, owner, super, inputs>>

(* The socket or the heartbeat fails, or the guest's peer stops.           *)
PeerFails ==
  /\ peer = "open"
  /\ failed' = TRUE /\ peer' = "closed" /\ await' = Cut(await)
  /\ UNCHANGED <<helper, monitor, driver, exec, owner, super, inputs>>

-----------------------------------------------------------------------------
(* In the guest: peer.py and recorder.py.                                   *)

\* Mutant of Encoder: how ffmpeg ended is not looked at, and any file is read.
EncoderForgives(op) ==
  CASE op = "start" /\ exec.encoder = "none" -> {<<"running", "ok">>, <<"running", "error">>}
    [] op \in {"status", "reply"} ->
         {<<exec.encoder, IF exec.encoder \in {"none", "running"} THEN "ok" ELSE "error">>}
    [] op = "stop" /\ exec.encoder \in {"running", "ended"} -> {<<"finalized", "ok">>}
    [] OTHER -> {<<exec.encoder, "ok">>, <<exec.encoder, "error">>}

Encoder(op) ==
  CASE op = "start" /\ exec.encoder = "none" -> {<<"running", "ok">>, <<"running", "error">>}
    [] op = "status" -> {<<exec.encoder, IF exec.encoder = "running" THEN "ok" ELSE "error">>}
    [] op = "reply" -> {<<exec.encoder, IF exec.encoder \in {"none", "running"} THEN "ok" ELSE "error">>}
    [] op = "stop" -> {<<"broken", "error">>} \cup
                      (IF exec.encoder \in {"running", "ended"} THEN {<<"finalized", "ok">>} ELSE {})
    [] op = "copy" -> {<<exec.encoder, IF exec.encoder = "finalized" THEN "ok" ELSE "error">>}
    [] OTHER -> {<<exec.encoder, "ok">>, <<exec.encoder, "error">>}

Handle ==
  /\ exec.request # "none"
  /\ exec.request = "connect" \/ exec.alive
  /\ \E e \in Encoder(exec.request) :
       exec' = [exec EXCEPT !.alive = TRUE, !.request = "none", !.encoder = e[1], !.answer = e[2]]
  /\ UNCHANGED <<helper, await, failed, peer, monitor, driver, owner, super, inputs>>

(* The file is long enough, or ffmpeg dies.                                *)
EncoderEnds ==
  /\ exec.encoder = "running"
  /\ \E e \in {"ended", "broken"} : exec' = [exec EXCEPT !.encoder = e]
  /\ UNCHANGED <<helper, await, failed, peer, monitor, driver, owner, super, inputs>>

(* Revocation, the end of input or the heartbeat's expiry stop the guest's *)
(* peer, which stops the encoder it started.                               *)
GuestStops ==
  /\ exec.alive /\ peer = "closed"
  /\ exec' = [alive |-> FALSE, request |-> "none", answer |-> "none",
              encoder |-> IF exec.encoder \in {"running", "ended"} THEN "stopped" ELSE exec.encoder]
  /\ UNCHANGED <<helper, await, failed, peer, monitor, driver, owner, super, inputs>>

-----------------------------------------------------------------------------
(* Ownership.                                                               *)

(* The receipts that say which lease and target to hold on to.             *)
ReadLease ==
  /\ Running("lease")
  /\ IF owner.lease = Ours THEN Go([Rest EXCEPT !.saved = TRUE]) ELSE Throw
  /\ UNCHANGED <<driver, exec, owner, super, inputs>>

(* verify(): the receipt is read, then the instance, then both are judged. *)
VerifyLease ==
  /\ Running("verify")
  /\ await' = [kind |-> "verify", op |-> "verify", end |-> IF owner.lease = Ours THEN "ok" ELSE "bad"]
  /\ UNCHANGED <<helper, failed, peer, monitor, driver, exec, owner, super, inputs>>

assertOwner(leaseOk, pinned) ==
  leaseOk /\ owner.instance # Nobody /\ (pinned # Nobody => owner.instance = pinned)

VerifyInstance ==
  /\ await.kind = "verify"
  /\ \/ /\ assertOwner(await.end = "ok", helper.pinned)
        /\ Go([Rest EXCEPT !.pinned = owner.instance])
     \/ Throw
  /\ UNCHANGED <<driver, exec, owner, super, inputs>>

(* The monitor, every second; clearInterval leaves a check that has begun. *)
MonitorBegins ==
  /\ monitor.ticking /\ monitor.at = "idle"
  /\ monitor' = [monitor EXCEPT !.at = "instance", !.ok = (owner.lease = Ours)]
  /\ UNCHANGED <<helper, await, failed, peer, driver, exec, owner, super, inputs>>

MonitorEnds ==
  /\ monitor.at = "instance"
  /\ monitor' = [monitor EXCEPT !.at = "idle", !.ok = TRUE]
  /\ \/ assertOwner(monitor.ok, helper.pinned) /\ UNCHANGED <<failed, peer, await>>
     \/ Trip
  /\ UNCHANGED <<helper, driver, exec, owner, super, inputs>>

(* releaseOwned waits for the daemon's end and its acknowledgement.        *)
AwaitExit ==
  /\ Running("exit")
  /\ \/ driver.state = "exited" /\ driver.detached /\ Go(Rest)
     \/ Throw
  /\ UNCHANGED <<driver, exec, owner, super, inputs>>

(* sessions.release, in the registry's lock: the lease is compared ...     *)
ReleaseLease ==
  /\ Running("release") /\ await.kind = "none"
  /\ IF owner.lease = Ours
     THEN await' = [kind |-> "release", op |-> "release", end |-> "open"]
          /\ UNCHANGED <<helper, failed, peer, monitor>>
     ELSE Throw
  /\ UNCHANGED <<driver, exec, owner, super, inputs>>

\* Mutant of Expected: whatever runs under the target's name.
ExpectedByName == owner.instance

(* The instance a release may destroy.                                     *)
Expected == helper.pinned

(* ... and the instance destroyed, then the receipt removed.               *)
ReleaseInstance ==
  /\ await.kind = "release"
  /\ IF owner.instance # Nobody /\ owner.instance = Expected
     THEN \/ /\ owner' = [owner EXCEPT !.destroyed = @ \cup {owner.instance},
                                       !.instance = Nobody, !.lease = Nobody]
             /\ Go(Rest)
          \/ /\ owner' = [owner EXCEPT !.destroyed = @ \cup {owner.instance}, !.instance = Nobody]
             /\ Throw
          \/ Throw /\ UNCHANGED owner
     ELSE Throw /\ UNCHANGED owner
  /\ UNCHANGED <<driver, exec, super, inputs>>

(* The lease is read once more, and the run is over.                       *)
Confirm ==
  /\ Running("gone")
  /\ IF owner.lease = Nobody
     THEN /\ helper' = [helper EXCEPT !.phase = "done",
                          !.status = IF helper.copied THEN "fixture-verified" ELSE "pending"]
          /\ UNCHANGED <<await, failed, peer, monitor>>
     ELSE Throw
  /\ UNCHANGED <<driver, exec, owner, super, inputs>>

-----------------------------------------------------------------------------
(* The operator, the supervisor and everybody else.                         *)

(* SIGINT or SIGTERM                                                       *)
Cancel ==
  /\ helper.phase # "done" /\ ~failed
  /\ Trip
  /\ UNCHANGED <<helper, monitor, driver, exec, owner, super, inputs>>

(* A document that matches answers what was published.                     *)
Reply(r, document) ==
  /\ r \notin super.exact \cup super.wrong
  /\ \/ document = "exact" /\ r <= super.asked
        /\ super' = [super EXCEPT !.exact = @ \cup {r}]
     \/ document = "wrong" /\ r <= super.asked + 1
        /\ super' = [super EXCEPT !.wrong = @ \cup {r}]
  /\ UNCHANGED <<helper, await, failed, peer, monitor, driver, exec, owner, inputs>>

Abort ==
  /\ ~super.abort /\ helper.phase # "done"
  /\ super' = [super EXCEPT !.abort = TRUE]
  /\ UNCHANGED <<helper, await, failed, peer, monitor, driver, exec, owner, inputs>>

(* The session is released or taken over, or the VM is lost or recreated   *)
(* under its name.  A release holds the registry's lock.                   *)
OwnerChanges(lease, instance) ==
  /\ owner.changes < MaxChanges /\ driver.state \in {"running", "exited"}
  /\ helper.phase # "done"
  /\ <<lease, instance>> # <<owner.lease, owner.instance>>
  /\ lease = owner.lease \/ (await.kind # "release" /\ lease \in {Nobody, Other})
  /\ instance \in {Nobody, Other}
  /\ owner' = [owner EXCEPT !.lease = lease, !.instance = instance, !.changes = @ + 1]
  /\ UNCHANGED <<helper, await, failed, peer, monitor, driver, exec, super, inputs>>

FilmNext ==
  \/ \E op \in Commands : Spawn(op) \/ CommandEnds(op)
  \/ \E op \in {"connect", "grant"} : Handshake(op)
  \/ \E op \in Rpcs : Request(op)
  \/ \E op \in Rpcs \cup {"connect", "grant"} : Answered(op)
  \/ Launch \/ DriverExits \/ PeerFails \/ Handle \/ EncoderEnds \/ GuestStops
  \/ ReadLease \/ VerifyLease \/ VerifyInstance \/ MonitorBegins \/ MonitorEnds
  \/ AwaitExit \/ ReleaseLease \/ ReleaseInstance \/ Confirm
  \/ Cancel \/ Abort
  \/ \E r \in Replies : \E d \in {"exact", "wrong"} : Reply(r, d)
  \/ \E l, i \in {Nobody, Ours, Other} : OwnerChanges(l, i)

FilmSpec == FilmInit /\ [][FilmNext]_filmVars

-----------------------------------------------------------------------------
(* PROPERTIES *)

(* tools/screencast/run.ts:810, README.md "Finalization": the VM holds the *)
(* only copy of the recording.  From the moment the recorder may run, also *)
(* when its start is still unanswered, the run destroys the VM only after  *)
(* the copy was verified.                                                  *)
SourceIsRetained ==
  exec.encoder # "none" /\ owner.destroyed # {} => helper.copied

(* "No timeout-as-consent": what was dispatched for an action follows the  *)
(* supervisor's exact permit for it, its acknowledgement of every action   *)
(* before it, and the accepted preparation.                                *)
InputIsPermitted ==
  \A i \in inputs : 1 .. 2 * i \subseteq super.exact

(* tools/screencast/README.md:50: an encoder's failure leaves the run       *)
(* pending.  Wherever ffmpeg dies or meets its limit, and whatever the     *)
(* supervisor left unanswered, a run that ends verified copied a recording *)
(* that the encoder finalised, gave every input of its script, had every   *)
(* action permitted and acknowledged, and destroyed the VM it recorded on. *)
VerifiedIsWhole ==
  helper.status = "fixture-verified" =>
    /\ exec.encoder = "finalized"
    /\ Replies \subseteq super.exact
    /\ inputs = {i \in DOMAIN Script : Script[i] # "wait"}
    /\ helper.pinned \in owner.destroyed

(* However the target was recreated between a check and the release, the   *)
(* run destroys the instance it pinned and no other.                       *)
OnlyPinnedIsDestroyed == owner.destroyed \subseteq {helper.pinned}

(* tools/screencast/README.md:58 says that a failed or cancelled run stays  *)
(* pending and retains its lease.  It does not hold: releaseOwned looks at  *)
(* no latch, so a run cancelled while it waits for the driver to exit still *)
(* releases the lease and ends fixture-verified, beside helper-failure.json *)
CancelledIsPending == helper.status = "fixture-verified" => ~failed

=============================================================================
