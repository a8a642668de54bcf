-------------------------- MODULE ScreencastRun_proofs --------------------------
(***************************************************************************)
(* Proofs about ScreencastRun, for every script of actions and any number  *)
(* of changes by others.                                                   *)
(***************************************************************************)
EXTENDS ScreencastRun, TLAPS

(***************************************************************************)
(* The shape of `todo': where each stage can be and how it ends.           *)
(***************************************************************************)
Stages == {"setup", "ready", "permit", "act", "acknowledge", "finish", "release"}
Handshakes == {"connect", "grant"}
Steps == Commands \cup Rpcs \cup Handshakes \cup {"lease", "verify", "exit", "release", "gone"}

\* The steps of a stage that are not its last one, and the last one.
Inner ==
  [setup |-> {"open", "info", "lease", "verify", "connect", "grant", "goto", "fullscreen", "look"},
   ready |-> {"verify", "look", "snapshot", "allocate"},
   permit |-> {"status", "verify", "look"},
   act |-> {"status", "verify", "look", "act", "hover"},
   acknowledge |-> {"status"},
   finish |-> {"verify", "look", "status", "stop", "copy"},
   release |-> {"verify", "exit", "release"}]

Final ==
  [setup |-> {"prepare"}, ready |-> {"start"}, permit |-> {"reply"}, act |-> Inner.act,
   acknowledge |-> {"reply"}, finish |-> {"decode"}, release |-> {"gone"}]

EndsIn(steps, inner, final) ==
  /\ steps \in Seq(Steps) /\ Len(steps) > 0
  /\ \A p \in 1 .. Len(steps) : steps[p] \in IF p = Len(steps) THEN final ELSE inner

LEMMA TailEnds ==
  ASSUME NEW steps, NEW inner, NEW final, EndsIn(steps, inner, final), Len(steps) > 1
  PROVE  EndsIn(Tail(steps), inner, final) /\ Head(steps) \in inner
<1> DEFINE rest == Tail(steps)
<1>1. rest \in Seq(Steps) /\ Len(rest) = Len(steps) - 1
  BY DEF EndsIn
<1>2. \A p \in 1 .. Len(rest) : rest[p] = steps[p + 1]
  BY DEF EndsIn
<1>3. Head(steps) = steps[1] /\ Len(steps) \in Nat
  BY DEF EndsIn
<1> HIDE DEF rest
<1>4. EndsIn(rest, inner, final)
  BY <1>1, <1>2, <1>3 DEF EndsIn
<1>5. Head(steps) \in inner
  BY <1>3 DEF EndsIn
<1> QED
  BY <1>4, <1>5 DEF rest

LEMMA HeadIsFinal ==
  ASSUME NEW steps, NEW inner, NEW final, EndsIn(steps, inner, final), Len(steps) <= 1
  PROVE  Head(steps) \in final
BY DEF EndsIn

LEMMA HeadInStage ==
  ASSUME NEW steps, NEW inner, NEW final, EndsIn(steps, inner, final)
  PROVE  Head(steps) \in inner \cup final
BY DEF EndsIn

\* Every stage begins with all of its steps to do.
LEMMA StagesEnd ==
  /\ EndsIn(Setup, Inner.setup, Final.setup)
  /\ EndsIn(Ready, Inner.ready, Final.ready)
  /\ EndsIn(Permit, Inner.permit, Final.permit)
  /\ \A kind \in Kinds : EndsIn(ActionBody[kind], Inner.act, Final.act)
  /\ EndsIn(Acknowledge, Inner.acknowledge, Final.acknowledge)
  /\ EndsIn(Finish, Inner.finish, Final.finish)
  /\ EndsIn(ReleaseOwned, Inner.release, Final.release)
<1> USE DEF EndsIn, Inner, Final, Steps, Commands, Rpcs, Handshakes
<1>1. EndsIn(Setup, Inner.setup, Final.setup)
  BY DEF Setup
<1>2. EndsIn(Ready, Inner.ready, Final.ready)
  BY DEF Ready
<1>3. EndsIn(Permit, Inner.permit, Final.permit)
  BY DEF Permit
<1>4. ASSUME NEW kind \in Kinds PROVE EndsIn(ActionBody[kind], Inner.act, Final.act)
  <2>1. EndsIn(ActionBody.wait, Inner.act, Final.act)
    BY DEF ActionBody
  <2>2. EndsIn(ActionBody.press, Inner.act, Final.act)
    BY DEF ActionBody
  <2>3. EndsIn(ActionBody.click, Inner.act, Final.act)
    BY DEF ActionBody
  <2>4. EndsIn(ActionBody.focus, Inner.act, Final.act)
    BY DEF ActionBody
  <2> QED
    BY <2>1, <2>2, <2>3, <2>4 DEF Kinds
<1>5. EndsIn(Acknowledge, Inner.acknowledge, Final.acknowledge)
  BY DEF Acknowledge
<1>6. EndsIn(Finish, Inner.finish, Final.finish)
  BY DEF Finish
<1>7. EndsIn(ReleaseOwned, Inner.release, Final.release)
  BY DEF ReleaseOwned
<1> QED
  BY <1>1, <1>2, <1>3, <1>4, <1>5, <1>6, <1>7

(***************************************************************************)
(* Where run() is.                                                         *)
(***************************************************************************)
Run ==
  [phase : {"working", "cleaning", "done"}, stage : Stages, action : 0 .. Len(Script),
   todo : Seq(Steps), replies : Nat, recording : BOOLEAN, saved : BOOLEAN, pinned : Nat,
   copied : BOOLEAN, status : {"pending", "fixture-verified"}]

Placed(h) ==
  /\ h \in Run
  /\ EndsIn(h.todo, Inner[h.stage], Final[h.stage])
  /\ h.phase = "working" => h.stage # "release"
  /\ h.phase = "cleaning" => h.stage = "release"
  /\ h.stage \in {"permit", "act", "acknowledge"} => h.action \in 1 .. Len(Script)

\* The replies that were accepted, at each stage.
Counted(h) ==
  /\ h.stage = "setup" => h.replies = 0 /\ h.action = 0
  /\ h.stage = "ready" => h.replies = 1 /\ h.action = 0
  /\ h.stage = "permit" => h.replies + 1 = 2 * h.action
  /\ h.stage \in {"act", "acknowledge"} => h.replies = 2 * h.action

\* From the end of "ready" on a recording may exist.
Recorded(h) == h.stage \in {"permit", "act", "acknowledge", "finish"} => h.recording

SameBesides(h, g) ==
  /\ h.phase = g.phase /\ h.replies = g.replies /\ h.recording = g.recording
  /\ h.saved = g.saved /\ h.pinned = g.pinned /\ h.copied = g.copied /\ h.status = g.status

LEMMA EntersPlace ==
  ASSUME Placed(helper), helper.phase = "working", NEW stage \in Stages \ {"release"},
         NEW action \in 0 .. Len(Script),
         NEW todo, EndsIn(todo, Inner[stage], Final[stage]),
         stage \in {"permit", "act", "acknowledge"} => action \in 1 .. Len(Script)
  PROVE  /\ Placed(Enters(stage, action, todo))
         /\ SameBesides(Enters(stage, action, todo), helper)
         /\ Enters(stage, action, todo).stage = stage
         /\ Enters(stage, action, todo).action = action
BY DEF Placed, Run, Enters, SameBesides, EndsIn

\* A step ends: the next one of the stage, or the next stage.
LEMMA RestPlace ==
  ASSUME FilmAssumption, Placed(helper), helper.phase = "working",
         Counted(helper), Recorded(helper)
  PROVE  /\ Placed(Rest) /\ SameBesides(Rest, helper)
         /\ Head(helper.todo) \notin {"prepare", "reply"} => Counted(Rest)
         /\ Head(helper.todo) \in {"prepare", "reply"}
              => Counted([Rest EXCEPT !.replies = @ + 1])
         /\ (Head(helper.todo) = "start" => helper.recording) => Recorded(Rest)
<1> DEFINE head == Head(helper.todo)
<1>0. Len(Script) \in Nat /\ \A i \in 1 .. Len(Script) : Script[i] \in Kinds
  BY DEF FilmAssumption
<1>1. CASE Len(helper.todo) > 1
  <2>1. Rest = [helper EXCEPT !.todo = Tail(@)]
    BY <1>1 DEF Rest
  <2>2. EndsIn(Tail(helper.todo), Inner[helper.stage], Final[helper.stage]) /\ head \in Inner[helper.stage]
    BY <1>1, TailEnds DEF Placed
  <2>3. Placed(Rest) /\ SameBesides(Rest, helper) /\ Rest.stage = helper.stage /\ Rest.action = helper.action
    BY <2>1, <2>2 DEF Placed, Run, SameBesides, EndsIn
  <2>4. head \notin {"prepare", "reply"}
    BY <2>2 DEF Placed, Run, Stages, Inner
  <2>5. Counted(Rest) /\ Recorded(Rest)
    BY <2>3 DEF Counted, Recorded, SameBesides
  <2> QED
    BY <2>3, <2>4, <2>5
<1>2. CASE Len(helper.todo) <= 1
  <2>1. head \in Final[helper.stage]
    BY <1>2, HeadIsFinal DEF Placed
  <2>2. CASE helper.stage = "setup"
    <3>1. Rest = Enters("ready", 0, Ready)
      BY <1>2, <2>2 DEF Rest
    <3>2. head = "prepare"
      BY <2>1, <2>2 DEF Final
    <3>3. /\ Placed(Rest) /\ SameBesides(Rest, helper)
          /\ Rest.stage = "ready" /\ Rest.action = 0
      BY <3>1, <1>0, StagesEnd, EntersPlace DEF Stages
    <3>4. Counted([Rest EXCEPT !.replies = @ + 1]) /\ Recorded(Rest)
      BY <2>2, <3>3 DEF Counted, Recorded, SameBesides, Placed, Run
    <3> QED
      BY <3>2, <3>3, <3>4
  <2>3. CASE helper.stage = "permit"
    <3>1. Rest = Enters("act", helper.action, ActionBody[Script[helper.action]])
      BY <1>2, <2>3 DEF Rest
    <3>2. head = "reply"
      BY <2>1, <2>3 DEF Final
    <3>3. /\ Placed(Rest) /\ SameBesides(Rest, helper)
          /\ Rest.stage = "act" /\ Rest.action = helper.action
      <4>1. helper.action \in 1 .. Len(Script)
        BY <2>3 DEF Placed
      <4>2. EndsIn(ActionBody[Script[helper.action]], Inner["act"], Final["act"])
        BY <4>1, <1>0, StagesEnd
      <4> QED
        BY <3>1, <1>0, <4>1, <4>2, EntersPlace DEF Stages
    <3>4. Counted([Rest EXCEPT !.replies = @ + 1]) /\ Recorded(Rest)
      BY <2>3, <3>3 DEF Counted, Recorded, SameBesides, Placed, Run
    <3> QED
      BY <3>2, <3>3, <3>4
  <2>4. CASE helper.stage = "act"
    <3>1. Rest = Enters("acknowledge", helper.action, Acknowledge)
      BY <1>2, <2>4 DEF Rest
    <3>2. head \notin {"prepare", "reply"}
      BY <2>1, <2>4 DEF Final, Inner
    <3>3. /\ Placed(Rest) /\ SameBesides(Rest, helper)
          /\ Rest.stage = "acknowledge" /\ Rest.action = helper.action
      <4>1. helper.action \in 1 .. Len(Script)
        BY <2>4 DEF Placed
      <4> QED
        BY <3>1, <1>0, <4>1, StagesEnd, EntersPlace DEF Stages
    <3>4. Counted(Rest) /\ Recorded(Rest)
      BY <2>4, <3>3 DEF Counted, Recorded, SameBesides
    <3> QED
      BY <3>2, <3>3, <3>4
  <2>5. CASE helper.stage \in {"ready", "acknowledge"} /\ helper.action < Len(Script)
    <3>1. Rest = Enters("permit", helper.action + 1, Permit)
      BY <1>2, <2>5 DEF Rest
    <3>2. helper.stage = "ready" => head = "start"
      BY <2>1 DEF Final
    <3>3. helper.stage = "acknowledge" => head = "reply"
      BY <2>1 DEF Final
    <3>4. /\ Placed(Rest) /\ SameBesides(Rest, helper)
          /\ Rest.stage = "permit" /\ Rest.action = helper.action + 1
      <4>1. helper.action + 1 \in 1 .. Len(Script)
        BY <2>5, <1>0 DEF Placed, Run
      <4> QED
        BY <3>1, <1>0, <4>1, StagesEnd, EntersPlace DEF Stages
    <3>5. helper.stage = "ready" => Counted(Rest)
      BY <3>4 DEF Counted, SameBesides, Placed, Run
    <3>6. ASSUME helper.stage = "acknowledge" PROVE Counted([Rest EXCEPT !.replies = @ + 1])
      <4> DEFINE next == [Rest EXCEPT !.replies = @ + 1]
      <4>1. /\ next.stage = "permit" /\ next.action = helper.action + 1
            /\ next.replies = helper.replies + 1
        BY <3>4 DEF SameBesides, Placed, Run
      <4>2. helper.replies = 2 * helper.action /\ helper.action \in Nat
        BY <3>6 DEF Counted, Placed, Run
      <4> HIDE DEF next
      <4>3. Counted(next)
        BY <4>1, <4>2 DEF Counted
      <4> QED
        BY <4>3 DEF next
    <3>7. (head = "start" => helper.recording) => Recorded(Rest)
      BY <2>5, <3>2, <3>4 DEF Recorded, SameBesides
    <3> QED
      BY <2>5, <3>2, <3>3, <3>4, <3>5, <3>6, <3>7
  <2>6. CASE /\ helper.stage \in {"ready", "acknowledge", "finish"}
             /\ ~ (helper.stage \in {"ready", "acknowledge"} /\ helper.action < Len(Script))
    <3>1. Rest = Enters("finish", helper.action, Finish)
      BY <1>2, <2>6 DEF Rest
    <3>2. helper.stage = "ready" => head = "start"
      BY <2>1 DEF Final
    <3>3. /\ Placed(Rest) /\ SameBesides(Rest, helper)
          /\ Rest.stage = "finish" /\ Rest.action = helper.action
      <4>1. helper.action \in 0 .. Len(Script)
        BY DEF Placed, Run
      <4> QED
        BY <3>1, <1>0, <4>1, StagesEnd, EntersPlace DEF Stages
    <3>4. Counted(Rest) /\ Counted([Rest EXCEPT !.replies = @ + 1])
      BY <3>3 DEF Counted, SameBesides, Placed, Run
    <3>5. (head = "start" => helper.recording) => Recorded(Rest)
      BY <2>6, <3>2, <3>3 DEF Recorded, SameBesides
    <3> QED
      BY <3>3, <3>4, <3>5
  <2> QED
    BY <2>2, <2>3, <2>4, <2>5, <2>6 DEF Placed, Run, Stages
<1> QED
  BY <1>1, <1>2 DEF Placed, EndsIn

\* In the release stage only the confirmation is not followed by a step of it.
LEMMA RestCleaning ==
  ASSUME Placed(helper), helper.phase = "cleaning", Head(helper.todo) # "gone"
  PROVE  Placed(Rest) /\ SameBesides(Rest, helper) /\ Rest.stage = "release"
<1>1. helper.stage = "release"
  BY DEF Placed
<1>2. Len(helper.todo) > 1
  BY <1>1, HeadIsFinal DEF Placed, Final, EndsIn
<1>3. EndsIn(Tail(helper.todo), Inner[helper.stage], Final[helper.stage])
  BY <1>2, TailEnds DEF Placed
<1> QED
  BY <1>1, <1>2, <1>3 DEF Rest, Placed, Run, SameBesides, EndsIn

LEMMA ReleasingPlace ==
  ASSUME NEW h, Placed(h)
  PROVE  /\ Placed(Cleanup(h)) /\ Cleanup(h).stage = "release"
         /\ Cleanup(h).phase = "cleaning" /\ Cleanup(h).recording = h.recording
         /\ Cleanup(h).copied = h.copied /\ Cleanup(h).pinned = h.pinned
         /\ Cleanup(h).replies = h.replies
<1>1. EndsIn(ReleaseOwned, Inner["release"], Final["release"])
  BY StagesEnd
<1> QED
  BY <1>1 DEF Placed, Run, Cleanup, Stages, EndsIn

(***************************************************************************)
(* What run() awaits is the head of `todo'.                                *)
(***************************************************************************)
Awaited ==
  [kind : {"none", "command", "rpc", "verify", "release"}, op : Steps \cup {"none"},
   end : {"none", "open", "failed", "ok", "bad"}]

AwaitOK ==
  /\ await \in Awaited
  /\ await.kind \in {"command", "rpc"} => helper.phase = "working" /\ Head(helper.todo) = await.op
  /\ await.kind = "command" => await.op \in Commands
  /\ await.kind = "rpc" => await.op \in Rpcs \cup Handshakes
  /\ await.kind \in {"verify", "release"} => Head(helper.todo) = await.kind
  /\ await.kind = "rpc" /\ await.op = "start" => helper.recording
  /\ helper.phase = "done" => await.kind = "none"

OwnerOK ==
  owner \in [lease : Nat, instance : Nat, changes : Nat, destroyed : SUBSET Nat]

LEMMA OwnerSet ==
  ASSUME OwnerOK, NEW lease \in Nat, NEW instance \in Nat, NEW changes \in Nat,
         NEW destroyed \in SUBSET Nat,
         owner' = [owner EXCEPT !.lease = lease, !.instance = instance, !.changes = changes,
                                !.destroyed = destroyed]
  PROVE  OwnerOK'
BY DEF OwnerOK

Progress == helper.phase = "working" => Counted(helper) /\ Recorded(helper)

ShapeInv == Placed(helper) /\ Progress /\ AwaitOK /\ OwnerOK

\* The failure of whatever was awaited.
LEMMA ThrowShape ==
  ASSUME ShapeInv, Throw
  PROVE  Placed(helper)' /\ Progress' /\ AwaitOK'
<1>1. CASE helper' = [helper EXCEPT !.phase = "done"]
  <2>1. Placed(helper') /\ helper'.phase = "done"
    BY <1>1 DEF ShapeInv, Placed, Run
  <2> QED
    BY <2>1 DEF Throw, Progress, AwaitOK, Awaited, NotAwaiting
<1>2. CASE helper' = Cleanup(helper)
  <2>1. Placed(helper') /\ helper'.phase = "cleaning"
    BY <1>2, ReleasingPlace DEF ShapeInv
  <2> QED
    BY <2>1 DEF Throw, Progress, AwaitOK, Awaited, NotAwaiting
<1> QED
  BY <1>1, <1>2 DEF Throw

\* The end of a step that went well, whatever else of the run it notes.
LEMMA RestShape ==
  ASSUME FilmAssumption, ShapeInv, helper.phase # "done",
         Head(helper.todo) \notin {"prepare", "reply", "gone"},
         Head(helper.todo) = "start" => helper.recording,
         NEW saved \in BOOLEAN, NEW recording \in BOOLEAN, helper.recording => recording,
         NEW pinned \in Nat,
         helper' = [Rest EXCEPT !.saved = saved, !.recording = recording, !.pinned = pinned],
         await' = NotAwaiting
  PROVE  /\ Placed(helper)' /\ Progress' /\ AwaitOK'
         /\ helper'.phase = helper.phase /\ helper'.replies = helper.replies
         /\ helper'.recording = recording /\ helper'.pinned = pinned
         /\ helper'.copied = helper.copied
<1>1. Placed(Rest) /\ SameBesides(Rest, helper)
  <2>1. CASE helper.phase = "working"
    BY <2>1, RestPlace DEF ShapeInv, Progress
  <2>2. CASE helper.phase = "cleaning"
    BY <2>2, RestCleaning DEF ShapeInv
  <2> QED
    BY <2>1, <2>2 DEF ShapeInv, Placed, Run
<1>2. /\ Placed(helper')
      /\ helper'.phase = helper.phase /\ helper'.replies = helper.replies
      /\ helper'.recording = recording /\ helper'.pinned = pinned
      /\ helper'.copied = helper.copied
      /\ helper'.stage = Rest.stage /\ helper'.action = Rest.action
  BY <1>1 DEF Placed, Run, SameBesides
<1>3. ASSUME helper.phase = "working" PROVE Counted(helper') /\ Recorded(helper')
  <2>1. Counted(Rest) /\ Recorded(Rest)
    BY <1>3, RestPlace DEF ShapeInv, Progress
  <2> QED
    BY <1>1, <1>2, <2>1 DEF Counted, Recorded, SameBesides
<1>4. Progress'
  BY <1>2, <1>3 DEF Progress
<1>5. AwaitOK'
  BY <1>2 DEF AwaitOK, Awaited, NotAwaiting
<1> QED
  BY <1>2, <1>4, <1>5

\* A reply is read: it is accepted, refused, or awaited further.
LEMMA ReplyShape ==
  ASSUME FilmAssumption, ShapeInv, helper.phase = "working",
         Head(helper.todo) \in {"prepare", "reply"}, ReplyRead
  PROVE  Placed(helper)' /\ Progress' /\ AwaitOK'
<1>1. CASE Throw
  BY <1>1, ThrowShape
<1>2. CASE Go(helper)
  BY <1>2 DEF Go, ShapeInv, Progress, AwaitOK, Awaited, NotAwaiting
<1>3. CASE Go([Rest EXCEPT !.replies = @ + 1])
  <2>1. /\ Placed(Rest) /\ SameBesides(Rest, helper)
        /\ Counted([Rest EXCEPT !.replies = @ + 1]) /\ Recorded(Rest)
    BY RestPlace DEF ShapeInv, Progress
  <2>2. helper' = [Rest EXCEPT !.replies = @ + 1] /\ await' = NotAwaiting
    BY <1>3 DEF Go
  <2>3. /\ Placed(helper') /\ helper'.stage = Rest.stage
        /\ helper'.recording = Rest.recording /\ helper'.phase = "working"
    BY <2>1, <2>2 DEF Placed, Run, SameBesides
  <2>4. Progress'
    BY <2>1, <2>2, <2>3 DEF Progress, Recorded
  <2> QED
    BY <2>2, <2>3, <2>4 DEF AwaitOK, Awaited, NotAwaiting
<1> QED
  BY <1>1, <1>2, <1>3 DEF ReplyRead

LEMMA GoShape ==
  ASSUME FilmAssumption, ShapeInv, helper.phase # "done",
         Head(helper.todo) \notin {"prepare", "reply", "gone"},
         Head(helper.todo) = "start" => helper.recording,
         Go(Rest)
  PROVE  /\ Placed(helper)' /\ Progress' /\ AwaitOK'
         /\ helper'.phase = helper.phase /\ helper'.replies = helper.replies
         /\ helper'.recording = helper.recording /\ helper'.pinned = helper.pinned
         /\ helper'.copied = helper.copied
<1>1. Placed(Rest) /\ SameBesides(Rest, helper)
  <2>1. CASE helper.phase = "working"
    BY <2>1, RestPlace DEF ShapeInv, Progress
  <2>2. CASE helper.phase = "cleaning"
    BY <2>2, RestCleaning DEF ShapeInv
  <2> QED
    BY <2>1, <2>2 DEF ShapeInv, Placed, Run
<1>2. Rest = [Rest EXCEPT !.saved = helper.saved, !.recording = helper.recording,
                          !.pinned = helper.pinned]
  BY <1>1 DEF Placed, Run, SameBesides
<1>3. /\ helper.saved \in BOOLEAN /\ helper.recording \in BOOLEAN /\ helper.pinned \in Nat
  BY DEF ShapeInv, Placed, Run
<1> QED
  BY <1>2, <1>3, RestShape DEF Go

\* Where the step in hand belongs.
LEMMA HeadPhase ==
  ASSUME ShapeInv, helper.phase # "done"
  PROVE  /\ Head(helper.todo) \in Steps
         /\ helper.phase = "working" => Head(helper.todo) \notin {"exit", "release", "gone"}
         /\ helper.phase = "cleaning" => Head(helper.todo) \in {"verify", "exit", "release", "gone"}
         /\ helper.phase = "working" /\ Head(helper.todo) = "decode" => helper.stage = "finish"
         /\ helper.phase = "working" /\ Head(helper.todo) \in {"act", "hover"} => helper.stage = "act"
         /\ helper.phase = "working" /\ Head(helper.todo) = "stop" => helper.stage = "finish"
<1>1. Head(helper.todo) \in Inner[helper.stage] \cup Final[helper.stage]
  BY HeadInStage DEF ShapeInv, Placed
<1>2. helper.phase \in {"working", "cleaning"} /\ helper.stage \in Stages
  BY DEF ShapeInv, Placed, Run
<1> QED
  BY <1>1, <1>2 DEF ShapeInv, Placed, Stages, Inner, Final, Steps, Commands, Rpcs, Handshakes

\* Steps that leave run() alone, or only end what it awaits.
LEMMA ElsewhereShape ==
  ASSUME ShapeInv, UNCHANGED helper, UNCHANGED await \/ await' = Cut(await), OwnerOK'
  PROVE  ShapeInv'
<1>1. await' \in Awaited /\ await'.kind = await.kind /\ await'.op = await.op
  BY DEF ShapeInv, AwaitOK, Awaited, Cut
<1> QED
  BY <1>1 DEF ShapeInv, AwaitOK, Progress

LEMMA ShapeStep ==
  ASSUME FilmAssumption, ShapeInv, [FilmNext]_filmVars
  PROVE  ShapeInv'
<1> USE DEF Nobody, Ours, Other
<1>1. ASSUME NEW op \in Commands, Spawn(op) PROVE ShapeInv'
  <2>1. OwnerOK'
    BY <1>1 DEF Spawn, ShapeInv, OwnerOK
  <2>2. CASE Throw
    BY <2>1, <2>2, ThrowShape DEF ShapeInv
  <2>3. CASE UNCHANGED helper /\ await' = Awaiting("command", op)
    <3>1. helper.phase = "working"
      BY <1>1, HeadPhase DEF Spawn, Running, ShapeInv, Placed, Run, Commands
    <3>2. AwaitOK'
      BY <1>1, <2>3, <3>1 DEF Spawn, Running, Awaiting, AwaitOK, Awaited, Steps
    <3> QED
      BY <2>1, <2>3, <3>2 DEF ShapeInv, Progress
  <2> QED
    BY <1>1, <2>2, <2>3 DEF Spawn
<1>2. ASSUME NEW op \in Commands, CommandEnds(op) PROVE ShapeInv'
  <2>1. OwnerOK'
    BY <1>2 DEF CommandEnds, ShapeInv, OwnerOK
  <2>2. helper.phase = "working" /\ Head(helper.todo) = op
    BY <1>2 DEF CommandEnds, ShapeInv, AwaitOK
  <2>3. CASE Throw
    BY <2>1, <2>3, ThrowShape DEF ShapeInv
  <2>4. CASE op = "prepare" /\ ReplyRead
    BY <2>1, <2>2, <2>4, ReplyShape DEF ShapeInv
  <2>5. CASE op = "decode" /\ helper' = Cleanup([helper EXCEPT !.copied = TRUE]) /\ await' = NotAwaiting
    <3>1. Placed([helper EXCEPT !.copied = TRUE])
      BY DEF ShapeInv, Placed, Run
    <3>2. Placed(helper') /\ helper'.phase = "cleaning"
      BY <2>5, <3>1, ReleasingPlace
    <3> QED
      BY <2>1, <2>5, <3>2 DEF ShapeInv, Progress, AwaitOK, Awaited, NotAwaiting
  <2>6. CASE op \notin {"prepare", "decode"} /\ Go(Rest)
    BY <2>1, <2>2, <2>6, GoShape DEF ShapeInv, Commands
  <2> QED
    BY <1>2, <2>3, <2>4, <2>5, <2>6 DEF CommandEnds
<1>3. ASSUME NEW op \in Handshakes, Handshake(op) PROVE ShapeInv'
  <2>1. OwnerOK'
    BY <1>3 DEF Handshake, ShapeInv, OwnerOK
  <2>2. CASE Throw
    BY <2>1, <2>2, ThrowShape DEF ShapeInv
  <2>3. CASE UNCHANGED helper /\ await' = Awaiting("rpc", op)
    <3>1. helper.phase = "working"
      BY <1>3, HeadPhase DEF Handshake, Running, ShapeInv, Placed, Run, Handshakes
    <3>2. AwaitOK'
      BY <1>3, <2>3, <3>1 DEF Handshake, Running, Awaiting, AwaitOK, Awaited, Steps, Handshakes
    <3> QED
      BY <2>1, <2>3, <3>2 DEF ShapeInv, Progress
  <2> QED
    BY <1>3, <2>2, <2>3 DEF Handshake
<1>4. ASSUME NEW op \in Rpcs, Request(op) PROVE ShapeInv'
  <2>1. OwnerOK'
    BY <1>4 DEF Request, ShapeInv, OwnerOK
  <2>2. helper.phase = "working" /\ await.kind = "none" /\ Head(helper.todo) = op
    BY <1>4, HeadPhase DEF Request, Running, ShapeInv, Placed, Run, Rpcs
  <2>3. CASE Throw
    BY <2>1, <2>3, ThrowShape DEF ShapeInv
  <2>4. CASE /\ helper' = [helper EXCEPT !.recording = @ \/ Recording(op, "dispatched")]
             /\ await' = Awaiting("rpc", op)
    <3>1. /\ Placed(helper') /\ helper'.todo = helper.todo /\ helper'.phase = "working"
          /\ helper.recording \/ op = "start" => helper'.recording
          /\ SameBesides([helper EXCEPT !.recording = helper'.recording], helper')
          /\ helper'.stage = helper.stage /\ helper'.action = helper.action
      BY <2>2, <2>4 DEF ShapeInv, Placed, Run, Recording, SameBesides
    <3>2. Counted(helper') /\ Recorded(helper')
      BY <2>2, <3>1 DEF ShapeInv, Progress, Counted, Recorded, Placed, Run, SameBesides
    <3>3. await' = [kind |-> "rpc", op |-> op, end |-> "open"]
      BY <2>4 DEF Awaiting
    <3>4. AwaitOK'
      BY <2>2, <3>1, <3>3 DEF AwaitOK, Awaited, Steps
    <3> QED
      BY <2>1, <3>1, <3>2, <3>4 DEF ShapeInv, Progress
  <2>5. CASE op = "fullscreen" /\ Go(Rest)
    BY <2>1, <2>2, <2>5, GoShape DEF ShapeInv
  <2> QED
    BY <1>4, <2>3, <2>4, <2>5 DEF Request
<1>5. ASSUME NEW op \in Rpcs \cup Handshakes, Answered(op) PROVE ShapeInv'
  <2>1. OwnerOK'
    BY <1>5 DEF Answered, ShapeInv, OwnerOK
  <2>2. /\ helper.phase = "working" /\ Head(helper.todo) = op
        /\ op = "start" => helper.recording
    BY <1>5 DEF Answered, ShapeInv, AwaitOK
  <2>3. CASE Throw
    BY <2>1, <2>3, ThrowShape DEF ShapeInv
  <2>4. CASE op = "reply" /\ ReplyRead
    BY <2>1, <2>2, <2>4, ReplyShape DEF ShapeInv
  <2>5. Placed(Rest) /\ SameBesides(Rest, helper)
    BY <2>2, RestPlace DEF ShapeInv, Progress
  <2>6. CASE op # "reply" /\ helper' = Rest /\ await' = NotAwaiting
    <3>1. Rest = [Rest EXCEPT !.saved = helper.saved, !.recording = helper.recording,
                              !.pinned = helper.pinned]
      BY <2>5 DEF Placed, Run, SameBesides
    <3>2. helper.saved \in BOOLEAN /\ helper.recording \in BOOLEAN /\ helper.pinned \in Nat
      BY DEF ShapeInv, Placed, Run
    <3>3. Placed(helper)' /\ Progress' /\ AwaitOK'
      BY <2>2, <2>6, <3>1, <3>2, RestShape DEF Rpcs, Handshakes
    <3> QED
      BY <2>1, <3>3 DEF ShapeInv
  <2>7. CASE op # "reply" /\ Go([Rest EXCEPT !.recording = @ \/ Recording(op, "answered")])
    <3>1. helper' = Rest
      BY <2>5, <2>7 DEF Go, Recording, Placed, Run
    <3> QED
      BY <2>6, <2>7, <3>1 DEF Go
  <2> QED
    BY <1>5, <2>3, <2>4, <2>6, <2>7 DEF Answered
<1>6. CASE Launch
  <2>1. OwnerOK'
    <3>1. CASE UNCHANGED owner
      BY <3>1 DEF ShapeInv, OwnerOK
    <3>2. CASE owner' = [owner EXCEPT !.lease = 1, !.instance = 1]
      BY <3>2 DEF ShapeInv, OwnerOK
    <3> QED
      BY <1>6, <3>1, <3>2 DEF Launch
  <2>2. UNCHANGED <<helper, await>>
    BY <1>6 DEF Launch
  <2> QED
    BY <2>1, <2>2, ElsewhereShape
<1>7. CASE DriverExits \/ PeerFails \/ Handle \/ EncoderEnds \/ GuestStops \/ MonitorBegins
           \/ MonitorEnds \/ Cancel \/ Abort
  <2>1. UNCHANGED <<helper, owner>> /\ (UNCHANGED await \/ await' = Cut(await))
    BY <1>7 DEF DriverExits, PeerFails, Handle, EncoderEnds, GuestStops, MonitorBegins, MonitorEnds,
                Cancel, Abort, Trip
  <2> QED
    BY <2>1, ElsewhereShape DEF ShapeInv, OwnerOK
<1>8. CASE ReadLease
  <2>1. OwnerOK'
    BY <1>8 DEF ReadLease, ShapeInv, OwnerOK
  <2>2. CASE Throw
    BY <2>1, <2>2, ThrowShape DEF ShapeInv
  <2>3. CASE Go([Rest EXCEPT !.saved = TRUE])
    <3>1. helper.phase = "working" /\ Head(helper.todo) = "lease"
      BY <1>8, HeadPhase DEF ReadLease, Running, ShapeInv, Placed, Run
    <3>2. Placed(Rest) /\ SameBesides(Rest, helper)
      BY <3>1, RestPlace DEF ShapeInv, Progress
    <3>3. /\ helper' = [Rest EXCEPT !.saved = TRUE, !.recording = helper.recording,
                                    !.pinned = helper.pinned]
          /\ await' = NotAwaiting /\ helper.recording \in BOOLEAN /\ helper.pinned \in Nat
      BY <2>3, <3>2 DEF Go, Placed, Run, SameBesides
    <3>4. Placed(helper)' /\ Progress' /\ AwaitOK'
      BY <3>1, <3>3, RestShape
    <3> QED
      BY <2>1, <3>4 DEF ShapeInv
  <2> QED
    BY <1>8, <2>2, <2>3 DEF ReadLease
<1>9. CASE VerifyLease
  BY <1>9 DEF VerifyLease, Running, ShapeInv, AwaitOK, Awaited, Steps, Progress, OwnerOK
<1>10. CASE VerifyInstance
  <2>1. OwnerOK'
    BY <1>10 DEF VerifyInstance, ShapeInv, OwnerOK
  <2>2. CASE Throw
    BY <2>1, <2>2, ThrowShape DEF ShapeInv
  <2>3. CASE Go([Rest EXCEPT !.pinned = owner.instance])
    <3>1. helper.phase # "done" /\ Head(helper.todo) = "verify"
      BY <1>10 DEF VerifyInstance, ShapeInv, AwaitOK
    <3>2. Placed(Rest) /\ SameBesides(Rest, helper)
      <4>1. CASE helper.phase = "working"
        BY <4>1, RestPlace DEF ShapeInv, Progress
      <4>2. CASE helper.phase = "cleaning"
        BY <3>1, <4>2, RestCleaning DEF ShapeInv
      <4> QED
        BY <3>1, <4>1, <4>2 DEF ShapeInv, Placed, Run
    <3>3. /\ helper' = [Rest EXCEPT !.saved = helper.saved, !.recording = helper.recording,
                                    !.pinned = owner.instance]
          /\ await' = NotAwaiting /\ helper.recording \in BOOLEAN /\ helper.saved \in BOOLEAN
      BY <2>3, <3>2 DEF Go, Placed, Run, SameBesides
    <3>4. owner.instance \in Nat
      BY DEF ShapeInv, OwnerOK
    <3>5. Placed(helper)' /\ Progress' /\ AwaitOK'
      BY <3>1, <3>3, <3>4, RestShape
    <3> QED
      BY <2>1, <3>5 DEF ShapeInv
  <2> QED
    BY <1>10, <2>2, <2>3 DEF VerifyInstance
<1>11. CASE AwaitExit
  <2>1. OwnerOK'
    BY <1>11 DEF AwaitExit, ShapeInv, OwnerOK
  <2>2. CASE Throw
    BY <2>1, <2>2, ThrowShape DEF ShapeInv
  <2>3. CASE Go(Rest)
    BY <1>11, <2>1, <2>3, GoShape DEF AwaitExit, Running, ShapeInv
  <2> QED
    BY <1>11, <2>2, <2>3 DEF AwaitExit
<1>12. CASE ReleaseLease
  <2>1. OwnerOK'
    BY <1>12 DEF ReleaseLease, ShapeInv, OwnerOK
  <2>2. CASE Throw
    BY <2>1, <2>2, ThrowShape DEF ShapeInv
  <2>3. CASE UNCHANGED helper /\ await' = [kind |-> "release", op |-> "release", end |-> "open"]
    BY <1>12, <2>1, <2>3 DEF ReleaseLease, Running, ShapeInv, AwaitOK, Awaited, Steps, Progress
  <2> QED
    BY <1>12, <2>2, <2>3 DEF ReleaseLease
<1>13. CASE ReleaseInstance
  <2>1. OwnerOK'
    <3> DEFINE destroyed == owner.destroyed \cup {owner.instance}
    <3>1. destroyed \in SUBSET Nat
      BY DEF ShapeInv, OwnerOK
    <3> HIDE DEF destroyed
    <3>2. CASE UNCHANGED owner
      BY <3>2 DEF ShapeInv, OwnerOK
    <3>3. CASE owner' = [owner EXCEPT !.destroyed = destroyed, !.instance = 0, !.lease = 0]
      BY <3>1, <3>3 DEF ShapeInv, OwnerOK
    <3>4. CASE owner' = [owner EXCEPT !.destroyed = destroyed, !.instance = 0]
      BY <3>1, <3>4 DEF ShapeInv, OwnerOK
    <3> QED
      BY <1>13, <3>2, <3>3, <3>4 DEF ReleaseInstance, destroyed
  <2>2. CASE Throw
    BY <2>1, <2>2, ThrowShape DEF ShapeInv
  <2>3. CASE Go(Rest)
    BY <1>13, <2>1, <2>3, GoShape DEF ReleaseInstance, ShapeInv, AwaitOK
  <2> QED
    BY <1>13, <2>2, <2>3 DEF ReleaseInstance
<1>14. CASE Confirm
  <2>1. OwnerOK'
    BY <1>14 DEF Confirm, ShapeInv, OwnerOK
  <2>2. CASE Throw
    BY <2>1, <2>2, ThrowShape DEF ShapeInv
  <2>3. CASE /\ helper' = [helper EXCEPT !.phase = "done",
                             !.status = IF helper.copied THEN "fixture-verified" ELSE "pending"]
             /\ UNCHANGED await
    <3>1. Placed(helper') /\ helper'.phase = "done" /\ await.kind = "none"
      BY <1>14, <2>3 DEF Confirm, Running, ShapeInv, Placed, Run
    <3> QED
      BY <2>1, <2>3, <3>1 DEF ShapeInv, Progress, AwaitOK
  <2> QED
    BY <1>14, <2>2, <2>3 DEF Confirm
<1>15. ASSUME NEW r \in Replies, NEW d \in {"exact", "wrong"}, Reply(r, d) PROVE ShapeInv'
  BY <1>15, ElsewhereShape DEF Reply, ShapeInv, OwnerOK
<1>16. ASSUME NEW l \in {0, 1, 2}, NEW i \in {0, 1, 2}, OwnerChanges(l, i) PROVE ShapeInv'
  <2>1. OwnerOK'
    <3>1. owner' = [owner EXCEPT !.lease = l, !.instance = i, !.changes = @ + 1]
      BY <1>16 DEF OwnerChanges
    <3>2. owner.changes + 1 \in Nat /\ owner.destroyed \in SUBSET Nat
      BY DEF ShapeInv, OwnerOK
    <3>3. owner' = [owner EXCEPT !.lease = l, !.instance = i, !.changes = owner.changes + 1,
                                 !.destroyed = owner.destroyed]
      BY <3>1 DEF ShapeInv, OwnerOK
    <3> QED
      BY <3>2, <3>3, OwnerSet DEF ShapeInv
  <2> QED
    BY <1>16, <2>1, ElsewhereShape DEF OwnerChanges
<1>17. CASE UNCHANGED filmVars
  BY <1>17, ElsewhereShape DEF filmVars, ShapeInv, OwnerOK
<1> QED
  BY <1>1, <1>2, <1>3, <1>4, <1>5, <1>6, <1>7, <1>8, <1>9, <1>10, <1>11, <1>12, <1>13, <1>14,
     <1>15, <1>16, <1>17
  DEF FilmNext, Handshakes

LEMMA ShapeInit == ASSUME FilmAssumption, FilmInit PROVE ShapeInv
<1>1. Len(Script) \in Nat
  BY DEF FilmAssumption
<1>2. EndsIn(Setup, Inner["setup"], Final["setup"])
  BY StagesEnd
<1>3. /\ helper.phase = "working" /\ helper.stage = "setup" /\ helper.action = 0
      /\ helper.replies = 0 /\ Placed(helper)
  BY <1>1, <1>2 DEF FilmInit, Placed, Run, Stages, EndsIn, Nobody
<1>4. Progress
  BY <1>3 DEF Progress, Counted, Recorded
<1>5. AwaitOK /\ OwnerOK
  BY <1>3 DEF FilmInit, AwaitOK, Awaited, NotAwaiting, OwnerOK, Nobody
<1> QED
  BY <1>3, <1>4, <1>5 DEF ShapeInv

LEMMA Shape == ASSUME FilmAssumption PROVE FilmSpec => []ShapeInv
<1>1. FilmInit => ShapeInv
  BY ShapeInit
<1>2. ShapeInv /\ [FilmNext]_filmVars => ShapeInv'
  BY ShapeStep
<1> QED
  BY <1>1, <1>2, PTL DEF FilmSpec

(***************************************************************************)
(* How what run() knows can change in one step.                            *)
(***************************************************************************)
Keeps ==
  /\ helper'.replies = helper.replies
  /\ helper'.recording = helper.recording
  /\ helper.copied => helper'.copied
  /\ helper.pinned # Nobody => helper'.pinned = helper.pinned

\* A phase is left only for a later one; the clean-up is for a session whose
\* recording was copied, or that has none.
Onward ==
  /\ helper.phase # "working" => helper'.phase # "working"
  /\ helper'.phase = "cleaning" =>
       helper.phase = "cleaning" \/ helper'.copied \/ ~helper'.recording

Advances ==
  /\ Onward
  /\ helper.recording => helper'.recording
  /\ helper'.recording # helper.recording => helper.phase = "working" /\ helper'.phase = "working"
  /\ helper.copied => helper'.copied
  /\ helper.pinned # Nobody => helper'.pinned = helper.pinned
  /\ \/ helper'.replies = helper.replies
     \/ helper.replies + 1 \in super.exact /\ helper'.replies = helper.replies + 1

LEMMA ThrowAdvances == ASSUME ShapeInv, Throw PROVE Keeps /\ Onward
<1>1. CASE helper' = [helper EXCEPT !.phase = "done"]
  BY <1>1 DEF ShapeInv, Placed, Run, Keeps, Onward
<1>2. CASE ~helper.recording /\ helper' = Cleanup(helper)
  <2>1. Placed(helper)
    BY DEF ShapeInv
  <2> QED
    BY <1>2, <2>1, ReleasingPlace DEF Keeps, Onward
<1> QED
  BY <1>1, <1>2 DEF Throw

LEMMA ReplyAdvances ==
  ASSUME FilmAssumption, ShapeInv, helper.phase = "working",
         Head(helper.todo) \in {"prepare", "reply"}, ReplyRead
  PROVE  Advances
<1>1. CASE Throw
  BY <1>1, ThrowAdvances DEF Advances, Keeps
<1>2. CASE Go(helper)
  BY <1>2 DEF Go, Advances, Keeps, Onward
<1>3. CASE helper.replies + 1 \in super.exact /\ Go([Rest EXCEPT !.replies = @ + 1])
  <2>1. Placed(Rest) /\ SameBesides(Rest, helper)
    BY RestPlace DEF ShapeInv, Progress
  <2>2. helper' = [Rest EXCEPT !.replies = Rest.replies + 1]
    BY <1>3 DEF Go
  <2>3. helper'.replies = helper.replies + 1
    BY <2>1, <2>2 DEF Placed, Run, SameBesides
  <2>4. /\ helper'.phase = "working" /\ helper'.recording = helper.recording
        /\ helper'.copied = helper.copied /\ helper'.pinned = helper.pinned
    BY <2>1, <2>2 DEF Placed, Run, SameBesides
  <2> QED
    BY <1>3, <2>3, <2>4 DEF Advances, Onward
<1> QED
  BY <1>1, <1>2, <1>3 DEF ReplyRead

LEMMA GoAdvances ==
  ASSUME FilmAssumption, ShapeInv, helper.phase # "done",
         Head(helper.todo) \notin {"prepare", "reply", "gone"},
         Head(helper.todo) = "start" => helper.recording,
         Go(Rest)
  PROVE  Keeps /\ Onward
BY GoShape DEF Keeps, Onward

LEMMA AdvancesStep ==
  ASSUME FilmAssumption, ShapeInv, [FilmNext]_filmVars
  PROVE  Advances
<1> USE DEF Nobody, Ours, Other
<1>0. ASSUME UNCHANGED helper PROVE Advances
  BY <1>0 DEF Advances, Keeps, Onward
<1>1. ASSUME Throw PROVE Advances
  BY <1>1, ThrowAdvances DEF Advances, Keeps
<1>2. ASSUME NEW op \in Commands, Spawn(op) PROVE Advances
  BY <1>0, <1>1, <1>2 DEF Spawn
<1>3. ASSUME NEW op \in Commands, CommandEnds(op) PROVE Advances
  <2>1. helper.phase = "working" /\ Head(helper.todo) = op
    BY <1>3 DEF CommandEnds, ShapeInv, AwaitOK
  <2>2. CASE op = "prepare" /\ ReplyRead
    BY <2>1, <2>2, ReplyAdvances
  <2>3. CASE op = "decode" /\ helper' = Cleanup([helper EXCEPT !.copied = TRUE])
    <3> DEFINE copied == [helper EXCEPT !.copied = TRUE]
    <3>1. /\ Placed(copied) /\ copied.replies = helper.replies
          /\ copied.recording = helper.recording /\ copied.pinned = helper.pinned /\ copied.copied
      BY DEF ShapeInv, Placed, Run
    <3> HIDE DEF copied
    <3>2. helper' = Cleanup(copied)
      BY <2>3 DEF copied
    <3> QED
      BY <3>1, <3>2, <2>1, ReleasingPlace DEF Advances, Keeps, Onward
  <2>4. CASE op \notin {"prepare", "decode"} /\ Go(Rest)
    BY <2>1, <2>4, GoAdvances DEF Commands, Advances, Keeps
  <2> QED
    BY <1>1, <1>3, <2>2, <2>3, <2>4 DEF CommandEnds
<1>4. ASSUME NEW op \in Handshakes, Handshake(op) PROVE Advances
  BY <1>0, <1>1, <1>4 DEF Handshake
<1>5. ASSUME NEW op \in Rpcs, Request(op) PROVE Advances
  <2>1. helper.phase = "working" /\ Head(helper.todo) = op
    BY <1>5, HeadPhase DEF Request, Running, ShapeInv, Placed, Run, Rpcs
  <2>2. CASE helper' = [helper EXCEPT !.recording = @ \/ Recording(op, "dispatched")]
    <3>1. /\ helper'.phase = "working" /\ helper'.replies = helper.replies
          /\ helper'.copied = helper.copied /\ helper'.pinned = helper.pinned
          /\ helper.recording => helper'.recording
      BY <2>1, <2>2 DEF ShapeInv, Placed, Run
    <3> QED
      BY <2>1, <3>1 DEF Advances, Onward
  <2>3. CASE op = "fullscreen" /\ Go(Rest)
    BY <2>1, <2>3, GoAdvances DEF Advances, Keeps
  <2> QED
    BY <1>1, <1>5, <2>2, <2>3 DEF Request
<1>6. ASSUME NEW op \in Rpcs \cup Handshakes, Answered(op) PROVE Advances
  <2>1. /\ helper.phase = "working" /\ Head(helper.todo) = op
        /\ op = "start" => helper.recording
    BY <1>6 DEF Answered, ShapeInv, AwaitOK
  <2>2. Placed(Rest) /\ SameBesides(Rest, helper)
    BY <2>1, RestPlace DEF ShapeInv, Progress
  <2>3. ASSUME op # "reply", helper' = Rest PROVE Advances
    BY <2>1, <2>2, <2>3 DEF SameBesides, Advances, Keeps, Onward
  <2>4. CASE op # "reply" /\ Go([Rest EXCEPT !.recording = @ \/ Recording(op, "answered")])
    <3>1. helper' = Rest
      BY <2>2, <2>4 DEF Go, Recording, Placed, Run
    <3> QED
      BY <2>3, <2>4, <3>1
  <2>5. CASE op = "reply" /\ ReplyRead
    BY <2>1, <2>5, ReplyAdvances
  <2> QED
    BY <1>1, <1>6, <2>3, <2>4, <2>5 DEF Answered
<1>7. ASSUME ReadLease PROVE Advances
  <2>1. helper.phase = "working" /\ Head(helper.todo) = "lease"
    BY <1>7, HeadPhase DEF ReadLease, Running, ShapeInv, Placed, Run
  <2>2. Placed(Rest) /\ SameBesides(Rest, helper)
    BY <2>1, RestPlace DEF ShapeInv, Progress
  <2>3. CASE Go([Rest EXCEPT !.saved = TRUE])
    BY <2>1, <2>2, <2>3 DEF Go, Placed, Run, SameBesides, Advances, Keeps, Onward
  <2> QED
    BY <1>1, <1>7, <2>3 DEF ReadLease
<1>8. ASSUME VerifyInstance PROVE Advances
  <2>1. helper.phase # "done" /\ Head(helper.todo) = "verify"
    BY <1>8 DEF VerifyInstance, ShapeInv, AwaitOK
  <2>2. Placed(Rest) /\ SameBesides(Rest, helper)
    <3>1. CASE helper.phase = "working"
      BY <3>1, RestPlace DEF ShapeInv, Progress
    <3>2. CASE helper.phase = "cleaning"
      BY <2>1, <3>2, RestCleaning DEF ShapeInv
    <3> QED
      BY <2>1, <3>1, <3>2 DEF ShapeInv, Placed, Run
  <2>3. CASE /\ helper.pinned # Nobody => owner.instance = helper.pinned
             /\ Go([Rest EXCEPT !.pinned = owner.instance])
    BY <2>1, <2>2, <2>3 DEF Go, Placed, Run, SameBesides, Advances, Keeps, Onward
  <2> QED
    BY <1>1, <1>8, <2>3 DEF VerifyInstance, assertOwner
<1>9. ASSUME AwaitExit \/ ReleaseLease \/ ReleaseInstance PROVE Advances
  <2>1. CASE Go(Rest)
    <3>1. helper.phase # "done" /\ Head(helper.todo) \in {"exit", "release"}
      BY <1>9, <2>1 DEF AwaitExit, ReleaseLease, ReleaseInstance, Running, ShapeInv, AwaitOK
    <3> QED
      BY <2>1, <3>1, GoAdvances DEF Advances, Keeps
  <2> QED
    BY <1>0, <1>1, <1>9, <2>1 DEF AwaitExit, ReleaseLease, ReleaseInstance
<1>10. ASSUME Confirm PROVE Advances
  <2>1. CASE helper' = [helper EXCEPT !.phase = "done",
                          !.status = IF helper.copied THEN "fixture-verified" ELSE "pending"]
    BY <2>1 DEF ShapeInv, Placed, Run, Advances, Keeps, Onward
  <2> QED
    BY <1>1, <1>10, <2>1 DEF Confirm
<1>11. ASSUME \/ Launch \/ DriverExits \/ PeerFails \/ Handle \/ EncoderEnds \/ GuestStops
              \/ VerifyLease \/ MonitorBegins \/ MonitorEnds \/ Cancel \/ Abort
              \/ \E r \in Replies : \E d \in {"exact", "wrong"} : Reply(r, d)
              \/ \E l, i \in {Nobody, Ours, Other} : OwnerChanges(l, i)
              \/ UNCHANGED filmVars
       PROVE  Advances
  <2>1. UNCHANGED helper
    BY <1>11 DEF Launch, DriverExits, PeerFails, Handle, EncoderEnds, GuestStops, VerifyLease,
                 MonitorBegins, MonitorEnds, Cancel, Abort, Reply, OwnerChanges, filmVars
  <2> QED
    BY <1>0, <2>1
<1> QED
  BY <1>2, <1>3, <1>4, <1>5, <1>6, <1>7, <1>8, <1>9, <1>10, <1>11 DEF FilmNext, Handshakes

(***************************************************************************)
(* No input without consent.                                               *)
(***************************************************************************)
Supervised ==
  super \in [abort : BOOLEAN, asked : Nat, exact : SUBSET Nat, wrong : SUBSET Nat]

\* What run() counts as replied was replied, so the count may stand for the
\* documents when an input is dispatched.
RepliesInv ==
  /\ Supervised
  /\ 1 .. helper.replies \subseteq super.exact
  /\ inputs \subseteq Nat
  /\ InputIsPermitted

\* An input is dispatched for the action in hand, when its permit is the last
\* reply that was read.
LEMMA DispatchStep ==
  ASSUME FilmAssumption, ShapeInv, [FilmNext]_filmVars, inputs' # inputs
  PROVE  /\ MayDispatch
         /\ inputs' = inputs \cup {helper.action}
         /\ helper.action \in Nat /\ helper.replies = 2 * helper.action
         /\ UNCHANGED <<helper, super>>
<1>1. \/ \E op \in Commands : Spawn(op)
      \/ \E op \in Rpcs : Request(op)
  BY DEF FilmNext, filmVars, CommandEnds, Handshake, Answered, Launch, DriverExits, PeerFails,
         Handle, EncoderEnds, GuestStops, ReadLease, VerifyLease, VerifyInstance, MonitorBegins,
         MonitorEnds, AwaitExit, ReleaseLease, ReleaseInstance, Confirm, Cancel, Abort, Reply,
         OwnerChanges
<1>2. ASSUME helper.phase # "done", Head(helper.todo) \in {"act", "hover"}
      PROVE  helper.action \in Nat /\ helper.replies = 2 * helper.action
  <2>1. helper.phase = "working" /\ helper.stage = "act"
    BY <1>2, HeadPhase DEF ShapeInv, Placed, Run
  <2>2. helper.action \in Nat /\ helper.replies = 2 * helper.action
    BY <2>1 DEF ShapeInv, Progress, Counted, Placed, Run
  <2> QED
    BY <2>1, <2>2
<1>3. ASSUME NEW op \in Commands, Spawn(op)
      PROVE  /\ MayDispatch /\ op = "act" /\ Running(op) /\ UNCHANGED <<helper, super>>
             /\ inputs' = inputs \cup {helper.action}
  BY <1>3 DEF Spawn
<1>4. ASSUME NEW op \in Rpcs, Request(op)
      PROVE  /\ MayDispatch /\ op = "hover" /\ Running(op) /\ UNCHANGED super
             /\ inputs' = inputs \cup {helper.action}
             /\ helper' = [helper EXCEPT !.recording = @ \/ Recording(op, "dispatched")]
  BY <1>4 DEF Request
<1>5. ASSUME NEW op \in Rpcs, Request(op) PROVE UNCHANGED helper
  <2>1. helper' = [helper EXCEPT !.recording = helper.recording]
    BY <1>4, <1>5 DEF Recording, ShapeInv, Placed, Run
  <2> QED
    BY <2>1 DEF ShapeInv, Placed, Run
<1> QED
  BY <1>1, <1>2, <1>3, <1>4, <1>5 DEF Running

\* The supervisor takes nothing back.
LEMMA SupervisedStep ==
  ASSUME FilmAssumption, ShapeInv, Supervised, [FilmNext]_filmVars
  PROVE  Supervised' /\ super.exact \subseteq super'.exact
<1>1. CASE UNCHANGED super
  BY <1>1 DEF Supervised
<1>2. ASSUME NEW asked \in Nat, super' = [super EXCEPT !.asked = asked]
      PROVE  Supervised' /\ super.exact \subseteq super'.exact
  BY <1>2 DEF Supervised
<1>3. ASSUME NEW op \in Commands, Spawn(op)
      PROVE  Supervised' /\ super.exact \subseteq super'.exact
  <2>1. UNCHANGED super \/ super' = [super EXCEPT !.asked = 1]
    BY <1>3 DEF Spawn
  <2> QED
    BY <1>1, <1>2, <2>1
<1>4. ASSUME NEW op \in Rpcs, Request(op)
      PROVE  Supervised' /\ super.exact \subseteq super'.exact
  <2>1. UNCHANGED super \/ super' = [super EXCEPT !.asked = helper.replies + 1]
    BY <1>4 DEF Request
  <2>2. helper.replies + 1 \in Nat
    BY DEF ShapeInv, Placed, Run
  <2> QED
    BY <1>1, <1>2, <2>1, <2>2
<1>5. ASSUME Abort PROVE Supervised' /\ super.exact \subseteq super'.exact
  BY <1>5 DEF Abort, Supervised
<1>6. ASSUME NEW r \in Replies, NEW d \in {"exact", "wrong"}, Reply(r, d)
      PROVE  Supervised' /\ super.exact \subseteq super'.exact
  <2>1. r \in Nat
    BY DEF Replies, FilmAssumption
  <2>2. CASE super' = [super EXCEPT !.exact = @ \cup {r}]
    BY <2>1, <2>2 DEF Supervised
  <2>3. CASE super' = [super EXCEPT !.wrong = @ \cup {r}]
    BY <2>1, <2>3 DEF Supervised
  <2> QED
    BY <1>6, <2>2, <2>3 DEF Reply
<1> QED
  BY <1>1, <1>3, <1>4, <1>5, <1>6
  DEF FilmNext, filmVars, CommandEnds, Handshake, Answered, Launch, DriverExits, PeerFails,
      Handle, EncoderEnds, GuestStops, ReadLease, VerifyLease, VerifyInstance, MonitorBegins,
      MonitorEnds, AwaitExit, ReleaseLease, ReleaseInstance, Confirm, Cancel, OwnerChanges

LEMMA RepliesStep ==
  ASSUME FilmAssumption, ShapeInv, RepliesInv, [FilmNext]_filmVars
  PROVE  RepliesInv'
<1>1. Supervised' /\ super.exact \subseteq super'.exact
  BY SupervisedStep DEF RepliesInv
<1>2. 1 .. helper'.replies \subseteq super'.exact
  <2>1. helper.replies \in Nat
    BY DEF ShapeInv, Placed, Run
  <2>2. \/ helper'.replies = helper.replies
        \/ helper.replies + 1 \in super.exact /\ helper'.replies = helper.replies + 1
    BY AdvancesStep DEF Advances
  <2> QED
    BY <1>1, <2>1, <2>2 DEF RepliesInv
<1>3. CASE UNCHANGED inputs
  BY <1>1, <1>2, <1>3 DEF RepliesInv, InputIsPermitted
<1>4. CASE inputs' # inputs
  <2>1. /\ inputs' = inputs \cup {helper.action} /\ helper.action \in Nat
        /\ helper.replies = 2 * helper.action
    BY <1>4, DispatchStep
  <2>2. 1 .. 2 * helper.action \subseteq super'.exact
    BY <1>1, <2>1 DEF RepliesInv
  <2> QED
    BY <1>1, <1>2, <2>1, <2>2 DEF RepliesInv, InputIsPermitted
<1> QED
  BY <1>3, <1>4

\* InputIsPermitted: whatever the script, an input that was dispatched for
\* action i was dispatched with the first 2i replies given as asked for.
THEOREM PermitTheorem == ASSUME FilmAssumption PROVE FilmSpec => []InputIsPermitted
<1>1. FilmInit => RepliesInv
  BY DEF FilmInit, RepliesInv, Supervised, InputIsPermitted
<1>2. ShapeInv /\ RepliesInv /\ [FilmNext]_filmVars => RepliesInv'
  BY RepliesStep
<1>3. RepliesInv => InputIsPermitted
  BY DEF RepliesInv
<1> QED
  BY <1>1, <1>2, <1>3, Shape, PTL DEF FilmSpec

(***************************************************************************)
(* What the run destroys.                                                  *)
(***************************************************************************)
Guest ==
  exec \in [alive : BOOLEAN, request : Rpcs \cup Handshakes \cup {"none"},
            answer : {"none", "ok", "error"},
            encoder : {"none", "running", "ended", "broken", "finalized", "stopped"}]

\* The recording is known to run() before the recorder hears of it, and the
\* clean-up, the only phase that destroys, is not entered with a recording that
\* was not copied.
SourceInv ==
  /\ Guest
  /\ exec.encoder # "none" \/ exec.request \in {"start", "stop"} => helper.recording
  /\ helper.phase = "cleaning" => helper.copied \/ ~helper.recording
  /\ owner.destroyed # {} => helper.phase # "working" /\ (helper.copied \/ ~helper.recording)

\* What run() pinned it keeps, and nothing else was destroyed.
PinnedInv == Nobody \notin owner.destroyed /\ OnlyPinnedIsDestroyed

LEMMA DestroyStep ==
  ASSUME FilmAssumption, ShapeInv, [FilmNext]_filmVars, owner'.destroyed # owner.destroyed
  PROVE  /\ helper.phase = "cleaning" /\ helper.pinned # Nobody
         /\ owner'.destroyed = owner.destroyed \cup {helper.pinned}
<1>1. ReleaseInstance
  BY DEF FilmNext, filmVars, ShapeInv, OwnerOK, Spawn, Request, CommandEnds, Handshake, Answered, Launch,
         DriverExits, PeerFails, Handle, EncoderEnds, GuestStops, ReadLease, VerifyLease,
         VerifyInstance, MonitorBegins, MonitorEnds, AwaitExit, ReleaseLease, Confirm, Cancel,
         Abort, Reply, OwnerChanges
<1>2. helper.phase # "done" /\ Head(helper.todo) = "release"
  BY <1>1 DEF ReleaseInstance, ShapeInv, AwaitOK
<1>3. helper.phase = "cleaning"
  BY <1>2, HeadPhase DEF ShapeInv, Placed, Run
<1>4. /\ owner.instance # Nobody /\ owner.instance = helper.pinned
      /\ owner'.destroyed = owner.destroyed \cup {owner.instance}
  BY <1>1 DEF ReleaseInstance, Expected, ShapeInv, OwnerOK
<1> QED
  BY <1>3, <1>4

LEMMA PinnedStep ==
  ASSUME FilmAssumption, ShapeInv, PinnedInv, [FilmNext]_filmVars
  PROVE  PinnedInv'
<1>1. helper.pinned # Nobody => helper'.pinned = helper.pinned
  BY AdvancesStep DEF Advances
<1>2. CASE owner'.destroyed = owner.destroyed
  BY <1>1, <1>2 DEF PinnedInv, OnlyPinnedIsDestroyed
<1>3. CASE owner'.destroyed # owner.destroyed
  BY <1>1, <1>3, DestroyStep DEF PinnedInv, OnlyPinnedIsDestroyed
<1> QED
  BY <1>2, <1>3

\* OnlyPinnedIsDestroyed: no number of takeovers and recreations between the
\* checks makes the run destroy an instance other than the one it pinned.
THEOREM PinnedTheorem == ASSUME FilmAssumption PROVE FilmSpec => []OnlyPinnedIsDestroyed
<1>1. FilmInit => PinnedInv
  BY DEF FilmInit, PinnedInv, OnlyPinnedIsDestroyed
<1>2. ShapeInv /\ PinnedInv /\ [FilmNext]_filmVars => PinnedInv'
  BY PinnedStep
<1>3. PinnedInv => OnlyPinnedIsDestroyed
  BY DEF PinnedInv
<1> QED
  BY <1>1, <1>2, <1>3, Shape, PTL DEF FilmSpec

\* The recorder runs only after a request to start it, or to stop it.
LEMMA GuestStep ==
  ASSUME FilmAssumption, ShapeInv, SourceInv, [FilmNext]_filmVars
  PROVE  /\ Guest'
         /\ exec'.encoder # "none" \/ exec'.request \in {"start", "stop"} => helper'.recording
<1> DEFINE Known == exec'.encoder # "none" \/ exec'.request \in {"start", "stop"} => helper'.recording
<1>1. helper.recording => helper'.recording
  BY AdvancesStep DEF Advances
<1>2. ASSUME UNCHANGED exec PROVE Guest' /\ Known
  BY <1>1, <1>2 DEF SourceInv, Guest
<1>3. ASSUME NEW op \in Handshakes, Handshake(op) PROVE Guest' /\ Known
  <2>1. CASE exec' = [exec EXCEPT !.request = op, !.answer = "none"]
    BY <1>1, <2>1 DEF SourceInv, Guest, Handshakes
  <2> QED
    BY <1>2, <1>3, <2>1 DEF Handshake
<1>4. ASSUME NEW op \in Rpcs, Request(op) PROVE Guest' /\ Known
  <2>1. CASE /\ exec' = [exec EXCEPT !.request = op, !.answer = "none"]
             /\ helper' = [helper EXCEPT !.recording = @ \/ Recording(op, "dispatched")]
    <3>1. op = "start" => helper'.recording
      BY <2>1 DEF Recording, ShapeInv, Placed, Run
    <3>2. op = "stop" => helper.recording
      <4>1. helper.phase = "working" /\ Head(helper.todo) = op
        BY <1>4, HeadPhase DEF Request, Running, ShapeInv, Placed, Run, Rpcs
      <4> QED
        BY <4>1, HeadPhase DEF ShapeInv, Progress, Recorded
    <3>3. Guest' /\ exec'.encoder = exec.encoder /\ exec'.request = op
      BY <2>1 DEF SourceInv, Guest
    <3> QED
      BY <1>1, <3>1, <3>2, <3>3 DEF SourceInv
  <2> QED
    BY <1>2, <1>4, <2>1 DEF Request
<1>5. ASSUME NEW op \in Rpcs \cup Handshakes, Answered(op) PROVE Guest' /\ Known
  BY <1>1, <1>5 DEF Answered, SourceInv, Guest
<1>6. ASSUME Handle PROVE Guest' /\ Known
  <2>1. PICK e \in Encoder(exec.request) :
          exec' = [exec EXCEPT !.alive = TRUE, !.request = "none", !.encoder = e[1], !.answer = e[2]]
    BY <1>6 DEF Handle
  <2>2. /\ e[1] \in {"none", "running", "ended", "broken", "finalized", "stopped"}
        /\ e[2] \in {"ok", "error"}
        /\ e[1] = "none" \/ exec.encoder # "none" \/ exec.request \in {"start", "stop"}
    BY <2>1 DEF Encoder, SourceInv, Guest
  <2> QED
    BY <1>1, <2>1, <2>2 DEF SourceInv, Guest
<1>7. ASSUME EncoderEnds PROVE Guest' /\ Known
  BY <1>1, <1>7 DEF EncoderEnds, SourceInv, Guest
<1>8. ASSUME GuestStops PROVE Guest' /\ Known
  BY <1>1, <1>8 DEF GuestStops, SourceInv, Guest
<1> QED
  BY <1>2, <1>3, <1>4, <1>5, <1>6, <1>7, <1>8
  DEF FilmNext, filmVars, Handshakes, Spawn, CommandEnds, Launch, DriverExits, PeerFails, ReadLease,
      VerifyLease, VerifyInstance, MonitorBegins, MonitorEnds, AwaitExit, ReleaseLease,
      ReleaseInstance, Confirm, Cancel, Abort, Reply, OwnerChanges

LEMMA SourceStep ==
  ASSUME FilmAssumption, ShapeInv, SourceInv, [FilmNext]_filmVars
  PROVE  SourceInv'
<1>1. Advances
  BY AdvancesStep
<1>2. Guest' /\ (exec'.encoder # "none" \/ exec'.request \in {"start", "stop"} => helper'.recording)
  BY GuestStep
<1>3. helper'.phase = "cleaning" => helper'.copied \/ ~helper'.recording
  BY <1>1 DEF Advances, Onward, SourceInv
<1>4. owner'.destroyed # {} => helper'.phase # "working" /\ (helper'.copied \/ ~helper'.recording)
  BY <1>1, DestroyStep DEF Advances, Onward, SourceInv
<1> QED
  BY <1>2, <1>3, <1>4 DEF SourceInv

\* SourceIsRetained: in every run, the VM that may hold a recording is destroyed
\* only after the copy was verified.
THEOREM SourceTheorem == ASSUME FilmAssumption PROVE FilmSpec => []SourceIsRetained
<1>1. FilmInit => SourceInv
  BY DEF FilmInit, SourceInv, Guest
<1>2. ShapeInv /\ SourceInv /\ [FilmNext]_filmVars => SourceInv'
  BY SourceStep
<1>3. SourceInv => SourceIsRetained
  BY DEF SourceInv, SourceIsRetained
<1> QED
  BY <1>1, <1>2, <1>3, Shape, PTL DEF FilmSpec
=============================================================================
