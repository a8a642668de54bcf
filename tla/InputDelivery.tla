---------------------------- MODULE InputDelivery ----------------------------
(* How a Live View session delivers input (src/src/session/session.zig):     *)
(* admission under the admission mutex, one drainer that sends outside it,   *)
(* cancellation by epoch, release bursts, the control-request latch, and the *)
(* transport events that revoke all of it.                                   *)
(*                                                                           *)
(* Callers are the threads that offer input or release it (the frontend, and *)
(* the queue that runs the paste-ready callback); Sockets are the threads    *)
(* that carry control messages. Any of them may become the drainer. An action*)
(* is one hold of the mutex or one call out of the program.                  *)
(*                                                                           *)
(* The wire is external: "channel" is the native data channel, "down" what   *)
(* the packets accepted by the open channel have left pressed. What the far  *)
(* end makes of a packet is not modelled.                                    *)
EXTENDS PendingInput

CONSTANTS Callers, Sockets,
          Modifiers,     \* the table of modifier keys setPhysicalKey and syncModifiers batch
          ReadOnly,      \* descriptor.read_only
          MaxSequence,   \* bounds of the model: pushes and cancellations
          MaxEpoch

ASSUME ThreadsAreDisjoint == Callers \cap Sockets = {} /\ None \notin Callers \cup Sockets
ASSUME ModifiersAreKeys == Modifiers \in Seq(Keys)
ASSUME ReadOnlyIsBoolean == ReadOnly \in BOOLEAN

VARIABLES
    dataOpen, authorized, implicit,   \* data_open, authorized, implicit_hosting
    latch,       \* control_requested and control_request_started_ns
    queue, draining, epoch, sequence, inFlight,
    held,        \* held_input
    pc, job,     \* where each thread is, and what it carries there
    channel, news, reconnect,         \* the native transport
    down,        \* items the packets on this channel have left down
    lastSent,    \* history: the sequence of the last event put on the wire
    overtaken,   \* history: held items a late release burst has let go
    refusedUps   \* history: items whose cleanup release the channel refused

gates == <<dataOpen, authorized, implicit>>
input == <<queue, draining, epoch, sequence, inFlight, held>>
wire == <<channel, news, reconnect>>
history == <<down, lastSent, overtaken, refusedUps>>
vars == <<gates, latch, input, pc, job, wire, history>>

Threads == Callers \cup Sockets
NoLatch == [by |-> None, old |-> FALSE]
NoJob == [entry |-> None, outcome |-> None, burst |-> {}]

TypeOK ==
    /\ {dataOpen, authorized, implicit, draining} \subseteq BOOLEAN
    /\ latch \in [by : Threads \cup {None}, old : BOOLEAN]
    /\ queue \in Queue
    /\ Len(queue.entries) <= MaxEvents
    /\ epoch \in Nat /\ sequence \in Nat /\ lastSent \in Nat
    /\ inFlight \in Entry \cup {None}
    /\ held \subseteq Items /\ down \subseteq Items
    /\ overtaken \subseteq Items /\ refusedUps \subseteq Items
    /\ pc \in [Threads -> {"idle", "request", "requestThenDrain", "drain", "send",
                           "commit", "compensate", "release", "burst", "init"}]
    /\ job \in [Threads -> [entry : Entry \cup {None},
                            outcome : {"sent", "failed", "skipped", None},
                            burst : SUBSET Items]]
    /\ channel \in {"none", "open", "closed"}
    /\ news \in {"none", "opened", "closed"}
    /\ reconnect \in {"no", "scheduled", "reset"}

Init ==
    /\ dataOpen = FALSE /\ authorized = FALSE /\ implicit = FALSE
    /\ latch = NoLatch
    /\ queue = EmptyQueue /\ draining = FALSE
    /\ epoch = 0 /\ sequence = 0 /\ inFlight = None /\ held = {}
    /\ pc = [p \in Threads |-> "idle"] /\ job = [p \in Threads |-> NoJob]
    /\ channel = "none" /\ news = "none" /\ reconnect = "no"
    /\ down = {} /\ lastSent = 0 /\ overtaken = {} /\ refusedUps = {}

-----------------------------------------------------------------------------
(* Helpers that run under the mutex.                                         *)

InputRoute ==
    IF ReadOnly \/ ~dataOpen THEN "reject"
    ELSE IF authorized \/ implicit THEN "deliver" ELSE "wait"

Deliverable(auth) == ~ReadOnly /\ dataOpen /\ (auth \/ implicit)

\* Mutant: a claim that does not look at input_draining.
ClaimsWhileDraining(q, auth) == q.entries # <<>> /\ Deliverable(auth)

ClaimsDrainer(q, auth) ==
    /\ ~draining
    /\ q.entries # <<>>
    /\ Deliverable(auth)

\* inputRouteLocked: an unauthorised call first lets the latch and the wait
\* expire, then claims the latch if it is free.
Admission(p) ==
    LET expires == InputRoute = "wait" /\ queue.wait = "old"
        free == latch.by = None \/ latch.old \/ expires
    IN  IF authorized
          THEN [latch |-> latch, queue |-> queue, asks |-> FALSE]
          ELSE [latch |-> IF free THEN [by |-> p, old |-> FALSE] ELSE latch,
                queue |-> IF expires THEN ExpireWait(queue) ELSE queue,
                asks |-> free]

\* desiredInputLocked: held, then in flight, then queued, of this epoch.
Desired(q) ==
    LET Apply(state, entry) ==
          IF entry.epoch = epoch THEN ApplyDesired(state, entry.event) ELSE state
        start == IF inFlight = None THEN held ELSE Apply(held, inFlight)
    IN  FoldLeft(Apply, start, q.entries)

\* Where a call goes after it lets go of the mutex.
Continue(p, asks, drains) ==
    pc' = [pc EXCEPT ![p] =
            IF asks THEN IF drains THEN "requestThenDrain" ELSE "request"
            ELSE IF drains THEN "drain" ELSE "idle"]

\* cancelInputLocked, and takeHeldInputLocked for a caller that will release.
CancelInput ==
    /\ epoch < MaxEpoch
    /\ queue' = Cleared(queue)
    /\ epoch' = epoch + 1

TakeHeld ==
    /\ held' = {}
    /\ overtaken' = {}

TakeHeldToRelease(p) ==
    /\ TakeHeld
    /\ job' = [job EXCEPT ![p].burst = held]
    /\ pc' = [pc EXCEPT ![p] = IF held = {} THEN "idle" ELSE "release"]

-----------------------------------------------------------------------------
(* Calls that offer input.                                                   *)

NextEntry(e) == [sequence |-> sequence + 1, epoch |-> epoch, event |-> e]

\* setKey and setPointerButton refuse what changes nothing or cannot be held.
RefusedByDesired(q, e) ==
    LET desired == Desired(q)
    IN  IsStateChange(e)
        /\ (desired = None \/ ~ChangeNeeded(e, desired) \/ ~CanApply(e, desired))

\* movePointer, setPointerButton, scroll, setKey, paste.
Offer(p, e) ==
    /\ pc[p] = "idle" /\ InputRoute # "reject" /\ sequence < MaxSequence
    /\ LET a == Admission(p)
           pushed == Push(a.queue, NextEntry(e), InputRoute = "wait")
           refused == RefusedByDesired(a.queue, e)
           drains == /\ ~refused /\ Accepted(pushed) /\ InputRoute = "deliver"
                     /\ ClaimsDrainer(pushed.queue, authorized)
       IN  /\ latch' = a.latch
           /\ queue' = IF refused THEN a.queue ELSE pushed.queue
           /\ sequence' = IF refused THEN sequence ELSE sequence + 1
           /\ draining' = (draining \/ drains)
           /\ Continue(p, a.asks, drains)
    /\ UNCHANGED <<gates, epoch, inFlight, held, job, wire, history>>

\* appendModifierTransitions and the target of setPhysicalKey: the changes, one
\* after the other, that are needed. A modifier that cannot be represented is
\* left out; a target that cannot be leaves nothing of its batch.
BatchOf(desired, events) ==
    LET Make(state, e) == IF CanApply(e, state) THEN ApplyChange(e, state) ELSE state
        Before(i) == FoldLeft(Make, desired, SubSeq(events, 1, i - 1))
        needed == {i \in DOMAIN events : ChangeNeeded(events[i], Before(i))}
        made == {i \in needed : CanApply(events[i], Before(i))}
        order == SetToSortSeq(made, <)
    IN IF \E i \in needed \ made : events[i].what \notin Range(Modifiers) THEN <<>>
       ELSE [n \in 1..Cardinality(made) |-> events[order[n]]]

ModifierEvents(wanted) ==
    [i \in DOMAIN Modifiers |->
        [what |-> Modifiers[i], pressed |-> Modifiers[i] \in wanted]]

AppendBatch(q, batch, waiting) ==
    [q EXCEPT !.entries = @ \o [i \in DOMAIN batch |->
                [sequence |-> sequence + i, epoch |-> epoch, event |-> batch[i]]],
              !.wait = IF waiting /\ @ = "none" THEN "fresh" ELSE @]

\* enqueueKeyBatchLocked: all of the batch or none of it.
OfferBatch(p, events) ==
    /\ pc[p] = "idle" /\ InputRoute # "reject" /\ sequence + Len(events) <= MaxSequence
    /\ LET a == Admission(p)
           waiting == InputRoute = "wait"
           desired == Desired(a.queue)
           batch == IF desired = None THEN <<>> ELSE BatchOf(desired, events)
           fits == CanAppend(a.queue, Len(batch), waiting)
           q == IF batch = <<>> THEN a.queue
                ELSE IF fits THEN AppendBatch(a.queue, batch, waiting)
                ELSE IF waiting /\ ~a.queue.aborted THEN AbortWait(a.queue)
                ELSE a.queue
           drains == /\ batch # <<>> /\ fits /\ ~waiting
                     /\ ClaimsDrainer(q, authorized)
       IN  /\ latch' = a.latch
           /\ queue' = q
           /\ sequence' = IF fits THEN sequence + Len(batch) ELSE sequence
           /\ draining' = (draining \/ drains)
           /\ Continue(p, a.asks, drains)
    /\ UNCHANGED <<gates, epoch, inFlight, held, job, wire, history>>

SyncModifiers(p, wanted) == OfferBatch(p, ModifierEvents(wanted))

\* A key-down brings its modifiers first; a key-up syncs them after, when the
\* key that went down is remembered.
SetPhysicalKey(p, k, wanted) ==
    \/ OfferBatch(p, Append(ModifierEvents(wanted), [what |-> k, pressed |-> TRUE]))
    \/ OfferBatch(p, <<[what |-> k, pressed |-> FALSE]>>)
    \/ OfferBatch(p, <<[what |-> k, pressed |-> FALSE]>> \o ModifierEvents(wanted))

-----------------------------------------------------------------------------
(* Asking for control.                                                       *)

\* requestControl
RequestControl(p) ==
    /\ pc[p] = "idle" /\ ~ReadOnly /\ dataOpen /\ ~authorized
    /\ latch.by = None
    /\ latch' = [by |-> p, old |-> FALSE]
    /\ pc' = [pc EXCEPT ![p] = "request"]
    /\ UNCHANGED <<gates, input, job, wire, history>>

\* sendClaimedControlRequest: a failed send gives the latch back, if it is
\* still the one this call claimed.
SendControlRequest(p) ==
    /\ pc[p] \in {"request", "requestThenDrain"}
    /\ pc' = [pc EXCEPT ![p] = IF @ = "request" THEN "idle" ELSE "drain"]
    /\ \/ UNCHANGED latch
       \/ latch' = IF latch.by = p THEN NoLatch ELSE latch
    /\ UNCHANGED <<gates, input, job, wire, history>>

-----------------------------------------------------------------------------
(* The drainer.                                                              *)

\* Mutant: the drainer leaves without giving the ownership up.
StopAndKeepDraining(p) ==
    /\ pc[p] = "drain"
    /\ queue.entries = <<>> \/ ~Deliverable(authorized)
    /\ pc' = [pc EXCEPT ![p] = "idle"]
    /\ UNCHANGED <<gates, latch, input, job, wire, history>>

\* drainInputQueue, top of the loop: stop, drop an entry, or take one out.
StopDraining(p) ==
    /\ pc[p] = "drain"
    /\ queue.entries = <<>> \/ ~Deliverable(authorized)
    /\ draining' = FALSE
    /\ pc' = [pc EXCEPT ![p] = "idle"]
    /\ UNCHANGED <<gates, latch, queue, epoch, sequence, inFlight, held, job, wire, history>>

Unneeded(entry) ==
    \/ entry.epoch # epoch
    \/ IsStateChange(entry.event) /\ ~ChangeNeeded(entry.event, held)

PopEntry(p) ==
    /\ pc[p] = "drain"
    /\ queue.entries # <<>> /\ Deliverable(authorized)
    /\ LET entry == Head(queue.entries)
       IN  /\ queue' = [queue EXCEPT !.entries = Tail(@)]
           /\ IF Unneeded(entry)
                THEN UNCHANGED <<inFlight, pc, job>>
                ELSE /\ inFlight' = IF IsStateChange(entry.event) THEN entry ELSE inFlight
                     /\ pc' = [pc EXCEPT ![p] = "send"]
                     /\ job' = [job EXCEPT ![p].entry = entry]
    /\ UNCHANGED <<gates, latch, draining, epoch, sequence, held, wire, history>>

\* The packet of an event, accepted or refused by the native channel.
Accept(e) ==
    /\ channel = "open"
    /\ down' = IF IsStateChange(e) THEN ApplyChange(e, down) ELSE down
    /\ refusedUps' = refusedUps \ {e.what}

\* Between the mutex holds: look at data_open, then call the native channel.
SendEvent(p) ==
    /\ pc[p] = "send"
    /\ LET entry == job[p].entry
           Outcome(o) == job' = [job EXCEPT ![p].outcome = o]
       IN  \/ /\ ~dataOpen
              /\ Outcome("skipped") /\ UNCHANGED history
           \/ /\ dataOpen
              /\ Outcome("failed") /\ UNCHANGED history
           \/ /\ dataOpen
              /\ Outcome("sent") /\ Accept(entry.event)
              /\ lastSent' = entry.sequence
              /\ UNCHANGED overtaken
    /\ pc' = [pc EXCEPT ![p] = "commit"]
    /\ UNCHANGED <<gates, latch, input, wire>>

\* Mutants of NeedsCompensation: a stale down, or one that found the table full,
\* is not taken back.
KeepsStale(entry, outcome) ==
    /\ outcome = "sent" /\ IsDown(entry.event)
    /\ entry.epoch = epoch /\ ~CanApply(entry.event, held)
KeepsUnrepresented(entry, outcome) ==
    outcome = "sent" /\ IsDown(entry.event) /\ entry.epoch # epoch

\* Back under the mutex: the held set follows what was sent in this epoch, and
\* a down that was sent but is not held has to be taken back.
Commits(entry, outcome) ==
    /\ outcome = "sent" /\ entry.epoch = epoch
    /\ IsStateChange(entry.event) /\ CanApply(entry.event, held)

NeedsCompensation(entry, outcome) ==
    outcome = "sent" /\ IsDown(entry.event) /\ ~Commits(entry, outcome)

Commit(p) ==
    /\ pc[p] = "commit"
    /\ LET entry == job[p].entry
           e == entry.event
           commits == Commits(entry, job[p].outcome)
       IN  /\ inFlight' = IF IsStateChange(e) THEN None ELSE inFlight
           /\ held' = IF commits THEN ApplyChange(e, held) ELSE held
           /\ overtaken' = IF commits /\ ~e.pressed THEN overtaken \ {e.what} ELSE overtaken
           /\ IF NeedsCompensation(entry, job[p].outcome)
                THEN pc' = [pc EXCEPT ![p] = "compensate"] /\ UNCHANGED job
                ELSE pc' = [pc EXCEPT ![p] = "drain"] /\ job' = [job EXCEPT ![p] = NoJob]
    /\ UNCHANGED <<gates, latch, queue, draining, epoch, sequence, wire,
                   down, lastSent, refusedUps>>

-----------------------------------------------------------------------------
(* Cleanup releases: best effort, outside the mutex.                         *)

Up(item) == [what |-> item, pressed |-> FALSE]

\* One up packet. When the item is held again, or its down is already on the
\* wire and about to be, the late up leaves it held here and up out there.
HeldOnWire(item) ==
    \/ item \in held
    \/ \E p \in Threads :
          /\ pc[p] = "commit" /\ job[p].outcome = "sent" /\ job[p].entry.epoch = epoch
          /\ IsDown(job[p].entry.event) /\ job[p].entry.event.what = item

SendUp(item) ==
    /\ UNCHANGED lastSent
    /\ \/ /\ Accept(Up(item))
          /\ overtaken' = IF HeldOnWire(item) THEN overtaken \cup {item} ELSE overtaken
       \/ /\ refusedUps' = IF channel = "open" THEN refusedUps \cup {item} ELSE refusedUps
          /\ UNCHANGED <<down, overtaken>>

\* sendCompensatingRelease
Compensate(p) ==
    /\ pc[p] = "compensate"
    /\ IF dataOpen THEN SendUp(job[p].entry.event.what) ELSE UNCHANGED history
    /\ pc' = [pc EXCEPT ![p] = "drain"]
    /\ job' = [job EXCEPT ![p] = NoJob]
    /\ UNCHANGED <<gates, latch, input, wire>>

\* sendHeldInputReleases looks at data_open once, then sends every up.
StartReleases(p) ==
    /\ pc[p] = "release"
    /\ IF dataOpen
         THEN pc' = [pc EXCEPT ![p] = "burst"] /\ UNCHANGED job
         ELSE pc' = [pc EXCEPT ![p] = "idle"] /\ job' = [job EXCEPT ![p] = NoJob]
    /\ UNCHANGED <<gates, latch, input, wire, history>>

SendRelease(p) ==
    /\ pc[p] = "burst"
    /\ \E item \in job[p].burst :
          /\ SendUp(item)
          /\ job' = [job EXCEPT ![p].burst = @ \ {item}]
          /\ pc' = IF job[p].burst = {item} THEN [pc EXCEPT ![p] = "idle"] ELSE pc
    /\ UNCHANGED <<gates, latch, input, wire>>

\* releaseHeldInput: blur, focus loss, picker, target change.
ReleaseHeldInput(p) ==
    /\ pc[p] = "idle"
    /\ CancelInput /\ TakeHeldToRelease(p)
    /\ UNCHANGED <<gates, latch, draining, sequence, inFlight, wire, down, lastSent, refusedUps>>

\* releaseControl
ReleaseControl(p) ==
    /\ pc[p] = "idle" /\ ~ReadOnly
    /\ CancelInput /\ TakeHeldToRelease(p)
    /\ authorized' = FALSE
    /\ latch' = NoLatch
    /\ UNCHANGED <<dataOpen, implicit, draining, sequence, inFlight, wire,
                   down, lastSent, refusedUps>>

-----------------------------------------------------------------------------
(* Control messages.                                                         *)

\* system_init announces implicit hosting before it applies the host.
SystemInit(s) ==
    /\ pc[s] = "idle"
    /\ implicit' \in BOOLEAN
    /\ pc' = [pc EXCEPT ![s] = "init"]
    /\ UNCHANGED <<dataOpen, authorized, latch, input, job, wire, history>>

\* applyControlHost when this session is the host: what waited is delivered.
BecomeHost(s) ==
    /\ pc[s] \in {"idle", "init"} /\ ~ReadOnly
    /\ authorized' = TRUE
    /\ latch' = NoLatch
    /\ LET q == FinishWait(ExpireWait(queue))
       IN  /\ queue' = q
           /\ draining' = (draining \/ ClaimsDrainer(q, TRUE))
           /\ pc' = [pc EXCEPT ![s] = IF ClaimsDrainer(q, TRUE) THEN "drain" ELSE "idle"]
    /\ UNCHANGED <<dataOpen, implicit, epoch, sequence, inFlight, held, job, wire, history>>

\* applyControlHost when it is not, and applyControlRelease.
LoseControl(s) ==
    /\ pc[s] \in {"idle", "init"}
    /\ authorized' = FALSE
    /\ latch' = NoLatch
    /\ CancelInput /\ TakeHeldToRelease(s)
    /\ UNCHANGED <<dataOpen, implicit, draining, sequence, inFlight, wire,
                   down, lastSent, refusedUps>>

\* applyLegacyControlError
RefuseControl(s) ==
    /\ pc[s] = "idle" /\ latch.by # None /\ ~authorized
    /\ latch' = NoLatch
    /\ CancelInput /\ TakeHeldToRelease(s)
    /\ UNCHANGED <<gates, draining, sequence, inFlight, wire, down, lastSent, refusedUps>>

-----------------------------------------------------------------------------
(* The transport. Its callbacks take the mutex for one section each.         *)

\* invalidateTransportState: nothing is sent, the held set is forgotten.
Invalidate ==
    /\ dataOpen' = FALSE /\ authorized' = FALSE /\ implicit' = FALSE
    /\ latch' = NoLatch
    /\ CancelInput /\ TakeHeld
    /\ UNCHANGED <<draining, sequence, inFlight, pc, job, down, lastSent, refusedUps>>

\* peer_disconnected, system_disconnect, signal_close and on_error leave the
\* native channel as it is.
LoseTransport == Invalidate /\ UNCHANGED wire

\* ws_closed and peer_failed: scheduleReconnect.
ScheduleReconnect ==
    /\ reconnect = "no" /\ reconnect' = "scheduled"
    /\ Invalidate
    /\ UNCHANGED <<channel, news>>

\* reconnect_ready, after resetTransport has detached the old channels.
ReconnectReady ==
    /\ reconnect = "reset" /\ reconnect' = "no"
    /\ Invalidate
    /\ UNCHANGED <<channel, news>>

\* data_open is stored without the mutex; data_closed invalidates.
DataOpened ==
    /\ news = "opened" /\ news' = "none"
    /\ dataOpen' = TRUE
    /\ UNCHANGED <<authorized, implicit, latch, input, pc, job, channel, reconnect, history>>

DataClosed ==
    /\ news = "closed" /\ news' = "none"
    /\ Invalidate
    /\ UNCHANGED <<channel, reconnect>>

\* The native side: a new peer's channel opens, dies, is reset.
OpenChannel ==
    /\ channel = "none" /\ reconnect = "no"
    /\ channel' = "open" /\ news' = "opened"
    /\ UNCHANGED <<gates, latch, input, pc, job, reconnect, history>>

CloseChannel ==
    /\ channel = "open" /\ channel' = "closed" /\ news' = "closed"
    /\ down' = {} /\ refusedUps' = {}
    /\ UNCHANGED <<gates, latch, input, pc, job, reconnect, lastSent, overtaken>>

ResetTransport ==
    /\ reconnect = "scheduled" /\ reconnect' = "reset"
    /\ channel' = "none" /\ news' = "none"
    /\ down' = {} /\ refusedUps' = {}
    /\ UNCHANGED <<gates, latch, input, pc, job, lastSent, overtaken>>

\* Two seconds pass since the latch was claimed, or since the wait began.
Age ==
    /\ \/ /\ latch.by # None /\ ~latch.old
          /\ latch' = [latch EXCEPT !.old = TRUE] /\ UNCHANGED queue
       \/ /\ queue.wait = "fresh"
          /\ queue' = [queue EXCEPT !.wait = "old"] /\ UNCHANGED latch
    /\ UNCHANGED <<gates, draining, epoch, sequence, inFlight, held, pc, job, wire, history>>

-----------------------------------------------------------------------------

Transport ==
    \/ LoseTransport \/ ScheduleReconnect \/ ReconnectReady \/ DataOpened \/ DataClosed
    \/ OpenChannel \/ CloseChannel \/ ResetTransport \/ Age

Call(p) ==
    \/ \E e \in Event : Offer(p, e)
    \/ \E wanted \in SUBSET Range(Modifiers) :
          \/ SyncModifiers(p, wanted)
          \/ \E k \in Keys \ Range(Modifiers) : SetPhysicalKey(p, k, wanted)
    \/ RequestControl(p) \/ ReleaseHeldInput(p) \/ ReleaseControl(p)

Message(s) ==
    \/ SystemInit(s) \/ RefuseControl(s)
    \/ pc[s] = "idle" /\ (BecomeHost(s) \/ LoseControl(s))

\* What a thread does once it has begun.
Proceed(p) ==
    \/ SendControlRequest(p) \/ StopDraining(p) \/ PopEntry(p) \/ SendEvent(p)
    \/ Commit(p) \/ Compensate(p) \/ StartReleases(p) \/ SendRelease(p)
    \/ pc[p] = "init" /\ (BecomeHost(p) \/ LoseControl(p))

Next ==
    \/ \E p \in Callers : Call(p)
    \/ \E s \in Sockets : Message(s)
    \/ \E p \in Threads : Proceed(p)
    \/ Transport

Spec == Init /\ [][Next]_vars /\ \A p \in Threads : WF_vars(Proceed(p))
-----------------------------------------------------------------------------
(* What delivery promises.                                                   *)

\* Events reach the wire in the order they were admitted, whichever threads
\* offered them and whichever thread drains: "one drainer preserves FIFO order
\* across frontend and native callback threads" (docs/architecture.md).
SendsInOrder == [][lastSent' >= lastSent]_lastSent

\* Input that can be delivered always has a thread at work on it, although
\* pushers, the drainer, cancellers and the host message decide that in
\* separate holds of the mutex (claimInputDrainerLocked, drainInputQueue,
\* applyControlHost). The one gap is inside system_init, which stores
\* implicit_hosting before it takes the mutex.
Drains(p) == pc[p] \in {"requestThenDrain", "drain", "send", "commit", "compensate"}

NoLostWakeup ==
    queue.entries # <<>> /\ Deliverable(authorized)
        => \E p \in Threads : Drains(p) \/ pc[p] = "init"

Quiet ==
    \A p \in Threads : pc[p] \notin {"send", "commit", "compensate", "release", "burst"}

\* No key stays down behind the user's back: once no packet is on its way, what
\* the packets have left down is held here, so a later release reaches it. The
\* exception is a cleanup release the open channel refused, which nobody
\* repeats ("one best-effort up").
NoStuckInput ==
    dataOpen /\ channel = "open" /\ Quiet => down \subseteq held \cup refusedUps

\* And what is held here is down there, but for an item whose late release
\* overtook its new down, the divergence docs/architecture.md describes.
HeldIsDown ==
    dataOpen /\ channel = "open" /\ Quiet => held \ overtaken \subseteq down

\* Each admitted event that can be delivered leaves the queue, or the session
\* loses the right or the channel to deliver it.
Waits(n) == \E i \in DOMAIN queue.entries : queue.entries[i].sequence = n

EventsLeaveTheQueue ==
    \A n \in 1..MaxSequence :
        Waits(n) /\ Deliverable(authorized) ~> ~Waits(n) \/ ~Deliverable(authorized)
=============================================================================
