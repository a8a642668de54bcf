-------------------------- MODULE SessionLifecycle --------------------------
(***************************************************************************)
(* The life of one Live View connection: the Session of session.zig and    *)
(* the KLNativeSession of native_bridge.mm it owns.  The host's thread     *)
(* connects, closes and destroys; URLSession and WebRTC call back on       *)
(* threads of their own; a reconnect block resets the transport and        *)
(* starts the next one.                                                    *)
(*                                                                         *)
(* Every thread runs the list of steps todo[t], one shared access per      *)
(* action.  A callback is a list Callback[c]; pending[t] are the callbacks *)
(* its bridge function has decided to make and that have not passed        *)
(* beginCallback.  The callbacks made inside @synchronized run on the      *)
(* thread "monitor": the monitor is held while that thread has anything    *)
(* left.  The others run on Workers, without it, and may outlive the       *)
(* transport they were made for: lifeJob[w] is "old" from then on.         *)
(***************************************************************************)
EXTENDS Naturals, Sequences

CONSTANT Workers        \* threads of completion handlers

ASSUME LifeAssumption == Workers \cap {"main", "monitor", "block", "video"} = {}

VARIABLES
  lifecycle,            \* Session.lifecycle
  closed,               \* Session.closed
  scheduled,            \* Session.reconnect_scheduled
  lifeData,             \* Session.data_open
  cursor,               \* an observation in Session.cursor
  connectCalled,        \* AbiSession.connect_called
  closing,              \* KLNativeSession.closing
  enabled,              \* callbacksEnabled
  sink,                 \* frameSink.enabled
  nativeScheduled,      \* reconnectScheduled
  block,                \* the reconnect block: none, queued or waiting
  resetting,            \* transportResetting
  token,                \* an authToken is known
  destroyed,            \* kl_native_destroy has returned
  login,                \* loginTask: none, sent, or answered with a token
  ws,                   \* webSocket: none, opening, open or dead
  stream,               \* the stream: none, requested or provided
  peer,                 \* peer and its ICE state
  lifeChannel,          \* outboundDataChannel and its state
  pending, todo, lifeJob

zigVars == <<lifecycle, closed, scheduled, lifeData, cursor, connectCalled>>
nativeVars == <<closing, enabled, sink, nativeScheduled, block, resetting,
                token, destroyed>>
linkVars == <<login, ws, stream, peer, lifeChannel>>
lifeVars == <<zigVars, nativeVars, linkVars, pending, todo, lifeJob>>

LifeThreads == {"main", "monitor", "block", "video"} \cup Workers

States == {"idle", "connecting", "connected", "reconnecting", "closed", "failed"}

\* scheduleReconnect
Reconnect == <<<<"stopIfClosed">>, <<"schedule">>, <<"invalidate">>,
               <<"set", "reconnecting">>, <<"nativeSchedule">>>>

Fail == <<<<"invalidate">>, <<"set", "failed">>>>

Connecting == <<<<"set", "connecting">>, <<"connect">>>>

\* peer_disconnected
Interrupted == <<<<"invalidate">>, <<"set", "reconnecting">>>>

\* reconnect_ready
Ready == <<<<"invalidate">>, <<"clear">>, <<"stopIfClosed">>>> \o Connecting

\* What each callback into Zig does, access by access.
Callback ==
  [ws_open |-> <<<<"request">>>>,
   ws_closed |-> Reconnect,
   peer_failed |-> Reconnect,
   peer_connected |-> <<<<"set", "connected">>>>,
   peer_disconnected |-> Interrupted,
   data_open |-> <<<<"openData">>>>,
   data_closed |-> <<<<"invalidate">>>>,
   data_message |-> <<<<"observe">>>>,
   reconnect_ready |-> Ready,
   error |-> Fail,
   provide |-> <<<<"current">>, <<"createPeer">>, <<"setRemote">>>>,
   offer |-> <<<<"current">>, <<"setRemote">>>>,
   disconnect |-> <<<<"current">>>> \o Fail,
   frame |-> <<<<"deliver">>>>]

Reset == <<<<"beginReset">>, <<"detach">>, <<"endReset">>>>

\* Mutant of CloseSteps: the callbacks in flight are not waited for.
CloseStepsUndrained == <<<<"invalidate">>, <<"store", "closed">>, <<"nativeClosing">>,
                         <<"disable">>>> \o Reset

\* close after its swap of closed
CloseSteps == <<<<"invalidate">>, <<"store", "closed">>, <<"nativeClosing">>,
                <<"disable">>, <<"drain">>>> \o Reset

Steps == {<<"stopIfClosed">>, <<"schedule">>, <<"invalidate">>, <<"nativeSchedule">>,
          <<"connect">>, <<"request">>, <<"openData">>, <<"observe">>, <<"clear">>,
          <<"current">>, <<"createPeer">>, <<"setRemote">>, <<"deliver">>,
          <<"nativeClosing">>, <<"disable">>, <<"drain">>, <<"beginReset">>,
          <<"detach">>, <<"endReset">>, <<"destroy">>}
         \cup ({"set", "store"} \X States)

LifeInit ==
  /\ lifecycle = "idle"
  /\ closed = FALSE /\ scheduled = FALSE
  /\ lifeData = FALSE /\ cursor = FALSE /\ connectCalled = FALSE
  /\ closing = FALSE /\ enabled = TRUE /\ sink = TRUE
  /\ nativeScheduled = FALSE /\ block = "none" /\ resetting = FALSE
  /\ token = FALSE /\ destroyed = FALSE
  /\ login = "none" /\ ws = "none" /\ stream = "none"
  /\ peer = "none" /\ lifeChannel = "none"
  /\ pending = [t \in LifeThreads |-> <<>>]
  /\ todo = [t \in LifeThreads |-> <<>>]
  /\ lifeJob = [w \in Workers |-> "none"]

-----------------------------------------------------------------------------
(* Threads.                                                                 *)

Idle(t) == pending[t] = <<>> /\ todo[t] = <<>>

\* @synchronized is re-entrant.
MonitorFor(t) == t = "monitor" \/ Idle("monitor")

\* The delegate queue of a URLSession is serial.
QueueFree == \A w \in Workers : lifeJob[w] # "net"

InFlight == \E t \in {"monitor"} \cup Workers : todo[t] # <<>>

\* The bridge functions that enter @synchronized(self).
UnderMonitor == {"nativeSchedule", "connect", "request", "current", "createPeer",
                 "setRemote", "nativeClosing", "detach"}

\* What the next step of thread t waits for: the monitor, the callbacks in
\* flight, the reset of another thread, or the sink's lock, which is held
\* through a frame's callback.
Blocked(t) ==
  LET step == Head(todo[t])[1]
  IN \/ step \in UnderMonitor /\ ~MonitorFor(t)
     \/ step \in {"drain", "destroy"} /\ InFlight
     \/ step = "beginReset" /\ resetting
     \/ step = "endReset" /\ todo["video"] # <<>>

At(t, step) == todo[t] # <<>> /\ Head(todo[t])[1] = step /\ ~Blocked(t)

JobAfter(t, rest, later) ==
  IF t \in Workers /\ rest = <<>> /\ later = <<>>
  THEN [lifeJob EXCEPT ![t] = "none"] ELSE lifeJob

\* Thread t has `rest' left of its present call.
Goto(t, rest) ==
  /\ todo' = [todo EXCEPT ![t] = rest]
  /\ lifeJob' = JobAfter(t, rest, pending[t])
  /\ UNCHANGED pending

GoOn(t) == Goto(t, Tail(todo[t]))

\* The bridge decides on these callbacks.
Decide(t, callbacks) ==
  /\ Idle(t)
  /\ pending' = [pending EXCEPT ![t] = callbacks]
  /\ UNCHANGED todo

CallOn(w, callbacks, of) ==
  /\ Decide(w, callbacks)
  /\ lifeJob' = [lifeJob EXCEPT ![w] = of]

Monitored(callbacks) ==
  /\ ~closing
  /\ Decide("monitor", callbacks)
  /\ UNCHANGED lifeJob

\* beginCallback
Begin(t) ==
  /\ pending[t] # <<>> /\ todo[t] = <<>>
  /\ LET ops == IF enabled THEN Callback[Head(pending[t])] ELSE <<>>
         later == Tail(pending[t])
     IN /\ todo' = [todo EXCEPT ![t] = ops]
        /\ pending' = [pending EXCEPT ![t] = later]
        /\ lifeJob' = JobAfter(t, ops, later)
  /\ UNCHANGED <<zigVars, nativeVars, linkVars>>

-----------------------------------------------------------------------------
(* The steps of the Zig session.                                            *)

InvalidateTransport(t) ==
  /\ At(t, "invalidate")
  /\ lifeData' = FALSE /\ cursor' = FALSE
  /\ GoOn(t)
  /\ UNCHANGED <<lifecycle, closed, scheduled, connectCalled, nativeVars, linkVars>>

\* setLifecycle reads closed ...
SetLifecycle(t) ==
  /\ At(t, "set")
  /\ Goto(t, IF closed THEN Tail(todo[t])
             ELSE <<<<"store", Head(todo[t])[2]>>>> \o Tail(todo[t]))
  /\ UNCHANGED <<zigVars, nativeVars, linkVars>>

\* ... and stores.
StoreLifecycle(t) ==
  /\ At(t, "store")
  /\ lifecycle' = Head(todo[t])[2]
  /\ GoOn(t)
  /\ UNCHANGED <<closed, scheduled, lifeData, cursor, connectCalled, nativeVars, linkVars>>

StopIfClosed(t) ==
  /\ At(t, "stopIfClosed")
  /\ Goto(t, IF closed THEN <<>> ELSE Tail(todo[t]))
  /\ UNCHANGED <<zigVars, nativeVars, linkVars>>

Schedule(t) ==
  /\ At(t, "schedule")
  /\ scheduled' = TRUE
  /\ Goto(t, IF scheduled THEN <<>> ELSE Tail(todo[t]))
  /\ UNCHANGED <<lifecycle, closed, lifeData, cursor, connectCalled, nativeVars, linkVars>>

ClearScheduled(t) ==
  /\ At(t, "clear")
  /\ scheduled' = FALSE
  /\ GoOn(t)
  /\ UNCHANGED <<lifecycle, closed, lifeData, cursor, connectCalled, nativeVars, linkVars>>

OpenData(t) ==
  /\ At(t, "openData")
  /\ lifeData' = TRUE
  /\ GoOn(t)
  /\ UNCHANGED <<lifecycle, closed, scheduled, cursor, connectCalled, nativeVars, linkVars>>

Observe(t) ==
  /\ At(t, "observe")
  /\ cursor' = TRUE
  /\ GoOn(t)
  /\ UNCHANGED <<lifecycle, closed, scheduled, lifeData, connectCalled, nativeVars, linkVars>>

Deliver(t) ==
  /\ At(t, "deliver")
  /\ GoOn(t)
  /\ UNCHANGED <<zigVars, nativeVars, linkVars>>

-----------------------------------------------------------------------------
(* The bridge functions Zig calls.                                          *)

NativeSchedule(t) ==
  /\ At(t, "nativeSchedule")
  /\ IF closing \/ nativeScheduled THEN UNCHANGED <<nativeScheduled, block>>
     ELSE nativeScheduled' = TRUE /\ block' = "queued"
  /\ GoOn(t)
  /\ UNCHANGED <<zigVars, closing, enabled, sink, resetting, token, destroyed, linkVars>>

\* connectBaseURL: a known token is used again.
NativeConnect(t) ==
  /\ At(t, "connect")
  /\ CASE closing -> UNCHANGED <<login, ws>>
       [] ~closing /\ token -> ws' = "opening" /\ UNCHANGED login
       [] OTHER -> login' = "sent" /\ UNCHANGED ws
  /\ GoOn(t)
  /\ UNCHANGED <<zigVars, nativeVars, stream, peer, lifeChannel>>

\* requestPointerlessStream: sendWebSocketBytes
Request(t) ==
  /\ At(t, "request")
  /\ stream' = IF ws = "open" /\ ~closing THEN "requested" ELSE stream
  /\ GoOn(t)
  /\ UNCHANGED <<zigVars, nativeVars, login, ws, peer, lifeChannel>>

\* receiveNextMessage asks again, inside its callback, whose socket this is.
StillCurrent(t) ==
  /\ At(t, "current")
  /\ Goto(t, IF lifeJob[t] = "net" /\ ~closing THEN Tail(todo[t]) ELSE <<>>)
  /\ UNCHANGED <<zigVars, nativeVars, linkVars>>

CanAdopt == ~resetting /\ ~closing /\ peer = "none"

CreatePeer(t) ==
  /\ At(t, "createPeer")
  /\ IF CanAdopt THEN peer' = "new" /\ lifeChannel' = "connecting"
                 ELSE UNCHANGED <<peer, lifeChannel>>
  /\ GoOn(t)
  /\ UNCHANGED <<zigVars, nativeVars, login, ws, stream>>

SetRemote(t) ==
  /\ At(t, "setRemote")
  /\ peer' = IF peer = "new" /\ ~closing THEN "checking" ELSE peer
  /\ IF peer = "none" /\ ~closing /\ enabled THEN Goto(t, Callback.error)
                                             ELSE GoOn(t)
  /\ UNCHANGED <<zigVars, nativeVars, login, ws, stream, lifeChannel>>

-----------------------------------------------------------------------------
(* closeNative, resetTransport and kl_native_destroy.                       *)

NativeClosing(t) ==
  /\ At(t, "nativeClosing")
  /\ closing' = TRUE /\ token' = FALSE
  /\ GoOn(t)
  /\ UNCHANGED <<zigVars, enabled, sink, nativeScheduled, block, resetting, destroyed, linkVars>>

Disable(t) ==
  /\ At(t, "disable")
  /\ enabled' = FALSE
  /\ GoOn(t)
  /\ UNCHANGED <<zigVars, closing, sink, nativeScheduled, block, resetting, token,
                 destroyed, linkVars>>

Drain(t) ==
  /\ At(t, "drain")
  /\ GoOn(t)
  /\ UNCHANGED <<zigVars, nativeVars, linkVars>>

BeginReset(t) ==
  /\ At(t, "beginReset")
  /\ resetting' = TRUE
  /\ GoOn(t)
  /\ UNCHANGED <<zigVars, closing, enabled, sink, nativeScheduled, block, token,
                 destroyed, linkVars>>

\* The transport's objects leave the session together, under the monitor.
Detach(t) ==
  /\ At(t, "detach")
  /\ login' = "none" /\ ws' = "none" /\ stream' = "none"
  /\ peer' = "none" /\ lifeChannel' = "none"
  /\ todo' = [todo EXCEPT ![t] = Tail(@)]
  /\ lifeJob' = [w \in Workers |-> IF lifeJob[w] = "none" THEN "none" ELSE "old"]
  /\ UNCHANGED <<zigVars, nativeVars, pending>>

\* Mutant of ResetDone: the next reset waits for ever.
ResetNotDone == UNCHANGED resetting

ResetDone == resetting' = FALSE

EndReset(t) ==
  /\ At(t, "endReset")
  /\ sink' = FALSE
  /\ ResetDone
  /\ GoOn(t)
  /\ UNCHANGED <<zigVars, closing, enabled, nativeScheduled, block, token, destroyed, linkVars>>

Destroy(t) ==
  /\ At(t, "destroy")
  /\ destroyed' = TRUE
  /\ GoOn(t)
  /\ UNCHANGED <<zigVars, closing, enabled, sink, nativeScheduled, block, resetting,
                 token, linkVars>>

-----------------------------------------------------------------------------
(* The reconnect block, on its queue.                                       *)

BlockStarts ==
  /\ block = "queued" /\ MonitorFor("block")
  /\ block' = IF closing THEN "none" ELSE "waiting"
  /\ todo' = IF closing THEN todo ELSE [todo EXCEPT !["block"] = Reset]
  /\ UNCHANGED <<zigVars, closing, enabled, sink, nativeScheduled, resetting, token,
                 destroyed, linkVars, pending, lifeJob>>

\* Mutant of BlockDone: the next request finds the old one.
BlockStillScheduled == UNCHANGED nativeScheduled

BlockDone == nativeScheduled' = FALSE

\* dispatch_after: the callback is made under the monitor.
BlockFires ==
  /\ block = "waiting" /\ todo["block"] = <<>> /\ Idle("monitor")
  /\ block' = "none"
  /\ IF closing THEN UNCHANGED <<nativeScheduled, sink, pending, todo, lifeJob>>
     ELSE /\ BlockDone
          /\ todo["video"] = <<>> /\ sink' = TRUE
          /\ Monitored(<<"reconnect_ready">>)
  /\ UNCHANGED <<zigVars, closing, enabled, resetting, token, destroyed, linkVars>>

-----------------------------------------------------------------------------
(* What the network does, and the delegate that hears of it.                *)

\* The answer to the login request of the present transport.
LoginAnswered(w) ==
  /\ login = "sent" /\ ~closing /\ QueueFree /\ MonitorFor(w)
  /\ \/ /\ login' = "answered" /\ token' = TRUE
        /\ UNCHANGED <<pending, todo, lifeJob>>
     \/ /\ login' = "none" /\ UNCHANGED token
        /\ CallOn(w, <<"error">>, "net")
  /\ UNCHANGED <<zigVars, closing, enabled, sink, nativeScheduled, block, resetting,
                 destroyed, ws, stream, peer, lifeChannel>>

\* openWebSocketForBaseURL after the login
OpenWebSocket ==
  /\ login = "answered" /\ ~closing /\ Idle("monitor")
  /\ login' = "none" /\ ws' = "opening"
  /\ UNCHANGED <<zigVars, nativeVars, stream, peer, lifeChannel, pending, todo, lifeJob>>

WsOpens ==
  /\ ws = "opening" /\ QueueFree
  /\ ws' = "open"
  /\ Monitored(<<"ws_open">>)
  /\ UNCHANGED <<zigVars, nativeVars, login, stream, peer, lifeChannel>>

\* didCloseWithCode and didCompleteWithError
WsCloses ==
  /\ ws # "none" /\ QueueFree
  /\ ws' = "dead"
  /\ Monitored(<<"ws_closed">>)
  /\ UNCHANGED <<zigVars, nativeVars, login, stream, peer, lifeChannel>>

\* A message of the server: one stream is provided for each request.
Receive(w) ==
  /\ ws = "open" /\ ~closing /\ QueueFree /\ MonitorFor(w)
  /\ \/ stream = "requested" /\ stream' = "provided" /\ CallOn(w, <<"provide">>, "net")
     \/ stream = "provided" /\ UNCHANGED stream /\ CallOn(w, <<"offer">>, "net")
     \/ UNCHANGED stream /\ CallOn(w, <<"disconnect">>, "net")
  /\ UNCHANGED <<zigVars, nativeVars, login, ws, peer, lifeChannel>>

\* A receive or a send completes with an error.
SocketFails(w) ==
  /\ ws # "none" /\ ~closing /\ QueueFree /\ MonitorFor(w)
  /\ ws' = "dead"
  /\ CallOn(w, <<"error", "ws_closed">>, "net")
  /\ UNCHANGED <<zigVars, nativeVars, login, stream, peer, lifeChannel>>

\* setRemoteDescription, answerForConstraints or addIceCandidate fails.
NegotiationFails(w) ==
  /\ peer \notin {"none", "new"} /\ ~closing /\ MonitorFor(w)
  /\ CallOn(w, <<"error">>, "rtc")
  /\ UNCHANGED <<zigVars, nativeVars, linkVars>>

PeerConnects ==
  /\ peer \in {"checking", "connected", "disconnected"}
  /\ peer' = "connected"
  /\ Monitored(<<"peer_connected">>)
  /\ UNCHANGED <<zigVars, nativeVars, login, ws, stream, lifeChannel>>

PeerDisconnects ==
  /\ peer = "connected"
  /\ peer' = "disconnected"
  /\ Monitored(<<"peer_disconnected">>)
  /\ UNCHANGED <<zigVars, nativeVars, login, ws, stream, lifeChannel>>

PeerFails ==
  /\ peer \in {"checking", "connected", "disconnected"}
  /\ peer' = "failed"
  /\ Monitored(<<"peer_failed">>)
  /\ UNCHANGED <<zigVars, nativeVars, login, ws, stream, lifeChannel>>

\* dataChannelDidChangeState does not look at closing.
ChannelChanges(from, to, callback) ==
  /\ lifeChannel = from
  /\ lifeChannel' = to
  /\ Decide("monitor", <<callback>>)
  /\ UNCHANGED <<zigVars, nativeVars, login, ws, stream, peer, lifeJob>>

ChannelOpens == peer = "connected" /\ ChannelChanges("connecting", "open", "data_open")
ChannelCloses == ChannelChanges("open", "closed", "data_closed")

DataMessage ==
  /\ lifeChannel = "open"
  /\ Monitored(<<"data_message">>)
  /\ UNCHANGED <<zigVars, nativeVars, linkVars>>

\* renderFrame takes the sink's lock and looks whether it is enabled.  The
\* renderer leaves the track in the course of a reset; a frame that is done
\* before a reset begins changes nothing here and is left out.
FrameDecoded ==
  /\ resetting
  /\ todo["video"] = <<>> /\ sink
  /\ todo' = [todo EXCEPT !["video"] = Callback.frame]
  /\ UNCHANGED <<zigVars, nativeVars, linkVars, pending, lifeJob>>

-----------------------------------------------------------------------------
(* The host.                                                                *)

Host(steps) ==
  /\ ~destroyed /\ todo["main"] = <<>>
  /\ todo' = [todo EXCEPT !["main"] = steps]
  /\ UNCHANGED <<lifecycle, scheduled, lifeData, cursor, nativeVars, linkVars, pending, lifeJob>>

Connect ==
  /\ ~closed /\ ~connectCalled
  /\ connectCalled' = TRUE
  /\ Host(Connecting)
  /\ UNCHANGED closed

Close ==
  /\ ~closed
  /\ closed' = TRUE
  /\ Host(CloseSteps)
  /\ UNCHANGED connectCalled

\* deinit closes first: Close, if nobody did.
Deinit ==
  /\ closed
  /\ Host(<<<<"destroy">>>>)
  /\ UNCHANGED <<closed, connectCalled>>

-----------------------------------------------------------------------------

ZigStep(t) ==
  \/ InvalidateTransport(t) \/ SetLifecycle(t) \/ StoreLifecycle(t) \/ StopIfClosed(t)
  \/ Schedule(t) \/ ClearScheduled(t) \/ OpenData(t) \/ Observe(t) \/ Deliver(t)

BridgeStep(t) ==
  \/ NativeSchedule(t) \/ NativeConnect(t) \/ Request(t) \/ StillCurrent(t)
  \/ CreatePeer(t) \/ SetRemote(t)

TeardownStep(t) ==
  \/ NativeClosing(t) \/ Disable(t) \/ Drain(t) \/ BeginReset(t) \/ Detach(t)
  \/ EndReset(t) \/ Destroy(t)

Run(t) == Begin(t) \/ ZigStep(t) \/ BridgeStep(t) \/ TeardownStep(t)

Network ==
  \/ WsOpens \/ WsCloses \/ PeerConnects \/ PeerDisconnects \/ PeerFails
  \/ ChannelOpens \/ ChannelCloses \/ DataMessage \/ FrameDecoded

Completion(w) ==
  LoginAnswered(w) \/ Receive(w) \/ SocketFails(w) \/ NegotiationFails(w)

LifeNext ==
  \/ \E t \in LifeThreads : Run(t)
  \/ \E w \in Workers : Completion(w)
  \/ BlockStarts \/ BlockFires \/ OpenWebSocket \/ Network
  \/ Connect \/ Close \/ Deinit

LifeSpec == LifeInit /\ [][LifeNext]_lifeVars

-----------------------------------------------------------------------------

LifecycleTypeOK ==
  /\ lifecycle \in States
  /\ {closed, scheduled, lifeData, cursor, connectCalled, closing, enabled, sink,
      nativeScheduled, resetting, token, destroyed} \subseteq BOOLEAN
  /\ block \in {"none", "queued", "waiting"}
  /\ login \in {"none", "sent", "answered"}
  /\ ws \in {"none", "opening", "open", "dead"}
  /\ stream \in {"none", "requested", "provided"}
  /\ peer \in {"none", "new", "checking", "connected", "disconnected", "failed"}
  /\ lifeChannel \in {"none", "connecting", "open", "closed"}
  /\ pending \in [LifeThreads -> Seq(DOMAIN Callback)]
  /\ todo \in [LifeThreads -> Seq(Steps)]
  /\ lifeJob \in [Workers -> {"none", "net", "rtc", "old"}]

\* Between reconnects, input is accepted and a guest cursor is shown only
\* for a data channel this transport has: what a callback of the previous
\* transport left behind never reaches the next one.
StateIsOfThisTransport ==
  ~closed /\ ~scheduled /\ Idle("monitor")
    => (lifeData => lifeChannel = "open") /\ (cursor => lifeChannel \in {"open", "closed"})

\* The lifecycle the host polls says connected only of a transport whose
\* peer is connected, unless a reconnect or a close is under way.
ConnectedHasPeer ==
  lifecycle = "connected" /\ ~closed /\ ~scheduled /\ Idle("monitor")
    => peer = "connected"

\* A reconnect that is marked as scheduled is on its way: some thread is
\* about to queue the block, the block runs, or its callback is about to
\* clear the mark.  Nothing is dropped between the two flags.
ReconnectUnderWay ==
  scheduled /\ ~closing
    => \/ nativeScheduled /\ block # "none"
       \/ \E t \in LifeThreads : \E i \in DOMAIN todo[t] :
            todo[t][i] \in {<<"nativeSchedule">>, <<"clear">>}
       \/ pending["monitor"] # <<>> /\ Head(pending["monitor"]) = "reconnect_ready"

\* Once close has returned there is no transport, nobody starts another,
\* and no thread is inside the session, whose memory may then be released.
ClosedIsQuiet ==
  closed /\ todo["main"] \in {<<>>, <<<<"destroy">>>>}
    => /\ login = "none" /\ ws = "none" /\ peer = "none" /\ lifeChannel = "none"
       /\ ~sink /\ ~enabled /\ ~InFlight /\ todo["video"] = <<>>

\* A thread that Run(t) moves: it has a callback to begin, or a step to take
\* that waits for nothing.
CanGo(t) ==
  \/ pending[t] # <<>> /\ todo[t] = <<>>
  \/ todo[t] # <<>> /\ ~Blocked(t)

\* While a thread is inside close, destroy, a callback or a reset, some
\* thread can go on: the waits of the teardown, for the callbacks in
\* flight, the sink's lock, the other reset and the monitor, form no cycle.
NeverStuck ==
  (\E t \in LifeThreads : todo[t] # <<>>) => \E t \in LifeThreads : CanGo(t)
=============================================================================
