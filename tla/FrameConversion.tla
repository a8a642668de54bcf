--------------------------- MODULE FrameConversion ---------------------------
(* The process-wide RGBA conversion of OpenTUI Live View frames:             *)
(* src/src/opentui/AsyncFrameConverter.ts (the pool and its clients, on the  *)
(* main thread) and frame-conversion-worker.ts (the Bun worker).             *)
(*                                                                           *)
(* The main thread takes one event at a time; a handler and the processQueue *)
(* call at its end are one step. The worker is a thread of its own that      *)
(* handles one message at a time, converts, and gives the frame lease back;  *)
(* it can die between any two of its steps, and a message of its own can fail*)
(* to leave it or to be decoded. A job is one frame lease to convert; its    *)
(* word is the shared atomic that says who releases the lease.               *)
EXTENDS Naturals, Sequences, FiniteSets

CONSTANTS Clients, Jobs, Libraries,
          LibraryOf,     \* the dylib path of each client
          Synchronous,   \* clients created with asynchronous: false
          None

ASSUME ClientLibraries ==
    /\ LibraryOf \in [Clients -> Libraries]
    /\ Synchronous \subseteq Clients
    /\ None \notin Jobs \cup Libraries \cup Clients

VARIABLES
    pool,     \* the pool's fields
    job,      \* client and status of each job: its promise
    lease,    \* word, and how often the native release was called
    port,     \* the two message queues between the pool and its worker
    thread,   \* the worker thread
    client    \* the life of each client

vars == <<pool, job, lease, port, thread, client>>

NoPool == [queue |-> <<>>, worker |-> FALSE, failure |-> FALSE, ready |-> {}, failed |-> {},
           initializing |-> None, inFlight |-> None, shuttingDown |-> FALSE, tick |-> FALSE]
NoThread == [state |-> "none", job |-> None]
NoPort == [toWorker |-> <<>>, toMain |-> <<>>]

WorkerMessage == [type : {"initialize"}, library : Libraries]
                   \cup [type : {"convert"}, job : Jobs] \cup [type : {"shutdown"}]
Event == [type : {"initialized"}, library : Libraries, ok : BOOLEAN]
           \cup [type : {"complete"}, job : Jobs, result : {"ok", "native", "infrastructure"}]
           \cup [type : {"closed", "error", "close"}]

TypeOK ==
    /\ pool \in [queue : Seq(Jobs), worker : BOOLEAN, failure : BOOLEAN,
                 ready : SUBSET Libraries, failed : SUBSET Libraries,
                 initializing : Libraries \cup {None}, inFlight : Jobs \cup {None},
                 shuttingDown : BOOLEAN, tick : BOOLEAN]
    /\ job \in [Jobs -> [client : Clients \cup {None},
                         status : {"new", "queued", "inFlight", "resolved", "rejected"}]]
    /\ lease \in [Jobs -> [word : {"owned", "releasing", "released"}, releases : Nat]]
    /\ port \in [toWorker : Seq(WorkerMessage), toMain : Seq(Event)]
    /\ thread \in [state : {"none", "idle", "converting", "converted", "releasing",
                            "storing", "replying", "dead"},
                   job : Jobs \cup {None}]
    /\ client \in [Clients -> {"absent", "open", "closing", "draining", "closed", "failed"}]
    \* the queue and inFlight hold the unanswered jobs, each once
    /\ \A j \in Jobs :
          /\ Cardinality({i \in 1..Len(pool.queue) : pool.queue[i] = j})
               = (IF job[j].status = "queued" THEN 1 ELSE 0)
          /\ pool.inFlight = j <=> job[j].status = "inFlight"

Init ==
    /\ pool = NoPool
    /\ job = [j \in Jobs |-> [client |-> None, status |-> "new"]]
    /\ lease = [j \in Jobs |-> [word |-> "owned", releases |-> 0]]
    /\ port = NoPort /\ thread = NoThread
    /\ client = [c \in Clients |-> "absent"]

-----------------------------------------------------------------------------
(* One step of the main thread, as a function of the state it has reached:   *)
(* a record of all variables but client.                                     *)

Here == [pool |-> pool, job |-> job, lease |-> lease, port |-> port, thread |-> thread]

Become(s) ==
    /\ pool' = s.pool /\ job' = s.job /\ lease' = s.lease
    /\ port' = s.port /\ thread' = s.thread

Settle(s, j, status) == [s EXCEPT !.job[j].status = status]
Release(s, j) == [s EXCEPT !.lease[j].releases = @ + 1]

Dequeue(s) == [s EXCEPT !.pool.queue = Tail(@)]
Post(s, message) == [s EXCEPT !.port.toWorker = Append(@, message)]

\* A mutant: the backstop trusts the worker to release the lease.
TrustsWorker(s, j) == s

\* claimBackstopRelease: whoever moves the word away from "owned" releases.
Backstop(s, j) ==
    IF s.lease[j].word = "owned"
      THEN [Release(s, j) EXCEPT !.lease[j].word = "released"]
      ELSE s

\* runSynchronous: converts the frame here, closes the lease, and asks for
\* another processQueue in a microtask.
RunSynchronous(s) ==
    LET j == Head(s.pool.queue)
        done == [Release(Dequeue(s), j) EXCEPT !.pool.tick = TRUE]
    IN  {Settle(done, j, status) : status \in {"resolved", "rejected"}}

\* processQueue once the worker is known to have failed.
FallBack(s) == IF s.pool.queue = <<>> THEN {s} ELSE RunSynchronous(s)

\* initializeLibrary; the message may not go out.
Initialize(s, library) ==
    {Post([s EXCEPT !.pool.initializing = library],
          [type |-> "initialize", library |-> library])}
      \cup FallBack([s EXCEPT !.pool.failure = TRUE])

\* dispatch: the output buffer or the transfer fails, or the message goes out,
\* or it does not and the lease comes back to this thread.
Dispatch(s, j) ==
    LET taken == Dequeue(s)
        sent == Post(Settle([taken EXCEPT !.pool.inFlight = j], j, "inFlight"),
                     [type |-> "convert", job |-> j])
        noOutput == [Settle(Release(taken, j), j, "rejected") EXCEPT !.pool.tick = TRUE]
        unsent == [Settle(Backstop(taken, j), j, "rejected") EXCEPT !.pool.failure = TRUE]
    IN  {sent, noOutput} \cup FallBack(unsent)

\* processQueue starts nothing while a job or an initialisation is out.
Waits(s) == s.pool.inFlight # None \/ s.pool.initializing # None

\* processQueue
ProcessQueue(s) ==
    IF Waits(s) \/ s.pool.queue = <<>> THEN {s}
    ELSE LET j == Head(s.pool.queue)
             library == LibraryOf[s.job[j].client]
             started == [s EXCEPT !.pool.worker = TRUE, !.thread.state =
                           IF s.pool.worker THEN @ ELSE "idle"]
         IN  IF \/ s.job[j].client \in Synchronous
                \/ s.pool.failure \/ s.pool.shuttingDown \/ library \in s.pool.failed
               THEN RunSynchronous(s)
             ELSE (IF library \in s.pool.ready
                     THEN Dispatch(started, j) ELSE Initialize(started, library))
                  \cup (IF s.pool.worker THEN {}      \* workerFactory throws
                        ELSE RunSynchronous([s EXCEPT !.pool.failure = TRUE]))

\* A mutant: the job in flight is forgotten, not rejected.
ForgetsJob(s) ==
    ProcessQueue([s EXCEPT !.pool.failure = TRUE, !.pool.initializing = None,
                           !.pool.inFlight = None])

\* failWorker: the job in flight is lost, its lease is not.
FailWorker(s) ==
    LET failed == [s EXCEPT !.pool.failure = TRUE, !.pool.initializing = None,
                            !.pool.inFlight = None]
        j == s.pool.inFlight
    IN  ProcessQueue(IF j = None THEN failed ELSE Settle(Backstop(failed, j), j, "rejected"))

\* terminate() and worker = null: later events of that worker are ignored.
Terminated(s) ==
    [s EXCEPT !.pool.worker = FALSE, !.thread = NoThread, !.port = NoPort]

\* finishShutdown and resetWorkerState
Finished(s) ==
    [Terminated(s) EXCEPT !.pool.failure = FALSE, !.pool.ready = {}, !.pool.failed = {},
                          !.pool.initializing = None, !.pool.shuttingDown = FALSE]

FinishShutdown(s) ==
    /\ Become(Finished(s))
    /\ client' = [c \in Clients |-> IF client[c] = "draining" THEN "closed" ELSE client[c]]

-----------------------------------------------------------------------------
(* Clients.                                                                  *)

\* A mutant: a conversion the worker holds does not make its client busy.
BusyWhileQueued(c) == \E j \in Jobs : job[j].client = c /\ job[j].status = "queued"

Busy(c) == \E j \in Jobs : job[j].client = c /\ job[j].status \in {"queued", "inFlight"}

CreateClient(c) ==
    /\ client[c] = "absent" /\ client' = [client EXCEPT ![c] = "open"]
    /\ UNCHANGED <<pool, job, lease, port, thread>>

\* convert: a closed or busy client gives the lease back at once.
Convert(c, j) ==
    /\ client[c] # "absent" /\ job[j].status = "new"
    /\ LET s == [Here EXCEPT !.job[j].client = c]
       IN  IF client[c] # "open" \/ Busy(c)
             THEN Become(Settle(Release(s, j), j, "rejected"))
             ELSE \E next \in ProcessQueue(Settle([s EXCEPT !.pool.queue = Append(@, j)],
                                                  j, "queued")) :
                    Become(next)
    /\ UNCHANGED client

CloseClient(c) ==
    /\ client[c] = "open" /\ client' = [client EXCEPT ![c] = "closing"]
    /\ UNCHANGED <<pool, job, lease, port, thread>>

Registered == {c \in Clients : client[c] \in {"open", "closing"}}
Outstanding == pool.queue # <<>> \/ pool.inFlight # None \/ pool.initializing # None

\* beginShutdown with a worker to stop: it refuses over outstanding work; the
\* worker is asked to shut down, or cannot be.
ShutDown(how) ==
    CASE how = "failed" -> Here
      [] how = "draining" -> Post([Here EXCEPT !.pool.shuttingDown = TRUE],
                                  [type |-> "shutdown"])
      [] how = "closed" -> Finished(Here)

\* close awaits the client's conversion, then releaseClient; the last client to
\* leave shuts the worker down.
ReleaseClient(c) ==
    /\ client[c] = "closing" /\ ~Busy(c)
    /\ LET Leave(how) == client' = [client EXCEPT ![c] = how]
       IN  \/ /\ Registered # {c}
              /\ Leave("closed") /\ UNCHANGED <<pool, job, lease, port, thread>>
           \/ /\ Registered = {c} /\ pool.shuttingDown
              /\ Leave("draining") /\ UNCHANGED <<pool, job, lease, port, thread>>
           \/ /\ Registered = {c} /\ ~pool.shuttingDown /\ ~pool.worker
              /\ Leave("closed") /\ Become(Finished(Here))
           \/ /\ Registered = {c} /\ ~pool.shuttingDown /\ pool.worker
              /\ \E how \in IF Outstanding THEN {"failed"} ELSE {"draining", "closed"} :
                    Leave(how) /\ Become(ShutDown(how))

-----------------------------------------------------------------------------
(* Events of the main thread. A microtask runs before the next of them.      *)

Microtask ==
    /\ pool.tick
    /\ \E next \in ProcessQueue([Here EXCEPT !.pool.tick = FALSE]) : Become(next)
    /\ UNCHANGED client

Receives(type) ==
    /\ ~pool.tick /\ port.toMain # <<>> /\ Head(port.toMain).type = type

Received == [Here EXCEPT !.port.toMain = Tail(@)]

OnInitialized ==
    /\ Receives("initialized")
    /\ LET e == Head(port.toMain)
       IN  IF pool.initializing # e.library THEN Become(Received)
           ELSE LET known == IF e.ok
                      THEN [Received EXCEPT !.pool.ready = @ \cup {e.library}]
                      ELSE [Received EXCEPT !.pool.failed = @ \cup {e.library}]
                IN  \E next \in ProcessQueue([known EXCEPT !.pool.initializing = None]) :
                      Become(next)
    /\ UNCHANGED client

\* complete: the lease must be back, and the worker healthy.
OnComplete ==
    /\ Receives("complete")
    /\ LET e == Head(port.toMain)
           j == e.job
           free == [Received EXCEPT !.pool.inFlight = None]
           back == lease[j].word = "released"
           rejected == Settle(IF back THEN free ELSE Backstop(free, j), j, "rejected")
       IN  IF pool.inFlight # j THEN Become(Received)
           ELSE \E next \in
                  IF ~back \/ e.result = "infrastructure" THEN FailWorker(rejected)
                  ELSE ProcessQueue(Settle(free, j, IF e.result = "ok" THEN "resolved"
                                                    ELSE "rejected")) :
                  Become(next)
    /\ UNCHANGED client

OnClosed ==
    /\ Receives("closed")
    /\ IF pool.shuttingDown THEN FinishShutdown(Received)
       ELSE (\E next \in FailWorker(Received) : Become(next)) /\ UNCHANGED client

\* abortWorker, for "error" and "messageerror"
OnError ==
    /\ Receives("error")
    /\ IF pool.shuttingDown THEN FinishShutdown(Received)
       ELSE (\E next \in FailWorker(Received) : Become(Terminated(next))) /\ UNCHANGED client

OnClose ==
    /\ Receives("close")
    /\ IF pool.shuttingDown THEN FinishShutdown(Received)
       ELSE (\E next \in FailWorker(Received) : Become(Terminated(next))) /\ UNCHANGED client

ShutdownTimer ==
    /\ ~pool.tick /\ pool.shuttingDown /\ pool.worker
    /\ FinishShutdown(Here)

-----------------------------------------------------------------------------
(* The worker thread.                                                        *)

Reply(event) == port' = [port EXCEPT !.toMain = Append(@, event)]

Takes(type) ==
    /\ thread.state = "idle"
    /\ port.toWorker # <<>> /\ Head(port.toWorker).type = type

\* A reply that cannot be posted or decoded reaches the pool as an error.
ReplyOrError(taken, event) ==
    \E e \in {event, [type |-> "error"]} :
        port' = [toWorker |-> taken, toMain |-> Append(port.toMain, e)]

WorkerInitialize ==
    /\ Takes("initialize")
    /\ \E ok \in BOOLEAN :
          ReplyOrError(Tail(port.toWorker), [type |-> "initialized", ok |-> ok,
                                             library |-> Head(port.toWorker).library])
    /\ UNCHANGED <<pool, job, lease, thread, client>>

\* A mutant: the worker gives the frame back as soon as it has it.
ReleasesFirst ==
    /\ Takes("convert")
    /\ LET j == Head(port.toWorker).job
       IN  /\ thread' = [state |-> "converting", job |-> j]
           /\ lease' = [lease EXCEPT ![j] = [word |-> "released", releases |-> @.releases + 1]]
    /\ port' = [port EXCEPT !.toWorker = Tail(@)]
    /\ UNCHANGED <<pool, job, client>>

WorkerConvert ==
    /\ Takes("convert")
    /\ thread' = [state |-> "converting", job |-> Head(port.toWorker).job]
    /\ port' = [port EXCEPT !.toWorker = Tail(@)]
    /\ UNCHANGED <<pool, job, lease, client>>

WorkerConverted ==
    /\ thread.state = "converting"
    /\ thread' = [thread EXCEPT !.state = "converted"]
    /\ UNCHANGED <<pool, job, lease, port, client>>

\* releaseLease: compareExchange, native release, store.
WorkerClaim ==
    /\ thread.state = "converted"
    /\ IF lease[thread.job].word = "owned"
         THEN /\ lease' = [lease EXCEPT ![thread.job].word = "releasing"]
              /\ thread' = [thread EXCEPT !.state = "releasing"]
         ELSE /\ thread' = [thread EXCEPT !.state = "replying"]
              /\ UNCHANGED lease
    /\ UNCHANGED <<pool, job, port, client>>

WorkerRelease ==
    /\ thread.state = "releasing"
    /\ lease' = [lease EXCEPT ![thread.job].releases = @ + 1]
    /\ thread' = [thread EXCEPT !.state = "storing"]
    /\ UNCHANGED <<pool, job, port, client>>

WorkerStore ==
    /\ thread.state = "storing"
    /\ lease' = [lease EXCEPT ![thread.job].word = "released"]
    /\ thread' = [thread EXCEPT !.state = "replying"]
    /\ UNCHANGED <<pool, job, port, client>>

WorkerReply ==
    /\ thread.state = "replying"
    /\ \E result \in {"ok", "native", "infrastructure"} :
          ReplyOrError(port.toWorker,
                       [type |-> "complete", job |-> thread.job, result |-> result])
    /\ thread' = [state |-> "idle", job |-> None]
    /\ UNCHANGED <<pool, job, lease, client>>

WorkerShutdown ==
    /\ Takes("shutdown")
    /\ ReplyOrError(Tail(port.toWorker), [type |-> "closed"])
    /\ UNCHANGED <<pool, job, lease, thread, client>>

WorkerDies ==
    /\ thread.state \notin {"none", "dead"}
    /\ thread' = [thread EXCEPT !.state = "dead"]
    /\ Reply([type |-> "close"])
    /\ UNCHANGED <<pool, job, lease, client>>

-----------------------------------------------------------------------------

MainEvent ==
    OnInitialized \/ OnComplete \/ OnClosed \/ OnError \/ OnClose

\* What the worker is assumed to get done; it need not answer a shutdown.
WorkerStep ==
    \/ WorkerInitialize \/ WorkerConvert \/ WorkerConverted \/ WorkerClaim
    \/ WorkerRelease \/ WorkerStore \/ WorkerReply

Next ==
    \/ \E c \in Clients :
          \/ CreateClient(c) \/ CloseClient(c) \/ ReleaseClient(c)
          \/ \E j \in Jobs : Convert(c, j)
    \/ Microtask \/ MainEvent \/ ShutdownTimer
    \/ WorkerStep \/ WorkerShutdown \/ WorkerDies

Spec ==
    /\ Init /\ [][Next]_vars
    /\ WF_vars(Microtask) /\ WF_vars(MainEvent) /\ WF_vars(ShutdownTimer)
    /\ WF_vars(WorkerStep)
    /\ \A c \in Clients : WF_vars(ReleaseClient(c))

-----------------------------------------------------------------------------

Settled(j) == job[j].status \in {"resolved", "rejected"}

(* The worker's release, the backstop and the synchronous close race for the *)
(* same native frame: it is never released twice. And whatever happens to    *)
(* the worker, a frame whose promise has settled is back with the library.   *)
(* The one exception is a worker that died after it claimed the release      *)
(* (releaseLease's compareExchange): nobody else may.                        *)
LeaseReturnedOnce ==
    \A j \in Jobs :
        /\ lease[j].releases <= 1
        /\ Settled(j) /\ lease[j].releases = 0 => lease[j].word = "releasing"

(* The native frame is not given back under the conversion that reads it.    *)
NoUseAfterRelease ==
    \A j \in Jobs :
        thread.state = "converting" /\ thread.job = j => lease[j].releases = 0

(* "It runs at most one conversion at a time, including synchronous fallback *)
(* work": the main thread converts no frame itself while the worker converts *)
(* another.                                                                  *)
OneConversionAtATime ==
    [][ \A j \in Jobs :
          job[j].status \in {"new", "queued"} /\ job'[j].status = "resolved"
            => thread.state # "converting" ]_vars

(* The last client to leave has awaited its own conversion, so the shutdown  *)
(* it begins never throws "while work is outstanding".                       *)
NeverRefusesShutdown == \A c \in Clients : client[c] # "failed"

(* Every frame given to convert is answered, whether the worker initialises, *)
(* fails, dies or is being shut down.                                        *)
EveryJobSettles ==
    \A j \in Jobs : job[j].status \in {"queued", "inFlight"} ~> Settled(j)

(* close() of a client ends, also when the worker does not say "closed".     *)
ClosesEnd == \A c \in Clients : client[c] = "closing" ~> client[c] = "closed"
=============================================================================
