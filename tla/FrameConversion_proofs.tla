------------------------- MODULE FrameConversion_proofs -------------------------
(***************************************************************************)
(* Proofs about FrameConversion, for any clients, frames and libraries:    *)
(* whose it is to give a frame back at every step of the pool and of its   *)
(* worker, and that the last client to leave finds no work outstanding.    *)
(*                                                                         *)
(* A step of the main thread is a function of states, so that what it      *)
(* keeps is first stated of states (records), and then of the behaviour.   *)
(***************************************************************************)
EXTENDS FrameConversion, TLAPS

Statuses == {"new", "queued", "inFlight", "resolved", "rejected"}
JobRecord == [client : Clients \cup {None}, status : Statuses]
LeaseRecord == [word : {"owned", "releasing", "released"}, releases : Nat]
Pools ==
  [queue : Seq(Jobs), worker : BOOLEAN, failure : BOOLEAN, ready : SUBSET Libraries,
   failed : SUBSET Libraries, initializing : Libraries \cup {None}, inFlight : Jobs \cup {None},
   shuttingDown : BOOLEAN, tick : BOOLEAN]
Ports == [toWorker : Seq(WorkerMessage), toMain : Seq(Event)]
Threads ==
  [state : {"none", "idle", "converting", "converted", "releasing", "storing", "replying", "dead"},
   job : Jobs \cup {None}]
States ==
  [pool : Pools, job : [Jobs -> JobRecord], lease : [Jobs -> LeaseRecord], port : Ports,
   thread : Threads]

(***************************************************************************)
(* The messages of a port.                                                 *)
(***************************************************************************)
JobsOf(q, type) == {q[i].job : i \in {k \in 1 .. Len(q) : q[k].type = type}}
Has(q, type) == \E i \in 1 .. Len(q) : q[i].type = type
OnlyOne(q, type) ==
  \A i, k \in 1 .. Len(q) : q[i].type = type /\ q[k].type = type => i = k

LEMMA TailMessages ==
  ASSUME NEW S, NEW q \in Seq(S), q # <<>>, NEW type
  PROVE  /\ Tail(q) \in Seq(S) /\ Head(q) \in S
         /\ Has(Tail(q), type) => Has(q, type)
         /\ JobsOf(Tail(q), type) \subseteq JobsOf(q, type)
         /\ OnlyOne(q, type) => OnlyOne(Tail(q), type)
         /\ Head(q).type = type => Has(q, type) /\ Head(q).job \in JobsOf(q, type)
         /\ OnlyOne(q, type) /\ Head(q).type = type => JobsOf(Tail(q), type) = {}
<1> DEFINE rest == Tail(q)
<1>1. /\ rest \in Seq(S) /\ Len(rest) = Len(q) - 1 /\ Len(q) \in Nat /\ Len(q) > 0
      /\ Head(q) = q[1] /\ q[1] \in S
      /\ \A i \in 1 .. Len(rest) : rest[i] = q[i + 1]
  OBVIOUS
<1> HIDE DEF rest
<1>2. \A i \in 1 .. Len(rest) : i + 1 \in 1 .. Len(q) /\ i + 1 # 1
  BY <1>1
<1>3. Has(rest, type) => Has(q, type)
  BY <1>1, <1>2 DEF Has
<1>4. JobsOf(rest, type) \subseteq JobsOf(q, type)
  BY <1>1, <1>2, SMTT(60) DEF JobsOf
<1>5. OnlyOne(q, type) => OnlyOne(rest, type)
  <2> SUFFICES ASSUME OnlyOne(q, type), NEW i \in 1 .. Len(rest), NEW k \in 1 .. Len(rest),
                      rest[i].type = type, rest[k].type = type
               PROVE  i = k
    BY DEF OnlyOne
  <2>1. i + 1 = k + 1
    BY <1>1, <1>2 DEF OnlyOne
  <2> QED
    BY <1>1, <2>1
<1>6. Head(q).type = type => Has(q, type) /\ Head(q).job \in JobsOf(q, type)
  BY <1>1 DEF Has, JobsOf
<1>7. OnlyOne(q, type) /\ Head(q).type = type => JobsOf(rest, type) = {}
  BY <1>1, <1>2 DEF OnlyOne, JobsOf
<1> QED
  BY <1>1, <1>3, <1>4, <1>5, <1>6, <1>7 DEF rest

LEMMA AppendMessages ==
  ASSUME NEW S, NEW q \in Seq(S), NEW e \in S, NEW type
  PROVE  /\ Append(q, e) \in Seq(S)
         /\ Has(Append(q, e), type) => Has(q, type) \/ e.type = type
         /\ e.type # type => JobsOf(Append(q, e), type) = JobsOf(q, type)
         /\ e.type = type => JobsOf(Append(q, e), type) = JobsOf(q, type) \cup {e.job}
         /\ OnlyOne(q, type) /\ (e.type = type => JobsOf(q, type) = {}) => OnlyOne(Append(q, e), type)
<1> DEFINE more == Append(q, e)
<1>1. /\ more \in Seq(S) /\ Len(more) = Len(q) + 1 /\ Len(q) \in Nat /\ more[Len(q) + 1] = e
      /\ \A i \in 1 .. Len(q) : more[i] = q[i]
  OBVIOUS
<1> HIDE DEF more
<1>2. 1 .. Len(more) = (1 .. Len(q)) \cup {Len(q) + 1} /\ Len(q) + 1 \notin 1 .. Len(q)
  BY <1>1
<1>3. Has(more, type) => Has(q, type) \/ e.type = type
  BY <1>1, <1>2 DEF Has
<1>4. e.type # type => JobsOf(more, type) = JobsOf(q, type)
  BY <1>1, <1>2 DEF JobsOf
<1>5. e.type = type => JobsOf(more, type) = JobsOf(q, type) \cup {e.job}
  BY <1>1, <1>2 DEF JobsOf
<1>6. OnlyOne(q, type) /\ (e.type = type => JobsOf(q, type) = {}) => OnlyOne(more, type)
  <2> SUFFICES ASSUME OnlyOne(q, type), e.type = type => JobsOf(q, type) = {},
                      NEW i \in 1 .. Len(more), NEW k \in 1 .. Len(more),
                      more[i].type = type, more[k].type = type
               PROVE  i = k
    BY DEF OnlyOne
  <2>1. e.type = type => \A l \in 1 .. Len(q) : q[l].type # type
    BY DEF JobsOf
  <2> QED
    BY <1>1, <1>2, <2>1 DEF OnlyOne
<1> QED
  BY <1>1, <1>3, <1>4, <1>5, <1>6 DEF more

LEMMA ConvertPosted ==
  ASSUME NEW q \in Seq(WorkerMessage), NEW j \in Jobs
  PROVE  LET more == Append(q, [type |-> "convert", job |-> j])
         IN  /\ Has(more, "shutdown") => Has(q, "shutdown")
             /\ JobsOf(more, "convert") = JobsOf(q, "convert") \cup {j}
             /\ OnlyOne(q, "convert") /\ JobsOf(q, "convert") = {} => OnlyOne(more, "convert")
<1> DEFINE message == [type |-> "convert", job |-> j]
           more == Append(q, message)
<1>1. message \in WorkerMessage /\ message.type = "convert" /\ message.job = j
  BY DEF WorkerMessage
<1> HIDE DEF message
<1>2. Has(more, "shutdown") => Has(q, "shutdown")
  BY <1>1, AppendMessages
<1>3. JobsOf(more, "convert") = JobsOf(q, "convert") \cup {message.job}
  BY <1>1, AppendMessages
<1>4. OnlyOne(q, "convert") /\ JobsOf(q, "convert") = {} => OnlyOne(more, "convert")
  BY <1>1, AppendMessages
<1> QED
  BY <1>1, <1>2, <1>3, <1>4 DEF message

LEMMA EmptyMessages == \A type : JobsOf(<<>>, type) = {} /\ ~Has(<<>>, type) /\ OnlyOne(<<>>, type)
BY DEF JobsOf, Has, OnlyOne

(***************************************************************************)
(* The pool's elementary changes of a state.                               *)
(***************************************************************************)
LEMMA SettleIs ==
  ASSUME NEW s \in States, NEW j \in Jobs, NEW status \in Statuses
  PROVE  LET n == Settle(s, j, status)
         IN  /\ n \in States
             /\ n.pool = s.pool /\ n.lease = s.lease /\ n.port = s.port /\ n.thread = s.thread
             /\ n.job[j].status = status /\ n.job[j].client = s.job[j].client
             /\ \A i \in Jobs \ {j} : n.job[i] = s.job[i]
BY DEF Settle, States, JobRecord

LEMMA ReleaseIs ==
  ASSUME NEW s \in States, NEW j \in Jobs
  PROVE  LET n == Release(s, j)
         IN  /\ n \in States
             /\ n.pool = s.pool /\ n.job = s.job /\ n.port = s.port /\ n.thread = s.thread
             /\ n.lease[j].releases = s.lease[j].releases + 1 /\ n.lease[j].word = s.lease[j].word
             /\ \A i \in Jobs \ {j} : n.lease[i] = s.lease[i]
BY DEF Release, States, LeaseRecord

LEMMA BackstopIs ==
  ASSUME NEW s \in States, NEW j \in Jobs
  PROVE  LET n == Backstop(s, j)
         IN  /\ n \in States
             /\ n.pool = s.pool /\ n.job = s.job /\ n.port = s.port /\ n.thread = s.thread
             /\ s.lease[j].word # "owned" => n = s
             /\ s.lease[j].word = "owned" =>
                  n.lease[j].releases = s.lease[j].releases + 1 /\ n.lease[j].word = "released"
             /\ \A i \in Jobs \ {j} : n.lease[i] = s.lease[i]
<1> DEFINE r == Release(s, j)
           n == [r EXCEPT !.lease[j].word = "released"]
<1>1. /\ r \in States
      /\ r.pool = s.pool /\ r.job = s.job /\ r.port = s.port /\ r.thread = s.thread
      /\ r.lease[j].releases = s.lease[j].releases + 1
      /\ \A i \in Jobs \ {j} : r.lease[i] = s.lease[i]
  BY ReleaseIs
<1>2. Backstop(s, j) = IF s.lease[j].word = "owned" THEN n ELSE s
  BY DEF Backstop
<1> HIDE DEF r
<1>3. /\ n \in States
      /\ n.pool = r.pool /\ n.job = r.job /\ n.port = r.port /\ n.thread = r.thread
      /\ n.lease[j].releases = r.lease[j].releases /\ n.lease[j].word = "released"
      /\ \A i \in Jobs \ {j} : n.lease[i] = r.lease[i]
  <2>1. r.lease \in [Jobs -> LeaseRecord] /\ r.lease[j] \in LeaseRecord
    BY <1>1 DEF States
  <2> DEFINE l == [r.lease[j] EXCEPT !.word = "released"]
  <2>2. l \in LeaseRecord /\ l.word = "released" /\ l.releases = r.lease[j].releases
    BY <2>1 DEF LeaseRecord
  <2>3. n = [r EXCEPT !.lease = [r.lease EXCEPT ![j] = l]]
    OBVIOUS
  <2> HIDE DEF n, l
  <2>4. [r.lease EXCEPT ![j] = l] \in [Jobs -> LeaseRecord]
    BY <2>1, <2>2
  <2> QED
    BY <1>1, <2>1, <2>2, <2>3, <2>4 DEF States
<1> HIDE DEF n
<1> QED
  BY <1>1, <1>2, <1>3

LEMMA DequeueIs ==
  ASSUME NEW s \in States, s.pool.queue # <<>>
  PROVE  LET n == Dequeue(s)
         IN  /\ n \in States
             /\ n.pool = [s.pool EXCEPT !.queue = Tail(@)]
             /\ n.job = s.job /\ n.lease = s.lease /\ n.port = s.port /\ n.thread = s.thread
<1>1. s.pool.queue \in Seq(Jobs) /\ s.pool \in Pools
  BY DEF States, Pools
<1>2. Tail(s.pool.queue) \in Seq(Jobs)
  BY <1>1
<1>3. [s.pool EXCEPT !.queue = Tail(@)] \in Pools
  BY <1>1, <1>2 DEF Pools
<1> QED
  BY <1>3 DEF Dequeue, States

LEMMA PostIs ==
  ASSUME NEW s \in States, NEW message \in WorkerMessage
  PROVE  LET n == Post(s, message)
         IN  /\ n \in States
             /\ n.pool = s.pool /\ n.job = s.job /\ n.lease = s.lease /\ n.thread = s.thread
             /\ n.port.toMain = s.port.toMain
             /\ n.port.toWorker = Append(s.port.toWorker, message)
<1>1. s.port \in Ports /\ s.port.toWorker \in Seq(WorkerMessage)
  BY DEF States, Ports
<1>2. Append(s.port.toWorker, message) \in Seq(WorkerMessage)
  BY <1>1
<1>3. [s.port EXCEPT !.toWorker = Append(@, message)] \in Ports
  BY <1>1, <1>2 DEF Ports
<1> QED
  BY <1>1, <1>3 DEF Post, States, Ports

(***************************************************************************)
(* What the pool knows at every point of a step.                           *)
(***************************************************************************)
Queued(s) ==
  /\ \A i \in 1 .. Len(s.pool.queue) : s.job[s.pool.queue[i]].status = "queued"
  /\ \A i, k \in 1 .. Len(s.pool.queue) : s.pool.queue[i] = s.pool.queue[k] => i = k

\* A frame is the caller's until it is converted or refused; the word says who of
\* the worker and the backstop released it, and a claim may be left unfinished.
LeaseOK(status, l) ==
  /\ l.releases \in {0, 1}
  /\ status \in {"new", "queued"} => l.word = "owned" /\ l.releases = 0
  /\ status = "inFlight" => (l.word = "owned" => l.releases = 0) /\ (l.word = "released" => l.releases = 1)
  /\ status \in {"resolved", "rejected"} /\ l.releases = 0 => l.word = "releasing"

\* Whose frames are to be answered, and what a step of the pool does to them: it
\* begins no wait of a client.
Unanswered(s, j) == s.job[j].status \in {"queued", "inFlight"}
Given(s) == \A j \in Jobs : Unanswered(s, j) => s.job[j].client \in Clients
Progresses(s, n) ==
  \A j \in Jobs : n.job[j].client = s.job[j].client /\ (Unanswered(n, j) => Unanswered(s, j))

Core(s) ==
  /\ s \in States
  /\ Given(s)
  /\ Queued(s)
  /\ \A j \in Jobs : s.job[j].status = "inFlight" <=> s.pool.inFlight = j
  /\ s.pool.initializing # None => s.pool.queue # <<>>
  /\ s.pool.shuttingDown => ~Waits(s)
  /\ ~s.pool.worker => s.thread = NoThread /\ s.port = NoPort
  /\ Has(s.port.toWorker, "shutdown") \/ Has(s.port.toMain, "closed") => s.pool.shuttingDown
  /\ \A j \in Jobs : LeaseOK(s.job[j].status, s.lease[j])

LEMMA GivenKeeps ==
  ASSUME NEW s, NEW n, Given(s), Progresses(s, n)
  PROVE  Given(n)
BY DEF Given, Progresses

(***************************************************************************)
(* The conversion in flight is in one place: its message, the worker, or   *)
(* its answer; and so is the right to release its frame.                   *)
(***************************************************************************)
Sent(s) == JobsOf(s.port.toWorker, "convert")
AtWork(s) ==
  IF s.thread.state \in {"converting", "converted", "releasing", "storing", "replying"}
  THEN {s.thread.job} ELSE {}
Answers(s) == JobsOf(s.port.toMain, "complete")

Holds(l, word, releases) == l.word = word /\ l.releases = releases

InOnePlace(s) ==
  /\ Sent(s) \cup AtWork(s) \cup Answers(s) \subseteq {s.pool.inFlight} \cap Jobs
  /\ OnlyOne(s.port.toWorker, "convert") /\ OnlyOne(s.port.toMain, "complete")
  /\ Sent(s) = {} \/ AtWork(s) = {}
  /\ Sent(s) = {} \/ Answers(s) = {}
  /\ AtWork(s) = {} \/ Answers(s) = {}

Released(s) ==
  /\ \A j \in Sent(s) : Holds(s.lease[j], "owned", 0)
  /\ \A j \in AtWork(s) :
       /\ s.thread.state \in {"converting", "converted"} => Holds(s.lease[j], "owned", 0)
       /\ s.thread.state = "releasing" => Holds(s.lease[j], "releasing", 0)
       /\ s.thread.state = "storing" => Holds(s.lease[j], "releasing", 1)
       /\ s.thread.state = "replying" => Holds(s.lease[j], "released", 1)
  /\ \A j \in Answers(s) : Holds(s.lease[j], "released", 1)

Token(s) == InOnePlace(s) /\ Released(s)

\* A step from s to n keeps everything.
Keeps(s, n) == Core(n) /\ (Token(s) => Token(n)) /\ Progresses(s, n)

LEMMA QueueHead ==
  ASSUME NEW s, Core(s), s.pool.queue # <<>>
  PROVE  /\ Head(s.pool.queue) \in Jobs /\ s.job[Head(s.pool.queue)].status = "queued"
         /\ Tail(s.pool.queue) \in Seq(Jobs)
         /\ \A i \in 1 .. Len(Tail(s.pool.queue)) :
              /\ Tail(s.pool.queue)[i] # Head(s.pool.queue)
              /\ Tail(s.pool.queue)[i] \in Jobs
              /\ s.job[Tail(s.pool.queue)[i]].status = "queued"
              /\ \A k \in 1 .. Len(Tail(s.pool.queue)) :
                   Tail(s.pool.queue)[i] = Tail(s.pool.queue)[k] => i = k
<1> DEFINE q == s.pool.queue
           rest == Tail(q)
<1>1. q \in Seq(Jobs) /\ Queued(s)
  BY DEF Core, States, Pools
<1>2. /\ rest \in Seq(Jobs) /\ Len(rest) = Len(q) - 1 /\ Len(q) \in Nat /\ Len(q) > 0
      /\ Head(q) = q[1] /\ q[1] \in Jobs
      /\ \A i \in 1 .. Len(rest) : rest[i] = q[i + 1] /\ rest[i] \in Jobs
  BY <1>1
<1> HIDE DEF rest
<1>3. \A i \in 1 .. Len(rest) : i + 1 \in 1 .. Len(q) /\ i + 1 # 1 /\ 1 \in 1 .. Len(q)
  BY <1>2
<1>4. s.job[Head(q)].status = "queued"
  BY <1>1, <1>2 DEF Queued
<1>5. ASSUME NEW i \in 1 .. Len(rest)
      PROVE  rest[i] # Head(q) /\ s.job[rest[i]].status = "queued"
  BY <1>1, <1>2, <1>3 DEF Queued
<1>6. ASSUME NEW i \in 1 .. Len(rest), NEW k \in 1 .. Len(rest), rest[i] = rest[k]
      PROVE  i = k
  <2>1. i + 1 = k + 1
    BY <1>1, <1>2, <1>3, <1>6 DEF Queued
  <2> QED
    BY <1>2, <2>1
<1> QED
  BY <1>2, <1>4, <1>5, <1>6 DEF rest

\* The head of the queue is settled, its frame released once.
LEMMA HeadSettled ==
  ASSUME NEW s, Core(s), s.pool.queue # <<>>, ~Waits(s),
         NEW n \in States,
         n.job[Head(s.pool.queue)].status \in {"resolved", "rejected"},
         n.job[Head(s.pool.queue)].client = s.job[Head(s.pool.queue)].client,
         \A i \in Jobs \ {Head(s.pool.queue)} : n.job[i] = s.job[i],
         n.lease[Head(s.pool.queue)].releases = 1,
         \A i \in Jobs \ {Head(s.pool.queue)} : n.lease[i] = s.lease[i],
         n.pool.queue = Tail(s.pool.queue), n.pool.inFlight = s.pool.inFlight,
         n.pool.initializing = s.pool.initializing, n.pool.shuttingDown = s.pool.shuttingDown,
         n.pool.worker = s.pool.worker, n.port = s.port, n.thread = s.thread
  PROVE  Keeps(s, n)
<1> DEFINE j == Head(s.pool.queue)
<1>1. j \in Jobs /\ s.job[j].status = "queued" /\ s.pool.inFlight = None /\ s.pool.initializing = None
  BY QueueHead DEF Waits
<1>2. Queued(n)
  <2> DEFINE rest == Tail(s.pool.queue)
  <2>1. \A i \in 1 .. Len(rest) :
          /\ rest[i] \in Jobs \ {j} /\ s.job[rest[i]].status = "queued"
          /\ \A k \in 1 .. Len(rest) : rest[i] = rest[k] => i = k
    BY QueueHead
  <2>2. n.pool.queue = rest
    OBVIOUS
  <2> HIDE DEF rest, j
  <2>3. \A i \in Jobs \ {j} : n.job[i] = s.job[i]
    BY DEF j
  <2>4. \A i \in 1 .. Len(rest) : n.job[rest[i]].status = "queued"
    BY <2>1, <2>3
  <2> QED
    BY <2>1, <2>2, <2>4 DEF Queued
<1>3. \A i \in Jobs : n.job[i].status = "inFlight" <=> n.pool.inFlight = i
  BY <1>1 DEF Core
<1>4. \A i \in Jobs : LeaseOK(n.job[i].status, n.lease[i])
  <2>1. LeaseOK(n.job[j].status, n.lease[j])
    BY DEF LeaseOK
  <2> QED
    BY <2>1 DEF Core
<1>5. Progresses(s, n)
  BY <1>1 DEF Progresses, Unanswered
<1>6. Core(n)
  BY <1>1, <1>2, <1>3, <1>4, <1>5, GivenKeeps DEF Core, Waits
<1>7. Token(s) => Token(n)
  <2>1. Sent(n) = Sent(s) /\ AtWork(n) = AtWork(s) /\ Answers(n) = Answers(s)
    BY DEF Sent, AtWork, Answers
  <2>2. Token(s) => Sent(s) = {} /\ AtWork(s) = {} /\ Answers(s) = {}
    BY <1>1, ClientLibraries DEF Token, InOnePlace
  <2> QED
    BY <2>1, <2>2 DEF Token, InOnePlace, Released
<1> QED
  BY <1>5, <1>6, <1>7 DEF Keeps

\* Only what a note of the pool says changes.
LEMMA NotesKeep ==
  ASSUME NEW s, Core(s), NEW n \in States,
         n.job = s.job, n.lease = s.lease, n.port = s.port, n.thread = s.thread,
         n.pool.queue = s.pool.queue, n.pool.inFlight = s.pool.inFlight,
         n.pool.initializing \in {s.pool.initializing, None},
         n.pool.shuttingDown = s.pool.shuttingDown, n.pool.worker = s.pool.worker
  PROVE  Keeps(s, n)
<1>1. Queued(n)
  BY DEF Core, Queued
<1>2. Core(n) /\ Progresses(s, n)
  BY <1>1 DEF Core, Waits, Given, Progresses, Unanswered
<1> QED
  BY <1>2 DEF Keeps, Token, InOnePlace, Released, Sent, AtWork, Answers

LEMMA KeepsTrans ==
  ASSUME NEW s, NEW m, NEW n, Keeps(s, m), Keeps(m, n)
  PROVE  Keeps(s, n)
BY DEF Keeps, Progresses, Unanswered

LEMMA KeepsSelf == ASSUME NEW s, Core(s) PROVE Keeps(s, s)
BY DEF Keeps, Progresses

\* A note of the pool's own fields.
LEMMA PoolIs ==
  ASSUME NEW s \in States, NEW pool1 \in Pools
  PROVE  LET n == [s EXCEPT !.pool = pool1]
         IN  /\ n \in States /\ n.pool = pool1
             /\ n.job = s.job /\ n.lease = s.lease /\ n.port = s.port /\ n.thread = s.thread
BY DEF States

LEMMA FailureKeeps ==
  ASSUME NEW s, Core(s)
  PROVE  LET n == [s EXCEPT !.pool.failure = TRUE]
         IN  Keeps(s, n) /\ n.pool.queue = s.pool.queue /\ Waits(n) = Waits(s)
<1> DEFINE pool1 == [s.pool EXCEPT !.failure = TRUE]
           n == [s EXCEPT !.pool = pool1]
<1>1. /\ pool1 \in Pools /\ pool1.queue = s.pool.queue /\ pool1.inFlight = s.pool.inFlight
      /\ pool1.initializing = s.pool.initializing /\ pool1.shuttingDown = s.pool.shuttingDown
      /\ pool1.worker = s.pool.worker
  BY DEF Core, States, Pools
<1> HIDE DEF pool1
<1>2. /\ n \in States /\ n.pool = pool1
      /\ n.job = s.job /\ n.lease = s.lease /\ n.port = s.port /\ n.thread = s.thread
  BY <1>1, PoolIs DEF Core
<1> HIDE DEF n
<1>3. Keeps(s, n) /\ n.pool.queue = s.pool.queue /\ Waits(n) = Waits(s)
  BY <1>1, <1>2, NotesKeep DEF Waits
<1> QED
  BY <1>3 DEF n, pool1

LEMMA RunSynchronousKeeps ==
  ASSUME NEW s, Core(s), s.pool.queue # <<>>, ~Waits(s), NEW n \in RunSynchronous(s)
  PROVE  Keeps(s, n)
<1> DEFINE j == Head(s.pool.queue)
           d == Dequeue(s)
           r == Release(d, j)
           done == [r EXCEPT !.pool.tick = TRUE]
<1>1. j \in Jobs /\ s.job[j].status = "queued" /\ s \in States
  BY QueueHead DEF Core
<1>2. PICK status \in {"resolved", "rejected"} : n = Settle(done, j, status)
  BY DEF RunSynchronous
<1>3. /\ d \in States /\ d.pool = [s.pool EXCEPT !.queue = Tail(@)]
      /\ d.job = s.job /\ d.lease = s.lease /\ d.port = s.port /\ d.thread = s.thread
  BY <1>1, DequeueIs
<1> HIDE DEF d, j
<1>4. /\ r \in States
      /\ r.pool = d.pool /\ r.job = d.job /\ r.port = d.port /\ r.thread = d.thread
      /\ r.lease[j].releases = d.lease[j].releases + 1
      /\ \A i \in Jobs \ {j} : r.lease[i] = d.lease[i]
  BY <1>1, <1>3, ReleaseIs
<1> HIDE DEF r
<1>5. /\ done \in States /\ done.pool = [r.pool EXCEPT !.tick = TRUE]
      /\ done.job = r.job /\ done.lease = r.lease /\ done.port = r.port /\ done.thread = r.thread
  BY <1>4 DEF States, Pools
<1> HIDE DEF done
<1>6. /\ n \in States /\ n.pool = done.pool /\ n.lease = done.lease /\ n.port = done.port
      /\ n.thread = done.thread /\ n.job[j].status = status /\ n.job[j].client = done.job[j].client
      /\ \A i \in Jobs \ {j} : n.job[i] = done.job[i]
  <2>1. status \in Statuses
    BY DEF Statuses
  <2> QED
    BY <1>1, <1>2, <1>5, <2>1, SettleIs
<1>7. s.lease[j].releases = 0
  BY <1>1 DEF Core, LeaseOK
<1>8. /\ n.pool.queue = Tail(s.pool.queue) /\ n.pool.inFlight = s.pool.inFlight
      /\ n.pool.initializing = s.pool.initializing /\ n.pool.shuttingDown = s.pool.shuttingDown
      /\ n.pool.worker = s.pool.worker
  BY <1>1, <1>3, <1>4, <1>5, <1>6 DEF States, Pools
<1>9. n.lease[j].releases = 1
  BY <1>3, <1>4, <1>5, <1>6, <1>7
<1>10. /\ n.port = s.port /\ n.thread = s.thread /\ n.job[j].client = s.job[j].client
       /\ \A i \in Jobs \ {j} : n.job[i] = s.job[i]
       /\ \A i \in Jobs \ {j} : n.lease[i] = s.lease[i]
  BY <1>3, <1>4, <1>5, <1>6
<1> QED
  BY <1>6, <1>8, <1>9, <1>10, HeadSettled DEF j

LEMMA FallBackKeeps ==
  ASSUME NEW s, Core(s), ~Waits(s), NEW n \in FallBack(s)
  PROVE  Keeps(s, n)
BY RunSynchronousKeeps, KeepsSelf DEF FallBack

\* A message that says nothing of a job is posted.
LEMMA PostKeeps ==
  ASSUME NEW s, Core(s), s.pool.queue # <<>>, s.pool.worker, ~s.pool.shuttingDown,
         NEW library \in Libraries, NEW n \in States,
         n.job = s.job, n.lease = s.lease, n.thread = s.thread, n.port.toMain = s.port.toMain,
         n.port.toWorker = Append(s.port.toWorker, [type |-> "initialize", library |-> library]),
         n.pool.queue = s.pool.queue, n.pool.inFlight = s.pool.inFlight,
         n.pool.shuttingDown = s.pool.shuttingDown, n.pool.worker = s.pool.worker
  PROVE  Keeps(s, n)
<1> DEFINE message == [type |-> "initialize", library |-> library]
<1>1. message \in WorkerMessage /\ message.type = "initialize"
  BY DEF WorkerMessage
<1>2. s.port.toWorker \in Seq(WorkerMessage)
  BY DEF Core, States, Ports
<1>3. n.port.toWorker = Append(s.port.toWorker, message)
  OBVIOUS
<1> HIDE DEF message
<1>4. /\ Has(n.port.toWorker, "shutdown") => Has(s.port.toWorker, "shutdown")
      /\ JobsOf(n.port.toWorker, "convert") = JobsOf(s.port.toWorker, "convert")
      /\ OnlyOne(s.port.toWorker, "convert") => OnlyOne(n.port.toWorker, "convert")
  BY <1>1, <1>2, <1>3, AppendMessages
<1>5. Queued(n)
  BY DEF Core, Queued
<1>6. Core(n) /\ Progresses(s, n)
  BY <1>4, <1>5 DEF Core, Given, Progresses, Unanswered
<1> QED
  BY <1>4, <1>6 DEF Keeps, Token, InOnePlace, Released, Sent, AtWork, Answers

LEMMA InitializeKeeps ==
  ASSUME NEW s, Core(s), s.pool.queue # <<>>, ~Waits(s), s.pool.worker, ~s.pool.shuttingDown,
         NEW library \in Libraries, NEW n \in Initialize(s, library)
  PROVE  Keeps(s, n)
<1> DEFINE pool1 == [s.pool EXCEPT !.initializing = library]
           i == [s EXCEPT !.pool = pool1]
           message == [type |-> "initialize", library |-> library]
           f == [s EXCEPT !.pool.failure = TRUE]
<1>1. n = Post(i, message) \/ n \in FallBack(f)
  BY DEF Initialize
<1>2. CASE n = Post(i, message)
  <2>1. /\ pool1 \in Pools /\ pool1.queue = s.pool.queue /\ pool1.inFlight = s.pool.inFlight
        /\ pool1.shuttingDown = s.pool.shuttingDown /\ pool1.worker = s.pool.worker
    BY DEF Core, States, Pools
  <2> HIDE DEF pool1
  <2>2. /\ i \in States /\ i.pool = pool1
        /\ i.job = s.job /\ i.lease = s.lease /\ i.port = s.port /\ i.thread = s.thread
    BY <2>1, PoolIs DEF Core
  <2>3. message \in WorkerMessage
    BY DEF WorkerMessage
  <2> HIDE DEF i
  <2>4. /\ Post(i, message) \in States
        /\ n.pool = i.pool /\ n.job = i.job /\ n.lease = i.lease /\ n.thread = i.thread
        /\ n.port.toMain = i.port.toMain
        /\ n.port.toWorker = Append(i.port.toWorker, message)
    BY <1>2, <2>2, <2>3, PostIs
  <2> QED
    BY <1>2, <2>1, <2>2, <2>4, PostKeeps
<1>3. CASE n \in FallBack(f)
  <2>1. Keeps(s, f) /\ ~Waits(f)
    BY FailureKeeps
  <2> HIDE DEF f
  <2>2. Keeps(f, n)
    BY <1>3, <2>1, FallBackKeeps DEF Keeps
  <2> QED
    BY <2>1, <2>2, KeepsTrans
<1> QED
  BY <1>1, <1>2, <1>3

\* The head of the queue goes to the worker.
LEMMA SentKeeps ==
  ASSUME NEW s, Core(s), s.pool.queue # <<>>, ~Waits(s), s.pool.worker, ~s.pool.shuttingDown,
         NEW n \in States,
         n.job[Head(s.pool.queue)].status = "inFlight",
         n.job[Head(s.pool.queue)].client = s.job[Head(s.pool.queue)].client,
         \A i \in Jobs \ {Head(s.pool.queue)} : n.job[i] = s.job[i],
         n.lease = s.lease, n.thread = s.thread, n.port.toMain = s.port.toMain,
         n.port.toWorker = Append(s.port.toWorker, [type |-> "convert", job |-> Head(s.pool.queue)]),
         n.pool.queue = Tail(s.pool.queue), n.pool.inFlight = Head(s.pool.queue),
         n.pool.initializing = s.pool.initializing, n.pool.shuttingDown = s.pool.shuttingDown,
         n.pool.worker = s.pool.worker
  PROVE  Keeps(s, n)
<1> DEFINE j == Head(s.pool.queue)
           message == [type |-> "convert", job |-> j]
<1>1. /\ j \in Jobs /\ s.job[j].status = "queued"
      /\ s.pool.inFlight = None /\ s.pool.initializing = None
  BY QueueHead DEF Waits
<1>2. message \in WorkerMessage /\ message.type = "convert" /\ message.job = j
  BY <1>1 DEF WorkerMessage
<1>3. s.port.toWorker \in Seq(WorkerMessage)
  BY DEF Core, States, Ports
<1>4. n.port.toWorker = Append(s.port.toWorker, message)
  OBVIOUS
<1> HIDE DEF message
<1>5. /\ Has(n.port.toWorker, "shutdown") => Has(s.port.toWorker, "shutdown")
      /\ JobsOf(n.port.toWorker, "convert") = JobsOf(s.port.toWorker, "convert") \cup {j}
      /\ OnlyOne(s.port.toWorker, "convert") /\ JobsOf(s.port.toWorker, "convert") = {}
           => OnlyOne(n.port.toWorker, "convert")
  BY <1>1, <1>3, <1>4, ConvertPosted, SMTT(60) DEF message
<1>6. Queued(n)
  <2> DEFINE rest == Tail(s.pool.queue)
  <2>1. \A i \in 1 .. Len(rest) :
          /\ rest[i] \in Jobs \ {j} /\ s.job[rest[i]].status = "queued"
          /\ \A k \in 1 .. Len(rest) : rest[i] = rest[k] => i = k
    BY QueueHead
  <2>2. n.pool.queue = rest
    OBVIOUS
  <2> HIDE DEF rest, j
  <2>3. \A i \in Jobs \ {j} : n.job[i] = s.job[i]
    BY DEF j
  <2>4. \A i \in 1 .. Len(rest) : n.job[rest[i]].status = "queued"
    BY <2>1, <2>3
  <2> QED
    BY <2>1, <2>2, <2>4, ZenonT(60) DEF Queued
<1>7. \A i \in Jobs : n.job[i].status = "inFlight" <=> n.pool.inFlight = i
  BY <1>1, ClientLibraries DEF Core
<1>8. \A i \in Jobs : LeaseOK(n.job[i].status, n.lease[i])
  <2>1. LeaseOK(n.job[j].status, n.lease[j])
    BY <1>1 DEF LeaseOK, Core
  <2> QED
    BY <2>1 DEF Core
<1>9. Progresses(s, n) /\ Core(n)
  <2>1. Progresses(s, n)
    BY <1>1 DEF Progresses, Unanswered
  <2> QED
    BY <1>1, <1>5, <1>6, <1>7, <1>8, <2>1, GivenKeeps DEF Core
<1>10. ASSUME Token(s) PROVE Token(n)
  <2>1. Sent(s) = {} /\ AtWork(s) = {} /\ Answers(s) = {}
    BY <1>1, <1>10, ClientLibraries DEF Token, InOnePlace
  <2>2. Sent(n) = {j} /\ AtWork(n) = {} /\ Answers(n) = {}
    BY <1>5, <2>1 DEF Sent, AtWork, Answers
  <2>3. InOnePlace(n)
    BY <1>1, <1>5, <1>10, <2>1, <2>2 DEF Token, InOnePlace, Sent
  <2>4. Released(n)
    BY <1>1, <2>2 DEF Released, Holds, Core, LeaseOK
  <2> QED
    BY <2>3, <2>4 DEF Token
<1> QED
  BY <1>9, <1>10 DEF Keeps

LEMMA DispatchKeeps ==
  ASSUME NEW s, Core(s), s.pool.queue # <<>>, ~Waits(s), s.pool.worker, ~s.pool.shuttingDown,
         NEW n \in Dispatch(s, Head(s.pool.queue))
  PROVE  Keeps(s, n)
<1> DEFINE j == Head(s.pool.queue)
           taken == Dequeue(s)
           flying == [taken EXCEPT !.pool.inFlight = j]
           settled == Settle(flying, j, "inFlight")
           message == [type |-> "convert", job |-> j]
           closed == Settle(Release(taken, j), j, "rejected")
           noOutput == [closed EXCEPT !.pool.tick = TRUE]
           unsent == [Settle(Backstop(taken, j), j, "rejected") EXCEPT !.pool.failure = TRUE]
<1>1. /\ j \in Jobs /\ s.job[j].status = "queued" /\ s \in States
      /\ s.lease[j].word = "owned" /\ s.lease[j].releases = 0
  BY QueueHead DEF Core, LeaseOK
<1>2. n = Post(settled, message) \/ n = noOutput \/ n \in FallBack(unsent)
  BY DEF Dispatch
<1>3. /\ taken \in States /\ taken.pool = [s.pool EXCEPT !.queue = Tail(@)]
      /\ taken.job = s.job /\ taken.lease = s.lease /\ taken.port = s.port /\ taken.thread = s.thread
  BY <1>1, DequeueIs
<1>4. /\ taken.pool.queue = Tail(s.pool.queue) /\ taken.pool.inFlight = s.pool.inFlight
      /\ taken.pool.initializing = s.pool.initializing /\ taken.pool.shuttingDown = s.pool.shuttingDown
      /\ taken.pool.worker = s.pool.worker
  BY <1>1, <1>3 DEF States, Pools
<1> HIDE DEF taken, j
<1>5. CASE n = Post(settled, message)
  <2>1. /\ flying \in States /\ flying.pool = [taken.pool EXCEPT !.inFlight = j]
        /\ flying.job = taken.job /\ flying.lease = taken.lease /\ flying.port = taken.port
        /\ flying.thread = taken.thread
    BY <1>1, <1>3 DEF States, Pools
  <2> HIDE DEF flying
  <2>2. /\ settled \in States /\ settled.pool = flying.pool /\ settled.lease = flying.lease
        /\ settled.port = flying.port /\ settled.thread = flying.thread
        /\ settled.job[j].status = "inFlight" /\ settled.job[j].client = flying.job[j].client
        /\ \A i \in Jobs \ {j} : settled.job[i] = flying.job[i]
    <3>1. "inFlight" \in Statuses
      BY DEF Statuses
    <3> QED
      BY <1>1, <2>1, <3>1, SettleIs
  <2> HIDE DEF settled
  <2>3. message \in WorkerMessage
    BY <1>1 DEF WorkerMessage
  <2>4. /\ n \in States
        /\ n.pool = settled.pool /\ n.job = settled.job /\ n.lease = settled.lease
        /\ n.thread = settled.thread /\ n.port.toMain = settled.port.toMain
        /\ n.port.toWorker = Append(settled.port.toWorker, message)
    BY <1>5, <2>2, <2>3, PostIs
  <2>5. /\ n.pool.queue = taken.pool.queue /\ n.pool.inFlight = j
        /\ n.pool.initializing = taken.pool.initializing
        /\ n.pool.shuttingDown = taken.pool.shuttingDown /\ n.pool.worker = taken.pool.worker
    BY <1>3, <2>1, <2>2, <2>4 DEF States, Pools
  <2>6. /\ n.job[j].status = "inFlight" /\ n.job[j].client = s.job[j].client
        /\ \A i \in Jobs \ {j} : n.job[i] = s.job[i]
        /\ n.lease = s.lease /\ n.thread = s.thread /\ n.port.toMain = s.port.toMain
        /\ n.port.toWorker = Append(s.port.toWorker, message)
    BY <1>3, <2>1, <2>2, <2>4
  <2> QED
    BY <1>4, <2>4, <2>5, <2>6, SentKeeps DEF j
<1>6. CASE n = noOutput
  <2> DEFINE r == Release(taken, j)
  <2>1. /\ r \in States
        /\ r.pool = taken.pool /\ r.job = taken.job /\ r.port = taken.port /\ r.thread = taken.thread
        /\ r.lease[j].releases = taken.lease[j].releases + 1
        /\ \A i \in Jobs \ {j} : r.lease[i] = taken.lease[i]
    BY <1>1, <1>3, ReleaseIs
  <2> HIDE DEF r
  <2>2. /\ closed \in States /\ closed.pool = r.pool /\ closed.lease = r.lease
        /\ closed.port = r.port /\ closed.thread = r.thread
        /\ closed.job[j].status = "rejected" /\ closed.job[j].client = r.job[j].client
        /\ \A i \in Jobs \ {j} : closed.job[i] = r.job[i]
    <3>1. "rejected" \in Statuses /\ closed = Settle(r, j, "rejected")
      BY DEF Statuses, r
    <3> HIDE DEF closed
    <3> QED
      BY <1>1, <2>1, <3>1, SettleIs
  <2> HIDE DEF closed
  <2>3. /\ n \in States /\ n.pool = [closed.pool EXCEPT !.tick = TRUE]
        /\ n.job = closed.job /\ n.lease = closed.lease /\ n.port = closed.port /\ n.thread = closed.thread
    BY <1>6, <2>2 DEF States, Pools
  <2>4. /\ n.pool.queue = taken.pool.queue /\ n.pool.inFlight = taken.pool.inFlight
        /\ n.pool.initializing = taken.pool.initializing
        /\ n.pool.shuttingDown = taken.pool.shuttingDown /\ n.pool.worker = taken.pool.worker
    BY <1>3, <2>1, <2>2, <2>3 DEF States, Pools
  <2>5. /\ n.port = s.port /\ n.thread = s.thread /\ n.lease[j].releases = 1
        /\ n.job[j].status = "rejected" /\ n.job[j].client = s.job[j].client
        /\ \A i \in Jobs \ {j} : n.job[i] = s.job[i]
        /\ \A i \in Jobs \ {j} : n.lease[i] = s.lease[i]
    BY <1>1, <1>3, <2>1, <2>2, <2>3
  <2>6. /\ n.pool.queue = Tail(s.pool.queue) /\ n.pool.inFlight = s.pool.inFlight
        /\ n.pool.initializing = s.pool.initializing /\ n.pool.shuttingDown = s.pool.shuttingDown
        /\ n.pool.worker = s.pool.worker /\ n.job[j].status \in {"resolved", "rejected"}
    BY <1>4, <2>4, <2>5
  <2> QED
    BY <2>3, <2>5, <2>6, HeadSettled DEF j
<1>7. CASE n \in FallBack(unsent)
  <2> DEFINE b == Backstop(taken, j)
             c == Settle(b, j, "rejected")
  <2>1. /\ b \in States
        /\ b.pool = taken.pool /\ b.job = taken.job /\ b.port = taken.port /\ b.thread = taken.thread
        /\ b.lease[j].releases = taken.lease[j].releases + 1
        /\ \A i \in Jobs \ {j} : b.lease[i] = taken.lease[i]
    BY <1>1, <1>3, BackstopIs
  <2> HIDE DEF b
  <2>2. /\ c \in States /\ c.pool = b.pool /\ c.lease = b.lease
        /\ c.port = b.port /\ c.thread = b.thread
        /\ c.job[j].status = "rejected" /\ c.job[j].client = b.job[j].client
        /\ \A i \in Jobs \ {j} : c.job[i] = b.job[i]
    <3>1. "rejected" \in Statuses
      BY DEF Statuses
    <3> QED
      BY <1>1, <2>1, <3>1, SettleIs
  <2>3. unsent = [c EXCEPT !.pool.failure = TRUE]
    BY DEF b
  <2> HIDE DEF c
  <2>4. Keeps(s, c) /\ ~Waits(c)
    <3>1. /\ c.port = s.port /\ c.thread = s.thread /\ c.lease[j].releases = 1
          /\ c.job[j].status = "rejected" /\ c.job[j].client = s.job[j].client
          /\ \A i \in Jobs \ {j} : c.job[i] = s.job[i]
          /\ \A i \in Jobs \ {j} : c.lease[i] = s.lease[i]
      BY <1>1, <1>3, <2>1, <2>2
    <3>2. c.pool = taken.pool
      BY <2>1, <2>2
    <3> QED
      BY <1>4, <2>2, <3>1, <3>2, HeadSettled, ZenonT(60) DEF j, Waits
  <2>5. Keeps(c, unsent) /\ ~Waits(unsent)
    BY <2>3, <2>4, FailureKeeps DEF Keeps
  <2> HIDE DEF unsent
  <2>6. Keeps(unsent, n)
    BY <1>7, <2>5, FallBackKeeps DEF Keeps
  <2> QED
    BY <2>4, <2>5, <2>6, KeepsTrans
<1> QED
  BY <1>2, <1>5, <1>6, <1>7

\* A worker is there, if need be a new one.
LEMMA StartedKeeps ==
  ASSUME NEW s, Core(s)
  PROVE  LET n == [s EXCEPT !.pool.worker = TRUE,
                            !.thread.state = IF s.pool.worker THEN @ ELSE "idle"]
         IN  /\ Keeps(s, n) /\ n.pool.worker
             /\ n.pool.queue = s.pool.queue /\ n.pool.shuttingDown = s.pool.shuttingDown
             /\ Waits(n) = Waits(s)
<1> DEFINE pool1 == [s.pool EXCEPT !.worker = TRUE]
           state1 == IF s.pool.worker THEN s.thread.state ELSE "idle"
           thread1 == [s.thread EXCEPT !.state = state1]
           m == [s EXCEPT !.pool = pool1]
           n == [m EXCEPT !.thread = thread1]
<1>1. /\ s \in States /\ s.pool \in Pools /\ s.thread \in Threads
      /\ ~s.pool.worker => s.thread = NoThread /\ s.port = NoPort
  BY DEF Core, States
<1>2. /\ pool1 \in Pools /\ pool1.queue = s.pool.queue /\ pool1.inFlight = s.pool.inFlight
      /\ pool1.initializing = s.pool.initializing /\ pool1.shuttingDown = s.pool.shuttingDown
      /\ pool1.worker
  BY <1>1 DEF Pools
<1>3. thread1 \in Threads /\ thread1.state = state1 /\ thread1.job = s.thread.job
  BY <1>1 DEF Threads
<1>4. [s EXCEPT !.pool.worker = TRUE, !.thread.state = IF s.pool.worker THEN @ ELSE "idle"] = n
  BY <1>1 DEF States
<1>5. /\ m \in States /\ m.pool = pool1 /\ m.thread = s.thread
      /\ m.job = s.job /\ m.lease = s.lease /\ m.port = s.port
  BY <1>1, <1>2, PoolIs
<1> HIDE DEF pool1, thread1, m
<1>6. /\ n \in States /\ n.pool = pool1 /\ n.thread = thread1
      /\ n.job = s.job /\ n.lease = s.lease /\ n.port = s.port
  BY <1>3, <1>5 DEF States
<1> HIDE DEF n
<1>7. Queued(n)
  BY <1>2, <1>6 DEF Core, Queued
<1>8. Core(n)
  BY <1>2, <1>6, <1>7 DEF Core, Waits, Given, Unanswered
<1>9. AtWork(n) = AtWork(s) /\ (AtWork(s) # {} => n.thread.state = s.thread.state)
  BY <1>1, <1>3, <1>6 DEF AtWork, NoThread
<1>10. Token(s) => Token(n)
  BY <1>2, <1>6, <1>9 DEF Token, InOnePlace, Released, Sent, Answers
<1>11. Keeps(s, n)
  BY <1>6, <1>8, <1>10 DEF Keeps, Progresses, Unanswered
<1> QED
  BY <1>2, <1>4, <1>6, <1>11 DEF Waits

LEMMA ProcessQueueKeeps ==
  ASSUME NEW s, Core(s), NEW n \in ProcessQueue(s)
  PROVE  Keeps(s, n)
<1>1. CASE Waits(s) \/ s.pool.queue = <<>>
  BY <1>1, KeepsSelf DEF ProcessQueue
<1>2. CASE ~Waits(s) /\ s.pool.queue # <<>>
  <2> DEFINE j == Head(s.pool.queue)
             library == LibraryOf[s.job[j].client]
             started == [s EXCEPT !.pool.worker = TRUE,
                                  !.thread.state = IF s.pool.worker THEN @ ELSE "idle"]
             failed == [s EXCEPT !.pool.failure = TRUE]
  <2>1. CASE n \in RunSynchronous(s)
    BY <1>2, <2>1, RunSynchronousKeeps
  <2>2. CASE n \in RunSynchronous(failed)
    <3>1. Keeps(s, failed) /\ failed.pool.queue = s.pool.queue /\ Waits(failed) = Waits(s)
      BY FailureKeeps
    <3> HIDE DEF failed
    <3>2. Keeps(failed, n)
      BY <1>2, <2>2, <3>1, RunSynchronousKeeps DEF Keeps
    <3> QED
      BY <3>1, <3>2, KeepsTrans
  <2>3. CASE /\ ~s.pool.shuttingDown /\ s.job[j].client \notin Synchronous
             /\ n \in Dispatch(started, j) \/ n \in Initialize(started, library)
    <3>1. /\ Keeps(s, started) /\ started.pool.worker
          /\ started.pool.queue = s.pool.queue /\ started.pool.shuttingDown = s.pool.shuttingDown
          /\ Waits(started) = Waits(s)
      BY StartedKeeps
    <3> HIDE DEF started
    <3>2. Core(started)
      BY <3>1 DEF Keeps
    <3>3. CASE n \in Dispatch(started, j)
      <4>1. Keeps(started, n)
        BY <1>2, <2>3, <3>1, <3>2, <3>3, DispatchKeeps
      <4> QED
        BY <3>1, <4>1, KeepsTrans
    <3>4. CASE n \in Initialize(started, library) /\ library \in Libraries
      <4>1. Keeps(started, n)
        BY <1>2, <2>3, <3>1, <3>2, <3>4, InitializeKeeps
      <4> QED
        BY <3>1, <4>1, KeepsTrans
    <3>5. library \in Libraries
      BY <1>2, QueueHead, ClientLibraries DEF Core, Given, Unanswered
    <3> QED
      BY <2>3, <3>3, <3>4, <3>5
  <2> QED
    BY <1>2, <2>1, <2>2, <2>3 DEF ProcessQueue
<1> QED
  BY <1>1, <1>2

(***************************************************************************)
(* The conversion in flight is over.                                       *)
(***************************************************************************)
Quiet(s) == Sent(s) = {} /\ AtWork(s) = {} /\ Answers(s) = {}

LEMMA QuietToken == ASSUME NEW s, Quiet(s) PROVE Token(s)
BY DEF Quiet, Token, InOnePlace, Released, Sent, AtWork, Answers, JobsOf, OnlyOne

LEMMA InFlightSettled ==
  ASSUME NEW s, Core(s), NEW j \in Jobs, s.pool.inFlight = j, NEW n \in States,
         n.job[j].status \in {"resolved", "rejected"}, n.job[j].client = s.job[j].client,
         \A i \in Jobs \ {j} : n.job[i] = s.job[i],
         LeaseOK(n.job[j].status, n.lease[j]),
         \A i \in Jobs \ {j} : n.lease[i] = s.lease[i],
         n.pool.queue = s.pool.queue, n.pool.inFlight = None,
         n.pool.initializing \in {s.pool.initializing, None},
         n.pool.shuttingDown = s.pool.shuttingDown, n.pool.worker = s.pool.worker,
         n.port = s.port, n.thread = s.thread
  PROVE  Core(n) /\ Progresses(s, n) /\ (Quiet(s) => Token(n))
<1>1. s.job[j].status = "inFlight"
  BY DEF Core
<1>2. Queued(n)
  <2>1. s.pool.queue \in Seq(Jobs) /\ Queued(s)
    BY DEF Core, States, Pools
  <2>2. \A i \in 1 .. Len(s.pool.queue) : s.pool.queue[i] \in Jobs \ {j}
    BY <1>1, <2>1 DEF Queued
  <2> QED
    BY <2>1, <2>2 DEF Queued
<1>3. Progresses(s, n)
  BY <1>1 DEF Progresses, Unanswered
<1>4. \A i \in Jobs : n.job[i].status = "inFlight" <=> n.pool.inFlight = i
  BY <1>1, ClientLibraries DEF Core
<1>5. \A i \in Jobs : LeaseOK(n.job[i].status, n.lease[i])
  BY DEF Core
<1>6. Core(n)
  BY <1>2, <1>3, <1>4, <1>5, GivenKeeps DEF Core, Waits
<1>7. Quiet(s) => Quiet(n)
  BY DEF Quiet, Sent, AtWork, Answers
<1> QED
  BY <1>3, <1>6, <1>7, QuietToken

\* failWorker goes on with processQueue, on a state m without a conversion in flight.
LEMMA WorkerLost ==
  ASSUME NEW s, Core(s)
  PROVE  \E m : /\ FailWorker(s) = ProcessQueue(m)
                /\ Core(m) /\ Progresses(s, m) /\ (Quiet(s) => Token(m))
                /\ m.port = s.port /\ m.thread = s.thread
                /\ m.pool.shuttingDown = s.pool.shuttingDown
<1> DEFINE pool1 == [s.pool EXCEPT !.failure = TRUE, !.initializing = None, !.inFlight = None]
           f == [s EXCEPT !.pool = pool1]
           j == s.pool.inFlight
           b == Backstop(f, j)
           m == Settle(b, j, "rejected")
<1>1. /\ pool1 \in Pools /\ pool1.queue = s.pool.queue /\ pool1.inFlight = None
      /\ pool1.initializing = None /\ pool1.shuttingDown = s.pool.shuttingDown
      /\ pool1.worker = s.pool.worker /\ j \in Jobs \cup {None}
  BY DEF Core, States, Pools
<1>2. FailWorker(s) = ProcessQueue(IF j = None THEN f ELSE m)
  <2> DEFINE failed == [s EXCEPT !.pool.failure = TRUE, !.pool.initializing = None,
                                 !.pool.inFlight = None]
  <2>1. failed = f
    BY DEF Core, States, Pools
  <2>2. FailWorker(s) = ProcessQueue(IF j = None THEN failed
                                     ELSE Settle(Backstop(failed, j), j, "rejected"))
    BY Zenon DEF FailWorker
  <2> HIDE DEF failed, f, j
  <2> QED
    BY <2>1, <2>2
<1> HIDE DEF pool1, j
<1>3. /\ f \in States /\ f.pool = pool1
      /\ f.job = s.job /\ f.lease = s.lease /\ f.port = s.port /\ f.thread = s.thread
  BY <1>1, PoolIs DEF Core
<1> HIDE DEF f
<1>4. CASE j = None
  <2>1. Keeps(s, f)
    BY <1>1, <1>3, <1>4, NotesKeep DEF j
  <2> QED
    BY <1>1, <1>2, <1>3, <1>4, <2>1, QuietToken DEF Keeps
<1>5. CASE j # None
  <2>1. /\ b \in States
        /\ b.pool = f.pool /\ b.job = f.job /\ b.port = f.port /\ b.thread = f.thread
        /\ f.lease[j].word # "owned" => b = f
        /\ f.lease[j].word = "owned" =>
             b.lease[j].releases = f.lease[j].releases + 1 /\ b.lease[j].word = "released"
        /\ \A i \in Jobs \ {j} : b.lease[i] = f.lease[i]
    BY <1>1, <1>3, <1>5, BackstopIs
  <2> HIDE DEF b
  <2>2. /\ m \in States /\ m.pool = b.pool /\ m.lease = b.lease
        /\ m.port = b.port /\ m.thread = b.thread
        /\ m.job[j].status = "rejected" /\ m.job[j].client = b.job[j].client
        /\ \A i \in Jobs \ {j} : m.job[i] = b.job[i]
    <3>1. "rejected" \in Statuses
      BY DEF Statuses
    <3> QED
      BY <1>1, <1>5, <2>1, <3>1, SettleIs
  <2> HIDE DEF m
  <2>3. LeaseOK(m.job[j].status, m.lease[j])
    <3>1. s.job[j].status = "inFlight" /\ LeaseOK("inFlight", s.lease[j]) /\ s.lease[j] \in LeaseRecord
      BY <1>1, <1>5 DEF Core, States, j
    <3>2. m.lease[j] = b.lease[j] /\ f.lease[j] = s.lease[j]
      BY <1>3, <2>2
    <3>3. CASE s.lease[j].word = "owned"
      BY <2>1, <2>2, <3>1, <3>2, <3>3 DEF LeaseOK
    <3>4. CASE s.lease[j].word # "owned"
      BY <2>1, <2>2, <3>1, <3>2, <3>4 DEF LeaseOK, LeaseRecord
    <3> QED
      BY <3>3, <3>4
  <2>4. /\ s.pool.inFlight = j /\ j \in Jobs
        /\ m.job[j].client = s.job[j].client
        /\ \A i \in Jobs \ {j} : m.job[i] = s.job[i]
        /\ \A i \in Jobs \ {j} : m.lease[i] = s.lease[i]
        /\ m.pool = pool1 /\ m.port = s.port /\ m.thread = s.thread
    BY <1>1, <1>3, <1>5, <2>1, <2>2 DEF j
  <2>5. Core(m) /\ Progresses(s, m) /\ (Quiet(s) => Token(m))
    BY <1>1, <2>2, <2>3, <2>4, InFlightSettled
  <2> QED
    BY <1>1, <1>2, <1>5, <2>4, <2>5
<1> QED
  BY <1>4, <1>5

LEMMA FailWorkerKeeps ==
  ASSUME NEW s, Core(s), NEW n \in FailWorker(s)
  PROVE  Core(n) /\ Progresses(s, n) /\ (Quiet(s) => Token(n))
<1>1. PICK m : n \in ProcessQueue(m) /\ Core(m) /\ Progresses(s, m) /\ (Quiet(s) => Token(m))
  BY WorkerLost
<1>2. Keeps(m, n)
  BY <1>1, ProcessQueueKeeps
<1> QED
  BY <1>1, <1>2 DEF Keeps, Progresses

(***************************************************************************)
(* A worker that is let go leaves nothing behind.                          *)
(***************************************************************************)
LEMMA TerminatedKeeps ==
  ASSUME NEW s, Core(s)
  PROVE  LET n == Terminated(s) IN Core(n) /\ Token(n) /\ Progresses(s, n)
<1> DEFINE pool1 == [s.pool EXCEPT !.worker = FALSE]
           n == [s EXCEPT !.pool = pool1, !.thread = NoThread, !.port = NoPort]
<1>1. /\ pool1 \in Pools /\ pool1.queue = s.pool.queue /\ pool1.inFlight = s.pool.inFlight
      /\ pool1.initializing = s.pool.initializing /\ pool1.shuttingDown = s.pool.shuttingDown
      /\ ~pool1.worker /\ s \in States
  BY DEF Core, States, Pools
<1>2. Terminated(s) = n
  BY DEF Terminated
<1> HIDE DEF pool1
<1>3. NoThread \in Threads /\ NoPort \in Ports
  BY DEF NoThread, NoPort, Threads, Ports
<1>4. /\ n \in States /\ n.pool = pool1 /\ n.thread = NoThread /\ n.port = NoPort
      /\ n.job = s.job /\ n.lease = s.lease
  BY <1>1, <1>3 DEF States
<1> HIDE DEF n
<1>5. Quiet(n)
  BY <1>4, EmptyMessages DEF Quiet, Sent, AtWork, Answers, NoPort, NoThread
<1>6. Progresses(s, n)
  BY <1>4 DEF Progresses, Unanswered
<1>7. ~Has(n.port.toWorker, "shutdown") /\ ~Has(n.port.toMain, "closed")
  BY <1>4, EmptyMessages DEF NoPort
<1>8. Queued(n)
  BY <1>1, <1>4 DEF Core, Queued
<1>9. Core(n)
  BY <1>1, <1>4, <1>6, <1>7, <1>8, GivenKeeps DEF Core, Waits
<1> QED
  BY <1>2, <1>5, <1>6, <1>9, QuietToken

LEMMA FinishedKeeps ==
  ASSUME NEW s, Core(s)
  PROVE  LET n == Finished(s) IN Core(n) /\ Token(n) /\ Progresses(s, n)
<1> DEFINE t == Terminated(s)
           pool1 == [t.pool EXCEPT !.failure = FALSE, !.ready = {}, !.failed = {},
                                   !.initializing = None, !.shuttingDown = FALSE]
           n == [t EXCEPT !.pool = pool1]
<1>1. Core(t) /\ Token(t) /\ Progresses(s, t)
  BY TerminatedKeeps
<1>2. Finished(s) = n
  BY DEF Finished
<1> HIDE DEF t
<1>3. /\ pool1 \in Pools /\ pool1.queue = t.pool.queue /\ pool1.inFlight = t.pool.inFlight
      /\ pool1.initializing = None /\ ~pool1.shuttingDown /\ pool1.worker = t.pool.worker
  BY <1>1 DEF Core, States, Pools
<1> HIDE DEF pool1
<1>4. /\ n \in States /\ n.pool = pool1
      /\ n.job = t.job /\ n.lease = t.lease /\ n.port = t.port /\ n.thread = t.thread
  BY <1>1, <1>3, PoolIs DEF Core
<1> HIDE DEF n
<1>5. Progresses(t, n)
  BY <1>4 DEF Progresses, Unanswered
<1>6. Queued(n)
  BY <1>1, <1>3, <1>4 DEF Core, Queued
<1>7. ~(Has(n.port.toWorker, "shutdown") \/ Has(n.port.toMain, "closed"))
  <2>1. n.port = NoPort
    <3>1. ~t.pool.worker
      BY DEF t, Terminated, Core, States, Pools
    <3> QED
      BY <1>1, <1>4, <3>1 DEF Core
  <2> QED
    BY <2>1, EmptyMessages DEF NoPort
<1>8. Core(n)
  BY <1>1, <1>3, <1>4, <1>5, <1>6, <1>7, GivenKeeps DEF Core
<1>9. Token(n)
  BY <1>1, <1>3, <1>4 DEF Token, InOnePlace, Released, Sent, AtWork, Answers
<1> QED
  BY <1>1, <1>2, <1>5, <1>8, <1>9 DEF Progresses

\* An event of the worker is taken from its port.
LEMMA ReceivedKeeps ==
  ASSUME NEW s, Core(s), s.port.toMain # <<>>
  PROVE  LET n == [s EXCEPT !.port.toMain = Tail(@)]
         IN  /\ Keeps(s, n)
             /\ n.pool = s.pool /\ n.job = s.job /\ n.lease = s.lease /\ n.thread = s.thread
             /\ n.port.toWorker = s.port.toWorker /\ n.port.toMain = Tail(s.port.toMain)
<1> DEFINE port1 == [s.port EXCEPT !.toMain = Tail(@)]
           n == [s EXCEPT !.port = port1]
<1>1. s \in States /\ s.port \in Ports /\ s.port.toMain \in Seq(Event)
  BY DEF Core, States, Ports
<1>2. /\ Tail(s.port.toMain) \in Seq(Event)
      /\ Has(Tail(s.port.toMain), "closed") => Has(s.port.toMain, "closed")
      /\ JobsOf(Tail(s.port.toMain), "complete") \subseteq JobsOf(s.port.toMain, "complete")
      /\ OnlyOne(s.port.toMain, "complete") => OnlyOne(Tail(s.port.toMain), "complete")
  BY <1>1, TailMessages
<1>3. /\ port1 \in Ports /\ port1.toWorker = s.port.toWorker
      /\ port1.toMain = Tail(s.port.toMain)
  BY <1>1, <1>2 DEF Ports
<1> HIDE DEF port1
<1>4. /\ n \in States /\ n.port = port1
      /\ n.pool = s.pool /\ n.job = s.job /\ n.lease = s.lease /\ n.thread = s.thread
  BY <1>1, <1>3 DEF States
<1> HIDE DEF n
<1>5. Progresses(s, n)
  BY <1>4 DEF Progresses, Unanswered
<1>6. Queued(n)
  BY <1>4 DEF Core, Queued
<1>7. s.pool.worker
  BY DEF Core, NoPort
<1>8. Core(n)
  BY <1>2, <1>3, <1>4, <1>5, <1>6, <1>7, GivenKeeps DEF Core, Waits
<1>9. Sent(n) = Sent(s) /\ AtWork(n) = AtWork(s) /\ Answers(n) \subseteq Answers(s)
  BY <1>2, <1>3, <1>4 DEF Sent, AtWork, Answers
<1>10. ASSUME Token(s) PROVE Token(n)
  <2>1. InOnePlace(n)
    BY <1>2, <1>3, <1>4, <1>9, <1>10 DEF Token, InOnePlace
  <2>2. Released(n)
    BY <1>4, <1>9, <1>10 DEF Token, Released
  <2> QED
    BY <2>1, <2>2 DEF Token
<1> QED
  BY <1>3, <1>4, <1>5, <1>8, <1>10 DEF Keeps, n, port1

(***************************************************************************)
(* The behaviour.                                                          *)
(***************************************************************************)
Lives == {"absent", "open", "closing", "draining", "closed", "failed"}
Present == {"open", "closing"}

\* A client whose frame is not answered has not left.
Attended(s, clients) ==
  \A j \in Jobs : Unanswered(s, j) => s.job[j].client \in Clients /\ clients[s.job[j].client] \in Present

FrameInv ==
  /\ Core(Here)
  /\ Token(Here)
  /\ client \in [Clients -> Lives]
  /\ Attended(Here, client)
  /\ NeverRefusesShutdown

LEMMA BecomeHere ==
  ASSUME NEW n \in States, Become(n)
  PROVE  Here' = n
<1>1. n = [pool |-> n.pool, job |-> n.job, lease |-> n.lease, port |-> n.port, thread |-> n.thread]
  BY DEF States
<1> QED
  BY <1>1 DEF Become, Here

\* A step of the main thread that gets, by way of a state m, to the state n.
LEMMA PoolStep ==
  ASSUME FrameInv, NEW m, NEW n, Core(n), Token(n), Progresses(m, n), Become(n),
         client' \in [Clients -> Lives], Attended(m, client'),
         \A c \in Clients : client'[c] # "failed"
  PROVE  FrameInv'
<1>1. Here' = n
  BY BecomeHere DEF Core
<1>2. Core(Here)' /\ Token(Here)'
  BY <1>1
<1>3. Attended(n, client')
  BY DEF Attended, Progresses
<1>4. Attended(Here, client)'
  BY <1>1, <1>3
<1> QED
  BY <1>2, <1>4 DEF FrameInv, NeverRefusesShutdown

\* The same, when no client comes or goes.
LEMMA QuietPoolStep ==
  ASSUME FrameInv, NEW n, Core(n), Token(n), Progresses(Here, n), Become(n),
         client' \in [Clients -> Lives],
         \A c \in Clients : client'[c] # "failed",
         \A c \in Clients : client[c] \in Present => client'[c] \in Present
  PROVE  FrameInv'
<1>1. Attended(Here, client')
  BY DEF FrameInv, Attended
<1> QED
  BY <1>1, PoolStep

\* The same, when the clients stay as they are.
LEMMA KeepsStep ==
  ASSUME FrameInv, NEW n, Core(n), Token(n), Progresses(Here, n), Become(n), UNCHANGED client
  PROVE  FrameInv'
BY QuietPoolStep DEF FrameInv, NeverRefusesShutdown

LEMMA HereSame == UNCHANGED <<pool, job, lease, port, thread>> => Here' = Here
BY DEF Here

LEMMA ClientStep ==
  ASSUME FrameInv, UNCHANGED <<pool, job, lease, port, thread>>,
         client' \in [Clients -> Lives], Attended(Here, client'),
         \A c \in Clients : client'[c] # "failed"
  PROVE  FrameInv'
<1>1. Here' = Here
  BY HereSame
<1>2. Core(Here)' /\ Token(Here)' /\ Attended(Here, client)'
  BY <1>1 DEF FrameInv
<1> QED
  BY <1>2 DEF FrameInv, NeverRefusesShutdown

\* The state in which a microtask goes on.
LEMMA Unticked ==
  ASSUME FrameInv
  PROVE  LET s == [Here EXCEPT !.pool.tick = FALSE]
         IN  /\ Keeps(Here, s) /\ Waits(s) = Waits(Here)
             /\ s.job = job /\ s.port = port /\ s.thread = thread
             /\ s.pool.shuttingDown = pool.shuttingDown
<1> DEFINE pool1 == [pool EXCEPT !.tick = FALSE]
           s == [Here EXCEPT !.pool.tick = FALSE]
<1>1. Here \in States /\ Here.pool = pool /\ pool \in Pools
  BY DEF FrameInv, Core, States, Here
<1>2. s = [Here EXCEPT !.pool = pool1]
  BY <1>1
<1>3. /\ pool1 \in Pools /\ pool1.queue = pool.queue /\ pool1.inFlight = pool.inFlight
      /\ pool1.initializing = pool.initializing /\ pool1.shuttingDown = pool.shuttingDown
      /\ pool1.worker = pool.worker
  BY <1>1 DEF Pools
<1> HIDE DEF s, pool1
<1>4. /\ s \in States /\ s.pool = pool1 /\ s.job = Here.job /\ s.lease = Here.lease
      /\ s.port = Here.port /\ s.thread = Here.thread
  BY <1>1, <1>2, <1>3, PoolIs
<1>5. Keeps(Here, s)
  BY <1>1, <1>3, <1>4, NotesKeep DEF FrameInv
<1>6. Here.job = job /\ Here.port = port /\ Here.thread = thread
  BY DEF Here
<1> QED
  BY <1>1, <1>3, <1>4, <1>5, <1>6 DEF s, Waits

LEMMA MicrotaskKeeps == FrameInv /\ Microtask => FrameInv'
<1> SUFFICES ASSUME FrameInv, Microtask PROVE FrameInv'
  OBVIOUS
<1> DEFINE s == [Here EXCEPT !.pool.tick = FALSE]
<1>1. PICK n \in ProcessQueue(s) : Become(n) /\ UNCHANGED client
  BY DEF Microtask
<1>2. Keeps(Here, s)
  BY Unticked
<1> HIDE DEF s
<1>3. Keeps(s, n)
  BY <1>1, <1>2, ProcessQueueKeeps DEF Keeps
<1>4. Keeps(Here, n)
  BY <1>2, <1>3, KeepsTrans
<1> QED
  BY <1>1, <1>4, KeepsStep DEF FrameInv, Keeps

\* The state in which an event is handled.
LEMMA ReceivedIs ==
  ASSUME FrameInv, port.toMain # <<>>
  PROVE  /\ Keeps(Here, Received) /\ Core(Received) /\ Token(Received)
         /\ Received.pool = pool /\ Received.job = job /\ Received.lease = lease
         /\ Received.thread = thread
         /\ Received.port.toWorker = port.toWorker /\ Received.port.toMain = Tail(port.toMain)
<1>1. Here.port = port /\ Here.pool = pool /\ Here.job = job /\ Here.lease = lease /\ Here.thread = thread
  BY DEF Here
<1> QED
  BY <1>1, ReceivedKeeps DEF FrameInv, Received, Keeps

\* What the pool has learnt of a library.
LEMMA Learnt ==
  ASSUME FrameInv, port.toMain # <<>>, Head(port.toMain).type = "initialized"
  PROVE  LET e == Head(port.toMain)
             known == IF e.ok THEN [Received EXCEPT !.pool.ready = @ \cup {e.library}]
                              ELSE [Received EXCEPT !.pool.failed = @ \cup {e.library}]
             s == [known EXCEPT !.pool.initializing = None]
         IN  /\ Keeps(Received, s) /\ s.port = Received.port /\ s.thread = Received.thread
             /\ s.pool.shuttingDown = Received.pool.shuttingDown
<1> DEFINE e == Head(port.toMain)
           known == IF e.ok THEN [Received EXCEPT !.pool.ready = @ \cup {e.library}]
                            ELSE [Received EXCEPT !.pool.failed = @ \cup {e.library}]
           s == [known EXCEPT !.pool.initializing = None]
           p1 == IF e.ok THEN [Received.pool EXCEPT !.ready = @ \cup {e.library}]
                         ELSE [Received.pool EXCEPT !.failed = @ \cup {e.library}]
           p2 == [p1 EXCEPT !.initializing = None]
<1>1. Core(Received) /\ Received \in States /\ Received.pool \in Pools
  BY ReceivedIs DEF Core, States
<1>2. e \in Event /\ e.library \in Libraries
  <2>1. port.toMain \in Seq(Event)
    BY DEF FrameInv, Core, States, Ports, Here
  <2>2. e \in Event
    BY <2>1
  <2> QED
    BY <2>2 DEF Event
<1>3. /\ p1 \in Pools /\ p1.queue = Received.pool.queue /\ p1.inFlight = Received.pool.inFlight
      /\ p1.shuttingDown = Received.pool.shuttingDown /\ p1.worker = Received.pool.worker
  <2>1. CASE e.ok
    BY <1>1, <1>2, <2>1 DEF Pools
  <2>2. CASE ~e.ok
    BY <1>1, <1>2, <2>2 DEF Pools
  <2> QED
    BY <2>1, <2>2
<1>4. known = [Received EXCEPT !.pool = p1]
  BY <1>1 DEF States
<1> HIDE DEF p1
<1>5. /\ p2 \in Pools /\ p2.queue = p1.queue /\ p2.inFlight = p1.inFlight
      /\ p2.initializing = None /\ p2.shuttingDown = p1.shuttingDown /\ p2.worker = p1.worker
  BY <1>3 DEF Pools
<1>6. s = [Received EXCEPT !.pool = p2]
  BY <1>1, <1>4 DEF States
<1> HIDE DEF s, p2
<1>7. /\ s \in States /\ s.pool = p2 /\ s.job = Received.job /\ s.lease = Received.lease
      /\ s.port = Received.port /\ s.thread = Received.thread
  BY <1>1, <1>5, <1>6, PoolIs
<1>8. Keeps(Received, s)
  BY <1>1, <1>3, <1>5, <1>7, NotesKeep
<1> QED
  BY <1>3, <1>5, <1>7, <1>8 DEF s

LEMMA OnInitializedKeeps == FrameInv /\ OnInitialized => FrameInv'
<1> SUFFICES ASSUME FrameInv, OnInitialized PROVE FrameInv'
  OBVIOUS
<1> DEFINE e == Head(port.toMain)
           known == IF e.ok THEN [Received EXCEPT !.pool.ready = @ \cup {e.library}]
                            ELSE [Received EXCEPT !.pool.failed = @ \cup {e.library}]
           s == [known EXCEPT !.pool.initializing = None]
<1>1. port.toMain # <<>> /\ e.type = "initialized" /\ UNCHANGED client
  BY DEF OnInitialized, Receives
<1>2. Keeps(Here, Received) /\ Core(Received) /\ Token(Received)
  BY <1>1, ReceivedIs
<1>3. CASE Become(Received)
  BY <1>1, <1>2, <1>3, KeepsStep DEF Keeps
<1>4. CASE \E n \in ProcessQueue(s) : Become(n)
  <2>1. PICK n \in ProcessQueue(s) : Become(n)
    BY <1>4
  <2>2. Keeps(Received, s)
    BY <1>1, Learnt
  <2> HIDE DEF s
  <2>3. Keeps(s, n)
    BY <2>1, <2>2, ProcessQueueKeeps DEF Keeps
  <2>4. Keeps(Here, n)
    BY <1>2, <2>2, <2>3, KeepsTrans
  <2> QED
    BY <1>1, <2>1, <2>4, KeepsStep DEF FrameInv, Keeps
<1> QED
  BY <1>3, <1>4 DEF OnInitialized

LEMMA FinishStep ==
  ASSUME FrameInv, NEW s, Core(s), Progresses(Here, s), FinishShutdown(s)
  PROVE  FrameInv'
<1>1. Core(Finished(s)) /\ Token(Finished(s)) /\ Progresses(s, Finished(s))
  BY FinishedKeeps
<1>2. Progresses(Here, Finished(s))
  BY <1>1 DEF Progresses
<1>3. Become(Finished(s)) /\ client' = [c \in Clients |-> IF client[c] = "draining" THEN "closed" ELSE client[c]]
  BY DEF FinishShutdown
<1>4. client \in [Clients -> Lives] /\ \A c \in Clients : client[c] # "failed"
  BY DEF FrameInv, NeverRefusesShutdown
<1>5. client' \in [Clients -> Lives] /\ \A c \in Clients : client'[c] # "failed"
  BY <1>3, <1>4 DEF Lives
<1>6. \A c \in Clients : client[c] \in Present => client'[c] \in Present
  BY <1>3 DEF Present
<1> QED
  BY <1>1, <1>2, <1>3, <1>5, <1>6, QuietPoolStep

LEMMA LostStep ==
  ASSUME FrameInv, port.toMain # <<>>, NEW n \in FailWorker(Received), Become(Terminated(n)),
         UNCHANGED client
  PROVE  FrameInv'
<1>1. Core(Received) /\ Progresses(Here, Received)
  BY ReceivedIs DEF Keeps
<1>2. Core(n) /\ Progresses(Received, n)
  BY <1>1, FailWorkerKeeps
<1>3. Core(Terminated(n)) /\ Token(Terminated(n)) /\ Progresses(n, Terminated(n))
  BY <1>2, TerminatedKeeps
<1>4. Progresses(Here, Terminated(n))
  BY <1>1, <1>2, <1>3 DEF Progresses
<1> QED
  BY <1>3, <1>4, KeepsStep

LEMMA OnErrorKeeps == FrameInv /\ (OnError \/ OnClose) => FrameInv'
<1> SUFFICES ASSUME FrameInv, OnError \/ OnClose PROVE FrameInv'
  OBVIOUS
<1>1. port.toMain # <<>>
  BY DEF OnError, OnClose, Receives
<1>2. CASE FinishShutdown(Received)
  BY <1>1, <1>2, ReceivedIs, FinishStep DEF Keeps
<1>3. CASE (\E n \in FailWorker(Received) : Become(Terminated(n))) /\ UNCHANGED client
  BY <1>1, <1>3, LostStep
<1> QED
  BY <1>2, <1>3 DEF OnError, OnClose

\* A worker says "closed" only when it was told to shut down.
LEMMA OnClosedKeeps == FrameInv /\ OnClosed => FrameInv'
<1> SUFFICES ASSUME FrameInv, OnClosed PROVE FrameInv'
  OBVIOUS
<1>1. port.toMain # <<>> /\ Head(port.toMain).type = "closed"
  BY DEF OnClosed, Receives
<1>2. port.toMain \in Seq(Event) /\ (Has(port.toMain, "closed") => pool.shuttingDown)
  BY DEF FrameInv, Core, States, Ports, Here
<1>3. Has(port.toMain, "closed")
  BY <1>1, <1>2, TailMessages
<1>4. FinishShutdown(Received)
  BY <1>2, <1>3 DEF OnClosed
<1> QED
  BY <1>1, <1>4, ReceivedIs, FinishStep DEF Keeps

LEMMA ShutdownTimerKeeps == FrameInv /\ ShutdownTimer => FrameInv'
<1> SUFFICES ASSUME FrameInv, ShutdownTimer PROVE FrameInv'
  OBVIOUS
<1>1. FinishShutdown(Here) /\ Core(Here) /\ Progresses(Here, Here)
  BY DEF ShutdownTimer, FrameInv, Progresses
<1> QED
  BY <1>1, FinishStep

\* The state in which complete is handled: the conversion is over, with any status.
LEMMA Completed ==
  ASSUME FrameInv, OnComplete
  PROVE  LET e == Head(port.toMain)
             j == e.job
             free == [Received EXCEPT !.pool.inFlight = None]
             verdict == IF e.result = "ok" THEN "resolved" ELSE "rejected"
         IN  /\ \E n \in IF e.result = "infrastructure" THEN FailWorker(Settle(free, j, "rejected"))
                         ELSE ProcessQueue(Settle(free, j, verdict)) : Become(n)
             /\ \A status \in {"resolved", "rejected"} :
                  LET m == Settle(free, j, status)
                  IN  /\ Core(m) /\ Progresses(Received, m) /\ Quiet(m)
                      /\ m.port = Received.port /\ m.thread = Received.thread
                      /\ m.pool.shuttingDown = Received.pool.shuttingDown
<1> DEFINE e == Head(port.toMain)
           j == e.job
           free == [Received EXCEPT !.pool.inFlight = None]
           verdict == IF e.result = "ok" THEN "resolved" ELSE "rejected"
           rejected == Settle(free, j, "rejected")
           answered == Settle(free, j, verdict)
<1>1. port.toMain # <<>> /\ e.type = "complete" /\ UNCHANGED client
  BY DEF OnComplete, Receives
<1>2. /\ Keeps(Here, Received) /\ Core(Received) /\ Token(Received)
      /\ Received.pool = pool /\ Received.job = job /\ Received.lease = lease
      /\ Received.thread = thread
      /\ Received.port.toWorker = port.toWorker /\ Received.port.toMain = Tail(port.toMain)
  BY <1>1, ReceivedIs
<1>3. /\ j \in Answers(Here) /\ Sent(Here) = {} /\ AtWork(Here) = {}
      /\ Answers(Received) = {}
  <2>1. port.toMain \in Seq(Event) /\ Here.port = port
    BY DEF FrameInv, Core, States, Ports, Here
  <2>2. OnlyOne(port.toMain, "complete")
    BY <2>1 DEF FrameInv, Token, InOnePlace
  <2>3. j \in JobsOf(port.toMain, "complete") /\ JobsOf(Tail(port.toMain), "complete") = {}
    BY <1>1, <2>1, <2>2, TailMessages
  <2>4. j \in Answers(Here) /\ Answers(Received) = {}
    BY <1>2, <2>1, <2>3 DEF Answers
  <2> QED
    BY <2>4 DEF FrameInv, Token, InOnePlace
<1>4. Quiet(Received)
  BY <1>2, <1>3 DEF Quiet, Sent, AtWork, Here
<1>5. /\ j \in Jobs /\ pool.inFlight = j
      /\ lease[j].word = "released" /\ lease[j].releases = 1
  BY <1>3 DEF FrameInv, Token, InOnePlace, Released, Holds, Here
<1>6. \E n \in IF e.result = "infrastructure" THEN FailWorker(rejected) ELSE ProcessQueue(answered) :
        Become(n)
  BY <1>5 DEF OnComplete
<1>7. \A status \in {"resolved", "rejected"} :
        LET m == Settle(free, j, status)
        IN  /\ Core(m) /\ Progresses(Received, m) /\ Quiet(m)
            /\ m.port = Received.port /\ m.thread = Received.thread
            /\ m.pool.shuttingDown = Received.pool.shuttingDown
  <2> TAKE status \in {"resolved", "rejected"}
  <2> DEFINE pool1 == [Received.pool EXCEPT !.inFlight = None]
             m == Settle(free, j, status)
  <2>1. Received \in States /\ Received.pool \in Pools
    BY <1>2 DEF Core, States
  <2>2. /\ pool1 \in Pools /\ pool1.queue = Received.pool.queue /\ pool1.inFlight = None
        /\ pool1.initializing = Received.pool.initializing
        /\ pool1.shuttingDown = Received.pool.shuttingDown /\ pool1.worker = Received.pool.worker
    BY <2>1 DEF Pools
  <2>3. free = [Received EXCEPT !.pool = pool1]
    BY <2>1 DEF States
  <2> HIDE DEF free, pool1
  <2>4. /\ free \in States /\ free.pool = pool1 /\ free.job = Received.job
        /\ free.lease = Received.lease /\ free.port = Received.port /\ free.thread = Received.thread
    BY <2>1, <2>2, <2>3, PoolIs
  <2>5. status \in Statuses
    BY DEF Statuses
  <2>6. /\ m \in States /\ m.pool = free.pool /\ m.lease = free.lease
        /\ m.port = free.port /\ m.thread = free.thread
        /\ m.job[j].status = status /\ m.job[j].client = free.job[j].client
        /\ \A i \in Jobs \ {j} : m.job[i] = free.job[i]
    BY <1>5, <2>4, <2>5, SettleIs
  <2> HIDE DEF m, j
  <2>7. LeaseOK(m.job[j].status, m.lease[j])
    BY <1>2, <1>5, <2>4, <2>6 DEF LeaseOK
  <2>8. Core(m) /\ Progresses(Received, m)
    BY <1>2, <1>5, <2>2, <2>4, <2>6, <2>7, InFlightSettled
  <2>9. Quiet(m)
    BY <1>4, <2>4, <2>6 DEF Quiet, Sent, AtWork, Answers
  <2> QED
    BY <2>2, <2>4, <2>6, <2>8, <2>9 DEF m
<1> QED
  BY <1>6, <1>7

LEMMA OnCompleteKeeps == FrameInv /\ OnComplete => FrameInv'
<1> SUFFICES ASSUME FrameInv, OnComplete PROVE FrameInv'
  OBVIOUS
<1> DEFINE e == Head(port.toMain)
           j == e.job
           free == [Received EXCEPT !.pool.inFlight = None]
           verdict == IF e.result = "ok" THEN "resolved" ELSE "rejected"
           rejected == Settle(free, j, "rejected")
           answered == Settle(free, j, verdict)
<1>1. port.toMain # <<>> /\ UNCHANGED client /\ verdict \in {"resolved", "rejected"}
  BY DEF OnComplete, Receives
<1>2. Keeps(Here, Received)
  BY <1>1, ReceivedIs
<1>3. \E n \in IF e.result = "infrastructure" THEN FailWorker(rejected) ELSE ProcessQueue(answered) :
        Become(n)
  BY Completed
<1>4. /\ Core(rejected) /\ Progresses(Received, rejected) /\ Quiet(rejected)
      /\ Core(answered) /\ Progresses(Received, answered) /\ Quiet(answered)
  BY <1>1, Completed
<1> HIDE DEF rejected, answered
<1>5. CASE \E n \in FailWorker(rejected) : Become(n)
  <2>1. PICK n \in FailWorker(rejected) : Become(n)
    BY <1>5
  <2>2. Core(rejected) /\ Progresses(Received, rejected) /\ Quiet(rejected)
    BY <1>4
  <2>3. Core(n) /\ Progresses(rejected, n) /\ Token(n)
    BY <2>1, <2>2, FailWorkerKeeps
  <2>4. Progresses(Here, n)
    BY <1>2, <2>2, <2>3 DEF Progresses, Keeps
  <2> QED
    BY <1>1, <2>1, <2>3, <2>4, KeepsStep
<1>6. CASE \E n \in ProcessQueue(answered) : Become(n)
  <2>1. PICK n \in ProcessQueue(answered) : Become(n)
    BY <1>6
  <2>2. Core(answered) /\ Progresses(Received, answered) /\ Quiet(answered)
    BY <1>4
  <2>3. Keeps(answered, n)
    BY <2>1, <2>2, ProcessQueueKeeps
  <2>4. Progresses(Here, n)
    BY <1>2, <2>2, <2>3 DEF Progresses, Keeps
  <2> QED
    BY <1>1, <2>1, <2>2, <2>3, <2>4, KeepsStep, QuietToken DEF Keeps
<1> QED
  BY <1>3, <1>5, <1>6

(***************************************************************************)
(* The clients.                                                            *)
(***************************************************************************)

\* A new frame comes to be c's.
LEMMA GivenTo ==
  ASSUME NEW s, Core(s), Token(s), NEW j \in Jobs, s.job[j].status = "new", NEW c \in Clients
  PROVE  LET n == [s EXCEPT !.job[j].client = c]
         IN  /\ n \in States
             /\ n.pool = s.pool /\ n.lease = s.lease /\ n.port = s.port /\ n.thread = s.thread
             /\ n.job[j].client = c /\ n.job[j].status = "new"
             /\ \A i \in Jobs \ {j} : n.job[i] = s.job[i]
             /\ s.lease[j].word = "owned" /\ s.lease[j].releases = 0
<1>1. s \in States /\ s.lease[j].word = "owned" /\ s.lease[j].releases = 0
  BY DEF Core, LeaseOK
<1> QED
  BY <1>1 DEF States, JobRecord

LEMMA Refused ==
  ASSUME NEW s, Core(s), Token(s), NEW j \in Jobs, s.job[j].status = "new", NEW n \in States,
         n.job[j].status = "rejected",
         \A i \in Jobs \ {j} : n.job[i] = s.job[i],
         n.lease[j].releases = 1, \A i \in Jobs \ {j} : n.lease[i] = s.lease[i],
         n.pool = s.pool, n.port = s.port, n.thread = s.thread
  PROVE  Core(n) /\ Token(n)
<1>1. Queued(n)
  BY DEF Core, States, Pools, Queued
<1>2. Given(n)
  BY DEF Core, Given, Unanswered
<1>3. s.pool.inFlight # j
  BY DEF Core
<1>4. \A i \in Jobs : LeaseOK(n.job[i].status, n.lease[i])
  BY DEF Core, LeaseOK
<1>5. Core(n)
  BY <1>1, <1>2, <1>4 DEF Core, Waits
<1>6. Sent(n) = Sent(s) /\ AtWork(n) = AtWork(s) /\ Answers(n) = Answers(s)
  BY DEF Sent, AtWork, Answers
<1>7. Sent(s) \cup AtWork(s) \cup Answers(s) \subseteq Jobs \ {j}
  BY <1>3 DEF Token, InOnePlace
<1> QED
  BY <1>5, <1>6, <1>7 DEF Token, InOnePlace, Released

LEMMA Enqueued ==
  ASSUME NEW s, Core(s), Token(s), NEW j \in Jobs, s.job[j].status = "new", NEW n \in States,
         n.job[j].status = "queued", n.job[j].client \in Clients,
         \A i \in Jobs \ {j} : n.job[i] = s.job[i],
         n.lease = s.lease, n.port = s.port, n.thread = s.thread,
         n.pool.queue = Append(s.pool.queue, j), n.pool.inFlight = s.pool.inFlight,
         n.pool.initializing = s.pool.initializing,
         n.pool.shuttingDown = s.pool.shuttingDown, n.pool.worker = s.pool.worker
  PROVE  Core(n) /\ Token(n)
<1>1. s.pool.queue \in Seq(Jobs) /\ Queued(s)
  BY DEF Core, States, Pools
<1> DEFINE more == Append(s.pool.queue, j)
<1>2. /\ Len(more) = Len(s.pool.queue) + 1 /\ Len(s.pool.queue) \in Nat
      /\ more[Len(s.pool.queue) + 1] = j
      /\ \A i \in 1 .. Len(s.pool.queue) : more[i] = s.pool.queue[i] /\ more[i] \in Jobs
      /\ more # <<>>
  BY <1>1
<1>3. n.pool.queue = more
  OBVIOUS
<1> HIDE DEF more
<1>4. 1 .. Len(more) = (1 .. Len(s.pool.queue)) \cup {Len(s.pool.queue) + 1}
  BY <1>2
<1>5. \A i \in 1 .. Len(s.pool.queue) : more[i] \in Jobs \ {j} /\ s.job[more[i]].status = "queued"
  BY <1>1, <1>2 DEF Queued
<1>6. Queued(n)
  <2>1. \A i \in 1 .. Len(more) : n.job[more[i]].status = "queued"
    BY <1>2, <1>4, <1>5
  <2>2. \A i, k \in 1 .. Len(more) : more[i] = more[k] => i = k
    BY <1>1, <1>2, <1>4, <1>5 DEF Queued
  <2> QED
    BY <1>3, <2>1, <2>2 DEF Queued
<1>7. Given(n)
  BY DEF Core, Given, Unanswered
<1>8. s.pool.inFlight # j
  BY DEF Core
<1>9. \A i \in Jobs : LeaseOK(n.job[i].status, n.lease[i])
  BY DEF Core, LeaseOK
<1>10. Core(n)
  BY <1>2, <1>3, <1>6, <1>7, <1>8, <1>9 DEF Core, Waits
<1>11. Sent(n) = Sent(s) /\ AtWork(n) = AtWork(s) /\ Answers(n) = Answers(s)
  BY DEF Sent, AtWork, Answers
<1> QED
  BY <1>10, <1>11 DEF Token, InOnePlace, Released

\* The frame is put into the queue.
LEMMA EnqueuedHere ==
  ASSUME FrameInv, NEW c \in Clients, NEW j \in Jobs, job[j].status = "new"
  PROVE  LET s == [Here EXCEPT !.job[j].client = c]
             queued == Settle([s EXCEPT !.pool.queue = Append(@, j)], j, "queued")
         IN  /\ Core(queued) /\ Token(queued)
             /\ queued.job[j].client = c /\ queued.job[j].status = "queued"
             /\ \A i \in Jobs \ {j} : queued.job[i] = Here.job[i]
             /\ queued.port = port /\ queued.thread = thread /\ Waits(queued) = Waits(Here)
             /\ queued.pool.shuttingDown = pool.shuttingDown
<1> DEFINE s == [Here EXCEPT !.job[j].client = c]
           more == [s EXCEPT !.pool.queue = Append(@, j)]
           queued == Settle(more, j, "queued")
           pool1 == [s.pool EXCEPT !.queue = Append(@, j)]
<1>1. Here.pool = pool /\ Here.job = job /\ Here.lease = lease /\ Here.port = port /\ Here.thread = thread
  BY DEF Here
<1>2. Core(Here) /\ Token(Here) /\ Here.job[j].status = "new"
  BY <1>1 DEF FrameInv
<1>3. /\ s \in States
      /\ s.pool = Here.pool /\ s.lease = Here.lease /\ s.port = Here.port /\ s.thread = Here.thread
      /\ s.job[j].client = c /\ s.job[j].status = "new"
      /\ \A i \in Jobs \ {j} : s.job[i] = Here.job[i]
  BY <1>2, GivenTo
<1> HIDE DEF s
<1>4. s.pool \in Pools /\ s.pool.queue \in Seq(Jobs)
  BY <1>3 DEF States, Pools
<1>5. Append(s.pool.queue, j) \in Seq(Jobs)
  BY <1>4
<1>6. /\ pool1 \in Pools /\ pool1.queue = Append(s.pool.queue, j)
      /\ pool1.inFlight = s.pool.inFlight /\ pool1.initializing = s.pool.initializing
      /\ pool1.shuttingDown = s.pool.shuttingDown /\ pool1.worker = s.pool.worker
  BY <1>4, <1>5 DEF Pools
<1>7. more = [s EXCEPT !.pool = pool1]
  BY <1>3 DEF States
<1> HIDE DEF more, pool1
<1>8. /\ more \in States /\ more.pool = pool1 /\ more.job = s.job
      /\ more.lease = s.lease /\ more.port = s.port /\ more.thread = s.thread
  BY <1>3, <1>6, <1>7, PoolIs
<1>9. /\ queued \in States /\ queued.pool = more.pool /\ queued.lease = more.lease
      /\ queued.port = more.port /\ queued.thread = more.thread
      /\ queued.job[j].status = "queued" /\ queued.job[j].client = more.job[j].client
      /\ \A i \in Jobs \ {j} : queued.job[i] = more.job[i]
  <2>1. "queued" \in Statuses
    BY DEF Statuses
  <2> QED
    BY <1>8, <2>1, SettleIs
<1> HIDE DEF queued
<1>10. /\ queued.job[j].client = c /\ queued.pool = pool1
       /\ \A i \in Jobs \ {j} : queued.job[i] = Here.job[i]
       /\ queued.lease = Here.lease /\ queued.port = Here.port /\ queued.thread = Here.thread
  BY <1>3, <1>8, <1>9
<1>11. Core(queued) /\ Token(queued)
  BY <1>2, <1>3, <1>6, <1>9, <1>10, Enqueued
<1> QED
  BY <1>1, <1>3, <1>6, <1>9, <1>10, <1>11 DEF queued, more, s, Waits

LEMMA ConvertKeeps ==
  ASSUME FrameInv, NEW c \in Clients, NEW j \in Jobs, Convert(c, j)
  PROVE  FrameInv'
<1> DEFINE s == [Here EXCEPT !.job[j].client = c]
           refused == Settle(Release(s, j), j, "rejected")
           more == [s EXCEPT !.pool.queue = Append(@, j)]
           queued == Settle(more, j, "queued")
<1>1. Here.pool = pool /\ Here.job = job /\ Here.lease = lease /\ Here.port = port /\ Here.thread = thread
  BY DEF Here
<1>2. Core(Here) /\ Token(Here) /\ Here.job[j].status = "new" /\ UNCHANGED client
  BY <1>1 DEF FrameInv, Convert
<1>3. client \in [Clients -> Lives] /\ \A i \in Clients : client[i] # "failed"
  BY DEF FrameInv, NeverRefusesShutdown
<1>4. /\ s \in States
      /\ s.pool = Here.pool /\ s.lease = Here.lease /\ s.port = Here.port /\ s.thread = Here.thread
      /\ s.job[j].client = c /\ s.job[j].status = "new"
      /\ \A i \in Jobs \ {j} : s.job[i] = Here.job[i]
      /\ Here.lease[j].word = "owned" /\ Here.lease[j].releases = 0
  BY <1>2, GivenTo
<1>5. Become(refused) \/ (client[c] = "open" /\ \E n \in ProcessQueue(queued) : Become(n))
  BY DEF Convert
<1> HIDE DEF s
<1>6. "rejected" \in Statuses
  BY DEF Statuses
<1>7. CASE Become(refused)
  <2> DEFINE r == Release(s, j)
  <2>1. /\ r \in States
        /\ r.pool = s.pool /\ r.job = s.job /\ r.port = s.port /\ r.thread = s.thread
        /\ r.lease[j].releases = s.lease[j].releases + 1
        /\ \A i \in Jobs \ {j} : r.lease[i] = s.lease[i]
    BY <1>4, ReleaseIs
  <2> HIDE DEF r
  <2>2. /\ refused \in States /\ refused.pool = r.pool /\ refused.lease = r.lease
        /\ refused.port = r.port /\ refused.thread = r.thread
        /\ refused.job[j].status = "rejected"
        /\ \A i \in Jobs \ {j} : refused.job[i] = r.job[i]
    <3>1. refused = Settle(r, j, "rejected")
      BY DEF r
    <3> HIDE DEF refused
    <3> QED
      BY <1>6, <2>1, <3>1, SettleIs, SMTT(60)
  <2> HIDE DEF refused
  <2>3. Core(refused) /\ Token(refused)
    BY <1>2, <1>4, <2>1, <2>2, Refused
  <2>4. Attended(refused, client)
    BY <1>4, <2>1, <2>2 DEF FrameInv, Attended, Unanswered
  <2>5. Progresses(refused, refused)
    BY DEF Progresses
  <2> QED
    BY <1>2, <1>3, <1>7, <2>3, <2>4, <2>5, PoolStep
<1>8. CASE client[c] = "open" /\ \E n \in ProcessQueue(queued) : Become(n)
  <2>1. PICK n \in ProcessQueue(queued) : Become(n)
    BY <1>8
  <2>2. /\ Core(queued) /\ Token(queued)
        /\ queued.job[j].client = c /\ \A i \in Jobs \ {j} : queued.job[i] = Here.job[i]
    BY <1>1, <1>2, EnqueuedHere DEF s
  <2> HIDE DEF queued
  <2>3. Attended(queued, client)
    BY <1>8, <2>2 DEF FrameInv, Attended, Unanswered, Present
  <2>4. Keeps(queued, n)
    BY <2>1, <2>2, ProcessQueueKeeps
  <2> QED
    BY <1>2, <1>3, <2>1, <2>2, <2>3, <2>4, PoolStep DEF Keeps
<1> QED
  BY <1>5, <1>7, <1>8

LEMMA ComesKeeps ==
  ASSUME FrameInv, NEW c \in Clients, CreateClient(c) \/ CloseClient(c)
  PROVE  FrameInv'
<1> DEFINE how == IF client[c] = "absent" THEN "open" ELSE "closing"
<1>1. client' = [client EXCEPT ![c] = how] /\ UNCHANGED <<pool, job, lease, port, thread>>
  BY DEF CreateClient, CloseClient
<1>2. client \in [Clients -> Lives] /\ \A i \in Clients : client[i] # "failed"
  BY DEF FrameInv, NeverRefusesShutdown
<1>3. how \in {"open", "closing"}
  OBVIOUS
<1> HIDE DEF how
<1>4. client' \in [Clients -> Lives] /\ \A i \in Clients : client'[i] # "failed"
  BY <1>1, <1>2, <1>3 DEF Lives
<1>5. \A i \in Clients : client[i] \in Present => client'[i] \in Present
  BY <1>1, <1>2, <1>3 DEF Present
<1>6. Attended(Here, client')
  BY <1>5 DEF FrameInv, Attended
<1> QED
  BY <1>1, <1>4, <1>6, ClientStep

\* Work is outstanding only while some client that is registered is busy.
LEMMA OutstandingIsBusy ==
  ASSUME FrameInv, Outstanding
  PROVE  \E c \in Registered : Busy(c)
<1>1. Here.pool = pool /\ Here.job = job
  BY DEF Here
<1>2. \E j \in Jobs : job[j].status \in {"queued", "inFlight"}
  <2>1. CASE pool.queue # <<>>
    BY <1>1, <2>1, QueueHead DEF FrameInv
  <2>2. CASE pool.inFlight # None
    <3>1. pool.inFlight \in Jobs
      BY <1>1, <2>2 DEF FrameInv, Core, States, Pools
    <3> QED
      BY <1>1, <3>1 DEF FrameInv, Core
  <2>3. pool.initializing # None => pool.queue # <<>>
    BY <1>1 DEF FrameInv, Core
  <2> QED
    BY <2>1, <2>2, <2>3 DEF Outstanding
<1>3. PICK j \in Jobs : job[j].status \in {"queued", "inFlight"}
  BY <1>2
<1>4. job[j].client \in Clients /\ client[job[j].client] \in Present
  BY <1>1, <1>3 DEF FrameInv, Attended, Unanswered
<1> QED
  BY <1>3, <1>4 DEF Registered, Busy, Present

LEMMA DrainingKeeps ==
  ASSUME NEW s, Core(s), Token(s), s.pool.worker, ~Waits(s), s.pool.queue = <<>>
  PROVE  LET n == Post([s EXCEPT !.pool.shuttingDown = TRUE], [type |-> "shutdown"])
         IN  Core(n) /\ Token(n) /\ Progresses(s, n)
<1> DEFINE pool1 == [s.pool EXCEPT !.shuttingDown = TRUE]
           m == [s EXCEPT !.pool = pool1]
           message == [type |-> "shutdown"]
           n == Post(m, message)
<1>1. s \in States /\ s.pool \in Pools
  BY DEF Core, States
<1>2. /\ pool1 \in Pools /\ pool1.queue = s.pool.queue /\ pool1.inFlight = s.pool.inFlight
      /\ pool1.initializing = s.pool.initializing
      /\ pool1.shuttingDown /\ pool1.worker = s.pool.worker
  BY <1>1 DEF Pools
<1>3. [s EXCEPT !.pool.shuttingDown = TRUE] = m
  BY <1>1
<1> HIDE DEF pool1
<1>4. /\ m \in States /\ m.pool = pool1 /\ m.job = s.job
      /\ m.lease = s.lease /\ m.port = s.port /\ m.thread = s.thread
  BY <1>1, <1>2, PoolIs
<1> HIDE DEF m
<1>5. message \in WorkerMessage /\ message.type = "shutdown"
  BY DEF WorkerMessage
<1> HIDE DEF message
<1>6. /\ n \in States
      /\ n.pool = m.pool /\ n.job = m.job /\ n.lease = m.lease /\ n.thread = m.thread
      /\ n.port.toMain = m.port.toMain
      /\ n.port.toWorker = Append(m.port.toWorker, message)
  BY <1>4, <1>5, PostIs
<1> HIDE DEF n
<1>7. /\ JobsOf(n.port.toWorker, "convert") = JobsOf(s.port.toWorker, "convert")
      /\ OnlyOne(s.port.toWorker, "convert") => OnlyOne(n.port.toWorker, "convert")
  <2>1. s.port.toWorker \in Seq(WorkerMessage)
    BY <1>1 DEF States, Ports
  <2> QED
    BY <1>4, <1>5, <1>6, <2>1, AppendMessages
<1>8. Queued(n) /\ Given(n) /\ Progresses(s, n)
  BY <1>2, <1>4, <1>6 DEF Core, Queued, Given, Unanswered, Progresses
<1>9. Core(n)
  BY <1>2, <1>4, <1>6, <1>8 DEF Core, Waits
<1>10. Sent(n) = Sent(s) /\ AtWork(n) = AtWork(s) /\ Answers(n) = Answers(s)
  BY <1>4, <1>6, <1>7 DEF Sent, AtWork, Answers
<1>11. Token(n)
  BY <1>2, <1>4, <1>6, <1>7, <1>10 DEF Token, InOnePlace, Released
<1> QED
  BY <1>3, <1>8, <1>9, <1>11 DEF n, message

LEMMA ReleaseClientKeeps ==
  ASSUME FrameInv, NEW c \in Clients, ReleaseClient(c)
  PROVE  FrameInv'
<1>1. client \in [Clients -> Lives] /\ \A i \in Clients : client[i] # "failed"
  BY DEF FrameInv, NeverRefusesShutdown
<1>2. \A how \in {"closed", "draining"} : client' = [client EXCEPT ![c] = how] =>
        /\ client' \in [Clients -> Lives] /\ \A i \in Clients : client'[i] # "failed"
        /\ Attended(Here, client')
  <2> TAKE how \in {"closed", "draining"}
  <2> HAVE client' = [client EXCEPT ![c] = how]
  <2>1. client' \in [Clients -> Lives] /\ \A i \in Clients : client'[i] # "failed"
    BY <1>1 DEF Lives
  <2>2. \A j \in Jobs : Unanswered(Here, j) => job[j].client # c
    BY DEF ReleaseClient, Busy, Unanswered, Here
  <2>3. \A i \in Clients \ {c} : client'[i] = client[i]
    BY <1>1
  <2>4. Here.job = job
    BY DEF Here
  <2> QED
    BY <2>1, <2>2, <2>3, <2>4 DEF FrameInv, Attended
<1>3. Core(Here) /\ Token(Here)
  BY DEF FrameInv
<1>4. CASE /\ client' = [client EXCEPT ![c] = "closed"] \/ client' = [client EXCEPT ![c] = "draining"]
           /\ UNCHANGED <<pool, job, lease, port, thread>>
  BY <1>2, <1>4, ClientStep
<1>5. CASE client' = [client EXCEPT ![c] = "closed"] /\ Become(Finished(Here))
  BY <1>2, <1>3, <1>5, FinishedKeeps, PoolStep
<1>6. CASE /\ Registered = {c} /\ pool.worker
           /\ \E how \in IF Outstanding THEN {"failed"} ELSE {"draining", "closed"} :
                client' = [client EXCEPT ![c] = how] /\ Become(ShutDown(how))
  <2>1. ~Outstanding
    BY <1>6, OutstandingIsBusy DEF ReleaseClient
  <2>2. PICK how \in {"draining", "closed"} :
          client' = [client EXCEPT ![c] = how] /\ Become(ShutDown(how))
    BY <1>6, <2>1
  <2>3. CASE how = "closed"
    <3>1. Become(Finished(Here))
      BY <2>2, <2>3 DEF ShutDown
    <3> QED
      BY <1>5, <2>2, <2>3, <3>1
  <2>4. CASE how = "draining"
    <3> DEFINE n == Post([Here EXCEPT !.pool.shuttingDown = TRUE], [type |-> "shutdown"])
    <3>1. Become(n)
      BY <2>2, <2>4 DEF ShutDown
    <3>2. Here.pool = pool
      BY DEF Here
    <3>3. Here.pool.worker /\ ~Waits(Here) /\ Here.pool.queue = <<>>
      BY <1>6, <2>1, <3>2 DEF Outstanding, Waits
    <3>4. Core(n) /\ Token(n) /\ Progresses(Here, n)
      BY <1>3, <3>3, DrainingKeeps
    <3> HIDE DEF n
    <3> QED
      BY <1>2, <2>2, <2>4, <3>1, <3>4, PoolStep
  <2> QED
    BY <2>2, <2>3, <2>4
<1> QED
  BY <1>4, <1>5, <1>6 DEF ReleaseClient

(***************************************************************************)
(* The worker.                                                             *)
(***************************************************************************)
LEMMA HereIs ==
  ASSUME FrameInv
  PROVE  /\ pool \in Pools /\ job \in [Jobs -> JobRecord] /\ lease \in [Jobs -> LeaseRecord]
         /\ port \in Ports /\ thread \in Threads
         /\ port.toWorker \in Seq(WorkerMessage) /\ port.toMain \in Seq(Event)
         /\ Sent(Here) = JobsOf(port.toWorker, "convert")
         /\ Answers(Here) = JobsOf(port.toMain, "complete")
         /\ \A j \in Sent(Here) \cup AtWork(Here) \cup Answers(Here) :
              j \in Jobs /\ pool.inFlight = j /\ job[j].status = "inFlight"
         /\ OnlyOne(port.toWorker, "convert") /\ OnlyOne(port.toMain, "complete")
         /\ Has(port.toWorker, "shutdown") \/ Has(port.toMain, "closed") => pool.shuttingDown
         /\ thread.state # "none" => pool.worker
<1>1. /\ Here.pool = pool /\ Here.job = job /\ Here.lease = lease /\ Here.port = port
      /\ Here.thread = thread
  BY DEF Here
<1>2. Core(Here) /\ Here \in States
  BY DEF FrameInv, Core
<1>3. port \in Ports /\ thread \in Threads /\ pool \in Pools
  BY <1>1, <1>2 DEF States
<1>4. \A j \in Sent(Here) \cup AtWork(Here) \cup Answers(Here) : j \in Jobs /\ pool.inFlight = j
  BY <1>1 DEF FrameInv, Token, InOnePlace
<1>5. \A j \in Jobs : pool.inFlight = j => job[j].status = "inFlight"
  BY <1>1, <1>2 DEF Core
<1> QED
  BY <1>1, <1>2, <1>3, <1>4, <1>5
     DEF FrameInv, Token, InOnePlace, Sent, Answers, Core, States, Ports, NoThread

LEMMA WorkerKeeps ==
  ASSUME FrameInv, UNCHANGED <<pool, job, client>>, pool.worker,
         lease' \in [Jobs -> LeaseRecord], port' \in Ports, thread' \in Threads,
         Has(port'.toWorker, "shutdown") => pool.shuttingDown,
         Has(port'.toMain, "closed") => pool.shuttingDown,
         \A j \in Jobs : LeaseOK(job[j].status, lease'[j]),
         Token(Here')
  PROVE  FrameInv'
<1> DEFINE n == [pool |-> pool, job |-> job, lease |-> lease', port |-> port', thread |-> thread']
<1>1. Here' = n
  BY DEF Here
<1>2. /\ n.pool = pool /\ n.job = job /\ n.lease = lease' /\ n.port = port' /\ n.thread = thread'
      /\ n \in States
  BY HereIs DEF States
<1> HIDE DEF n
<1>3. /\ Here.pool = pool /\ Here.job = job /\ Core(Here)
  BY DEF Here, FrameInv
<1>4. Queued(n) /\ Given(n) /\ Attended(n, client)
  BY <1>2, <1>3 DEF Core, Queued, Given, Attended, Unanswered, FrameInv
<1>5. Core(n)
  BY <1>2, <1>3, <1>4 DEF Core, Waits
<1>6. Core(Here)' /\ Token(Here)' /\ Attended(Here, client)'
  BY <1>1, <1>4, <1>5
<1> QED
  BY <1>6 DEF FrameInv, NeverRefusesShutdown

\* What the worker takes and what it answers.
LEMMA Replied ==
  ASSUME NEW q \in Seq(Event), NEW e \in Event, NEW more, more = Append(q, e)
  PROVE  /\ more \in Seq(Event)
         /\ e.type # "closed" /\ Has(more, "closed") => Has(q, "closed")
         /\ e.type # "complete" => JobsOf(more, "complete") = JobsOf(q, "complete")
         /\ e.type = "complete" => JobsOf(more, "complete") = JobsOf(q, "complete") \cup {e.job}
         /\ OnlyOne(q, "complete") /\ (e.type = "complete" => JobsOf(q, "complete") = {})
              => OnlyOne(more, "complete")
BY AppendMessages

LEMMA Taken ==
  ASSUME NEW q \in Seq(WorkerMessage), q # <<>>
  PROVE  /\ Tail(q) \in Seq(WorkerMessage) /\ Head(q) \in WorkerMessage
         /\ Has(Tail(q), "shutdown") => Has(q, "shutdown")
         /\ Head(q).type = "shutdown" => Has(q, "shutdown")
         /\ JobsOf(Tail(q), "convert") \subseteq JobsOf(q, "convert")
         /\ OnlyOne(q, "convert") => OnlyOne(Tail(q), "convert")
         /\ Head(q).type = "convert" => Head(q).job \in JobsOf(q, "convert")
         /\ OnlyOne(q, "convert") /\ Head(q).type = "convert" => JobsOf(Tail(q), "convert") = {}
BY TailMessages

\* The worker takes a message that is no conversion and answers it.
LEMMA AnsweredKeeps ==
  ASSUME FrameInv, UNCHANGED <<pool, job, lease, thread, client>>, thread.state # "none",
         port.toWorker # <<>>,
         NEW e \in Event, e.type # "complete", e.type = "closed" => pool.shuttingDown,
         port' = [toWorker |-> Tail(port.toWorker), toMain |-> Append(port.toMain, e)]
  PROVE  FrameInv'
<1>1. /\ port.toWorker \in Seq(WorkerMessage) /\ port.toMain \in Seq(Event)
      /\ Sent(Here) = JobsOf(port.toWorker, "convert")
      /\ Answers(Here) = JobsOf(port.toMain, "complete")
      /\ OnlyOne(port.toWorker, "convert") /\ OnlyOne(port.toMain, "complete")
      /\ Has(port.toWorker, "shutdown") \/ Has(port.toMain, "closed") => pool.shuttingDown
      /\ pool.worker /\ lease \in [Jobs -> LeaseRecord] /\ thread \in Threads
  BY HereIs
<1> DEFINE rest == Tail(port.toWorker)
           more == Append(port.toMain, e)
<1>2. /\ rest \in Seq(WorkerMessage) /\ (Has(rest, "shutdown") => Has(port.toWorker, "shutdown"))
      /\ JobsOf(rest, "convert") \subseteq JobsOf(port.toWorker, "convert")
      /\ OnlyOne(rest, "convert")
  BY <1>1, Taken
<1>3. /\ more \in Seq(Event) /\ (Has(more, "closed") => pool.shuttingDown)
      /\ JobsOf(more, "complete") = JobsOf(port.toMain, "complete") /\ OnlyOne(more, "complete")
  BY <1>1, Replied
<1>4. port'.toWorker = rest /\ port'.toMain = more
  OBVIOUS
<1> HIDE DEF rest, more
<1>5. port' \in Ports
  BY <1>2, <1>3, <1>4 DEF Ports
<1> DEFINE n == Here'
<1>6. n.pool = pool /\ n.lease = lease /\ n.port = port' /\ n.thread = thread
  BY DEF Here
<1>7. Here.pool = pool /\ Here.lease = lease /\ Here.port = port /\ Here.thread = thread
  BY DEF Here
<1> HIDE DEF n
<1>8. Sent(n) \subseteq Sent(Here) /\ AtWork(n) = AtWork(Here) /\ Answers(n) = Answers(Here)
  BY <1>1, <1>2, <1>3, <1>4, <1>6, <1>7 DEF Sent, AtWork, Answers
<1>9. Token(Here)
  BY DEF FrameInv
<1>10. InOnePlace(n)
  BY <1>2, <1>3, <1>4, <1>6, <1>7, <1>8, <1>9 DEF Token, InOnePlace
<1>11. Released(n)
  BY <1>6, <1>7, <1>8, <1>9 DEF Token, Released
<1>12. \A j \in Jobs : LeaseOK(job[j].status, lease'[j])
  BY DEF FrameInv, Core, Here
<1>13. Token(Here')
  BY <1>10, <1>11 DEF Token, n
<1> QED
  BY <1>1, <1>2, <1>3, <1>4, <1>5, <1>12, <1>13, WorkerKeeps

LEMMA WorkerAnswersKeeps == FrameInv /\ (WorkerInitialize \/ WorkerShutdown) => FrameInv'
<1> SUFFICES ASSUME FrameInv, WorkerInitialize \/ WorkerShutdown PROVE FrameInv'
  OBVIOUS
<1>1. /\ thread.state # "none" /\ port.toWorker # <<>> /\ port.toWorker \in Seq(WorkerMessage)
      /\ UNCHANGED <<pool, job, lease, thread, client>>
      /\ Has(port.toWorker, "shutdown") => pool.shuttingDown
  BY HereIs DEF WorkerInitialize, WorkerShutdown, Takes
<1>2. [type |-> "error"] \in Event /\ [type |-> "closed"] \in Event
  BY DEF Event
<1>3. CASE WorkerInitialize
  <2>1. Head(port.toWorker) \in WorkerMessage /\ Head(port.toWorker).type = "initialize"
    BY <1>1, <1>3, Taken DEF WorkerInitialize, Takes
  <2>2. Head(port.toWorker).library \in Libraries
    BY <2>1 DEF WorkerMessage
  <2>3. PICK ok \in BOOLEAN :
          ReplyOrError(Tail(port.toWorker), [type |-> "initialized", ok |-> ok,
                                             library |-> Head(port.toWorker).library])
    BY <1>3 DEF WorkerInitialize
  <2>4. [type |-> "initialized", ok |-> ok, library |-> Head(port.toWorker).library] \in Event
    BY <2>2 DEF Event
  <2>5. PICK e \in Event :
          /\ e.type \in {"initialized", "error"}
          /\ port' = [toWorker |-> Tail(port.toWorker), toMain |-> Append(port.toMain, e)]
    BY <1>2, <2>3, <2>4 DEF ReplyOrError
  <2> QED
    BY <1>1, <2>5, AnsweredKeeps
<1>4. CASE WorkerShutdown
  <2>1. pool.shuttingDown
    BY <1>1, <1>4, Taken DEF WorkerShutdown, Takes
  <2>2. PICK e \in Event :
          /\ e.type \in {"closed", "error"}
          /\ port' = [toWorker |-> Tail(port.toWorker), toMain |-> Append(port.toMain, e)]
    BY <1>2, <1>4 DEF WorkerShutdown, ReplyOrError
  <2> QED
    BY <1>1, <2>1, <2>2, AnsweredKeeps
<1> QED
  BY <1>3, <1>4

\* The frame in the worker's hands, and what its word says at each of its steps.
Working == {"converting", "converted", "releasing", "storing", "replying"}
WordAt(state, l) ==
  /\ state \in {"converting", "converted"} => Holds(l, "owned", 0)
  /\ state = "releasing" => Holds(l, "releasing", 0)
  /\ state = "storing" => Holds(l, "releasing", 1)
  /\ state = "replying" => Holds(l, "released", 1)

LEMMA InHand ==
  ASSUME FrameInv, thread.state \in Working
  PROVE  /\ AtWork(Here) = {thread.job} /\ Sent(Here) = {} /\ Answers(Here) = {}
         /\ thread.job \in Jobs /\ job[thread.job].status = "inFlight"
         /\ WordAt(thread.state, lease[thread.job])
         /\ lease[thread.job] \in LeaseRecord /\ lease \in [Jobs -> LeaseRecord]
         /\ pool.worker
<1>1. Here.thread = thread /\ Here.lease = lease
  BY DEF Here
<1>2. AtWork(Here) = {thread.job}
  BY <1>1 DEF AtWork, Working
<1>3. Sent(Here) = {} /\ Answers(Here) = {}
  BY <1>2 DEF FrameInv, Token, InOnePlace
<1>4. thread.job \in Jobs /\ job[thread.job].status = "inFlight"
  BY <1>2, HereIs
<1>5. WordAt(thread.state, lease[thread.job])
  BY <1>1, <1>2 DEF FrameInv, Token, Released, WordAt
<1>6. lease \in [Jobs -> LeaseRecord] /\ pool.worker
  BY HereIs DEF Working
<1> QED
  BY <1>2, <1>3, <1>4, <1>5, <1>6

LEMMA WorkAdvances ==
  ASSUME FrameInv, UNCHANGED <<pool, job, port, client>>, thread.state \in Working,
         NEW state \in Working, thread' = [thread EXCEPT !.state = state],
         NEW l \in LeaseRecord, lease' = [lease EXCEPT ![thread.job] = l],
         WordAt(state, l)
  PROVE  FrameInv'
<1> DEFINE j == thread.job
           n == Here'
<1>1. /\ AtWork(Here) = {j} /\ Sent(Here) = {} /\ Answers(Here) = {}
      /\ j \in Jobs /\ job[j].status = "inFlight" /\ lease \in [Jobs -> LeaseRecord] /\ pool.worker
  BY InHand
<1>2. thread \in Threads /\ port \in Ports /\ (Has(port.toWorker, "shutdown") \/ Has(port.toMain, "closed") => pool.shuttingDown)
  BY HereIs
<1>3. thread' \in Threads /\ thread'.state = state /\ thread'.job = j
  BY <1>2 DEF Threads, Working
<1>4. lease' \in [Jobs -> LeaseRecord] /\ lease'[j] = l /\ \A i \in Jobs \ {j} : lease'[i] = lease[i]
  BY <1>1
<1>5. n.pool = pool /\ n.lease = lease' /\ n.port = port /\ n.thread = thread'
  BY DEF Here
<1>6. Here.pool = pool /\ Here.port = port /\ Here.job = job /\ Here.lease = lease
  BY DEF Here
<1> HIDE DEF n, j
<1>7. Sent(n) = {} /\ Answers(n) = {} /\ AtWork(n) = {j}
  BY <1>1, <1>3, <1>5, <1>6 DEF Sent, Answers, AtWork, Working
<1>8. InOnePlace(n)
  BY <1>1, <1>5, <1>6, <1>7 DEF FrameInv, Token, InOnePlace
<1>9. Released(n)
  BY <1>3, <1>4, <1>5, <1>7 DEF Released, WordAt
<1>10. LeaseOK("inFlight", l)
  BY DEF WordAt, Working, Holds, LeaseOK
<1>11. \A i \in Jobs : LeaseOK(job[i].status, lease'[i])
  BY <1>1, <1>4, <1>6, <1>10 DEF FrameInv, Core
<1>12. Token(Here')
  BY <1>8, <1>9 DEF Token, n
<1> QED
  BY <1>1, <1>2, <1>3, <1>4, <1>11, <1>12, WorkerKeeps

LEMMA WorkerAdvancesKeeps ==
  FrameInv /\ (WorkerConverted \/ WorkerClaim \/ WorkerRelease \/ WorkerStore) => FrameInv'
<1> SUFFICES ASSUME FrameInv, WorkerConverted \/ WorkerClaim \/ WorkerRelease \/ WorkerStore
             PROVE  FrameInv'
  OBVIOUS
<1> DEFINE j == thread.job
           claimed == [lease[j] EXCEPT !.word = "releasing"]
           counted == [lease[j] EXCEPT !.releases = @ + 1]
           stored == [lease[j] EXCEPT !.word = "released"]
<1>1. thread.state \in Working
  BY DEF WorkerConverted, WorkerClaim, WorkerRelease, WorkerStore, Working
<1>2. /\ j \in Jobs /\ WordAt(thread.state, lease[j]) /\ lease[j] \in LeaseRecord
      /\ lease \in [Jobs -> LeaseRecord]
  BY <1>1, InHand
<1>3. CASE WorkerConverted
  <2>1. lease' = [lease EXCEPT ![j] = lease[j]] /\ thread' = [thread EXCEPT !.state = "converted"]
    BY <1>2, <1>3 DEF WorkerConverted
  <2>2. WordAt("converted", lease[j])
    BY <1>2, <1>3 DEF WorkerConverted, WordAt
  <2> QED
    BY <1>1, <1>2, <1>3, <2>1, <2>2, WorkAdvances DEF WorkerConverted, Working
<1>4. CASE WorkerClaim
  <2>1. lease[j].word = "owned" /\ lease[j].releases = 0
    BY <1>2, <1>4 DEF WorkerClaim, WordAt, Holds
  <2>2. claimed \in LeaseRecord /\ WordAt("releasing", claimed)
    BY <1>2, <2>1 DEF LeaseRecord, WordAt, Holds
  <2>3. lease' = [lease EXCEPT ![j] = claimed] /\ thread' = [thread EXCEPT !.state = "releasing"]
    BY <1>2, <1>4, <2>1 DEF WorkerClaim
  <2> HIDE DEF claimed
  <2> QED
    BY <1>1, <1>4, <2>2, <2>3, WorkAdvances DEF WorkerClaim, Working
<1>5. CASE WorkerRelease
  <2>1. lease[j].word = "releasing" /\ lease[j].releases = 0
    BY <1>2, <1>5 DEF WorkerRelease, WordAt, Holds
  <2>2. counted \in LeaseRecord /\ WordAt("storing", counted)
    BY <1>2, <2>1 DEF LeaseRecord, WordAt, Holds
  <2>3. lease' = [lease EXCEPT ![j] = counted] /\ thread' = [thread EXCEPT !.state = "storing"]
    BY <1>2, <1>5 DEF WorkerRelease
  <2> HIDE DEF counted
  <2> QED
    BY <1>1, <1>5, <2>2, <2>3, WorkAdvances DEF WorkerRelease, Working
<1>6. CASE WorkerStore
  <2>1. lease[j].word = "releasing" /\ lease[j].releases = 1
    BY <1>2, <1>6 DEF WorkerStore, WordAt, Holds
  <2>2. stored \in LeaseRecord /\ WordAt("replying", stored)
    BY <1>2, <2>1 DEF LeaseRecord, WordAt, Holds
  <2>3. lease' = [lease EXCEPT ![j] = stored] /\ thread' = [thread EXCEPT !.state = "replying"]
    BY <1>2, <1>6 DEF WorkerStore
  <2> HIDE DEF stored
  <2> QED
    BY <1>1, <1>6, <2>2, <2>3, WorkAdvances DEF WorkerStore, Working
<1> QED
  BY <1>3, <1>4, <1>5, <1>6

LEMMA WorkerConvertKeeps == FrameInv /\ WorkerConvert => FrameInv'
<1> SUFFICES ASSUME FrameInv, WorkerConvert PROVE FrameInv'
  OBVIOUS
<1> DEFINE j == Head(port.toWorker).job
           rest == Tail(port.toWorker)
           n == Here'
<1>1. /\ thread.state = "idle" /\ port.toWorker # <<>> /\ Head(port.toWorker).type = "convert"
      /\ thread' = [state |-> "converting", job |-> j]
      /\ port' = [port EXCEPT !.toWorker = rest]
      /\ UNCHANGED <<pool, job, lease, client>>
  BY DEF WorkerConvert, Takes
<1>2. /\ port \in Ports /\ port.toWorker \in Seq(WorkerMessage) /\ OnlyOne(port.toWorker, "convert")
      /\ Sent(Here) = JobsOf(port.toWorker, "convert") /\ lease \in [Jobs -> LeaseRecord]
      /\ Has(port.toWorker, "shutdown") \/ Has(port.toMain, "closed") => pool.shuttingDown
      /\ pool.worker
  BY <1>1, HereIs
<1>3. /\ rest \in Seq(WorkerMessage) /\ (Has(rest, "shutdown") => Has(port.toWorker, "shutdown"))
      /\ OnlyOne(rest, "convert") /\ JobsOf(rest, "convert") = {} /\ j \in Sent(Here)
  BY <1>1, <1>2, Taken
<1> HIDE DEF rest
<1>4. port' \in Ports /\ port'.toWorker = rest /\ port'.toMain = port.toMain
  BY <1>1, <1>2, <1>3 DEF Ports
<1>5. j \in Jobs /\ pool.inFlight = j
  BY <1>3, HereIs
<1>6. n.pool = pool /\ n.lease = lease /\ n.port = port' /\ n.thread = thread'
  BY <1>1 DEF Here
<1>7. Here.pool = pool /\ Here.port = port /\ Here.job = job /\ Here.lease = lease
  BY DEF Here
<1> HIDE DEF n, j
<1>8. Answers(Here) = {} /\ Holds(lease[j], "owned", 0)
  BY <1>3, <1>7 DEF FrameInv, Token, InOnePlace, Released
<1>9. Sent(n) = {} /\ AtWork(n) = {j} /\ Answers(n) = {}
  BY <1>1, <1>3, <1>4, <1>6, <1>7, <1>8 DEF Sent, AtWork, Answers
<1>10. InOnePlace(n)
  BY <1>3, <1>4, <1>5, <1>6, <1>7, <1>9 DEF FrameInv, Token, InOnePlace
<1>11. Released(n)
  BY <1>1, <1>6, <1>8, <1>9 DEF Released
<1>12. Token(Here') /\ thread' \in Threads /\ lease' \in [Jobs -> LeaseRecord]
  BY <1>1, <1>2, <1>5, <1>10, <1>11 DEF Token, n, Threads
<1>13. \A i \in Jobs : LeaseOK(job[i].status, lease'[i])
  BY <1>1, <1>7 DEF FrameInv, Core
<1> QED
  BY <1>1, <1>2, <1>3, <1>4, <1>12, <1>13, WorkerKeeps

LEMMA WorkerReplyKeeps == FrameInv /\ (WorkerReply \/ WorkerDies) => FrameInv'
<1> SUFFICES ASSUME FrameInv, WorkerReply \/ WorkerDies PROVE FrameInv'
  OBVIOUS
<1> DEFINE j == thread.job
           n == Here'
<1>1. /\ port \in Ports /\ thread \in Threads /\ lease \in [Jobs -> LeaseRecord]
      /\ port.toWorker \in Seq(WorkerMessage) /\ port.toMain \in Seq(Event)
      /\ OnlyOne(port.toWorker, "convert") /\ OnlyOne(port.toMain, "complete")
      /\ Sent(Here) = JobsOf(port.toWorker, "convert")
      /\ Answers(Here) = JobsOf(port.toMain, "complete")
      /\ Has(port.toWorker, "shutdown") \/ Has(port.toMain, "closed") => pool.shuttingDown
      /\ pool.worker /\ UNCHANGED <<pool, job, lease, client>>
  BY HereIs DEF WorkerReply, WorkerDies
<1>2. /\ Here.pool = pool /\ Here.port = port /\ Here.job = job /\ Here.lease = lease
      /\ Here.thread = thread
  BY DEF Here
<1>3. \E e \in Event :
        /\ port' = [toWorker |-> port.toWorker, toMain |-> Append(port.toMain, e)]
        /\ e.type \in {"complete", "error", "close"}
        /\ e.type = "complete" =>
             e.job = j /\ AtWork(Here) = {j} /\ Answers(Here) = {} /\ Sent(Here) = {}
             /\ j \in Jobs /\ pool.inFlight = j /\ Holds(lease[j], "released", 1)
  <2>1. CASE WorkerReply
    <3>1. thread.state \in Working
      BY <2>1 DEF WorkerReply, Working
    <3>2. /\ AtWork(Here) = {j} /\ Answers(Here) = {} /\ Sent(Here) = {} /\ j \in Jobs
          /\ Holds(lease[j], "released", 1) /\ pool.inFlight = j
      BY <2>1, <3>1, InHand, HereIs DEF WorkerReply, WordAt
    <3>3. PICK result \in {"ok", "native", "infrastructure"} :
            ReplyOrError(port.toWorker, [type |-> "complete", job |-> j, result |-> result])
      BY <2>1 DEF WorkerReply
    <3> HIDE DEF j
    <3>4. [type |-> "complete", job |-> j, result |-> result] \in Event /\ [type |-> "error"] \in Event
      BY <3>2 DEF Event
    <3> QED
      BY <3>2, <3>3, <3>4 DEF ReplyOrError
  <2>2. CASE WorkerDies
    <3>1. [type |-> "close"] \in Event
      BY DEF Event
    <3>2. port' = [port EXCEPT !.toMain = Append(port.toMain, [type |-> "close"])]
      BY <2>2 DEF WorkerDies, Reply
    <3>3. port' = [toWorker |-> port.toWorker, toMain |-> Append(port.toMain, [type |-> "close"])]
      BY <1>1, <3>2 DEF Ports
    <3> QED
      BY <3>1, <3>3
  <2> QED
    BY <2>1, <2>2
<1>4. PICK e \in Event :
        /\ port' = [toWorker |-> port.toWorker, toMain |-> Append(port.toMain, e)]
        /\ e.type \in {"complete", "error", "close"}
        /\ e.type = "complete" =>
             e.job = j /\ AtWork(Here) = {j} /\ Answers(Here) = {} /\ Sent(Here) = {}
             /\ j \in Jobs /\ pool.inFlight = j /\ Holds(lease[j], "released", 1)
  BY <1>3
<1> DEFINE more == Append(port.toMain, e)
<1>5. /\ more \in Seq(Event) /\ (Has(more, "closed") => Has(port.toMain, "closed"))
      /\ e.type # "complete" => JobsOf(more, "complete") = JobsOf(port.toMain, "complete")
      /\ e.type = "complete" => JobsOf(more, "complete") = JobsOf(port.toMain, "complete") \cup {e.job}
      /\ OnlyOne(more, "complete")
  <2>1. e.type = "complete" => JobsOf(port.toMain, "complete") = {}
    BY <1>1, <1>4
  <2>2. e.type # "closed" /\ port.toMain \in Seq(Event) /\ OnlyOne(port.toMain, "complete")
    BY <1>1, <1>4
  <2> HIDE DEF j
  <2> QED
    BY <2>1, <2>2, Replied
<1>6. port'.toWorker = port.toWorker /\ port'.toMain = more
  BY <1>4
<1> HIDE DEF more
<1>7. port' \in Ports
  BY <1>1, <1>4, <1>5, <1>6 DEF Ports
<1>8. thread' \in Threads /\ thread'.state \in {"idle", "dead"}
  BY <1>1 DEF WorkerReply, WorkerDies, Threads
<1>9. n.pool = pool /\ n.lease = lease /\ n.port = port' /\ n.thread = thread'
  BY <1>1 DEF Here
<1> HIDE DEF n, j
<1>10. /\ Sent(n) = Sent(Here) /\ AtWork(n) = {}
       /\ e.type # "complete" => Answers(n) = Answers(Here)
       /\ e.type = "complete" => Answers(n) = {j}
  BY <1>1, <1>4, <1>5, <1>6, <1>8, <1>9 DEF Sent, AtWork, Answers
<1>11. CASE e.type = "complete"
  <2>1. Sent(n) = {} /\ AtWork(n) = {} /\ Answers(n) = {j} /\ j \in Jobs /\ pool.inFlight = j
    BY <1>4, <1>10, <1>11
  <2>2. InOnePlace(n)
    BY <1>1, <1>5, <1>6, <1>9, <2>1 DEF InOnePlace
  <2>3. Released(n)
    BY <1>4, <1>9, <1>11, <2>1 DEF Released
  <2> QED
    BY <1>1, <1>5, <1>6, <1>7, <1>8, <1>2, <2>2, <2>3, WorkerKeeps DEF Token, n, FrameInv, Core
<1>12. CASE e.type # "complete"
  <2>1. Sent(n) = Sent(Here) /\ AtWork(n) = {} /\ Answers(n) = Answers(Here) /\ Token(Here)
    BY <1>10, <1>12 DEF FrameInv
  <2>2. InOnePlace(n)
    BY <1>1, <1>2, <1>5, <1>6, <1>9, <2>1 DEF Token, InOnePlace
  <2>3. Released(n)
    BY <1>2, <1>9, <2>1 DEF Token, Released
  <2> QED
    BY <1>1, <1>5, <1>6, <1>7, <1>8, <1>2, <2>2, <2>3, WorkerKeeps DEF Token, n, FrameInv, Core
<1> QED
  BY <1>11, <1>12

(***************************************************************************)
(* The theorems.                                                           *)
(***************************************************************************)
LEMMA FrameInvInit == Init => FrameInv
<1> SUFFICES ASSUME Init PROVE FrameInv
  OBVIOUS
<1>1. /\ Here.pool = NoPool /\ Here.port = NoPort /\ Here.thread = NoThread
      /\ Here.job = [j \in Jobs |-> [client |-> None, status |-> "new"]]
      /\ Here.lease = [j \in Jobs |-> [word |-> "owned", releases |-> 0]]
  BY DEF Init, Here
<1>2. NoPool \in Pools /\ NoPort \in Ports /\ NoThread \in Threads
  BY DEF NoPool, NoPort, NoThread, Pools, Ports, Threads
<1>3. /\ Here.job \in [Jobs -> JobRecord] /\ Here.lease \in [Jobs -> LeaseRecord]
  BY <1>1 DEF JobRecord, LeaseRecord, Statuses
<1>4. Here \in States
  BY <1>1, <1>2, <1>3 DEF States, Here
<1>5. \A j \in Jobs : /\ Here.job[j].status = "new"
                      /\ Here.lease[j].word = "owned" /\ Here.lease[j].releases = 0
  BY <1>1
<1>6. Core(Here)
  BY <1>1, <1>4, <1>5, EmptyMessages, ClientLibraries
     DEF Core, Given, Unanswered, Queued, Waits, LeaseOK, NoPool, NoPort, NoThread
<1>7. Token(Here)
  BY <1>1, EmptyMessages, QuietToken DEF Quiet, Sent, AtWork, Answers, NoPort, NoThread
<1>8. client \in [Clients -> Lives] /\ NeverRefusesShutdown
  BY DEF Init, Lives, NeverRefusesShutdown
<1>9. Attended(Here, client)
  BY <1>5 DEF Attended, Unanswered
<1> QED
  BY <1>6, <1>7, <1>8, <1>9 DEF FrameInv

LEMMA FrameInvNext == FrameInv /\ [Next]_vars => FrameInv'
<1> SUFFICES ASSUME FrameInv, [Next]_vars PROVE FrameInv'
  OBVIOUS
<1>1. CASE \E c \in Clients : CreateClient(c) \/ CloseClient(c)
  BY <1>1, ComesKeeps
<1>2. CASE \E c \in Clients : ReleaseClient(c)
  BY <1>2, ReleaseClientKeeps
<1>3. CASE \E c \in Clients, j \in Jobs : Convert(c, j)
  BY <1>3, ConvertKeeps
<1>4. CASE Microtask
  BY <1>4, MicrotaskKeeps
<1>5. CASE MainEvent
  BY <1>5, OnInitializedKeeps, OnCompleteKeeps, OnClosedKeeps, OnErrorKeeps DEF MainEvent
<1>6. CASE ShutdownTimer
  BY <1>6, ShutdownTimerKeeps
<1>7. CASE WorkerStep \/ WorkerShutdown \/ WorkerDies
  BY <1>7, WorkerAnswersKeeps, WorkerConvertKeeps, WorkerAdvancesKeeps, WorkerReplyKeeps
     DEF WorkerStep
<1>8. CASE UNCHANGED vars
  <2>1. Here' = Here /\ client' = client
    BY <1>8, HereSame DEF vars
  <2> QED
    BY <1>8, <2>1, ClientStep DEF FrameInv, vars, NeverRefusesShutdown
<1> QED
  BY <1>1, <1>2, <1>3, <1>4, <1>5, <1>6, <1>7, <1>8 DEF Next

\* The conversion in flight is in one place (its message, the worker or the answer)
\* and there its word says who releases its frame; the queue holds the frames that
\* wait, no client leaves before its frame is answered.
THEOREM FrameInvariance == Spec => []FrameInv
BY FrameInvInit, FrameInvNext, PTL DEF Spec

\* The worker, the backstop and the synchronous close never give a native frame
\* back twice, and a frame whose promise has settled is back with the library,
\* unless a worker died between claiming its release and making it (releaseLease).
THEOREM LeaseTheorem == Spec => []LeaseReturnedOnce
<1>1. FrameInv => LeaseReturnedOnce
  BY DEF FrameInv, Core, LeaseOK, LeaseReturnedOnce, Settled, Here
<1> QED
  BY <1>1, FrameInvariance, PTL

\* The worker never converts a frame that was given back.
THEOREM UseTheorem == Spec => []NoUseAfterRelease
<1>1. FrameInv => NoUseAfterRelease
  BY InHand DEF NoUseAfterRelease, Working, WordAt, Holds
<1> QED
  BY <1>1, FrameInvariance, PTL

\* The last client to leave finds no work outstanding: beginShutdown never throws.
THEOREM ShutdownTheorem == Spec => []NeverRefusesShutdown
<1>1. FrameInv => NeverRefusesShutdown
  BY DEF FrameInv
<1> QED
  BY <1>1, FrameInvariance, PTL

(***************************************************************************)
(* The pool and its worker take turns: one message to the worker is out,   *)
(* or one thing is in the worker's hands, or one report is on its way      *)
(* back; "close" alone comes besides, of a worker that is dead.            *)
(***************************************************************************)
Reported(s) == \E i \in 1 .. Len(s.port.toMain) : s.port.toMain[i].type # "close"

OneTurn(s) ==
  /\ Len(s.port.toWorker) <= 1
  /\ s.port.toWorker # <<>> => s.thread.state \notin Working /\ ~Reported(s)
  /\ s.thread.state \in Working => ~Reported(s)
  /\ \A i, k \in 1 .. Len(s.port.toMain) :
       s.port.toMain[i].type # "close" /\ s.port.toMain[k].type # "close" => i = k
  /\ s.port.toWorker # <<>> \/ s.thread.state \in Working \/ Reported(s)
       => Waits(s) \/ s.pool.shuttingDown
  /\ Has(s.port.toMain, "close") => s.thread.state = "dead"

\* What the pool says to its worker on the way from s to n: nothing, or one message
\* that it then waits for.
Silent(s, n) ==
  /\ n.port = s.port /\ n.thread.state = s.thread.state
  /\ n.pool.shuttingDown = s.pool.shuttingDown
Asks(s, n) ==
  /\ n.port.toMain = s.port.toMain /\ n.thread.state = s.thread.state
  /\ \E message \in WorkerMessage : n.port.toWorker = Append(s.port.toWorker, message)
  /\ Waits(n) \/ n.pool.shuttingDown

LEMMA SilentTurn ==
  ASSUME NEW s, NEW n, OneTurn(s), Silent(s, n), Waits(s) => Waits(n)
  PROVE  OneTurn(n)
BY DEF OneTurn, Silent, Reported

LEMMA AsksTurn ==
  ASSUME NEW s \in States, NEW n, OneTurn(s), ~Waits(s), ~s.pool.shuttingDown, Asks(s, n)
  PROVE  OneTurn(n)
<1>1. PICK message \in WorkerMessage : n.port.toWorker = Append(s.port.toWorker, message)
  BY DEF Asks
<1>2. s.port.toWorker = <<>> /\ s.thread.state \notin Working /\ ~Reported(s)
  BY DEF OneTurn
<1>3. Len(n.port.toWorker) = 1
  BY <1>1, <1>2
<1> QED
  BY <1>2, <1>3 DEF OneTurn, Asks, Reported

LEMMA RunSynchronousSilent ==
  ASSUME NEW s \in States, s.pool.queue # <<>>, NEW n \in RunSynchronous(s)
  PROVE  Silent(s, n) /\ Waits(n) = Waits(s)
<1> DEFINE j == Head(s.pool.queue)
           d == Dequeue(s)
           r == Release(d, j)
           done == [r EXCEPT !.pool.tick = TRUE]
<1>1. j \in Jobs
  BY DEF States, Pools
<1>2. PICK status \in {"resolved", "rejected"} : n = Settle(done, j, status)
  BY DEF RunSynchronous
<1>3. d \in States /\ d.pool = [s.pool EXCEPT !.queue = Tail(@)] /\ d.port = s.port /\ d.thread = s.thread
  BY <1>1, DequeueIs
<1> HIDE DEF d, j
<1>4. r \in States /\ r.pool = d.pool /\ r.port = d.port /\ r.thread = d.thread
  BY <1>1, <1>3, ReleaseIs
<1> HIDE DEF r
<1>5. /\ done \in States /\ done.pool = [r.pool EXCEPT !.tick = TRUE]
      /\ done.port = r.port /\ done.thread = r.thread
  BY <1>4 DEF States, Pools
<1> HIDE DEF done
<1>6. n.pool = done.pool /\ n.port = done.port /\ n.thread = done.thread
  <2>1. status \in Statuses
    BY DEF Statuses
  <2> QED
    BY <1>1, <1>2, <1>5, <2>1, SettleIs
<1> QED
  BY <1>3, <1>4, <1>5, <1>6 DEF States, Pools, Silent, Waits

LEMMA FailureSilent ==
  ASSUME NEW s, Core(s)
  PROVE  Silent(s, [s EXCEPT !.pool.failure = TRUE])
BY DEF Core, States, Pools, Silent

LEMMA FallBackSilent ==
  ASSUME NEW s \in States, NEW n \in FallBack(s)
  PROVE  Silent(s, n) /\ Waits(n) = Waits(s)
BY RunSynchronousSilent DEF FallBack, Silent

LEMMA InitializeTurn ==
  ASSUME NEW s, Core(s), OneTurn(s), s.pool.queue # <<>>, ~Waits(s), ~s.pool.shuttingDown,
         NEW library \in Libraries, NEW n \in Initialize(s, library)
  PROVE  OneTurn(n)
<1> DEFINE pool1 == [s.pool EXCEPT !.initializing = library]
           i == [s EXCEPT !.pool = pool1]
           message == [type |-> "initialize", library |-> library]
           f == [s EXCEPT !.pool.failure = TRUE]
<1>1. n = Post(i, message) \/ n \in FallBack(f)
  BY DEF Initialize
<1>2. CASE n = Post(i, message)
  <2>1. pool1 \in Pools /\ pool1.initializing = library /\ s \in States
    BY DEF Core, States, Pools
  <2> HIDE DEF pool1
  <2>2. i \in States /\ i.pool = pool1 /\ i.port = s.port /\ i.thread = s.thread
    BY <2>1, PoolIs
  <2>3. message \in WorkerMessage
    BY DEF WorkerMessage
  <2> HIDE DEF i, message
  <2>4. /\ n.pool = i.pool /\ n.thread = i.thread /\ n.port.toMain = i.port.toMain
        /\ n.port.toWorker = Append(i.port.toWorker, message)
    BY <1>2, <2>2, <2>3, PostIs
  <2>5. Waits(n)
    BY <2>1, <2>2, <2>4, ClientLibraries DEF Waits
  <2>6. Asks(s, n)
    BY <2>2, <2>3, <2>4, <2>5 DEF Asks
  <2> QED
    BY <2>1, <2>6, AsksTurn
<1>3. CASE n \in FallBack(f)
  <2>1. Silent(s, f) /\ Core(f) /\ ~Waits(f)
    BY FailureSilent, FailureKeeps DEF Keeps
  <2>2. OneTurn(f)
    BY <2>1, SilentTurn
  <2> HIDE DEF f
  <2> QED
    BY <1>3, <2>1, <2>2, FallBackSilent, SilentTurn DEF Core
<1> QED
  BY <1>1, <1>2, <1>3

LEMMA DispatchTurn ==
  ASSUME NEW s, Core(s), OneTurn(s), s.pool.queue # <<>>, ~Waits(s), s.pool.worker,
         ~s.pool.shuttingDown, NEW n \in Dispatch(s, Head(s.pool.queue))
  PROVE  OneTurn(n)
<1> DEFINE j == Head(s.pool.queue)
           taken == Dequeue(s)
           flying == [taken EXCEPT !.pool.inFlight = j]
           settled == Settle(flying, j, "inFlight")
           message == [type |-> "convert", job |-> j]
           closed == Settle(Release(taken, j), j, "rejected")
           noOutput == [closed EXCEPT !.pool.tick = TRUE]
           b == Settle(Backstop(taken, j), j, "rejected")
           unsent == [b EXCEPT !.pool.failure = TRUE]
<1>1. j \in Jobs /\ s \in States
  BY QueueHead DEF Core
<1>2. n = Post(settled, message) \/ n = noOutput \/ n \in FallBack(unsent)
  BY DEF Dispatch
<1>3. /\ taken \in States /\ taken.pool = [s.pool EXCEPT !.queue = Tail(@)]
      /\ taken.port = s.port /\ taken.thread = s.thread
  BY <1>1, DequeueIs
<1>4. /\ taken.pool.inFlight = s.pool.inFlight /\ taken.pool.initializing = s.pool.initializing
      /\ taken.pool.shuttingDown = s.pool.shuttingDown
  BY <1>1, <1>3 DEF States, Pools
<1>5. "inFlight" \in Statuses /\ "rejected" \in Statuses
  BY DEF Statuses
<1> HIDE DEF taken, j
<1>6. CASE n = Post(settled, message)
  <2>1. /\ flying \in States /\ flying.pool = [taken.pool EXCEPT !.inFlight = j]
        /\ flying.port = taken.port /\ flying.thread = taken.thread /\ flying.pool.inFlight = j
    BY <1>1, <1>3 DEF States, Pools
  <2> HIDE DEF flying
  <2>2. /\ settled \in States /\ settled.pool = flying.pool
        /\ settled.port = flying.port /\ settled.thread = flying.thread
    BY <1>1, <1>5, <2>1, SettleIs
  <2>3. message \in WorkerMessage
    BY <1>1 DEF WorkerMessage
  <2> HIDE DEF settled, message
  <2>4. /\ n.pool = settled.pool /\ n.thread = settled.thread
        /\ n.port.toMain = settled.port.toMain
        /\ n.port.toWorker = Append(settled.port.toWorker, message)
    BY <1>6, <2>2, <2>3, PostIs
  <2>5. Waits(n)
    BY <1>1, <2>1, <2>2, <2>4, ClientLibraries DEF Waits
  <2>6. Asks(s, n)
    BY <1>3, <2>1, <2>2, <2>3, <2>4, <2>5 DEF Asks
  <2> QED
    BY <1>1, <2>6, AsksTurn
<1>7. CASE n = noOutput
  <2> DEFINE r == Release(taken, j)
  <2>1. r \in States /\ r.pool = taken.pool /\ r.port = taken.port /\ r.thread = taken.thread
    BY <1>1, <1>3, ReleaseIs
  <2>2. closed = Settle(r, j, "rejected")
    OBVIOUS
  <2> HIDE DEF r, closed
  <2>3. /\ closed \in States /\ closed.pool = r.pool
        /\ closed.port = r.port /\ closed.thread = r.thread
    BY <1>1, <1>5, <2>1, <2>2, SettleIs
  <2>4. n.port = closed.port /\ n.thread = closed.thread /\ n.pool = [closed.pool EXCEPT !.tick = TRUE]
    BY <1>7, <2>3 DEF States
  <2>5. Silent(s, n)
    BY <1>3, <1>4, <2>1, <2>3, <2>4 DEF Silent, States, Pools
  <2> QED
    BY <2>5, SilentTurn
<1>8. CASE n \in FallBack(unsent)
  <2> DEFINE p == Backstop(taken, j)
  <2>1. p \in States /\ p.pool = taken.pool /\ p.port = taken.port /\ p.thread = taken.thread
    BY <1>1, <1>3, BackstopIs
  <2>2. b = Settle(p, j, "rejected")
    OBVIOUS
  <2> HIDE DEF p, b
  <2>3. b \in States /\ b.pool = p.pool /\ b.port = p.port /\ b.thread = p.thread
    BY <1>1, <1>5, <2>1, <2>2, SettleIs
  <2>4. /\ unsent \in States /\ unsent.port = b.port /\ unsent.thread = b.thread
        /\ unsent.pool = [b.pool EXCEPT !.failure = TRUE]
    BY <2>3 DEF States, Pools
  <2>5. Silent(s, unsent)
    BY <1>3, <1>4, <2>1, <2>3, <2>4 DEF Silent, States, Pools
  <2> HIDE DEF unsent
  <2>6. Silent(unsent, n)
    BY <1>8, <2>4, FallBackSilent
  <2>7. Silent(s, n)
    BY <2>5, <2>6 DEF Silent
  <2> QED
    BY <2>7, SilentTurn
<1> QED
  BY <1>2, <1>6, <1>7, <1>8

LEMMA StartedTurn ==
  ASSUME NEW s, Core(s), OneTurn(s)
  PROVE  OneTurn([s EXCEPT !.pool.worker = TRUE,
                           !.thread.state = IF s.pool.worker THEN @ ELSE "idle"])
<1> DEFINE state1 == IF s.pool.worker THEN s.thread.state ELSE "idle"
           n == [s EXCEPT !.pool.worker = TRUE,
                          !.thread.state = IF s.pool.worker THEN @ ELSE "idle"]
<1> SUFFICES OneTurn(n)
  OBVIOUS
<1>1. /\ n.port = s.port /\ n.thread.state = state1
      /\ n.pool.shuttingDown = s.pool.shuttingDown /\ n.pool.inFlight = s.pool.inFlight
      /\ n.pool.initializing = s.pool.initializing
  BY DEF Core, States, Pools, Threads
<1> HIDE DEF n
<1>2. CASE s.pool.worker
  BY <1>1, <1>2 DEF OneTurn, Reported, Waits
<1>3. CASE ~s.pool.worker
  <2>1. s.port = NoPort
    BY <1>3 DEF Core
  <2> QED
    BY <1>1, <1>3, <2>1 DEF OneTurn, Reported, Waits, NoPort, Working, Has
<1> QED
  BY <1>2, <1>3

LEMMA ProcessQueueTurn ==
  ASSUME NEW s, Core(s), OneTurn(s), NEW n \in ProcessQueue(s)
  PROVE  OneTurn(n)
<1>1. CASE Waits(s) \/ s.pool.queue = <<>>
  BY <1>1 DEF ProcessQueue
<1>2. CASE ~Waits(s) /\ s.pool.queue # <<>>
  <2> DEFINE j == Head(s.pool.queue)
             library == LibraryOf[s.job[j].client]
             started == [s EXCEPT !.pool.worker = TRUE,
                                  !.thread.state = IF s.pool.worker THEN @ ELSE "idle"]
             failed == [s EXCEPT !.pool.failure = TRUE]
  <2>1. CASE n \in RunSynchronous(s)
    BY <1>2, <2>1, RunSynchronousSilent, SilentTurn DEF Core
  <2>2. CASE n \in RunSynchronous(failed)
    <3>1. /\ failed \in States /\ failed.pool.queue = s.pool.queue /\ Waits(failed) = Waits(s)
          /\ Silent(s, failed)
      BY FailureKeeps, FailureSilent DEF Keeps, Core
    <3> HIDE DEF failed
    <3>2. Silent(failed, n)
      BY <1>2, <2>2, <3>1, RunSynchronousSilent
    <3>3. Silent(s, n)
      BY <3>1, <3>2 DEF Silent
    <3> QED
      BY <1>2, <3>3, SilentTurn
  <2>3. CASE /\ ~s.pool.shuttingDown /\ s.job[j].client \notin Synchronous
             /\ n \in Dispatch(started, j) \/ n \in Initialize(started, library)
    <3>1. /\ Keeps(s, started) /\ started.pool.worker
          /\ started.pool.queue = s.pool.queue /\ started.pool.shuttingDown = s.pool.shuttingDown
          /\ Waits(started) = Waits(s)
      BY StartedKeeps
    <3>2. Core(started) /\ OneTurn(started)
      BY <3>1, StartedTurn DEF Keeps
    <3> HIDE DEF started
    <3>3. CASE n \in Dispatch(started, j)
      BY <1>2, <2>3, <3>1, <3>2, <3>3, DispatchTurn
    <3>4. library \in Libraries
      BY <1>2, QueueHead, ClientLibraries DEF Core, Given, Unanswered
    <3>5. CASE n \in Initialize(started, library)
      BY <1>2, <2>3, <3>1, <3>2, <3>4, <3>5, InitializeTurn
    <3> QED
      BY <2>3, <3>3, <3>5
  <2> QED
    BY <1>2, <2>1, <2>2, <2>3 DEF ProcessQueue
<1> QED
  BY <1>1, <1>2

\* Nothing is out: neither a message, nor work, nor a report.
Still(s) == s.port.toWorker = <<>> /\ s.thread.state \notin Working /\ ~Reported(s)

LEMMA StillTurn ==
  ASSUME NEW s, Still(s), Has(s.port.toMain, "close") => s.thread.state = "dead"
  PROVE  OneTurn(s)
BY DEF Still, OneTurn, Reported

LEMMA HereHas ==
  /\ Here.pool = pool /\ Here.job = job /\ Here.port = port /\ Here.thread = thread
  /\ Here'.pool = pool' /\ Here'.job = job' /\ Here'.port = port' /\ Here'.thread = thread'
BY DEF Here

LEMMA TurnBecomes ==
  ASSUME NEW n \in States, Become(n), OneTurn(n)
  PROVE  OneTurn(Here')
BY BecomeHere

\* A worker that is let go says nothing more.
LEMMA LetGoTurn ==
  ASSUME NEW s, Core(s)
  PROVE  /\ Terminated(s) \in States /\ OneTurn(Terminated(s))
         /\ Finished(s) \in States /\ OneTurn(Finished(s))
<1>1. Terminated(s) \in States /\ Finished(s) \in States
  BY TerminatedKeeps, FinishedKeeps DEF Core
<1>2. /\ Terminated(s).port = NoPort /\ Terminated(s).thread = NoThread
      /\ Finished(s).port = NoPort /\ Finished(s).thread = NoThread
  BY DEF Terminated, Finished, Core, States
<1>3. \A n : n.port = NoPort /\ n.thread = NoThread => OneTurn(n)
  BY StillTurn DEF Still, Reported, Has, NoPort, NoThread, Working
<1> QED
  BY <1>1, <1>2, <1>3

\* An event has been taken from the port.
LEMMA ReceivedTurn ==
  ASSUME FrameInv, OneTurn(Here), port.toMain # <<>>
  PROVE  /\ OneTurn(Received)
         /\ Head(port.toMain).type # "close" => Still(Received) /\ thread.state \notin Working
         /\ Head(port.toMain).type = "close" => thread.state = "dead"
<1> DEFINE rest == Tail(port.toMain)
<1>1. /\ Received.pool = pool /\ Received.thread = thread
      /\ Received.port.toWorker = port.toWorker /\ Received.port.toMain = rest
  BY ReceivedIs
<1>2. /\ Here.port.toMain = port.toMain /\ Here.port.toWorker = port.toWorker
      /\ Here.thread = thread /\ Here.pool = pool
  BY HereHas
<1>3. port.toMain \in Seq(Event)
  BY HereIs
<1>4. /\ rest \in Seq(Event) /\ Len(rest) = Len(port.toMain) - 1
      /\ Len(port.toMain) \in Nat /\ Len(port.toMain) > 0 /\ Head(port.toMain) = port.toMain[1]
      /\ \A i \in 1 .. Len(rest) : rest[i] = port.toMain[i + 1]
  BY <1>3
<1> HIDE DEF rest
<1>5. \A i \in 1 .. Len(rest) : i + 1 \in 1 .. Len(port.toMain) /\ i + 1 # 1
  BY <1>4
<1>6. 1 \in 1 .. Len(port.toMain)
  BY <1>4
<1>7. (Reported(Received) => Reported(Here)) /\ (Has(rest, "close") => Has(port.toMain, "close"))
  BY <1>1, <1>2, <1>4, <1>5 DEF Reported, Has
<1>8. \A i, k \in 1 .. Len(rest) : rest[i].type # "close" /\ rest[k].type # "close" => i = k
  <2> SUFFICES ASSUME NEW i \in 1 .. Len(rest), NEW k \in 1 .. Len(rest),
                      rest[i].type # "close", rest[k].type # "close"
               PROVE  i = k
    OBVIOUS
  <2>1. i + 1 = k + 1
    BY <1>2, <1>4, <1>5 DEF OneTurn
  <2> QED
    BY <1>4, <2>1
<1>9. OneTurn(Received)
  BY <1>1, <1>2, <1>7, <1>8 DEF OneTurn, Waits
<1>10. ASSUME Head(port.toMain).type # "close"
       PROVE  Still(Received) /\ thread.state \notin Working
  <2>1. Reported(Here)
    BY <1>2, <1>4, <1>6, <1>10 DEF Reported
  <2>2. port.toWorker = <<>> /\ thread.state \notin Working
    BY <1>2, <2>1 DEF OneTurn
  <2>3. ~Reported(Received)
    BY <1>1, <1>2, <1>4, <1>5, <1>6, <1>10 DEF OneTurn, Reported
  <2> QED
    BY <1>1, <2>2, <2>3 DEF Still
<1>11. Head(port.toMain).type = "close" => thread.state = "dead"
  BY <1>2, <1>4, <1>6 DEF OneTurn, Has
<1> QED
  BY <1>9, <1>10, <1>11

LEMMA MicrotaskTurn == FrameInv /\ OneTurn(Here) /\ Microtask => OneTurn(Here')
<1> SUFFICES ASSUME FrameInv, OneTurn(Here), Microtask PROVE OneTurn(Here')
  OBVIOUS
<1> DEFINE s == [Here EXCEPT !.pool.tick = FALSE]
<1>1. PICK n \in ProcessQueue(s) : Become(n)
  BY DEF Microtask
<1>2. /\ Core(s) /\ Waits(s) = Waits(Here) /\ s.port = port /\ s.thread = thread
      /\ s.pool.shuttingDown = pool.shuttingDown
  BY Unticked DEF Keeps
<1> HIDE DEF s
<1>3. OneTurn(s)
  BY <1>2, HereHas, SilentTurn DEF Silent
<1>4. OneTurn(n) /\ n \in States
  BY <1>1, <1>2, <1>3, ProcessQueueTurn, ProcessQueueKeeps DEF Keeps, Core
<1> QED
  BY <1>1, <1>4, TurnBecomes

LEMMA ConvertTurn ==
  ASSUME FrameInv, OneTurn(Here), NEW c \in Clients, NEW j \in Jobs, Convert(c, j)
  PROVE  OneTurn(Here')
<1> DEFINE s == [Here EXCEPT !.job[j].client = c]
           r == Release(s, j)
           refused == Settle(r, j, "rejected")
           queued == Settle([s EXCEPT !.pool.queue = Append(@, j)], j, "queued")
<1>1. job[j].status = "new"
  BY DEF Convert
<1>2. Become(refused) \/ \E n \in ProcessQueue(queued) : Become(n)
  BY DEF Convert
<1>3. CASE Become(refused)
  <2>1. s \in States /\ s.pool = Here.pool /\ s.port = Here.port /\ s.thread = Here.thread
    BY <1>1, HereHas, GivenTo DEF FrameInv
  <2> HIDE DEF s
  <2>2. r \in States /\ r.pool = s.pool /\ r.port = s.port /\ r.thread = s.thread
    BY <2>1, ReleaseIs
  <2> HIDE DEF r
  <2>3. "rejected" \in Statuses
    BY DEF Statuses
  <2>4. /\ refused \in States /\ refused.pool = r.pool /\ refused.port = r.port
        /\ refused.thread = r.thread
    BY <2>2, <2>3, SettleIs
  <2> HIDE DEF refused
  <2>5. OneTurn(refused)
    BY <2>1, <2>2, <2>4, SilentTurn DEF Silent, Waits
  <2> QED
    BY <1>3, <2>4, <2>5, TurnBecomes
<1>4. CASE \E n \in ProcessQueue(queued) : Become(n)
  <2>1. PICK n \in ProcessQueue(queued) : Become(n)
    BY <1>4
  <2>2. /\ Core(queued) /\ queued.port = port /\ queued.thread = thread
        /\ Waits(queued) = Waits(Here) /\ queued.pool.shuttingDown = pool.shuttingDown
    BY <1>1, EnqueuedHere
  <2> HIDE DEF queued
  <2>3. OneTurn(queued)
    BY <2>2, HereHas, SilentTurn DEF Silent
  <2>4. OneTurn(n) /\ n \in States
    BY <2>1, <2>2, <2>3, ProcessQueueTurn, ProcessQueueKeeps DEF Keeps, Core
  <2> QED
    BY <2>1, <2>4, TurnBecomes
<1> QED
  BY <1>2, <1>3, <1>4

LEMMA OnInitializedTurn == FrameInv /\ OneTurn(Here) /\ OnInitialized => OneTurn(Here')
<1> SUFFICES ASSUME FrameInv, OneTurn(Here), OnInitialized PROVE OneTurn(Here')
  OBVIOUS
<1> DEFINE e == Head(port.toMain)
           known == IF e.ok THEN [Received EXCEPT !.pool.ready = @ \cup {e.library}]
                            ELSE [Received EXCEPT !.pool.failed = @ \cup {e.library}]
           s == [known EXCEPT !.pool.initializing = None]
<1>1. port.toMain # <<>> /\ e.type = "initialized"
  BY DEF OnInitialized, Receives
<1>2. OneTurn(Received) /\ Still(Received) /\ Received \in States
  BY <1>1, ReceivedTurn, ReceivedIs DEF Core
<1>3. CASE Become(Received)
  BY <1>2, <1>3, TurnBecomes
<1>4. CASE \E n \in ProcessQueue(s) : Become(n)
  <2>1. PICK n \in ProcessQueue(s) : Become(n)
    BY <1>4
  <2>2. Core(s) /\ s.port = Received.port /\ s.thread = Received.thread
    BY <1>1, Learnt DEF Keeps
  <2> HIDE DEF s
  <2>3. OneTurn(s)
    BY <1>2, <2>2, StillTurn DEF Still, Reported, OneTurn
  <2>4. OneTurn(n) /\ n \in States
    BY <2>1, <2>2, <2>3, ProcessQueueTurn, ProcessQueueKeeps DEF Keeps, Core
  <2> QED
    BY <2>1, <2>4, TurnBecomes
<1> QED
  BY <1>3, <1>4 DEF OnInitialized

LEMMA OnCompleteTurn == FrameInv /\ OneTurn(Here) /\ OnComplete => OneTurn(Here')
<1> SUFFICES ASSUME FrameInv, OneTurn(Here), OnComplete PROVE OneTurn(Here')
  OBVIOUS
<1> DEFINE e == Head(port.toMain)
           j == e.job
           free == [Received EXCEPT !.pool.inFlight = None]
           verdict == IF e.result = "ok" THEN "resolved" ELSE "rejected"
           rejected == Settle(free, j, "rejected")
           answered == Settle(free, j, verdict)
<1>1. port.toMain # <<>> /\ e.type = "complete" /\ verdict \in {"resolved", "rejected"}
  BY DEF OnComplete, Receives
<1>2. OneTurn(Received) /\ Still(Received)
  BY <1>1, ReceivedTurn
<1>3. \E n \in IF e.result = "infrastructure" THEN FailWorker(rejected) ELSE ProcessQueue(answered) :
        Become(n)
  BY Completed
<1>4. /\ Core(rejected) /\ rejected.port = Received.port /\ rejected.thread = Received.thread
      /\ Core(answered) /\ answered.port = Received.port /\ answered.thread = Received.thread
  BY <1>1, Completed
<1> HIDE DEF rejected, answered
<1>5. \A m : m.port = Received.port /\ m.thread = Received.thread => OneTurn(m)
  BY <1>2, StillTurn DEF Still, Reported, OneTurn
<1>6. PICK m : Core(m) /\ OneTurn(m) /\ \E n \in ProcessQueue(m) : Become(n)
  <2>1. PICK m : /\ FailWorker(rejected) = ProcessQueue(m)
                 /\ Core(m) /\ m.port = rejected.port /\ m.thread = rejected.thread
    BY <1>4, WorkerLost
  <2>2. OneTurn(m) /\ OneTurn(answered)
    BY <1>4, <1>5, <2>1
  <2> QED
    BY <1>3, <1>4, <2>1, <2>2
<1>7. PICK n \in ProcessQueue(m) : Become(n)
  BY <1>6
<1>8. OneTurn(n) /\ n \in States
  BY <1>6, <1>7, ProcessQueueTurn, ProcessQueueKeeps DEF Keeps, Core
<1> QED
  BY <1>7, <1>8, TurnBecomes

LEMMA EndTurn ==
  FrameInv /\ (OnClosed \/ OnError \/ OnClose \/ ShutdownTimer) => OneTurn(Here')
<1> SUFFICES ASSUME FrameInv, OnClosed \/ OnError \/ OnClose \/ ShutdownTimer PROVE OneTurn(Here')
  OBVIOUS
<1>1. Core(Here)
  BY DEF FrameInv
<1>2. port.toMain # <<>> => Core(Received)
  BY ReceivedIs
<1>3. ASSUME NEW s, Core(s), Become(Finished(s)) \/ Become(Terminated(s)) PROVE OneTurn(Here')
  BY <1>3, LetGoTurn, TurnBecomes
<1>4. CASE OnClosed
  <2>1. port.toMain # <<>> /\ Head(port.toMain).type = "closed"
    BY <1>4 DEF OnClosed, Receives
  <2>2. port.toMain \in Seq(Event) /\ (Has(port.toMain, "closed") => pool.shuttingDown)
    BY HereIs
  <2>3. Has(port.toMain, "closed")
    BY <2>1, <2>2, TailMessages
  <2> QED
    BY <1>2, <1>3, <1>4, <2>1, <2>2, <2>3 DEF OnClosed, FinishShutdown
<1>5. CASE OnError \/ OnClose
  <2>1. port.toMain # <<>>
    BY <1>5 DEF OnError, OnClose, Receives
  <2>2. FinishShutdown(Received) \/ \E n \in FailWorker(Received) : Become(Terminated(n))
    BY <1>5 DEF OnError, OnClose
  <2>3. \A n \in FailWorker(Received) : Core(n)
    BY <1>2, <2>1, FailWorkerKeeps
  <2> QED
    BY <1>2, <1>3, <2>1, <2>2, <2>3 DEF FinishShutdown
<1>6. CASE ShutdownTimer
  BY <1>1, <1>3, <1>6 DEF ShutdownTimer, FinishShutdown
<1> QED
  BY <1>4, <1>5, <1>6

LEMMA ReleaseClientTurn ==
  ASSUME FrameInv, OneTurn(Here), NEW c \in Clients, ReleaseClient(c)
  PROVE  OneTurn(Here')
<1>1. Core(Here) /\ Here \in States
  BY DEF FrameInv, Core
<1>2. CASE UNCHANGED <<pool, job, lease, port, thread>>
  BY <1>2, HereSame
<1>3. CASE Become(Finished(Here))
  BY <1>1, <1>3, LetGoTurn, TurnBecomes
<1>4. CASE /\ Registered = {c} /\ ~pool.shuttingDown
           /\ \E how \in IF Outstanding THEN {"failed"} ELSE {"draining", "closed"} :
                Become(ShutDown(how))
  <2>1. ~Outstanding
    BY <1>4, OutstandingIsBusy DEF ReleaseClient
  <2>2. CASE Become(ShutDown("closed"))
    BY <1>3, <2>2 DEF ShutDown
  <2>3. CASE Become(ShutDown("draining"))
    <3> DEFINE m == [Here EXCEPT !.pool.shuttingDown = TRUE]
               message == [type |-> "shutdown"]
               n == Post(m, message)
    <3>1. m \in States /\ m.port = Here.port /\ m.thread = Here.thread /\ m.pool.shuttingDown
      BY <1>1 DEF States, Pools
    <3>2. message \in WorkerMessage
      BY DEF WorkerMessage
    <3>3. Become(n)
      BY <2>3 DEF ShutDown
    <3> HIDE DEF m, message
    <3>4. /\ n \in States /\ n.pool = m.pool /\ n.thread = m.thread
          /\ n.port.toMain = m.port.toMain /\ n.port.toWorker = Append(m.port.toWorker, message)
      BY <3>1, <3>2, PostIs
    <3> HIDE DEF n
    <3>5. Asks(Here, n)
      BY <3>1, <3>2, <3>4 DEF Asks
    <3>6. ~Waits(Here) /\ ~Here.pool.shuttingDown
      BY <1>4, <2>1, HereHas DEF Outstanding, Waits
    <3>7. OneTurn(n)
      BY <1>1, <3>5, <3>6, AsksTurn
    <3> QED
      BY <3>3, <3>4, <3>7, TurnBecomes
  <2> QED
    BY <1>4, <2>1, <2>2, <2>3
<1> QED
  BY <1>2, <1>3, <1>4 DEF ReleaseClient

\* The worker is at work or free, and alive: what the main thread has of it is read.
LEMMA NothingHeard ==
  ASSUME FrameInv, OneTurn(Here), ~Reported(Here), thread.state # "dead"
  PROVE  port.toMain = <<>>
<1>1. port.toMain \in Seq(Event) /\ Here.port = port /\ Here.thread = thread
  BY HereIs, HereHas
<1>2. \A i \in 1 .. Len(port.toMain) : FALSE
  BY <1>1 DEF OneTurn, Reported, Has
<1>3. Len(port.toMain) = 0
  BY <1>1, <1>2
<1> QED
  BY <1>1, <1>3

\* The worker has taken its message, or let its work go, and reports.
LEMMA ReportTurn ==
  ASSUME FrameInv, OneTurn(Here), UNCHANGED pool, thread.state # "dead",
         port.toWorker # <<>> \/ thread.state \in Working, thread'.state = "idle",
         NEW e \in Event, e.type # "close", port'.toMain = Append(port.toMain, e),
         port'.toWorker = <<>>
  PROVE  OneTurn(Here')
<1>1. ~Reported(Here) /\ (pool.inFlight # None \/ pool.initializing # None \/ pool.shuttingDown)
  BY HereHas DEF OneTurn, Waits
<1>2. port.toMain = <<>>
  BY <1>1, NothingHeard
<1>3. Len(port'.toMain) = 1 /\ port'.toMain[1] = e
  BY <1>2
<1> QED
  BY <1>1, <1>3, HereHas DEF OneTurn, Reported, Has, Waits, Working

LEMMA WorkerTurn ==
  FrameInv /\ OneTurn(Here) /\ (WorkerStep \/ WorkerShutdown) => OneTurn(Here')
<1> SUFFICES ASSUME FrameInv, OneTurn(Here), WorkerStep \/ WorkerShutdown PROVE OneTurn(Here')
  OBVIOUS
<1>1. /\ port.toWorker \in Seq(WorkerMessage) /\ port \in Ports /\ thread \in Threads
      /\ Here.port = port /\ Here.thread = thread /\ Here.pool = pool
      /\ Len(port.toWorker) <= 1
  BY HereIs, HereHas DEF OneTurn
<1>2. port.toWorker # <<>> => Tail(port.toWorker) = <<>> /\ Head(port.toWorker) \in WorkerMessage
  BY <1>1
<1>3. [type |-> "error"] \in Event /\ [type |-> "closed"] \in Event
  BY DEF Event
<1>4. CASE WorkerInitialize
  <2>1. /\ thread.state = "idle" /\ port.toWorker # <<>> /\ Head(port.toWorker).type = "initialize"
        /\ UNCHANGED <<pool, thread>>
    BY <1>4 DEF WorkerInitialize, Takes
  <2>2. Head(port.toWorker).library \in Libraries
    BY <1>2, <2>1 DEF WorkerMessage
  <2>3. PICK ok \in BOOLEAN :
          ReplyOrError(Tail(port.toWorker), [type |-> "initialized", ok |-> ok,
                                             library |-> Head(port.toWorker).library])
    BY <1>4 DEF WorkerInitialize
  <2>4. [type |-> "initialized", ok |-> ok, library |-> Head(port.toWorker).library] \in Event
    BY <2>2 DEF Event
  <2>5. PICK e \in Event :
          /\ e.type \in {"initialized", "error"}
          /\ port' = [toWorker |-> Tail(port.toWorker), toMain |-> Append(port.toMain, e)]
    BY <1>3, <2>3, <2>4 DEF ReplyOrError
  <2> QED
    BY <1>2, <2>1, <2>5, ReportTurn
<1>5. CASE WorkerShutdown
  <2>1. thread.state = "idle" /\ port.toWorker # <<>> /\ UNCHANGED <<pool, thread>>
    BY <1>5 DEF WorkerShutdown, Takes
  <2>2. PICK e \in Event :
          /\ e.type \in {"closed", "error"}
          /\ port' = [toWorker |-> Tail(port.toWorker), toMain |-> Append(port.toMain, e)]
    BY <1>3, <1>5 DEF WorkerShutdown, ReplyOrError
  <2> QED
    BY <1>2, <2>1, <2>2, ReportTurn
<1>6. CASE WorkerReply
  <2>1. thread.state = "replying" /\ thread'.state = "idle" /\ UNCHANGED pool
    BY <1>6 DEF WorkerReply
  <2>2. thread.job \in Jobs /\ port.toWorker = <<>>
    BY <1>1, <2>1, InHand DEF Working, OneTurn
  <2>3. PICK result \in {"ok", "native", "infrastructure"} :
          ReplyOrError(port.toWorker, [type |-> "complete", job |-> thread.job, result |-> result])
    BY <1>6 DEF WorkerReply
  <2>4. [type |-> "complete", job |-> thread.job, result |-> result] \in Event
    BY <2>2 DEF Event
  <2>5. PICK e \in Event :
          /\ e.type \in {"complete", "error"}
          /\ port' = [toWorker |-> port.toWorker, toMain |-> Append(port.toMain, e)]
    BY <1>3, <2>3, <2>4 DEF ReplyOrError
  <2> QED
    BY <2>1, <2>2, <2>5, ReportTurn DEF Working
<1>7. CASE WorkerConvert
  <2>1. /\ thread.state = "idle" /\ port.toWorker # <<>> /\ thread'.state = "converting"
        /\ port' = [port EXCEPT !.toWorker = Tail(port.toWorker)] /\ UNCHANGED pool
    BY <1>7 DEF WorkerConvert, Takes
  <2>2. port'.toWorker = <<>> /\ port'.toMain = port.toMain
    BY <1>1, <1>2, <2>1 DEF Ports
  <2>3. port.toMain = <<>>
    BY <1>1, <2>1, NothingHeard DEF OneTurn
  <2> QED
    BY <1>1, <2>1, <2>2, <2>3, HereHas DEF OneTurn, Reported, Has, Waits
<1>8. CASE WorkerConverted \/ WorkerClaim \/ WorkerRelease \/ WorkerStore
  <2>1. thread.state \in Working /\ thread'.state \in Working /\ UNCHANGED <<pool, port>>
    BY <1>1, <1>8 DEF WorkerConverted, WorkerClaim, WorkerRelease, WorkerStore, Working, Threads
  <2>2. thread.state # "dead"
    BY <2>1 DEF Working
  <2> QED
    BY <1>1, <2>1, <2>2, HereHas DEF OneTurn, Reported, Waits
<1> QED
  BY <1>4, <1>5, <1>6, <1>7, <1>8 DEF WorkerStep

LEMMA WorkerDiesTurn == FrameInv /\ OneTurn(Here) /\ WorkerDies => OneTurn(Here')
<1> SUFFICES ASSUME FrameInv, OneTurn(Here), WorkerDies PROVE OneTurn(Here')
  OBVIOUS
<1> DEFINE e == [type |-> "close"]
           more == Append(port.toMain, e)
<1>1. /\ thread \in Threads /\ port \in Ports /\ port.toMain \in Seq(Event)
      /\ Here.port = port /\ Here.pool = pool /\ Here.thread = thread
  BY HereIs, HereHas
<1>2. /\ thread'.state = "dead" /\ UNCHANGED pool
      /\ port'.toWorker = port.toWorker /\ port'.toMain = more
  BY <1>1 DEF WorkerDies, Reply, Threads, Ports
<1>3. /\ Len(more) = Len(port.toMain) + 1 /\ Len(port.toMain) \in Nat
      /\ more[Len(port.toMain) + 1].type = "close"
      /\ \A i \in 1 .. Len(port.toMain) : more[i] = port.toMain[i]
  BY <1>1
<1> HIDE DEF more
<1>4. \A i \in 1 .. Len(more) : more[i].type # "close" => i \in 1 .. Len(port.toMain) /\ more[i] = port.toMain[i]
  BY <1>3
<1>5. Reported(Here') => Reported(Here)
  BY <1>1, <1>2, <1>4, HereHas DEF Reported
<1>6. \A i, k \in 1 .. Len(more) : more[i].type # "close" /\ more[k].type # "close" => i = k
  BY <1>1, <1>4 DEF OneTurn
<1> QED
  BY <1>1, <1>2, <1>5, <1>6, HereHas DEF OneTurn, Waits, Working

LEMMA TurnNext == FrameInv /\ OneTurn(Here) /\ [Next]_vars => OneTurn(Here')
<1> SUFFICES ASSUME FrameInv, OneTurn(Here), [Next]_vars PROVE OneTurn(Here')
  OBVIOUS
<1>1. CASE \E c \in Clients : CreateClient(c) \/ CloseClient(c)
  BY <1>1, HereSame DEF CreateClient, CloseClient
<1>2. CASE \E c \in Clients : ReleaseClient(c)
  BY <1>2, ReleaseClientTurn
<1>3. CASE \E c \in Clients, j \in Jobs : Convert(c, j)
  BY <1>3, ConvertTurn
<1>4. CASE Microtask
  BY <1>4, MicrotaskTurn
<1>5. CASE MainEvent \/ ShutdownTimer
  BY <1>5, OnInitializedTurn, OnCompleteTurn, EndTurn DEF MainEvent
<1>6. CASE WorkerStep \/ WorkerShutdown \/ WorkerDies
  BY <1>6, WorkerTurn, WorkerDiesTurn
<1>7. CASE UNCHANGED vars
  BY <1>7, HereSame DEF vars
<1> QED
  BY <1>1, <1>2, <1>3, <1>4, <1>5, <1>6, <1>7 DEF Next

TurnInv == OneTurn(Here)

LEMMA TurnInvariance == Spec => []TurnInv
<1>1. Init => TurnInv
  BY StillTurn DEF Init, TurnInv, Still, Here, Reported, Has, NoPort, NoThread, Working
<1>2. FrameInv /\ TurnInv /\ [Next]_vars => TurnInv'
  BY TurnNext DEF TurnInv
<1> QED
  BY <1>1, <1>2, FrameInvariance, PTL DEF Spec

\* A step under the worker's conversion converts nothing on the main thread.
LEMMA OneConversionStep ==
  ASSUME FrameInv, OneTurn(Here), [Next]_vars, thread.state = "converting", NEW j \in Jobs,
         job[j].status \in {"new", "queued"}
  PROVE  job'[j].status # "resolved"
<1>1. /\ Here.job = job /\ Here.pool = pool /\ Here.thread = thread /\ Here.port = port
      /\ Here \in States /\ Core(Here)
  BY HereHas DEF FrameInv, Core
<1>2. Waits(Here)
  BY <1>1, InHand, ClientLibraries DEF FrameInv, Token, InOnePlace, Waits, Working, Core
<1>3. CASE UNCHANGED job
  BY <1>3
<1>4. ASSUME NEW c \in Clients, ReleaseClient(c) PROVE UNCHANGED job
  BY <1>1, <1>4 DEF ReleaseClient, Become, Finished, Terminated, ShutDown, Post, States
<1>5. CASE Microtask
  <2> DEFINE s == [Here EXCEPT !.pool.tick = FALSE]
  <2>1. PICK n \in ProcessQueue(s) : Become(n)
    BY <1>5 DEF Microtask
  <2>2. Waits(s) /\ s.job = job
    BY <1>2, Unticked
  <2> HIDE DEF s
  <2> QED
    BY <2>1, <2>2 DEF ProcessQueue, Become
<1>6. ASSUME NEW c \in Clients, NEW i \in Jobs, Convert(c, i) PROVE job'[j].status # "resolved"
  <2> DEFINE s == [Here EXCEPT !.job[i].client = c]
             r == Release(s, i)
             refused == Settle(r, i, "rejected")
             queued == Settle([s EXCEPT !.pool.queue = Append(@, i)], i, "queued")
  <2>1. job[i].status = "new"
    BY <1>6 DEF Convert
  <2>2. Become(refused) \/ \E n \in ProcessQueue(queued) : Become(n)
    BY <1>6 DEF Convert
  <2>3. CASE Become(refused)
    <3>1. s \in States /\ \A k \in Jobs \ {i} : s.job[k] = job[k]
      BY <1>1, <2>1, GivenTo DEF FrameInv
    <3> HIDE DEF s
    <3>2. r \in States /\ r.job = s.job
      BY <3>1, ReleaseIs
    <3> HIDE DEF r
    <3>3. "rejected" \in Statuses
      BY DEF Statuses
    <3>4. refused.job[i].status = "rejected" /\ \A k \in Jobs \ {i} : refused.job[k] = r.job[k]
      BY <3>2, <3>3, SettleIs
    <3> HIDE DEF refused
    <3> QED
      BY <2>3, <3>1, <3>2, <3>4 DEF Become
  <2>4. CASE \E n \in ProcessQueue(queued) : Become(n)
    <3>1. /\ queued.job[i].status = "queued" /\ Waits(queued) = Waits(Here)
          /\ \A k \in Jobs \ {i} : queued.job[k] = Here.job[k]
      BY <2>1, EnqueuedHere
    <3> HIDE DEF queued
    <3>2. Become(queued)
      BY <1>2, <2>4, <3>1 DEF ProcessQueue
    <3> QED
      BY <1>1, <3>1, <3>2 DEF Become
  <2> QED
    BY <2>2, <2>3, <2>4
<1>7. ~MainEvent
  <2>1. ASSUME port.toMain # <<>> PROVE FALSE
    BY <2>1, ReceivedTurn DEF Working
  <2> QED
    BY <2>1 DEF MainEvent, OnInitialized, OnComplete, OnClosed, OnError, OnClose, Receives
<1>8. ShutdownTimer => UNCHANGED job
  BY <1>1 DEF ShutdownTimer, FinishShutdown, Become, Finished, Terminated, States
<1>9. WorkerStep \/ WorkerShutdown \/ WorkerDies \/ UNCHANGED vars => UNCHANGED job
  BY DEF WorkerStep, WorkerInitialize, WorkerConvert, WorkerConverted, WorkerClaim, WorkerRelease,
         WorkerStore, WorkerReply, WorkerShutdown, WorkerDies, vars
<1>10. ASSUME NEW c \in Clients, CreateClient(c) \/ CloseClient(c) PROVE UNCHANGED job
  BY <1>10 DEF CreateClient, CloseClient
<1> QED
  BY <1>3, <1>4, <1>5, <1>6, <1>7, <1>8, <1>9, <1>10 DEF Next

\* OneConversionAtATime: for any clients and frames, the main thread converts no frame
\* itself while the worker converts another. Nothing but the answer of the worker ends
\* its turn: until then there is no event that could let the pool fall back.
THEOREM ConversionTheorem == Spec => OneConversionAtATime
<1> DEFINE Alone == \A j \in Jobs :
                      job[j].status \in {"new", "queued"} /\ job'[j].status = "resolved"
                        => thread.state # "converting"
<1>1. FrameInv /\ TurnInv /\ [Next]_vars => Alone
  BY OneConversionStep DEF TurnInv
<1> HIDE DEF Alone
<1>2. Spec => [][Alone]_vars
  BY <1>1, FrameInvariance, TurnInvariance, PTL DEF Spec
<1> QED
  BY <1>2 DEF OneConversionAtATime, Alone
=============================================================================
