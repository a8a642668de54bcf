------------------------- MODULE InputDelivery_proofs -------------------------
(***************************************************************************)
(* Proofs about a Live View session.                                       *)
(*                                                                         *)
(* InputDelivery, for any threads, keys, buttons and limits: what can be   *)
(* delivered always has a drainer, what the packets have left down is held *)
(* or on its way to be let go, what is held is down but for a late release *)
(* that is on record, and events are sent in the order in which            *)
(* they were admitted.  None of it needs to know which events the batch of *)
(* a physical key holds: they come from a fold over the modifiers, of      *)
(* which nothing can be proved here.                                       *)
(*                                                                         *)
(* SessionLifecycle, for any number of completion handlers: a reconnect    *)
(* that is marked comes, and a session that has been closed is quiet.      *)
(***************************************************************************)
EXTENDS InputDelivery, SessionLifecycle, SequenceTheorems, FiniteSetTheorems, TLAPS

(***************************************************************************)
(* One drainer.                                                            *)
(***************************************************************************)
Places == {"idle", "request", "requestThenDrain", "drain", "send", "commit", "compensate",
           "release", "burst", "init"}

PlaceOK == pc \in [Threads -> Places]

OneDrainer == \A p, q \in Threads : Drains(p) /\ Drains(q) => p = q

DrainerIsMarked == draining <=> \E p \in Threads : Drains(p)

\* The queue of a session that has no channel is empty.
NothingKept == dataOpen \/ queue.entries = <<>>

QueueFields == {"entries", "wait", "aborted"}
IsQueue(q) == q = [f \in QueueFields |-> q[f]]

DrainInv ==
  /\ PlaceOK
  /\ IsQueue(queue)
  /\ OneDrainer
  /\ DrainerIsMarked
  /\ NothingKept
  /\ NoLostWakeup

Drainer == {"requestThenDrain", "drain", "send", "commit", "compensate"}

\* A thread that drains nothing goes to a place where it does, or not.
LEMMA GoesKeeps ==
  ASSUME DrainInv, NEW p \in Threads, pc[p] \notin Drainer,
         NEW place \in Places, pc' = [pc EXCEPT ![p] = place],
         place \in Drainer => ~draining,
         draining' <=> draining \/ place \in Drainer
  PROVE  PlaceOK' /\ OneDrainer' /\ DrainerIsMarked'
<1>1. /\ pc \in [Threads -> Places] /\ (draining <=> \E q \in Threads : Drains(q))
      /\ \A q \in Threads : Drains(q) <=> pc[q] \in Drainer
      /\ \A q, z \in Threads : Drains(q) /\ Drains(z) => q = z
  BY DEF DrainInv, PlaceOK, OneDrainer, DrainerIsMarked, Drains, Drainer
<1>2. \A q \in Threads : pc'[q] = IF q = p THEN place ELSE pc[q]
  BY <1>1
<1>3. \A q \in Threads : Drains(q)' <=> pc'[q] \in Drainer
  BY DEF Drains, Drainer
<1>4. PlaceOK'
  BY <1>1 DEF PlaceOK
<1>5. OneDrainer'
  BY <1>1, <1>2, <1>3 DEF OneDrainer
<1>6. CASE place \in Drainer
  BY <1>2, <1>3, <1>4, <1>5, <1>6 DEF DrainerIsMarked
<1>7. CASE place \notin Drainer
  <2>1. \A q \in Threads : Drains(q)' <=> Drains(q)
    BY <1>1, <1>2, <1>3, <1>7
  <2> QED
    BY <1>1, <1>4, <1>5, <1>7, <2>1 DEF DrainerIsMarked
<1> QED
  BY <1>6, <1>7

\* A drainer goes on, or leaves.
LEMMA DrainerKeeps ==
  ASSUME DrainInv, NEW p \in Threads, pc[p] \in Drainer,
         NEW place \in Places, pc' = [pc EXCEPT ![p] = place],
         draining' <=> place \in Drainer
  PROVE  /\ PlaceOK' /\ OneDrainer' /\ DrainerIsMarked'
         /\ place \in Drainer => NoLostWakeup'
<1>1. /\ pc \in [Threads -> Places]
      /\ \A q \in Threads : Drains(q) <=> pc[q] \in Drainer
      /\ \A q, z \in Threads : Drains(q) /\ Drains(z) => q = z
  BY DEF DrainInv, PlaceOK, OneDrainer, Drains, Drainer
<1>2. \A q \in Threads : pc'[q] = IF q = p THEN place ELSE pc[q]
  BY <1>1
<1>3. \A q \in Threads : Drains(q)' <=> q = p /\ place \in Drainer
  <2>1. \A q \in Threads : Drains(q)' <=> pc'[q] \in Drainer
    BY DEF Drains, Drainer
  <2> QED
    BY <1>1, <1>2, <2>1
<1>4. PlaceOK'
  BY <1>1 DEF PlaceOK
<1> QED
  BY <1>3, <1>4 DEF OneDrainer, DrainerIsMarked, NoLostWakeup

\* A call that leaves the gates as they are: it may add to the queue, but then it
\* drains, somebody does, or nothing can be delivered.
LEMMA CallKeeps ==
  ASSUME DrainInv, NEW p \in Threads, pc[p] \notin Drainer \cup {"init"}, UNCHANGED gates,
         NEW place \in Places, pc' = [pc EXCEPT ![p] = place],
         place \in Drainer => ~draining,
         draining' <=> draining \/ place \in Drainer,
         IsQueue(queue'), dataOpen \/ queue'.entries = <<>>,
         \/ draining \/ place \in Drainer \/ ~Deliverable(authorized)
         \/ queue'.entries \in {queue.entries, <<>>}
  PROVE  DrainInv'
<1>1. PlaceOK' /\ OneDrainer' /\ DrainerIsMarked'
  BY GoesKeeps
<1>2. NothingKept' /\ IsQueue(queue)'
  BY DEF NothingKept, gates, IsQueue
<1>3. pc \in [Threads -> Places] /\ \A q \in Threads : pc'[q] = IF q = p THEN place ELSE pc[q]
  BY DEF DrainInv, PlaceOK
<1>4. \A q \in Threads : Drains(q) \/ pc[q] = "init" => Drains(q)' \/ pc'[q] = "init"
  BY <1>3 DEF Drains, Drainer
<1>5. Deliverable(authorized)' <=> Deliverable(authorized)
  BY DEF gates, Deliverable
<1>6. draining \/ place \in Drainer => \E q \in Threads : Drains(q)'
  BY <1>1 DEF DrainerIsMarked
<1>7. NoLostWakeup'
  BY <1>4, <1>5, <1>6 DEF NoLostWakeup, DrainInv
<1> QED
  BY <1>1, <1>2, <1>7 DEF DrainInv

\* Cancellation empties the queue, whatever becomes of the gates.
LEMMA CancelKeeps ==
  ASSUME DrainInv, NEW p \in Threads, pc[p] \notin Drainer,
         NEW place \in Places \ Drainer, pc' = [pc EXCEPT ![p] = place],
         CancelInput, UNCHANGED draining
  PROVE  DrainInv'
<1>1. PlaceOK' /\ OneDrainer' /\ DrainerIsMarked'
  BY GoesKeeps
<1>2. queue' = EmptyQueue
  BY DEF CancelInput, Cleared
<1>3. IsQueue(queue)' /\ NothingKept' /\ NoLostWakeup'
  BY <1>2 DEF EmptyQueue, IsQueue, QueueFields, NothingKept, NoLostWakeup
<1> QED
  BY <1>1, <1>3 DEF DrainInv

LEMMA AdmissionIs ==
  ASSUME NEW p, IsQueue(queue)
  PROVE  LET a == Admission(p)
         IN  /\ IsQueue(a.queue) /\ a.queue.entries \in {queue.entries, <<>>}
             /\ InputRoute = "deliver" => a.queue = queue
<1>1. CASE authorized
  BY <1>1 DEF Admission
<1>2. CASE ~authorized
  <2>1. Admission(p).queue \in {queue, EmptyQueue}
    BY <1>2 DEF Admission, ExpireWait, Cleared
  <2>2. InputRoute = "deliver" => Admission(p).queue = queue
    BY <1>2 DEF Admission
  <2>3. IsQueue(EmptyQueue) /\ EmptyQueue.entries = <<>>
    BY DEF IsQueue, QueueFields, EmptyQueue
  <2> QED
    BY <2>1, <2>2, <2>3
<1> QED
  BY <1>1, <1>2

LEMMA QueueIs ==
  ASSUME NEW q, IsQueue(q), NEW x, NEW w
  PROVE  LET n == [q EXCEPT !.entries = x, !.wait = w]
         IN  IsQueue(n) /\ n.entries = x
<1>1. DOMAIN q = QueueFields
  BY DEF IsQueue
<1> QED
  BY <1>1 DEF IsQueue, QueueFields

LEMMA PushIs ==
  ASSUME NEW q, IsQueue(q), NEW entry, NEW waiting \in BOOLEAN
  PROVE  LET pushed == Push(q, entry, waiting)
         IN  /\ IsQueue(pushed.queue)
             /\ ~waiting /\ ~Accepted(pushed) => pushed.queue = q
<1>1. IsQueue(Appended(q, entry, waiting)) /\ IsQueue(AbortWait(q))
  <2> DEFINE x == Append(q.entries, entry)
             w == IF waiting /\ q.wait = "none" THEN "fresh" ELSE q.wait
  <2>1. Appended(q, entry, waiting) = [q EXCEPT !.entries = x, !.wait = w]
    BY DEF Appended
  <2> HIDE DEF x, w
  <2> QED
    BY <2>1, QueueIs DEF IsQueue, QueueFields, AbortWait
<1> QED
  BY <1>1 DEF Push, Accepted

LEMMA RouteIs ==
  /\ InputRoute = "deliver" <=> Deliverable(authorized)
  /\ InputRoute # "reject" => dataOpen
BY DEF InputRoute, Deliverable

LEMMA OfferDrains ==
  ASSUME DrainInv, NEW p \in Threads, NEW e, Offer(p, e)
  PROVE  DrainInv'
<1> DEFINE a == Admission(p)
           pushed == Push(a.queue, NextEntry(e), InputRoute = "wait")
           refused == RefusedByDesired(a.queue, e)
           drains == /\ ~refused /\ Accepted(pushed) /\ InputRoute = "deliver"
                     /\ ClaimsDrainer(pushed.queue, authorized)
           place == IF a.asks THEN IF drains THEN "requestThenDrain" ELSE "request"
                    ELSE IF drains THEN "drain" ELSE "idle"
<1>1. /\ pc[p] = "idle" /\ InputRoute # "reject"
      /\ queue' = (IF refused THEN a.queue ELSE pushed.queue)
      /\ draining' = (draining \/ drains)
      /\ pc' = [pc EXCEPT ![p] = place]
      /\ UNCHANGED gates
  BY DEF Offer, Continue
<1>2. /\ IsQueue(a.queue) /\ (InputRoute = "deliver" => a.queue = queue)
  BY AdmissionIs DEF DrainInv
<1>3. IsQueue(pushed.queue)
      /\ (InputRoute # "wait" /\ ~Accepted(pushed) => pushed.queue = a.queue)
  BY <1>2, PushIs
<1>4. drains => ~draining
  BY DEF ClaimsDrainer
<1>5. ~draining /\ ~drains /\ InputRoute = "deliver"
        => queue' = queue \/ queue'.entries = <<>>
  <2> SUFFICES ASSUME ~draining, ~drains, InputRoute = "deliver"
               PROVE  queue' = queue \/ queue'.entries = <<>>
    OBVIOUS
  <2>1. CASE refused \/ ~Accepted(pushed)
    BY <1>1, <1>2, <1>3, <2>1
  <2>2. CASE ~refused /\ Accepted(pushed)
    <3>1. ~ClaimsDrainer(pushed.queue, authorized) /\ Deliverable(authorized)
      BY <2>2, RouteIs
    <3> QED
      BY <1>1, <2>2, <3>1 DEF ClaimsDrainer
  <2> QED
    BY <2>1, <2>2
<1>6. place \in Places /\ (place \in Drainer <=> drains)
  BY DEF Places, Drainer
<1> HIDE DEF drains, place, pushed, refused, a
<1>7. draining' <=> draining \/ place \in Drainer
  BY <1>1, <1>6
<1>8. IsQueue(queue') /\ dataOpen
  BY <1>1, <1>2, <1>3, RouteIs
<1>9. \/ draining \/ place \in Drainer \/ ~Deliverable(authorized)
      \/ queue'.entries \in {queue.entries, <<>>}
  BY <1>5, <1>6, RouteIs
<1>10. pc[p] \notin Drainer \cup {"init"}
  BY <1>1 DEF Drainer
<1> QED
  BY <1>1, <1>4, <1>6, <1>7, <1>8, <1>9, <1>10, CallKeeps

LEMMA OfferBatchDrains ==
  ASSUME DrainInv, NEW p \in Threads, NEW events, OfferBatch(p, events)
  PROVE  DrainInv'
<1> DEFINE a == Admission(p)
           waiting == InputRoute = "wait"
           desired == Desired(a.queue)
           batch == IF desired = None THEN <<>> ELSE BatchOf(desired, events)
           fits == CanAppend(a.queue, Len(batch), waiting)
           q == IF batch = <<>> THEN a.queue
                ELSE IF fits THEN AppendBatch(a.queue, batch, waiting)
                ELSE IF waiting /\ ~a.queue.aborted THEN AbortWait(a.queue)
                ELSE a.queue
           drains == /\ batch # <<>> /\ fits /\ ~waiting
                     /\ ClaimsDrainer(q, authorized)
           place == IF a.asks THEN IF drains THEN "requestThenDrain" ELSE "request"
                    ELSE IF drains THEN "drain" ELSE "idle"
<1>1. /\ pc[p] = "idle" /\ InputRoute # "reject"
      /\ queue' = q
      /\ draining' = (draining \/ drains)
      /\ pc' = [pc EXCEPT ![p] = place]
      /\ UNCHANGED gates
  BY DEF OfferBatch, Continue
<1>2. IsQueue(a.queue) /\ (InputRoute = "deliver" => a.queue = queue)
  BY AdmissionIs DEF DrainInv
<1> HIDE DEF a, batch, fits
<1>3. IsQueue(q)
  <2>1. IsQueue(AppendBatch(a.queue, batch, waiting)) /\ IsQueue(AbortWait(a.queue))
    <3> DEFINE x == a.queue.entries \o [i \in DOMAIN batch |->
                      [sequence |-> sequence + i, epoch |-> epoch, event |-> batch[i]]]
               w == IF waiting /\ a.queue.wait = "none" THEN "fresh" ELSE a.queue.wait
    <3>1. AppendBatch(a.queue, batch, waiting) = [a.queue EXCEPT !.entries = x, !.wait = w]
      BY DEF AppendBatch
    <3> HIDE DEF x, w
    <3> QED
      BY <1>2, <3>1, QueueIs DEF IsQueue, QueueFields, AbortWait
  <2> QED
    BY <1>2, <2>1
<1>4. drains => ~draining
  BY DEF ClaimsDrainer
<1>5. ~draining /\ ~drains /\ InputRoute = "deliver"
        => q = queue \/ q.entries = <<>>
  <2> SUFFICES ASSUME ~draining, ~drains, InputRoute = "deliver"
               PROVE  q = queue \/ q.entries = <<>>
    OBVIOUS
  <2>1. CASE batch = <<>> \/ ~fits
    BY <1>2, <2>1
  <2>2. CASE batch # <<>> /\ fits
    BY <2>2, RouteIs DEF ClaimsDrainer
  <2> QED
    BY <2>1, <2>2
<1>6. place \in Places /\ (place \in Drainer <=> drains)
  BY DEF Places, Drainer
<1> HIDE DEF drains, place, q
<1>7. draining' <=> draining \/ place \in Drainer
  BY <1>1, <1>6
<1>8. IsQueue(queue') /\ dataOpen
  BY <1>1, <1>3, RouteIs
<1>9. \/ draining \/ place \in Drainer \/ ~Deliverable(authorized)
      \/ queue'.entries \in {queue.entries, <<>>}
  BY <1>1, <1>5, <1>6, RouteIs
<1>10. pc[p] \notin Drainer \cup {"init"}
  BY <1>1 DEF Drainer
<1> QED
  BY <1>1, <1>4, <1>6, <1>7, <1>8, <1>9, <1>10, CallKeeps

LEMMA BecomeHostDrains ==
  ASSUME DrainInv, NEW s \in Threads, BecomeHost(s)
  PROVE  DrainInv'
<1> DEFINE q == FinishWait(ExpireWait(queue))
           place == IF ClaimsDrainer(q, TRUE) THEN "drain" ELSE "idle"
<1>1. /\ pc[s] \in {"idle", "init"} /\ authorized' = TRUE /\ queue' = q
      /\ draining' = (draining \/ ClaimsDrainer(q, TRUE))
      /\ pc' = [pc EXCEPT ![s] = place] /\ UNCHANGED <<dataOpen, implicit>>
  BY DEF BecomeHost
<1>2. IsQueue(q) /\ q.entries \in {queue.entries, <<>>}
  <2> DEFINE x == ExpireWait(queue)
  <2>1. x = queue \/ x = EmptyQueue
    BY DEF ExpireWait, Cleared
  <2>2. IsQueue(x) /\ x.entries \in {queue.entries, <<>>}
    BY <2>1 DEF DrainInv, IsQueue, QueueFields, EmptyQueue
  <2> HIDE DEF x
  <2>3. IsQueue(FinishWait(x)) /\ FinishWait(x).entries = x.entries
    BY <2>2 DEF FinishWait, IsQueue, QueueFields
  <2> QED
    BY <2>2, <2>3 DEF x
<1>3. /\ place \in Places /\ (place \in Drainer <=> ClaimsDrainer(q, TRUE))
      /\ ClaimsDrainer(q, TRUE) => ~draining
  BY DEF Places, Drainer, ClaimsDrainer
<1> HIDE DEF place
<1>4. PlaceOK' /\ OneDrainer' /\ DrainerIsMarked'
  BY <1>1, <1>3, GoesKeeps DEF Drainer
<1>5. NothingKept' /\ IsQueue(queue)'
  BY <1>1, <1>2 DEF DrainInv, NothingKept, IsQueue
<1>6. NoLostWakeup'
  <2> SUFFICES ASSUME queue'.entries # <<>>, Deliverable(authorized)', ~\E p \in Threads : Drains(p)'
               PROVE  FALSE
    BY DEF NoLostWakeup
  <2>1. ~draining'
    BY <1>4 DEF DrainerIsMarked
  <2>2. Deliverable(TRUE)
    BY <1>1 DEF Deliverable
  <2>3. ClaimsDrainer(q, TRUE)
    BY <1>1, <2>1, <2>2 DEF ClaimsDrainer
  <2> QED
    BY <1>1, <2>1, <2>3
<1> QED
  BY <1>4, <1>5, <1>6 DEF DrainInv

LEMMA ReleasesDrain ==
  ASSUME DrainInv, NEW p \in Threads,
         ReleaseHeldInput(p) \/ ReleaseControl(p) \/ LoseControl(p) \/ RefuseControl(p)
  PROVE  DrainInv'
<1> DEFINE place == IF held = {} THEN "idle" ELSE "release"
<1>1. /\ pc[p] \in {"idle", "init"} /\ CancelInput /\ pc' = [pc EXCEPT ![p] = place]
      /\ UNCHANGED draining
  BY DEF ReleaseHeldInput, ReleaseControl, LoseControl, RefuseControl, TakeHeldToRelease
<1>2. place \in Places \ Drainer /\ pc[p] \notin Drainer
  BY <1>1 DEF Places, Drainer
<1> QED
  BY <1>1, <1>2, CancelKeeps

\* A thread that is no drainer goes from one place to another.
LEMMA MovesKeeps ==
  ASSUME DrainInv, NEW p \in Threads, pc[p] \notin Drainer \cup {"init"},
         NEW place \in Places \ Drainer, pc' = [pc EXCEPT ![p] = place],
         UNCHANGED <<gates, queue, draining>>
  PROVE  DrainInv'
<1>1. IsQueue(queue') /\ (dataOpen \/ queue'.entries = <<>>) /\ queue'.entries = queue.entries
  BY DEF DrainInv, NothingKept
<1> QED
  BY <1>1, CallKeeps

\* A drainer goes on.
LEMMA WorksKeeps ==
  ASSUME DrainInv, NEW p \in Threads, pc[p] \in Drainer,
         NEW place \in Drainer, pc' = [pc EXCEPT ![p] = place] \/ pc' = pc,
         IsQueue(queue'), dataOpen' \/ queue'.entries = <<>>, UNCHANGED <<gates, draining>>
  PROVE  DrainInv'
<1>1. \E where \in Drainer : pc' = [pc EXCEPT ![p] = where]
  <2>1. pc \in [Threads -> Places]
    BY DEF DrainInv, PlaceOK
  <2>2. pc = [pc EXCEPT ![p] = pc[p]]
    BY <2>1
  <2> QED
    BY <2>2
<1>2. PICK where \in Drainer : pc' = [pc EXCEPT ![p] = where]
  BY <1>1
<1>3. where \in Places
  BY DEF Drainer, Places
<1>4. draining
  BY DEF DrainInv, DrainerIsMarked, Drains, Drainer
<1>5. PlaceOK' /\ OneDrainer' /\ DrainerIsMarked' /\ NoLostWakeup'
  BY <1>2, <1>3, <1>4, DrainerKeeps
<1> QED
  BY <1>5 DEF DrainInv, NothingKept, IsQueue

LEMMA ProceedDrains ==
  ASSUME DrainInv, NEW p \in Threads, Proceed(p)
  PROVE  DrainInv'
<1>1. CASE SendControlRequest(p)
  <2>1. CASE pc[p] = "request"
    <3>1. pc' = [pc EXCEPT ![p] = "idle"] /\ UNCHANGED <<gates, queue, draining>>
      BY <1>1, <2>1 DEF SendControlRequest, input
    <3> QED
      BY <2>1, <3>1, MovesKeeps DEF Drainer, Places
  <2>2. CASE pc[p] = "requestThenDrain"
    <3>1. pc' = [pc EXCEPT ![p] = "drain"] /\ UNCHANGED <<gates, queue, draining, dataOpen>>
      BY <1>1, <2>2 DEF SendControlRequest, input, gates
    <3>2. IsQueue(queue') /\ (dataOpen' \/ queue'.entries = <<>>)
      BY <3>1 DEF DrainInv, NothingKept
    <3> QED
      BY <2>2, <3>1, <3>2, WorksKeeps DEF Drainer
  <2> QED
    BY <1>1, <2>1, <2>2 DEF SendControlRequest
<1>2. CASE StopDraining(p)
  <2>1. /\ pc[p] = "drain" /\ pc' = [pc EXCEPT ![p] = "idle"] /\ draining' = FALSE
        /\ UNCHANGED <<gates, queue>> /\ (queue.entries = <<>> \/ ~Deliverable(authorized))
    BY <1>2 DEF StopDraining
  <2>2. "idle" \in Places /\ pc[p] \in Drainer /\ ~("idle" \in Drainer)
    BY <2>1 DEF Drainer, Places
  <2>3. PlaceOK' /\ OneDrainer' /\ DrainerIsMarked'
    BY <2>1, <2>2, DrainerKeeps
  <2>4. NothingKept' /\ IsQueue(queue)' /\ NoLostWakeup'
    BY <2>1 DEF DrainInv, NothingKept, IsQueue, NoLostWakeup, Deliverable, gates
  <2> QED
    BY <2>3, <2>4 DEF DrainInv
<1>3. CASE PopEntry(p)
  <2>1. /\ pc[p] = "drain" /\ queue' = [queue EXCEPT !.entries = Tail(queue.entries)]
        /\ pc' = pc \/ pc' = [pc EXCEPT ![p] = "send"]
        /\ UNCHANGED <<gates, draining, dataOpen>> /\ dataOpen
    BY <1>3 DEF PopEntry, Deliverable, gates
  <2>2. IsQueue(queue')
    BY <2>1 DEF DrainInv, IsQueue, QueueFields
  <2> QED
    BY <2>1, <2>2, WorksKeeps DEF Drainer
<1>4. CASE SendEvent(p) \/ Commit(p) \/ Compensate(p)
  <2>1. /\ pc[p] \in {"send", "commit", "compensate"}
        /\ \E place \in {"commit", "compensate", "drain"} : pc' = [pc EXCEPT ![p] = place]
        /\ UNCHANGED <<gates, draining, dataOpen, queue>>
    BY <1>4 DEF SendEvent, Commit, Compensate, input, gates
  <2>2. IsQueue(queue') /\ (dataOpen' \/ queue'.entries = <<>>)
    BY <2>1 DEF DrainInv, NothingKept
  <2> QED
    BY <2>1, <2>2, WorksKeeps DEF Drainer
<1>5. CASE StartReleases(p) \/ SendRelease(p)
  <2>1. /\ pc[p] \in {"release", "burst"}
        /\ pc' = pc \/ \E place \in {"burst", "idle"} : pc' = [pc EXCEPT ![p] = place]
        /\ UNCHANGED <<gates, draining, queue>>
    BY <1>5 DEF StartReleases, SendRelease, input
  <2>2. pc \in [Threads -> Places]
    BY DEF DrainInv, PlaceOK
  <2>3. pc = [pc EXCEPT ![p] = pc[p]]
    BY <2>2
  <2>4. \E place \in {"release", "burst", "idle"} : pc' = [pc EXCEPT ![p] = place]
    BY <2>1, <2>3
  <2> QED
    BY <2>1, <2>4, MovesKeeps DEF Drainer, Places
<1>6. CASE pc[p] = "init" /\ (BecomeHost(p) \/ LoseControl(p))
  BY <1>6, BecomeHostDrains, ReleasesDrain
<1> QED
  BY <1>1, <1>2, <1>3, <1>4, <1>5, <1>6 DEF Proceed

LEMMA CallDrains ==
  ASSUME DrainInv, NEW p \in Threads, Call(p)
  PROVE  DrainInv'
<1>1. CASE \E e \in Event : Offer(p, e)
  BY <1>1, OfferDrains
<1>2. CASE \E wanted \in SUBSET Range(Modifiers) :
             \/ SyncModifiers(p, wanted)
             \/ \E k \in Keys \ Range(Modifiers) : SetPhysicalKey(p, k, wanted)
  BY <1>2, OfferBatchDrains DEF SyncModifiers, SetPhysicalKey
<1>3. CASE RequestControl(p)
  <2>1. pc[p] = "idle" /\ pc' = [pc EXCEPT ![p] = "request"] /\ UNCHANGED <<gates, queue, draining>>
    BY <1>3 DEF RequestControl, input
  <2> QED
    BY <2>1, MovesKeeps DEF Drainer, Places
<1>4. CASE ReleaseHeldInput(p) \/ ReleaseControl(p)
  BY <1>4, ReleasesDrain
<1> QED
  BY <1>1, <1>2, <1>3, <1>4 DEF Call

LEMMA MessageDrains ==
  ASSUME DrainInv, NEW s \in Threads, Message(s)
  PROVE  DrainInv'
<1>1. CASE SystemInit(s)
  <2>1. /\ pc[s] = "idle" /\ pc' = [pc EXCEPT ![s] = "init"]
        /\ UNCHANGED <<queue, draining, dataOpen>>
    BY <1>1 DEF SystemInit, input
  <2>2. /\ "init" \in Places /\ "init" \notin Drainer /\ pc[s] \notin Drainer
        /\ pc \in [Threads -> Places]
    BY <2>1 DEF Places, Drainer, DrainInv, PlaceOK
  <2>3. PlaceOK' /\ OneDrainer' /\ DrainerIsMarked'
    BY <2>1, <2>2, GoesKeeps
  <2>4. pc'[s] = "init"
    BY <2>1, <2>2
  <2> QED
    BY <2>1, <2>3, <2>4 DEF DrainInv, NothingKept, IsQueue, NoLostWakeup
<1>2. CASE RefuseControl(s) \/ LoseControl(s)
  BY <1>2, ReleasesDrain
<1>3. CASE BecomeHost(s)
  BY <1>3, BecomeHostDrains
<1> QED
  BY <1>1, <1>2, <1>3 DEF Message

LEMMA TransportDrains == DrainInv /\ Transport => DrainInv'
<1> SUFFICES ASSUME DrainInv, Transport PROVE DrainInv'
  OBVIOUS
<1>1. CASE Invalidate
  <2>1. queue' = EmptyQueue /\ UNCHANGED <<draining, pc>>
    BY <1>1 DEF Invalidate, CancelInput, Cleared
  <2> QED
    BY <2>1 DEF DrainInv, PlaceOK, OneDrainer, DrainerIsMarked, Drains, NothingKept, NoLostWakeup,
                IsQueue, QueueFields, EmptyQueue
<1>2. CASE DataOpened
  <2>1. dataOpen' = TRUE /\ UNCHANGED <<authorized, implicit, queue, draining, pc>>
    BY <1>2 DEF DataOpened, input
  <2>2. queue.entries # <<>> => (Deliverable(authorized)' => Deliverable(authorized))
    BY <2>1 DEF DrainInv, NothingKept, Deliverable
  <2> QED
    BY <2>1, <2>2 DEF DrainInv, PlaceOK, OneDrainer, DrainerIsMarked, Drains, NothingKept,
                      NoLostWakeup, IsQueue
<1>3. CASE UNCHANGED <<gates, queue, draining, pc>>
  BY <1>3 DEF DrainInv, PlaceOK, OneDrainer, DrainerIsMarked, Drains, NothingKept, NoLostWakeup,
              IsQueue, Deliverable, gates
<1>4. CASE Age /\ queue' = [queue EXCEPT !.wait = "old"]
  <2>1. UNCHANGED <<dataOpen, authorized, implicit, draining, pc>>
    BY <1>4 DEF Age, gates
  <2>2. IsQueue(queue') /\ queue'.entries = queue.entries
    BY <1>4 DEF DrainInv, IsQueue, QueueFields
  <2> QED
    BY <2>1, <2>2 DEF DrainInv, PlaceOK, OneDrainer, DrainerIsMarked, Drains, NothingKept,
                      NoLostWakeup, IsQueue, Deliverable
<1> QED
  BY <1>1, <1>2, <1>3, <1>4
     DEF Transport, LoseTransport, ScheduleReconnect, ReconnectReady, DataClosed,
         OpenChannel, CloseChannel, ResetTransport, Age, input

LEMMA DrainInvInit == Init => DrainInv
BY DEF Init, DrainInv, PlaceOK, Places, OneDrainer, DrainerIsMarked, Drains, NothingKept,
       NoLostWakeup, IsQueue, QueueFields, EmptyQueue

LEMMA DrainInvNext == DrainInv /\ [Next]_vars => DrainInv'
<1> SUFFICES ASSUME DrainInv, [Next]_vars PROVE DrainInv'
  OBVIOUS
<1>1. Callers \subseteq Threads /\ Sockets \subseteq Threads
  BY DEF Threads
<1>2. CASE Next
  BY <1>1, <1>2, CallDrains, MessageDrains, ProceedDrains, TransportDrains DEF Next
<1>3. CASE UNCHANGED vars
  BY <1>3 DEF DrainInv, PlaceOK, OneDrainer, DrainerIsMarked, Drains, NothingKept, NoLostWakeup,
              IsQueue, Deliverable, vars, gates, input
<1> QED
  BY <1>2, <1>3

\* Whichever threads offer, drain, cancel and hear of the host: an event that can be
\* delivered is never left in the queue with nobody at work on it.
THEOREM WakeupTheorem == Spec => []NoLostWakeup
<1>1. DrainInv => NoLostWakeup
  BY DEF DrainInv
<1>2. Spec => []DrainInv
  BY DrainInvInit, DrainInvNext, PTL DEF Spec
<1> QED
  BY <1>1, <1>2, PTL

(***************************************************************************)
(* What is down.                                                           *)
(***************************************************************************)
\* The items that a thread is about to hold or to let go.
Uncommitted(p) == pc[p] = "commit" /\ job[p].outcome = "sent"
Arriving(x) == \E p \in Threads : Uncommitted(p) /\ IsDown(job[p].entry.event) /\ job[p].entry.event.what = x
Compensated(x) == \E p \in Threads : pc[p] = "compensate" /\ job[p].entry.event.what = x
Leaving(x) == \E p \in Threads : pc[p] \in {"release", "burst"} /\ x \in job[p].burst

DownIsKnown ==
  dataOpen /\ channel = "open" =>
    \A x \in down : x \in held \/ x \in refusedUps \/ Arriving(x) \/ Compensated(x) \/ Leaving(x)

\* An up that is on the wire and not committed has let its item go.
UpsAreUp ==
  \A p \in Threads :
    Uncommitted(p) /\ IsStateChange(job[p].entry.event) /\ ~IsDown(job[p].entry.event)
      => job[p].entry.event.what \notin down

\* Only an open channel has anything down, and none before data_open is told.
ChannelOK ==
  /\ channel # "open" => down = {}
  /\ news = "opened" => ~dataOpen /\ down = {} /\ channel = "open"
  /\ channel = "none" /\ reconnect = "no" => ~dataOpen
  /\ reconnect = "reset" => channel = "none" /\ news = "none"
  /\ channel = "none" => news # "opened"

JobFields == {"entry", "outcome", "burst"}
JobOK ==
  /\ job = [p \in Threads |-> job[p]]
  /\ \A p \in Threads : job[p] = [f \in JobFields |-> job[p][f]]

DownInv ==
  /\ DrainInv
  /\ JobOK
  /\ down \subseteq Items
  /\ DownIsKnown
  /\ UpsAreUp
  /\ ChannelOK

JobsSame(p) == \A q \in Threads \ {p} : job'[q] = job[q]
PlacesSame(p) == \A q \in Threads \ {p} : pc'[q] = pc[q]

LEMMA DownParts == DownInv => JobOK /\ DrainInv
BY DEF DownInv

LEMMA JobChanges ==
  ASSUME JobOK, NEW p \in Threads, NEW f \in JobFields, NEW x,
         job' = [job EXCEPT ![p] = [job[p] EXCEPT ![f] = x]]
  PROVE  JobOK' /\ JobsSame(p) /\ job'[p][f] = x
         /\ \A g \in JobFields \ {f} : job'[p][g] = job[p][g]
<1> DEFINE n == [job[p] EXCEPT ![f] = x]
<1>1. n = [g \in JobFields |-> n[g]] /\ n[f] = x /\ \A g \in JobFields \ {f} : n[g] = job[p][g]
  BY DEF JobOK
<1>2. job' = [job EXCEPT ![p] = n]
  OBVIOUS
<1> HIDE DEF n
<1>3. job'[p] = n /\ (\A q \in Threads \ {p} : job'[q] = job[q])
      /\ job' = [q \in Threads |-> job'[q]]
  BY <1>2 DEF JobOK
<1> QED
  BY <1>1, <1>3 DEF JobOK, JobsSame

LEMMA JobOver ==
  ASSUME JobOK, NEW p \in Threads, job' = [job EXCEPT ![p] = NoJob]
  PROVE  JobOK' /\ JobsSame(p)
<1>1. NoJob = [f \in JobFields |-> NoJob[f]]
  BY DEF NoJob, JobFields
<1>2. job'[p] = NoJob /\ (\A q \in Threads \ {p} : job'[q] = job[q])
      /\ job' = [q \in Threads |-> job'[q]]
  BY DEF JobOK
<1> QED
  BY <1>1, <1>2 DEF JobOK, JobsSame

LEMMA PlaceChanges ==
  ASSUME DrainInv, NEW p \in Threads, NEW place, pc' = [pc EXCEPT ![p] = place]
  PROVE  PlacesSame(p) /\ pc'[p] = place
BY DEF DrainInv, PlaceOK, PlacesSame

\* What a thread carries does not count as long as it is elsewhere.
Carries == {"commit", "compensate", "release", "burst"}

LEMMA ElsewhereKeeps ==
  ASSUME DownInv, DrainInv', JobOK', NEW p \in Threads, PlacesSame(p), JobsSame(p),
         pc[p] \notin Carries,
         pc'[p] \notin Carries \/ (pc'[p] = "commit" /\ job'[p].outcome # "sent"),
         UNCHANGED <<down, held, refusedUps, dataOpen, channel, news, reconnect>>
  PROVE  DownInv'
<1>1. \A q \in Threads : Uncommitted(q)' <=> (q # p /\ Uncommitted(q))
  BY DEF Uncommitted, Carries, PlacesSame, JobsSame
<1>2. \A x : Arriving(x) => Arriving(x)'
  BY <1>1 DEF Arriving, Uncommitted, JobsSame, Carries
<1>3. \A x : (Compensated(x) => Compensated(x)') /\ (Leaving(x) => Leaving(x)')
  BY DEF Compensated, Leaving, PlacesSame, JobsSame, Carries
<1>4. DownIsKnown'
  BY <1>2, <1>3 DEF DownInv, DownIsKnown
<1>5. UpsAreUp'
  BY <1>1 DEF DownInv, UpsAreUp, JobsSame
<1> QED
  BY <1>4, <1>5 DEF DownInv, ChannelOK

\* Taking the held set along to release it.
LEMMA TakeKeeps ==
  ASSUME DownInv, DrainInv', NEW p \in Threads, pc[p] \in {"idle", "init"}, TakeHeldToRelease(p),
         UNCHANGED <<down, refusedUps, dataOpen, channel, news, reconnect>>
  PROVE  DownInv'
<1>1. /\ held' = {} /\ job' = [job EXCEPT ![p].burst = held]
      /\ pc' = [pc EXCEPT ![p] = IF held = {} THEN "idle" ELSE "release"]
  BY DEF TakeHeldToRelease, TakeHeld
<1>2. JobOK' /\ JobsSame(p) /\ job'[p].burst = held
  <2>1. job' = [job EXCEPT ![p] = [job[p] EXCEPT !["burst"] = held]] /\ "burst" \in JobFields
    BY <1>1 DEF JobFields
  <2> QED
    BY <2>1, JobChanges, DownParts, ZenonT(60)
<1>3. PlacesSame(p) /\ pc'[p] \in {"idle", "release"} /\ (held # {} => pc'[p] = "release")
  BY <1>1, PlaceChanges DEF DownInv
<1>4. \A q \in Threads : Uncommitted(q)' <=> Uncommitted(q)
  BY <1>2, <1>3 DEF Uncommitted, PlacesSame, JobsSame
<1>5. \A x : (Arriving(x) => Arriving(x)') /\ (Compensated(x) => Compensated(x)')
             /\ (Leaving(x) => Leaving(x)')
  BY <1>2, <1>3 DEF Arriving, Compensated, Leaving, Uncommitted, PlacesSame, JobsSame
<1>6. \A x \in held : Leaving(x)'
  BY <1>2, <1>3 DEF Leaving
<1>7. DownIsKnown'
  BY <1>5, <1>6 DEF DownInv, DownIsKnown
<1>8. UpsAreUp'
  BY <1>2, <1>3, <1>4 DEF DownInv, UpsAreUp, JobsSame, Uncommitted
<1> QED
  BY <1>2, <1>7, <1>8 DEF DownInv, ChannelOK

LEMMA SendUpIs ==
  ASSUME NEW item, SendUp(item), down \subseteq Items
  PROVE  /\ down' \subseteq down
         /\ channel = "open" /\ item \in down' => item \in refusedUps'
         /\ \A x \in refusedUps : x # item => x \in refusedUps'
<1>1. CASE Accept(Up(item))
  BY <1>1 DEF Accept, Up, ApplyChange, IsStateChange
<1>2. CASE /\ refusedUps' = IF channel = "open" THEN refusedUps \cup {item} ELSE refusedUps
           /\ UNCHANGED <<down, overtaken>>
  BY <1>2
<1> QED
  BY <1>1, <1>2 DEF SendUp

LEMMA SendEventDown ==
  ASSUME DownInv, DrainInv', NEW p \in Threads, SendEvent(p)
  PROVE  DownInv'
<1> DEFINE entry == job[p].entry
           e == entry.event
<1>1. /\ pc[p] = "send" /\ pc' = [pc EXCEPT ![p] = "commit"]
      /\ UNCHANGED <<dataOpen, held, channel, news, reconnect>>
  BY DEF SendEvent, gates, input, wire
<1>2. PlacesSame(p) /\ pc'[p] = "commit"
  BY <1>1, PlaceChanges DEF DownInv
<1>3. ASSUME NEW o, job' = [job EXCEPT ![p].outcome = o]
      PROVE  /\ JobOK' /\ JobsSame(p) /\ job'[p].outcome = o /\ job'[p].entry = entry
  <2>1. job' = [job EXCEPT ![p] = [job[p] EXCEPT !["outcome"] = o]]
        /\ "outcome" \in JobFields /\ "entry" \in JobFields \ {"outcome"}
    BY <1>3 DEF JobFields
  <2> QED
    BY <2>1, JobChanges, DownParts, ZenonT(60)
<1>4. CASE \E o \in {"skipped", "failed"} : job' = [job EXCEPT ![p].outcome = o] /\ UNCHANGED history
  <2>1. PICK o \in {"skipped", "failed"} : job' = [job EXCEPT ![p].outcome = o]
    BY <1>4
  <2>2. JobOK' /\ JobsSame(p) /\ job'[p].outcome # "sent"
    BY <1>3, <2>1
  <2>3. pc[p] \notin Carries /\ UNCHANGED <<down, refusedUps>>
    BY <1>1, <1>4 DEF Carries, history
  <2> QED
    BY <1>1, <1>2, <2>2, <2>3, ElsewhereKeeps
<1>5. CASE dataOpen /\ job' = [job EXCEPT ![p].outcome = "sent"] /\ Accept(e)
  <2>1. JobOK' /\ JobsSame(p) /\ job'[p].outcome = "sent" /\ job'[p].entry = entry
    BY <1>3, <1>5
  <2>2. /\ channel = "open" /\ refusedUps' = refusedUps \ {e.what}
        /\ IsDown(e) => down' = down \cup {e.what} /\ e.what \in Items
        /\ IsStateChange(e) /\ ~IsDown(e) => down' = down \ {e.what}
        /\ ~IsStateChange(e) => down' = down /\ e.what \notin Items
    BY <1>5 DEF Accept, ApplyChange, IsStateChange, IsDown
  <2>3. \A q \in Threads : Uncommitted(q)' => q = p
    <3>1. \A q \in Threads : q # p => ~Uncommitted(q)
      BY <1>1 DEF DownInv, DrainInv, OneDrainer, Uncommitted, Drains
    <3> QED
      BY <1>2, <2>1, <3>1 DEF Uncommitted, PlacesSame, JobsSame
  <2>4. \A x : (Compensated(x) => Compensated(x)') /\ (Leaving(x) => Leaving(x)') /\ ~Arriving(x)
    <3>1. \A q \in Threads : ~Uncommitted(q)
      BY <1>1 DEF DownInv, DrainInv, OneDrainer, Uncommitted, Drains
    <3> QED
      BY <1>1, <1>2, <2>1, <3>1 DEF Compensated, Leaving, PlacesSame, JobsSame, Arriving
  <2>5. Uncommitted(p)' /\ (IsDown(e) => Arriving(e.what)')
    BY <1>2, <2>1 DEF Uncommitted, Arriving
  <2>6. down' \subseteq Items
    BY <2>2 DEF DownInv
  <2>7. DownIsKnown'
    <3> SUFFICES ASSUME NEW x \in down'
                 PROVE  \/ x \in held \/ x \in refusedUps' \/ Arriving(x)' \/ Compensated(x)'
                        \/ Leaving(x)'
      BY <1>1 DEF DownIsKnown
    <3>1. CASE x = e.what
      <4>1. x \in Items
        BY <2>6
      <4>2. IsDown(e)
        BY <2>2, <3>1, <4>1
      <4>3. /\ job'[p].outcome = "sent" /\ pc'[p] = "commit"
            /\ IsDown(job'[p].entry.event) /\ job'[p].entry.event.what = x
        BY <1>2, <2>1, <3>1, <4>2
      <4>4. Arriving(x)'
        BY <4>3 DEF Arriving, Uncommitted
      <4> QED
        BY <4>4
    <3>2. CASE x # e.what
      <4>1. x \in down
        BY <2>2, <3>2
      <4>2. x \in held \/ x \in refusedUps \/ Compensated(x) \/ Leaving(x)
        BY <1>5, <2>2, <2>4, <4>1 DEF DownInv, DownIsKnown
      <4> QED
        BY <2>2, <2>4, <3>2, <4>2
    <3> QED
      BY <3>1, <3>2
  <2>8. UpsAreUp'
    <3>1. IsStateChange(e) /\ ~IsDown(e) => e.what \notin down'
      BY <2>2
    <3> QED
      BY <2>1, <2>3, <3>1 DEF UpsAreUp
  <2>9. ChannelOK'
    BY <1>1, <1>5, <2>2 DEF DownInv, ChannelOK
  <2> QED
    BY <2>1, <2>6, <2>7, <2>8, <2>9 DEF DownInv
<1> QED
  BY <1>4, <1>5 DEF SendEvent

LEMMA CommitDown ==
  ASSUME DownInv, DrainInv', NEW p \in Threads, Commit(p)
  PROVE  DownInv'
<1> DEFINE entry == job[p].entry
           e == entry.event
           outcome == job[p].outcome
           commits == Commits(entry, outcome)
           takesBack == NeedsCompensation(entry, outcome)
<1>1. /\ pc[p] = "commit" /\ held' = IF commits THEN ApplyChange(e, held) ELSE held
      /\ UNCHANGED <<dataOpen, down, refusedUps, channel, news, reconnect>>
  BY DEF Commit, gates, wire
<1>2. CASE takesBack
  <2>1. pc' = [pc EXCEPT ![p] = "compensate"] /\ job' = job
    BY <1>2 DEF Commit
  <2>2. PlacesSame(p) /\ pc'[p] = "compensate" /\ held' = held
    BY <1>1, <1>2, <2>1, PlaceChanges DEF DownInv, NeedsCompensation
  <2>3. \A q \in Threads : Uncommitted(q)' => q # p /\ Uncommitted(q)
    BY <2>1, <2>2 DEF Uncommitted, PlacesSame
  <2>4. \A q \in Threads : q # p /\ Uncommitted(q) => Uncommitted(q)'
    BY <2>1, <2>2 DEF Uncommitted, PlacesSame
  <2>5. Compensated(e.what)'
    BY <2>1, <2>2 DEF Compensated
  <2>6. \A x : Arriving(x) => Arriving(x)' \/ x = e.what
    BY <2>1, <2>4 DEF Arriving
  <2>7. \A x : (Compensated(x) => Compensated(x)') /\ (Leaving(x) => Leaving(x)')
    BY <1>1, <2>1, <2>2 DEF Compensated, Leaving, PlacesSame
  <2>8. DownIsKnown'
    <3> SUFFICES ASSUME dataOpen, channel = "open", NEW x \in down
                 PROVE  \/ x \in held \/ x \in refusedUps \/ Arriving(x)' \/ Compensated(x)'
                        \/ Leaving(x)'
      BY <1>1, <2>2 DEF DownIsKnown
    <3>1. x \in held \/ x \in refusedUps \/ Arriving(x) \/ Compensated(x) \/ Leaving(x)
      BY DEF DownInv, DownIsKnown
    <3>2. x = e.what => Compensated(x)'
      BY <2>1, <2>2 DEF Compensated
    <3> QED
      BY <2>6, <2>7, <3>1, <3>2
  <2>9. UpsAreUp'
    BY <1>1, <2>1, <2>3 DEF DownInv, UpsAreUp
  <2> QED
    BY <1>1, <2>1, <2>8, <2>9 DEF DownInv, JobOK, ChannelOK
<1>3. CASE ~takesBack
  <2>1. pc' = [pc EXCEPT ![p] = "drain"] /\ job' = [job EXCEPT ![p] = NoJob]
    BY <1>3 DEF Commit
  <2>2. PlacesSame(p) /\ pc'[p] = "drain" /\ JobOK' /\ JobsSame(p)
    BY <2>1, PlaceChanges, JobOver, DownParts
  <2>3. \A q \in Threads : Uncommitted(q)' <=> (q # p /\ Uncommitted(q))
    BY <2>2 DEF Uncommitted, PlacesSame, JobsSame
  <2>4. \A x : (Compensated(x) => Compensated(x)') /\ (Leaving(x) => Leaving(x)')
    BY <1>1, <2>2 DEF Compensated, Leaving, PlacesSame, JobsSame
  <2>5. \A x : Arriving(x) => Arriving(x)' \/ (x = e.what /\ outcome = "sent" /\ IsDown(e))
    BY <2>2, <2>3 DEF Arriving, JobsSame, Uncommitted
  <2>6. outcome = "sent" /\ IsDown(e) => commits
    BY <1>3 DEF NeedsCompensation
  <2>7. ASSUME NEW x \in held, x \notin held'
        PROVE  x \notin down
    <3>1. commits /\ ~e.pressed /\ x = e.what
      BY <1>1, <2>7 DEF ApplyChange
    <3>2. Uncommitted(p) /\ IsStateChange(e) /\ ~IsDown(e)
      BY <1>1, <3>1 DEF Commits, Uncommitted, IsDown
    <3> QED
      BY <3>1, <3>2 DEF DownInv, UpsAreUp
  <2>8. outcome = "sent" /\ IsDown(e) => e.what \in held'
    BY <1>1, <2>6 DEF ApplyChange, IsDown
  <2>9. DownIsKnown'
    <3> SUFFICES ASSUME dataOpen, channel = "open", NEW x \in down
                 PROVE  \/ x \in held' \/ x \in refusedUps \/ Arriving(x)' \/ Compensated(x)'
                        \/ Leaving(x)'
      BY <1>1 DEF DownIsKnown
    <3>1. x \in held \/ x \in refusedUps \/ Arriving(x) \/ Compensated(x) \/ Leaving(x)
      BY DEF DownInv, DownIsKnown
    <3>2. x \in held => x \in held'
      BY <2>7
    <3> QED
      BY <2>4, <2>5, <2>8, <3>1, <3>2
  <2>10. UpsAreUp'
    BY <1>1, <2>2, <2>3 DEF DownInv, UpsAreUp, JobsSame
  <2> QED
    BY <1>1, <2>2, <2>9, <2>10 DEF DownInv, ChannelOK
<1> QED
  BY <1>2, <1>3

LEMMA CompensateDown ==
  ASSUME DownInv, DrainInv', NEW p \in Threads, Compensate(p)
  PROVE  DownInv'
<1> DEFINE item == job[p].entry.event.what
<1>1. /\ pc[p] = "compensate"
      /\ pc' = [pc EXCEPT ![p] = "drain"] /\ job' = [job EXCEPT ![p] = NoJob]
      /\ UNCHANGED <<dataOpen, held, channel, news, reconnect>>
      /\ IF dataOpen THEN SendUp(item) ELSE UNCHANGED history
  BY DEF Compensate, gates, input, wire
<1>2. PlacesSame(p) /\ pc'[p] = "drain" /\ JobOK' /\ JobsSame(p)
  BY <1>1, PlaceChanges, JobOver, DownParts
<1>3. \A q \in Threads : Uncommitted(q)' <=> Uncommitted(q)
  BY <1>1, <1>2 DEF Uncommitted, PlacesSame, JobsSame
<1>4. \A x : (Arriving(x) => Arriving(x)') /\ (Leaving(x) => Leaving(x)')
             /\ (Compensated(x) => Compensated(x)' \/ x = item)
  BY <1>1, <1>2, <1>3 DEF Arriving, Compensated, Leaving, PlacesSame, JobsSame, Uncommitted
<1>5. down' \subseteq down /\ UpsAreUp'
  <2>1. down' \subseteq down
    BY <1>1, SendUpIs DEF DownInv, history
  <2> QED
    BY <1>1, <1>2, <1>3, <2>1 DEF DownInv, UpsAreUp, JobsSame, Uncommitted
<1>6. DownIsKnown'
  <2> SUFFICES ASSUME dataOpen, channel = "open", NEW x \in down'
               PROVE  \/ x \in held \/ x \in refusedUps' \/ Arriving(x)' \/ Compensated(x)'
                      \/ Leaving(x)'
    BY <1>1 DEF DownIsKnown
  <2>1. (x = item => x \in refusedUps') /\ (x \in refusedUps => x \in refusedUps')
    BY <1>1, SendUpIs DEF DownInv
  <2>2. x \in held \/ x \in refusedUps \/ Arriving(x) \/ Compensated(x) \/ Leaving(x)
    BY <1>5 DEF DownInv, DownIsKnown
  <2> QED
    BY <1>4, <2>1, <2>2
<1> QED
  BY <1>1, <1>2, <1>5, <1>6 DEF DownInv, ChannelOK

LEMMA ReleasesDown ==
  ASSUME DownInv, DrainInv', NEW p \in Threads, StartReleases(p) \/ SendRelease(p)
  PROVE  DownInv'
<1>1. CASE StartReleases(p) /\ dataOpen
  <2>1. /\ pc[p] = "release" /\ pc' = [pc EXCEPT ![p] = "burst"] /\ job' = job
        /\ UNCHANGED <<dataOpen, held, channel, news, reconnect, down, refusedUps>>
    BY <1>1 DEF StartReleases, gates, input, wire, history
  <2>2. PlacesSame(p) /\ pc'[p] = "burst"
    BY <2>1, PlaceChanges DEF DownInv
  <2>3. \A q \in Threads : Uncommitted(q)' <=> Uncommitted(q)
    BY <2>1, <2>2 DEF Uncommitted, PlacesSame
  <2>4. \A x : (Arriving(x) => Arriving(x)') /\ (Leaving(x) => Leaving(x)')
               /\ (Compensated(x) => Compensated(x)')
    BY <2>1, <2>2, <2>3 DEF Arriving, Compensated, Leaving, PlacesSame
  <2>5. DownIsKnown' /\ UpsAreUp'
    BY <2>1, <2>3, <2>4 DEF DownInv, DownIsKnown, UpsAreUp
  <2> QED
    BY <2>1, <2>5 DEF DownInv, JobOK, ChannelOK
<1>2. CASE StartReleases(p) /\ ~dataOpen
  <2>1. /\ pc[p] = "release" /\ pc' = [pc EXCEPT ![p] = "idle"] /\ job' = [job EXCEPT ![p] = NoJob]
        /\ UNCHANGED <<dataOpen, held, channel, news, reconnect, down, refusedUps>>
    BY <1>2 DEF StartReleases, gates, input, wire, history
  <2>2. PlacesSame(p) /\ pc'[p] = "idle" /\ JobOK' /\ JobsSame(p)
    BY <2>1, PlaceChanges, JobOver, DownParts
  <2>3. \A q \in Threads : Uncommitted(q)' => Uncommitted(q) /\ q # p
    BY <2>2 DEF Uncommitted, PlacesSame, JobsSame
  <2>4. DownIsKnown' /\ UpsAreUp'
    BY <1>2, <2>1, <2>2, <2>3 DEF DownInv, DownIsKnown, UpsAreUp, JobsSame
  <2> QED
    BY <2>1, <2>2, <2>4 DEF DownInv, ChannelOK
<1>3. CASE SendRelease(p)
  <2>1. PICK item \in job[p].burst :
          /\ SendUp(item)
          /\ job' = [job EXCEPT ![p].burst = job[p].burst \ {item}]
          /\ pc' = IF job[p].burst = {item} THEN [pc EXCEPT ![p] = "idle"] ELSE pc
    BY <1>3 DEF SendRelease
  <2>2. pc[p] = "burst" /\ UNCHANGED <<dataOpen, held, channel, news, reconnect>>
    BY <1>3 DEF SendRelease, gates, input, wire
  <2>3. JobOK' /\ JobsSame(p) /\ job'[p].burst = job[p].burst \ {item}
    <3> DEFINE rest == job[p].burst \ {item}
    <3>1. job' = [job EXCEPT ![p] = [job[p] EXCEPT !["burst"] = rest]] /\ "burst" \in JobFields
      BY <2>1 DEF JobFields
    <3> HIDE DEF rest
    <3>2. JobOK' /\ JobsSame(p) /\ job'[p].burst = rest
      BY <3>1, JobChanges, DownParts, ZenonT(60)
    <3> QED
      BY <3>2 DEF rest
  <2>4. PlacesSame(p) /\ pc'[p] \in {"idle", "burst"}
        /\ (job[p].burst # {item} => pc'[p] = "burst")
    BY <2>1, <2>2, PlaceChanges DEF DownInv, PlacesSame
  <2>5. \A q \in Threads : Uncommitted(q)' <=> Uncommitted(q)
    BY <2>2, <2>3, <2>4 DEF Uncommitted, PlacesSame, JobsSame
  <2>6. \A x : (Arriving(x) => Arriving(x)') /\ (Compensated(x) => Compensated(x)')
    BY <2>2, <2>3, <2>4, <2>5 DEF Arriving, Compensated, PlacesSame, JobsSame, Uncommitted
  <2>7. ASSUME NEW x, Leaving(x), x # item
        PROVE  Leaving(x)'
    <3>1. PICK q \in Threads : pc[q] \in {"release", "burst"} /\ x \in job[q].burst
      BY <2>7 DEF Leaving
    <3>2. CASE q = p
      BY <2>3, <2>4, <2>7, <3>1, <3>2 DEF Leaving
    <3>3. CASE q # p
      BY <2>3, <2>4, <3>1, <3>3 DEF Leaving, PlacesSame, JobsSame
    <3> QED
      BY <3>2, <3>3
  <2>8. /\ down' \subseteq down /\ \A x \in refusedUps : x # item => x \in refusedUps'
        /\ channel = "open" /\ item \in down' => item \in refusedUps'
    BY <2>1, SendUpIs DEF DownInv
  <2>9. DownIsKnown'
    <3> SUFFICES ASSUME dataOpen, channel = "open", NEW x \in down'
                 PROVE  \/ x \in held \/ x \in refusedUps' \/ Arriving(x)' \/ Compensated(x)'
                        \/ Leaving(x)'
      BY <2>2 DEF DownIsKnown
    <3>1. x \in held \/ x \in refusedUps \/ Arriving(x) \/ Compensated(x) \/ Leaving(x)
      BY <2>8 DEF DownInv, DownIsKnown
    <3>2. CASE x = item
      BY <2>8, <3>2
    <3>3. CASE x # item
      BY <2>6, <2>7, <2>8, <3>1, <3>3
    <3> QED
      BY <3>2, <3>3
  <2>10. UpsAreUp'
    BY <2>2, <2>3, <2>4, <2>5, <2>8 DEF DownInv, UpsAreUp, JobsSame, Uncommitted
  <2>11. ChannelOK' /\ down' \subseteq Items
    BY <2>2, <2>8 DEF DownInv, ChannelOK
  <2> QED
    BY <2>3, <2>9, <2>10, <2>11 DEF DownInv
<1> QED
  BY <1>1, <1>2, <1>3

\* A step that neither moves what is down nor what a carrier carries.
LEMMA AsideKeeps ==
  ASSUME DownInv, DrainInv', NEW p \in Threads, NEW place \in Places \ Carries,
         pc[p] \notin Carries, pc' = [pc EXCEPT ![p] = place],
         UNCHANGED <<job, down, held, refusedUps, dataOpen, channel, news, reconnect>>
  PROVE  DownInv'
<1>1. PlacesSame(p) /\ pc'[p] = place
  BY PlaceChanges DEF DownInv
<1>2. JobsSame(p) /\ JobOK'
  BY DEF JobsSame, DownInv, JobOK
<1> QED
  BY <1>1, <1>2, ElsewhereKeeps

LEMMA OfferDown ==
  ASSUME DownInv, DrainInv', NEW p \in Threads
  PROVE  /\ \A e : Offer(p, e) => DownInv'
         /\ \A events : OfferBatch(p, events) => DownInv'
<1>1. ASSUME NEW asks, NEW drains, Continue(p, asks, drains), pc[p] = "idle",
             UNCHANGED <<job, down, held, refusedUps, dataOpen, channel, news, reconnect>>
      PROVE  DownInv'
  <2>1. \E place \in {"requestThenDrain", "request", "drain", "idle"} :
           pc' = [pc EXCEPT ![p] = place]
    BY <1>1 DEF Continue
  <2> QED
    BY <1>1, <2>1, AsideKeeps DEF Places, Carries
<1>2. ASSUME NEW e, Offer(p, e) PROVE DownInv'
  <2>1. /\ pc[p] = "idle"
        /\ UNCHANGED <<job, down, held, refusedUps, dataOpen, channel, news, reconnect>>
    BY <1>2 DEF Offer, gates, wire, history
  <2>2. \E asks, drains : Continue(p, asks, drains)
    BY <1>2 DEF Offer
  <2> QED
    BY <1>1, <2>1, <2>2
<1>3. ASSUME NEW events, OfferBatch(p, events) PROVE DownInv'
  <2>1. /\ pc[p] = "idle"
        /\ UNCHANGED <<job, down, held, refusedUps, dataOpen, channel, news, reconnect>>
    BY <1>3 DEF OfferBatch, gates, wire, history
  <2>2. \E asks, drains : Continue(p, asks, drains)
    BY <1>3 DEF OfferBatch
  <2> QED
    BY <1>1, <2>1, <2>2
<1> QED
  BY <1>2, <1>3

LEMMA BecomeHostDown ==
  ASSUME DownInv, DrainInv', NEW p \in Threads, BecomeHost(p)
  PROVE  DownInv'
<1>1. /\ pc[p] \notin Carries
      /\ \E place \in {"drain", "idle"} : pc' = [pc EXCEPT ![p] = place]
      /\ UNCHANGED <<job, down, held, refusedUps, dataOpen, channel, news, reconnect>>
  BY DEF BecomeHost, Carries, wire, history
<1> QED
  BY <1>1, AsideKeeps DEF Places, Carries

LEMMA TakesDown ==
  ASSUME DownInv, DrainInv', NEW p \in Threads,
         ReleaseHeldInput(p) \/ ReleaseControl(p) \/ LoseControl(p) \/ RefuseControl(p)
  PROVE  DownInv'
<1>1. /\ pc[p] \in {"idle", "init"} /\ TakeHeldToRelease(p)
      /\ UNCHANGED <<down, refusedUps, dataOpen, channel, news, reconnect>>
  BY DEF ReleaseHeldInput, ReleaseControl, LoseControl, RefuseControl, gates, wire
<1> QED
  BY <1>1, TakeKeeps

LEMMA PopEntryDown ==
  ASSUME DownInv, DrainInv', NEW p \in Threads, PopEntry(p)
  PROVE  DownInv'
<1>1. /\ pc[p] = "drain"
      /\ UNCHANGED <<down, held, refusedUps, dataOpen, channel, news, reconnect>>
  BY DEF PopEntry, gates, wire, history
<1>2. CASE UNCHANGED <<pc, job>>
  <2>1. PlacesSame(p) /\ JobsSame(p) /\ JobOK' /\ pc'[p] \notin Carries
    BY <1>1, <1>2 DEF PlacesSame, JobsSame, DownInv, JobOK, Carries
  <2> QED
    BY <1>1, <2>1, ElsewhereKeeps DEF Carries
<1>3. CASE pc' = [pc EXCEPT ![p] = "send"]
           /\ job' = [job EXCEPT ![p].entry = Head(queue.entries)]
  <2>1. JobOK' /\ JobsSame(p)
    <3>1. job' = [job EXCEPT ![p] = [job[p] EXCEPT !["entry"] = Head(queue.entries)]]
          /\ "entry" \in JobFields
      BY <1>3 DEF JobFields
    <3> QED
      BY <3>1, JobChanges, DownParts, ZenonT(60)
  <2>2. PlacesSame(p) /\ pc'[p] = "send"
    BY <1>3, PlaceChanges DEF DownInv
  <2> QED
    BY <1>1, <2>1, <2>2, ElsewhereKeeps DEF Carries
<1> QED
  BY <1>2, <1>3 DEF PopEntry

LEMMA ProceedDown ==
  ASSUME DownInv, DrainInv', NEW p \in Threads, Proceed(p)
  PROVE  DownInv'
<1>1. CASE SendControlRequest(p)
  <2>1. /\ pc[p] \notin Carries
        /\ \E place \in {"drain", "idle"} : pc' = [pc EXCEPT ![p] = place]
        /\ UNCHANGED <<job, down, held, refusedUps, dataOpen, channel, news, reconnect>>
    BY <1>1 DEF SendControlRequest, Carries, gates, input, wire, history
  <2> QED
    BY <2>1, AsideKeeps DEF Places, Carries
<1>2. CASE StopDraining(p)
  <2>1. /\ pc[p] \notin Carries /\ pc' = [pc EXCEPT ![p] = "idle"]
        /\ UNCHANGED <<job, down, held, refusedUps, dataOpen, channel, news, reconnect>>
    BY <1>2 DEF StopDraining, Carries, gates, wire, history
  <2> QED
    BY <2>1, AsideKeeps DEF Places, Carries
<1> QED
  BY <1>1, <1>2, PopEntryDown, SendEventDown, CommitDown, CompensateDown, ReleasesDown,
     BecomeHostDown, TakesDown DEF Proceed

LEMMA CallDown ==
  ASSUME DownInv, DrainInv', NEW p \in Threads, Call(p)
  PROVE  DownInv'
<1>1. CASE RequestControl(p)
  <2>1. /\ pc[p] \notin Carries /\ pc' = [pc EXCEPT ![p] = "request"]
        /\ UNCHANGED <<job, down, held, refusedUps, dataOpen, channel, news, reconnect>>
    BY <1>1 DEF RequestControl, Carries, gates, input, wire, history
  <2> QED
    BY <2>1, AsideKeeps DEF Places, Carries
<1>2. CASE \E wanted \in SUBSET Range(Modifiers) :
             \/ SyncModifiers(p, wanted)
             \/ \E k \in Keys \ Range(Modifiers) : SetPhysicalKey(p, k, wanted)
  BY <1>2, OfferDown DEF SyncModifiers, SetPhysicalKey
<1> QED
  BY <1>1, <1>2, OfferDown, TakesDown DEF Call

LEMMA MessageDown ==
  ASSUME DownInv, DrainInv', NEW s \in Threads, Message(s)
  PROVE  DownInv'
<1>1. CASE SystemInit(s)
  <2>1. /\ pc[s] \notin Carries /\ pc' = [pc EXCEPT ![s] = "init"]
        /\ UNCHANGED <<job, down, held, refusedUps, dataOpen, channel, news, reconnect>>
    BY <1>1 DEF SystemInit, Carries, input, wire, history
  <2> QED
    BY <2>1, AsideKeeps DEF Places, Carries
<1> QED
  BY <1>1, BecomeHostDown, TakesDown DEF Message

LEMMA TransportDown ==
  ASSUME DownInv, DrainInv', Transport
  PROVE  DownInv'
<1>1. CASE Invalidate /\ channel' = channel /\ UNCHANGED <<reconnect, news>>
  BY <1>1 DEF Invalidate, DownInv, JobOK, DownIsKnown, UpsAreUp, Uncommitted, ChannelOK
<1>2. CASE ScheduleReconnect \/ ReconnectReady \/ DataClosed
  BY <1>2 DEF ScheduleReconnect, ReconnectReady, DataClosed, Invalidate, DownInv, JobOK,
              DownIsKnown, UpsAreUp, Uncommitted, ChannelOK
<1>3. CASE DataOpened
  BY <1>3 DEF DataOpened, input, history, DownInv, JobOK, DownIsKnown, UpsAreUp, Uncommitted,
              ChannelOK
<1>4. CASE OpenChannel \/ CloseChannel \/ ResetTransport
  BY <1>4 DEF OpenChannel, CloseChannel, ResetTransport, gates, input, history, DownInv, JobOK,
              DownIsKnown, UpsAreUp, Uncommitted, ChannelOK
<1>5. CASE Age
  BY <1>5 DEF Age, gates, wire, history, DownInv, JobOK, DownIsKnown, UpsAreUp, Uncommitted,
              ChannelOK, Arriving, Compensated, Leaving
<1> QED
  BY <1>1, <1>2, <1>3, <1>4, <1>5 DEF Transport, LoseTransport, wire

LEMMA DownInvInit == Init => DownInv
<1> SUFFICES ASSUME Init PROVE DownInv
  OBVIOUS
<1>1. JobOK
  BY DEF Init, JobOK, JobFields, NoJob
<1> QED
  BY <1>1, DrainInvInit DEF Init, DownInv, DownIsKnown, UpsAreUp, Uncommitted, ChannelOK

LEMMA DownInvNext == DownInv /\ [Next]_vars => DownInv'
<1> SUFFICES ASSUME DownInv, [Next]_vars PROVE DownInv'
  OBVIOUS
<1>1. DrainInv'
  BY DrainInvNext DEF DownInv
<1>2. Callers \subseteq Threads /\ Sockets \subseteq Threads
  BY DEF Threads
<1>3. CASE Next
  BY <1>1, <1>2, <1>3, CallDown, MessageDown, ProceedDown, TransportDown DEF Next
<1>4. CASE UNCHANGED vars
  BY <1>1, <1>4 DEF DownInv, JobOK, DownIsKnown, UpsAreUp, ChannelOK, Arriving, Compensated,
                    Leaving, Uncommitted, vars, gates, input, wire, history
<1> QED
  BY <1>3, <1>4

\* Whatever is cancelled, refused or reconnected between two holds of the mutex: once
\* no packet is on its way, what the packets have left down is held here, but for a
\* cleanup release that the open channel refused.
THEOREM StuckTheorem == Spec => []NoStuckInput
<1>1. DownInv => NoStuckInput
  BY DEF DownInv, DownIsKnown, NoStuckInput, Quiet, Arriving, Compensated, Leaving, Uncommitted
<1>2. Spec => []DownInv
  BY DownInvInit, DownInvNext, PTL DEF Spec
<1> QED
  BY <1>1, <1>2, PTL

(***************************************************************************)
(* What is held is down.  An up that is on the wire is committed in its    *)
(* own epoch or finds nothing held; a late release that meets a held item  *)
(* is on record.                                                           *)
(***************************************************************************)
Hands == {"send", "commit"}
Fresh(p) == Uncommitted(p) /\ job[p].entry.epoch = epoch
Departing(x) ==
  \E p \in Threads : /\ Fresh(p) /\ IsStateChange(job[p].entry.event)
                     /\ ~IsDown(job[p].entry.event) /\ job[p].entry.event.what = x

InHand ==
  \A p \in Threads : pc[p] \in Hands =>
    /\ job[p].entry.epoch \in 0..epoch
    /\ job[p].entry.epoch = epoch \/ held = {}

NothingHeld == ~dataOpen => held = {} /\ \A p \in Threads : ~Fresh(p)

HeldIsKnown ==
  dataOpen /\ channel = "open" =>
    /\ \A x \in held : x \in down \/ x \in overtaken \/ Departing(x)
    /\ \A p \in Threads : Fresh(p) /\ IsDown(job[p].entry.event) =>
         job[p].entry.event.what \in down \cup overtaken

HoldInv ==
  /\ DownInv
  /\ epoch \in Nat
  /\ InHand
  /\ NothingHeld
  /\ HeldIsKnown

\* A step of p that takes no event in hand and lets none go.
Elsewhere(p) == PlacesSame(p) /\ JobsSame(p) /\ pc[p] \notin Hands /\ pc'[p] \notin Hands

LEMMA ElsewhereIs ==
  ASSUME HoldInv, NEW p \in Threads, Elsewhere(p), UNCHANGED <<held, epoch>>
  PROVE  /\ InHand'
         /\ \A q \in Threads : /\ Fresh(q)' <=> Fresh(q)
                               /\ Fresh(q) => job'[q] = job[q]
         /\ \A x : Departing(x)' <=> Departing(x)
<1>1. \A q \in Threads : pc'[q] \in Hands => q # p /\ pc'[q] = pc[q] /\ job'[q] = job[q]
  BY DEF Elsewhere, PlacesSame, JobsSame
<1>2. \A q \in Threads : pc[q] \in Hands => q # p /\ pc'[q] = pc[q] /\ job'[q] = job[q]
  BY DEF Elsewhere, PlacesSame, JobsSame
<1>3. InHand'
  BY <1>1 DEF HoldInv, InHand
<1>4. \A q \in Threads : Fresh(q)' <=> Fresh(q)
  BY <1>1, <1>2 DEF Fresh, Uncommitted, Hands
<1>5. \A q \in Threads : Fresh(q) => job'[q] = job[q]
  BY <1>2 DEF Fresh, Uncommitted, Hands
<1> QED
  BY <1>3, <1>4, <1>5 DEF Departing

LEMMA AsideHeld ==
  ASSUME HoldInv, DownInv', NEW p \in Threads, Elsewhere(p),
         UNCHANGED <<held, epoch, down, overtaken, dataOpen, channel>>
  PROVE  HoldInv'
BY ElsewhereIs DEF HoldInv, NothingHeld, HeldIsKnown

\* Cancellation lets go of what is held, and nothing in hand is of the new epoch.
LEMMA CancelHeld ==
  ASSUME HoldInv, DownInv', CancelInput, TakeHeld,
         \A q \in Threads : pc'[q] \in Hands => pc'[q] = pc[q] /\ job'[q] = job[q]
  PROVE  HoldInv'
<1>1. held' = {} /\ epoch' = epoch + 1 /\ epoch \in Nat
  BY DEF CancelInput, TakeHeld, HoldInv
<1>2. \A q \in Threads : pc'[q] \in Hands => job'[q].entry.epoch \in 0..epoch
  BY DEF HoldInv, InHand
<1>3. InHand' /\ epoch' \in Nat
  BY <1>1, <1>2 DEF InHand
<1>4. \A q \in Threads : ~Fresh(q)'
  BY <1>1, <1>2 DEF Fresh, Uncommitted, Hands
<1> QED
  BY <1>1, <1>3, <1>4 DEF HoldInv, NothingHeld, HeldIsKnown

LEMMA TakesHeld ==
  ASSUME HoldInv, DownInv', NEW p \in Threads,
         ReleaseHeldInput(p) \/ ReleaseControl(p) \/ LoseControl(p) \/ RefuseControl(p)
  PROVE  HoldInv'
<1>1. CancelInput /\ TakeHeld /\ TakeHeldToRelease(p)
  BY DEF ReleaseHeldInput, ReleaseControl, LoseControl, RefuseControl, TakeHeldToRelease
<1>2. /\ pc' = [pc EXCEPT ![p] = IF held = {} THEN "idle" ELSE "release"]
      /\ job' = [job EXCEPT ![p].burst = held]
  BY <1>1 DEF TakeHeldToRelease
<1>3. PlacesSame(p) /\ pc'[p] \notin Hands
  BY <1>2, PlaceChanges DEF HoldInv, DownInv, Hands
<1>4. JobsSame(p)
  <2>1. job = [q \in Threads |-> job[q]]
    BY DEF HoldInv, DownInv, JobOK
  <2> QED
    BY <1>2, <2>1 DEF JobsSame
<1> QED
  BY <1>1, <1>3, <1>4, CancelHeld DEF PlacesSame, JobsSame

\* An up that leaves an item held is recorded.
LEMMA SendUpHeld ==
  ASSUME HoldInv, DownInv', NEW p \in Threads, Elsewhere(p), NEW item, SendUp(item),
         UNCHANGED <<held, epoch, dataOpen, channel>>
  PROVE  HoldInv'
<1>1. /\ \A x \in down : x \in down' \/ x = item
      /\ \A x \in overtaken : x \in overtaken'
      /\ HeldOnWire(item) /\ item \in down => item \in down' \cup overtaken'
  <2>1. CASE Accept(Up(item)) /\ overtaken' = IF HeldOnWire(item) THEN overtaken \cup {item} ELSE overtaken
    BY <2>1 DEF Accept, Up, ApplyChange
  <2>2. CASE UNCHANGED <<down, overtaken>>
    BY <2>2
  <2> QED
    BY <2>1, <2>2 DEF SendUp
<1>2. item \in held => HeldOnWire(item)
  BY DEF HeldOnWire
<1>3. \A q \in Threads : Fresh(q) /\ IsDown(job[q].entry.event) /\ job[q].entry.event.what = item
        => HeldOnWire(item)
  BY DEF HeldOnWire, Fresh, Uncommitted
<1>4. /\ InHand'
      /\ \A q \in Threads : (Fresh(q)' <=> Fresh(q)) /\ (Fresh(q) => job'[q] = job[q])
      /\ \A x : Departing(x)' <=> Departing(x)
  BY ElsewhereIs
<1>5. NothingHeld' /\ epoch' \in Nat
  BY <1>4 DEF HoldInv, NothingHeld
<1>6. HeldIsKnown'
  <2> SUFFICES ASSUME dataOpen, channel = "open"
               PROVE  /\ \A x \in held : x \in down' \/ x \in overtaken' \/ Departing(x)'
                      /\ \A q \in Threads : Fresh(q)' /\ IsDown(job'[q].entry.event) =>
                           job'[q].entry.event.what \in down' \cup overtaken'
    BY DEF HeldIsKnown
  <2>1. ASSUME NEW x \in held PROVE x \in down' \/ x \in overtaken' \/ Departing(x)'
    BY <1>1, <1>2, <1>4 DEF HoldInv, HeldIsKnown
  <2>2. ASSUME NEW q \in Threads, Fresh(q)', IsDown(job'[q].entry.event)
        PROVE  job'[q].entry.event.what \in down' \cup overtaken'
    <3>1. Fresh(q) /\ job'[q] = job[q]
      BY <1>4, <2>2
    <3>2. job[q].entry.event.what \in down \cup overtaken
      BY <2>2, <3>1 DEF HoldInv, HeldIsKnown
    <3> QED
      BY <1>1, <1>3, <2>2, <3>1, <3>2
  <2> QED
    BY <2>1, <2>2
<1> QED
  BY <1>4, <1>5, <1>6 DEF HoldInv

LEMMA ReleasesHeld ==
  ASSUME HoldInv, DownInv', NEW p \in Threads,
         Compensate(p) \/ StartReleases(p) \/ SendRelease(p)
  PROVE  HoldInv'
<1>1. JobOK /\ DrainInv
  BY DownParts DEF HoldInv
<1>2. UNCHANGED <<held, epoch, dataOpen, channel>>
  BY DEF Compensate, StartReleases, SendRelease, gates, input, wire
<1>3. CASE Compensate(p)
  <2>1. /\ pc[p] = "compensate" /\ pc' = [pc EXCEPT ![p] = "drain"]
        /\ job' = [job EXCEPT ![p] = NoJob]
        /\ SendUp(job[p].entry.event.what) \/ UNCHANGED history
    BY <1>3 DEF Compensate
  <2>2. Elsewhere(p)
    BY <1>1, <2>1, PlaceChanges, JobOver DEF Elsewhere, Hands
  <2> QED
    BY <1>2, <2>1, <2>2, SendUpHeld, AsideHeld DEF history
<1>4. CASE StartReleases(p)
  <2>1. /\ pc[p] = "release" /\ \E place \in {"burst", "idle"} : pc' = [pc EXCEPT ![p] = place]
        /\ UNCHANGED job \/ job' = [job EXCEPT ![p] = NoJob]
        /\ UNCHANGED history
    BY <1>4 DEF StartReleases
  <2>2. PlacesSame(p) /\ pc'[p] \notin Hands
    BY <1>1, <2>1, PlaceChanges DEF Hands
  <2>3. JobsSame(p)
    BY <1>1, <2>1, JobOver DEF JobsSame
  <2> QED
    BY <1>2, <2>1, <2>2, <2>3, AsideHeld DEF Elsewhere, Hands, history
<1>5. CASE SendRelease(p)
  <2>1. PICK item \in job[p].burst :
          /\ SendUp(item)
          /\ job' = [job EXCEPT ![p].burst = job[p].burst \ {item}]
          /\ pc' = IF job[p].burst = {item} THEN [pc EXCEPT ![p] = "idle"] ELSE pc
    BY <1>5 DEF SendRelease
  <2>2. pc[p] = "burst"
    BY <1>5 DEF SendRelease
  <2>3. PlacesSame(p) /\ pc'[p] \notin Hands
    BY <1>1, <2>1, <2>2, PlaceChanges DEF Hands, PlacesSame
  <2>4. JobsSame(p)
    <3>1. job = [q \in Threads |-> job[q]]
      BY <1>1 DEF JobOK
    <3> QED
      BY <2>1, <3>1 DEF JobsSame
  <2> QED
    BY <1>2, <2>1, <2>2, <2>3, <2>4, SendUpHeld DEF Elsewhere, Hands
<1> QED
  BY <1>3, <1>4, <1>5

LEMMA PopEntryHeld ==
  ASSUME HoldInv, DownInv', NEW p \in Threads, PopEntry(p)
  PROVE  HoldInv'
<1> DEFINE entry == Head(queue.entries)
<1>1. /\ pc[p] = "drain" /\ UNCHANGED <<held, epoch, down, overtaken, dataOpen, channel>>
      /\ JobOK /\ DrainInv
  BY DownParts DEF PopEntry, gates, wire, history, HoldInv
<1>2. CASE UNCHANGED <<pc, job>>
  BY <1>1, <1>2, AsideHeld DEF Elsewhere, PlacesSame, JobsSame, Hands
<1>3. CASE /\ ~Unneeded(entry) /\ pc' = [pc EXCEPT ![p] = "send"]
           /\ job' = [job EXCEPT ![p].entry = entry]
  <2>1. PlacesSame(p) /\ pc'[p] = "send"
    BY <1>1, <1>3, PlaceChanges
  <2>2. JobsSame(p) /\ job'[p].entry = entry
    <3>1. job' = [job EXCEPT ![p] = [job[p] EXCEPT !["entry"] = entry]] /\ "entry" \in JobFields
      BY <1>3 DEF JobFields
    <3> HIDE DEF entry
    <3>2. JobsSame(p) /\ job'[p]["entry"] = entry
      BY <1>1, <3>1, JobChanges, ZenonT(60)
    <3> QED
      BY <3>2
  <2>3. entry.epoch = epoch /\ epoch \in Nat
    BY <1>3 DEF Unneeded, HoldInv
  <2> HIDE DEF entry
  <2>4. \A q \in Threads \ {p} : pc'[q] = pc[q] /\ job'[q] = job[q]
    BY <2>1, <2>2 DEF PlacesSame, JobsSame
  <2>5. InHand'
    BY <1>1, <2>2, <2>3, <2>4 DEF HoldInv, InHand
  <2>6. \A q \in Threads : /\ Fresh(q)' <=> Fresh(q)
                           /\ Fresh(q) => job'[q] = job[q]
    BY <1>1, <2>1, <2>4 DEF Fresh, Uncommitted
  <2>7. \A x : Departing(x) <=> Departing(x)'
    BY <2>6 DEF Departing
  <2> QED
    BY <1>1, <2>5, <2>6, <2>7 DEF HoldInv, NothingHeld, HeldIsKnown
<1> QED
  BY <1>2, <1>3 DEF PopEntry

\* Whoever has an event in hand is the only one.
LEMMA OneHand ==
  ASSUME DrainInv, NEW p \in Threads, pc[p] \in Hands
  PROVE  \A q \in Threads \ {p} : pc[q] \notin Hands
BY DEF DrainInv, OneDrainer, Drains, Hands

LEMMA SendEventHeld ==
  ASSUME HoldInv, DownInv', NEW p \in Threads, SendEvent(p)
  PROVE  HoldInv'
<1> DEFINE entry == job[p].entry
           e == entry.event
<1>1. /\ pc[p] = "send" /\ pc' = [pc EXCEPT ![p] = "commit"]
      /\ UNCHANGED <<dataOpen, held, epoch, channel>>
      /\ JobOK /\ DrainInv
  BY DownParts DEF SendEvent, gates, input, wire, HoldInv
<1>2. PlacesSame(p) /\ pc'[p] = "commit"
  BY <1>1, PlaceChanges
<1>3. PICK o :
        /\ job' = [job EXCEPT ![p].outcome = o]
        /\ \/ o # "sent" /\ UNCHANGED history
           \/ o = "sent" /\ dataOpen /\ Accept(e) /\ UNCHANGED overtaken
  <2>1. \/ job' = [job EXCEPT ![p].outcome = "skipped"] /\ UNCHANGED history
        \/ job' = [job EXCEPT ![p].outcome = "failed"] /\ UNCHANGED history
        \/ /\ job' = [job EXCEPT ![p].outcome = "sent"]
           /\ dataOpen /\ Accept(e) /\ UNCHANGED overtaken
    BY DEF SendEvent
  <2> QED
    BY <2>1
<1>4. JobsSame(p) /\ job'[p].outcome = o /\ job'[p].entry = entry
  <2>1. job' = [job EXCEPT ![p] = [job[p] EXCEPT !["outcome"] = o]]
        /\ "outcome" \in JobFields /\ "entry" \in JobFields \ {"outcome"}
    BY <1>3 DEF JobFields
  <2> QED
    BY <1>1, <2>1, JobChanges, ZenonT(60)
<1>5. \A q \in Threads \ {p} : pc[q] \notin Hands /\ pc'[q] \notin Hands
  BY <1>1, <1>2, OneHand DEF PlacesSame, Hands
<1>6. InHand' /\ epoch' \in Nat
  BY <1>1, <1>4, <1>5 DEF HoldInv, InHand, Hands
<1>7. \A q \in Threads : ~Fresh(q) /\ (Fresh(q)' => q = p)
  BY <1>1, <1>5 DEF Fresh, Uncommitted, Hands
<1>8. \A x : ~Departing(x)
  BY <1>7 DEF Departing
<1>9. CASE o # "sent" /\ UNCHANGED history
  <2>1. \A q \in Threads : ~Fresh(q)'
    BY <1>4, <1>7, <1>9 DEF Fresh, Uncommitted
  <2> QED
    BY <1>1, <1>6, <1>8, <1>9, <2>1 DEF HoldInv, NothingHeld, HeldIsKnown, history
<1>10. CASE o = "sent" /\ dataOpen /\ Accept(e) /\ UNCHANGED overtaken
  <2>1. channel = "open" /\ down' = IF IsStateChange(e) THEN ApplyChange(e, down) ELSE down
    BY <1>10 DEF Accept
  <2>2. IsDown(e) => e.what \in down'
    BY <2>1 DEF IsDown, ApplyChange
  <2>3. ASSUME NEW x \in held
        PROVE  x \in down' \/ x \in overtaken \/ Departing(x)'
    <3>1. x \in down \/ x \in overtaken
      BY <1>8, <1>10, <2>1 DEF HoldInv, HeldIsKnown
    <3>2. x \in down' \/ x \in overtaken \/ (IsStateChange(e) /\ ~IsDown(e) /\ e.what = x)
      BY <2>1, <3>1 DEF IsDown, ApplyChange
    <3>3. entry.epoch = epoch
      BY <1>1, <2>3 DEF HoldInv, InHand, Hands
    <3>4. Fresh(p)'
      BY <1>1, <1>2, <1>4, <1>10, <3>3 DEF Fresh, Uncommitted
    <3> QED
      BY <1>4, <3>2, <3>4 DEF Departing
  <2>4. ASSUME NEW q \in Threads, Fresh(q)', IsDown(job'[q].entry.event)
        PROVE  job'[q].entry.event.what \in down'
    BY <1>4, <1>7, <2>2, <2>4
  <2>5. HeldIsKnown'
    BY <1>1, <1>10, <2>3, <2>4 DEF HeldIsKnown
  <2> QED
    BY <1>1, <1>6, <1>10, <2>5 DEF HoldInv, NothingHeld
<1> QED
  BY <1>3, <1>9, <1>10

LEMMA CommitHeld ==
  ASSUME HoldInv, DownInv', NEW p \in Threads, Commit(p)
  PROVE  HoldInv'
<1> DEFINE entry == job[p].entry
           e == entry.event
           outcome == job[p].outcome
           commits == Commits(entry, outcome)
<1>1. /\ pc[p] = "commit" /\ held' = (IF commits THEN ApplyChange(e, held) ELSE held)
      /\ overtaken' = (IF commits /\ ~e.pressed THEN overtaken \ {e.what} ELSE overtaken)
      /\ UNCHANGED <<dataOpen, down, channel, epoch>>
      /\ \E place \in {"compensate", "drain"} : pc' = [pc EXCEPT ![p] = place]
      /\ DrainInv
  BY DownParts DEF Commit, gates, wire, HoldInv
<1>2. PlacesSame(p) /\ pc'[p] \notin Hands
  BY <1>1, PlaceChanges DEF Hands
<1>3. \A q \in Threads : (pc[q] \in Hands => q = p) /\ pc'[q] \notin Hands
  BY <1>1, <1>2, OneHand DEF PlacesSame, Hands
<1>4. InHand' /\ epoch' \in Nat /\ \A q \in Threads : ~Fresh(q)'
  BY <1>1, <1>3 DEF HoldInv, InHand, Fresh, Uncommitted, Hands
<1>5. commits => Fresh(p)
  BY <1>1 DEF Commits, Fresh, Uncommitted
<1>6. NothingHeld'
  BY <1>1, <1>4, <1>5 DEF HoldInv, NothingHeld
<1>7. ASSUME NEW x, Departing(x)
      PROVE  commits /\ ~e.pressed /\ x = e.what
  <2>1. Fresh(p) /\ IsStateChange(e) /\ ~IsDown(e) /\ e.what = x
    BY <1>3, <1>7 DEF Departing, Fresh, Uncommitted, Hands
  <2> QED
    BY <2>1 DEF Commits, CanApply, IsDown, Fresh, Uncommitted
<1>8. commits => IsStateChange(e)
  BY DEF Commits
<1> HIDE DEF commits
<1>9. ASSUME dataOpen, channel = "open", NEW x \in held'
      PROVE  x \in down \/ x \in overtaken'
  <2>1. CASE commits /\ e.pressed
    <3>1. e.what \in down \cup overtaken
      BY <1>5, <1>8, <1>9, <2>1 DEF HoldInv, HeldIsKnown, IsDown
    <3>2. x \in held => x \in down \cup overtaken
      BY <1>7, <1>9, <2>1 DEF HoldInv, HeldIsKnown
    <3> QED
      BY <1>1, <1>9, <2>1, <3>1, <3>2 DEF ApplyChange
  <2>2. CASE commits /\ ~e.pressed
    <3>1. x \in held /\ x # e.what
      BY <1>1, <1>9, <2>2 DEF ApplyChange
    <3>2. x \in down \cup overtaken
      BY <1>7, <1>9, <3>1 DEF HoldInv, HeldIsKnown
    <3> QED
      BY <1>1, <2>2, <3>1, <3>2
  <2>3. CASE ~commits
    BY <1>1, <1>7, <1>9, <2>3 DEF HoldInv, HeldIsKnown
  <2> QED
    BY <2>1, <2>2, <2>3
<1>10. HeldIsKnown'
  BY <1>1, <1>4, <1>9 DEF HeldIsKnown
<1> QED
  BY <1>4, <1>6, <1>10 DEF HoldInv

LEMMA OfferHeld ==
  ASSUME HoldInv, DownInv', NEW p \in Threads
  PROVE  /\ \A e : Offer(p, e) => HoldInv'
         /\ \A events : OfferBatch(p, events) => HoldInv'
<1>1. ASSUME NEW asks, NEW drains, Continue(p, asks, drains), pc[p] = "idle", UNCHANGED job,
             UNCHANGED <<held, epoch, down, overtaken, dataOpen, channel>>
      PROVE  HoldInv'
  <2>1. \E place \in {"requestThenDrain", "request", "drain", "idle"} :
           pc' = [pc EXCEPT ![p] = place]
    BY <1>1 DEF Continue
  <2>2. Elsewhere(p)
    BY <1>1, <2>1, PlaceChanges DEF HoldInv, DownInv, Elsewhere, JobsSame, Hands
  <2> QED
    BY <1>1, <2>2, AsideHeld
<1>2. ASSUME NEW e, Offer(p, e) PROVE HoldInv'
  <2>1. /\ pc[p] = "idle" /\ UNCHANGED <<job, held, epoch, down, overtaken, dataOpen, channel>>
        /\ \E asks, drains : Continue(p, asks, drains)
    BY <1>2 DEF Offer, gates, wire, history
  <2> QED
    BY <1>1, <2>1
<1>3. ASSUME NEW events, OfferBatch(p, events) PROVE HoldInv'
  <2>1. /\ pc[p] = "idle" /\ UNCHANGED <<job, held, epoch, down, overtaken, dataOpen, channel>>
        /\ \E asks, drains : Continue(p, asks, drains)
    BY <1>3 DEF OfferBatch, gates, wire, history
  <2> QED
    BY <1>1, <2>1
<1> QED
  BY <1>2, <1>3

\* The steps that only lead a thread elsewhere.
LEMMA MovesHeld ==
  ASSUME HoldInv, DownInv', NEW p \in Threads,
         RequestControl(p) \/ SendControlRequest(p) \/ StopDraining(p) \/ SystemInit(p) \/ BecomeHost(p)
  PROVE  HoldInv'
<1>1. /\ pc[p] \notin Hands
      /\ \E place \in {"request", "idle", "drain", "init"} : pc' = [pc EXCEPT ![p] = place]
      /\ UNCHANGED <<job, held, epoch, down, overtaken, dataOpen, channel>>
  BY DEF RequestControl, SendControlRequest, StopDraining, SystemInit, BecomeHost, Hands, gates,
         input, wire, history
<1>2. Elsewhere(p)
  BY <1>1, PlaceChanges DEF HoldInv, DownInv, Elsewhere, JobsSame, Hands
<1> QED
  BY <1>1, <1>2, AsideHeld

LEMMA TransportHeld ==
  ASSUME HoldInv, DownInv', Transport
  PROVE  HoldInv'
<1>1. CASE Invalidate
  BY <1>1, CancelHeld DEF Invalidate
<1>2. ASSUME UNCHANGED <<pc, job, held, epoch, overtaken>>
      PROVE  /\ InHand' /\ epoch' \in Nat
             /\ \A q \in Threads : Fresh(q)' <=> Fresh(q)
             /\ \A x : Departing(x)' <=> Departing(x)
  BY <1>2 DEF HoldInv, InHand, Fresh, Uncommitted, Departing
<1>3. CASE DataOpened
  <2>1. UNCHANGED <<pc, job, held, epoch, overtaken>> /\ dataOpen' = TRUE
        /\ UNCHANGED <<down, channel>>
    BY <1>3 DEF DataOpened, input, history
  <2>2. ~dataOpen
    BY <1>3 DEF DataOpened, HoldInv, DownInv, ChannelOK
  <2>3. held = {} /\ \A q \in Threads : ~Fresh(q)
    BY <2>2 DEF HoldInv, NothingHeld
  <2> QED
    BY <1>2, <2>1, <2>3 DEF HoldInv, NothingHeld, HeldIsKnown
<1>4. CASE OpenChannel \/ CloseChannel \/ ResetTransport
  <2>1. UNCHANGED <<pc, job, held, epoch, overtaken, dataOpen>>
    BY <1>4 DEF OpenChannel, CloseChannel, ResetTransport, gates, input, history
  <2>2. ~(dataOpen /\ channel' = "open")
    BY <1>4 DEF OpenChannel, CloseChannel, ResetTransport, HoldInv, DownInv, ChannelOK
  <2> QED
    BY <1>2, <2>1, <2>2 DEF HoldInv, NothingHeld, HeldIsKnown
<1>5. CASE Age
  <2>1. UNCHANGED <<pc, job, held, epoch, overtaken, dataOpen, channel, down>>
    BY <1>5 DEF Age, gates, wire, history
  <2> QED
    BY <1>2, <2>1 DEF HoldInv, NothingHeld, HeldIsKnown
<1> QED
  BY <1>1, <1>3, <1>4, <1>5
     DEF Transport, LoseTransport, ScheduleReconnect, ReconnectReady, DataClosed

LEMMA HoldInvInit == Init => HoldInv
BY DownInvInit DEF Init, HoldInv, InHand, Hands, NothingHeld, Fresh, Uncommitted, HeldIsKnown

LEMMA HoldInvNext == HoldInv /\ [Next]_vars => HoldInv'
<1> SUFFICES ASSUME HoldInv, [Next]_vars PROVE HoldInv'
  OBVIOUS
<1>1. DownInv'
  BY DownInvNext DEF HoldInv
<1>2. Callers \subseteq Threads /\ Sockets \subseteq Threads
  BY DEF Threads
<1>3. ASSUME NEW p \in Threads, Proceed(p) PROVE HoldInv'
  BY <1>1, <1>3, MovesHeld, PopEntryHeld, SendEventHeld, CommitHeld, ReleasesHeld, TakesHeld DEF Proceed
<1>4. ASSUME NEW p \in Threads, Call(p) PROVE HoldInv'
  BY <1>1, <1>4, OfferHeld, MovesHeld, TakesHeld DEF Call, SyncModifiers, SetPhysicalKey
<1>5. ASSUME NEW s \in Threads, Message(s) PROVE HoldInv'
  BY <1>1, <1>5, MovesHeld, TakesHeld DEF Message
<1>6. CASE UNCHANGED vars
  BY <1>1, <1>6 DEF HoldInv, InHand, NothingHeld, HeldIsKnown, Fresh, Uncommitted, Departing, vars,
                    gates, input, wire, history
<1> QED
  BY <1>1, <1>2, <1>3, <1>4, <1>5, <1>6, TransportHeld DEF Next

\* And what is held here is down there: a release that comes too late for its item is the
\* only way in which the two can differ once no packet is on its way.
THEOREM HoldingTheorem == Spec => []HeldIsDown
<1>1. HoldInv => HeldIsDown
  BY DEF HoldInv, HeldIsKnown, HeldIsDown, Quiet, Departing, Fresh, Uncommitted
<1>2. Spec => []HoldInv
  BY HoldInvInit, HoldInvNext, PTL DEF Spec
<1> QED
  BY <1>1, <1>2, PTL

(***************************************************************************)
(* The order of what is sent.  The drainer has the next event in hand, and *)
(* the queue holds later ones in ascending order.  How many events a       *)
(* physical key adds is not known; that each has a number of its own is.   *)
(***************************************************************************)
IsSequence(s) == \E R : s \in Seq(R)

\* The sequences ascend, all of them above one number and none above another.
InOrder(s, low, high) ==
  /\ IsSequence(s)
  /\ \A i \in 1..Len(s) : s[i].sequence \in Nat /\ low < s[i].sequence /\ s[i].sequence <= high
  /\ \A i, j \in 1..Len(s) : i < j => s[i].sequence < s[j].sequence

LEMMA NothingInOrder == \A low, high : InOrder(<<>>, low, high)
<1>1. <<>> \in Seq({}) /\ Len(<<>>) = 0
  OBVIOUS
<1> QED
  BY <1>1 DEF InOrder, IsSequence

LEMMA LessThan ==
  ASSUME NEW s, NEW low, NEW high \in Nat, NEW higher \in Nat, InOrder(s, low, high), high <= higher
  PROVE  InOrder(s, low, higher)
BY DEF InOrder

LEMMA OneMore ==
  ASSUME NEW s, NEW low \in Nat, NEW high \in Nat, InOrder(s, low, high), low <= high,
         NEW e, e.sequence = high + 1
  PROVE  InOrder(Append(s, e), low, high + 1)
<1>1. PICK R : s \in Seq(R)
  BY DEF InOrder, IsSequence
<1>2. s \in Seq(R \cup {e}) /\ e \in R \cup {e}
  BY <1>1, SeqMonotonic
<1>3. /\ Append(s, e) \in Seq(R \cup {e})
      /\ Len(Append(s, e)) = Len(s) + 1
      /\ \A i \in 1..Len(s) : Append(s, e)[i] = s[i]
      /\ Append(s, e)[Len(s) + 1] = e
      /\ Len(s) \in Nat
  BY <1>2, AppendProperties
<1>4. \A i \in 1..Len(s) + 1 : i \in 1..Len(s) \/ i = Len(s) + 1
  BY <1>3
<1> DEFINE t == Append(s, e)
<1> HIDE DEF t
<1>5. IsSequence(t) /\ Len(t) = Len(s) + 1
  BY <1>3 DEF t, IsSequence
<1>6. (\A i \in 1..Len(s) : t[i] = s[i]) /\ t[Len(s) + 1] = e
  BY <1>3 DEF t
<1>7. \A i \in 1..Len(t) : t[i].sequence \in Nat /\ low < t[i].sequence /\ t[i].sequence <= high + 1
  BY <1>4, <1>5, <1>6 DEF InOrder
<1>8. \A i, j \in 1..Len(t) : i < j => t[i].sequence < t[j].sequence
  BY <1>3, <1>4, <1>5, <1>6 DEF InOrder
<1> QED
  BY <1>5, <1>7, <1>8 DEF InOrder, t

LEMMA SomeMore ==
  ASSUME NEW s, NEW low \in Nat, NEW high \in Nat, InOrder(s, low, high), low <= high,
         NEW u, IsSequence(u), \A i \in 1..Len(u) : u[i].sequence = high + i
  PROVE  InOrder(s \o u, low, high + Len(u))
<1>1. PICK R : s \in Seq(R)
  BY DEF InOrder, IsSequence
<1>2. PICK S : u \in Seq(S)
  BY DEF IsSequence
<1>3. s \in Seq(R \cup S) /\ u \in Seq(R \cup S)
  BY <1>1, <1>2, SeqMonotonic
<1> DEFINE t == s \o u
<1>4. /\ t \in Seq(R \cup S)
      /\ Len(t) = Len(s) + Len(u)
      /\ \A i \in 1..Len(s) + Len(u) : t[i] = IF i <= Len(s) THEN s[i] ELSE u[i - Len(s)]
      /\ Len(s) \in Nat /\ Len(u) \in Nat
  BY <1>3, ConcatProperties
<1> HIDE DEF t
<1>5. ASSUME NEW i \in 1..Len(t)
      PROVE  \/ i \in 1..Len(s) /\ t[i].sequence = s[i].sequence
             \/ i > Len(s) /\ i - Len(s) <= Len(u) /\ t[i].sequence = high + (i - Len(s))
  <2>1. CASE i <= Len(s)
    BY <1>4, <2>1
  <2>2. CASE i > Len(s)
    <3>1. t[i] = u[i - Len(s)] /\ i - Len(s) \in 1..Len(u)
      BY <1>4, <2>2
    <3> QED
      BY <1>4, <2>2, <3>1
  <2> QED
    BY <1>4, <2>1, <2>2
<1>6. \A i \in 1..Len(s) : s[i].sequence \in Nat /\ low < s[i].sequence /\ s[i].sequence <= high
  BY DEF InOrder
<1>7. ASSUME NEW i \in 1..Len(t)
      PROVE  t[i].sequence \in Nat /\ low < t[i].sequence /\ t[i].sequence <= high + Len(u)
  <2>1. CASE i \in 1..Len(s) /\ t[i].sequence = s[i].sequence
    BY <1>4, <1>6, <2>1
  <2>2. CASE i > Len(s) /\ i - Len(s) <= Len(u) /\ t[i].sequence = high + (i - Len(s))
    BY <1>4, <2>2
  <2> QED
    BY <1>5, <2>1, <2>2
<1>8. ASSUME NEW i \in 1..Len(t), NEW j \in 1..Len(t), i < j
      PROVE  t[i].sequence < t[j].sequence
  <2>1. CASE i \in 1..Len(s) /\ j \in 1..Len(s)
    <3>1. t[i].sequence = s[i].sequence /\ t[j].sequence = s[j].sequence
      BY <1>4, <1>5, <2>1
    <3> QED
      BY <2>1, <1>8, <3>1 DEF InOrder
  <2>2. CASE i \in 1..Len(s) /\ j > Len(s)
    <3>1. t[i].sequence = s[i].sequence /\ t[j].sequence = high + (j - Len(s))
      BY <1>4, <1>5, <2>2
    <3> QED
      BY <1>4, <1>6, <2>2, <3>1
  <2>3. CASE i > Len(s)
    <3>1. t[i].sequence = high + (i - Len(s)) /\ t[j].sequence = high + (j - Len(s))
      BY <1>4, <1>5, <1>8, <2>3
    <3> QED
      BY <1>4, <1>8, <2>3, <3>1
  <2> QED
    BY <1>4, <2>1, <2>2, <2>3
<1>9. IsSequence(t)
  BY <1>4 DEF IsSequence
<1> QED
  BY <1>7, <1>8, <1>9 DEF InOrder, t

LEMMA OneLess ==
  ASSUME NEW s, NEW low \in Nat, NEW high \in Nat, InOrder(s, low, high), s # <<>>
  PROVE  LET n == Head(s).sequence
         IN  n \in Nat /\ low < n /\ n <= high /\ InOrder(Tail(s), n, high)
<1>1. PICK R : s \in Seq(R)
  BY DEF InOrder, IsSequence
<1>2. /\ Head(s) = s[1] /\ Tail(s) \in Seq(R) /\ Len(Tail(s)) = Len(s) - 1
      /\ \A i \in 1..Len(Tail(s)) : Tail(s)[i] = s[i + 1]
      /\ Len(s) \in Nat /\ Len(s) >= 1
  BY <1>1, HeadTailProperties, LenProperties, EmptySeq
<1> DEFINE t == Tail(s)
<1> HIDE DEF t
<1>3. t \in Seq(R) /\ Len(t) = Len(s) - 1 /\ \A i \in 1..Len(t) : t[i] = s[i + 1]
  BY <1>2 DEF t
<1>4. 1 \in 1..Len(s) /\ \A i \in 1..Len(t) : i + 1 \in 1..Len(s) /\ 1 < i + 1
  BY <1>2, <1>3
<1>5. \A i, j \in 1..Len(t) : i < j => t[i].sequence < t[j].sequence
  <2>1. \A i, j \in 1..Len(t) : i < j => i + 1 < j + 1
    BY <1>2, <1>3
  <2> QED
    BY <1>3, <1>4, <2>1 DEF InOrder
<1>6. \A i \in 1..Len(t) : t[i].sequence \in Nat /\ s[1].sequence < t[i].sequence
                           /\ t[i].sequence <= high
  BY <1>3, <1>4 DEF InOrder
<1>7. IsSequence(t)
  BY <1>3 DEF IsSequence
<1> QED
  BY <1>2, <1>4, <1>5, <1>6, <1>7 DEF InOrder, t

LEMMA BatchIs ==
  ASSUME NEW desired, NEW events, IsSequence(events)
  PROVE  IsSequence(BatchOf(desired, events))
<1>1. PICK R : events \in Seq(R)
  BY DEF IsSequence
<1>2. DOMAIN events = 1..Len(events) /\ Len(events) \in Nat
  BY <1>1, LenProperties
<1> DEFINE Make(state, e) == IF CanApply(e, state) THEN ApplyChange(e, state) ELSE state
           Before(i) == FoldLeft(Make, desired, SubSeq(events, 1, i - 1))
           needed == {i \in DOMAIN events : ChangeNeeded(events[i], Before(i))}
           made == {i \in needed : CanApply(events[i], Before(i))}
           order == SetToSortSeq(made, <)
           batch == [n \in 1..Cardinality(made) |-> events[order[n]]]
<1>3. BatchOf(desired, events) \in {<<>>, batch}
  BY DEF BatchOf
<1> HIDE DEF Before
<1>4. made \subseteq 1..Len(events)
  BY <1>2
<1> HIDE DEF made, order
<1>5. Cardinality(made) \in Nat
  <2>1. IsFiniteSet(1..Len(events))
    BY <1>2, FS_Interval
  <2> QED
    BY <1>4, <2>1, FS_Subset, FS_CardinalityType
<1>6. batch \in Seq({events[order[n]] : n \in 1..Cardinality(made)})
  BY <1>5
<1>7. <<>> \in Seq({})
  OBVIOUS
<1> QED
  BY <1>3, <1>6, <1>7 DEF IsSequence

LEMMA LowerBound ==
  ASSUME NEW s, NEW low \in Nat, NEW lower \in Nat, NEW high \in Nat,
         InOrder(s, low, high), lower <= low
  PROVE  InOrder(s, lower, high)
BY DEF InOrder

LEMMA EventLists ==
  ASSUME NEW wanted, NEW e
  PROVE  /\ IsSequence(ModifierEvents(wanted))
         /\ IsSequence(Append(ModifierEvents(wanted), e))
         /\ IsSequence(<<e>>)
         /\ IsSequence(<<e>> \o ModifierEvents(wanted))
<1> DEFINE m == ModifierEvents(wanted)
           R == {m[i] : i \in DOMAIN Modifiers}
<1>1. DOMAIN Modifiers = 1..Len(Modifiers) /\ Len(Modifiers) \in Nat
  BY ModifiersAreKeys, LenProperties
<1>2. m \in Seq(R)
  BY <1>1 DEF ModifierEvents
<1> HIDE DEF m, R
<1>3. m \in Seq(R \cup {e}) /\ <<e>> \in Seq(R \cup {e})
  BY <1>2, SeqMonotonic
<1>4. Append(m, e) \in Seq(R \cup {e}) /\ <<e>> \o m \in Seq(R \cup {e})
  BY <1>3, AppendProperties, ConcatProperties
<1> QED
  BY <1>3, <1>4 DEF IsSequence, m

LEMMA PushAdds ==
  ASSUME NEW q, IsQueue(q), NEW entry, NEW waiting
  PROVE  Push(q, entry, waiting).queue.entries \in {q.entries, <<>>, Append(q.entries, entry)}
<1> DEFINE x == Append(q.entries, entry)
           w == IF waiting /\ q.wait = "none" THEN "fresh" ELSE q.wait
<1>1. Appended(q, entry, waiting) = [q EXCEPT !.entries = x, !.wait = w]
  BY DEF Appended
<1> HIDE DEF w, x
<1>2. Appended(q, entry, waiting).entries = x
  BY <1>1 DEF IsQueue, QueueFields
<1>3. AbortWait(q).entries = <<>>
  BY DEF AbortWait
<1> QED
  BY <1>2, <1>3 DEF Push, x

\* An event that is about to be sent is the next one: nothing after it has been
\* sent, and what is queued comes later.
SendsNext(n) ==
  /\ n \in Nat /\ lastSent < n /\ n <= sequence
  /\ InOrder(queue.entries, n, sequence)

OrderInv ==
  /\ sequence \in Nat /\ lastSent \in Nat /\ lastSent <= sequence
  /\ InOrder(queue.entries, lastSent, sequence)
  /\ \A p \in Threads : pc[p] = "send" => SendsNext(job[p].entry.sequence)

QueueKept ==
  \A low \in Nat : low <= sequence /\ InOrder(queue.entries, low, sequence)
                     => InOrder(queue'.entries, low, sequence')

SendersKept ==
  \A p \in Threads : pc'[p] = "send" => pc[p] = "send" /\ job'[p].entry = job[p].entry

LEMMA OrderKept ==
  ASSUME OrderInv, UNCHANGED lastSent, sequence' \in Nat, sequence <= sequence',
         QueueKept, SendersKept
  PROVE  OrderInv'
<1>1. sequence \in Nat /\ lastSent \in Nat /\ lastSent <= sequence
      /\ InOrder(queue.entries, lastSent, sequence)
  BY DEF OrderInv
<1>2. InOrder(queue'.entries, lastSent', sequence')
  BY <1>1 DEF QueueKept
<1>3. lastSent' \in Nat /\ lastSent' <= sequence'
  BY <1>1
<1>4. ASSUME NEW p \in Threads, pc'[p] = "send"
      PROVE  SendsNext(job[p].entry.sequence)'
  <2> DEFINE n == job[p].entry.sequence
  <2>1. pc[p] = "send" /\ job'[p].entry = job[p].entry
    BY <1>4 DEF SendersKept
  <2>2. n \in Nat /\ lastSent < n /\ n <= sequence /\ InOrder(queue.entries, n, sequence)
    BY <2>1 DEF OrderInv, SendsNext
  <2>3. InOrder(queue'.entries, n, sequence') /\ lastSent' < n /\ n <= sequence'
    BY <1>1, <2>2 DEF QueueKept
  <2> QED
    BY <2>1, <2>2, <2>3 DEF SendsNext
<1> QED
  BY <1>2, <1>3, <1>4 DEF OrderInv

\* A thread goes somewhere else than to send, and nothing is queued.
LEMMA AsideInOrder ==
  ASSUME DownInv, OrderInv, NEW p \in Threads, PlacesSame(p), JobsSame(p), pc'[p] # "send",
         UNCHANGED <<sequence, lastSent>>, queue'.entries \in {queue.entries, <<>>}
  PROVE  OrderInv'
<1>1. SendersKept
  BY DEF SendersKept, PlacesSame, JobsSame
<1>2. QueueKept
  BY NothingInOrder DEF QueueKept
<1>3. sequence' \in Nat /\ sequence <= sequence'
  BY DEF OrderInv
<1> QED
  BY <1>1, <1>2, <1>3, OrderKept

LEMMA OfferInOrder ==
  ASSUME DownInv, OrderInv, NEW p \in Threads, NEW e, Offer(p, e)
  PROVE  OrderInv' /\ UNCHANGED lastSent
<1> DEFINE a == Admission(p)
           pushed == Push(a.queue, NextEntry(e), InputRoute = "wait")
           refused == RefusedByDesired(a.queue, e)
           x == a.queue.entries
<1>1. /\ queue' = (IF refused THEN a.queue ELSE pushed.queue)
      /\ sequence' = (IF refused THEN sequence ELSE sequence + 1)
      /\ \E asks, drains : Continue(p, asks, drains)
      /\ UNCHANGED <<job, lastSent>>
  BY DEF Offer, history
<1>2. IsQueue(a.queue) /\ x \in {queue.entries, <<>>}
  BY AdmissionIs DEF DownInv, DrainInv
<1>3. pushed.queue.entries \in {x, <<>>, Append(x, NextEntry(e))}
  BY <1>2, PushAdds
<1>4. NextEntry(e).sequence = sequence + 1
  BY DEF NextEntry
<1> HIDE DEF a, pushed, refused
<1>5. sequence \in Nat
  BY DEF OrderInv
<1>6. QueueKept
  <2> SUFFICES ASSUME NEW low \in Nat, low <= sequence, InOrder(queue.entries, low, sequence)
               PROVE  InOrder(queue'.entries, low, sequence')
    BY DEF QueueKept
  <2>1. InOrder(x, low, sequence)
    BY <1>2, NothingInOrder
  <2>2. InOrder(x, low, sequence + 1) /\ InOrder(<<>>, low, sequence + 1)
    BY <1>5, <2>1, LessThan, NothingInOrder
  <2>3. InOrder(Append(x, NextEntry(e)), low, sequence + 1)
    BY <1>4, <1>5, <2>1, OneMore
  <2>4. CASE refused
    BY <1>1, <2>1, <2>4
  <2>5. CASE ~refused
    BY <1>1, <1>3, <2>2, <2>3, <2>5
  <2> QED
    BY <2>4, <2>5
<1>7. SendersKept
  <2>1. \E place \in {"requestThenDrain", "request", "drain", "idle"} :
           pc' = [pc EXCEPT ![p] = place]
    BY <1>1 DEF Continue
  <2>2. PlacesSame(p) /\ pc'[p] # "send"
    BY <2>1, PlaceChanges DEF DownInv
  <2> QED
    BY <1>1, <2>2 DEF SendersKept, PlacesSame
<1>8. sequence' \in Nat /\ sequence <= sequence'
  BY <1>1, <1>5
<1> QED
  BY <1>1, <1>6, <1>7, <1>8, OrderKept

LEMMA OfferBatchInOrder ==
  ASSUME DownInv, OrderInv, NEW p \in Threads, NEW events, IsSequence(events),
         OfferBatch(p, events)
  PROVE  OrderInv' /\ UNCHANGED lastSent
<1> DEFINE a == Admission(p)
           waiting == InputRoute = "wait"
           desired == Desired(a.queue)
           batch == IF desired = None THEN <<>> ELSE BatchOf(desired, events)
           fits == CanAppend(a.queue, Len(batch), waiting)
           q == IF batch = <<>> THEN a.queue
                ELSE IF fits THEN AppendBatch(a.queue, batch, waiting)
                ELSE IF waiting /\ ~a.queue.aborted THEN AbortWait(a.queue)
                ELSE a.queue
           x == a.queue.entries
           added == [i \in DOMAIN batch |->
                      [sequence |-> sequence + i, epoch |-> epoch, event |-> batch[i]]]
<1>1. /\ queue' = q
      /\ sequence' = (IF fits THEN sequence + Len(batch) ELSE sequence)
      /\ \E asks, drains : Continue(p, asks, drains)
      /\ UNCHANGED <<job, lastSent>>
  BY DEF OfferBatch, history
<1>2. IsQueue(a.queue) /\ x \in {queue.entries, <<>>}
  BY AdmissionIs DEF DownInv, DrainInv
<1>3. IsSequence(batch)
  <2>1. IsSequence(<<>>)
    <3>1. <<>> \in Seq({})
      OBVIOUS
    <3> QED
      BY <3>1 DEF IsSequence
  <2> QED
    BY <2>1, BatchIs
<1> HIDE DEF a, batch, fits, waiting
<1>4. AppendBatch(a.queue, batch, waiting).entries = x \o added
  <2> DEFINE w == IF waiting /\ a.queue.wait = "none" THEN "fresh" ELSE a.queue.wait
             y == x \o added
  <2>1. AppendBatch(a.queue, batch, waiting) = [a.queue EXCEPT !.entries = y, !.wait = w]
    BY DEF AppendBatch
  <2> HIDE DEF w, y
  <2>2. AppendBatch(a.queue, batch, waiting).entries = y
    BY <1>2, <2>1 DEF IsQueue, QueueFields
  <2> QED
    BY <2>2 DEF y
<1>5. AbortWait(a.queue).entries = <<>>
  BY DEF AbortWait
<1>6. sequence \in Nat
  BY DEF OrderInv
<1>7. /\ IsSequence(added) /\ Len(added) = Len(batch) /\ Len(batch) \in Nat
      /\ \A i \in 1..Len(added) : added[i].sequence = sequence + i
  <2>1. PICK R : batch \in Seq(R)
    BY <1>3 DEF IsSequence
  <2>2. DOMAIN batch = 1..Len(batch) /\ Len(batch) \in Nat
    BY <2>1, LenProperties
  <2>3. added \in Seq({added[i] : i \in DOMAIN batch}) /\ Len(added) = Len(batch)
    BY <2>2
  <2>4. \A i \in 1..Len(added) : added[i].sequence = sequence + i
    BY <2>2, <2>3
  <2> QED
    BY <2>2, <2>3, <2>4 DEF IsSequence
<1> HIDE DEF added
<1>8. QueueKept
  <2> SUFFICES ASSUME NEW low \in Nat, low <= sequence, InOrder(queue.entries, low, sequence)
               PROVE  InOrder(queue'.entries, low, sequence')
    BY DEF QueueKept
  <2>1. InOrder(x, low, sequence)
    BY <1>2, NothingInOrder
  <2>2. InOrder(x \o added, low, sequence + Len(batch))
    BY <1>6, <1>7, <2>1, SomeMore
  <2>3. sequence' \in Nat /\ sequence <= sequence'
    BY <1>1, <1>6, <1>7
  <2>4. InOrder(x, low, sequence') /\ InOrder(<<>>, low, sequence')
    BY <1>6, <2>1, <2>3, LessThan, NothingInOrder
  <2>5. CASE batch # <<>> /\ fits
    BY <1>1, <1>4, <2>2, <2>5
  <2>6. CASE batch = <<>> \/ ~fits
    <3>1. q.entries \in {x, <<>>}
      BY <1>5, <2>6
    <3> QED
      BY <1>1, <2>4, <3>1
  <2> QED
    BY <2>5, <2>6
<1>9. SendersKept
  <2>1. \E place \in {"requestThenDrain", "request", "drain", "idle"} :
           pc' = [pc EXCEPT ![p] = place]
    BY <1>1 DEF Continue
  <2>2. PlacesSame(p) /\ pc'[p] # "send"
    BY <2>1, PlaceChanges DEF DownInv
  <2> QED
    BY <1>1, <2>2 DEF SendersKept, PlacesSame
<1>10. sequence' \in Nat /\ sequence <= sequence'
  BY <1>1, <1>6, <1>7
<1> QED
  BY <1>1, <1>8, <1>9, <1>10, OrderKept

LEMMA PopEntryInOrder ==
  ASSUME DownInv, OrderInv, NEW p \in Threads, PopEntry(p)
  PROVE  OrderInv' /\ UNCHANGED lastSent
<1> DEFINE n == Head(queue.entries).sequence
<1>1. /\ pc[p] = "drain" /\ queue.entries # <<>>
      /\ queue' = [queue EXCEPT !.entries = Tail(queue.entries)]
      /\ UNCHANGED <<sequence, lastSent>>
  BY DEF PopEntry, history
<1>2. sequence \in Nat /\ lastSent \in Nat /\ lastSent <= sequence
      /\ InOrder(queue.entries, lastSent, sequence)
  BY DEF OrderInv
<1>3. n \in Nat /\ lastSent < n /\ n <= sequence /\ InOrder(Tail(queue.entries), n, sequence)
  BY <1>1, <1>2, OneLess
<1>4. queue'.entries = Tail(queue.entries)
  BY <1>1 DEF DownInv, DrainInv, IsQueue, QueueFields
<1>5. ASSUME job'[p].entry = Head(queue.entries)
      PROVE  SendsNext(job[p].entry.sequence)'
  BY <1>1, <1>3, <1>4, <1>5 DEF SendsNext
<1>6. InOrder(queue'.entries, lastSent', sequence')
  BY <1>1, <1>2, <1>3, <1>4, LowerBound
<1>7. \A q \in Threads : pc[q] = "send" => q = p
  BY <1>1 DEF DownInv, DrainInv, OneDrainer, Drains
<1>8. CASE UNCHANGED <<pc, job>>
  BY <1>1, <1>2, <1>6, <1>7, <1>8 DEF OrderInv
<1>9. CASE /\ pc' = [pc EXCEPT ![p] = "send"]
           /\ job' = [job EXCEPT ![p].entry = Head(queue.entries)]
  <2>1. job'[p].entry = Head(queue.entries)
    <3>1. job' = [job EXCEPT ![p] = [job[p] EXCEPT !["entry"] = Head(queue.entries)]]
          /\ "entry" \in JobFields
      BY <1>9 DEF JobFields
    <3> QED
      BY <3>1, JobChanges, DownParts, ZenonT(60)
  <2>2. PlacesSame(p)
    BY <1>9, PlaceChanges DEF DownInv
  <2>3. \A q \in Threads : pc'[q] = "send" => q = p
    BY <1>7, <2>2 DEF PlacesSame
  <2>4. \A q \in Threads : pc'[q] = "send" => SendsNext(job[q].entry.sequence)'
    BY <1>5, <2>1, <2>3
  <2> QED
    BY <1>1, <1>2, <1>6, <2>4 DEF OrderInv
<1> QED
  BY <1>1, <1>8, <1>9 DEF PopEntry

LEMMA SendEventInOrder ==
  ASSUME DownInv, OrderInv, NEW p \in Threads, SendEvent(p)
  PROVE  OrderInv' /\ lastSent' >= lastSent
<1> DEFINE n == job[p].entry.sequence
<1>1. /\ pc[p] = "send" /\ pc' = [pc EXCEPT ![p] = "commit"]
      /\ UNCHANGED <<queue, sequence>> /\ lastSent' \in {lastSent, n}
  BY DEF SendEvent, input, history
<1>2. sequence \in Nat /\ lastSent \in Nat /\ lastSent <= sequence
      /\ InOrder(queue.entries, lastSent, sequence)
  BY DEF OrderInv
<1>3. n \in Nat /\ lastSent < n /\ n <= sequence /\ InOrder(queue.entries, n, sequence)
  BY <1>1 DEF OrderInv, SendsNext
<1>4. \A q \in Threads : pc'[q] # "send"
  <2>1. PlacesSame(p) /\ pc'[p] = "commit"
    BY <1>1, PlaceChanges DEF DownInv
  <2>2. \A q \in Threads : pc[q] = "send" => q = p
    BY <1>1 DEF DownInv, DrainInv, OneDrainer, Drains
  <2> QED
    BY <2>1, <2>2 DEF PlacesSame
<1> QED
  BY <1>1, <1>2, <1>3, <1>4 DEF OrderInv

\* A step of a thread that neither queues nor takes an entry.
LEMMA MovesInOrder ==
  ASSUME DownInv, OrderInv, NEW p \in Threads, pc[p] # "send",
         NEW place \in Places \ {"send"}, pc' = [pc EXCEPT ![p] = place] \/ pc' = pc,
         job' = job \/ JobsSame(p),
         UNCHANGED <<sequence, lastSent>>, queue'.entries \in {queue.entries, <<>>}
  PROVE  OrderInv'
<1>1. PlacesSame(p) /\ pc'[p] # "send"
  BY PlaceChanges DEF DownInv, PlacesSame
<1>2. JobsSame(p)
  BY DEF JobsSame
<1> QED
  BY <1>1, <1>2, AsideInOrder

LEMMA TakesInOrder ==
  ASSUME DownInv, OrderInv, NEW p \in Threads,
         ReleaseHeldInput(p) \/ ReleaseControl(p) \/ LoseControl(p) \/ RefuseControl(p)
  PROVE  OrderInv' /\ UNCHANGED lastSent
<1>1. /\ pc[p] \in {"idle", "init"} /\ TakeHeldToRelease(p) /\ CancelInput
      /\ UNCHANGED <<sequence, lastSent>>
  BY DEF ReleaseHeldInput, ReleaseControl, LoseControl, RefuseControl
<1>2. queue'.entries = <<>>
  BY <1>1 DEF CancelInput, Cleared, EmptyQueue
<1>3. JobsSame(p)
  <2>1. job' = [job EXCEPT ![p] = [job[p] EXCEPT !["burst"] = held]] /\ "burst" \in JobFields
    BY <1>1 DEF JobFields, TakeHeldToRelease
  <2> QED
    BY <2>1, JobChanges, DownParts, ZenonT(60)
<1>4. \E place \in {"idle", "release"} : pc' = [pc EXCEPT ![p] = place]
  BY <1>1 DEF TakeHeldToRelease
<1> QED
  BY <1>1, <1>2, <1>3, <1>4, MovesInOrder DEF Places

LEMMA BecomeHostInOrder ==
  ASSUME DownInv, OrderInv, NEW p \in Threads, BecomeHost(p)
  PROVE  OrderInv' /\ UNCHANGED lastSent
<1>1. /\ pc[p] # "send" /\ UNCHANGED <<job, sequence, lastSent>>
      /\ \E place \in {"drain", "idle"} : pc' = [pc EXCEPT ![p] = place]
      /\ queue' = FinishWait(ExpireWait(queue))
  BY DEF BecomeHost, history
<1>2. queue'.entries \in {queue.entries, <<>>}
  <2> DEFINE x == ExpireWait(queue)
  <2>1. x = queue \/ x = EmptyQueue
    BY DEF ExpireWait, Cleared
  <2>2. IsQueue(x) /\ x.entries \in {queue.entries, <<>>}
    BY <2>1 DEF DownInv, DrainInv, IsQueue, QueueFields, EmptyQueue
  <2> HIDE DEF x
  <2>3. FinishWait(x).entries = x.entries
    BY <2>2 DEF FinishWait, IsQueue, QueueFields
  <2> QED
    BY <1>1, <2>2, <2>3 DEF x
<1> QED
  BY <1>1, <1>2, MovesInOrder DEF Places

LEMMA CommitInOrder ==
  ASSUME DownInv, OrderInv, NEW p \in Threads, Commit(p) \/ Compensate(p)
  PROVE  OrderInv' /\ UNCHANGED lastSent
<1>1. /\ pc[p] # "send" /\ UNCHANGED <<queue, sequence, lastSent>>
      /\ \E place \in {"drain", "compensate"} : pc' = [pc EXCEPT ![p] = place]
      /\ job' = job \/ job' = [job EXCEPT ![p] = NoJob]
  BY DEF Commit, Compensate, SendUp, input, history
<1>2. job' = job \/ JobsSame(p)
  BY <1>1, JobOver, DownParts
<1> QED
  BY <1>1, <1>2, MovesInOrder DEF Places

LEMMA ReleaseInOrder ==
  ASSUME DownInv, OrderInv, NEW p \in Threads, StartReleases(p) \/ SendRelease(p)
  PROVE  OrderInv' /\ UNCHANGED lastSent
<1>1. pc[p] \in {"release", "burst"} /\ UNCHANGED <<queue, sequence, lastSent>>
  BY DEF StartReleases, SendRelease, SendUp, input, history
<1>2. \/ \E place \in {"idle", "burst"} : pc' = [pc EXCEPT ![p] = place]
      \/ pc' = pc
  BY DEF StartReleases, SendRelease
<1>3. job' = job \/ JobsSame(p)
  <2>1. CASE StartReleases(p)
    <3>1. job' = job \/ job' = [job EXCEPT ![p] = NoJob]
      BY <2>1 DEF StartReleases
    <3> QED
      BY <3>1, JobOver, DownParts
  <2>2. CASE SendRelease(p)
    <3>1. PICK x : job' = [job EXCEPT ![p].burst = x]
      BY <2>2 DEF SendRelease
    <3>2. job' = [job EXCEPT ![p] = [job[p] EXCEPT !["burst"] = x]] /\ "burst" \in JobFields
      BY <3>1 DEF JobFields
    <3> QED
      BY <3>2, JobChanges, DownParts, ZenonT(60)
  <2> QED
    BY <2>1, <2>2
<1> QED
  BY <1>1, <1>2, <1>3, MovesInOrder DEF Places

LEMMA AskInOrder ==
  ASSUME DownInv, OrderInv, NEW p \in Threads,
         \/ RequestControl(p) \/ SendControlRequest(p) \/ StopDraining(p) \/ SystemInit(p)
  PROVE  OrderInv' /\ UNCHANGED lastSent
<1>1. /\ pc[p] # "send" /\ UNCHANGED <<job, queue, sequence, lastSent>>
      /\ \E place \in {"request", "idle", "drain", "init"} : pc' = [pc EXCEPT ![p] = place]
  BY DEF RequestControl, SendControlRequest, StopDraining, SystemInit, input, history
<1> QED
  BY <1>1, MovesInOrder DEF Places

LEMMA TransportInOrder ==
  ASSUME DownInv, OrderInv, Transport
  PROVE  OrderInv' /\ UNCHANGED lastSent
<1>1. UNCHANGED <<pc, job, sequence, lastSent>> /\ queue'.entries \in {queue.entries, <<>>}
  <2>1. ASSUME Invalidate
        PROVE  UNCHANGED <<pc, job, sequence, lastSent>> /\ queue'.entries = <<>>
    BY <2>1 DEF Invalidate, CancelInput, Cleared, EmptyQueue
  <2>2. ASSUME DataOpened \/ OpenChannel \/ CloseChannel \/ ResetTransport
        PROVE  UNCHANGED <<pc, job, sequence, lastSent, queue>>
    BY <2>2 DEF DataOpened, OpenChannel, CloseChannel, ResetTransport, input, history
  <2>3. ASSUME Age
        PROVE  UNCHANGED <<pc, job, sequence, lastSent>> /\ queue'.entries = queue.entries
    BY <2>3 DEF Age, history, DownInv, DrainInv, IsQueue, QueueFields
  <2> QED
    BY <2>1, <2>2, <2>3 DEF Transport, LoseTransport, ScheduleReconnect, ReconnectReady, DataClosed
<1>2. QueueKept /\ SendersKept
  BY <1>1, NothingInOrder DEF QueueKept, SendersKept
<1>3. sequence' \in Nat /\ sequence <= sequence'
  BY <1>1 DEF OrderInv
<1> QED
  BY <1>1, <1>2, <1>3, OrderKept

LEMMA CallInOrder ==
  ASSUME DownInv, OrderInv, NEW p \in Threads, Call(p)
  PROVE  OrderInv' /\ UNCHANGED lastSent
<1>1. CASE \E wanted \in SUBSET Range(Modifiers) :
             \/ SyncModifiers(p, wanted)
             \/ \E k \in Keys \ Range(Modifiers) : SetPhysicalKey(p, k, wanted)
  <2>1. \E events : IsSequence(events) /\ OfferBatch(p, events)
    BY <1>1, EventLists DEF SyncModifiers, SetPhysicalKey
  <2> QED
    BY <2>1, OfferBatchInOrder
<1> QED
  BY <1>1, OfferInOrder, AskInOrder, TakesInOrder DEF Call

LEMMA OrderInvInit == Init => OrderInv
BY NothingInOrder DEF Init, OrderInv, EmptyQueue

LEMMA OrderInvNext ==
  ASSUME DownInv, OrderInv, [Next]_vars
  PROVE  OrderInv' /\ lastSent' >= lastSent
<1>1. lastSent \in Nat
  BY DEF OrderInv
<1>2. Callers \subseteq Threads /\ Sockets \subseteq Threads
  BY DEF Threads
<1>3. ASSUME OrderInv' /\ UNCHANGED lastSent
      PROVE  OrderInv' /\ lastSent' >= lastSent
  BY <1>1, <1>3
<1>4. ASSUME NEW p \in Callers, Call(p)
      PROVE  OrderInv' /\ UNCHANGED lastSent
  BY <1>2, <1>4, CallInOrder
<1>5. ASSUME NEW s \in Sockets, Message(s)
      PROVE  OrderInv' /\ UNCHANGED lastSent
  BY <1>2, <1>5, AskInOrder, BecomeHostInOrder, TakesInOrder DEF Message
<1>6. ASSUME NEW p \in Threads, Proceed(p)
      PROVE  OrderInv' /\ lastSent' >= lastSent
  BY <1>3, <1>6, AskInOrder, PopEntryInOrder, SendEventInOrder, CommitInOrder, ReleaseInOrder,
     BecomeHostInOrder, TakesInOrder DEF Proceed
<1>7. CASE UNCHANGED vars
  BY <1>1, <1>7 DEF OrderInv, SendsNext, vars, input, history
<1> QED
  BY <1>3, <1>4, <1>5, <1>6, <1>7, TransportInOrder DEF Next

\* Events reach the wire in the order they were admitted, whichever threads offer
\* them and whichever thread drains.
THEOREM OrderTheorem == Spec => SendsInOrder
<1> DEFINE Ahead == lastSent' >= lastSent
<1>1. DownInv /\ OrderInv /\ [Next]_vars => DownInv' /\ OrderInv' /\ [Ahead]_lastSent
  BY DownInvNext, OrderInvNext
<1>2. Init => DownInv /\ OrderInv
  BY DownInvInit, OrderInvInit
<1> QED
  BY <1>1, <1>2, PTL DEF Spec, SendsInOrder

(***************************************************************************)
(* The life of a connection (SessionLifecycle).  Callbacks, completions    *)
(* and the block run lists of plain steps, or a scheduling; close runs its *)
(* own, and each of its steps leaves something behind for good.            *)
(***************************************************************************)
PlainNames == {"stopIfClosed", "invalidate", "nativeSchedule", "connect", "request", "openData",
               "observe", "clear", "current", "createPeer", "setRemote", "deliver", "set", "store"}
PlainSteps == {<<"stopIfClosed">>, <<"invalidate">>, <<"nativeSchedule">>, <<"connect">>,
               <<"request">>, <<"openData">>, <<"observe">>, <<"clear">>, <<"current">>,
               <<"createPeer">>, <<"setRemote">>, <<"deliver">>}
              \cup {<<s, x>> : s \in {"set", "store"}, x \in States}

AtSchedule == Tail(Reconnect)
Begun(l) == l \in Seq(PlainSteps) \/ l \in {Reconnect, AtSchedule}

\* What close has left, step by step.
AtEndReset == <<<<"endReset">>>>
AtDetach == <<<<"detach">>>> \o AtEndReset
AtReset == <<<<"beginReset">>>> \o AtDetach
AtDrain == <<<<"drain">>>> \o AtReset
AtDisable == <<<<"disable">>>> \o AtDrain
AtClosing == <<<<"nativeClosing">>>> \o AtDisable
AtStore == <<<<"store", "closed">>>> \o AtClosing
AtDestroy == <<<<"destroy">>>>

Returned == {<<>>, AtDestroy}
Detached == {AtEndReset} \cup Returned
Drained == {AtReset, AtDetach} \cup Detached
Disabled == {AtDrain} \cup Drained
Closing == {AtDisable} \cup Disabled
Closes == {CloseSteps, AtStore, AtClosing} \cup Closing
Connects == {<<>>, Connecting, <<<<"store", "connecting">>, <<"connect">>>>, <<<<"connect">>>>}

\* The reconnect block resets, as close does.
Resets == {AtReset, AtDetach, AtEndReset, <<>>}

LifeLists ==
  /\ DOMAIN todo = LifeThreads /\ DOMAIN pending = LifeThreads
  /\ \A t \in LifeThreads : pending[t] \in Seq(DOMAIN Callback)
  /\ \A t \in {"main", "block", "video"} : pending[t] = <<>>
  /\ \A t \in LifeThreads \ {"main", "block"} : Begun(todo[t])
  /\ todo["block"] \in Resets
  /\ todo["video"] \in {<<>>, <<<<"deliver">>>>}
  /\ IF closed THEN todo["main"] \in Closes ELSE todo["main"] \in Connects

LifeFlags ==
  /\ closed \in BOOLEAN /\ closing \in BOOLEAN /\ enabled \in BOOLEAN /\ sink \in BOOLEAN
  /\ scheduled \in BOOLEAN /\ nativeScheduled \in BOOLEAN
  /\ block \in {"none", "queued", "waiting"}

NoLinks == login = "none" /\ ws = "none" /\ peer = "none" /\ lifeChannel = "none"

\* What the steps of close leave behind.
CloseLeaves ==
  /\ ~closed => ~closing /\ enabled
  /\ closed /\ todo["main"] \in Closing => closing
  /\ closed /\ todo["main"] \in Disabled => ~enabled
  /\ closed /\ todo["main"] \in Drained => ~InFlight
  /\ closed /\ todo["main"] \in Detached => NoLinks
  /\ closed /\ todo["main"] \in Returned => ~sink /\ todo["video"] = <<>>
  /\ closing \/ ~enabled => closed
  /\ ~enabled => closing

\* What a thread has left of a reconnect that it has marked as scheduled, or
\* of one that is about to clear the mark.
AtInvalidate == Tail(AtSchedule)
AtSet == Tail(AtInvalidate)
AtStored == <<<<"store", "reconnecting">>, <<"nativeSchedule">>>>
AtNative == <<<<"nativeSchedule">>>>
AtClear == Tail(Ready)

Underway == {AtInvalidate, AtSet, AtStored, AtNative, Ready, AtClear}

MarkIsCarried ==
  ~closing =>
    /\ nativeScheduled <=> block # "none"
    /\ scheduled =>
         \/ nativeScheduled
         \/ \E t \in LifeThreads : todo[t] \in Underway
         \/ pending["monitor"] # <<>> /\ Head(pending["monitor"]) = "reconnect_ready"

LifeInv == LifeLists /\ LifeFlags /\ CloseLeaves /\ MarkIsCarried

\* Who may keep the others waiting: the block resets only while it waits to
\* fire, is not queued again before it has, and a reset that is held is held
\* by a thread that has begun one.
WaitInv ==
  /\ todo["block"] # <<>> => block = "waiting"
  /\ block # "none" => nativeScheduled
  /\ resetting => \E t \in {"main", "block"} : todo[t] \in {AtDetach, AtEndReset}

-----------------------------------------------------------------------------
(* The lists.                                                               *)

\* A plain list stays plain when its first step is taken.
LEMMA PlainRest ==
  ASSUME NEW l \in Seq(PlainSteps), l # <<>>
  PROVE  Head(l) \in PlainSteps /\ Tail(l) \in Seq(PlainSteps)
BY HeadTailProperties

LEMMA PlainStore ==
  ASSUME NEW l \in Seq(PlainSteps), NEW x \in States
  PROVE  <<<<"store", x>>>> \o l \in Seq(PlainSteps)
<1>1. <<"store", x>> \in PlainSteps
  BY DEF PlainSteps
<1> QED BY <1>1

LEMMA PlainHead ==
  ASSUME NEW s \in PlainSteps
  PROVE  /\ s[1] \in PlainNames
         /\ s[1] = "set" => s[2] \in States
BY DEF PlainSteps, PlainNames

LEMMA OfOne == ASSUME NEW S, NEW a \in S PROVE <<a>> \in Seq(S)
OBVIOUS

LEMMA OfTwo == ASSUME NEW S, NEW a \in S, NEW b \in S PROVE <<a, b>> \in Seq(S)
OBVIOUS

LEMMA OfThree ==
  ASSUME NEW S, NEW a \in S, NEW b \in S, NEW c \in S
  PROVE  <<a, b, c>> \in Seq(S)
OBVIOUS

LEMMA ArePlain ==
  /\ <<"stopIfClosed">> \in PlainSteps /\ <<"invalidate">> \in PlainSteps
  /\ <<"nativeSchedule">> \in PlainSteps /\ <<"connect">> \in PlainSteps
  /\ <<"request">> \in PlainSteps /\ <<"openData">> \in PlainSteps
  /\ <<"observe">> \in PlainSteps /\ <<"clear">> \in PlainSteps
  /\ <<"current">> \in PlainSteps /\ <<"createPeer">> \in PlainSteps
  /\ <<"setRemote">> \in PlainSteps /\ <<"deliver">> \in PlainSteps
BY DEF PlainSteps

LEMMA ArePlainStates ==
  /\ <<"set", "connecting">> \in PlainSteps /\ <<"set", "connected">> \in PlainSteps
  /\ <<"set", "reconnecting">> \in PlainSteps /\ <<"set", "failed">> \in PlainSteps
BY DEF PlainSteps, States

LEMMA PlainLists ==
  /\ Fail \in Seq(PlainSteps) /\ Connecting \in Seq(PlainSteps)
  /\ Interrupted \in Seq(PlainSteps)
<1>1. Fail \in Seq(PlainSteps)
  BY ArePlain, ArePlainStates, OfTwo DEF Fail
<1>2. Connecting \in Seq(PlainSteps)
  BY ArePlain, ArePlainStates, OfTwo DEF Connecting
<1>3. Interrupted \in Seq(PlainSteps)
  BY ArePlain, ArePlainStates, OfTwo DEF Interrupted
<1> QED BY <1>1, <1>2, <1>3

LEMMA PlainReady == Ready \in Seq(PlainSteps)
<1>1. <<<<"invalidate">>, <<"clear">>, <<"stopIfClosed">>>> \in Seq(PlainSteps)
  BY ArePlain, OfThree
<1> QED BY <1>1, PlainLists DEF Ready

LEMMA CallbackNames ==
  DOMAIN Callback = {"ws_open", "ws_closed", "peer_failed", "peer_connected", "peer_disconnected",
           "data_open", "data_closed", "data_message", "reconnect_ready", "error",
           "provide", "offer", "disconnect", "frame"}
BY DEF Callback

\* Every callback of the bridge runs plain steps or a scheduling.
LEMMA BegunCallbacks == \A c \in DOMAIN Callback : Begun(Callback[c])
<1>1. Begun(Callback.ws_open)
  <2>1. Callback.ws_open = <<<<"request">>>>
    BY DEF Callback
  <2> QED BY <2>1, ArePlain, OfOne DEF Begun
<1>2. Begun(Callback.ws_closed) /\ Begun(Callback.peer_failed)
  BY DEF Callback, Begun
<1>3. Begun(Callback.peer_connected)
  <2>1. Callback.peer_connected = <<<<"set", "connected">>>>
    BY DEF Callback
  <2> QED BY <2>1, ArePlainStates, OfOne DEF Begun
<1>4. Begun(Callback.peer_disconnected)
  <2>1. Callback.peer_disconnected = Interrupted
    BY DEF Callback
  <2> QED BY <2>1, PlainLists DEF Begun
<1>5. Begun(Callback.data_open)
  <2>1. Callback.data_open = <<<<"openData">>>>
    BY DEF Callback
  <2> QED BY <2>1, ArePlain, OfOne DEF Begun
<1>6. Begun(Callback.data_closed)
  <2>1. Callback.data_closed = <<<<"invalidate">>>>
    BY DEF Callback
  <2> QED BY <2>1, ArePlain, OfOne DEF Begun
<1>7. Begun(Callback.data_message)
  <2>1. Callback.data_message = <<<<"observe">>>>
    BY DEF Callback
  <2> QED BY <2>1, ArePlain, OfOne DEF Begun
<1>8. Begun(Callback.reconnect_ready)
  <2>1. Callback.reconnect_ready = Ready
    BY DEF Callback
  <2> QED BY <2>1, PlainReady DEF Begun
<1>9. Begun(Callback.error)
  <2>1. Callback.error = Fail
    BY DEF Callback
  <2> QED BY <2>1, PlainLists DEF Begun
<1>10. Begun(Callback.provide)
  <2>1. Callback.provide = <<<<"current">>, <<"createPeer">>, <<"setRemote">>>>
    BY DEF Callback
  <2> QED BY <2>1, ArePlain, OfThree DEF Begun
<1>11. Begun(Callback.offer)
  <2>1. Callback.offer = <<<<"current">>, <<"setRemote">>>>
    BY DEF Callback
  <2> QED BY <2>1, ArePlain, OfTwo DEF Begun
<1>12. Begun(Callback.disconnect)
  <2>1. Callback.disconnect = <<<<"current">>>> \o Fail
    BY DEF Callback
  <2>2. <<<<"current">>>> \in Seq(PlainSteps)
    BY ArePlain, OfOne
  <2> QED BY <2>1, <2>2, PlainLists DEF Begun
<1>13. Begun(Callback.frame)
  <2>1. Callback.frame = <<<<"deliver">>>>
    BY DEF Callback
  <2> QED BY <2>1, ArePlain, OfOne DEF Begun
<1> QED
  BY CallbackNames, <1>1, <1>2, <1>3, <1>4, <1>5, <1>6, <1>7, <1>8, <1>9, <1>10, <1>11, <1>12, <1>13

\* A list that is no scheduling: the first step, and what is left after it.
LEMMA AtScheduleIs ==
  /\ Reconnect # <<>> /\ Head(Reconnect) = <<"stopIfClosed">>
  /\ AtSchedule # <<>> /\ Head(AtSchedule) = <<"schedule">>
  /\ Tail(AtSchedule) = <<<<"invalidate">>, <<"set", "reconnecting">>, <<"nativeSchedule">>>>
BY DEF Reconnect, AtSchedule

LEMMA AfterSchedule == Tail(AtSchedule) \in Seq(PlainSteps)
BY AtScheduleIs, ArePlain, ArePlainStates, OfThree

LEMMA OneStep ==
  ASSUME NEW a
  PROVE  /\ <<a>> # <<>> /\ Head(<<a>>) = a
         /\ 1 \in DOMAIN <<a>> /\ <<a>>[1] = a
OBVIOUS

LEMMA NoneLeft == ASSUME NEW a PROVE Tail(<<a>>) = <<>>
<1>1. Tail(<<a>>) \in Seq({a}) /\ Len(Tail(<<a>>)) = 0
  OBVIOUS
<1> QED BY <1>1

LEMMA TwoSteps ==
  ASSUME NEW a, NEW b
  PROVE  /\ <<a, b>> # <<>> /\ Head(<<a, b>>) = a /\ Tail(<<a, b>>) = <<b>>
         /\ 2 \in DOMAIN <<a, b>> /\ <<a, b>>[2] = b
OBVIOUS

LEMMA ThreeSteps ==
  ASSUME NEW a, NEW b, NEW c
  PROVE  /\ <<a, b, c>> # <<>> /\ Head(<<a, b, c>>) = a /\ Tail(<<a, b, c>>) = <<b, c>>
         /\ 3 \in DOMAIN <<a, b, c>> /\ <<a, b, c>>[3] = c
OBVIOUS

LEMMA Joined == ASSUME NEW a, NEW b PROVE <<a>> \o <<b>> = <<a, b>>
<1>1. <<a>> \in Seq({a, b}) /\ <<b>> \in Seq({a, b}) /\ <<a, b>> \in Seq({a, b})
  OBVIOUS
<1>2. Len(<<a>> \o <<b>>) = 2 /\ <<a>> \o <<b>> \in Seq({a, b})
  BY <1>1, ConcatProperties
<1>3. (<<a>> \o <<b>>)[1] = a /\ (<<a>> \o <<b>>)[2] = b
  BY <1>1
<1>4. \A i \in 1 .. Len(<<a, b>>) : (<<a>> \o <<b>>)[i] = <<a, b>>[i]
  BY <1>3
<1> QED BY <1>1, <1>2, <1>4, SeqEqual

LEMMA ResetIs == Reset = AtReset
<1> DEFINE b == <<"beginReset">>
           d == <<"detach">>
           e == <<"endReset">>
<1>1. Reset = <<b, d, e>>
  BY DEF Reset
<1>2. AtReset = <<b>> \o (<<d>> \o <<e>>)
  BY DEF AtReset, AtDetach, AtEndReset
<1> HIDE DEF b, d, e
<1>3. <<d>> \o <<e>> = <<d, e>>
  BY Joined
<1>4. <<b>> \o <<d, e>> = <<b, d, e>>
  <2>1. <<b>> \in Seq({b, d, e}) /\ <<d, e>> \in Seq({b, d, e}) /\ <<b, d, e>> \in Seq({b, d, e})
    OBVIOUS
  <2>2. Len(<<b>> \o <<d, e>>) = 3 /\ <<b>> \o <<d, e>> \in Seq({b, d, e})
    BY <2>1, ConcatProperties
  <2>3. /\ (<<b>> \o <<d, e>>)[1] = b /\ (<<b>> \o <<d, e>>)[2] = d
        /\ (<<b>> \o <<d, e>>)[3] = e
    BY <2>1
  <2>4. \A i \in 1 .. Len(<<b, d, e>>) : (<<b>> \o <<d, e>>)[i] = <<b, d, e>>[i]
    BY <2>3
  <2> QED BY <2>1, <2>2, <2>4, SeqEqual
<1> QED BY <1>1, <1>2, <1>3, <1>4

\* The first step of each list of close, and what is left after it.
LEMMA CloseHeads ==
  /\ CloseSteps # <<>> /\ Head(CloseSteps) = <<"invalidate">>
  /\ AtStore # <<>> /\ Head(AtStore) = <<"store", "closed">>
  /\ AtClosing # <<>> /\ Head(AtClosing) = <<"nativeClosing">>
  /\ AtDisable # <<>> /\ Head(AtDisable) = <<"disable">>
  /\ AtDrain # <<>> /\ Head(AtDrain) = <<"drain">>
  /\ AtReset # <<>> /\ Head(AtReset) = <<"beginReset">>
  /\ AtDetach # <<>> /\ Head(AtDetach) = <<"detach">>
  /\ AtEndReset # <<>> /\ Head(AtEndReset) = <<"endReset">>
  /\ AtDestroy # <<>> /\ Head(AtDestroy) = <<"destroy">>
<1>1. CloseSteps # <<>> /\ Head(CloseSteps) = <<"invalidate">>
  BY DEF CloseSteps, Reset
<1>2. AtEndReset # <<>> /\ Head(AtEndReset) = <<"endReset">>
  BY DEF AtEndReset
<1>3. AtDetach # <<>> /\ Head(AtDetach) = <<"detach">>
  BY DEF AtEndReset, AtDetach
<1>4. AtReset # <<>> /\ Head(AtReset) = <<"beginReset">>
  BY DEF AtEndReset, AtDetach, AtReset
<1>5. AtDrain # <<>> /\ Head(AtDrain) = <<"drain">>
  BY DEF AtEndReset, AtDetach, AtReset, AtDrain
<1>6. AtDisable # <<>> /\ Head(AtDisable) = <<"disable">>
  BY DEF AtEndReset, AtDetach, AtReset, AtDrain, AtDisable
<1>7. AtClosing # <<>> /\ Head(AtClosing) = <<"nativeClosing">>
  BY DEF AtEndReset, AtDetach, AtReset, AtDrain, AtDisable, AtClosing
<1>8. AtStore # <<>> /\ Head(AtStore) = <<"store", "closed">>
  BY DEF AtEndReset, AtDetach, AtReset, AtDrain, AtDisable, AtClosing, AtStore
<1>9. AtDestroy # <<>> /\ Head(AtDestroy) = <<"destroy">>
  BY DEF AtDestroy
<1> QED BY <1>1, <1>2, <1>3, <1>4, <1>5, <1>6, <1>7, <1>8, <1>9

LEMMA CloseRests ==
  /\ Tail(CloseSteps) = AtStore /\ Tail(AtStore) = AtClosing
  /\ Tail(AtClosing) = AtDisable /\ Tail(AtDisable) = AtDrain
  /\ Tail(AtDrain) = AtReset /\ Tail(AtReset) = AtDetach
  /\ Tail(AtDetach) = AtEndReset /\ Tail(AtEndReset) = <<>> /\ Tail(AtDestroy) = <<>>
<1>1. Tail(CloseSteps) = AtStore
  BY DEF CloseSteps, Reset, AtEndReset, AtDetach, AtReset, AtDrain, AtDisable, AtClosing, AtStore
<1>2. Tail(AtStore) = AtClosing
  BY DEF AtEndReset, AtDetach, AtReset, AtDrain, AtDisable, AtClosing, AtStore
<1>3. Tail(AtClosing) = AtDisable
  BY DEF AtEndReset, AtDetach, AtReset, AtDrain, AtDisable, AtClosing
<1>4. Tail(AtDisable) = AtDrain
  BY DEF AtEndReset, AtDetach, AtReset, AtDrain, AtDisable
<1>5. Tail(AtDrain) = AtReset
  BY DEF AtEndReset, AtDetach, AtReset, AtDrain
<1>6. Tail(AtReset) = AtDetach
  BY DEF AtEndReset, AtDetach, AtReset
<1>7. Tail(AtDetach) = AtEndReset
  <2> DEFINE d == <<"detach">>
             e == <<"endReset">>
  <2> HIDE DEF d, e
  <2>1. Tail(<<d>> \o <<e>>) = <<e>>
    <3>1. <<d>> \o <<e>> = <<d, e>>
      BY Joined
    <3> QED BY <3>1, TwoSteps
  <2> QED BY <2>1 DEF AtEndReset, AtDetach, d, e
<1>8. Tail(AtEndReset) = <<>> /\ Tail(AtDestroy) = <<>>
  BY DEF AtEndReset, AtDestroy
<1> QED BY <1>1, <1>2, <1>3, <1>4, <1>5, <1>6, <1>7, <1>8

\* What is left of connect.
LEMMA ConnectRests ==
  /\ Connecting # <<>> /\ Head(Connecting) = <<"set", "connecting">>
  /\ <<<<"store", "connecting">>>> \o Tail(Connecting) = <<<<"store", "connecting">>, <<"connect">>>>
  /\ Tail(<<<<"store", "connecting">>, <<"connect">>>>) = <<<<"connect">>>>
  /\ Head(<<<<"store", "connecting">>, <<"connect">>>>) = <<"store", "connecting">>
  /\ Tail(<<<<"connect">>>>) = <<>> /\ Head(<<<<"connect">>>>) = <<"connect">>
<1> DEFINE set == <<"set", "connecting">>
           store == <<"store", "connecting">>
           connect == <<"connect">>
<1>1. Connecting = <<set, connect>>
  BY DEF Connecting
<1>2. Connecting # <<>> /\ Head(Connecting) = set /\ Tail(Connecting) = <<connect>>
  BY <1>1, TwoSteps
<1>3. <<store>> \o <<connect>> = <<store, connect>>
  BY Joined
<1>4. Head(<<store, connect>>) = store /\ Tail(<<store, connect>>) = <<connect>>
  BY TwoSteps
<1>5. Tail(<<connect>>) = <<>> /\ Head(<<connect>>) = connect
  BY OneStep, NoneLeft
<1> QED BY <1>2, <1>3, <1>4, <1>5

\* What is left of a reconnect.
LEMMA UnderwayRests ==
  /\ AtInvalidate # <<>> /\ Head(AtInvalidate) = <<"invalidate">> /\ Tail(AtInvalidate) = AtSet
  /\ AtSet # <<>> /\ Head(AtSet) = <<"set", "reconnecting">> /\ Tail(AtSet) = AtNative
  /\ <<<<"store", "reconnecting">>>> \o AtNative = AtStored
  /\ AtStored # <<>> /\ Head(AtStored) = <<"store", "reconnecting">> /\ Tail(AtStored) = AtNative
  /\ AtNative # <<>> /\ Head(AtNative) = <<"nativeSchedule">>
  /\ Ready # <<>> /\ Head(Ready) = <<"invalidate">> /\ Tail(Ready) = AtClear
  /\ AtClear # <<>> /\ Head(AtClear) = <<"clear">>
<1>1. Ready # <<>> /\ Head(Ready) = <<"invalidate">> /\ AtClear # <<>> /\ Head(AtClear) = <<"clear">>
      /\ Tail(Ready) = AtClear
  BY DEF Ready, Connecting, AtClear
<1> DEFINE i == <<"invalidate">>
           s == <<"set", "reconnecting">>
           r == <<"store", "reconnecting">>
           n == <<"nativeSchedule">>
<1>2. AtInvalidate = <<i, s, n>>
  BY AtScheduleIs DEF AtInvalidate
<1>3. AtStored = <<r, n>> /\ AtNative = <<n>>
  BY DEF AtStored, AtNative
<1> HIDE DEF i, s, r, n
<1>4. <<i, s, n>> # <<>> /\ Head(<<i, s, n>>) = i /\ Tail(<<i, s, n>>) = <<s, n>>
  BY ThreeSteps
<1>5. AtSet = <<s, n>>
  BY <1>2, <1>4 DEF AtSet
<1>6. <<s, n>> # <<>> /\ Head(<<s, n>>) = s /\ Tail(<<s, n>>) = <<n>>
  BY TwoSteps
<1>7. <<r, n>> # <<>> /\ Head(<<r, n>>) = r /\ Tail(<<r, n>>) = <<n>> /\ <<r>> \o <<n>> = <<r, n>>
  BY TwoSteps, Joined
<1>8. <<n>> # <<>> /\ Head(<<n>>) = n
  BY OneStep
<1>9. AtInvalidate # <<>> /\ Head(AtInvalidate) = i /\ Tail(AtInvalidate) = AtSet
  BY <1>2, <1>4, <1>5
<1>10. AtSet # <<>> /\ Head(AtSet) = s /\ Tail(AtSet) = AtNative
  BY <1>3, <1>5, <1>6
<1>11. <<r>> \o AtNative = AtStored /\ AtStored # <<>> /\ Head(AtStored) = r /\ Tail(AtStored) = AtNative
  BY <1>3, <1>7
<1>12. AtNative # <<>> /\ Head(AtNative) = n
  BY <1>3, <1>8
<1> QED BY <1>1, <1>9, <1>10, <1>11, <1>12 DEF i, s, r, n

LEMMA UnderwayHas ==
  \A l \in Underway : \E i \in DOMAIN l : l[i] \in {<<"nativeSchedule">>, <<"clear">>}
<1> DEFINE a == <<"invalidate">>
           s == <<"set", "reconnecting">>
           r == <<"store", "reconnecting">>
           n == <<"nativeSchedule">>
<1>1. AtInvalidate = <<a, s, n>> /\ AtStored = <<r, n>> /\ AtNative = <<n>>
  BY AtScheduleIs DEF AtInvalidate, AtStored, AtNative
<1> HIDE DEF a, s, r, n
<1>2. <<a, s, n>>[3] = n /\ 3 \in DOMAIN <<a, s, n>> /\ Tail(<<a, s, n>>) = <<s, n>>
  BY ThreeSteps
<1>3. AtSet = <<s, n>>
  BY <1>1, <1>2 DEF AtSet
<1>4. <<s, n>>[2] = n /\ 2 \in DOMAIN <<s, n>> /\ <<r, n>>[2] = n /\ 2 \in DOMAIN <<r, n>>
  BY TwoSteps
<1>5. <<n>>[1] = n /\ 1 \in DOMAIN <<n>>
  BY OneStep
<1>6. \A l \in {AtInvalidate, AtSet, AtStored, AtNative} : \E i \in DOMAIN l : l[i] = n
  BY <1>1, <1>2, <1>3, <1>4, <1>5
<1>7. 2 \in DOMAIN Ready /\ Ready[2] = <<"clear">>
  BY DEF Ready, Connecting
<1>8. 1 \in DOMAIN AtClear /\ AtClear[1] = <<"clear">>
  BY DEF AtClear, Ready, Connecting
<1> QED BY <1>6, <1>7, <1>8 DEF Underway, n

-----------------------------------------------------------------------------
(* A step of a thread takes the first of its list, and either goes on with  *)
(* the rest or drops it, puts a store in front of it, or fails.             *)

Follows(t, rest) ==
  \/ rest = Tail(todo[t])
  \/ /\ rest = <<>>
     /\ Head(todo[t])[1] \in {"stopIfClosed", "schedule", "current"}
  \/ /\ ~closed /\ Head(todo[t])[1] = "set"
     /\ rest = <<<<"store", Head(todo[t])[2]>>>> \o Tail(todo[t])
  \/ /\ Head(todo[t])[1] = "setRemote"
     /\ rest = Fail

LifeStep(t) ==
  /\ todo[t] # <<>>
  /\ \E rest : Follows(t, rest) /\ todo' = [todo EXCEPT ![t] = rest]
  /\ pending' = pending /\ closed' = closed

LEMMA GoesOn ==
  ASSUME NEW t, todo[t] # <<>>, GoOn(t), closed' = closed
  PROVE  LifeStep(t)
BY DEF GoOn, Goto, LifeStep, Follows

LEMMA IsLifeStep ==
  ASSUME NEW t \in LifeThreads, ZigStep(t) \/ BridgeStep(t) \/ TeardownStep(t)
  PROVE  LifeStep(t)
<1>1. CASE InvalidateTransport(t) \/ StoreLifecycle(t) \/ ClearScheduled(t)
           \/ OpenData(t) \/ Observe(t)
  BY <1>1, GoesOn DEF InvalidateTransport, StoreLifecycle, ClearScheduled, OpenData, Observe, At
<1>2. CASE SetLifecycle(t)
  BY <1>2 DEF SetLifecycle, At, Goto, LifeStep, Follows, zigVars
<1>3. CASE StopIfClosed(t)
  BY <1>3 DEF StopIfClosed, At, Goto, LifeStep, Follows, zigVars
<1>4. CASE Schedule(t)
  BY <1>4 DEF Schedule, At, Goto, LifeStep, Follows
<1>5. CASE Deliver(t) \/ NativeSchedule(t) \/ NativeConnect(t) \/ Request(t) \/ CreatePeer(t)
  BY <1>5, GoesOn DEF Deliver, NativeSchedule, NativeConnect, Request, CreatePeer, At, zigVars
<1>6. CASE StillCurrent(t)
  BY <1>6 DEF StillCurrent, At, Goto, LifeStep, Follows, zigVars
<1>7. CASE SetRemote(t)
  <2>1. Callback.error = Fail
    BY DEF Callback
  <2>2. CASE GoOn(t)
    BY <1>7, <2>2, GoesOn DEF SetRemote, At, zigVars
  <2>3. CASE Goto(t, Callback.error)
    BY <1>7, <2>1, <2>3 DEF SetRemote, At, Goto, LifeStep, Follows, zigVars
  <2> QED BY <1>7, <2>2, <2>3 DEF SetRemote
<1>8. CASE NativeClosing(t) \/ Disable(t) \/ Drain(t) \/ BeginReset(t)
  BY <1>8, GoesOn DEF NativeClosing, Disable, Drain, BeginReset, At, zigVars
<1>9. CASE EndReset(t) \/ Destroy(t)
  BY <1>9, GoesOn DEF EndReset, Destroy, At, zigVars
<1>10. CASE Detach(t)
  BY <1>10 DEF Detach, At, LifeStep, Follows, zigVars
<1> QED
  BY <1>1, <1>2, <1>3, <1>4, <1>5, <1>6, <1>7, <1>8, <1>9, <1>10
  DEF ZigStep, BridgeStep, TeardownStep

\* A step of close leads to the next of its lists.
LEMMA CloseMoves ==
  ASSUME NEW l \in Closes, l # <<>>
  PROVE  /\ Head(l)[1] \in {"invalidate", "store", "nativeClosing", "disable", "drain", "beginReset",
                            "detach", "endReset", "destroy"}
         /\ Tail(l) \in Closes
<1>1. CASE l = CloseSteps
  <2>1. Tail(l) = AtStore
    BY <1>1, CloseRests
  <2>2. Tail(l) \in Closes
    BY <2>1 DEF Closes, Closing, Disabled, Drained, Detached, Returned
  <2> QED BY <1>1, <2>2, CloseHeads
<1>2. CASE l = AtStore
  <2>1. Tail(l) = AtClosing
    BY <1>2, CloseRests
  <2>2. Tail(l) \in Closes
    BY <2>1 DEF Closes, Closing, Disabled, Drained, Detached, Returned
  <2> QED BY <1>2, <2>2, CloseHeads
<1>3. CASE l = AtClosing
  <2>1. Tail(l) = AtDisable
    BY <1>3, CloseRests
  <2>2. Tail(l) \in Closes
    BY <2>1 DEF Closes, Closing, Disabled, Drained, Detached, Returned
  <2> QED BY <1>3, <2>2, CloseHeads
<1>4. CASE l = AtDisable
  <2>1. Tail(l) = AtDrain
    BY <1>4, CloseRests
  <2>2. Tail(l) \in Closes
    BY <2>1 DEF Closes, Closing, Disabled, Drained, Detached, Returned
  <2> QED BY <1>4, <2>2, CloseHeads
<1>5. CASE l = AtDrain
  <2>1. Tail(l) = AtReset
    BY <1>5, CloseRests
  <2>2. Tail(l) \in Closes
    BY <2>1 DEF Closes, Closing, Disabled, Drained, Detached, Returned
  <2> QED BY <1>5, <2>2, CloseHeads
<1>6. CASE l = AtReset
  <2>1. Tail(l) = AtDetach
    BY <1>6, CloseRests
  <2>2. Tail(l) \in Closes
    BY <2>1 DEF Closes, Closing, Disabled, Drained, Detached, Returned
  <2> QED BY <1>6, <2>2, CloseHeads
<1>7. CASE l = AtDetach
  <2>1. Tail(l) = AtEndReset
    BY <1>7, CloseRests
  <2>2. Tail(l) \in Closes
    BY <2>1 DEF Closes, Closing, Disabled, Drained, Detached, Returned
  <2> QED BY <1>7, <2>2, CloseHeads
<1>8. CASE l = AtEndReset
  <2>1. Tail(l) = <<>>
    BY <1>8, CloseRests
  <2>2. Tail(l) \in Closes
    BY <2>1 DEF Closes, Closing, Disabled, Drained, Detached, Returned
  <2> QED BY <1>8, <2>2, CloseHeads
<1>9. CASE l = AtDestroy
  <2>1. Tail(l) = <<>>
    BY <1>9, CloseRests
  <2>2. Tail(l) \in Closes
    BY <2>1 DEF Closes, Closing, Disabled, Drained, Detached, Returned
  <2> QED BY <1>9, <2>2, CloseHeads
<1> QED
  BY <1>1, <1>2, <1>3, <1>4, <1>5, <1>6, <1>7, <1>8, <1>9 DEF Closes, Closing, Disabled, Drained, Detached, Returned

LEMMA ResetMoves ==
  ASSUME NEW l \in Resets, l # <<>>
  PROVE  /\ Head(l)[1] \in {"beginReset", "detach", "endReset"}
         /\ Tail(l) \in Resets
<1>1. CASE l = AtReset
  BY <1>1, CloseHeads, CloseRests DEF Resets
<1>2. CASE l = AtDetach
  BY <1>2, CloseHeads, CloseRests DEF Resets
<1>3. CASE l = AtEndReset
  BY <1>3, CloseHeads, CloseRests DEF Resets
<1> QED BY <1>1, <1>2, <1>3 DEF Resets

LEMMA ConnectMoves ==
  ASSUME NEW l \in Connects, l # <<>>
  PROVE  /\ Head(l)[1] \in {"set", "store", "connect"}
         /\ Tail(l) \in Connects
         /\ Head(l)[1] = "set" => <<<<"store", Head(l)[2]>>>> \o Tail(l) \in Connects
<1>1. CASE l = Connecting
  <2>1. Tail(Connecting) = <<<<"connect">>>>
    BY TwoSteps DEF Connecting
  <2> QED BY <1>1, <2>1, ConnectRests DEF Connects
<1>2. CASE l = <<<<"store", "connecting">>, <<"connect">>>>
  BY <1>2, ConnectRests DEF Connects
<1>3. CASE l = <<<<"connect">>>>
  BY <1>3, ConnectRests DEF Connects
<1> QED BY <1>1, <1>2, <1>3 DEF Connects

LEMMA BegunMoves ==
  ASSUME NEW t, Begun(todo[t]), todo[t] # <<>>, NEW rest, Follows(t, rest)
  PROVE  Begun(rest)
<1>1. CASE rest = <<>>
  BY <1>1 DEF Begun
<1>2. CASE rest = Fail
  BY <1>2, PlainLists DEF Begun
<1>3. CASE todo[t] \in Seq(PlainSteps)
  <2>1. Head(todo[t]) \in PlainSteps /\ Tail(todo[t]) \in Seq(PlainSteps)
    BY <1>3, PlainRest
  <2>2. CASE rest = Tail(todo[t])
    BY <2>1, <2>2 DEF Begun
  <2>3. CASE Head(todo[t])[1] = "set" /\ rest = <<<<"store", Head(todo[t])[2]>>>> \o Tail(todo[t])
    <3>1. Head(todo[t])[2] \in States
      BY <2>1, <2>3, PlainHead
    <3>2. <<<<"store", Head(todo[t])[2]>>>> \o Tail(todo[t]) \in Seq(PlainSteps)
      BY <2>1, <3>1, PlainStore
    <3> QED BY <2>3, <3>2 DEF Begun
  <2> QED BY <1>1, <1>2, <2>2, <2>3 DEF Follows
<1>4. CASE todo[t] \in {Reconnect, AtSchedule}
  <2>1. Head(todo[t])[1] \in {"stopIfClosed", "schedule"}
    BY <1>4, AtScheduleIs
  <2>2. Begun(Tail(Reconnect)) /\ Begun(Tail(AtSchedule))
    BY AfterSchedule DEF Begun, AtSchedule
  <2> QED BY <1>1, <1>4, <2>1, <2>2 DEF Follows
<1> QED BY <1>3, <1>4 DEF Begun

\* No step of a thread leaves the lists.
LEMMA ListsMove ==
  ASSUME LifeLists, NEW t \in LifeThreads, LifeStep(t)
  PROVE  LifeLists'
<1>1. PICK rest : Follows(t, rest) /\ todo' = [todo EXCEPT ![t] = rest]
  BY DEF LifeStep
<1>2. DOMAIN todo' = LifeThreads /\ todo'[t] = rest
      /\ \A u \in LifeThreads \ {t} : todo'[u] = todo[u]
  BY <1>1 DEF LifeLists
<1>3. "main" \in LifeThreads
  BY DEF LifeThreads
<1>4. \A u \in LifeThreads \ {"main", "block"} : Begun(todo[u])'
  <2>1. ASSUME t \notin {"main", "block"} PROVE Begun(rest)
    BY <1>1, <2>1, BegunMoves DEF LifeLists, LifeStep
  <2> QED BY <1>2, <2>1 DEF LifeLists, Begun
<1>6. todo'["block"] \in Resets
  <2>1. CASE t # "block"
    BY <1>2, <2>1 DEF LifeLists, LifeThreads
  <2>2. CASE t = "block"
    <3> DEFINE l == todo["block"]
    <3>1. l \in Resets /\ l # <<>>
      BY <2>2 DEF LifeLists, LifeStep
    <3>2. Tail(l) \in Resets /\ Head(l)[1] \in {"beginReset", "detach", "endReset"}
      BY <3>1, ResetMoves
    <3>3. rest = Tail(l)
      BY <1>1, <2>2, <3>2 DEF Follows
    <3> QED BY <1>2, <2>2, <3>2, <3>3
  <2> QED BY <2>1, <2>2
<1>7. todo'["video"] \in {<<>>, <<<<"deliver">>>>}
  <2>1. CASE t # "video"
    BY <1>2, <2>1 DEF LifeLists, LifeThreads
  <2>2. CASE t = "video"
    <3> DEFINE d == <<"deliver">>
    <3>1. todo["video"] = <<d>> /\ d[1] = "deliver"
      BY <2>2 DEF LifeLists, LifeStep
    <3> HIDE DEF d
    <3>2. Head(<<d>>) = d /\ Tail(<<d>>) = <<>>
      BY OneStep, NoneLeft
    <3>3. rest = <<>>
      BY <1>1, <2>2, <3>1, <3>2 DEF Follows
    <3> QED BY <1>2, <2>2, <3>3
  <2> QED BY <2>1, <2>2
<1>5. IF closed THEN todo'["main"] \in Closes ELSE todo'["main"] \in Connects
  <2>1. CASE t # "main"
    BY <1>2, <1>3, <2>1 DEF LifeLists
  <2>2. CASE t = "main" /\ closed
    <3> DEFINE l == todo["main"]
    <3>1. l \in Closes /\ l # <<>>
      BY <2>2 DEF LifeLists, LifeStep
    <3>2. Tail(l) \in Closes /\ Head(l)[1] \notin {"stopIfClosed", "schedule", "current", "setRemote"}
      BY <3>1, CloseMoves
    <3>3. rest = Tail(l)
      BY <1>1, <2>2, <3>2 DEF Follows
    <3> QED BY <1>2, <2>2, <3>2, <3>3
  <2>3. CASE t = "main" /\ ~closed
    <3> DEFINE l == todo["main"]
    <3>1. l \in Connects /\ l # <<>>
      BY <2>3 DEF LifeLists, LifeStep
    <3>2. /\ Head(l)[1] \in {"set", "store", "connect"}
          /\ Tail(l) \in Connects
          /\ Head(l)[1] = "set" => <<<<"store", Head(l)[2]>>>> \o Tail(l) \in Connects
      BY <3>1, ConnectMoves
    <3>3. rest \in Connects
      BY <1>1, <2>3, <3>2 DEF Follows
    <3> QED BY <1>2, <2>3, <3>3
  <2> QED BY <2>1, <2>2, <2>3
<1> QED BY <1>2, <1>4, <1>5, <1>6, <1>7 DEF LifeLists, LifeStep

LEMMA ListsStay ==
  ASSUME LifeLists, todo' = todo, pending' = pending, closed' = closed
  PROVE  LifeLists'
BY DEF LifeLists, Begun, Resets

LEMMA ListsDecide ==
  ASSUME LifeLists, NEW t \in LifeThreads \ {"main", "block", "video"}, NEW callbacks \in Seq(DOMAIN Callback),
         Decide(t, callbacks), closed' = closed
  PROVE  LifeLists'
BY DEF LifeLists, Decide, Begun, Resets

\* The decoder's thread and the block get the lists they have.
LEMMA ListsGive ==
  ASSUME LifeLists, NEW l, pending' = pending, closed' = closed,
         \/ l = <<<<"deliver">>>> /\ todo' = [todo EXCEPT !["video"] = l]
         \/ l = AtReset /\ todo' = [todo EXCEPT !["block"] = l]
  PROVE  LifeLists'
<1>1. Begun(<<<<"deliver">>>>)
  BY ArePlain, OfOne DEF Begun
<1>2. {"main", "block", "video"} \subseteq LifeThreads
  BY DEF LifeThreads
<1>3. \A u \in LifeThreads \ {"main", "block"} : Begun(todo'[u])
  BY <1>1, <1>2 DEF LifeLists
<1>4. (\A u \in LifeThreads \ {"main", "block"} : Begun(todo[u]))'
  BY <1>3 DEF Begun
<1>5. todo'["main"] = todo["main"] /\ DOMAIN todo' = LifeThreads
  BY <1>2 DEF LifeLists
<1>6. todo'["video"] \in {<<>>, <<<<"deliver">>>>} /\ todo'["block"] \in Resets
  BY <1>2 DEF LifeLists, Resets
<1> QED BY <1>4, <1>5, <1>6 DEF LifeLists, Resets

LEMMA ListsBegin ==
  ASSUME LifeLists, NEW t \in LifeThreads, Begin(t)
  PROVE  LifeLists'
<1> DEFINE ops == IF enabled THEN Callback[Head(pending[t])] ELSE <<>>
           later == Tail(pending[t])
<1>1. /\ pending[t] # <<>>
      /\ todo' = [todo EXCEPT ![t] = ops] /\ pending' = [pending EXCEPT ![t] = later]
      /\ closed' = closed
  BY DEF Begin, zigVars
<1>2. t \notin {"main", "block", "video"}
  BY <1>1 DEF LifeLists
<1>3. Head(pending[t]) \in DOMAIN Callback /\ later \in Seq(DOMAIN Callback)
  BY <1>1, HeadTailProperties DEF LifeLists
<1>4. Begun(<<>>)
  BY DEF Begun
<1>5. Begun(ops)
  BY <1>3, <1>4, BegunCallbacks
<1> HIDE DEF ops, later
<1>6. \A u \in LifeThreads \ {"main", "block"} : Begun(todo'[u])
  BY <1>1, <1>5 DEF LifeLists
<1>7. \A u \in LifeThreads : pending'[u] \in Seq(DOMAIN Callback)
  BY <1>1, <1>3 DEF LifeLists
<1>8. \A u \in {"main", "block", "video"} : todo'[u] = todo[u] /\ pending'[u] = pending[u]
  BY <1>1, <1>2 DEF LifeLists, LifeThreads
<1>9. DOMAIN todo' = LifeThreads /\ DOMAIN pending' = LifeThreads
  BY <1>1 DEF LifeLists
<1>10. (\A u \in LifeThreads \ {"main", "block"} : Begun(todo[u]))'
  BY <1>6 DEF Begun
<1>11. todo'["block"] \in Resets'
  BY <1>8 DEF LifeLists, Resets
<1> QED BY <1>1, <1>7, <1>8, <1>9, <1>10, <1>11 DEF LifeLists

\* One of the callbacks, or the two of a socket that fails.
LEMMA AreCallbacks ==
  /\ \A c \in DOMAIN Callback : <<c>> \in Seq(DOMAIN Callback)
  /\ <<"error", "ws_closed">> \in Seq(DOMAIN Callback)
<1>1. "error" \in DOMAIN Callback /\ "ws_closed" \in DOMAIN Callback
  BY CallbackNames
<1> QED BY <1>1, OfOne, OfTwo

LEMMA ListsNetwork ==
  ASSUME LifeLists, Network
  PROVE  LifeLists'
<1>1. "monitor" \in LifeThreads \ {"main", "block", "video"}
  BY DEF LifeThreads
<1>2. ASSUME NEW c \in DOMAIN Callback, Decide("monitor", <<c>>), closed' = closed
      PROVE  LifeLists'
  BY <1>1, <1>2, ListsDecide, AreCallbacks
<1>3. CASE WsOpens
  BY <1>2, <1>3, CallbackNames DEF WsOpens, Monitored, zigVars
<1>4. CASE WsCloses
  BY <1>2, <1>4, CallbackNames DEF WsCloses, Monitored, zigVars
<1>5. CASE PeerConnects
  BY <1>2, <1>5, CallbackNames DEF PeerConnects, Monitored, zigVars
<1>6. CASE PeerDisconnects
  BY <1>2, <1>6, CallbackNames DEF PeerDisconnects, Monitored, zigVars
<1>7. CASE PeerFails
  BY <1>2, <1>7, CallbackNames DEF PeerFails, Monitored, zigVars
<1>8. CASE ChannelOpens
  BY <1>2, <1>8, CallbackNames DEF ChannelOpens, ChannelChanges, zigVars
<1>9. CASE ChannelCloses
  BY <1>2, <1>9, CallbackNames DEF ChannelCloses, ChannelChanges, zigVars
<1>10. CASE DataMessage
  BY <1>2, <1>10, CallbackNames DEF DataMessage, Monitored, zigVars
<1>11. CASE FrameDecoded
  <2>1. Callback.frame = <<<<"deliver">>>>
    BY DEF Callback
  <2> QED BY <1>11, <2>1, ListsGive DEF FrameDecoded, zigVars
<1> QED
  BY <1>3, <1>4, <1>5, <1>6, <1>7, <1>8, <1>9, <1>10, <1>11 DEF Network

LEMMA ListsCompletion ==
  ASSUME LifeLists, NEW w \in Workers, Completion(w)
  PROVE  LifeLists'
<1>1. w \in LifeThreads \ {"main", "block", "video"}
  BY LifeAssumption DEF LifeThreads
<1>2. closed' = closed
  BY DEF Completion, LoginAnswered, Receive, SocketFails, NegotiationFails, zigVars
<1>3. ASSUME NEW c \in DOMAIN Callback, Decide(w, <<c>>) PROVE LifeLists'
  BY <1>1, <1>2, <1>3, ListsDecide, AreCallbacks
<1>4. ASSUME Decide(w, <<"error", "ws_closed">>) PROVE LifeLists'
  BY <1>1, <1>2, <1>4, ListsDecide, AreCallbacks
<1>5. CASE LoginAnswered(w)
  <2>1. \/ UNCHANGED <<pending, todo>>
        \/ Decide(w, <<"error">>)
    BY <1>5 DEF LoginAnswered, CallOn
  <2> QED BY <1>2, <1>3, <2>1, ListsStay, CallbackNames
<1>6. CASE Receive(w)
  <2>1. \/ Decide(w, <<"provide">>) \/ Decide(w, <<"offer">>)
        \/ Decide(w, <<"disconnect">>)
    BY <1>6 DEF Receive, CallOn
  <2> QED BY <1>3, <2>1, CallbackNames
<1>7. CASE SocketFails(w)
  BY <1>4, <1>7 DEF SocketFails, CallOn
<1>8. CASE NegotiationFails(w)
  <2>1. Decide(w, <<"error">>)
    BY <1>8 DEF NegotiationFails, CallOn
  <2> QED BY <1>3, <2>1, CallbackNames
<1> QED BY <1>5, <1>6, <1>7, <1>8 DEF Completion

LEMMA ListsBlock ==
  ASSUME LifeLists, BlockStarts \/ BlockFires
  PROVE  LifeLists'
<1>1. "monitor" \in LifeThreads \ {"main", "block", "video"}
  BY DEF LifeThreads
<1>2. closed' = closed
  BY DEF BlockStarts, BlockFires, zigVars
<1>3. CASE BlockStarts
  <2>1. Reset = AtReset
    BY ResetIs
  <2>2. pending' = pending
        /\ (todo' = todo \/ todo' = [todo EXCEPT !["block"] = Reset])
    BY <1>3 DEF BlockStarts
  <2> QED BY <1>1, <1>2, <2>1, <2>2, ListsStay, ListsGive
<1>4. CASE BlockFires
  <2>1. (pending' = pending /\ todo' = todo) \/ Decide("monitor", <<"reconnect_ready">>)
    BY <1>4 DEF BlockFires, Monitored
  <2>2. <<"reconnect_ready">> \in Seq(DOMAIN Callback)
    BY AreCallbacks, CallbackNames
  <2> QED BY <1>1, <1>2, <2>1, <2>2, ListsStay, ListsDecide
<1> QED BY <1>3, <1>4

LEMMA ListsHost ==
  ASSUME LifeLists, LifeFlags, Connect \/ Close \/ Deinit
  PROVE  LifeLists'
<1>1. PICK steps : /\ todo' = [todo EXCEPT !["main"] = steps]
                   /\ IF closed' THEN steps \in Closes ELSE steps \in Connects
  <2>1. CASE Connect
    BY <2>1 DEF Connect, Host, Connects
  <2>2. CASE Close
    BY <2>2 DEF Close, Host, Closes
  <2>3. CASE Deinit
    BY <2>3 DEF Deinit, Host, Closes, Closing, Disabled, Drained, Detached, Returned, AtDestroy
  <2> QED BY <2>1, <2>2, <2>3
<1>2. pending' = pending
  BY DEF Connect, Close, Deinit, Host
<1>3. "main" \in LifeThreads
  BY DEF LifeThreads
<1>4. \A u \in LifeThreads \ {"main", "block"} : Begun(todo[u])'
  BY <1>1 DEF LifeLists, Begun
<1>6. todo'["block"] \in Resets' /\ todo'["video"] = todo["video"]
  BY <1>1 DEF LifeLists, LifeThreads, Resets
<1>5. todo'["main"] = steps /\ DOMAIN todo' = LifeThreads
  BY <1>1, <1>3 DEF LifeLists
<1> QED BY <1>1, <1>2, <1>4, <1>5, <1>6 DEF LifeLists

LEMMA ListsStep ==
  ASSUME LifeLists, LifeFlags, LifeNext
  PROVE  LifeLists'
<1>1. CASE \E t \in LifeThreads : Run(t)
  <2>1. PICK t \in LifeThreads : Run(t)
    BY <1>1
  <2> QED BY <2>1, ListsBegin, ListsMove, IsLifeStep DEF Run
<1>2. CASE OpenWebSocket
  BY <1>2, ListsStay DEF OpenWebSocket, zigVars
<1> QED
  BY <1>1, <1>2, ListsCompletion, ListsNetwork, ListsBlock, ListsHost DEF LifeNext

-----------------------------------------------------------------------------
(* What the steps change and what they leave behind.                        *)

First(t) == Head(todo[t])[1]

\* The flags and the transport, in any step of a thread.
ThreadKeeps(t) ==
  /\ closing' = closing \/ (First(t) = "nativeClosing" /\ closing' = TRUE)
  /\ enabled' = enabled \/ (First(t) = "disable" /\ enabled' = FALSE)
  /\ sink' = sink \/ sink' = FALSE
  /\ \/ scheduled' = scheduled
     \/ First(t) = "schedule" /\ scheduled' = TRUE
     \/ First(t) = "clear" /\ scheduled' = FALSE
  /\ \/ nativeScheduled' = nativeScheduled /\ block' = block
     \/ /\ First(t) = "nativeSchedule" /\ ~nativeScheduled
        /\ nativeScheduled' = TRUE /\ block' = "queued"
  /\ \/ resetting' = resetting
     \/ First(t) = "beginReset" /\ resetting' = TRUE
     \/ First(t) = "endReset" /\ resetting' = FALSE
  /\ closing /\ NoLinks => NoLinks'

\* What is so after a step, by its name.
ThreadLeaves(t) ==
  /\ First(t) = "nativeClosing" => closing' = TRUE
  /\ First(t) = "disable" => enabled' = FALSE
  /\ First(t) = "drain" => ~InFlight
  /\ First(t) = "detach" => NoLinks'
  /\ First(t) = "endReset" => sink' = FALSE /\ todo["video"] = <<>> /\ resetting' = FALSE
  /\ First(t) = "schedule" => scheduled \/ todo' = [todo EXCEPT ![t] = Tail(todo[t])]
  /\ First(t) = "clear" => scheduled' = FALSE
  /\ First(t) = "nativeSchedule" => closing \/ nativeScheduled \/ nativeScheduled' = TRUE

\* Of the 22 steps, what each changes and leaves.
LEMMA ThreadSteps ==
  ASSUME NEW t \in LifeThreads, ZigStep(t) \/ BridgeStep(t) \/ TeardownStep(t)
  PROVE  ThreadKeeps(t) /\ ThreadLeaves(t)
<1>1. CASE InvalidateTransport(t)
  BY <1>1 DEF InvalidateTransport, At, First, ThreadKeeps, ThreadLeaves, NoLinks, zigVars, nativeVars, linkVars
<1>2. CASE SetLifecycle(t)
  BY <1>2 DEF SetLifecycle, At, First, ThreadKeeps, ThreadLeaves, NoLinks, zigVars, nativeVars, linkVars
<1>3. CASE StoreLifecycle(t)
  BY <1>3 DEF StoreLifecycle, At, First, ThreadKeeps, ThreadLeaves, NoLinks, zigVars, nativeVars, linkVars
<1>4. CASE StopIfClosed(t)
  BY <1>4 DEF StopIfClosed, At, First, ThreadKeeps, ThreadLeaves, NoLinks, zigVars, nativeVars, linkVars
<1>5. CASE Schedule(t)
  BY <1>5 DEF Schedule, At, First, ThreadKeeps, ThreadLeaves, NoLinks, zigVars, nativeVars, linkVars, Goto
<1>6. CASE ClearScheduled(t)
  BY <1>6 DEF ClearScheduled, At, First, ThreadKeeps, ThreadLeaves, NoLinks, zigVars, nativeVars, linkVars
<1>7. CASE OpenData(t)
  BY <1>7 DEF OpenData, At, First, ThreadKeeps, ThreadLeaves, NoLinks, zigVars, nativeVars, linkVars
<1>8. CASE Observe(t)
  BY <1>8 DEF Observe, At, First, ThreadKeeps, ThreadLeaves, NoLinks, zigVars, nativeVars, linkVars
<1>9. CASE Deliver(t)
  BY <1>9 DEF Deliver, At, First, ThreadKeeps, ThreadLeaves, NoLinks, zigVars, nativeVars, linkVars
<1>10. CASE NativeSchedule(t)
  BY <1>10 DEF NativeSchedule, At, First, ThreadKeeps, ThreadLeaves, NoLinks, zigVars, nativeVars, linkVars
<1>11. CASE NativeConnect(t)
  BY <1>11 DEF NativeConnect, At, First, ThreadKeeps, ThreadLeaves, NoLinks, zigVars, nativeVars, linkVars
<1>12. CASE Request(t)
  BY <1>12 DEF Request, At, First, ThreadKeeps, ThreadLeaves, NoLinks, zigVars, nativeVars, linkVars
<1>13. CASE StillCurrent(t)
  BY <1>13 DEF StillCurrent, At, First, ThreadKeeps, ThreadLeaves, NoLinks, zigVars, nativeVars, linkVars
<1>14. CASE CreatePeer(t)
  BY <1>14 DEF CreatePeer, At, First, ThreadKeeps, ThreadLeaves, NoLinks, zigVars, nativeVars, linkVars, CanAdopt
<1>15. CASE SetRemote(t)
  BY <1>15 DEF SetRemote, At, First, ThreadKeeps, ThreadLeaves, NoLinks, zigVars, nativeVars, linkVars
<1>16. CASE NativeClosing(t)
  BY <1>16 DEF NativeClosing, At, First, ThreadKeeps, ThreadLeaves, NoLinks, zigVars, nativeVars, linkVars
<1>17. CASE Disable(t)
  BY <1>17 DEF Disable, At, First, ThreadKeeps, ThreadLeaves, NoLinks, zigVars, nativeVars, linkVars
<1>18. CASE Drain(t)
  BY <1>18 DEF Drain, At, Blocked, First, ThreadKeeps, ThreadLeaves, NoLinks, zigVars, nativeVars, linkVars
<1>19. CASE BeginReset(t)
  BY <1>19 DEF BeginReset, At, First, ThreadKeeps, ThreadLeaves, NoLinks, zigVars, nativeVars, linkVars
<1>20. CASE Detach(t)
  BY <1>20 DEF Detach, At, First, ThreadKeeps, ThreadLeaves, NoLinks, zigVars, nativeVars, linkVars
<1>21. CASE EndReset(t)
  BY <1>21 DEF EndReset, ResetDone, At, First, ThreadKeeps, ThreadLeaves, NoLinks, zigVars, nativeVars, linkVars, Blocked
<1>22. CASE Destroy(t)
  BY <1>22 DEF Destroy, At, First, ThreadKeeps, ThreadLeaves, NoLinks, zigVars, nativeVars, linkVars
<1> QED
  BY <1>1, <1>2, <1>3, <1>4, <1>5, <1>6, <1>7, <1>8, <1>9, <1>10, <1>11, <1>12, <1>13, <1>14, <1>15, <1>16, <1>17, <1>18, <1>19, <1>20, <1>21, <1>22
  DEF ZigStep, BridgeStep, TeardownStep

LEMMA FlagsStep ==
  ASSUME LifeFlags, LifeNext
  PROVE  LifeFlags'
<1>1. CASE \E t \in LifeThreads : Run(t)
  <2>1. PICK t \in LifeThreads : Run(t)
    BY <1>1
  <2>2. CASE Begin(t)
    BY <2>2 DEF Begin, LifeFlags, zigVars, nativeVars
  <2>3. CASE ZigStep(t) \/ BridgeStep(t) \/ TeardownStep(t)
    BY <2>3, ThreadSteps, IsLifeStep DEF ThreadKeeps, LifeStep, LifeFlags
  <2> QED BY <2>1, <2>2, <2>3 DEF Run
<1>2. CASE \E w \in Workers : Completion(w)
  BY <1>2 DEF Completion, LoginAnswered, Receive, SocketFails, NegotiationFails, LifeFlags,
              zigVars, nativeVars
<1>3. CASE BlockStarts
  BY <1>3 DEF BlockStarts, LifeFlags, zigVars
<1>4. CASE BlockFires
  BY <1>4 DEF BlockFires, BlockDone, LifeFlags, zigVars
<1>5. CASE OpenWebSocket
  BY <1>5 DEF OpenWebSocket, LifeFlags, zigVars, nativeVars
<1>6. CASE Network
  BY <1>6 DEF Network, WsOpens, WsCloses, PeerConnects, PeerDisconnects, PeerFails, ChannelOpens,
              ChannelCloses, ChannelChanges, DataMessage, FrameDecoded, LifeFlags, zigVars, nativeVars
<1>7. CASE Connect \/ Close \/ Deinit
  BY <1>7 DEF Connect, Close, Deinit, Host, LifeFlags, nativeVars
<1> QED BY <1>1, <1>2, <1>3, <1>4, <1>5, <1>6, <1>7 DEF LifeNext

\* How far a list of close is.
LEMMA CloseStages ==
  /\ CloseSteps \notin Closing /\ AtStore \notin Closing /\ AtClosing \notin Closing
  /\ AtDisable \notin Disabled /\ AtDrain \notin Drained
  /\ AtReset \notin Detached /\ AtDetach \notin Detached /\ AtEndReset \notin Returned
<1>1. AtEndReset \notin Returned
  BY CloseHeads DEF Returned
<1>2. AtReset \notin Detached /\ AtDetach \notin Detached
  BY CloseHeads DEF Returned, Detached
<1>3. AtDrain \notin Drained
  BY CloseHeads DEF Returned, Detached, Drained
<1>4. AtDisable \notin Disabled
  BY CloseHeads DEF Returned, Detached, Drained, Disabled
<1>5. CloseSteps \notin Closing
  BY CloseHeads DEF Returned, Detached, Drained, Disabled, Closing
<1>6. AtStore \notin Closing
  BY CloseHeads DEF Returned, Detached, Drained, Disabled, Closing
<1>7. AtClosing \notin Closing
  BY CloseHeads DEF Returned, Detached, Drained, Disabled, Closing
<1> QED BY <1>1, <1>2, <1>3, <1>4, <1>5, <1>6, <1>7

LEMMA StagesNest ==
  /\ Returned \subseteq Detached /\ Detached \subseteq Drained
  /\ Drained \subseteq Disabled /\ Disabled \subseteq Closing
BY DEF Detached, Drained, Disabled, Closing

\* A callback, a completion or the block closes nothing.
LEMMA BegunFirst ==
  ASSUME NEW t, Begun(todo[t]), todo[t] # <<>>
  PROVE  First(t) \in PlainNames \cup {"schedule"}
<1>1. CASE todo[t] \in Seq(PlainSteps)
  BY <1>1, PlainRest, PlainHead DEF First
<1>2. CASE todo[t] \in {Reconnect, AtSchedule}
  BY <1>2, AtScheduleIs DEF First, PlainNames
<1> QED BY <1>1, <1>2 DEF Begun

LEMMA OtherFirst ==
  ASSUME LifeLists, NEW t \in LifeThreads \ {"main"}, todo[t] # <<>>
  PROVE  IF t = "block" THEN First(t) \in {"beginReset", "detach", "endReset"}
                        ELSE First(t) \in PlainNames \cup {"schedule"}
BY BegunFirst, ResetMoves DEF LifeLists, First

\* What close has reached, it keeps, in a step that is not its own.
Reached ==
  /\ closed /\ todo["main"] \in Closing => closing
  /\ closed /\ todo["main"] \in Disabled => ~enabled
  /\ closed /\ todo["main"] \in Drained => ~InFlight
  /\ closed /\ todo["main"] \in Detached => NoLinks
  /\ closed /\ todo["main"] \in Returned => ~sink /\ todo["video"] = <<>>

Order ==
  /\ ~closed => ~closing /\ enabled
  /\ ~enabled => closing

LEMMA CloseParts == LifeFlags => (CloseLeaves <=> Reached /\ Order)
BY DEF CloseLeaves, Reached, Order, LifeFlags

\* Closing comes first, then the callbacks are off.
LEMMA OrderStep ==
  ASSUME LifeLists, LifeFlags, CloseLeaves, NEW t \in LifeThreads, LifeStep(t),
         ThreadKeeps(t), ThreadLeaves(t)
  PROVE  Order'
<1>1. closed' = closed
  BY DEF LifeStep
<1>2. CASE t # "main"
  <2>1. First(t) \notin {"nativeClosing", "disable"}
    BY <1>2, OtherFirst DEF LifeStep, PlainNames
  <2> QED BY <1>1, <2>1 DEF ThreadKeeps, CloseLeaves, Order
<1>3. CASE t = "main" /\ ~closed
  <2>1. First(t) \notin {"nativeClosing", "disable"}
    BY <1>3, ConnectMoves DEF LifeLists, LifeStep, First
  <2>2. closing' = closing /\ enabled' = enabled
    BY <2>1 DEF ThreadKeeps
  <2> QED BY <1>1, <1>3, <2>2 DEF CloseLeaves, Order, LifeFlags
<1>4. CASE t = "main" /\ closed
  <2>1. First(t) = "disable" => todo["main"] = AtDisable
    <3>1. todo["main"] \in Closes /\ todo["main"] # <<>>
      BY <1>4 DEF LifeLists, LifeStep
    <3> QED BY <1>4, <3>1, CloseHeads DEF First, Closes, Closing, Disabled, Drained, Detached, Returned
  <2>2. First(t) = "disable" => closing
    BY <1>4, <2>1 DEF CloseLeaves, Closing
  <2> QED BY <1>1, <1>4, <2>2 DEF ThreadKeeps, CloseLeaves, Order, LifeFlags
<1> QED BY <1>2, <1>3, <1>4

LEMMA ReachedByOther ==
  ASSUME LifeLists, LifeFlags, CloseLeaves, NEW t \in LifeThreads \ {"main"}, LifeStep(t),
         ThreadKeeps(t)
  PROVE  Reached'
<1>1. First(t) \notin {"nativeClosing", "disable"}
  BY OtherFirst DEF LifeStep, PlainNames
<1>2. closed' = closed /\ closing' = closing /\ enabled' = enabled
  BY <1>1 DEF LifeStep, ThreadKeeps
<1>3. PICK rest : todo' = [todo EXCEPT ![t] = rest]
  BY DEF LifeStep
<1>4. \A u \in LifeThreads \ {t} : todo'[u] = todo[u]
  BY <1>3 DEF LifeLists
<1>5. todo'["main"] = todo["main"]
  BY <1>4 DEF LifeThreads
<1>6. closed' /\ todo'["main"] \in Drained => ~InFlight'
  <2> SUFFICES ASSUME closed, todo["main"] \in Drained PROVE ~InFlight'
    BY <1>2, <1>5
  <2>1. ~InFlight
    BY DEF CloseLeaves
  <2>2. t \notin {"monitor"} \cup Workers
    BY <2>1 DEF InFlight, LifeStep
  <2>3. \A u \in {"monitor"} \cup Workers : todo'[u] = todo[u]
    BY <1>4, <2>2 DEF LifeThreads
  <2> QED BY <2>1, <2>3 DEF InFlight
<1>7. closed' /\ todo'["main"] \in Detached => NoLinks'
  BY <1>2, <1>5, StagesNest DEF CloseLeaves, ThreadKeeps
<1>8. closed' /\ todo'["main"] \in Returned => ~sink' /\ todo'["video"] = <<>>
  <2> SUFFICES ASSUME closed, todo["main"] \in Returned PROVE ~sink' /\ todo'["video"] = <<>>
    BY <1>2, <1>5
  <2>1. ~sink /\ todo["video"] = <<>>
    BY DEF CloseLeaves
  <2>2. t # "video" /\ "video" \in LifeThreads
    BY <2>1 DEF LifeStep, LifeThreads
  <2> QED BY <1>4, <2>1, <2>2 DEF ThreadKeeps
<1>9. closed' /\ todo'["main"] \in Closing => closing'
  BY <1>2, <1>5 DEF CloseLeaves
<1>10. closed' /\ todo'["main"] \in Disabled => ~enabled'
  BY <1>2, <1>5 DEF CloseLeaves
<1> QED
  BY <1>6, <1>7, <1>8, <1>9, <1>10
  DEF Reached, Closing, Disabled, Drained, Detached, Returned

\* Every step of close leaves what the next ones rely on.
LEMMA ReachedByMain ==
  ASSUME LifeLists, LifeFlags, CloseLeaves, LifeStep("main"), ThreadKeeps("main"),
         ThreadLeaves("main")
  PROVE  Reached'
<1> DEFINE m == todo["main"]
<1>1. closed' = closed /\ m # <<>>
  BY DEF LifeStep
<1> SUFFICES ASSUME closed PROVE Reached'
  BY <1>1 DEF Reached
<1>2. m \in Closes
  BY DEF LifeLists
<1>3. Head(m)[1] \notin {"stopIfClosed", "schedule", "current", "set", "setRemote"}
  BY <1>1, <1>2, CloseMoves
<1>4. todo' = [todo EXCEPT !["main"] = Tail(m)]
  BY <1>3 DEF LifeStep, Follows
<1>5. todo'["main"] = Tail(m) /\ \A u \in LifeThreads \ {"main"} : todo'[u] = todo[u]
  BY <1>4 DEF LifeLists, LifeThreads
<1>6. InFlight' = InFlight /\ todo'["video"] = todo["video"]
  BY <1>5, LifeAssumption DEF InFlight, LifeThreads
<1> DEFINE n == todo'["main"]
<1>7. CASE m = CloseSteps \/ m = AtStore
  <2>1. n \notin Closing
    BY <1>5, <1>7, CloseRests, CloseStages
  <2> QED BY <2>1, StagesNest DEF Reached
<1>8. CASE m = AtClosing
  <2>1. n = AtDisable /\ First("main") = "nativeClosing"
    BY <1>5, <1>8, CloseRests, CloseHeads DEF First
  <2>2. closing' = TRUE
    BY <2>1 DEF ThreadLeaves
  <2> QED BY <2>1, <2>2, CloseStages, StagesNest DEF Reached
<1>9. CASE m = AtDisable
  <2>1. n = AtDrain /\ First("main") = "disable"
    BY <1>5, <1>9, CloseRests, CloseHeads DEF First
  <2>2. enabled' = FALSE
    BY <2>1 DEF ThreadLeaves
  <2>3. closing
    BY <1>9 DEF CloseLeaves, Closing
  <2>4. closing'
    BY <2>3 DEF ThreadKeeps, LifeFlags
  <2> QED BY <2>1, <2>2, <2>4, CloseStages, StagesNest DEF Reached
<1> DEFINE Kept == closing' /\ ~enabled'
<1>10. ASSUME m \in Disabled PROVE Kept
  <2>1. closing /\ ~enabled
    BY <1>10, StagesNest DEF CloseLeaves
  <2>2. closing'
    BY <2>1 DEF ThreadKeeps, LifeFlags
  <2>3. ~enabled'
    BY <2>1 DEF ThreadKeeps, LifeFlags
  <2> QED BY <2>2, <2>3
<1>11. CASE m = AtDrain
  <2>1. n = AtReset /\ First("main") = "drain"
    BY <1>5, <1>11, CloseRests, CloseHeads DEF First
  <2>2. ~InFlight'
    BY <1>6, <2>1 DEF ThreadLeaves
  <2>3. Kept
    BY <1>10, <1>11 DEF Disabled
  <2> QED BY <2>1, <2>2, <2>3, CloseStages, StagesNest DEF Reached
<1>12. ASSUME m \in Drained PROVE Kept /\ ~InFlight'
  <2>1. ~InFlight
    BY <1>12 DEF CloseLeaves
  <2> QED BY <1>6, <1>10, <1>12, <2>1, StagesNest
<1>13. CASE m = AtReset
  <2>1. n = AtDetach
    BY <1>5, <1>13, CloseRests
  <2>2. Kept /\ ~InFlight'
    BY <1>12, <1>13 DEF Drained
  <2> QED BY <2>1, <2>2, CloseStages, StagesNest DEF Reached
<1>14. CASE m = AtDetach
  <2>1. n = AtEndReset /\ First("main") = "detach"
    BY <1>5, <1>14, CloseRests, CloseHeads DEF First
  <2>2. NoLinks'
    BY <2>1 DEF ThreadLeaves
  <2>3. Kept /\ ~InFlight'
    BY <1>12, <1>14 DEF Drained
  <2> QED BY <2>1, <2>2, <2>3, CloseStages, StagesNest DEF Reached
<1>15. ASSUME m \in Detached PROVE Kept /\ ~InFlight' /\ NoLinks'
  <2>1. closing /\ NoLinks
    BY <1>15, StagesNest DEF CloseLeaves
  <2> QED BY <1>12, <1>15, <2>1, StagesNest DEF ThreadKeeps
<1>16. CASE m = AtEndReset
  <2>1. n = <<>> /\ First("main") = "endReset"
    BY <1>5, <1>16, CloseRests, CloseHeads DEF First
  <2>2. sink' = FALSE /\ todo'["video"] = <<>>
    BY <1>6, <2>1 DEF ThreadLeaves
  <2>3. Kept /\ ~InFlight' /\ NoLinks'
    BY <1>15, <1>16 DEF Detached
  <2> QED BY <2>2, <2>3 DEF Reached
<1>17. CASE m = AtDestroy
  <2>1. ~sink /\ todo["video"] = <<>>
    BY <1>17 DEF CloseLeaves, Returned
  <2>2. ~sink' /\ todo'["video"] = <<>>
    BY <1>6, <2>1 DEF ThreadKeeps
  <2>3. Kept /\ ~InFlight' /\ NoLinks'
    BY <1>15, <1>17 DEF Detached, Returned
  <2> QED BY <2>2, <2>3 DEF Reached
<1> QED
  BY <1>1, <1>2, <1>7, <1>8, <1>9, <1>11, <1>13, <1>14, <1>16, <1>17
  DEF Closes, Closing, Disabled, Drained, Detached, Returned

LEMMA ReachedByBegin ==
  ASSUME LifeLists, LifeFlags, CloseLeaves, NEW t \in LifeThreads, Begin(t)
  PROVE  Reached' /\ Order'
<1>1. /\ closed' = closed /\ closing' = closing /\ enabled' = enabled /\ sink' = sink
      /\ login' = login /\ ws' = ws /\ peer' = peer /\ lifeChannel' = lifeChannel
  BY DEF Begin, zigVars, nativeVars, linkVars
<1>2. t # "main" /\ todo[t] = <<>>
  BY DEF Begin, LifeLists
<1>3. PICK ops : todo' = [todo EXCEPT ![t] = ops] /\ (~enabled => ops = <<>>)
  BY DEF Begin
<1>4. todo'["main"] = todo["main"]
  BY <1>2, <1>3 DEF LifeLists, LifeThreads
<1>5. ASSUME ~enabled PROVE \A u \in LifeThreads : todo'[u] = todo[u]
  BY <1>2, <1>3, <1>5 DEF LifeLists
<1>6. ~enabled => InFlight' = InFlight /\ todo'["video"] = todo["video"]
  BY <1>5 DEF InFlight, LifeThreads
<1>7. NoLinks' = NoLinks
  BY <1>1 DEF NoLinks
<1>8. Order'
  BY <1>1 DEF CloseLeaves, Order
<1>9. Reached'
  BY <1>1, <1>4, <1>6, <1>7, StagesNest DEF CloseLeaves, Reached
<1> QED BY <1>8, <1>9

\* The network, its delegates and the block find the session closing.
OthersKeep ==
  /\ closed' = closed /\ closing' = closing /\ enabled' = enabled
  /\ closing => sink' = sink /\ (NoLinks => NoLinks')
  /\ \A u \in {"main", "monitor"} \cup Workers : todo'[u] = todo[u]
  /\ closing /\ ~sink => todo'["video"] = todo["video"]

LEMMA Others ==
  ASSUME LifeLists,
         \/ \E w \in Workers : Completion(w)
         \/ BlockStarts \/ BlockFires \/ OpenWebSocket \/ Network
  PROVE  OthersKeep
<1>1. CASE \E w \in Workers : Completion(w)
  <2>1. PICK w \in Workers : Completion(w)
    BY <1>1
  <2>2. ~closing /\ todo' = todo
    BY <2>1 DEF Completion, LoginAnswered, Receive, SocketFails, NegotiationFails, CallOn, Decide
  <2>3. closed' = closed /\ closing' = closing /\ enabled' = enabled
    BY <2>1 DEF Completion, LoginAnswered, Receive, SocketFails, NegotiationFails,
                zigVars, nativeVars
  <2> QED BY <2>2, <2>3 DEF OthersKeep
<1>2. CASE BlockStarts
  <2>1. closed' = closed /\ closing' = closing /\ enabled' = enabled /\ sink' = sink
    BY <1>2 DEF BlockStarts, zigVars
  <2>2. NoLinks' = NoLinks
    BY <1>2 DEF BlockStarts, linkVars, NoLinks
  <2>3. \A u \in LifeThreads \ {"block"} : todo'[u] = todo[u]
    BY <1>2 DEF BlockStarts, LifeLists
  <2> QED BY <2>1, <2>2, <2>3, LifeAssumption DEF OthersKeep, LifeThreads
<1>3. CASE BlockFires
  <2>1. closed' = closed /\ closing' = closing /\ enabled' = enabled /\ (closing => sink' = sink)
    BY <1>3 DEF BlockFires, zigVars
  <2>2. NoLinks' = NoLinks /\ todo' = todo
    BY <1>3 DEF BlockFires, Monitored, Decide, linkVars, NoLinks
  <2> QED BY <2>1, <2>2 DEF OthersKeep
<1>4. CASE OpenWebSocket
  BY <1>4 DEF OpenWebSocket, OthersKeep, zigVars, nativeVars
<1>5. CASE Network
  <2>1. closed' = closed /\ closing' = closing /\ enabled' = enabled /\ sink' = sink
    BY <1>5 DEF Network, WsOpens, WsCloses, PeerConnects, PeerDisconnects, PeerFails, ChannelOpens,
                ChannelCloses, ChannelChanges, DataMessage, FrameDecoded, zigVars, nativeVars
  <2>2. CASE FrameDecoded
    <3>1. sink /\ \A u \in LifeThreads \ {"video"} : todo'[u] = todo[u]
      BY <2>2 DEF FrameDecoded, LifeLists
    <3>2. NoLinks' = NoLinks
      BY <2>2 DEF FrameDecoded, linkVars, NoLinks
    <3> QED BY <2>1, <3>1, <3>2, LifeAssumption DEF OthersKeep, LifeThreads
  <2>3. CASE WsOpens \/ WsCloses \/ PeerConnects \/ PeerDisconnects \/ PeerFails \/ DataMessage
    <3>1. ~closing /\ todo' = todo
      BY <2>3 DEF WsOpens, WsCloses, PeerConnects, PeerDisconnects, PeerFails, DataMessage,
                  Monitored, Decide
    <3> QED BY <2>1, <3>1 DEF OthersKeep
  <2>4. CASE ChannelOpens \/ ChannelCloses
    <3>1. ~NoLinks /\ todo' = todo
      BY <2>4 DEF ChannelOpens, ChannelCloses, ChannelChanges, Decide, NoLinks
    <3> QED BY <2>1, <3>1 DEF OthersKeep
  <2> QED BY <1>5, <2>2, <2>3, <2>4 DEF Network
<1> QED BY <1>1, <1>2, <1>3, <1>4, <1>5

LEMMA ReachedByOthers ==
  ASSUME CloseLeaves, OthersKeep
  PROVE  Reached' /\ Order'
<1>1. Order'
  BY DEF OthersKeep, CloseLeaves, Order
<1>2. InFlight' = InFlight /\ todo'["main"] = todo["main"]
  BY DEF OthersKeep, InFlight
<1>3. closed' = closed /\ closing' = closing /\ enabled' = enabled
  BY DEF OthersKeep
<1>4. closed' /\ todo'["main"] \in Detached => NoLinks'
  BY <1>2, <1>3, StagesNest DEF OthersKeep, CloseLeaves
<1>5. closed' /\ todo'["main"] \in Returned => ~sink' /\ todo'["video"] = <<>>
  BY <1>2, <1>3, StagesNest DEF OthersKeep, CloseLeaves
<1>6. Reached'
  BY <1>2, <1>3, <1>4, <1>5 DEF CloseLeaves, Reached
<1> QED BY <1>1, <1>6

LEMMA ReachedByHost ==
  ASSUME LifeLists, CloseLeaves, Connect \/ Close \/ Deinit
  PROVE  Reached' /\ Order'
<1>1. /\ closing' = closing /\ enabled' = enabled /\ sink' = sink
      /\ login' = login /\ ws' = ws /\ peer' = peer /\ lifeChannel' = lifeChannel
  BY DEF Connect, Close, Deinit, Host, nativeVars, linkVars
<1>2. CASE Connect
  <2>1. ~closed /\ ~closed'
    BY <1>2 DEF Connect
  <2> QED BY <1>1, <2>1 DEF CloseLeaves, Reached, Order
<1>3. CASE Close
  <2>1. closed' /\ todo'["main"] = CloseSteps
    BY <1>3 DEF Close, Host, LifeLists, LifeThreads
  <2>2. Order'
    BY <1>1, <2>1 DEF CloseLeaves, Order
  <2> QED BY <2>1, <2>2, CloseStages, StagesNest DEF Reached
<1>4. CASE Deinit
  <2>1. closed /\ closed' /\ todo["main"] = <<>>
    BY <1>4 DEF Deinit, Host
  <2>2. \A u \in LifeThreads \ {"main"} : todo'[u] = todo[u]
    BY <1>4 DEF Deinit, Host, LifeLists
  <2>3. InFlight' = InFlight /\ todo'["video"] = todo["video"]
    BY <2>2, LifeAssumption DEF InFlight, LifeThreads
  <2>4. todo["main"] \in Returned
    BY <2>1 DEF Returned
  <2>5. closing /\ ~enabled /\ ~InFlight /\ NoLinks /\ ~sink /\ todo["video"] = <<>>
    BY <2>1, <2>4, StagesNest DEF CloseLeaves
  <2>6. NoLinks'
    BY <1>1, <2>5 DEF NoLinks
  <2> QED BY <1>1, <2>1, <2>3, <2>5, <2>6 DEF Reached, Order
<1> QED BY <1>2, <1>3, <1>4

\* What close has reached is kept by every step there is.
LEMMA CloseStep ==
  ASSUME LifeLists, LifeFlags, CloseLeaves, LifeNext
  PROVE  CloseLeaves'
<1>1. Reached' /\ Order'
  <2>1. CASE \E t \in LifeThreads : Run(t)
    <3>1. PICK t \in LifeThreads : Run(t)
      BY <2>1
    <3>2. CASE Begin(t)
      BY <3>2, ReachedByBegin
    <3>3. CASE ZigStep(t) \/ BridgeStep(t) \/ TeardownStep(t)
      <4>1. LifeStep(t) /\ ThreadKeeps(t) /\ ThreadLeaves(t)
        BY <3>3, IsLifeStep, ThreadSteps
      <4>2. Order'
        BY <4>1, OrderStep
      <4>3. Reached'
        BY <4>1, ReachedByOther, ReachedByMain
      <4> QED BY <4>2, <4>3
    <3> QED BY <3>1, <3>2, <3>3 DEF Run
  <2>2. CASE Connect \/ Close \/ Deinit
    BY <2>2, ReachedByHost
  <2>3. CASE \/ \E w \in Workers : Completion(w)
             \/ BlockStarts \/ BlockFires \/ OpenWebSocket \/ Network
    BY <2>3, Others, ReachedByOthers
  <2> QED BY <2>1, <2>2, <2>3 DEF LifeNext
<1>2. LifeFlags'
  BY FlagsStep
<1>3. (LifeFlags => (CloseLeaves <=> Reached /\ Order))'
  BY CloseParts, PTL
<1> QED BY <1>1, <1>2, <1>3

-----------------------------------------------------------------------------
(* The mark of a reconnect.                                                 *)

AnotherComes ==
  \/ nativeScheduled
  \/ \E t \in LifeThreads : todo[t] \in Underway
  \/ pending["monitor"] # <<>> /\ Head(pending["monitor"]) = "reconnect_ready"

Marks ==
  /\ nativeScheduled <=> block # "none"
  /\ scheduled => AnotherComes

LEMMA MarkParts == MarkIsCarried <=> (~closing => Marks)
BY DEF MarkIsCarried, Marks, AnotherComes

\* A list that carries the mark goes on carrying it until it hands it over.
LEMMA UnderwayMoves ==
  ASSUME NEW t, todo[t] \in Underway, NEW rest, Follows(t, rest)
  PROVE  /\ todo[t] # <<>>
         /\ First(t) \notin {"schedule"}
         /\ First(t) \in {"clear", "nativeSchedule"} \/ rest \in Underway
<1>1. CASE todo[t] = AtInvalidate
  <2>1. Head(todo[t])[1] = "invalidate" /\ Tail(todo[t]) = AtSet /\ todo[t] # <<>>
    BY <1>1, UnderwayRests
  <2>2. rest = AtSet
    BY <2>1 DEF Follows
  <2> QED BY <2>1, <2>2 DEF Underway, First
<1>2. CASE todo[t] = AtStored
  <2>1. Head(todo[t])[1] = "store" /\ Tail(todo[t]) = AtNative /\ todo[t] # <<>>
    BY <1>2, UnderwayRests
  <2>2. rest = AtNative
    BY <2>1 DEF Follows
  <2> QED BY <2>1, <2>2 DEF Underway, First
<1>3. CASE todo[t] = Ready
  <2>1. Head(todo[t])[1] = "invalidate" /\ Tail(todo[t]) = AtClear /\ todo[t] # <<>>
    BY <1>3, UnderwayRests
  <2>2. rest = AtClear
    BY <2>1 DEF Follows
  <2> QED BY <2>1, <2>2 DEF Underway, First
<1>4. CASE todo[t] = AtSet
  <2>1. Head(todo[t]) = <<"set", "reconnecting">> /\ Tail(todo[t]) = AtNative /\ todo[t] # <<>>
    BY <1>4, UnderwayRests
  <2>2. Head(todo[t])[1] = "set" /\ Head(todo[t])[2] = "reconnecting"
    BY <2>1
  <2>3. rest = AtNative \/ rest = <<<<"store", "reconnecting">>>> \o AtNative
    BY <2>1, <2>2 DEF Follows
  <2>4. rest \in Underway
    BY <2>3, UnderwayRests DEF Underway
  <2> QED BY <2>1, <2>2, <2>4 DEF First
<1>5. CASE todo[t] = AtNative
  BY <1>5, UnderwayRests DEF First
<1>6. CASE todo[t] = AtClear
  BY <1>6, UnderwayRests DEF First
<1> QED BY <1>1, <1>2, <1>3, <1>4, <1>5, <1>6 DEF Underway

LEMMA UnderwayIsSomething == <<>> \notin Underway
BY UnderwayHas

LEMMA MarkByThread ==
  ASSUME LifeLists, LifeFlags, CloseLeaves, Marks, ~closing,
         NEW t \in LifeThreads, LifeStep(t), ThreadKeeps(t), ThreadLeaves(t)
  PROVE  Marks'
<1>1. PICK rest : Follows(t, rest) /\ todo' = [todo EXCEPT ![t] = rest]
  BY DEF LifeStep
<1>2. todo'[t] = rest /\ \A u \in LifeThreads \ {t} : todo'[u] = todo[u]
  BY <1>1 DEF LifeLists
<1>3. pending' = pending
  BY DEF LifeStep
<1>4. nativeScheduled => nativeScheduled'
  BY DEF ThreadKeeps, LifeFlags
<1>5. (nativeScheduled <=> block # "none")'
  BY DEF ThreadKeeps, LifeFlags, Marks
<1>6. ASSUME AnotherComes, First(t) # "clear" PROVE AnotherComes'
  <2>1. ASSUME NEW u \in LifeThreads, todo[u] \in Underway PROVE AnotherComes'
    <3>1. CASE u # t
      BY <1>2, <2>1, <3>1 DEF AnotherComes, Underway
    <3>2. CASE u = t
      <4>1. First(t) = "nativeSchedule" \/ rest \in Underway
        BY <1>1, <1>6, <2>1, <3>2, UnderwayMoves
      <4>2. CASE First(t) = "nativeSchedule"
        BY <1>4, <4>2 DEF ThreadLeaves, AnotherComes
      <4>3. CASE rest \in Underway
        <5>1. todo'[t] \in Underway
          BY <1>2, <4>3
        <5> QED BY <5>1 DEF AnotherComes, Underway
      <4> QED BY <4>1, <4>2, <4>3
    <3> QED BY <3>1, <3>2
  <2> QED BY <1>3, <1>4, <1>6, <2>1 DEF AnotherComes
<1>7. scheduled' => AnotherComes'
  <2>1. CASE First(t) = "clear"
    BY <2>1 DEF ThreadLeaves
  <2>2. CASE First(t) = "schedule" /\ ~scheduled
    <3>1. todo' = [todo EXCEPT ![t] = Tail(todo[t])]
      BY <2>2 DEF ThreadLeaves
    <3>2. t # "main"
      <4>1. ASSUME t = "main" PROVE First(t) # "schedule"
        BY <4>1, CloseMoves, ConnectMoves DEF LifeLists, LifeStep, First
      <4> QED BY <2>2, <4>1
    <3>6. t # "block"
      BY <2>2, <3>2, OtherFirst DEF LifeStep
    <3>3. todo[t] = AtSchedule
      <4>1. todo[t] \notin Seq(PlainSteps)
        BY <2>2, PlainRest, PlainHead DEF LifeStep, First, PlainNames
      <4>2. todo[t] # Reconnect
        BY <2>2, AtScheduleIs DEF First
      <4> QED BY <3>2, <3>6, <4>1, <4>2 DEF LifeLists, Begun
    <3>4. todo'[t] = AtInvalidate
      BY <3>1, <3>3 DEF LifeLists, AtInvalidate
    <3>5. todo'[t] \in Underway
      BY <3>4 DEF Underway
    <3> QED BY <3>5 DEF AnotherComes, Underway
  <2>3. CASE First(t) # "clear" /\ (First(t) = "schedule" => scheduled)
    BY <1>6, <2>3 DEF ThreadKeeps, Marks
  <2> QED BY <2>1, <2>2, <2>3
<1> QED BY <1>5, <1>7 DEF Marks

LEMMA MarkByBegin ==
  ASSUME LifeLists, LifeFlags, CloseLeaves, Marks, ~closing, NEW t \in LifeThreads, Begin(t)
  PROVE  Marks'
<1>1. scheduled' = scheduled /\ nativeScheduled' = nativeScheduled /\ block' = block
  BY DEF Begin, zigVars, nativeVars
<1>2. enabled
  BY DEF CloseLeaves
<1>3. /\ todo[t] = <<>> /\ pending[t] # <<>>
      /\ todo' = [todo EXCEPT ![t] = Callback[Head(pending[t])]]
      /\ pending' = [pending EXCEPT ![t] = Tail(pending[t])]
  BY <1>2 DEF Begin
<1>4. \A u \in LifeThreads : todo[u] \in Underway => todo'[u] \in Underway
  BY <1>3, UnderwayIsSomething DEF LifeLists
<1>5. ASSUME pending["monitor"] # <<>>, Head(pending["monitor"]) = "reconnect_ready"
      PROVE  \/ \E u \in LifeThreads : todo'[u] \in Underway
             \/ pending'["monitor"] = pending["monitor"]
  <2>1. "monitor" \in LifeThreads
    BY DEF LifeThreads
  <2>2. CASE t = "monitor"
    <3>1. Callback["reconnect_ready"] = Ready
      BY DEF Callback
    <3>2. todo'["monitor"] = Ready
      BY <1>3, <1>5, <2>1, <2>2, <3>1 DEF LifeLists
    <3>3. todo'["monitor"] \in Underway
      BY <3>2 DEF Underway
    <3> QED BY <2>1, <3>3
  <2>3. CASE t # "monitor"
    BY <1>3, <2>1, <2>3 DEF LifeLists
  <2> QED BY <2>2, <2>3
<1>6. ASSUME AnotherComes PROVE AnotherComes'
  <2>1. CASE \E u \in LifeThreads : todo'[u] \in Underway
    BY <2>1 DEF AnotherComes, Underway
  <2>2. CASE ~ \E u \in LifeThreads : todo'[u] \in Underway
    BY <1>1, <1>4, <1>5, <1>6, <2>2 DEF AnotherComes
  <2> QED BY <2>1, <2>2
<1> QED BY <1>1, <1>6 DEF Marks

LEMMA MarkByOthers ==
  ASSUME LifeLists, Marks, ~closing, OthersKeep,
         \/ \E w \in Workers : Completion(w)
         \/ BlockStarts \/ BlockFires \/ OpenWebSocket \/ Network
  PROVE  Marks'
<1>1. scheduled' = scheduled
  BY DEF Completion, LoginAnswered, Receive, SocketFails, NegotiationFails, BlockStarts, BlockFires,
         OpenWebSocket, Network, WsOpens, WsCloses, PeerConnects, PeerDisconnects, PeerFails,
         ChannelOpens, ChannelCloses, ChannelChanges, DataMessage, FrameDecoded, zigVars
<1>2. ASSUME nativeScheduled' = nativeScheduled, block' = block,
             \A u \in LifeThreads : todo[u] \in Underway => todo'[u] \in Underway,
             pending["monitor"] # <<>> => pending'["monitor"] = pending["monitor"]
      PROVE  Marks'
  <2>1. ASSUME AnotherComes PROVE AnotherComes'
    <3>1. CASE \E u \in LifeThreads : todo[u] \in Underway
      <4>1. \E u \in LifeThreads : todo'[u] \in Underway
        BY <1>2, <3>1
      <4> QED BY <4>1 DEF AnotherComes, Underway
    <3>2. CASE ~ \E u \in LifeThreads : todo[u] \in Underway
      BY <1>2, <2>1, <3>2 DEF AnotherComes
    <3> QED BY <3>1, <3>2
  <2> QED BY <1>1, <1>2, <2>1 DEF Marks
<1>3. "monitor" \in LifeThreads /\ "monitor" \notin Workers
  BY LifeAssumption DEF LifeThreads
<1>4. CASE \E w \in Workers : Completion(w)
  <2>1. PICK w \in Workers : Completion(w)
    BY <1>4
  <2>2. nativeScheduled' = nativeScheduled /\ block' = block
    BY <2>1 DEF Completion, LoginAnswered, Receive, SocketFails, NegotiationFails, nativeVars
  <2>3. todo' = todo /\ (pending' = pending \/ \E callbacks : pending' = [pending EXCEPT ![w] = callbacks])
    BY <2>1 DEF Completion, LoginAnswered, Receive, SocketFails, NegotiationFails, CallOn, Decide
  <2>4. pending'["monitor"] = pending["monitor"]
    BY <1>3, <2>3 DEF LifeLists
  <2> QED BY <1>2, <2>2, <2>3, <2>4
<1>5. CASE BlockStarts
  <2>1. nativeScheduled /\ nativeScheduled' = nativeScheduled /\ block' # "none"
    BY <1>5 DEF BlockStarts, Marks
  <2> QED BY <2>1 DEF Marks, AnotherComes
<1>6. CASE BlockFires
  <2>1. nativeScheduled' = FALSE /\ block' = "none" /\ Decide("monitor", <<"reconnect_ready">>)
    BY <1>6 DEF BlockFires, BlockDone, Monitored
  <2>2. pending'["monitor"] = <<"reconnect_ready">>
    BY <1>3, <2>1 DEF Decide, LifeLists
  <2>3. AnotherComes'
    BY <2>2, OneStep DEF AnotherComes
  <2> QED BY <2>1, <2>3 DEF Marks
<1>7. CASE OpenWebSocket
  BY <1>2, <1>7 DEF OpenWebSocket, nativeVars
<1>8. CASE Network
  <2>1. nativeScheduled' = nativeScheduled /\ block' = block
    BY <1>8 DEF Network, WsOpens, WsCloses, PeerConnects, PeerDisconnects, PeerFails, ChannelOpens,
                ChannelCloses, ChannelChanges, DataMessage, FrameDecoded, nativeVars
  <2>2. CASE FrameDecoded
    <3>1. pending' = pending /\ todo["video"] = <<>>
          /\ \A u \in LifeThreads \ {"video"} : todo'[u] = todo[u]
      BY <2>2 DEF FrameDecoded, LifeLists
    <3>2. \A u \in LifeThreads : todo[u] \in Underway => todo'[u] \in Underway
      BY <3>1, UnderwayIsSomething
    <3> QED BY <1>2, <2>1, <3>1, <3>2
  <2>3. CASE ~FrameDecoded
    <3>1. todo' = todo /\ pending["monitor"] = <<>>
      BY <1>8, <2>3 DEF Network, WsOpens, WsCloses, PeerConnects, PeerDisconnects, PeerFails,
         ChannelOpens, ChannelCloses, ChannelChanges, DataMessage, Monitored, Decide, Idle
    <3> QED BY <1>2, <2>1, <3>1
  <2> QED BY <2>2, <2>3
<1> QED BY <1>4, <1>5, <1>6, <1>7, <1>8

LEMMA MarkByHost ==
  ASSUME LifeLists, Marks, Connect \/ Close \/ Deinit
  PROVE  Marks'
<1>1. /\ scheduled' = scheduled /\ nativeScheduled' = nativeScheduled /\ block' = block
      /\ pending' = pending /\ todo["main"] = <<>>
  BY DEF Connect, Close, Deinit, Host, nativeVars
<1>2. \A u \in LifeThreads \ {"main"} : todo'[u] = todo[u]
  BY DEF Connect, Close, Deinit, Host, LifeLists
<1>3. \A u \in LifeThreads : todo[u] \in Underway => todo'[u] \in Underway
  BY <1>1, <1>2, UnderwayIsSomething
<1>4. ASSUME AnotherComes PROVE AnotherComes'
  <2>1. CASE \E u \in LifeThreads : todo[u] \in Underway
    <3>1. \E u \in LifeThreads : todo'[u] \in Underway
      BY <1>3, <2>1
    <3> QED BY <3>1 DEF AnotherComes, Underway
  <2>2. CASE ~ \E u \in LifeThreads : todo[u] \in Underway
    BY <1>1, <1>4, <2>2 DEF AnotherComes
  <2> QED BY <2>1, <2>2
<1> QED BY <1>1, <1>4 DEF Marks

\* Every step hands the mark on.
LEMMA MarkStep ==
  ASSUME LifeInv, LifeNext
  PROVE  MarkIsCarried'
<1> USE DEF LifeInv
<1>1. ASSUME ~closing' PROVE ~closing
  <2>1. CASE \E t \in LifeThreads : Run(t)
    <3>1. PICK t \in LifeThreads : Run(t)
      BY <2>1
    <3>2. CASE Begin(t)
      BY <1>1, <3>2 DEF Begin, nativeVars
    <3>3. CASE ZigStep(t) \/ BridgeStep(t) \/ TeardownStep(t)
      BY <1>1, <3>3, ThreadSteps DEF ThreadKeeps, LifeFlags
    <3> QED BY <3>1, <3>2, <3>3 DEF Run
  <2>2. CASE Connect \/ Close \/ Deinit
    BY <1>1, <2>2 DEF Connect, Close, Deinit, Host, nativeVars
  <2>3. CASE \/ \E w \in Workers : Completion(w)
             \/ BlockStarts \/ BlockFires \/ OpenWebSocket \/ Network
    BY <1>1, <2>3, Others DEF OthersKeep
  <2> QED BY <2>1, <2>2, <2>3 DEF LifeNext
<1>2. ASSUME ~closing, Marks PROVE Marks'
  <2>1. CASE \E t \in LifeThreads : Run(t)
    <3>1. PICK t \in LifeThreads : Run(t)
      BY <2>1
    <3>2. CASE Begin(t)
      BY <1>2, <3>2, MarkByBegin
    <3>3. CASE ZigStep(t) \/ BridgeStep(t) \/ TeardownStep(t)
      BY <1>2, <3>3, IsLifeStep, ThreadSteps, MarkByThread
    <3> QED BY <3>1, <3>2, <3>3 DEF Run
  <2>2. CASE Connect \/ Close \/ Deinit
    BY <1>2, <2>2, MarkByHost
  <2>3. CASE \/ \E w \in Workers : Completion(w)
             \/ BlockStarts \/ BlockFires \/ OpenWebSocket \/ Network
    BY <1>2, <2>3, Others, MarkByOthers
  <2> QED BY <2>1, <2>2, <2>3 DEF LifeNext
<1>3. ~closing' => Marks'
  BY <1>1, <1>2, MarkParts
<1>4. (MarkIsCarried <=> (~closing => Marks))'
  BY MarkParts, PTL
<1> QED BY <1>3, <1>4

-----------------------------------------------------------------------------

LEMMA LifeStart == LifeInit => LifeInv
<1> SUFFICES ASSUME LifeInit PROVE LifeInv
  OBVIOUS
<1>1. LifeLists
  <2>1. Begun(<<>>) /\ <<>> \in Connects /\ <<>> \in Resets /\ <<>> \in Seq(DOMAIN Callback)
    BY DEF Begun, Connects, Resets
  <2>2. {"main", "block", "video"} \subseteq LifeThreads
    BY DEF LifeThreads
  <2>3. \A t \in LifeThreads : todo[t] = <<>> /\ pending[t] = <<>>
    BY DEF LifeInit
  <2>4. \A t \in LifeThreads \ {"main", "block"} : Begun(todo[t])
    BY <2>1, <2>3
  <2>5. \A t \in {"main", "block", "video"} : todo[t] = <<>> /\ pending[t] = <<>>
    BY <2>2, <2>3
  <2>6. DOMAIN todo = LifeThreads /\ DOMAIN pending = LifeThreads /\ ~closed
    BY DEF LifeInit
  <2> QED BY <2>1, <2>3, <2>4, <2>5, <2>6 DEF LifeLists
<1>2. LifeFlags
  BY DEF LifeInit, LifeFlags
<1>3. CloseLeaves
  BY DEF LifeInit, CloseLeaves
<1>4. MarkIsCarried
  BY DEF LifeInit, MarkIsCarried
<1> QED BY <1>1, <1>2, <1>3, <1>4 DEF LifeInv

LEMMA LifeStill == LifeInv /\ UNCHANGED lifeVars => LifeInv'
<1> SUFFICES ASSUME LifeInv, UNCHANGED lifeVars PROVE LifeInv'
  OBVIOUS
<1> USE DEF LifeInv, lifeVars, zigVars, nativeVars, linkVars
<1>1. LifeLists'
  BY ListsStay
<1>2. LifeFlags'
  BY DEF LifeFlags
<1>3. InFlight' = InFlight /\ NoLinks' = NoLinks
  BY DEF InFlight, NoLinks
<1>4. CloseLeaves'
  BY <1>3 DEF CloseLeaves, Closing, Disabled, Drained, Detached, Returned
<1>5. MarkIsCarried'
  BY DEF MarkIsCarried, Underway
<1> QED BY <1>1, <1>2, <1>4, <1>5

\* The invariant of the session's life.
LEMMA LifeInvariant == LifeSpec => []LifeInv
<1>1. LifeInv /\ LifeNext => LifeInv'
  <2> SUFFICES ASSUME LifeInv, LifeNext PROVE LifeInv'
    OBVIOUS
  <2>1. LifeLists' /\ LifeFlags' /\ CloseLeaves'
    BY ListsStep, FlagsStep, CloseStep DEF LifeInv
  <2> QED BY <2>1, MarkStep DEF LifeInv
<1> QED BY <1>1, LifeStart, LifeStill, PTL DEF LifeSpec

\* Between Session.scheduleReconnect and the callback reconnectReady no step
\* loses a reconnect: the mark of session.zig is there only while a thread,
\* the bridge's block or its callback is about to take it off.
THEOREM ReconnectTheorem == LifeSpec => []ReconnectUnderWay
<1>1. LifeInv => ReconnectUnderWay
  <2> SUFFICES ASSUME LifeInv, scheduled, ~closing
               PROVE  \/ nativeScheduled /\ block # "none"
                      \/ \E t \in LifeThreads : \E i \in DOMAIN todo[t] :
                           todo[t][i] \in {<<"nativeSchedule">>, <<"clear">>}
                      \/ pending["monitor"] # <<>> /\ Head(pending["monitor"]) = "reconnect_ready"
    BY DEF ReconnectUnderWay
  <2>1. Marks
    BY MarkParts DEF LifeInv
  <2> QED BY <2>1, UnderwayHas DEF Marks, AnotherComes
<1> QED BY <1>1, LifeInvariant, PTL

\* Close in session.zig returns when the bridge has closed: no socket, peer
\* or channel is left, and no callback runs or will run in the session.
THEOREM QuietTheorem == LifeSpec => []ClosedIsQuiet
<1>1. LifeInv => ClosedIsQuiet
  <2> SUFFICES ASSUME LifeInv, closed, todo["main"] \in {<<>>, <<<<"destroy">>>>}
               PROVE  /\ login = "none" /\ ws = "none" /\ peer = "none" /\ lifeChannel = "none"
                      /\ ~sink /\ ~enabled /\ ~InFlight /\ todo["video"] = <<>>
    BY DEF ClosedIsQuiet
  <2>1. todo["main"] \in Returned
    BY DEF Returned, AtDestroy
  <2>2. NoLinks /\ ~sink /\ ~enabled /\ ~InFlight /\ todo["video"] = <<>>
    BY <2>1, StagesNest DEF LifeInv, CloseLeaves
  <2> QED BY <2>2 DEF NoLinks
<1> QED BY <1>1, LifeInvariant, PTL

-----------------------------------------------------------------------------
(* Who waits for whom.                                                      *)

\* A thread that begins a reset has the rest of it before it.
LEMMA AtResetIs ==
  ASSUME LifeLists, NEW t \in LifeThreads, todo[t] # <<>>, First(t) = "beginReset"
  PROVE  t \in {"main", "block"} /\ todo[t] = AtReset
<1>1. CASE t = "main"
  <2>1. closed
    BY <1>1, ConnectMoves DEF LifeLists, First
  <2>2. todo["main"] \in Closes
    BY <2>1 DEF LifeLists
  <2>3. todo["main"] = AtReset
    BY <1>1, <2>2, CloseHeads DEF First, Closes, Closing, Disabled, Drained, Detached, Returned
  <2> QED BY <1>1, <2>3
<1>2. CASE t # "main"
  <2>1. t = "block"
    BY <1>2, OtherFirst DEF PlainNames
  <2>2. todo["block"] = AtReset
    BY <2>1, CloseHeads DEF LifeLists, Resets, First
  <2> QED BY <2>1, <2>2
<1> QED BY <1>1, <1>2

LEMMA WaitByThread ==
  ASSUME LifeLists, WaitInv, NEW t \in LifeThreads, LifeStep(t), ThreadKeeps(t), ThreadLeaves(t)
  PROVE  WaitInv'
<1>1. PICK rest : Follows(t, rest) /\ todo' = [todo EXCEPT ![t] = rest]
  BY DEF LifeStep
<1>2. todo[t] # <<>> /\ todo'[t] = rest /\ \A u \in LifeThreads \ {t} : todo'[u] = todo[u]
  BY <1>1 DEF LifeLists, LifeStep
<1>3. {"main", "block"} \subseteq LifeThreads
  BY DEF LifeThreads
<1>4. todo'["block"] # <<>> => block' = "waiting"
  <2> SUFFICES ASSUME todo'["block"] # <<>> PROVE block' = "waiting"
    OBVIOUS
  <2>1. todo["block"] # <<>>
    BY <1>2, <1>3
  <2>2. block = "waiting" /\ nativeScheduled
    BY <2>1 DEF WaitInv
  <2> QED BY <2>2 DEF ThreadKeeps
<1>5. block' # "none" => nativeScheduled'
  BY DEF ThreadKeeps, WaitInv
<1>6. resetting' => \E u \in {"main", "block"} : todo'[u] \in {AtDetach, AtEndReset}
  <2>1. CASE First(t) = "beginReset"
    <3>1. t \in {"main", "block"} /\ todo[t] = AtReset
      BY <1>2, <2>1, AtResetIs
    <3>2. rest = AtDetach
      BY <1>1, <2>1, <3>1, CloseRests DEF Follows, First
    <3> QED BY <1>2, <3>1, <3>2
  <2>2. CASE First(t) # "beginReset"
    <3> SUFFICES ASSUME resetting' PROVE \E u \in {"main", "block"} : todo'[u] \in {AtDetach, AtEndReset}
      OBVIOUS
    <3>1. First(t) # "endReset"
      BY DEF ThreadLeaves
    <3>2. resetting
      BY <2>2, <3>1 DEF ThreadKeeps
    <3>3. PICK u \in {"main", "block"} : todo[u] \in {AtDetach, AtEndReset}
      BY <3>2 DEF WaitInv
    <3>4. CASE u # t
      BY <1>2, <1>3, <3>3, <3>4
    <3>5. CASE u = t
      <4>1. todo[t] = AtDetach
        BY <3>1, <3>3, <3>5, CloseHeads DEF First
      <4>2. rest = AtEndReset
        <5>1. Head(todo[t])[1] = "detach" /\ Tail(todo[t]) = AtEndReset
          BY <4>1, CloseHeads, CloseRests
        <5> QED BY <1>1, <5>1 DEF Follows
      <4> QED BY <1>2, <3>3, <3>5, <4>2
    <3> QED BY <3>4, <3>5
  <2> QED BY <2>1, <2>2
<1> QED BY <1>4, <1>5, <1>6 DEF WaitInv, AtDetach, AtEndReset

LEMMA WaitSame ==
  ASSUME WaitInv, UNCHANGED <<nativeScheduled, block, resetting>>,
         todo'["main"] = todo["main"], todo'["block"] = todo["block"]
  PROVE  WaitInv'
BY DEF WaitInv, AtDetach, AtEndReset

LEMMA WaitByOthers ==
  ASSUME LifeLists, WaitInv, OthersKeep,
         \/ \E w \in Workers : Completion(w)
         \/ BlockStarts \/ BlockFires \/ OpenWebSocket \/ Network
  PROVE  WaitInv'
<1>1. {"main", "block"} \subseteq LifeThreads /\ todo'["main"] = todo["main"]
  BY DEF LifeThreads, OthersKeep
<1>2. CASE \E w \in Workers : Completion(w)
  <2>1. UNCHANGED <<nativeScheduled, block, resetting, todo>>
    BY <1>2 DEF Completion, LoginAnswered, Receive, SocketFails, NegotiationFails, CallOn, Decide,
                nativeVars
  <2> QED BY <2>1, WaitSame
<1>3. CASE BlockStarts
  <2>1. /\ block = "queued" /\ block' \in {"none", "waiting"}
        /\ UNCHANGED <<nativeScheduled, resetting>>
        /\ todo' = todo \/ (block' = "waiting" /\ todo' = [todo EXCEPT !["block"] = Reset])
    BY <1>3 DEF BlockStarts
  <2>2. todo["block"] = <<>> /\ nativeScheduled
    BY <2>1 DEF WaitInv
  <2>3. todo'["block"] # <<>> => block' = "waiting"
    BY <2>1, <2>2
  <2>4. resetting => todo["main"] \in {AtDetach, AtEndReset}
    BY <2>2, CloseHeads DEF WaitInv
  <2>5. resetting' => todo'["main"] \in {AtDetach, AtEndReset}
    BY <1>1, <2>1, <2>4
  <2> QED BY <2>1, <2>2, <2>3, <2>5 DEF WaitInv, AtDetach, AtEndReset
<1>4. CASE BlockFires
  <2>1. block' = "none" /\ todo' = todo /\ todo["block"] = <<>> /\ resetting' = resetting
    BY <1>4 DEF BlockFires, Monitored, Decide
  <2> QED BY <2>1 DEF WaitInv, AtDetach, AtEndReset
<1>5. CASE OpenWebSocket
  BY <1>5, WaitSame DEF OpenWebSocket, nativeVars
<1>6. CASE Network
  <2>1. UNCHANGED <<nativeScheduled, block, resetting>>
    BY <1>6 DEF Network, WsOpens, WsCloses, PeerConnects, PeerDisconnects, PeerFails, ChannelOpens,
                ChannelCloses, ChannelChanges, DataMessage, FrameDecoded, nativeVars
  <2>2. todo'["block"] = todo["block"]
    BY <1>1, <1>6 DEF Network, WsOpens, WsCloses, PeerConnects, PeerDisconnects, PeerFails,
                ChannelOpens, ChannelCloses, ChannelChanges, DataMessage, FrameDecoded, Monitored,
                Decide, LifeLists
  <2> QED BY <1>1, <2>1, <2>2, WaitSame
<1> QED BY <1>2, <1>3, <1>4, <1>5, <1>6

LEMMA WaitByHost ==
  ASSUME LifeLists, WaitInv, Connect \/ Close \/ Deinit
  PROVE  WaitInv'
<1>1. UNCHANGED <<nativeScheduled, block, resetting>> /\ todo["main"] = <<>>
  BY DEF Connect, Close, Deinit, Host, nativeVars
<1>2. todo'["block"] = todo["block"]
  BY DEF Connect, Close, Deinit, Host, LifeLists, LifeThreads
<1>3. resetting' => todo'["block"] \in {AtDetach, AtEndReset}
  BY <1>1, <1>2, CloseHeads DEF WaitInv
<1> QED BY <1>1, <1>2, <1>3 DEF WaitInv, AtDetach, AtEndReset

LEMMA WaitByBegin ==
  ASSUME LifeLists, WaitInv, NEW t \in LifeThreads, Begin(t)
  PROVE  WaitInv'
<1>1. UNCHANGED <<nativeScheduled, block, resetting>>
  BY DEF Begin, nativeVars
<1>2. t \notin {"main", "block"}
  BY DEF Begin, LifeLists
<1>3. todo'["main"] = todo["main"] /\ todo'["block"] = todo["block"]
  BY <1>2 DEF Begin, LifeLists, LifeThreads
<1> QED BY <1>1, <1>3, WaitSame

LEMMA WaitStep ==
  ASSUME LifeLists, WaitInv, LifeNext
  PROVE  WaitInv'
<1>1. CASE \E t \in LifeThreads : Run(t)
  <2>1. PICK t \in LifeThreads : Run(t)
    BY <1>1
  <2>2. CASE Begin(t)
    BY <2>2, WaitByBegin
  <2>3. CASE ZigStep(t) \/ BridgeStep(t) \/ TeardownStep(t)
    BY <2>3, IsLifeStep, ThreadSteps, WaitByThread
  <2> QED BY <2>1, <2>2, <2>3 DEF Run
<1>2. CASE Connect \/ Close \/ Deinit
  BY <1>2, WaitByHost
<1>3. CASE \/ \E w \in Workers : Completion(w)
           \/ BlockStarts \/ BlockFires \/ OpenWebSocket \/ Network
  BY <1>3, Others, WaitByOthers
<1> QED BY <1>1, <1>2, <1>3 DEF LifeNext

LEMMA WaitInvariant == LifeSpec => []WaitInv
<1>1. LifeInit => WaitInv
  BY DEF LifeInit, WaitInv, LifeThreads
<1>2. LifeInv /\ WaitInv /\ [LifeNext]_lifeVars => WaitInv'
  <2>1. CASE LifeNext
    BY <2>1, WaitStep DEF LifeInv
  <2>2. CASE UNCHANGED lifeVars
    BY <2>2, WaitSame DEF lifeVars, nativeVars
  <2> QED BY <2>1, <2>2
<1> QED BY <1>1, <1>2, LifeInvariant, PTL DEF LifeSpec

\* The waits of the bridge's teardown (the monitor, callbackCondition,
\* transportResetCondition, the sink's callbackLock) form no cycle: the
\* decoder's thread waits for nobody, the holder of the monitor only for
\* itself, a completion handler for the monitor, close for them, and a reset
\* for one that is past its own waits.
THEOREM NeverStuckTheorem == LifeSpec => []NeverStuck
<1>1. LifeInv /\ WaitInv => NeverStuck
  <2> SUFFICES ASSUME LifeLists, WaitInv, NEW t \in LifeThreads, todo[t] # <<>>
               PROVE  \E u \in LifeThreads : CanGo(u)
    BY DEF NeverStuck, LifeInv
  <2>1. {"main", "monitor", "block", "video"} \cup Workers = LifeThreads
    BY DEF LifeThreads
  <2>2. CASE todo["video"] # <<>>
    <3>1. todo["video"] = <<<<"deliver">>>>
      BY <2>2 DEF LifeLists
    <3>2. Head(todo["video"])[1] = "deliver"
      BY <3>1
    <3>3. ~Blocked("video")
      BY <3>2 DEF Blocked, UnderMonitor
    <3> QED BY <2>1, <2>2, <3>3 DEF CanGo
  <2>3. CASE ~Idle("monitor")
    <3>1. CASE todo["monitor"] = <<>>
      BY <2>1, <2>3, <3>1 DEF Idle, CanGo
    <3>2. CASE todo["monitor"] # <<>>
      <4>1. First("monitor") \in PlainNames \cup {"schedule"}
        BY <2>1, <3>2, OtherFirst
      <4>2. ~Blocked("monitor")
        BY <4>1 DEF Blocked, MonitorFor, First, PlainNames
      <4> QED BY <2>1, <3>2, <4>2 DEF CanGo
    <3> QED BY <3>1, <3>2
  <2>4. CASE Idle("monitor") /\ InFlight
    <3>1. PICK w \in Workers : todo[w] # <<>>
      BY <2>4 DEF InFlight, Idle
    <3>2. w \in LifeThreads \ {"main", "block"}
      BY <3>1, LifeAssumption DEF LifeThreads
    <3>3. First(w) \in PlainNames \cup {"schedule"}
      BY <3>1, <3>2, OtherFirst
    <3>4. ~Blocked(w)
      BY <2>4, <3>3 DEF Blocked, MonitorFor, First, PlainNames
    <3> QED BY <3>1, <3>2, <3>4 DEF CanGo
  <2>5. CASE todo["video"] = <<>> /\ Idle("monitor") /\ ~InFlight
    <3>1. \A u \in LifeThreads : todo[u] # <<>> /\ Blocked(u) => First(u) = "beginReset" /\ resetting
      BY <2>5 DEF Blocked, MonitorFor, First
    <3>2. CASE ~Blocked(t)
      BY <3>2 DEF CanGo
    <3>3. CASE Blocked(t)
      <4>1. resetting
        BY <3>1, <3>3
      <4>2. PICK u \in {"main", "block"} : todo[u] \in {AtDetach, AtEndReset}
        BY <4>1 DEF WaitInv
      <4>3. todo[u] # <<>> /\ First(u) # "beginReset"
        BY <4>2, CloseHeads DEF First
      <4>4. u \in LifeThreads
        BY <2>1, <4>2
      <4> QED BY <3>1, <4>3, <4>4 DEF CanGo
    <3> QED BY <3>2, <3>3
  <2> QED BY <2>2, <2>3, <2>4, <2>5
<1> QED BY <1>1, LifeInvariant, WaitInvariant, PTL

-----------------------------------------------------------------------------
(* What the monitor's callbacks know of the transport.                      *)

AtStopped == Tail(AtClear)
AtConnectStore == <<<<"store", "connecting">>, <<"connect">>>>
AtConnect == <<<<"connect">>>>
AtInterrupted == <<<<"set", "reconnecting">>>>
InterruptedStore == <<<<"store", "reconnecting">>>>
AtConnected == <<<<"set", "connected">>>>
ConnectedStore == <<<<"store", "connected">>>>
AtRequest == <<<<"request">>>>
AtOpenData == <<<<"openData">>>>
AtForget == <<<<"invalidate">>>>
AtObserve == <<<<"observe">>>>

NameOf(l) == Head(l)[1]

LEMMA Names ==
  /\ NameOf(Reconnect) = "stopIfClosed" /\ NameOf(AtSchedule) = "schedule"
  /\ NameOf(AtInvalidate) = "invalidate" /\ NameOf(AtSet) = "set" /\ NameOf(AtStored) = "store"
  /\ NameOf(AtNative) = "nativeSchedule"
  /\ NameOf(Ready) = "invalidate" /\ NameOf(AtClear) = "clear" /\ NameOf(AtStopped) = "stopIfClosed"
  /\ NameOf(Connecting) = "set" /\ NameOf(AtConnectStore) = "store" /\ NameOf(AtConnect) = "connect"
  /\ NameOf(Interrupted) = "invalidate" /\ NameOf(AtInterrupted) = "set" /\ NameOf(InterruptedStore) = "store"
  /\ NameOf(AtConnected) = "set" /\ NameOf(ConnectedStore) = "store" /\ NameOf(AtRequest) = "request"
  /\ NameOf(AtOpenData) = "openData" /\ NameOf(AtForget) = "invalidate" /\ NameOf(AtObserve) = "observe"
<1>1. /\ NameOf(Reconnect) = "stopIfClosed" /\ NameOf(AtSchedule) = "schedule"
      /\ NameOf(AtInvalidate) = "invalidate" /\ NameOf(AtSet) = "set" /\ NameOf(AtStored) = "store"
      /\ NameOf(AtNative) = "nativeSchedule" /\ NameOf(Ready) = "invalidate" /\ NameOf(AtClear) = "clear"
  BY AtScheduleIs, UnderwayRests DEF NameOf
<1>2. NameOf(AtStopped) = "stopIfClosed"
  BY DEF NameOf, AtStopped, AtClear, Ready, Connecting
<1>3. NameOf(Connecting) = "set" /\ NameOf(AtConnectStore) = "store" /\ NameOf(AtConnect) = "connect"
  BY ConnectRests DEF NameOf, AtConnectStore, AtConnect
<1>4. NameOf(Interrupted) = "invalidate"
  BY DEF NameOf, Interrupted
<1>5. \A a : NameOf(<<a>>) = a[1]
  BY OneStep DEF NameOf
<1> QED
  BY <1>1, <1>2, <1>3, <1>4, <1>5 DEF AtInterrupted, InterruptedStore, AtConnected, ConnectedStore,
     AtRequest, AtOpenData, AtForget, AtObserve

LEMMA Lengths ==
  /\ Len(Reconnect) = 5 /\ Len(AtInvalidate) = 3 /\ Len(AtSet) = 2 /\ Len(AtStored) = 2 
  /\ Len(Ready) = 5 /\ Len(AtStopped) = 3 /\ Len(Connecting) = 2 /\ Len(AtConnectStore) = 2
  /\ Len(Interrupted) = 2 /\ Len(AtInterrupted) = 1 /\ Len(InterruptedStore) = 1
  /\ Len(AtConnected) = 1 /\ Len(ConnectedStore) = 1 /\ Len(AtForget) = 1
<1>1. Len(Reconnect) = 5 /\ Len(Ready) = 5 /\ Len(AtStopped) = 3
  BY DEF Reconnect, Ready, AtStopped, AtClear, Connecting
<1> DEFINE i == <<"invalidate">>
           s == <<"set", "reconnecting">>
           n == <<"nativeSchedule">>
<1>4. AtInvalidate = <<i, s, n>>
  BY AtScheduleIs DEF AtInvalidate
<1> HIDE DEF i, s, n
<1>2. Len(AtInvalidate) = 3
  BY <1>4
<1>3. Len(AtSet) = 2
  <2>1. AtSet = <<s, n>>
    BY <1>4, ThreeSteps DEF AtSet
  <2> QED BY <2>1
<1> QED
  BY <1>1, <1>2, <1>3 DEF AtStored, Connecting, AtConnectStore, Interrupted, AtInterrupted, InterruptedStore,
    AtConnected, ConnectedStore, AtForget

LEMMA Rests ==
  /\ Tail(Reconnect) = AtSchedule /\ Tail(AtSchedule) = AtInvalidate
  /\ Tail(Ready) = AtClear /\ Tail(AtClear) = AtStopped /\ Tail(AtStopped) = Connecting
  /\ Tail(Connecting) = AtConnect /\ <<<<"store", "connecting">>>> \o AtConnect = AtConnectStore
  /\ Tail(AtConnectStore) = AtConnect
  /\ Tail(Interrupted) = AtInterrupted
  /\ \A l \in {AtNative, AtConnect, AtInterrupted, InterruptedStore, AtConnected, ConnectedStore, AtRequest,
               AtOpenData, AtForget, AtObserve} : Tail(l) = <<>>
  /\ \A s : <<s>> \o <<>> = <<s>>
<1>1. Tail(Reconnect) = AtSchedule /\ Tail(AtSchedule) = AtInvalidate /\ Tail(AtClear) = AtStopped
  BY DEF AtSchedule, AtInvalidate, AtStopped
<1>2. Tail(AtStopped) = Connecting
  <2> DEFINE a == <<"invalidate">>
             b == <<"clear">>
             c == <<"stopIfClosed">>
             d == <<"set", "connecting">>
             e == <<"connect">>
  <2>1. Connecting = <<d, e>> /\ Ready = <<a, b, c>> \o Connecting
    BY DEF Connecting, Ready
  <2> HIDE DEF a, b, c, d, e
  <2>2. Ready = <<a, b, c, d, e>>
    <3>1. <<a, b, c>> \in Seq({a, b, c, d, e}) /\ <<d, e>> \in Seq({a, b, c, d, e})
          /\ <<a, b, c, d, e>> \in Seq({a, b, c, d, e})
      OBVIOUS
    <3>2. Len(<<a, b, c>> \o <<d, e>>) = 5 /\ <<a, b, c>> \o <<d, e>> \in Seq({a, b, c, d, e})
      BY <3>1, ConcatProperties
    <3> DEFINE r == <<a, b, c>> \o <<d, e>>
    <3>3. r[1] = a /\ r[2] = b /\ r[3] = c /\ r[4] = d /\ r[5] = e
      BY <3>1
    <3>4. \A i \in 1 .. Len(<<a, b, c, d, e>>) : r[i] = <<a, b, c, d, e>>[i]
      BY <3>3
    <3> QED BY <2>1, <3>1, <3>2, <3>4, SeqEqual
  <2>3. Tail(<<a, b, c, d, e>>) = <<b, c, d, e>>
    OBVIOUS
  <2>4. Tail(<<b, c, d, e>>) = <<c, d, e>>
    OBVIOUS
  <2>5. Tail(<<c, d, e>>) = <<d, e>>
    BY ThreeSteps
  <2> QED
    BY <2>1, <2>2, <2>3, <2>4, <2>5 DEF AtStopped, AtClear
<1>3. Tail(Connecting) = AtConnect
  BY TwoSteps DEF Connecting, AtConnect
<1>4. <<<<"store", "connecting">>>> \o AtConnect = AtConnectStore /\ Tail(AtConnectStore) = AtConnect
  BY Joined, ConnectRests DEF AtConnect, AtConnectStore
<1>5. Tail(Interrupted) = AtInterrupted
  BY TwoSteps DEF Interrupted, AtInterrupted
<1>6. \A l \in {AtNative, AtConnect, AtInterrupted, InterruptedStore, AtConnected, ConnectedStore, AtRequest,
                AtOpenData, AtForget, AtObserve} : Tail(l) = <<>>
  BY NoneLeft DEF AtNative, AtConnect, AtInterrupted, InterruptedStore, AtConnected, ConnectedStore, AtRequest,
                AtOpenData, AtForget, AtObserve
<1>7. \A s : <<s>> \o <<>> = <<s>>
  <2> TAKE s
  <2>1. <<s>> \in Seq({s}) /\ <<>> \in Seq({s})
    OBVIOUS
  <2> QED BY <2>1
<1> QED
  BY <1>1, <1>2, <1>3, <1>4, <1>5, <1>6, <1>7, UnderwayRests

LEMMA Arguments ==
  /\ Head(AtSet)[2] = "reconnecting" /\ Head(AtStored)[2] = "reconnecting"
  /\ Head(Connecting)[2] = "connecting" /\ Head(AtConnectStore)[2] = "connecting"
  /\ Head(AtInterrupted)[2] = "reconnecting" /\ Head(InterruptedStore)[2] = "reconnecting"
  /\ Head(AtConnected)[2] = "connected" /\ Head(ConnectedStore)[2] = "connected"
<1>1. \A a : Head(<<a>>)[2] = a[2]
  BY OneStep
<1> QED
  BY <1>1, UnderwayRests, ConnectRests DEF AtConnectStore, AtInterrupted, InterruptedStore, AtConnected, ConnectedStore

\* The lists of a reconnect that is marked and not handed over yet.
Handing == {AtInvalidate, AtSet, AtStored, AtNative}

Readying == {Ready, AtClear}

\* The lists that will give the lifecycle another name than connected.
Renaming == {Interrupted, AtInterrupted, InterruptedStore, Reconnect, AtSchedule, AtStopped,
             Connecting, AtConnectStore}

Informing == {AtConnected, ConnectedStore, AtOpenData, AtObserve}

MonitorLists ==
  {<<>>, AtRequest, AtForget, AtConnect} \cup Handing \cup Readying \cup Renaming \cup Informing

LEMMA Apart ==
  /\ <<>> \notin Handing \cup Readying \cup Renaming \cup Informing
  /\ Handing \cap (Readying \cup Renaming \cup Informing) = {}
  /\ Readying \cap (Renaming \cup Informing) = {}
  /\ {AtRequest, AtForget, AtConnect} \cap (Handing \cup Readying \cup Renaming \cup Informing) = {}
  /\ Renaming \cap Informing = {}
<1>1. \A l \in Handing \cup Readying \cup Renaming \cup Informing : l # <<>>
  <2>1. AtStopped # <<>> /\ Interrupted # <<>>
    BY Lengths
  <2>2. AtConnectStore # <<>> /\ AtInterrupted # <<>> /\ InterruptedStore # <<>> /\ AtConnected # <<>>
        /\ ConnectedStore # <<>> /\ AtOpenData # <<>> /\ AtObserve # <<>>
    BY DEF AtConnectStore, AtInterrupted, InterruptedStore, AtConnected, ConnectedStore, AtOpenData, AtObserve
  <2> QED
    BY <2>1, <2>2, AtScheduleIs, UnderwayRests, ConnectRests DEF Handing, Readying, Renaming, Informing
<1>2. Handing \cap (Readying \cup Renaming \cup Informing) = {}
  BY Names, Lengths DEF Handing, Readying, Renaming, Informing
<1> QED
  BY <1>1, <1>2, Names, Lengths, Arguments DEF Handing, Readying, Renaming, Informing

MonitorCalls == {"ws_open", "ws_closed", "peer_failed", "peer_connected", "peer_disconnected",
                 "data_open", "data_closed", "data_message", "reconnect_ready"}
WorkerCalls == {"error", "ws_closed", "provide", "offer", "disconnect"}
WorkerSteps == {<<"invalidate">>, <<"current">>, <<"createPeer">>, <<"setRemote">>,
                <<"set", "failed">>, <<"store", "failed">>}
Reconnects == Handing \cup {Reconnect, AtSchedule}

\* The callbacks that the monitor makes, one at a time, and those of the
\* other threads.
CallsOfThreads ==
  /\ todo["monitor"] \in MonitorLists
  /\ pending["monitor"] \in {<<>>} \cup {<<c>> : c \in MonitorCalls}
  /\ pending["monitor"] # <<>> => todo["monitor"] = <<>>
  /\ \A w \in Workers :
       /\ pending[w] \in Seq(WorkerCalls)
       /\ todo[w] \in Seq(WorkerSteps) \cup Reconnects

Calls(c) == pending["monitor"] = <<c>>
Does(l) == todo["monitor"] = l
Clearing == Calls("reconnect_ready") \/ todo["monitor"] \in Readying

\* The mark of a reconnect is one: a thread that will hand it over, the block,
\* or the callback that will clear it.
OneMark ==
  ~closed =>
    /\ \A t \in LifeThreads : todo[t] \in Handing =>
         /\ scheduled /\ block = "none" /\ ~Clearing
         /\ \A u \in LifeThreads : todo[u] \in Handing => u = t
    /\ block # "none" => scheduled /\ ~Clearing
    /\ Clearing => scheduled

\* What the monitor reports is so while it reports it.
ReportIsTrue ==
  /\ Calls("peer_connected") \/ Does(AtConnected) \/ Does(ConnectedStore) => peer = "connected"
  /\ Calls("data_open") \/ Does(AtOpenData) \/ Calls("data_message") \/ Does(AtObserve)
       => lifeChannel = "open"
  /\ peer = "none" => lifeChannel = "none"

Renames ==
  Calls("peer_disconnected") \/ Calls("peer_failed") \/ todo["monitor"] \in Renaming

\* Between reconnects what is not so any more is about to be withdrawn.
Withdrawn ==
  /\ ~closed /\ ~scheduled =>
       /\ lifecycle = "connected" => peer = "connected" \/ Renames
       /\ lifeData => lifeChannel = "open" \/ Calls("data_closed") \/ Does(AtForget)
       /\ cursor => lifeChannel \in {"open", "closed"}
  /\ Does(AtClear) => ~lifeData /\ ~cursor

\* What the first step of a list of the monitor leads to.
Takes(l, m) ==
  /\ l = Reconnect => m \in {AtSchedule, <<>>}
  /\ l = AtSchedule => m \in {AtInvalidate, <<>>}
  /\ l = AtInvalidate => m = AtSet
  /\ l = AtSet => m \in {AtNative, AtStored}
  /\ l = AtStored => m = AtNative
  /\ l = Ready => m = AtClear
  /\ l = AtClear => m = AtStopped
  /\ l = AtStopped => m \in {Connecting, <<>>}
  /\ l = Connecting => m \in {AtConnect, AtConnectStore}
  /\ l = AtConnectStore => m = AtConnect
  /\ l = Interrupted => m = AtInterrupted
  /\ l = AtInterrupted => m \in {InterruptedStore, <<>>}
  /\ l = AtConnected => m \in {ConnectedStore, <<>>}
  /\ l \in {AtNative, AtConnect, InterruptedStore, ConnectedStore, AtRequest, AtOpenData, AtForget,
            AtObserve} => m = <<>>

LEMMA MonitorTakes ==
  ASSUME NEW t, todo[t] # <<>>, NEW rest, Follows(t, rest)
  PROVE  Takes(todo[t], rest)
<1> DEFINE l == todo[t]
<1>1. \/ rest = Tail(l)
      \/ rest = <<>> /\ NameOf(l) \in {"stopIfClosed", "schedule", "current"}
      \/ NameOf(l) = "set" /\ rest = <<<<"store", Head(l)[2]>>>> \o Tail(l)
      \/ NameOf(l) = "setRemote"
  BY DEF Follows, NameOf
<1> HIDE DEF l
<1>2. /\ l = Reconnect => rest \in {AtSchedule, <<>>}
      /\ l = AtSchedule => rest \in {AtInvalidate, <<>>}
      /\ l = AtStopped => rest \in {Connecting, <<>>}
  <2>1. Tail(Reconnect) = AtSchedule /\ Tail(AtSchedule) = AtInvalidate /\ Tail(AtStopped) = Connecting
    BY Rests
  <2> QED BY <1>1, <2>1, Names
<1>3. /\ l = AtInvalidate => rest = AtSet
      /\ l = AtStored => rest = AtNative
      /\ l = Ready => rest = AtClear
      /\ l = AtClear => rest = AtStopped
      /\ l = AtConnectStore => rest = AtConnect
      /\ l = Interrupted => rest = AtInterrupted
  <2>1. /\ Tail(AtInvalidate) = AtSet /\ Tail(AtStored) = AtNative /\ Tail(Ready) = AtClear
        /\ Tail(AtClear) = AtStopped /\ Tail(AtConnectStore) = AtConnect
        /\ Tail(Interrupted) = AtInterrupted
    BY Rests, UnderwayRests
  <2> QED BY <1>1, <2>1, Names
<1>4. l \in {AtNative, AtConnect, InterruptedStore, ConnectedStore, AtRequest, AtOpenData, AtForget,
             AtObserve} => rest = <<>>
  <2>1. \A k \in {AtNative, AtConnect, InterruptedStore, ConnectedStore, AtRequest, AtOpenData, AtForget,
                  AtObserve} : Tail(k) = <<>>
    BY Rests
  <2> QED BY <1>1, <2>1, Names
<1>5. \A s : <<<<"store", s>>>> \o <<>> = <<<<"store", s>>>>
  BY Rests
<1>6. ASSUME l = AtSet PROVE rest \in {AtNative, AtStored}
  <2>1. Head(l)[2] = "reconnecting" /\ Tail(l) = AtNative /\ NameOf(l) = "set"
    BY <1>6, Arguments, UnderwayRests, Names
  <2> QED BY <1>1, <2>1, UnderwayRests
<1>7. ASSUME l = Connecting PROVE rest \in {AtConnect, AtConnectStore}
  <2>1. Head(l)[2] = "connecting" /\ Tail(l) = AtConnect /\ NameOf(l) = "set"
    BY <1>7, Arguments, Rests, Names
  <2> QED BY <1>1, <2>1, Rests
<1>8. ASSUME l = AtInterrupted PROVE rest \in {<<>>, InterruptedStore}
  <2>1. Head(l)[2] = "reconnecting" /\ Tail(l) = <<>> /\ NameOf(l) = "set"
    BY <1>8, Arguments, Rests, Names
  <2> QED BY <1>1, <1>5, <2>1 DEF InterruptedStore
<1>9. ASSUME l = AtConnected PROVE rest \in {<<>>, ConnectedStore}
  <2>1. Head(l)[2] = "connected" /\ Tail(l) = <<>> /\ NameOf(l) = "set"
    BY <1>9, Arguments, Rests, Names
  <2> QED BY <1>1, <1>5, <2>1 DEF ConnectedStore
<1>10. Takes(l, rest)
  BY <1>2, <1>3, <1>4, <1>6, <1>7, <1>8, <1>9 DEF Takes
<1> QED BY <1>10 DEF l

WorkerNames == {"invalidate", "current", "createPeer", "setRemote", "set", "store"}

LEMMA WorkerHead ==
  ASSUME NEW l \in Seq(WorkerSteps), l # <<>>
  PROVE  /\ Tail(l) \in Seq(WorkerSteps)
         /\ NameOf(l) \in WorkerNames
         /\ NameOf(l) \in {"set", "store"} => Head(l)[2] = "failed"
<1>1. Head(l) \in WorkerSteps /\ Tail(l) \in Seq(WorkerSteps)
  BY HeadTailProperties
<1>2. \A s \in WorkerSteps : s[1] \in WorkerNames /\ (s[1] \in {"set", "store"} => s[2] = "failed")
  BY DEF WorkerSteps, WorkerNames
<1> QED BY <1>1, <1>2 DEF NameOf

LEMMA WorkerLists ==
  /\ \A s \in WorkerSteps : <<s>> \in Seq(WorkerSteps)
  /\ Fail \in Seq(WorkerSteps)
  /\ \A l \in Seq(WorkerSteps) : <<<<"store", "failed">>>> \o l \in Seq(WorkerSteps)
<1>1. \A s \in WorkerSteps : <<s>> \in Seq(WorkerSteps)
  BY OfOne
<1>2. <<"invalidate">> \in WorkerSteps /\ <<"set", "failed">> \in WorkerSteps /\ <<"store", "failed">> \in WorkerSteps
  BY DEF WorkerSteps
<1>3. Fail \in Seq(WorkerSteps)
  BY <1>2, OfTwo DEF Fail
<1>4. \A l \in Seq(WorkerSteps) : <<<<"store", "failed">>>> \o l \in Seq(WorkerSteps)
  <2> DEFINE one == <<<<"store", "failed">>>>
  <2>1. one \in Seq(WorkerSteps)
    BY <1>1, <1>2
  <2> HIDE DEF one
  <2>2. \A l \in Seq(WorkerSteps) : one \o l \in Seq(WorkerSteps)
    BY <2>1, ConcatProperties
  <2> QED BY <2>2 DEF one
<1> QED BY <1>1, <1>3, <1>4

LEMMA WorkerApart == Seq(WorkerSteps) \cap Handing = {}
<1>1. ASSUME NEW l \in Seq(WorkerSteps), l \in Handing PROVE FALSE
  <2>1. PICK i \in DOMAIN l : l[i] \in {<<"nativeSchedule">>, <<"clear">>}
    BY <1>1, UnderwayHas DEF Handing, Underway
  <2>2. l[i] \in WorkerSteps
    BY <1>1, <2>1
  <2>3. \A s \in WorkerSteps : s[1] # "nativeSchedule" /\ s[1] # "clear"
    BY DEF WorkerSteps
  <2>4. <<"nativeSchedule">>[1] = "nativeSchedule" /\ <<"clear">>[1] = "clear"
    OBVIOUS
  <2> QED BY <2>1, <2>2, <2>3, <2>4
<1> QED BY <1>1

\* What a list of another thread leads to.
LEMMA WorkerTakes ==
  ASSUME NEW t, todo[t] \in Seq(WorkerSteps) \cup Reconnects, todo[t] # <<>>, NEW rest, Follows(t, rest)
  PROVE  /\ rest \in Seq(WorkerSteps) \cup Reconnects
         /\ First(t) \in WorkerNames \cup {"stopIfClosed", "schedule", "nativeSchedule"}
         /\ First(t) = "store" => Head(todo[t])[2] # "connected"
         /\ rest \in Handing => todo[t] \in Handing \/ (todo[t] = AtSchedule /\ rest = AtInvalidate)
         /\ First(t) = "nativeSchedule" => todo[t] \in Handing /\ rest = <<>>
         /\ First(t) = "schedule" => todo[t] = AtSchedule
<1> DEFINE l == todo[t]
           Proved == /\ rest \in Seq(WorkerSteps) \cup Reconnects
                     /\ NameOf(l) \in WorkerNames \cup {"stopIfClosed", "schedule", "nativeSchedule"}
                     /\ NameOf(l) = "store" => Head(l)[2] # "connected"
                     /\ rest \in Handing => l \in Handing \/ (l = AtSchedule /\ rest = AtInvalidate)
                     /\ NameOf(l) = "nativeSchedule" => l \in Handing /\ rest = <<>>
                     /\ NameOf(l) = "schedule" => l = AtSchedule
<1>1. CASE l \in Seq(WorkerSteps)
  <2>1. /\ Tail(l) \in Seq(WorkerSteps) /\ NameOf(l) \in WorkerNames
        /\ NameOf(l) \in {"set", "store"} => Head(l)[2] = "failed"
    BY <1>1, WorkerHead
  <2>2. \/ rest = Tail(l) \/ rest = Fail \/ rest = <<>>
        \/ NameOf(l) = "set" /\ rest = <<<<"store", Head(l)[2]>>>> \o Tail(l)
    BY DEF Follows, NameOf
  <2>3. rest \in Seq(WorkerSteps)
    <3>3. <<>> \in Seq(WorkerSteps)
      OBVIOUS
    <3>1. CASE rest = Tail(l) \/ rest = Fail \/ rest = <<>>
      BY <2>1, <3>1, <3>3, WorkerLists
    <3>2. CASE NameOf(l) = "set" /\ rest = <<<<"store", Head(l)[2]>>>> \o Tail(l)
      BY <2>1, <3>2, WorkerLists
    <3> QED BY <2>2, <3>1, <3>2
  <2>4. Proved
    BY <2>1, <2>3, WorkerApart DEF WorkerNames
  <2> QED BY <2>4 DEF First, NameOf
<1>2. CASE l \in Reconnects
  <2>2. Takes(l, rest)
    BY MonitorTakes
  <2> HIDE DEF l
  <2>6. <<>> \in Seq(WorkerSteps)
    OBVIOUS
  <2>3. CASE l \in Handing
    <3>1. rest \in {AtSet, AtNative, AtStored, <<>>} /\ (l = AtNative => rest = <<>>)
      BY <2>2, <2>3 DEF Takes, Handing
    <3>2. NameOf(l) \in {"invalidate", "set", "store", "nativeSchedule"}
          /\ (NameOf(l) = "nativeSchedule" => l = AtNative)
          /\ (NameOf(l) = "store" => Head(l)[2] # "connected")
      BY <2>3, Names, Arguments DEF Handing
    <3>3. rest \in Seq(WorkerSteps) \cup Reconnects
      BY <2>6, <3>1 DEF Reconnects, Handing
    <3> QED BY <2>3, <3>1, <3>2, <3>3 DEF l, First, NameOf, WorkerNames
  <2>4. CASE l = Reconnect
    <3>1. rest \in {AtSchedule, <<>>}
      BY <2>2, <2>4 DEF Takes
    <3>2. NameOf(l) = "stopIfClosed" /\ rest \notin Handing /\ rest \in Seq(WorkerSteps) \cup Reconnects
      BY <2>4, <2>6, <3>1, Names, Apart DEF Renaming, Reconnects
    <3> QED BY <3>2 DEF l, First, NameOf
  <2>5. CASE l = AtSchedule
    <3>1. rest \in {AtInvalidate, <<>>}
      BY <2>2, <2>5 DEF Takes
    <3>2. NameOf(l) = "schedule" /\ rest \in Seq(WorkerSteps) \cup Reconnects
      BY <2>5, <2>6, <3>1, Names DEF Reconnects, Handing
    <3>3. rest \in Handing => rest = AtInvalidate
      BY <3>1, Apart
    <3> QED BY <2>5, <3>2, <3>3 DEF l, First, NameOf
  <2> QED BY <1>2, <2>3, <2>4, <2>5 DEF Reconnects, l
<1> QED BY <1>1, <1>2

LEMMA CallsAre ==
  /\ Callback["ws_open"] = AtRequest /\ Callback["ws_closed"] = Reconnect
  /\ Callback["peer_failed"] = Reconnect /\ Callback["peer_connected"] = AtConnected
  /\ Callback["peer_disconnected"] = Interrupted /\ Callback["data_open"] = AtOpenData
  /\ Callback["data_closed"] = AtForget /\ Callback["data_message"] = AtObserve
  /\ Callback["reconnect_ready"] = Ready
BY DEF Callback, AtRequest, AtConnected, AtOpenData, AtForget, AtObserve

\* Those of the other threads but for a reconnect.
LEMMA WorkerOwn == \A c \in WorkerCalls \ {"ws_closed"} : Callback[c] \in Seq(WorkerSteps)
<1>1. Callback["error"] = Fail
  BY DEF Callback
<1>2. Callback["provide"] = <<<<"current">>, <<"createPeer">>, <<"setRemote">>>>
  BY DEF Callback
<1>3. Callback["offer"] = <<<<"current">>, <<"setRemote">>>>
  BY DEF Callback
<1>4. Callback["disconnect"] = <<<<"current">>>> \o Fail
  BY DEF Callback
<1>5. <<"current">> \in WorkerSteps /\ <<"createPeer">> \in WorkerSteps /\ <<"setRemote">> \in WorkerSteps
  BY DEF WorkerSteps
<1>6. Callback["provide"] \in Seq(WorkerSteps)
  BY <1>2, <1>5, OfThree
<1>7. Callback["offer"] \in Seq(WorkerSteps)
  BY <1>3, <1>5, OfTwo
<1>8. Callback["disconnect"] \in Seq(WorkerSteps)
  BY <1>4, <1>5, WorkerLists, ConcatProperties
<1> QED BY <1>1, <1>6, <1>7, <1>8, WorkerLists DEF WorkerCalls

LEMMA WorkerCallsAre == \A c \in WorkerCalls : Callback[c] \in Seq(WorkerSteps) \cup Reconnects
BY WorkerOwn, CallsAre DEF Reconnects

LEMMA Constant ==
  /\ MonitorLists' = MonitorLists /\ Handing' = Handing /\ Readying' = Readying
  /\ Renaming' = Renaming /\ Reconnects' = Reconnects /\ WorkerSteps' = WorkerSteps
  /\ WorkerCalls' = WorkerCalls /\ MonitorCalls' = MonitorCalls
BY DEF MonitorLists, Handing, Readying, Renaming, Informing, Reconnects, WorkerSteps, WorkerCalls, MonitorCalls

\* The lists stay those of their threads.
LEMMA CallsByThread ==
  ASSUME LifeLists, CallsOfThreads, NEW t \in LifeThreads, LifeStep(t)
  PROVE  CallsOfThreads'
<1>1. PICK rest : Follows(t, rest) /\ todo' = [todo EXCEPT ![t] = rest]
  BY DEF LifeStep
<1>2. /\ todo'[t] = rest /\ \A u \in LifeThreads \ {t} : todo'[u] = todo[u]
      /\ pending' = pending /\ todo[t] # <<>>
  BY <1>1 DEF LifeLists, LifeStep
<1>3. {"monitor"} \cup Workers \subseteq LifeThreads /\ "monitor" \notin Workers
  BY LifeAssumption DEF LifeThreads
<1>4. todo'["monitor"] \in MonitorLists
  <2>1. CASE t = "monitor"
    <3>1. Takes(todo[t], rest) /\ todo[t] \in MonitorLists
      BY <1>1, <1>2, <2>1, MonitorTakes DEF CallsOfThreads
    <3>2. rest \in MonitorLists
      BY <1>2, <3>1 DEF Takes, MonitorLists, Handing, Readying, Renaming, Informing
    <3> QED BY <1>2, <2>1, <3>2
  <2>2. CASE t # "monitor"
    BY <1>2, <1>3, <2>2 DEF CallsOfThreads
  <2> QED BY <2>1, <2>2
<1>5. pending["monitor"] # <<>> => todo'["monitor"] = <<>>
  BY <1>2, <1>3 DEF CallsOfThreads
<1>6. ASSUME NEW w \in Workers PROVE todo'[w] \in Seq(WorkerSteps) \cup Reconnects
  <2>1. CASE t = w
    <3>1. todo[t] \in Seq(WorkerSteps) \cup Reconnects
      BY <2>1 DEF CallsOfThreads
    <3> QED BY <1>1, <1>2, <2>1, <3>1, WorkerTakes
  <2>2. CASE t # w
    BY <1>2, <1>3, <2>2 DEF CallsOfThreads
  <2> QED BY <2>1, <2>2
<1> QED BY <1>2, <1>4, <1>5, <1>6, Constant DEF CallsOfThreads

LEMMA CallsByBegin ==
  ASSUME LifeLists, CallsOfThreads, NEW t \in LifeThreads, Begin(t)
  PROVE  CallsOfThreads'
<1> DEFINE ops == IF enabled THEN Callback[Head(pending[t])] ELSE <<>>
           later == Tail(pending[t])
<1>1. /\ pending[t] # <<>>
      /\ todo' = [todo EXCEPT ![t] = ops] /\ pending' = [pending EXCEPT ![t] = later]
  BY DEF Begin
<1>2. t \in {"monitor"} \cup Workers /\ "monitor" \notin Workers
  BY <1>1, LifeAssumption DEF LifeLists, LifeThreads
<1>3. CASE t = "monitor"
  <2>1. PICK c \in MonitorCalls : pending[t] = <<c>>
    BY <1>1, <1>3 DEF CallsOfThreads
  <2>2. Head(pending[t]) = c /\ later = <<>>
    BY <2>1, OneStep, NoneLeft
  <2>3. Callback[c] \in MonitorLists /\ <<>> \in MonitorLists
    BY CallsAre DEF MonitorCalls, MonitorLists, Readying, Renaming, Informing
  <2>4. ops \in MonitorLists
    BY <2>2, <2>3
  <2> HIDE DEF ops, later
  <2>5. todo'["monitor"] \in MonitorLists /\ pending'["monitor"] = <<>>
        /\ \A w \in Workers : todo'[w] = todo[w] /\ pending'[w] = pending[w]
    BY <1>1, <1>2, <1>3, <2>2, <2>4 DEF LifeLists, LifeThreads
  <2> QED BY <2>5, Constant DEF CallsOfThreads
<1>4. CASE t \in Workers
  <2>1. pending[t] \in Seq(WorkerCalls)
    BY <1>4 DEF CallsOfThreads
  <2>2. Head(pending[t]) \in WorkerCalls /\ later \in Seq(WorkerCalls)
    BY <1>1, <2>1, HeadTailProperties
  <2>3. ops \in Seq(WorkerSteps) \cup Reconnects
    <3>1. <<>> \in Seq(WorkerSteps)
      OBVIOUS
    <3> QED BY <2>2, <3>1, WorkerCallsAre
  <2> HIDE DEF ops, later
  <2>4. /\ todo'["monitor"] = todo["monitor"] /\ pending'["monitor"] = pending["monitor"]
        /\ \A w \in Workers \ {t} : todo'[w] = todo[w] /\ pending'[w] = pending[w]
        /\ todo'[t] = ops /\ pending'[t] = later
    BY <1>1, <1>2, <1>4 DEF LifeLists, LifeThreads
  <2>5. \A w \in Workers : todo'[w] \in Seq(WorkerSteps) \cup Reconnects /\ pending'[w] \in Seq(WorkerCalls)
    BY <2>2, <2>3, <2>4 DEF CallsOfThreads
  <2> QED BY <2>4, <2>5, Constant DEF CallsOfThreads
<1> QED BY <1>2, <1>3, <1>4

LEMMA CallsByMonitor ==
  ASSUME LifeLists, CallsOfThreads, NEW c \in MonitorCalls, Decide("monitor", <<c>>)
  PROVE  CallsOfThreads' /\ Idle("monitor") /\ todo' = todo /\ Calls(c)'
<1>1. /\ pending' = [pending EXCEPT !["monitor"] = <<c>>] /\ todo' = todo
      /\ todo["monitor"] = <<>> /\ Idle("monitor")
  BY DEF Decide, Idle
<1>2. pending'["monitor"] = <<c>> /\ \A w \in Workers : pending'[w] = pending[w]
  BY <1>1, LifeAssumption DEF LifeLists, LifeThreads
<1> QED BY <1>1, <1>2, Constant DEF CallsOfThreads, Calls

LEMMA CallsKept ==
  ASSUME CallsOfThreads, \A u \in {"monitor"} \cup Workers : todo'[u] = todo[u],
         pending' = pending
  PROVE  CallsOfThreads'
BY Constant DEF CallsOfThreads

LEMMA CallsByWorker ==
  ASSUME LifeLists, CallsOfThreads, NEW w \in Workers, Completion(w)
  PROVE  CallsOfThreads' /\ todo' = todo /\ pending'["monitor"] = pending["monitor"]
<1>1. /\ todo' = todo
      /\ \/ pending' = pending
         \/ \E c \in WorkerCalls : pending' = [pending EXCEPT ![w] = <<c>>]
         \/ pending' = [pending EXCEPT ![w] = <<"error", "ws_closed">>]
  <2>1. CASE LoginAnswered(w)
    BY <2>1 DEF LoginAnswered, CallOn, Decide, WorkerCalls
  <2>2. CASE Receive(w)
    BY <2>2 DEF Receive, CallOn, Decide, WorkerCalls
  <2>3. CASE SocketFails(w)
    BY <2>3 DEF SocketFails, CallOn, Decide, WorkerCalls
  <2>4. CASE NegotiationFails(w)
    BY <2>4 DEF NegotiationFails, CallOn, Decide, WorkerCalls
  <2> QED BY <2>1, <2>2, <2>3, <2>4 DEF Completion
<1>2. <<"error", "ws_closed">> \in Seq(WorkerCalls) /\ \A c \in WorkerCalls : <<c>> \in Seq(WorkerCalls)
  BY OfOne, OfTwo DEF WorkerCalls
<1>3. PICK calls \in Seq(WorkerCalls) : pending' = [pending EXCEPT ![w] = calls] \/ pending' = pending
  BY <1>1, <1>2
<1>4. /\ pending'["monitor"] = pending["monitor"]
      /\ \A u \in Workers : pending'[u] = pending[u] \/ pending'[u] = calls
  BY <1>3, LifeAssumption DEF LifeLists, LifeThreads
<1>5. \A u \in Workers : pending'[u] \in Seq(WorkerCalls)
  BY <1>4 DEF CallsOfThreads
<1> QED BY <1>1, <1>4, <1>5, Constant DEF CallsOfThreads

\* The callback of each thing that the network does.
LEMMA NetworkCalls ==
  ASSUME Network
  PROVE  \/ FrameDecoded
         \/ \E c \in MonitorCalls \ {"reconnect_ready"} : Decide("monitor", <<c>>)
BY DEF Network, WsOpens, WsCloses, PeerConnects, PeerDisconnects, PeerFails, ChannelOpens, ChannelCloses,
       ChannelChanges, DataMessage, Monitored, MonitorCalls

LEMMA CallsByOthers ==
  ASSUME LifeLists, CallsOfThreads,
         \/ BlockStarts \/ BlockFires \/ OpenWebSocket \/ Network \/ Connect \/ Close \/ Deinit
  PROVE  CallsOfThreads'
<1>1. "reconnect_ready" \in MonitorCalls
  BY DEF MonitorCalls
<1>2. CASE BlockStarts
  <2>1. pending' = pending /\ \A u \in LifeThreads \ {"block"} : todo'[u] = todo[u]
    BY <1>2 DEF BlockStarts, LifeLists
  <2> QED BY <2>1, CallsKept, LifeAssumption DEF LifeThreads
<1>3. CASE BlockFires
  <2>1. (pending' = pending /\ todo' = todo) \/ Decide("monitor", <<"reconnect_ready">>)
    BY <1>3 DEF BlockFires, Monitored
  <2> QED BY <1>1, <2>1, CallsKept, CallsByMonitor
<1>4. CASE OpenWebSocket
  BY <1>4, CallsKept DEF OpenWebSocket
<1>5. CASE Network
  <2>1. CASE FrameDecoded
    <3>1. pending' = pending /\ \A u \in LifeThreads \ {"video"} : todo'[u] = todo[u]
      BY <2>1 DEF FrameDecoded, LifeLists
    <3> QED BY <3>1, CallsKept, LifeAssumption DEF LifeThreads
  <2> QED BY <1>5, <2>1, NetworkCalls, CallsByMonitor
<1>6. CASE Connect \/ Close \/ Deinit
  <2>1. pending' = pending /\ \A u \in LifeThreads \ {"main"} : todo'[u] = todo[u]
    BY <1>6 DEF Connect, Close, Deinit, Host, LifeLists
  <2> QED BY <2>1, CallsKept, LifeAssumption DEF LifeThreads
<1> QED BY <1>2, <1>3, <1>4, <1>5, <1>6

-----------------------------------------------------------------------------
(* The mark is one.                                                         *)

LEMMA NoHanding ==
  /\ ({<<>>, <<<<"deliver">>>>} \cup Connects \cup Resets) \cap (Handing \cup Readying) = {}
<1>1. Connects = {<<>>, Connecting, AtConnectStore, AtConnect}
  BY DEF Connects, AtConnectStore, AtConnect
<1>2. Connects \cap (Handing \cup Readying) = {}
  BY <1>1, Apart DEF Renaming
<1>3. /\ NameOf(AtReset) = "beginReset" /\ NameOf(AtDetach) = "detach" /\ NameOf(AtEndReset) = "endReset"
      /\ NameOf(<<<<"deliver">>>>) = "deliver"
  BY CloseHeads, OneStep DEF NameOf
<1>4. ({<<<<"deliver">>>>} \cup Resets) \cap (Handing \cup Readying) = {}
  BY <1>3, Names, Apart DEF Resets, Handing, Readying
<1> QED BY <1>2, <1>4, Apart

\* What a thread's step does to the lists that carry the mark.
MarkMoves(t) ==
  /\ \A u \in LifeThreads \ {t} : todo'[u] = todo[u]
  /\ todo'[t] \in Handing => todo[t] \in Handing \/ First(t) = "schedule"
  /\ First(t) = "nativeSchedule" => todo[t] \in Handing /\ todo'[t] \notin Handing
  /\ First(t) = "schedule" => todo[t] \notin Handing
  /\ First(t) = "clear" => t = "monitor" /\ todo[t] \in Readying /\ todo'[t] \notin Readying
  /\ todo'["monitor"] \in Readying => todo["monitor"] \in Readying
  /\ pending' = pending /\ closed' = closed

LEMMA MarksMove ==
  ASSUME LifeLists, CallsOfThreads, ~closed, NEW t \in LifeThreads, LifeStep(t)
  PROVE  MarkMoves(t)
<1>1. PICK rest : Follows(t, rest) /\ todo' = [todo EXCEPT ![t] = rest]
  BY DEF LifeStep
<1>2. /\ todo'[t] = rest /\ \A u \in LifeThreads \ {t} : todo'[u] = todo[u]
      /\ pending' = pending /\ closed' = closed /\ todo[t] # <<>>
  BY <1>1 DEF LifeLists, LifeStep
<1>3. {"monitor", "main", "block", "video"} \cap Workers = {} /\ "monitor" \in LifeThreads
  BY LifeAssumption DEF LifeThreads
<1>4. LifeLists'
  BY ListsMove
<1>5. CASE t \in {"main", "block", "video"}
  <2>1. todo[t] \notin Handing /\ todo'[t] \notin Handing
    <3>1. CASE t = "main"
      <4>1. todo[t] \in Connects /\ todo'[t] \in Connects
        BY <1>2, <1>4, <3>1 DEF LifeLists, Connects
      <4> QED BY <4>1, NoHanding
    <3>2. CASE t = "block"
      <4>1. todo[t] \in Resets /\ todo'[t] \in Resets
        BY <1>2, <1>4, <3>2 DEF LifeLists, Resets
      <4> QED BY <4>1, NoHanding
    <3>3. CASE t = "video"
      <4>1. todo[t] \in {<<>>, <<<<"deliver">>>>} /\ todo'[t] \in {<<>>, <<<<"deliver">>>>}
        BY <1>2, <1>4, <3>3 DEF LifeLists
      <4> QED BY <4>1, NoHanding
    <3> QED BY <1>5, <3>1, <3>2, <3>3
  <2>2. First(t) \notin {"schedule", "nativeSchedule", "clear"}
    <3>1. CASE t = "main"
      BY <1>2, <3>1, ConnectMoves DEF LifeLists, First
    <3>2. CASE t = "block"
      BY <1>2, <3>2, ResetMoves DEF LifeLists, First
    <3>3. CASE t = "video"
      BY <1>2, <3>3, OneStep DEF LifeLists, First
    <3> QED BY <1>5, <3>1, <3>2, <3>3
  <2> QED BY <1>2, <1>3, <1>5, <2>1, <2>2 DEF MarkMoves
<1>6. CASE t \in Workers
  <2>1. todo[t] \in Seq(WorkerSteps) \cup Reconnects
    BY <1>6 DEF CallsOfThreads
  <2>2. /\ First(t) \in WorkerNames \cup {"stopIfClosed", "schedule", "nativeSchedule"}
        /\ rest \in Handing => todo[t] \in Handing \/ (todo[t] = AtSchedule /\ rest = AtInvalidate)
        /\ First(t) = "nativeSchedule" => todo[t] \in Handing /\ rest = <<>>
        /\ First(t) = "schedule" => todo[t] = AtSchedule
    BY <1>1, <1>2, <2>1, WorkerTakes
  <2>3. AtSchedule \notin Handing /\ <<>> \notin Handing /\ NameOf(AtSchedule) = "schedule"
    BY Apart, Names DEF Renaming
  <2> QED BY <1>2, <1>3, <1>6, <2>2, <2>3 DEF MarkMoves, WorkerNames, First, NameOf
<1>7. CASE t = "monitor"
  <2>1. todo[t] \in MonitorLists /\ Takes(todo[t], rest)
    BY <1>1, <1>2, <1>7, MonitorTakes DEF CallsOfThreads
  <2>2. rest \in Handing => todo[t] \in Handing \cup {AtSchedule}
    BY <1>2, <2>1, Apart DEF Takes, MonitorLists, Renaming, Readying, Informing
  <2>3. First(t) = "nativeSchedule" => todo[t] = AtNative
    BY <1>2, <2>1, Names DEF MonitorLists, Handing, Renaming, Readying, Informing, First, NameOf
  <2>4. First(t) = "schedule" => todo[t] = AtSchedule
    BY <1>2, <2>1, Names DEF MonitorLists, Handing, Renaming, Readying, Informing, First, NameOf
  <2>5. First(t) = "clear" => todo[t] = AtClear
    BY <1>2, <2>1, Names DEF MonitorLists, Handing, Renaming, Readying, Informing, First, NameOf
  <2>6. rest \in Readying => todo[t] \in Readying
    BY <1>2, <2>1, Apart DEF Takes, MonitorLists, Handing, Renaming, Readying, Informing
  <2>7. AtSchedule \notin Handing /\ <<>> \notin Handing /\ AtNative \in Handing
        /\ NameOf(AtSchedule) = "schedule"
    BY Apart, Names DEF Renaming, Handing
  <2>8. todo[t] = AtClear => rest = AtStopped /\ AtStopped \notin Readying /\ AtClear \in Readying
    BY <2>1, Apart DEF Takes, Renaming, Readying
  <2>9. todo[t] = AtNative => rest = <<>>
    BY <2>1 DEF Takes
  <2> QED BY <1>2, <1>7, <2>2, <2>3, <2>4, <2>5, <2>6, <2>7, <2>8, <2>9 DEF MarkMoves, First, NameOf
<1> QED BY <1>5, <1>6, <1>7 DEF LifeThreads

\* A step's name tells the action.
LEMMA StepNames ==
  ASSUME NEW t
  PROVE  /\ InvalidateTransport(t) => First(t) = "invalidate"
         /\ SetLifecycle(t) => First(t) = "set"
         /\ StoreLifecycle(t) => First(t) = "store"
         /\ StopIfClosed(t) => First(t) = "stopIfClosed"
         /\ Schedule(t) => First(t) = "schedule"
         /\ ClearScheduled(t) => First(t) = "clear"
         /\ OpenData(t) => First(t) = "openData"
         /\ Observe(t) => First(t) = "observe"
         /\ Deliver(t) => First(t) = "deliver"
         /\ NativeSchedule(t) => First(t) = "nativeSchedule"
         /\ NativeConnect(t) => First(t) = "connect"
         /\ Request(t) => First(t) = "request"
         /\ StillCurrent(t) => First(t) = "current"
         /\ CreatePeer(t) => First(t) = "createPeer"
         /\ SetRemote(t) => First(t) = "setRemote"
         /\ NativeClosing(t) => First(t) = "nativeClosing"
         /\ Disable(t) => First(t) = "disable"
         /\ Drain(t) => First(t) = "drain"
         /\ BeginReset(t) => First(t) = "beginReset"
         /\ Detach(t) => First(t) = "detach"
         /\ EndReset(t) => First(t) = "endReset"
         /\ Destroy(t) => First(t) = "destroy"
<1> USE DEF At, First
<1>1. /\ InvalidateTransport(t) => First(t) = "invalidate"
      /\ SetLifecycle(t) => First(t) = "set"
      /\ StoreLifecycle(t) => First(t) = "store"
      /\ StopIfClosed(t) => First(t) = "stopIfClosed"
      /\ Schedule(t) => First(t) = "schedule"
      /\ ClearScheduled(t) => First(t) = "clear"
  BY DEF InvalidateTransport, SetLifecycle, StoreLifecycle, StopIfClosed, Schedule, ClearScheduled
<1>2. /\ OpenData(t) => First(t) = "openData"
      /\ Observe(t) => First(t) = "observe"
      /\ Deliver(t) => First(t) = "deliver"
      /\ NativeSchedule(t) => First(t) = "nativeSchedule"
      /\ NativeConnect(t) => First(t) = "connect"
      /\ Request(t) => First(t) = "request"
  BY DEF OpenData, Observe, Deliver, NativeSchedule, NativeConnect, Request
<1>3. /\ StillCurrent(t) => First(t) = "current"
      /\ CreatePeer(t) => First(t) = "createPeer"
      /\ SetRemote(t) => First(t) = "setRemote"
      /\ NativeClosing(t) => First(t) = "nativeClosing"
      /\ Disable(t) => First(t) = "disable"
      /\ Drain(t) => First(t) = "drain"
  BY DEF StillCurrent, CreatePeer, SetRemote, NativeClosing, Disable, Drain
<1>4. /\ BeginReset(t) => First(t) = "beginReset"
      /\ Detach(t) => First(t) = "detach"
      /\ EndReset(t) => First(t) = "endReset"
      /\ Destroy(t) => First(t) = "destroy"
  BY DEF BeginReset, Detach, EndReset, Destroy
<1> QED BY <1>1, <1>2, <1>3, <1>4

LEMMA ScheduledOnce ==
  ASSUME LifeLists, NEW t \in LifeThreads, ZigStep(t) \/ BridgeStep(t) \/ TeardownStep(t),
         First(t) = "schedule"
  PROVE  scheduled' = TRUE /\ (scheduled => todo'[t] = <<>>)
<1>1. Schedule(t)
  BY StepNames DEF ZigStep, BridgeStep, TeardownStep
<1> QED BY <1>1 DEF Schedule, Goto, LifeLists

LEMMA MarkOnceByThread ==
  ASSUME LifeLists, LifeFlags, CallsOfThreads, OneMark, NEW t \in LifeThreads,
         ZigStep(t) \/ BridgeStep(t) \/ TeardownStep(t)
  PROVE  OneMark'
<1>1. LifeStep(t) /\ ThreadKeeps(t) /\ ThreadLeaves(t)
  BY IsLifeStep, ThreadSteps
<1> SUFFICES ASSUME ~closed' PROVE OneMark'
  BY DEF OneMark
<1>2. ~closed /\ MarkMoves(t)
  BY <1>1, MarksMove DEF LifeStep
<1>3. /\ \A u \in LifeThreads : todo[u] \in Handing =>
           /\ scheduled /\ block = "none" /\ ~Clearing
           /\ \A v \in LifeThreads : todo[v] \in Handing => v = u
      /\ block # "none" => scheduled /\ ~Clearing
      /\ Clearing => scheduled
  BY <1>2 DEF OneMark
<1>4. Clearing' => Clearing
  BY <1>2, Constant DEF MarkMoves, Clearing, Calls
<1>5. CASE First(t) = "schedule"
  <2>1. scheduled' = TRUE /\ (scheduled => todo'[t] = <<>>) /\ block' = block
    BY <1>1, <1>5, ScheduledOnce DEF ThreadKeeps
  <2>2. <<>> \notin Handing
    BY Apart
  <2>3. CASE scheduled
    <3>1. \A u \in LifeThreads : todo'[u] \in Handing => u # t /\ todo[u] \in Handing
      BY <1>2, <2>1, <2>2, <2>3 DEF MarkMoves
    <3> QED BY <1>3, <1>4, <2>1, <3>1, Constant DEF OneMark
  <2>4. CASE ~scheduled
    <3>1. /\ block = "none" /\ ~Clearing
          /\ \A u \in LifeThreads : todo[u] \notin Handing
      BY <1>3, <2>4 DEF LifeFlags
    <3>2. \A u \in LifeThreads : todo'[u] \in Handing => u = t
      BY <1>2, <3>1 DEF MarkMoves
    <3> QED BY <1>4, <2>1, <3>1, <3>2, Constant DEF OneMark
  <2> QED BY <2>3, <2>4
<1>6. CASE First(t) = "clear"
  <2>1. Clearing /\ ~Clearing'
    <3>1. "monitor" \in LifeThreads /\ todo["monitor"] \in Readying /\ todo'["monitor"] \notin Readying
          /\ pending' = pending
      BY <1>2, <1>6 DEF MarkMoves, LifeThreads
    <3>2. pending["monitor"] = <<>>
      BY <3>1, Apart DEF CallsOfThreads
    <3>3. \A c : <<c>> # <<>>
      BY OneStep
    <3> QED BY <3>1, <3>2, <3>3, Constant DEF Clearing, Calls
  <2>2. block' = block /\ \A u \in LifeThreads : todo'[u] \in Handing => todo[u] \in Handing
    BY <1>1, <1>2, <1>6 DEF ThreadKeeps, MarkMoves
  <2> QED BY <1>3, <2>1, <2>2, Constant DEF OneMark
<1>7. CASE First(t) = "nativeSchedule"
  <2>1. \A u \in LifeThreads : todo'[u] \notin Handing
    BY <1>2, <1>3, <1>7 DEF MarkMoves
  <2>2. scheduled /\ scheduled' = scheduled /\ ~Clearing
    BY <1>1, <1>2, <1>3, <1>7 DEF MarkMoves, ThreadKeeps
  <2> QED BY <1>4, <2>1, <2>2, Constant DEF OneMark
<1>8. CASE First(t) \notin {"schedule", "clear", "nativeSchedule"}
  <2>1. block' = block /\ scheduled' = scheduled
        /\ \A u \in LifeThreads : todo'[u] \in Handing => todo[u] \in Handing
    BY <1>1, <1>2, <1>8 DEF ThreadKeeps, MarkMoves
  <2> QED BY <1>3, <1>4, <2>1, Constant DEF OneMark
<1> QED BY <1>5, <1>6, <1>7, <1>8

LEMMA MarkOnceByBegin ==
  ASSUME LifeLists, LifeFlags, CloseLeaves, CallsOfThreads, OneMark, NEW t \in LifeThreads, Begin(t)
  PROVE  OneMark'
<1>1. closed' = closed /\ scheduled' = scheduled /\ block' = block
  BY DEF Begin, zigVars, nativeVars
<1> SUFFICES ASSUME ~closed PROVE OneMark'
  BY <1>1 DEF OneMark
<1>2. /\ todo[t] = <<>> /\ pending[t] # <<>>
      /\ todo' = [todo EXCEPT ![t] = Callback[Head(pending[t])]]
      /\ pending' = [pending EXCEPT ![t] = Tail(pending[t])]
  BY DEF Begin, CloseLeaves
<1>3. t \in {"monitor"} \cup Workers /\ "monitor" \notin Workers /\ "monitor" \in LifeThreads
  BY <1>2, LifeAssumption DEF LifeLists, LifeThreads
<1>4. Callback[Head(pending[t])] \notin Handing
  <2>1. CASE t = "monitor"
    <3>1. PICK c \in MonitorCalls : pending[t] = <<c>>
      BY <1>2, <2>1 DEF CallsOfThreads
    <3>2. Callback[c] \notin Handing
      BY CallsAre, Apart DEF MonitorCalls, Renaming, Readying, Informing
    <3> QED BY <3>1, <3>2, OneStep
  <2>2. CASE t \in Workers
    <3>1. Head(pending[t]) \in WorkerCalls
      BY <1>2, <2>2, HeadTailProperties DEF CallsOfThreads
    <3>2. \A c \in WorkerCalls : Callback[c] \notin Handing
      <4>1. Callback["ws_closed"] = Reconnect /\ Reconnect \notin Handing
        BY CallsAre, Apart DEF Renaming
      <4>2. \A c \in WorkerCalls \ {"ws_closed"} : Callback[c] \in Seq(WorkerSteps)
        BY WorkerLists, WorkerOwn
      <4> QED BY <4>1, <4>2, WorkerApart
    <3> QED BY <3>1, <3>2
  <2> QED BY <1>3, <2>1, <2>2
<1>5. \A u \in LifeThreads : todo'[u] \in Handing => todo[u] \in Handing
  BY <1>2, <1>4 DEF LifeLists
<1>6. Clearing' => Clearing
  <2>1. CASE t # "monitor"
    <3>1. todo'["monitor"] = todo["monitor"] /\ pending'["monitor"] = pending["monitor"]
      BY <1>2, <1>3, <2>1 DEF LifeLists
    <3> QED BY <3>1, Constant DEF Clearing, Calls
  <2>2. CASE t = "monitor"
    <3>1. PICK c \in MonitorCalls : pending[t] = <<c>>
      BY <1>2, <2>2 DEF CallsOfThreads
    <3>2. todo'["monitor"] = Callback[c] /\ pending'["monitor"] = <<>>
      BY <1>2, <1>3, <2>2, <3>1, OneStep, NoneLeft DEF LifeLists
    <3>3. c # "reconnect_ready" => Callback[c] \notin Readying
      BY CallsAre, Apart DEF MonitorCalls, Renaming, Informing
    <3>4. c = "reconnect_ready" => Clearing
      BY <2>2, <3>1 DEF Clearing, Calls
    <3>5. \A d : <<d>> # <<>>
      BY OneStep
    <3> QED BY <3>2, <3>3, <3>4, <3>5, Constant DEF Clearing, Calls
  <2> QED BY <2>1, <2>2
<1> QED BY <1>1, <1>5, <1>6, Constant DEF OneMark

LEMMA MarkOnceByOthers ==
  ASSUME LifeLists, LifeFlags, CloseLeaves, CallsOfThreads, OneMark,
         \/ \E w \in Workers : Completion(w)
         \/ BlockStarts \/ BlockFires \/ OpenWebSocket \/ Network \/ Connect \/ Close \/ Deinit
  PROVE  OneMark'
<1> SUFFICES ASSUME ~closed' PROVE OneMark'
  BY DEF OneMark
<1>1. ~closed /\ closed' = closed /\ scheduled' = scheduled
  BY DEF Completion, LoginAnswered, Receive, SocketFails, NegotiationFails, BlockStarts, BlockFires,
         OpenWebSocket, Network, WsOpens, WsCloses, PeerConnects, PeerDisconnects, PeerFails,
         ChannelOpens, ChannelCloses, ChannelChanges, DataMessage, FrameDecoded, zigVars, Connect, Close,
         Deinit, Host
<1>2. /\ \A u \in LifeThreads : todo[u] \in Handing =>
           /\ scheduled /\ block = "none" /\ ~Clearing
           /\ \A v \in LifeThreads : todo[v] \in Handing => v = u
      /\ block # "none" => scheduled /\ ~Clearing
      /\ Clearing => scheduled
  BY <1>1 DEF OneMark
<1>3. ASSUME block' = "none" \/ block # "none", Clearing' => Clearing,
             \A u \in LifeThreads : todo'[u] \in Handing => todo[u] \in Handing
      PROVE  OneMark'
  BY <1>1, <1>2, <1>3, Constant DEF OneMark
<1>4. CASE \E w \in Workers : Completion(w)
  <2>1. PICK w \in Workers : Completion(w)
    BY <1>4
  <2>2. block' = block
    BY <2>1 DEF Completion, LoginAnswered, Receive, SocketFails, NegotiationFails, nativeVars
  <2>3. todo' = todo /\ pending'["monitor"] = pending["monitor"]
    BY <2>1, CallsByWorker
  <2> QED BY <1>3, <2>2, <2>3, Constant DEF Clearing, Calls
<1>5. CASE BlockStarts
  <2>1. /\ block # "none" /\ pending' = pending
        /\ todo' = todo \/ todo' = [todo EXCEPT !["block"] = AtReset]
    BY <1>5, ResetIs DEF BlockStarts
  <2>2. AtReset \notin Handing
    BY NoHanding DEF Resets
  <2>3. \A u \in LifeThreads : todo'[u] \in Handing => todo[u] \in Handing
    BY <2>1, <2>2 DEF LifeLists
  <2>4. todo'["monitor"] = todo["monitor"]
    BY <2>1 DEF LifeLists, LifeThreads
  <2> QED BY <1>3, <2>1, <2>3, <2>4, Constant DEF Clearing, Calls
<1>6. CASE BlockFires
  <2>1. block # "none" /\ block' = "none" /\ todo' = todo
    BY <1>6 DEF BlockFires, Monitored, Decide
  <2>2. scheduled /\ \A u \in LifeThreads : todo[u] \notin Handing
    BY <1>2, <2>1
  <2> QED BY <1>1, <2>1, <2>2, Constant DEF OneMark
<1>7. CASE OpenWebSocket
  BY <1>3, <1>7, Constant DEF OpenWebSocket, nativeVars, Clearing, Calls
<1>8. CASE Network
  <2>1. block' = block
    BY <1>8 DEF Network, WsOpens, WsCloses, PeerConnects, PeerDisconnects, PeerFails, ChannelOpens,
                ChannelCloses, ChannelChanges, DataMessage, FrameDecoded, nativeVars
  <2>2. CASE FrameDecoded
    <3>1. pending' = pending /\ todo' = [todo EXCEPT !["video"] = <<<<"deliver">>>>]
      BY <2>2 DEF FrameDecoded, Callback
    <3>2. <<<<"deliver">>>> \notin Handing
      BY NoHanding
    <3>3. \A u \in LifeThreads : todo'[u] \in Handing => todo[u] \in Handing
      BY <3>1, <3>2 DEF LifeLists
    <3>4. todo'["monitor"] = todo["monitor"]
      BY <3>1 DEF LifeLists, LifeThreads
    <3> QED BY <1>3, <2>1, <3>1, <3>3, <3>4, Constant DEF Clearing, Calls
  <2>3. CASE ~FrameDecoded
    <3>1. PICK c \in MonitorCalls \ {"reconnect_ready"} : Decide("monitor", <<c>>)
      BY <1>8, <2>3, NetworkCalls
    <3>2. todo' = todo /\ pending'["monitor"] = <<c>> /\ todo["monitor"] = <<>>
      BY <3>1 DEF Decide, Idle, LifeLists, LifeThreads
    <3>3. <<c>> # <<"reconnect_ready">> /\ <<>> \notin Readying
      BY <3>1, OneStep, Apart
    <3> QED BY <1>3, <2>1, <3>2, <3>3, Constant DEF Clearing, Calls
  <2> QED BY <2>2, <2>3
<1>9. CASE Connect \/ Close \/ Deinit
  <2>1. Connect
    BY <1>1, <1>9 DEF Close, Deinit
  <2>2. block' = block /\ pending' = pending /\ todo' = [todo EXCEPT !["main"] = Connecting]
    BY <2>1 DEF Connect, Host, nativeVars
  <2>3. Connecting \notin Handing
    BY Apart DEF Renaming
  <2>4. \A u \in LifeThreads : todo'[u] \in Handing => todo[u] \in Handing
    BY <2>2, <2>3 DEF LifeLists
  <2>5. todo'["monitor"] = todo["monitor"]
    BY <2>2 DEF LifeLists, LifeThreads
  <2> QED BY <1>3, <2>2, <2>4, <2>5, Constant DEF Clearing, Calls
<1> QED BY <1>4, <1>5, <1>6, <1>7, <1>8, <1>9

-----------------------------------------------------------------------------
(* What a thread's step does to the transport, and to what is said of it.   *)

TransportMoves(t) ==
  \/ peer' = peer /\ lifeChannel' = lifeChannel
  \/ /\ First(t) = "createPeer" /\ peer = "none"
     /\ peer' = "new" /\ lifeChannel' = "connecting"
  \/ /\ First(t) = "setRemote" /\ peer = "new"
     /\ peer' = "checking" /\ lifeChannel' = lifeChannel
  \/ /\ First(t) = "detach" /\ ~Blocked(t)
     /\ peer' = "none" /\ lifeChannel' = "none"

ReportMoves(t) ==
  /\ First(t) = "invalidate" => lifeData' = FALSE /\ cursor' = FALSE
  /\ First(t) \notin {"invalidate", "openData"} => lifeData' = lifeData
  /\ First(t) \notin {"invalidate", "observe"} => cursor' = cursor
  /\ IF First(t) = "store" THEN lifecycle' = Head(todo[t])[2] ELSE lifecycle' = lifecycle
  /\ First(t) = "stopIfClosed" /\ ~closed => todo'[t] = Tail(todo[t])
  /\ First(t) = "set" /\ ~closed => todo'[t] = <<<<"store", Head(todo[t])[2]>>>> \o Tail(todo[t])

LEMMA TransportSteps ==
  ASSUME LifeLists, NEW t \in LifeThreads, ZigStep(t) \/ BridgeStep(t) \/ TeardownStep(t)
  PROVE  TransportMoves(t) /\ ReportMoves(t)
<1> USE DEF TransportMoves, ReportMoves
<1>1. CASE InvalidateTransport(t)
  BY <1>1, StepNames DEF InvalidateTransport, linkVars
<1>2. CASE SetLifecycle(t)
  BY <1>2, StepNames DEF SetLifecycle, Goto, LifeLists, zigVars, linkVars
<1>3. CASE StoreLifecycle(t)
  BY <1>3, StepNames DEF StoreLifecycle, linkVars
<1>4. CASE StopIfClosed(t)
  BY <1>4, StepNames DEF StopIfClosed, Goto, LifeLists, zigVars, linkVars
<1>5. CASE Schedule(t)
  BY <1>5, StepNames DEF Schedule, linkVars
<1>6. CASE ClearScheduled(t)
  BY <1>6, StepNames DEF ClearScheduled, linkVars
<1>7. CASE OpenData(t)
  BY <1>7, StepNames DEF OpenData, linkVars
<1>8. CASE Observe(t)
  BY <1>8, StepNames DEF Observe, linkVars
<1>9. CASE Deliver(t)
  BY <1>9, StepNames DEF Deliver, zigVars, linkVars
<1>10. CASE NativeSchedule(t)
  BY <1>10, StepNames DEF NativeSchedule, zigVars, linkVars
<1>11. CASE NativeConnect(t)
  BY <1>11, StepNames DEF NativeConnect, zigVars
<1>12. CASE Request(t)
  BY <1>12, StepNames DEF Request, zigVars
<1>13. CASE StillCurrent(t)
  BY <1>13, StepNames DEF StillCurrent, zigVars, linkVars
<1>14. CASE CreatePeer(t)
  BY <1>14, StepNames DEF CreatePeer, CanAdopt, zigVars
<1>15. CASE SetRemote(t)
  BY <1>15, StepNames DEF SetRemote, zigVars
<1>16. CASE NativeClosing(t) \/ Disable(t) \/ Drain(t)
  BY <1>16, StepNames DEF NativeClosing, Disable, Drain, zigVars, linkVars
<1>17. CASE BeginReset(t) \/ EndReset(t) \/ Destroy(t)
  BY <1>17, StepNames DEF BeginReset, EndReset, Destroy, zigVars, linkVars
<1>18. CASE Detach(t)
  BY <1>18, StepNames DEF Detach, At, zigVars
<1> QED
  BY <1>1, <1>2, <1>3, <1>4, <1>5, <1>6, <1>7, <1>8, <1>9, <1>10, <1>11, <1>12, <1>13, <1>14, <1>15,
     <1>16, <1>17, <1>18 DEF ZigStep, BridgeStep, TeardownStep

\* The steps that only one kind of thread takes.
LEMMA OtherNames ==
  ASSUME LifeLists, CallsOfThreads, NEW t \in LifeThreads \ {"monitor"}, todo[t] # <<>>
  PROVE  /\ First(t) \notin {"openData", "observe", "clear"}
         /\ First(t) = "store" /\ ~closed => Head(todo[t])[2] # "connected"
         /\ First(t) = "detach" => t = "block" \/ closed
<1>1. CASE t \in Workers
  <2>1. todo[t] \in Seq(WorkerSteps) \cup Reconnects
    BY <1>1 DEF CallsOfThreads
  <2>2. CASE todo[t] \in Seq(WorkerSteps)
    BY <2>2, WorkerHead DEF WorkerNames, First, NameOf
  <2>3. CASE todo[t] \in Reconnects
    BY <2>3, Names, Arguments DEF Reconnects, Handing, First, NameOf
  <2> QED BY <2>1, <2>2, <2>3
<1>2. CASE t = "main"
  <2>1. CASE closed
    BY <1>2, <2>1, CloseMoves DEF LifeLists, First
  <2>2. CASE ~closed
    <3>1. todo[t] \in {Connecting, AtConnectStore, AtConnect}
      BY <1>2, <2>2 DEF LifeLists, Connects, AtConnectStore, AtConnect
    <3> QED BY <3>1, Names, Arguments DEF First, NameOf
  <2> QED BY <2>1, <2>2
<1>3. CASE t = "block"
  BY <1>3, ResetMoves DEF LifeLists, First
<1>4. CASE t = "video"
  BY <1>4, OneStep DEF LifeLists, First
<1> QED BY <1>1, <1>2, <1>3, <1>4 DEF LifeThreads

LEMMA MonitorNames ==
  ASSUME CallsOfThreads, todo["monitor"] # <<>>
  PROVE  First("monitor") \notin {"createPeer", "setRemote", "detach"}
BY Names DEF CallsOfThreads, MonitorLists, Handing, Readying, Renaming, Informing, First, NameOf

LEMMA OneApart ==
  /\ AtConnected \notin {ConnectedStore, AtOpenData, AtObserve}
  /\ ConnectedStore \notin {AtOpenData, AtObserve} /\ AtOpenData # AtObserve
BY Names

\* What the monitor has left does not become a report, but for the store.
LEMMA ReportByThread ==
  ASSUME LifeLists, CallsOfThreads, ReportIsTrue, NEW t \in LifeThreads,
         ZigStep(t) \/ BridgeStep(t) \/ TeardownStep(t)
  PROVE  ReportIsTrue'
<1>1. LifeStep(t) /\ TransportMoves(t) /\ "monitor" \in LifeThreads /\ todo[t] # <<>>
  BY IsLifeStep, TransportSteps DEF LifeStep, LifeThreads
<1>2. PICK rest : Follows(t, rest) /\ todo' = [todo EXCEPT ![t] = rest]
  BY <1>1 DEF LifeStep
<1>3. pending' = pending /\ \A u \in LifeThreads \ {t} : todo'[u] = todo[u]
  BY <1>1, <1>2 DEF LifeStep, LifeLists
<1>4. /\ AtConnected' = AtConnected /\ ConnectedStore' = ConnectedStore
      /\ AtOpenData' = AtOpenData /\ AtObserve' = AtObserve
  BY DEF AtConnected, ConnectedStore, AtOpenData, AtObserve
<1>5. CASE t = "monitor"
  <2>1. peer' = peer /\ lifeChannel' = lifeChannel
    BY <1>1, <1>5, MonitorNames DEF TransportMoves
  <2>2. Takes(todo["monitor"], todo'["monitor"]) /\ todo["monitor"] \in MonitorLists
    BY <1>1, <1>2, <1>5, MonitorTakes DEF CallsOfThreads, LifeLists
  <2>5. \/ todo["monitor"] = AtConnected /\ todo'["monitor"] = ConnectedStore
        \/ todo'["monitor"] \in {<<>>, AtConnect} \cup Handing \cup Readying \cup Renaming
    BY <1>1, <1>5, <2>2 DEF Takes, MonitorLists, Handing, Readying, Renaming, Informing
  <2>3. todo'["monitor"] \notin {AtConnected, AtOpenData, AtObserve}
    BY <2>5, Apart, OneApart DEF Informing
  <2>4. todo'["monitor"] = ConnectedStore => todo["monitor"] = AtConnected
    BY <2>5, Apart, OneApart DEF Informing
  <2> QED BY <1>3, <1>4, <2>1, <2>3, <2>4 DEF ReportIsTrue, Calls, Does
<1>6. CASE t # "monitor"
  <2>1. todo'["monitor"] = todo["monitor"]
    BY <1>1, <1>3, <1>6
  <2>2. CASE peer' = peer /\ lifeChannel' = lifeChannel
    BY <1>3, <1>4, <2>1, <2>2 DEF ReportIsTrue, Calls, Does
  <2>3. CASE First(t) = "createPeer" /\ peer = "none" /\ peer' = "new" /\ lifeChannel' = "connecting"
    BY <1>3, <1>4, <2>1, <2>3 DEF ReportIsTrue, Calls, Does
  <2>4. CASE First(t) = "setRemote" /\ peer = "new" /\ peer' = "checking" /\ lifeChannel' = lifeChannel
    BY <1>3, <1>4, <2>1, <2>4 DEF ReportIsTrue, Calls, Does
  <2>5. CASE First(t) = "detach" /\ ~Blocked(t) /\ peer' = "none" /\ lifeChannel' = "none"
    <3>1. pending["monitor"] = <<>> /\ todo["monitor"] = <<>>
      BY <1>6, <2>5 DEF Blocked, UnderMonitor, MonitorFor, Idle, First
    <3>2. <<>> \notin {AtConnected, ConnectedStore, AtOpenData, AtObserve} /\ \A c : <<c>> # <<>>
      BY Apart, OneStep DEF Informing
    <3> QED BY <1>3, <1>4, <2>1, <2>5, <3>1, <3>2 DEF ReportIsTrue, Calls, Does
  <2> QED BY <1>1, <2>2, <2>3, <2>4, <2>5 DEF TransportMoves
<1> QED BY <1>5, <1>6

LEMMA ListsAreConstant ==
  /\ AtConnected' = AtConnected /\ ConnectedStore' = ConnectedStore
  /\ AtOpenData' = AtOpenData /\ AtObserve' = AtObserve
  /\ AtClear' = AtClear /\ AtForget' = AtForget
BY DEF AtConnected, ConnectedStore, AtOpenData, AtObserve, AtClear, AtForget

LEMMA CallsDiffer == ASSUME NEW c, NEW d, <<c>> = <<d>> PROVE c = d
BY OneStep

\* The monitor begins its callback.
LEMMA MonitorBegins ==
  ASSUME LifeLists, CallsOfThreads, Begin("monitor")
  PROVE  \E c \in MonitorCalls :
           /\ Calls(c) /\ todo["monitor"] = <<>> /\ pending'["monitor"] = <<>>
           /\ todo'["monitor"] = IF enabled THEN Callback[c] ELSE <<>>
<1>1. pending["monitor"] # <<>> /\ todo["monitor"] = <<>> /\ "monitor" \in LifeThreads
  BY DEF Begin, LifeThreads
<1>2. PICK c \in MonitorCalls : pending["monitor"] = <<c>>
  BY <1>1 DEF CallsOfThreads
<1>3. Head(pending["monitor"]) = c /\ Tail(pending["monitor"]) = <<>>
  BY <1>2, OneStep, NoneLeft
<1>4. /\ todo' = [todo EXCEPT !["monitor"] = IF enabled THEN Callback[c] ELSE <<>>]
      /\ pending' = [pending EXCEPT !["monitor"] = <<>>]
  BY <1>3 DEF Begin
<1>5. /\ todo'["monitor"] = IF enabled THEN Callback[c] ELSE <<>>
      /\ pending'["monitor"] = <<>>
  BY <1>1, <1>4 DEF LifeLists
<1> QED BY <1>1, <1>2, <1>5 DEF Calls

LEMMA MonitorWaits ==
  ASSUME LifeLists, NEW t \in LifeThreads \ {"monitor"}, Begin(t)
  PROVE  todo'["monitor"] = todo["monitor"] /\ pending'["monitor"] = pending["monitor"]
BY DEF Begin, LifeLists, LifeThreads

LEMMA ReportByBegin ==
  ASSUME LifeLists, CallsOfThreads, ReportIsTrue, NEW t \in LifeThreads, Begin(t)
  PROVE  ReportIsTrue'
<1>1. peer' = peer /\ lifeChannel' = lifeChannel
  BY DEF Begin, linkVars
<1>2. CASE t # "monitor"
  BY <1>1, <1>2, MonitorWaits, ListsAreConstant DEF ReportIsTrue, Calls, Does
<1>3. CASE t = "monitor"
  <2>1. PICK c \in MonitorCalls :
           /\ Calls(c) /\ todo["monitor"] = <<>> /\ pending'["monitor"] = <<>>
           /\ todo'["monitor"] = IF enabled THEN Callback[c] ELSE <<>>
    BY <1>3, MonitorBegins
  <2>2. <<>> \notin Informing /\ \A d : <<d>> # <<>>
    BY Apart, OneStep
  <2>3. Callback[c] \in Informing =>
          \/ c = "peer_connected" /\ Callback[c] = AtConnected
          \/ c = "data_open" /\ Callback[c] = AtOpenData
          \/ c = "data_message" /\ Callback[c] = AtObserve
    BY CallsAre, Apart DEF MonitorCalls, Renaming, Readying
  <2>4. Calls("peer_connected") => peer = "connected"
    BY DEF ReportIsTrue
  <2>5. Calls("data_open") \/ Calls("data_message") => lifeChannel = "open"
    BY DEF ReportIsTrue
  <2>6. peer = "none" => lifeChannel = "none"
    BY DEF ReportIsTrue
  <2>7. todo'["monitor"] \in Informing => todo'["monitor"] = Callback[c]
    BY <2>1, <2>2
  <2>8. todo'["monitor"] \in {AtConnected, ConnectedStore} => peer = "connected"
    BY <2>1, <2>3, <2>4, <2>7, OneApart DEF Informing
  <2>9. todo'["monitor"] \in {AtOpenData, AtObserve} => lifeChannel = "open"
    BY <2>1, <2>3, <2>5, <2>7, OneApart DEF Informing
  <2> QED BY <1>1, <2>1, <2>2, <2>6, <2>8, <2>9, ListsAreConstant DEF ReportIsTrue, Calls, Does
<1> QED BY <1>2, <1>3

\* The monitor decides on a callback.
LEMMA MonitorDecides ==
  ASSUME LifeLists, NEW c, Decide("monitor", <<c>>)
  PROVE  /\ pending["monitor"] = <<>> /\ todo["monitor"] = <<>>
         /\ todo'["monitor"] = <<>> /\ pending'["monitor"] = <<c>>
BY DEF Decide, Idle, LifeLists, LifeThreads

LEMMA ReportByNetwork ==
  ASSUME LifeLists, CallsOfThreads, ReportIsTrue, Network
  PROVE  ReportIsTrue'
<1>1. <<>> \notin {AtConnected, ConnectedStore, AtOpenData, AtObserve} /\ \A d : <<d>> # <<>>
  BY Apart, OneStep DEF Informing
<1>2. ASSUME NEW c, Decide("monitor", <<c>>),
             c = "peer_connected" => peer' = "connected",
             c \in {"data_open", "data_message"} => lifeChannel' = "open",
             peer' = "none" => lifeChannel' = "none"
      PROVE  ReportIsTrue'
  <2>1. todo'["monitor"] = <<>> /\ pending'["monitor"] = <<c>>
    BY <1>2, MonitorDecides
  <2>2. \A d : <<c>> = <<d>> => c = d
    BY CallsDiffer
  <2> QED BY <1>1, <1>2, <2>1, <2>2, ListsAreConstant DEF ReportIsTrue, Calls, Does
<1>3. peer = "none" => lifeChannel = "none"
  BY DEF ReportIsTrue
<1>4. CASE WsOpens \/ WsCloses
  BY <1>2, <1>3, <1>4 DEF WsOpens, WsCloses, Monitored
<1>5. CASE PeerConnects \/ PeerDisconnects \/ PeerFails
  BY <1>2, <1>3, <1>5 DEF PeerConnects, PeerDisconnects, PeerFails, Monitored
<1>6. CASE ChannelOpens \/ ChannelCloses
  <2>1. PICK c : c \in {"data_open", "data_closed"} /\ Decide("monitor", <<c>>)
                 /\ (c = "data_open" => lifeChannel' = "open")
    BY <1>6 DEF ChannelOpens, ChannelCloses, ChannelChanges
  <2>2. lifeChannel # "none" /\ peer' = peer
    BY <1>6 DEF ChannelOpens, ChannelCloses, ChannelChanges
  <2> QED BY <1>2, <1>3, <2>1, <2>2
<1>7. CASE DataMessage
  BY <1>2, <1>3, <1>7 DEF DataMessage, Monitored, linkVars
<1>8. CASE FrameDecoded
  <2>1. pending' = pending /\ todo'["monitor"] = todo["monitor"] /\ peer' = peer /\ lifeChannel' = lifeChannel
    BY <1>8 DEF FrameDecoded, LifeLists, LifeThreads, linkVars
  <2> QED BY <2>1, ListsAreConstant DEF ReportIsTrue, Calls, Does
<1> QED BY <1>4, <1>5, <1>6, <1>7, <1>8 DEF Network

\* A step that neither the network nor a thread takes.
Aside ==
  /\ peer' = peer /\ lifeChannel' = lifeChannel /\ todo'["monitor"] = todo["monitor"]
  /\ \/ pending'["monitor"] = pending["monitor"]
     \/ pending["monitor"] = <<>> /\ pending'["monitor"] = <<"reconnect_ready">> /\ block # "none"
  /\ lifecycle' = lifecycle /\ lifeData' = lifeData /\ cursor' = cursor /\ scheduled' = scheduled

LEMMA Asides ==
  ASSUME LifeLists, CallsOfThreads,
         \/ \E w \in Workers : Completion(w)
         \/ BlockStarts \/ BlockFires \/ OpenWebSocket \/ Connect \/ Close \/ Deinit
  PROVE  Aside
<1> USE DEF Aside
<1>1. CASE \E w \in Workers : Completion(w)
  <2>1. PICK w \in Workers : Completion(w)
    BY <1>1
  <2>2. todo' = todo /\ pending'["monitor"] = pending["monitor"]
    BY <2>1, CallsByWorker
  <2> QED BY <2>1, <2>2 DEF Completion, LoginAnswered, Receive, SocketFails, NegotiationFails, zigVars, linkVars
<1>2. CASE BlockStarts
  BY <1>2 DEF BlockStarts, zigVars, linkVars, LifeLists, LifeThreads
<1>3. CASE BlockFires
  <2>1. /\ todo' = todo /\ block # "none"
        /\ pending' = pending \/ Decide("monitor", <<"reconnect_ready">>)
    BY <1>3 DEF BlockFires, Monitored, Decide
  <2>2. \/ pending' = pending
        \/ pending["monitor"] = <<>> /\ pending'["monitor"] = <<"reconnect_ready">>
    BY <2>1, MonitorDecides
  <2> QED BY <1>3, <2>1, <2>2 DEF BlockFires, zigVars, linkVars
<1>4. CASE OpenWebSocket
  BY <1>4 DEF OpenWebSocket, zigVars
<1>5. CASE Connect \/ Close \/ Deinit
  BY <1>5 DEF Connect, Close, Deinit, Host, linkVars, LifeLists, LifeThreads
<1> QED BY <1>1, <1>2, <1>3, <1>4, <1>5

LEMMA ReportByAside ==
  ASSUME ReportIsTrue, Aside
  PROVE  ReportIsTrue'
<1>1. \A c \in {"peer_connected", "data_open", "data_message"} : <<"reconnect_ready">> # <<c>>
  BY CallsDiffer
<1> QED BY <1>1, ListsAreConstant DEF ReportIsTrue, Calls, Does, Aside

-----------------------------------------------------------------------------
(* What is withdrawn in time.                                               *)

NameHolds == lifecycle = "connected" => peer = "connected" \/ Renames
DataHolds == lifeData => lifeChannel = "open" \/ Calls("data_closed") \/ Does(AtForget)
CursorHolds == cursor => lifeChannel \in {"open", "closed"}
ClearHolds == Does(AtClear) => ~lifeData /\ ~cursor

LEMMA WithdrawnIs == Withdrawn <=> (~closed /\ ~scheduled => NameHolds /\ DataHolds /\ CursorHolds) /\ ClearHolds
BY DEF Withdrawn, NameHolds, DataHolds, CursorHolds, ClearHolds

\* A thread beside the monitor names nothing connected, and what it takes
\* from the transport was not reported.
LEMMA WithdrawnByOther ==
  ASSUME LifeLists, WaitInv, CallsOfThreads, OneMark, ReportIsTrue, Withdrawn,
         NEW t \in LifeThreads \ {"monitor"}, ZigStep(t) \/ BridgeStep(t) \/ TeardownStep(t)
  PROVE  Withdrawn'
<1>1. /\ LifeStep(t) /\ ThreadKeeps(t) /\ TransportMoves(t) /\ ReportMoves(t)
      /\ todo[t] # <<>> /\ closed' = closed /\ pending' = pending
  BY IsLifeStep, ThreadSteps, TransportSteps DEF LifeStep
<1>2. todo'["monitor"] = todo["monitor"]
  BY <1>1 DEF LifeStep, LifeLists, LifeThreads
<1>3. /\ First(t) \notin {"openData", "observe", "clear"}
      /\ First(t) = "store" /\ ~closed => Head(todo[t])[2] # "connected"
      /\ First(t) = "detach" => t = "block" \/ closed
  BY <1>1, OtherNames
<1>4. (lifeData' => lifeData) /\ (cursor' => cursor)
  BY <1>1, <1>3 DEF ReportMoves
<1>5. ClearHolds'
  BY <1>2, <1>4, ListsAreConstant DEF Withdrawn, ClearHolds, Does
<1>6. ASSUME ~closed', ~scheduled' PROVE (NameHolds /\ DataHolds /\ CursorHolds)'
  <2>1. ~closed /\ ~scheduled
    BY <1>1, <1>3, <1>6 DEF ThreadKeeps
  <2>2. NameHolds /\ DataHolds /\ CursorHolds
    BY <2>1 DEF Withdrawn, NameHolds, DataHolds, CursorHolds
  <2>3. lifecycle' = "connected" => lifecycle = "connected"
    BY <1>1, <1>3, <2>1 DEF ReportMoves
  <2>4. Renames' = Renames /\ Calls("data_closed")' = Calls("data_closed") /\ Does(AtForget)' = Does(AtForget)
    BY <1>1, <1>2, Constant, ListsAreConstant DEF Renames, Calls, Does
  <2>5. First(t) # "detach"
    <3>1. t = "block" => scheduled
      BY <1>1, <2>1 DEF WaitInv, OneMark
    <3> QED BY <1>3, <2>1, <3>1
  <2>6. CASE peer' = peer /\ lifeChannel' = lifeChannel
    BY <1>4, <2>2, <2>3, <2>4, <2>6 DEF NameHolds, DataHolds, CursorHolds
  <2>7. CASE peer = "none" /\ peer' = "new" /\ lifeChannel' = "connecting"
    <3>1. lifeChannel = "none"
      BY <2>7 DEF ReportIsTrue
    <3> QED BY <1>4, <2>2, <2>3, <2>4, <2>7, <3>1 DEF NameHolds, DataHolds, CursorHolds
  <2>8. CASE peer = "new" /\ peer' = "checking" /\ lifeChannel' = lifeChannel
    BY <1>4, <2>2, <2>3, <2>4, <2>8 DEF NameHolds, DataHolds, CursorHolds
  <2> QED BY <1>1, <2>5, <2>6, <2>7, <2>8 DEF TransportMoves
<1> QED BY <1>5, <1>6 DEF Withdrawn, NameHolds, DataHolds, CursorHolds, ClearHolds

\* Before the monitor has done with the callback that says so, it has
\* withdrawn what is not so any more.
LEMMA WithdrawnByMonitor ==
  ASSUME LifeLists, CallsOfThreads, OneMark, ReportIsTrue, Withdrawn,
         ZigStep("monitor") \/ BridgeStep("monitor") \/ TeardownStep("monitor")
  PROVE  Withdrawn'
<1> DEFINE l == todo["monitor"]
           m == todo'["monitor"]
<1>1. /\ LifeStep("monitor") /\ ThreadKeeps("monitor") /\ TransportMoves("monitor") /\ ReportMoves("monitor")
      /\ l # <<>> /\ closed' = closed /\ pending' = pending /\ "monitor" \in LifeThreads
  BY IsLifeStep, ThreadSteps, TransportSteps DEF LifeStep, LifeThreads
<1>2. PICK rest : Follows("monitor", rest) /\ todo' = [todo EXCEPT !["monitor"] = rest]
  BY <1>1 DEF LifeStep
<1>3. Takes(l, m) /\ l \in MonitorLists /\ pending["monitor"] = <<>> /\ pending'["monitor"] = <<>>
  BY <1>1, <1>2, MonitorTakes DEF CallsOfThreads, LifeLists
<1>4. peer' = peer /\ lifeChannel' = lifeChannel
  BY <1>1, MonitorNames DEF TransportMoves
<1>5. \A c : <<c>> # <<>>
  BY OneStep
<1>6. First("monitor") = NameOf(l)
  BY DEF First, NameOf
<1> HIDE DEF l, m
<1>7. ClearHolds'
  <2>1. m = AtClear => l = Ready
    <3>1. l # Ready => m \in {<<>>, AtConnect} \cup Handing \cup Renaming \cup Informing
      BY <1>1, <1>3 DEF Takes, MonitorLists, Handing, Readying, Renaming, Informing
    <3> QED BY <3>1, Apart DEF Readying
  <2>2. l = Ready => lifeData' = FALSE /\ cursor' = FALSE
    BY <1>1, <1>6, Names DEF ReportMoves
  <2> QED BY <2>1, <2>2, ListsAreConstant DEF ClearHolds, Does, m
<1>8. ASSUME ~closed', ~scheduled', scheduled PROVE (NameHolds /\ DataHolds /\ CursorHolds)'
  <2>1. NameOf(l) = "clear"
    BY <1>1, <1>6, <1>8 DEF ThreadKeeps
  <2>2. l = AtClear /\ m = AtStopped
    BY <1>1, <1>3, <2>1, Names DEF Takes, MonitorLists, Handing, Readying, Renaming, Informing
  <2>3. lifeData' = FALSE /\ cursor' = FALSE
    BY <1>1, <1>6, <2>1, <2>2 DEF ReportMoves, Withdrawn, Does, l
  <2>4. m \in Renaming
    BY <2>2 DEF Renaming
  <2> QED BY <2>3, <2>4, Constant DEF NameHolds, DataHolds, CursorHolds, Renames, m
<1>9. ASSUME ~closed', ~scheduled', ~scheduled PROVE (NameHolds /\ DataHolds /\ CursorHolds)'
  <2>1. NameHolds /\ DataHolds /\ CursorHolds /\ ~closed
    BY <1>1, <1>9 DEF Withdrawn, NameHolds, DataHolds, CursorHolds
  <2>2. NameOf(l) # "schedule"
    <3>1. First("monitor") = "schedule" => scheduled' = TRUE
      BY <1>1, ScheduledOnce
    <3> QED BY <1>6, <1>9, <3>1
  <2>3. NameHolds'
    <3>1. lifecycle' = "connected" => \/ lifecycle = "connected" /\ NameOf(l) # "store"
                                      \/ NameOf(l) = "store" /\ Head(l)[2] = "connected"
      BY <1>1, <1>6 DEF ReportMoves, l
    <3>2. NameOf(l) = "store" /\ Head(l)[2] = "connected" => l = ConnectedStore
      BY <1>1, <1>3, Names, Arguments DEF MonitorLists, Handing, Readying, Renaming, Informing
    <3>3. l = ConnectedStore => peer = "connected"
      BY DEF ReportIsTrue, Does, l
    <3>4. ASSUME l \in Renaming, NameOf(l) # "store" PROVE m \in Renaming
      <4>1. l \in {Interrupted, AtInterrupted, Reconnect, AtStopped, Connecting}
        BY <2>2, <3>4, Names DEF Renaming
      <4>2. l = Interrupted => m = AtInterrupted
        BY <1>3 DEF Takes
      <4>3. l \in {Reconnect, AtStopped} => m = Tail(l)
        BY <1>1, <1>6, <2>1, Names DEF ReportMoves, l, m
      <4>4. l \in {AtInterrupted, Connecting} => m = <<<<"store", Head(l)[2]>>>> \o Tail(l)
        BY <1>1, <1>6, <2>1, Names DEF ReportMoves, l, m
      <4>5. l = AtInterrupted => m = InterruptedStore
        <5>1. Head(AtInterrupted)[2] = "reconnecting" /\ Tail(AtInterrupted) = <<>>
              /\ \A s : <<s>> \o <<>> = <<s>>
          BY Rests, Arguments
        <5> QED BY <4>4, <5>1 DEF InterruptedStore
      <4>6. l = Connecting => m = AtConnectStore
        <5>1. Head(Connecting)[2] = "connecting" /\ Tail(Connecting) = AtConnect
              /\ <<<<"store", "connecting">>>> \o AtConnect = AtConnectStore
          BY Rests, Arguments
        <5> QED BY <4>4, <5>1
      <4>7. Tail(Reconnect) = AtSchedule /\ Tail(AtStopped) = Connecting
        BY Rests
      <4> QED BY <4>1, <4>2, <4>3, <4>5, <4>6, <4>7 DEF Renaming
    <3>5. Renames => l \in Renaming
      BY <1>3, <1>5 DEF Renames, Calls, l
    <3>6. m \in Renaming => Renames'
      BY Constant DEF Renames, m
    <3> QED BY <1>4, <2>1, <3>1, <3>2, <3>3, <3>4, <3>5, <3>6 DEF NameHolds
  <2>4. DataHolds'
    <3>1. NameOf(l) = "openData" => l = AtOpenData
      BY <1>1, <1>3, Names DEF MonitorLists, Handing, Readying, Renaming, Informing
    <3>2. l = AtOpenData => lifeChannel = "open"
      BY DEF ReportIsTrue, Does, l
    <3>3. l = AtForget => lifeData' = FALSE
      BY <1>1, <1>6, Names DEF ReportMoves
    <3>4. ~Calls("data_closed")
      BY <1>3, <1>5 DEF Calls
    <3>5. lifeData' => lifeData \/ NameOf(l) = "openData"
      BY <1>1, <1>6 DEF ReportMoves
    <3>6. lifeData' => lifeChannel' = "open"
      BY <1>4, <2>1, <3>1, <3>2, <3>3, <3>4, <3>5 DEF DataHolds, Does, l
    <3> QED BY <3>6 DEF DataHolds
  <2>5. CursorHolds'
    <3>1. NameOf(l) = "observe" => l = AtObserve
      BY <1>1, <1>3, Names DEF MonitorLists, Handing, Readying, Renaming, Informing
    <3>2. l = AtObserve => lifeChannel = "open"
      BY DEF ReportIsTrue, Does, l
    <3>3. cursor' => cursor \/ NameOf(l) = "observe"
      BY <1>1, <1>6 DEF ReportMoves
    <3> QED BY <1>4, <2>1, <3>1, <3>2, <3>3 DEF CursorHolds
  <2> QED BY <2>3, <2>4, <2>5
<1> QED BY <1>7, <1>8, <1>9 DEF Withdrawn, NameHolds, DataHolds, CursorHolds, ClearHolds

LEMMA WithdrawnByBegin ==
  ASSUME LifeLists, CloseLeaves, CallsOfThreads, Withdrawn, NEW t \in LifeThreads, Begin(t)
  PROVE  Withdrawn'
<1>1. UNCHANGED <<peer, lifeChannel, lifecycle, lifeData, cursor, closed, scheduled>>
  BY DEF Begin, zigVars, linkVars
<1>2. CASE t # "monitor"
  BY <1>1, <1>2, MonitorWaits, ListsAreConstant, Constant DEF Withdrawn, Renames, Calls, Does
<1>3. CASE t = "monitor"
  <2>1. PICK c \in MonitorCalls :
           /\ Calls(c) /\ todo["monitor"] = <<>> /\ pending'["monitor"] = <<>>
           /\ todo'["monitor"] = IF enabled THEN Callback[c] ELSE <<>>
    BY <1>3, MonitorBegins
  <2>2. \A d : Calls(d) => d = c
    BY <2>1, CallsDiffer DEF Calls
  <2>3. <<>> \notin Renaming /\ <<>> # AtForget /\ AtClear # <<>>
    BY Apart, OneStep DEF Readying, AtForget
  <2>4. Callback[c] # AtClear
    BY CallsAre, Apart, Names DEF MonitorCalls
  <2>5. /\ c \in {"peer_disconnected", "peer_failed"} => Callback[c] \in Renaming
        /\ c = "data_closed" => Callback[c] = AtForget
    BY CallsAre DEF Renaming
  <2>6. ~closed => enabled
    BY DEF CloseLeaves
  <2>7. ClearHolds'
    BY <2>1, <2>3, <2>4, ListsAreConstant DEF ClearHolds, Does
  <2>8. ASSUME ~closed, NameHolds PROVE NameHolds'
    <3>1. Renames => Renames'
      BY <2>1, <2>2, <2>3, <2>5, <2>6, <2>8, Constant DEF Renames
    <3> QED BY <1>1, <2>8, <3>1 DEF NameHolds
  <2>9. ASSUME ~closed, DataHolds PROVE DataHolds'
    BY <1>1, <2>1, <2>2, <2>3, <2>5, <2>6, <2>9, ListsAreConstant DEF DataHolds, Does
  <2> QED BY <1>1, <2>7, <2>8, <2>9 DEF Withdrawn, NameHolds, DataHolds, CursorHolds, ClearHolds
<1> QED BY <1>2, <1>3

LEMMA WithdrawnByNetwork ==
  ASSUME LifeLists, Withdrawn, Network
  PROVE  Withdrawn'
<1>1. UNCHANGED <<lifecycle, lifeData, cursor, closed, scheduled>>
  BY DEF Network, WsOpens, WsCloses, PeerConnects, PeerDisconnects, PeerFails, ChannelOpens,
         ChannelCloses, ChannelChanges, DataMessage, FrameDecoded, zigVars
<1>2. CASE FrameDecoded
  <2>1. pending' = pending /\ todo'["monitor"] = todo["monitor"] /\ peer' = peer /\ lifeChannel' = lifeChannel
    BY <1>2 DEF FrameDecoded, LifeLists, LifeThreads, linkVars
  <2> QED BY <1>1, <2>1, ListsAreConstant, Constant DEF Withdrawn, Renames, Calls, Does
<1>3. <<>> \notin Renaming /\ <<>> # AtForget /\ AtClear # <<>> /\ \A d : <<d>> # <<>>
  BY Apart, OneStep DEF Readying, AtForget
<1>4. ASSUME NEW c, Decide("monitor", <<c>>),
             \/ peer' = peer \/ peer' = "connected" \/ c \in {"peer_disconnected", "peer_failed"},
             \/ lifeChannel' = lifeChannel \/ lifeChannel' = "open"
             \/ c = "data_closed" /\ lifeChannel' = "closed"
      PROVE  Withdrawn'
  <2>1. /\ pending["monitor"] = <<>> /\ todo["monitor"] = <<>>
        /\ todo'["monitor"] = <<>> /\ pending'["monitor"] = <<c>>
    BY <1>4, MonitorDecides
  <2>2. ~Renames /\ ~Calls("data_closed") /\ ~Does(AtForget) /\ ~Does(AtClear)'
    BY <1>3, <2>1, ListsAreConstant DEF Renames, Calls, Does
  <2>3. ASSUME NameHolds PROVE NameHolds'
    <3>1. c \in {"peer_disconnected", "peer_failed"} => Renames'
      BY <2>1 DEF Renames, Calls
    <3> QED BY <1>1, <1>4, <2>2, <2>3, <3>1 DEF NameHolds
  <2>4. ASSUME DataHolds PROVE DataHolds'
    <3>1. c = "data_closed" => Calls("data_closed")'
      BY <2>1 DEF Calls
    <3> QED BY <1>1, <1>4, <2>2, <2>4, <3>1 DEF DataHolds
  <2>5. ASSUME CursorHolds PROVE CursorHolds'
    BY <1>1, <1>4, <2>5 DEF CursorHolds
  <2> QED BY <1>1, <2>2, <2>3, <2>4, <2>5 DEF Withdrawn, NameHolds, DataHolds, CursorHolds
<1>5. CASE WsOpens \/ WsCloses \/ PeerConnects \/ PeerDisconnects \/ PeerFails
  BY <1>4, <1>5 DEF WsOpens, WsCloses, PeerConnects, PeerDisconnects, PeerFails, Monitored
<1>6. CASE ChannelOpens \/ ChannelCloses
  BY <1>4, <1>6 DEF ChannelOpens, ChannelCloses, ChannelChanges
<1>7. CASE DataMessage
  BY <1>4, <1>7 DEF DataMessage, Monitored, linkVars
<1> QED BY <1>2, <1>5, <1>6, <1>7 DEF Network

LEMMA WithdrawnByAside ==
  ASSUME LifeFlags, OneMark, Withdrawn, Aside, closed \in BOOLEAN, closed => closed'
  PROVE  Withdrawn'
<1>1. UNCHANGED <<peer, lifeChannel, lifecycle, lifeData, cursor, scheduled>> /\ todo'["monitor"] = todo["monitor"]
  BY DEF Aside
<1>2. CASE pending'["monitor"] = pending["monitor"]
  BY <1>1, <1>2, ListsAreConstant, Constant DEF Withdrawn, Renames, Calls, Does
<1>3. CASE block # "none"
  BY <1>1, <1>3, ListsAreConstant DEF Withdrawn, OneMark, Does
<1> QED BY <1>2, <1>3 DEF Aside

\* What the callbacks of a transport leave in the session is of this transport.
TransportInv == CallsOfThreads /\ OneMark /\ ReportIsTrue /\ Withdrawn

LEMMA TransportStart == LifeInit => TransportInv
<1> SUFFICES ASSUME LifeInit PROVE TransportInv
  OBVIOUS
<1>1. \A t \in LifeThreads : todo[t] = <<>> /\ pending[t] = <<>>
  BY DEF LifeInit
<1>2. "monitor" \in LifeThreads /\ Workers \subseteq LifeThreads
  BY DEF LifeThreads
<1>3. <<>> \in Seq(WorkerSteps) /\ <<>> \in Seq(WorkerCalls) /\ \A c : <<c>> # <<>>
  BY OneStep
<1>4. CallsOfThreads
  BY <1>1, <1>2, <1>3 DEF CallsOfThreads, MonitorLists
<1>5. <<>> \notin Handing \cup Readying \cup Informing
  BY Apart
<1>6. OneMark
  <2>1. block = "none"
    BY DEF LifeInit
  <2> QED BY <1>1, <1>2, <1>3, <1>5, <2>1 DEF OneMark, Clearing, Calls
<1>7. peer = "none" /\ lifeChannel = "none" /\ lifecycle = "idle" /\ ~lifeData /\ ~cursor
  BY DEF LifeInit
<1>8. ReportIsTrue
  BY <1>1, <1>2, <1>3, <1>5, <1>7 DEF ReportIsTrue, Calls, Does, Informing
<1>9. Withdrawn
  BY <1>7 DEF Withdrawn
<1> QED BY <1>4, <1>6, <1>8, <1>9 DEF TransportInv

LEMMA TransportStep ==
  ASSUME LifeInv, WaitInv, TransportInv, LifeNext
  PROVE  TransportInv'
<1>1. LifeLists /\ LifeFlags /\ CloseLeaves /\ CallsOfThreads /\ OneMark /\ ReportIsTrue /\ Withdrawn
  BY DEF LifeInv, TransportInv
<1>2. ASSUME NEW t \in LifeThreads, Begin(t) PROVE TransportInv'
  BY <1>1, <1>2, CallsByBegin, MarkOnceByBegin, ReportByBegin, WithdrawnByBegin DEF TransportInv
<1>3. ASSUME NEW t \in LifeThreads, ZigStep(t) \/ BridgeStep(t) \/ TeardownStep(t) PROVE TransportInv'
  <2>1. LifeStep(t)
    BY <1>3, IsLifeStep
  <2>2. CallsOfThreads' /\ OneMark' /\ ReportIsTrue'
    BY <1>1, <1>3, <2>1, CallsByThread, MarkOnceByThread, ReportByThread
  <2>3. Withdrawn'
    BY <1>1, <1>3, WithdrawnByOther, WithdrawnByMonitor
  <2> QED BY <2>2, <2>3 DEF TransportInv
<1>4. CASE Network
  BY <1>1, <1>4, CallsByOthers, MarkOnceByOthers, ReportByNetwork, WithdrawnByNetwork DEF TransportInv
<1>5. CASE \/ \E w \in Workers : Completion(w)
           \/ BlockStarts \/ BlockFires \/ OpenWebSocket \/ Connect \/ Close \/ Deinit
  <2>1. CallsOfThreads'
    BY <1>1, <1>5, CallsByWorker, CallsByOthers
  <2>2. Aside /\ OneMark'
    BY <1>1, <1>5, Asides, MarkOnceByOthers
  <2>3. closed => closed'
    BY <1>5 DEF Completion, LoginAnswered, Receive, SocketFails, NegotiationFails, BlockStarts, BlockFires,
                OpenWebSocket, Connect, Close, Deinit, zigVars
  <2>4. closed \in BOOLEAN
    BY <1>1 DEF LifeFlags
  <2> QED BY <1>1, <2>1, <2>2, <2>3, <2>4, ReportByAside, WithdrawnByAside DEF TransportInv
<1> QED BY <1>2, <1>3, <1>4, <1>5 DEF LifeNext, Run

LEMMA TransportStill == TransportInv /\ UNCHANGED lifeVars => TransportInv'
<1> SUFFICES ASSUME TransportInv, UNCHANGED lifeVars PROVE TransportInv'
  OBVIOUS
<1> USE DEF lifeVars, zigVars, nativeVars, linkVars
<1>1. CallsOfThreads'
  BY CallsKept DEF TransportInv
<1>2. OneMark'
  BY Constant DEF TransportInv, OneMark, Clearing, Calls
<1>3. ReportIsTrue'
  BY ListsAreConstant DEF TransportInv, ReportIsTrue, Calls, Does
<1>4. Withdrawn'
  BY Constant, ListsAreConstant DEF TransportInv, Withdrawn, Renames, Calls, Does
<1> QED BY <1>1, <1>2, <1>3, <1>4 DEF TransportInv

LEMMA TransportInvariant == LifeSpec => []TransportInv
<1>1. LifeInv /\ WaitInv /\ TransportInv /\ [LifeNext]_lifeVars => TransportInv'
  BY TransportStep, TransportStill
<1>2. LifeSpec => []LifeInv /\ []WaitInv
  BY LifeInvariant, WaitInvariant
<1> QED BY <1>1, <1>2, TransportStart, PTL DEF LifeSpec

\* An idle monitor has nothing left to withdraw.
LEMMA IdleMonitor ==
  ASSUME Idle("monitor")
  PROVE  ~Renames /\ ~Calls("data_closed") /\ ~Does(AtForget)
<1>1. <<>> \notin Renaming /\ <<>> # AtForget /\ \A c : <<c>> # <<>>
  BY Apart, OneStep DEF AtForget
<1> QED BY <1>1 DEF Idle, Renames, Calls, Does

\* ConnectedHasPeer: the lifecycle that the host polls is stored by threads
\* that may come late, but "connected" is stored only under the monitor, and
\* whoever takes the peer away has the lifecycle renamed before the monitor is
\* free, or has marked a reconnect first.
THEOREM ConnectedTheorem == LifeSpec => []ConnectedHasPeer
<1>1. TransportInv => ConnectedHasPeer
  BY IdleMonitor DEF TransportInv, Withdrawn, ConnectedHasPeer
<1> QED BY <1>1, TransportInvariant, PTL

\* StateIsOfThisTransport: the mark of a reconnect is set before the transport
\* is taken down and cleared only after what it said was invalidated, so that
\* between reconnects input is accepted and a cursor is shown for a channel of
\* this transport.
THEOREM ThisTransportTheorem == LifeSpec => []StateIsOfThisTransport
<1>1. TransportInv => StateIsOfThisTransport
  BY IdleMonitor DEF TransportInv, Withdrawn, StateIsOfThisTransport
<1> QED BY <1>1, TransportInvariant, PTL
=============================================================================
