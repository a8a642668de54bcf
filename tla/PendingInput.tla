---------------------------- MODULE PendingInput ----------------------------
(* The bounded queue of src/src/session/pending_input.zig and the held-input  *)
(* set of input_state.zig, as operators on their values.                     *)
(*                                                                           *)
(* An event names what it is about: a key, a button, or a stream. A key or a *)
(* button goes down or up; a stream (pointer motion, the scroll modes, paste)*)
(* changes no held state. Two neighbouring events of a coalescing stream are *)
(* one event. Coordinates, scroll amounts and paste text are left out: where *)
(* the queue merges two events it keeps one, and that is all that is counted.*)
(*                                                                           *)
(* The two-second age of a wait is the one thing kept of the clock: a wait   *)
(* is "none", "fresh" (younger than max_age_ns) or "old".                    *)
EXTENDS Naturals, FiniteSets, Sequences, SequencesExt

CONSTANTS Keys, Buttons,      \* what can be held down
          Merging, Pastes,    \* streams that coalesce, and pastes
          MaxEvents,          \* max_events
          MaxWaiting,         \* max_waiting_events
          MaxPasteBytes,      \* max_paste_bytes, one unit per paste
          MaxHeldKeys,        \* max_held_keys
          None

ASSUME KindsAreDisjoint ==
    /\ Keys \cap Buttons = {} /\ Merging \cap Pastes = {}
    /\ (Keys \cup Buttons) \cap (Merging \cup Pastes) = {}
    /\ None \notin Keys \cup Buttons

ASSUME LimitsAreNaturals ==
    /\ MaxEvents \in Nat /\ MaxWaiting \in Nat
    /\ MaxPasteBytes \in Nat /\ MaxHeldKeys \in Nat

Items == Keys \cup Buttons
Event == [what : Items, pressed : BOOLEAN]
           \cup [what : Merging \cup Pastes, pressed : {FALSE}]
Entry == [sequence : Nat, epoch : Nat, event : Event]

Ages == {"none", "fresh", "old"}
Queue == [entries : Seq(Entry), wait : Ages, aborted : BOOLEAN]
EmptyQueue == [entries |-> <<>>, wait |-> "none", aborted |-> FALSE]

-----------------------------------------------------------------------------
(* The held set.                                                             *)

IsStateChange(e) == e.what \in Items
IsDown(e) == IsStateChange(e) /\ e.pressed
ChangeNeeded(e, state) == (e.what \in state) # e.pressed

\* pressKey refuses a new key when the table is full; buttons are bits.
CanApply(e, state) ==
    IsDown(e) /\ e.what \in Keys \ state
        => Cardinality(state \cap Keys) < MaxHeldKeys

ApplyChange(e, state) ==
    IF e.pressed THEN state \cup {e.what} ELSE state \ {e.what}

\* None stands for error.TooManyHeldKeys, after which nothing is applied.
ApplyDesired(state, e) ==
    IF state = None \/ ~IsStateChange(e) THEN state
    ELSE IF CanApply(e, state) THEN ApplyChange(e, state)
    ELSE None

-----------------------------------------------------------------------------
(* The queue.                                                                *)

Limit(waiting) == IF waiting THEN MaxWaiting ELSE MaxEvents

CanAppend(q, amount, waiting) ==
    /\ ~(waiting /\ q.aborted)
    /\ amount = 0 \/ Len(q.entries) + amount <= Limit(waiting)

Cleared(q) == EmptyQueue
ExpireWait(q) == IF q.wait = "old" THEN Cleared(q) ELSE q
FinishWait(q) == [q EXCEPT !.wait = "none", !.aborted = FALSE]
AbortWait(q) == [entries |-> <<>>, wait |-> "fresh", aborted |-> TRUE]

\* The entry at the back takes over the event of a neighbour it can merge with.
MergesInto(q, entry) ==
    /\ q.entries # <<>>
    /\ entry.event.what \in Merging
    /\ LET last == q.entries[Len(q.entries)]
       IN  last.epoch = entry.epoch /\ last.event.what = entry.event.what

PasteBytes(q) ==
    Cardinality({i \in DOMAIN q.entries : q.entries[i].event.what \in Pastes})

Appended(q, entry, waiting) ==
    [q EXCEPT !.entries = Append(@, entry),
              !.wait = IF waiting /\ @ = "none" THEN "fresh" ELSE @]

\* pushMove, pushScroll, pushPaste, pushButton and pushKey: the queue they
\* leave and what they answer.
Push(q, entry, waiting) ==
    IF waiting /\ q.aborted
      THEN [queue |-> q, result |-> "aborted"]
    ELSE IF MergesInto(q, entry)
      THEN [queue |-> q, result |-> "coalesced"]
    ELSE IF entry.event.what \in Pastes /\ PasteBytes(q) >= MaxPasteBytes
      THEN [queue |-> q, result |-> "overflow"]
    ELSE IF Len(q.entries) < Limit(waiting)
      THEN [queue |-> Appended(q, entry, waiting), result |-> "queued"]
    ELSE [queue |-> IF waiting THEN AbortWait(q) ELSE q, result |-> "overflow"]

Accepted(pushed) == pushed.result \in {"queued", "coalesced"}
=============================================================================
