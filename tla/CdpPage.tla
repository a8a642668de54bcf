------------------------------- MODULE CdpPage -------------------------------
(***************************************************************************)
(* The TypeScript client's temporary page (client/cdp.ts): CdpConnection   *)
(* matches the browser's answers to its commands by number and gives every *)
(* command five seconds; TemporaryCdpPage opens a tab beside those it      *)
(* finds and puts the browser back when it closes.  A host may evaluate in *)
(* the page while it closes it.                                            *)
(*                                                                         *)
(* An event of the socket or a timer settles commands, and the code that   *)
(* awaits them runs before the next event (Quiet).  A session identifier   *)
(* stands for the tab it is attached to.  The browser executes commands in *)
(* order; its answers may arrive in any order, or too late.                *)
(***************************************************************************)
EXTENDS Naturals, Sequences, FiniteSets

CONSTANTS Tabs,       \* the tabs a browser may have
          Temporary,  \* the tab the client opens
          NoTab,
          Found,      \* the states the browser is found in
          MaxLate,    \* bound on the answers on their way
          MaxClosed   \* bound on the tabs that others close

ASSUME CdpAssumption ==
  /\ IsFiniteSet(Tabs)
  /\ Temporary \notin Tabs /\ NoTab \notin Tabs \cup {Temporary}
  /\ Found \subseteq {g \in [tabs : SUBSET Tabs, visible : Tabs \cup {NoTab}] :
                       IF g.tabs = {} THEN g.visible = NoTab ELSE g.visible \in g.tabs}
  /\ MaxLate \in Nat \ {0} /\ MaxClosed \in Nat

VARIABLES conn,    \* the socket, its closed flag, the numbers given, the pending table
          call,    \* the command each caller awaits and how it was settled
          page,    \* where open or close is, and the fields of the page
          wire,    \* commands on their way to the browser
          replies, \* answers on their way back
          guest,   \* the browser's tabs and the visible one
          env      \* how the browser was found, and what went wrong

cdpVars == <<conn, call, page, wire, replies, guest, env>>

Callers == {"page", "probe"}

Idle == [state |-> "idle"]
Outcome(ok, value) == [state |-> "settled", ok |-> ok, value |-> value]

CdpInit ==
  /\ conn = [socket |-> "none", closed |-> FALSE, sent |-> 0, pending |-> <<>>]
  /\ call = [c \in Callers |-> Idle]
  /\ page = [pc |-> "idle", rest |-> {}, look |-> NoTab, count |-> 0, visible |-> NoTab,
             target |-> NoTab]
  /\ wire = <<>> /\ replies = {}
  /\ guest \in Found
  /\ env = [found |-> guest, lost |-> {}, closed |-> 0]

(* No settled command's awaiting code is still to run.                     *)
Quiet == \A c \in Callers : call[c].state # "settled"

(***************************************************************************)
(* CdpConnection.                                                          *)
(***************************************************************************)
(* A number is given once.                                                 *)
NextId == conn.sent + 1

Usable == ~conn.closed /\ conn.socket = "open"

(* command(): its number, its place in the table, the message.             *)
Command(c, method, tab) ==
  IF Usable
  THEN /\ conn' = [conn EXCEPT !.sent = NextId,
                               !.pending = [i \in DOMAIN @ \cup {NextId} |->
                                              IF i = NextId THEN c ELSE @[i]]]
       /\ call' = [call EXCEPT ![c] = [state |-> "waiting", method |-> method, id |-> NextId]]
       /\ wire' = Append(wire, [id |-> NextId, method |-> method, tab |-> tab])
  ELSE /\ call' = [call EXCEPT ![c] = Outcome(FALSE, NoTab)]
       /\ UNCHANGED <<conn, wire>>

Without(table, id) == [i \in DOMAIN table \ {id} |-> table[i]]

(* failPending: every command is rejected, its timer cleared.              *)
Rejected(calls) ==
  [c \in Callers |-> IF calls[c].state = "waiting" THEN Outcome(FALSE, NoTab) ELSE calls[c]]

(* close() once the page needs the connection no more; pc is its end.      *)
CloseConnection(pc) ==
  /\ conn' = [conn EXCEPT !.closed = TRUE, !.socket = "closed", !.pending = <<>>]
  /\ call' = Rejected([call EXCEPT !["page"] = Idle])
  /\ page' = [page EXCEPT !.pc = pc]
  /\ UNCHANGED wire

(* handleMessage: an answer nobody waits for is dropped.                   *)
Answer(r) ==
  /\ Quiet /\ r \in replies /\ conn.socket = "open"
  /\ replies' = replies \ {r}
  /\ IF r.id \in DOMAIN conn.pending
     THEN LET c == conn.pending[r.id] IN
          /\ conn' = [conn EXCEPT !.pending = Without(@, r.id)]
          /\ call' = [call EXCEPT ![c] = Outcome(r.ok, r.value)]
     ELSE UNCHANGED <<conn, call>>
  /\ UNCHANGED <<page, wire, guest, env>>

(* Which losses the properties tell apart.                                 *)
Lost(what) ==
  [env EXCEPT !.lost = IF "socket" \in @ \cup {what} THEN {"socket"}
                       ELSE @ \cup (IF what \in {"create", "close"} THEN {what} ELSE {"other"})]

(* A command's five seconds are over.                                      *)
TimeOut(id) ==
  /\ Quiet /\ id \in DOMAIN conn.pending
  /\ LET c == conn.pending[id] IN
     /\ conn' = [conn EXCEPT !.pending = Without(@, id)]
     /\ call' = [call EXCEPT ![c] = Outcome(FALSE, NoTab)]
     /\ env' = Lost(call[c].method)
  /\ UNCHANGED <<page, wire, replies, guest>>

(* The socket fails or the browser closes it; what is on the wire is lost  *)
(* from some point on.                                                     *)
SocketEnds ==
  /\ Quiet /\ conn.socket = "open"
  /\ conn' = [conn EXCEPT !.socket = "closed", !.pending = <<>>]
  /\ call' = Rejected(call)
  /\ \E n \in 0 .. Len(wire) : wire' = SubSeq(wire, 1, n)
  /\ replies' = {}
  /\ env' = Lost("socket")
  /\ UNCHANGED <<page, guest>>

(***************************************************************************)
(* TemporaryCdpPage.open.  An awaited command was settled when its caller  *)
(* is Ready; Next(pc, method, tab) is the next one.                        *)
(***************************************************************************)
At(pc) == page.pc = pc /\ call["page"].state = "settled"
Ok == call["page"].ok
Value == call["page"].value

Ask(pc, method, tab) ==
  /\ page' = [page EXCEPT !.pc = pc]
  /\ Command("page", method, tab)

(* No version document, no debugger address, or the socket does not open.  *)
ConnectFails ==
  /\ page.pc = "idle"
  /\ page' = [page EXCEPT !.pc = "failed"]
  /\ UNCHANGED <<conn, call, wire, replies, guest, env>>

Connected ==
  /\ page.pc = "idle"
  /\ page' = [page EXCEPT !.pc = "listing"]
  /\ conn' = [conn EXCEPT !.socket = "open", !.sent = 1,
                           !.pending = [i \in {1} |-> "page"]]
  /\ call' = [call EXCEPT !["page"] = [state |-> "waiting", method |-> "list", id |-> 1]]
  /\ wire' = <<[id |-> 1, method |-> "list", tab |-> NoTab]>>
  /\ UNCHANGED <<replies, guest, env>>

(* inspectPageTargets stands before the try: its failure closes nothing.   *)
ListFails ==
  /\ At("listing") /\ ~Ok
  /\ page' = [page EXCEPT !.pc = "failed"]
  /\ call' = [call EXCEPT !["page"] = Idle]
  /\ UNCHANGED <<conn, wire>>

(* The loop over the tabs goes on with any of the rest, or ends.           *)
InspectNext(p) ==
  IF p.rest = {} \/ p.visible # NoTab
  THEN page' = [p EXCEPT !.pc = "creating", !.rest = {}, !.look = NoTab]
       /\ Command("page", "create", NoTab)
  ELSE \E t \in p.rest :
         /\ page' = [p EXCEPT !.pc = "looking", !.rest = @ \ {t}, !.look = t]
         /\ Command("page", "attach", t)

Listed == At("listing") /\ Ok /\ InspectNext([page EXCEPT !.rest = Value, !.count = Cardinality(Value)])

LookFails == At("looking") /\ ~Ok /\ InspectNext(page)

Looks == At("looking") /\ Ok /\ Ask("seeing", "evaluate", page.look)

(* Whatever the evaluation says, the session is detached.                  *)
Seen ==
  /\ At("seeing")
  /\ page' = [page EXCEPT !.pc = "leaving",
                          !.visible = IF Ok /\ Value = TRUE THEN page.look ELSE @]
  /\ Command("page", "detach", page.look)

Left == At("leaving") /\ InspectNext(page)

Created ==
  /\ At("creating") /\ Ok
  /\ page' = [page EXCEPT !.pc = "attaching", !.target = Value]
  /\ Command("page", "attach", Value)

CreateFails == At("creating") /\ ~Ok /\ CloseConnection("failed")

Attached ==
  /\ At("attaching") /\ Ok
  /\ page' = [page EXCEPT !.pc = "ready"]
  /\ call' = [call EXCEPT !["page"] = Idle]
  /\ UNCHANGED <<conn, wire>>

\* Mutant of AttachFails: the tab is forgotten.
AttachFailsBarely == At("attaching") /\ ~Ok /\ CloseConnection("failed")

(* The catch of open: the tab it made is closed again.                     *)
AttachFails == At("attaching") /\ ~Ok /\ Ask("undoing", "close", page.target)

Undone == At("undoing") /\ CloseConnection("failed")

(***************************************************************************)
(* TemporaryCdpPage.evaluate and close.  Every step of close swallows its  *)
(* error and goes on.                                                      *)
(***************************************************************************)
PreserveAsLastPage == page.count = 0

Evaluate ==
  /\ Quiet /\ call["probe"].state = "idle"
  /\ page.pc \notin {"idle", "failed", "listing", "looking", "seeing", "leaving",
                     "creating", "attaching", "undoing", "done"}
  /\ Command("probe", "evaluate", page.target)
  /\ UNCHANGED <<page, replies, guest, env>>

Evaluated ==
  /\ call["probe"].state = "settled"
  /\ call' = [call EXCEPT !["probe"] = [state |-> "done"]]
  /\ UNCHANGED <<conn, page, wire, replies, guest, env>>

ClosePage ==
  /\ Quiet /\ page.pc = "ready"
  /\ IF PreserveAsLastPage THEN Ask("blanking", "navigate", page.target)
                           ELSE Ask("detaching", "detach", page.target)
  /\ UNCHANGED <<replies, guest, env>>

Blanked == At("blanking") /\ Ask("detaching", "detach", page.target)

Detached ==
  /\ At("detaching")
  /\ IF PreserveAsLastPage THEN CloseConnection("done")
                           ELSE Ask("closing", "close", page.target)

TabClosed ==
  /\ At("closing")
  /\ IF page.visible = NoTab THEN CloseConnection("done")
                             ELSE Ask("activating", "activate", page.visible)

Activated == At("activating") /\ CloseConnection("done")

PageStep ==
  /\ \/ ListFails \/ Listed \/ LookFails \/ Looks \/ Seen \/ Left
     \/ Created \/ CreateFails \/ Attached \/ AttachFails \/ Undone
     \/ Blanked \/ Detached \/ TabClosed \/ Activated
  /\ UNCHANGED <<replies, guest, env>>

(***************************************************************************)
(* The browser, and whoever else uses it.                                  *)
(***************************************************************************)
Closing(g, t) ==
  LET rest == g.tabs \ {t} IN
  {[tabs |-> rest, visible |-> v] :
     v \in IF g.visible # t THEN {g.visible} ELSE IF rest = {} THEN {NoTab} ELSE rest}

Effect(g, ok, value) == [guest |-> g, ok |-> ok, value |-> value]

(* What a command does to the tabs, with each outcome it may have.         *)
Effects(g, m) ==
  IF m.method = "list" THEN {Effect(g, TRUE, g.tabs)}
  ELSE IF m.method = "create"
  THEN {Effect([tabs |-> g.tabs \cup {Temporary}, visible |-> Temporary], TRUE, Temporary)}
  ELSE IF m.tab \notin g.tabs THEN {Effect(g, FALSE, NoTab)}
  ELSE IF m.method = "close" THEN {Effect(h, TRUE, NoTab) : h \in Closing(g, m.tab)}
  ELSE IF m.method = "activate" THEN {Effect([g EXCEPT !.visible = m.tab], TRUE, NoTab)}
  ELSE {Effect(g, TRUE, IF m.method = "evaluate" THEN g.visible = m.tab ELSE m.tab)}

BrowserExecutes ==
  /\ Quiet /\ wire # <<>> /\ Cardinality(replies) < MaxLate
  /\ \E e \in Effects(guest, Head(wire)) :
       /\ guest' = e.guest
       /\ replies' = IF conn.socket # "open" THEN replies
                     ELSE replies \cup {[id |-> Head(wire).id, ok |-> e.ok, value |-> e.value]}
  /\ wire' = Tail(wire)
  /\ UNCHANGED <<conn, call, page, env>>

SomebodyCloses(t) ==
  /\ Quiet /\ page.pc \notin {"idle", "failed", "done"} /\ t \in guest.tabs /\ env.closed < MaxClosed
  /\ guest' \in Closing(guest, t)
  /\ env' = [env EXCEPT !.closed = @ + 1]
  /\ UNCHANGED <<conn, call, page, wire, replies>>

CdpNext ==
  \/ ConnectFails \/ Connected \/ PageStep
  \/ Evaluate \/ Evaluated \/ ClosePage
  \/ \E r \in replies : Answer(r)
  \/ \E id \in DOMAIN conn.pending : TimeOut(id)
  \/ SocketEnds \/ BrowserExecutes
  \/ \E t \in Tabs \cup {Temporary} : SomebodyCloses(t)

CdpSpec == CdpInit /\ [][CdpNext]_cdpVars

-----------------------------------------------------------------------------
(* PROPERTIES *)

(* src/README.md:271: the probe closes its exact tab and restores the tab  *)
(* that was visible, whichever of its steps fail.  Its tab is only left    *)
(* behind when the answer to its creation or its removal was lost, or as   *)
(* the last page of a browser that had none; and if nothing was lost, the  *)
(* tab that was visible when the browser was found is visible again.       *)
LeavesBrowserAsFound ==
  page.pc \in {"failed", "done"} =>
    /\ Temporary \in guest.tabs =>
         \/ env.lost \cap {"create", "close", "socket"} # {}
         \/ page.pc = "done" /\ page.count = 0
    /\ page.pc = "done" /\ env.lost = {} /\ env.closed = 0 =>
         IF env.found.tabs = {} THEN guest.tabs = {Temporary} ELSE guest = env.found

=============================================================================
