---------------------------- MODULE BrowserPicker ----------------------------
(***************************************************************************)
(* The target picker of the OpenTUI application: BrowserPickerController   *)
(* (src/opentui/browser-picker.ts), which discovers the browser targets    *)
(* asynchronously, and the application around it                           *)
(* (examples/opentui-browser.ts), which moves the keyboard between the     *)
(* picker and the Live View.  The Live View is here what LiveViewSurface   *)
(* shows of it: the newest connect wins, an older one still resolves.      *)
(*                                                                         *)
(* Opening number d starts discovery d.  The list is a set: which row is   *)
(* first is a choice.                                                      *)
(***************************************************************************)
EXTENDS Naturals, FiniteSets

CONSTANTS Targets,
          NoTarget,
          MaxOpens,    \* bound on the openings of the picker
          MaxConnects, \* bound on the targets chosen
          MaxChanges   \* bound on the changes of the running targets

\* What the constants must be; the module that checks this one assumes it.
PickerAssumption ==
  NoTarget \notin Targets /\ MaxOpens \in Nat /\ MaxConnects \in Nat /\ MaxChanges \in Nat

VARIABLES picker,   \* the controller's state, and the discovery its list is from
          search,   \* the discoveries
          surface,  \* the Live View: target, connects, session, focus
          fleet,    \* the targets that can be selected
          changes

pickerVars == <<picker, search, surface, fleet, changes>>

Searches == 1 .. MaxOpens
Connects == 1 .. MaxConnects
Zero == 0

PickerInit ==
  /\ picker = [open |-> FALSE, loading |-> FALSE, choices |-> {}, selected |-> NoTarget,
               generation |-> 0, active |-> Zero, from |-> Zero]
  /\ search = [d \in Searches |-> [state |-> "none", generation |-> 0]]
  /\ surface = [target |-> NoTarget, newest |-> Zero, session |-> Zero, focused |-> FALSE,
                connect |-> [k \in Connects |-> [state |-> "none", target |-> NoTarget]],
                shut |-> FALSE]
  /\ fleet \in SUBSET Targets
  /\ changes = 0

(***************************************************************************)
(* BrowserPickerController.                                                *)
(***************************************************************************)
(* cancelDiscovery aborts what is active; its await is rejected later.     *)
Cancelled ==
  [d \in Searches |-> IF d = picker.active /\ search[d].state = "running"
                      THEN [search[d] EXCEPT !.state = "aborted"] ELSE search[d]]

PickerOpen(d) ==
  /\ search[d].state = "none" /\ \A e \in Searches : e < d => search[e].state # "none"
  /\ picker' = [picker EXCEPT !.open = TRUE, !.loading = TRUE, !.active = d,
                              !.generation = @ + 1]
  /\ search' = [Cancelled EXCEPT ![d] = [state |-> "running",
                                         generation |-> picker.generation + 1]]

PickerClosed ==
  [picker EXCEPT !.open = FALSE, !.loading = FALSE, !.active = Zero, !.generation = @ + 1]

\* Mutant of Current: the generation is not compared.
OpenNow(d) == picker.open

(* What a discovery checks after its await.                                *)
Current(d) == search[d].generation = picker.generation /\ picker.open

Published(d, choices, selected) ==
  LET p == IF Current(d) THEN [picker EXCEPT !.loading = FALSE, !.choices = choices,
                                             !.selected = selected, !.from = d]
                         ELSE picker
  IN [p EXCEPT !.active = IF @ = d THEN Zero ELSE @]

Settles(d) ==
  /\ search' = [search EXCEPT ![d].state = "done"]
  /\ UNCHANGED <<surface, fleet, changes>>

Discovered(d) ==
  /\ search[d].state = "running"
  /\ \E t \in IF fleet = {} THEN {NoTarget} ELSE fleet : picker' = Published(d, fleet, t)
  /\ Settles(d)

(* The source fails, five seconds are over, or the abort of a later call   *)
(* arrives: the source need not listen to its signal.                      *)
DiscoveryFails(d) ==
  /\ search[d].state \in {"running", "aborted"}
  /\ picker' = Published(d, {}, NoTarget)
  /\ Settles(d)

Move(t) ==
  /\ picker.open /\ ~picker.loading /\ t \in picker.choices /\ ~surface.shut
  /\ picker' = [picker EXCEPT !.selected = t]
  /\ UNCHANGED <<search, surface, fleet, changes>>

(***************************************************************************)
(* OpenTuiBrowserApp.                                                      *)
(***************************************************************************)
(* openPicker: what is held is released and the Live View loses the keys.  *)
OpenPicker(d) ==
  /\ ~surface.shut /\ ~picker.open
  /\ PickerOpen(d)
  /\ surface' = [surface EXCEPT !.focused = FALSE]
  /\ UNCHANGED <<fleet, changes>>

Refocused(s) == IF s.target # NoTarget THEN [s EXCEPT !.focused = TRUE] ELSE s

ClosePicker ==
  /\ ~surface.shut /\ picker.open
  /\ picker' = PickerClosed /\ search' = Cancelled
  /\ surface' = Refocused(surface)
  /\ UNCHANGED <<fleet, changes>>

(* chooseBrowserTarget: the picker closes before the connection begins.    *)
Choose(k) ==
  /\ ~surface.shut
  /\ picker.open /\ ~picker.loading /\ picker.selected # NoTarget
  /\ surface.connect[k].state = "none"
  /\ \A j \in Connects : j < k => surface.connect[j].state # "none"
  /\ picker' = PickerClosed /\ search' = Cancelled
  /\ surface' = [surface EXCEPT !.newest = k, !.session = Zero,
                   !.connect[k] = [state |-> "pending", target |-> picker.selected]]
  /\ UNCHANGED <<fleet, changes>>

(* The surface takes the target once its teardown is over.                 *)
TakesTarget(k) ==
  /\ surface.connect[k].state = "pending" /\ surface.newest = k /\ ~surface.shut
  /\ surface' = [surface EXCEPT !.connect[k].state = "opening",
                                !.target = surface.connect[k].target]
  /\ UNCHANGED <<picker, search, fleet, changes>>

(* connect resolves, also when it was overtaken: the Live View is focused. *)
ConnectResolves(k) ==
  /\ ~surface.shut
  /\ \/ surface.connect[k].state = "opening"
     \/ surface.connect[k].state = "pending" /\ surface.newest # k
  /\ surface' = [surface EXCEPT !.connect[k].state = "done", !.focused = TRUE,
                                !.session = IF surface.newest = k THEN k ELSE @]
  /\ UNCHANGED <<picker, search, fleet, changes>>

ConnectRejects(k) ==
  /\ surface.connect[k].state = "opening" /\ ~surface.shut
  /\ surface' = [surface EXCEPT !.connect[k].state = "done"]
  /\ UNCHANGED <<picker, search, fleet, changes>>

(* ctrl+c, or the renderer is destroyed.                                   *)
Shutdown ==
  /\ ~surface.shut
  /\ picker' = PickerClosed /\ search' = Cancelled
  /\ surface' = [surface EXCEPT !.shut = TRUE, !.session = Zero, !.focused = FALSE]
  /\ UNCHANGED <<fleet, changes>>

FleetChanges(f) ==
  /\ f # fleet /\ changes < MaxChanges
  /\ fleet' = f /\ changes' = changes + 1
  /\ UNCHANGED <<picker, search, surface>>

PickerNext ==
  \/ \E d \in Searches : OpenPicker(d) \/ Discovered(d) \/ DiscoveryFails(d)
  \/ \E t \in Targets : Move(t)
  \/ \E k \in Connects :
       Choose(k) \/ TakesTarget(k) \/ ConnectResolves(k) \/ ConnectRejects(k)
  \/ ClosePicker \/ Shutdown
  \/ \E f \in SUBSET Targets : FleetChanges(f)

PickerSpec == PickerInit /\ [][PickerNext]_pickerVars

-----------------------------------------------------------------------------
(* PROPERTIES *)

(* Stale-result suppression (src/docs/architecture.md:90): an open picker  *)
(* that is not loading shows what the discovery of this very opening found, *)
(* and the end of an earlier one, late or cancelled, shows nowhere.        *)
ListIsNewest ==
  picker.open /\ ~picker.loading =>
    /\ picker.from # Zero /\ search[picker.from].generation = picker.generation
    /\ picker.selected \in picker.choices \cup {NoTarget}

(* Behind a closed picker the keyboard belongs to the Live View as soon as *)
(* its newest connect has a session, whichever way the picker was used     *)
(* while that connect was under way.                                       *)
FocusReturns == ~picker.open /\ surface.session # Zero => surface.focused

=============================================================================
