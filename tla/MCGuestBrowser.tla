---------------------------- MODULE MCGuestBrowser ----------------------------
(* What the client does to the browser in the guest, for one run: the life of   *)
(* its VM and files (GuestBrowser), and the temporary tab of the tools          *)
(* (CdpPage), which lives within one VM.  A behaviour takes one of them.        *)
EXTENDS GuestBrowser, CdpPage

CONSTANTS t1, t2

VARIABLES part

(* A browser without a page, and one with two.                                  *)
FoundBrowsers == {[tabs |-> {}, visible |-> NoTab], [tabs |-> {t1, t2}, visible |-> t1]}

(* The part that a behaviour does not take has one initial state.               *)
MCInit ==
  /\ part \in {"vm", "page"}
  /\ Init /\ CdpInit
  /\ part # "page" => guest.tabs = {}
  /\ part # "vm" => vm = NoVm /\ \A p, q \in Procs : runtime[p] = runtime[q]

MCNext ==
  \/ part = "vm" /\ Next /\ UNCHANGED <<part, cdpVars>>
  \/ part = "page" /\ CdpNext /\ UNCHANGED <<part, guestVars>>

MCSpec == MCInit /\ [][MCNext]_<<part, guestVars, cdpVars>>
===============================================================================
