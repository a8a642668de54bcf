----------------------------- MODULE OpenTuiKeys -----------------------------
(***************************************************************************)
(* How the OpenTUI surface turns key and mouse reports of the terminal     *)
(* into keysyms the guest holds: keysym.ts with forwardKey, forwardMouse,  *)
(* focus, blur and releaseHeldInput of LiveViewRenderable.  macOS chords   *)
(* become Linux chords, so what a key-up must release is not what its      *)
(* report says but what the key-down sent: activeKeys remembers it.        *)
(*                                                                         *)
(* Keysyms are named by the keys that make them.  All reports of a key     *)
(* carry one name, so that the search by identity and the search by name   *)
(* find the same entry.  Caps Lock and Hyper are left out.  The native     *)
(* session is the set of keysyms it holds and the gate through which it    *)
(* accepts input; InputDelivery has its inside.                            *)
(***************************************************************************)
EXTENDS Naturals, FiniteSets

CONSTANTS TerminalKeys, \* the keys of the keyboard that are not modifiers
          MaxDown       \* bound on the keys held at once

\* What the constants must be; the module that checks this one assumes it.
KeyNames == TerminalKeys \subseteq {"left", "up", "[", "c", "b", "v", "q"} /\ MaxDown \in Nat

VARIABLES terminal,   \* "kitty" reports key-ups, "raw" does not
          front,      \* the surface and its terminal have the focus
          pressed,    \* the keys and modifiers the operator holds
          active,     \* activeKeys, by the name of the key
          guest,      \* what the native session holds
          gate        \* whether it accepts input, and lastInputGate

keyVars == <<terminal, front, pressed, active, guest, gate>>

HeldModifiers == {"shift", "option", "super"}
X11 == [shift |-> "Shift", option |-> "Alt", super |-> "Meta"]
GuestModifiers == {"Shift", "Control", "Alt", "Meta"}
NoKeysym == [sym |-> "none", force |-> {}, remove |-> {}]

KeyInit ==
  /\ terminal \in {"kitty", "raw"}
  /\ front = TRUE /\ pressed = {}
  /\ active = [k \in TerminalKeys |-> NoKeysym]
  /\ guest = {}
  /\ gate = [open |-> TRUE, polled |-> TRUE]

(***************************************************************************)
(* keysym.ts                                                               *)
(***************************************************************************)
(* openTuiModifierSnapshot: the X11 modifiers of the held ones.            *)
Snapshot(held) == {X11[m] : m \in held \cap HeldModifiers}

Target(sym, force, remove) == [sym |-> sym, force |-> force, remove |-> remove]

(* Letters and symbols have a level; the keysym of "c" with Shift is "C".  *)
HasLevels(k) == k \notin {"left", "up"}
Shifted(k) ==
  [left |-> "Left", up |-> "Up", c |-> "C", b |-> "B", v |-> "V", q |-> "Q", bracket |-> "{"]
  [IF k = "[" THEN "bracket" ELSE k]
Plain(k) == IF k = "left" THEN "Left" ELSE IF k = "up" THEN "Up" ELSE k

(* keysymForOpenTuiKey and the level its target asks for.                  *)
OwnTarget(k, held) ==
  IF "shift" \in held
  THEN Target(Shifted(k), IF HasLevels(k) THEN {"Shift"} ELSE {}, {})
  ELSE Target(Plain(k), {}, IF HasLevels(k) THEN {"Shift"} ELSE {})

(* openTuiShortcutTranslation: macOS conventions to the guest's.           *)
Translation(k, held) ==
  LET command == "super" \in held
      option == "option" \in held
      level == Snapshot(held \cap {"shift"})
  IN CASE command /\ ~option /\ k = "left" -> Target("Home", level, {"Meta"})
       [] command /\ ~option /\ k = "up" -> Target("Home", level \cup {"Control"}, {"Meta"})
       [] command /\ ~option /\ k = "[" /\ level # {} ->
            Target("PageUp", {"Control"}, {"Shift", "Meta"})
       [] command /\ ~option /\ k = "[" /\ level = {} -> Target("Left", {"Alt"}, {"Meta"})
       [] command /\ ~option /\ k = "c" ->
            Target(IF level = {} THEN "c" ELSE "C", level \cup {"Control"}, {"Meta"})
       [] option /\ ~command /\ k = "left" -> Target("Left", level \cup {"Control"}, {"Alt"})
       [] OTHER -> NoKeysym

(* isOpenTuiLocalShortcut: Command-V pastes and Command-Q quits locally.   *)
LocalShortcut(k, held) == "super" \in held /\ k \in {"v", "q"}

(* applyOpenTuiKeyTargetModifiers; no modifier is both forced and removed. *)
Effective(held, t) == (Snapshot(held) \ t.remove) \cup t.force

(***************************************************************************)
(* The native session: setKey answers whether the change was accepted.     *)
(***************************************************************************)
AcceptsDown(g, sym) == gate.open /\ sym \notin g
KeyDown(g, sym) == IF gate.open THEN g \cup {sym} ELSE g
KeyUp(g, sym) == IF gate.open THEN g \ {sym} ELSE g
SetModifiers(g, mods) == IF gate.open THEN (g \ GuestModifiers) \cup mods ELSE g

(***************************************************************************)
(* forwardKey                                                              *)
(***************************************************************************)
Entered(k) == active[k] # NoKeysym

PressTarget(k, held) ==
  IF Entered(k) THEN active[k]
  ELSE IF Translation(k, held) # NoKeysym THEN Translation(k, held)
  ELSE OwnTarget(k, held)

(* A Kitty key-down or repeat with the modifiers of held.                  *)
Pressed(k, held) ==
  LET t == PressTarget(k, held)
      g == SetModifiers(guest, Effective(held, t))
      accepted == AcceptsDown(g, t.sym)
  IN /\ guest' = IF Entered(k) \/ accepted THEN KeyDown(g, t.sym)
                 ELSE SetModifiers(g, Snapshot(held))
     /\ active' = IF Entered(k) \/ accepted
                  THEN [active EXCEPT ![k] = t]
                  ELSE active

(* A terminal without key-ups: a tap, and no modifier stays.               *)
Tapped(k, held) ==
  LET t == IF Translation(k, held) # NoKeysym THEN Translation(k, held)
           ELSE OwnTarget(k, held)
      g == SetModifiers(guest, Effective(held, t))
  IN guest' = SetModifiers(KeyUp(KeyDown(g, t.sym), t.sym), {}) /\ UNCHANGED active

\* Mutant of ReleaseTarget: what the key-down sent is not looked up.
OwnReleaseTarget(k, held) == OwnTarget(k, held)

(* A key-up releases what the entry says, or the key's own keysym.         *)
ReleaseTarget(k, held) == IF Entered(k) THEN active[k] ELSE OwnTarget(k, held)

Released(k, held) ==
  /\ guest' = SetModifiers(KeyUp(guest, ReleaseTarget(k, held).sym), Snapshot(held))
  /\ active' = [active EXCEPT ![k] = NoKeysym]

Ignored == UNCHANGED <<guest, active>>

(***************************************************************************)
(* The operator's keyboard.  Reports reach the surface while it has the    *)
(* focus; what the operator does elsewhere goes unseen.                    *)
(***************************************************************************)
KeyPress(k) ==
  /\ k \notin pressed /\ Cardinality(pressed) < MaxDown
  /\ terminal = "kitty"
  /\ pressed' = pressed \cup {k}
  /\ IF ~front \/ LocalShortcut(k, pressed) THEN Ignored
     ELSE Pressed(k, pressed)
  /\ UNCHANGED <<terminal, front, gate>>

KeyRepeat(k) ==
  /\ terminal = "kitty" /\ k \in pressed /\ front /\ ~LocalShortcut(k, pressed)
  /\ Pressed(k, pressed)
  /\ UNCHANGED <<terminal, front, pressed, gate>>

KeyRelease(k) ==
  /\ terminal = "kitty" /\ k \in pressed
  /\ pressed' = pressed \ {k}
  /\ IF ~front \/ LocalShortcut(k, pressed) THEN Ignored ELSE Released(k, pressed)
  /\ UNCHANGED <<terminal, front, gate>>

(* A raw terminal reports a chord at once, when its key goes down.         *)
RawPress(k) ==
  /\ terminal = "raw" /\ front /\ ~LocalShortcut(k, pressed)
  /\ Tapped(k, pressed)
  /\ UNCHANGED <<terminal, front, pressed, gate>>

(* Modifier keys: Kitty reports them, and their state replaces the guest's *)
Toggle(m) ==
  /\ m \in pressed \/ Cardinality(pressed) < MaxDown
  /\ pressed' = IF m \in pressed THEN pressed \ {m} ELSE pressed \cup {m}
  /\ guest' = IF terminal = "kitty" /\ front THEN SetModifiers(guest, Snapshot(pressed')) ELSE guest
  /\ UNCHANGED <<terminal, front, active, gate>>

(***************************************************************************)
(* Focus, control and the poll.                                            *)
(***************************************************************************)
NoEntries == [k \in TerminalKeys |-> NoKeysym]

(* blur, the renderer's blur handler: releaseHeldInput.                    *)
Blur ==
  /\ front /\ front' = FALSE
  /\ active' = NoEntries /\ guest' = {}
  /\ UNCHANGED <<terminal, pressed, gate>>

Focus ==
  /\ ~front /\ front' = TRUE
  /\ UNCHANGED <<terminal, pressed, active, guest, gate>>

(* The transport or the control is lost: the session releases what it held.*)
GateCloses ==
  /\ gate.open /\ gate' = [gate EXCEPT !.open = FALSE]
  /\ guest' = {}
  /\ UNCHANGED <<terminal, front, pressed, active>>

GateOpens ==
  /\ ~gate.open /\ gate' = [gate EXCEPT !.open = TRUE]
  /\ UNCHANGED <<terminal, front, pressed, active, guest>>

ReleaseViewControl ==
  /\ gate' = [gate EXCEPT !.open = FALSE]
  /\ active' = NoEntries /\ guest' = {}
  /\ UNCHANGED <<terminal, front, pressed>>

PollGate ==
  /\ gate' = [gate EXCEPT !.polled = gate.open]
  /\ active' = IF gate.polled /\ ~gate.open THEN NoEntries ELSE active
  /\ UNCHANGED <<terminal, front, pressed, guest>>

(***************************************************************************)
(* forwardMouse with the left button.  A terminal keeps sending a captured *)
(* drag, also over the letterbox, to the surface it began on.              *)
(***************************************************************************)
Button == "button"

MouseDown(inside) ==
  /\ Button \notin pressed /\ Cardinality(pressed) < MaxDown
  /\ pressed' = pressed \cup {Button}
  /\ guest' = IF inside THEN KeyDown(guest, Button) ELSE guest
  /\ front' = (front \/ inside)
  /\ UNCHANGED <<terminal, active, gate>>

MouseUp ==
  /\ Button \in pressed
  /\ pressed' = pressed \ {Button}
  /\ guest' = KeyUp(guest, Button)
  /\ UNCHANGED <<terminal, front, active, gate>>

KeyNext ==
  \/ \E k \in TerminalKeys : KeyPress(k) \/ KeyRepeat(k) \/ KeyRelease(k) \/ RawPress(k)
  \/ \E m \in HeldModifiers : Toggle(m)
  \/ Blur \/ Focus \/ GateCloses \/ GateOpens \/ ReleaseViewControl \/ PollGate
  \/ \E inside \in BOOLEAN : MouseDown(inside)
  \/ MouseUp

KeySpec == KeyInit /\ [][KeyNext]_keyVars

-----------------------------------------------------------------------------
(* PROPERTIES *)

HeldBy(sym) == {k \in pressed \cap TerminalKeys : active[k].sym = sym}

(* What the guest holds is held by a key that is down and whose entry will *)
(* release it, whatever modifiers, focus or control changed between: the   *)
(* local chords are the exception that ReleasedIsUp is about.              *)
HeldMeansDown ==
  \A sym \in guest \ GuestModifiers :
    \/ sym = Button /\ Button \in pressed
    \/ HeldBy(sym) # {}
    \/ sym \in {"v", "V", "q", "Q"}

(* "an explicit key-up releases the target" (docs/architecture.md:30): with *)
(* no key down the guest holds none.                                        *)
ReleasedIsUp == pressed \cap TerminalKeys = {} => guest \subseteq GuestModifiers \cup {Button}

=============================================================================
