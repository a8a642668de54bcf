---------------------------- MODULE OpenTui_proofs ----------------------------
(***************************************************************************)
(* Proofs about the three parts of the OpenTUI view, which share no state  *)
(* here: what its key reports make the guest hold (OpenTuiKeys), for any   *)
(* of the keys; what its target picker shows (BrowserPicker), for any      *)
(* targets and any number of openings and connections; and the surface     *)
(* that owns the native session and its tunnel (LiveViewSurface).          *)
(***************************************************************************)
EXTENDS OpenTuiKeys, BrowserPicker, LiveViewSurface, TLAPS

(***************************************************************************)
(* The target of a key.                                                    *)
(***************************************************************************)
Symbols == {"none", "Left", "Up", "Home", "PageUp", "[", "{", "c", "C", "b", "B", "v", "V", "q", "Q"}
Entries == [sym : Symbols, force : SUBSET GuestModifiers, remove : SUBSET GuestModifiers]
LocalSyms == {"v", "V", "q", "Q"}

\* A key other than "v" and "q" may become any keysym, these two only their own.
OfKey(k, t) ==
  /\ t \in Entries
  /\ t = NoKeysym \/ t.sym # "none"
  /\ k \in {"v", "q"} => t.sym \in LocalSyms \cup {"none"}

LEMMA NoKeysymOfKey == \A k : OfKey(k, NoKeysym)
BY DEF OfKey, NoKeysym, Entries, Symbols, GuestModifiers, LocalSyms

LEMMA TargetOfKey ==
  ASSUME NEW k, NEW sym \in Symbols \ {"none"}, k \in {"v", "q"} => sym \in LocalSyms,
         NEW force \in SUBSET GuestModifiers, NEW remove \in SUBSET GuestModifiers
  PROVE  OfKey(k, Target(sym, force, remove)) /\ Target(sym, force, remove).sym # "none"
BY DEF OfKey, Target, Entries

LEMMA OwnOfKey ==
  ASSUME KeyNames, NEW k \in TerminalKeys, NEW held
  PROVE  OfKey(k, OwnTarget(k, held)) /\ OwnTarget(k, held).sym # "none"
<1>1. k \in {"left", "up", "[", "c", "b", "v", "q"}
  BY DEF KeyNames
<1>2. /\ Shifted(k) \in Symbols \ {"none"} /\ Plain(k) \in Symbols \ {"none"}
      /\ k \in {"v", "q"} => Shifted(k) \in LocalSyms /\ Plain(k) \in LocalSyms
  <2>1. /\ Shifted("left") = "Left" /\ Shifted("up") = "Up" /\ Shifted("[") = "{"
        /\ Shifted("c") = "C" /\ Shifted("b") = "B" /\ Shifted("v") = "V" /\ Shifted("q") = "Q"
    BY DEF Shifted
  <2>2. /\ Plain("left") = "Left" /\ Plain("up") = "Up" /\ Plain("[") = "["
        /\ Plain("c") = "c" /\ Plain("b") = "b" /\ Plain("v") = "v" /\ Plain("q") = "q"
    BY DEF Plain
  <2> QED
    BY <1>1, <2>1, <2>2 DEF Symbols, LocalSyms
<1>3. {} \in SUBSET GuestModifiers /\ {"Shift"} \in SUBSET GuestModifiers
  BY DEF GuestModifiers
<1>4. CASE "shift" \in held
  BY <1>2, <1>3, <1>4, TargetOfKey DEF OwnTarget
<1>5. CASE "shift" \notin held
  BY <1>2, <1>3, <1>5, TargetOfKey DEF OwnTarget
<1> QED
  BY <1>4, <1>5

LEMMA TranslationOfKey ==
  ASSUME NEW k, NEW held
  PROVE  OfKey(k, Translation(k, held))
<1> DEFINE level == Snapshot(held \cap {"shift"})
<1>0. level \subseteq {"Shift"}
  BY DEF Snapshot, HeldModifiers, X11
<1>1. /\ level \in SUBSET GuestModifiers /\ level \cup {"Control"} \in SUBSET GuestModifiers
      /\ {"Control"} \in SUBSET GuestModifiers /\ {"Alt"} \in SUBSET GuestModifiers
      /\ {"Meta"} \in SUBSET GuestModifiers /\ {"Shift", "Meta"} \in SUBSET GuestModifiers
  BY <1>0 DEF GuestModifiers
<1>2. CASE k \notin {"left", "up", "[", "c"}
  BY <1>2, NoKeysymOfKey DEF Translation
<1> HIDE DEF level
<1>3. CASE k = "left"
  <2>1. Translation(k, held) \in
          {Target("Home", level, {"Meta"}), Target("Left", level \cup {"Control"}, {"Alt"}), NoKeysym}
    BY <1>3 DEF Translation, level
  <2>2. OfKey(k, Target("Home", level, {"Meta"}))
    BY <1>1, <1>3, TargetOfKey DEF Symbols
  <2>3. OfKey(k, Target("Left", level \cup {"Control"}, {"Alt"}))
    BY <1>1, <1>3, TargetOfKey DEF Symbols
  <2> QED
    BY <2>1, <2>2, <2>3, NoKeysymOfKey
<1>4. CASE k = "up"
  <2>1. Translation(k, held) \in {Target("Home", level \cup {"Control"}, {"Meta"}), NoKeysym}
    BY <1>4 DEF Translation, level
  <2>2. OfKey(k, Target("Home", level \cup {"Control"}, {"Meta"}))
    BY <1>1, <1>4, TargetOfKey DEF Symbols
  <2> QED
    BY <2>1, <2>2, NoKeysymOfKey
<1>5. CASE k = "["
  <2>1. Translation(k, held) \in
          {Target("PageUp", {"Control"}, {"Shift", "Meta"}), Target("Left", {"Alt"}, {"Meta"}), NoKeysym}
    BY <1>5 DEF Translation, level
  <2>2. OfKey(k, Target("PageUp", {"Control"}, {"Shift", "Meta"}))
    BY <1>1, <1>5, TargetOfKey DEF Symbols
  <2>3. OfKey(k, Target("Left", {"Alt"}, {"Meta"}))
    BY <1>1, <1>5, TargetOfKey DEF Symbols
  <2> QED
    BY <2>1, <2>2, <2>3, NoKeysymOfKey
<1>6. CASE k = "c"
  <2>1. Translation(k, held) \in
          {Target("c", level \cup {"Control"}, {"Meta"}), Target("C", level \cup {"Control"}, {"Meta"}),
           NoKeysym}
    BY <1>6 DEF Translation, level
  <2>2. OfKey(k, Target("c", level \cup {"Control"}, {"Meta"}))
    BY <1>1, <1>6, TargetOfKey DEF Symbols
  <2>3. OfKey(k, Target("C", level \cup {"Control"}, {"Meta"}))
    BY <1>1, <1>6, TargetOfKey DEF Symbols
  <2> QED
    BY <2>1, <2>2, <2>3, NoKeysymOfKey
<1> QED
  BY <1>2, <1>3, <1>4, <1>5, <1>6

(***************************************************************************)
(* Nothing is held through a closed gate or without the focus; what the    *)
(* entries say is a keysym; and what the guest holds is held by a key.     *)
(***************************************************************************)
KeyTypes ==
  /\ active \in [TerminalKeys -> Entries]
  /\ gate \in [open : BOOLEAN, polled : BOOLEAN]
  /\ \A k \in TerminalKeys : OfKey(k, active[k])

NothingHeldAway == (~gate.open \/ ~front) => guest = {}

HeldInv == KeyTypes /\ NothingHeldAway /\ "none" \notin guest /\ HeldMeansDown

LEMMA PressOfKey ==
  ASSUME KeyNames, KeyTypes, NEW k \in TerminalKeys, NEW held
  PROVE  OfKey(k, PressTarget(k, held)) /\ PressTarget(k, held).sym # "none"
<1>1. CASE Entered(k)
  BY <1>1 DEF PressTarget, KeyTypes, OfKey, Entered
<1>2. CASE ~Entered(k) /\ Translation(k, held) # NoKeysym
  BY <1>2, TranslationOfKey DEF PressTarget, OfKey
<1>3. CASE ~Entered(k) /\ Translation(k, held) = NoKeysym
  BY <1>3, OwnOfKey DEF PressTarget
<1> QED
  BY <1>1, <1>2, <1>3

\* Setting the modifiers changes no other keysym.
LEMMA ModifiersApart ==
  ASSUME NEW g, NEW mods \in SUBSET GuestModifiers
  PROVE  /\ SetModifiers(g, mods) \ GuestModifiers = g \ GuestModifiers
         /\ "none" \notin g => "none" \notin SetModifiers(g, mods)
BY DEF SetModifiers, GuestModifiers

LEMMA SnapshotModifiers == \A held : Snapshot(held) \in SUBSET GuestModifiers
BY DEF Snapshot, HeldModifiers, X11, GuestModifiers

LEMMA EffectiveModifiers ==
  ASSUME NEW held, NEW t \in Entries
  PROVE  Effective(held, t) \in SUBSET GuestModifiers
BY SnapshotModifiers DEF Effective, Entries

\* The modifiers alone hold or release nothing else.
LEMMA StaysHeld ==
  ASSUME HeldInv, KeyTypes', UNCHANGED active, guest' \ GuestModifiers \subseteq guest \ GuestModifiers,
         "none" \notin guest', NothingHeldAway',
         pressed \cap (TerminalKeys \cup {Button}) \subseteq pressed'
  PROVE  HeldInv'
<1>1. HeldMeansDown'
  BY DEF HeldInv, HeldMeansDown, HeldBy
<1> QED
  BY <1>1 DEF HeldInv

LEMMA PressedHeld ==
  ASSUME KeyNames, HeldInv, front, NEW k \in TerminalKeys, NEW held, Pressed(k, held),
         pressed' = pressed \cup {k}, UNCHANGED <<front, gate>>
  PROVE  HeldInv'
<1> DEFINE t == PressTarget(k, held)
           g == SetModifiers(guest, Effective(held, t))
<1>1. OfKey(k, t) /\ t.sym # "none" /\ t \in Entries
  BY PressOfKey DEF HeldInv, OfKey
<1>2. g \ GuestModifiers = guest \ GuestModifiers /\ "none" \notin g
  BY <1>1, EffectiveModifiers, ModifiersApart DEF HeldInv
<1>3. ~gate.open => g = {}
  BY DEF SetModifiers, HeldInv, NothingHeldAway
<1>4. CASE Entered(k) \/ AcceptsDown(g, t.sym)
  <2>1. guest' = KeyDown(g, t.sym) /\ active' = [active EXCEPT ![k] = t]
    BY <1>4 DEF Pressed
  <2>2. KeyTypes'
    BY <1>1, <2>1 DEF HeldInv, KeyTypes
  <2>3. NothingHeldAway' /\ "none" \notin guest'
    BY <1>1, <1>2, <1>3, <2>1 DEF KeyDown, HeldInv, NothingHeldAway
  <2>4. active'[k] = t /\ \A j \in TerminalKeys \ {k} : active'[j] = active[j]
    BY <2>1 DEF HeldInv, KeyTypes
  <2>5. active[k].sym = t.sym \/ active[k].sym = "none"
    BY DEF PressTarget, Entered, NoKeysym
  <2> HIDE DEF t, g
  <2>6. HeldMeansDown'
    <3> SUFFICES ASSUME NEW sym \in guest' \ GuestModifiers, sym \notin LocalSyms,
                        ~(sym = Button /\ Button \in pressed')
                 PROVE  \E j \in pressed' \cap TerminalKeys : active'[j].sym = sym
      BY DEF HeldMeansDown, HeldBy, LocalSyms
    <3>1. CASE sym = t.sym
      BY <2>4, <3>1
    <3>2. CASE sym # t.sym
      <4>1. sym \in guest \ GuestModifiers
        BY <1>2, <2>1, <3>2 DEF KeyDown
      <4>2. PICK j \in pressed \cap TerminalKeys : active[j].sym = sym
        BY <4>1 DEF HeldInv, HeldMeansDown, HeldBy, LocalSyms
      <4>3. j # k
        BY <2>5, <3>2, <4>1, <4>2 DEF HeldInv
      <4> QED
        BY <2>4, <4>2, <4>3
    <3> QED
      BY <3>1, <3>2
  <2> QED
    BY <2>2, <2>3, <2>6 DEF HeldInv
<1>5. CASE ~(Entered(k) \/ AcceptsDown(g, t.sym))
  <2>1. guest' = SetModifiers(g, Snapshot(held)) /\ active' = active
    BY <1>5 DEF Pressed
  <2>2. guest' \ GuestModifiers = guest \ GuestModifiers /\ "none" \notin guest'
    BY <1>2, <2>1, SnapshotModifiers, ModifiersApart
  <2>3. NothingHeldAway'
    BY <1>3, <2>1 DEF SetModifiers, HeldInv, NothingHeldAway
  <2>4. KeyTypes'
    BY <2>1 DEF HeldInv, KeyTypes
  <2> QED
    BY <2>1, <2>2, <2>3, <2>4, StaysHeld
<1> QED
  BY <1>4, <1>5

LEMMA ReleasedHeld ==
  ASSUME KeyNames, HeldInv, front, NEW k \in TerminalKeys, NEW held, Released(k, held),
         pressed' = pressed \ {k}, UNCHANGED <<front, gate>>
  PROVE  HeldInv'
<1> DEFINE t == ReleaseTarget(k, held)
           g == KeyUp(guest, t.sym)
<1>1. guest' = SetModifiers(g, Snapshot(held)) /\ active' = [active EXCEPT ![k] = NoKeysym]
  BY DEF Released
<1>2. KeyTypes'
  BY <1>1, NoKeysymOfKey DEF HeldInv, KeyTypes, OfKey
<1>3. g \subseteq guest /\ (gate.open => t.sym \notin g) /\ (~gate.open => g = {})
  BY DEF KeyUp, HeldInv, NothingHeldAway
<1>4. Entered(k) => t = active[k]
  BY DEF ReleaseTarget
<1> HIDE DEF t, g
<1>5. guest' \ GuestModifiers = g \ GuestModifiers /\ "none" \notin guest'
  BY <1>1, <1>3, SnapshotModifiers, ModifiersApart DEF HeldInv
<1>6. NothingHeldAway'
  BY <1>1, <1>3 DEF SetModifiers, HeldInv, NothingHeldAway
<1>7. HeldMeansDown'
  <2> SUFFICES ASSUME NEW sym \in guest' \ GuestModifiers, sym \notin LocalSyms,
                      ~(sym = Button /\ Button \in pressed')
               PROVE  \E j \in pressed' \cap TerminalKeys : active'[j].sym = sym
    BY DEF HeldMeansDown, HeldBy, LocalSyms
  <2>1. sym \in guest \ GuestModifiers /\ sym \in g /\ sym # "none"
    BY <1>3, <1>5
  <2>2. ~(sym = Button /\ Button \in pressed)
    BY DEF Button, KeyNames
  <2>3. PICK j \in pressed \cap TerminalKeys : active[j].sym = sym
    BY <2>1, <2>2 DEF HeldInv, HeldMeansDown, HeldBy, LocalSyms
  <2>4. j # k
    BY <1>3, <1>4, <2>1, <2>3 DEF Entered, NoKeysym
  <2> QED
    BY <1>1, <2>3, <2>4 DEF HeldInv, KeyTypes
<1> QED
  BY <1>2, <1>5, <1>6, <1>7 DEF HeldInv

LEMMA TappedHeld ==
  ASSUME KeyNames, HeldInv, NEW k \in TerminalKeys, NEW held, Tapped(k, held),
         UNCHANGED <<front, gate, pressed>>
  PROVE  HeldInv'
<1> DEFINE t == IF Translation(k, held) # NoKeysym THEN Translation(k, held) ELSE OwnTarget(k, held)
           g == SetModifiers(guest, Effective(held, t))
           up == KeyUp(KeyDown(g, t.sym), t.sym)
<1>1. guest' = SetModifiers(up, {}) /\ active' = active
  BY DEF Tapped
<1>2. t \in Entries /\ t.sym # "none"
  BY OwnOfKey, TranslationOfKey DEF OfKey
<1>3. g \ GuestModifiers = guest \ GuestModifiers /\ "none" \notin g
  BY <1>2, EffectiveModifiers, ModifiersApart DEF HeldInv
<1>4. front \/ g \ GuestModifiers = {}
  BY <1>3 DEF HeldInv, NothingHeldAway
<1>5. up \subseteq g /\ (~gate.open => up = {})
  BY DEF KeyUp, KeyDown, SetModifiers, HeldInv, NothingHeldAway
<1> HIDE DEF up, g, t
<1>6. /\ SetModifiers(up, {}) \ GuestModifiers = up \ GuestModifiers
      /\ "none" \notin SetModifiers(up, {})
  BY <1>3, <1>5, ModifiersApart
<1>7. ~gate.open \/ SetModifiers(up, {}) = up \ GuestModifiers
  BY DEF SetModifiers
<1>8. NothingHeldAway'
  BY <1>1, <1>4, <1>5, <1>7 DEF SetModifiers, NothingHeldAway
<1>9. KeyTypes'
  BY <1>1 DEF HeldInv, KeyTypes
<1> QED
  BY <1>1, <1>3, <1>5, <1>6, <1>8, <1>9, StaysHeld

LEMMA HeldStep ==
  ASSUME KeyNames, HeldInv, [KeyNext]_keyVars
  PROVE  HeldInv'
<1>0. Button \notin TerminalKeys /\ HeldModifiers \cap (TerminalKeys \cup {Button}) = {}
  BY DEF KeyNames, Button, HeldModifiers
<1>1. ASSUME NEW k \in TerminalKeys, KeyPress(k) PROVE HeldInv'
  <2>1. CASE ~front \/ LocalShortcut(k, pressed)
    BY <1>1, <2>1, StaysHeld DEF KeyPress, Ignored, HeldInv, KeyTypes, NothingHeldAway
  <2>2. CASE front /\ ~LocalShortcut(k, pressed)
    BY <1>1, <2>2, PressedHeld DEF KeyPress
  <2> QED
    BY <2>1, <2>2
<1>2. ASSUME NEW k \in TerminalKeys, KeyRepeat(k) PROVE HeldInv'
  <2>1. pressed' = pressed \cup {k}
    BY <1>2 DEF KeyRepeat
  <2> QED
    BY <1>2, <2>1, PressedHeld DEF KeyRepeat
<1>3. ASSUME NEW k \in TerminalKeys, KeyRelease(k) PROVE HeldInv'
  <2>1. CASE ~front
    BY <1>3, <2>1 DEF KeyRelease, Ignored, HeldInv, KeyTypes, NothingHeldAway, HeldMeansDown
  <2>2. CASE front /\ LocalShortcut(k, pressed)
    <3>1. active[k].sym \in LocalSyms \cup {"none"}
      BY <2>2 DEF LocalShortcut, HeldInv, KeyTypes, OfKey
    <3>2. HeldMeansDown'
      BY <1>0, <1>3, <2>2, <3>1 DEF KeyRelease, Ignored, HeldInv, HeldMeansDown, HeldBy, LocalSyms
    <3> QED
      BY <1>3, <2>2, <3>2 DEF KeyRelease, Ignored, HeldInv, KeyTypes, NothingHeldAway
  <2>3. CASE front /\ ~LocalShortcut(k, pressed)
    BY <1>3, <2>3, ReleasedHeld DEF KeyRelease
  <2> QED
    BY <2>1, <2>2, <2>3
<1>4. ASSUME NEW k \in TerminalKeys, RawPress(k) PROVE HeldInv'
  BY <1>4, TappedHeld DEF RawPress
<1>5. ASSUME NEW m \in HeldModifiers, Toggle(m) PROVE HeldInv'
  <2>1. pressed \cap (TerminalKeys \cup {Button}) \subseteq pressed'
    BY <1>0, <1>5 DEF Toggle
  <2>2. guest' = guest \/ (front /\ guest' = SetModifiers(guest, Snapshot(pressed')))
    BY <1>5 DEF Toggle
  <2>3. guest' \ GuestModifiers = guest \ GuestModifiers /\ "none" \notin guest'
    BY <2>2, SnapshotModifiers, ModifiersApart DEF HeldInv
  <2>4. NothingHeldAway'
    BY <1>5, <2>2 DEF Toggle, SetModifiers, HeldInv, NothingHeldAway
  <2> QED
    BY <1>5, <2>1, <2>3, <2>4, StaysHeld DEF Toggle, HeldInv, KeyTypes
<1>gate. (Blur \/ GateCloses \/ ReleaseViewControl \/ Focus \/ GateOpens \/ PollGate)
        => gate' \in [open : BOOLEAN, polled : BOOLEAN]
  BY DEF Blur, GateCloses, ReleaseViewControl, Focus, GateOpens, PollGate, HeldInv, KeyTypes
<1>6. CASE Blur \/ GateCloses \/ ReleaseViewControl
  <2>1. guest' = {} /\ (active' = active \/ active' = NoEntries)
    BY <1>6 DEF Blur, GateCloses, ReleaseViewControl
  <2>2. KeyTypes'
    BY <1>gate, <1>6, <2>1, NoKeysymOfKey DEF HeldInv, KeyTypes, NoEntries, OfKey
  <2> QED
    BY <2>1, <2>2 DEF HeldInv, NothingHeldAway, HeldMeansDown
<1>7. CASE Focus \/ GateOpens
  <2>1. UNCHANGED <<guest, active, pressed>> /\ NothingHeldAway'
    BY <1>7 DEF Focus, GateOpens, HeldInv, NothingHeldAway
  <2> QED
    BY <1>gate, <1>7, <2>1, StaysHeld DEF HeldInv, KeyTypes
<1>8. CASE PollGate
  <2>1. /\ UNCHANGED <<guest, pressed, front>>
        /\ gate'.open = gate.open \/ guest = {}
        /\ active' = active \/ (active' = NoEntries /\ guest = {})
    BY <1>8 DEF PollGate, HeldInv, NothingHeldAway
  <2>2. KeyTypes'
    BY <1>gate, <1>8, <2>1, NoKeysymOfKey DEF HeldInv, KeyTypes, NoEntries, OfKey
  <2>3. CASE guest = {}
    BY <2>1, <2>2, <2>3 DEF HeldInv, NothingHeldAway, HeldMeansDown
  <2>4. CASE guest # {}
    BY <2>1, <2>2, <2>4 DEF HeldInv, NothingHeldAway, HeldMeansDown, HeldBy
  <2> QED
    BY <2>3, <2>4
<1>9. ASSUME NEW inside \in BOOLEAN, MouseDown(inside) PROVE HeldInv'
  <2>1. /\ pressed' = pressed \cup {Button} /\ UNCHANGED <<active, gate>>
        /\ \/ guest' = guest /\ (front' => front \/ guest' = guest)
           \/ guest' = guest \cup {Button} /\ gate.open /\ front'
    BY <1>9 DEF MouseDown, KeyDown
  <2>2. HeldMeansDown'
    BY <2>1 DEF HeldInv, HeldMeansDown, HeldBy
  <2>3. KeyTypes' /\ "none" \notin guest'
    BY <2>1 DEF HeldInv, KeyTypes, Button
  <2>4. NothingHeldAway'
    BY <1>9, <2>1 DEF MouseDown, HeldInv, NothingHeldAway
  <2> QED
    BY <2>2, <2>3, <2>4 DEF HeldInv
<1>10. CASE MouseUp
  <2>1. /\ pressed' = pressed \ {Button} /\ UNCHANGED <<active, gate, front>>
        /\ guest' = guest \ {Button}
    BY <1>10 DEF MouseUp, KeyUp, HeldInv, NothingHeldAway
  <2> QED
    BY <1>0, <2>1 DEF HeldInv, HeldMeansDown, HeldBy, KeyTypes, NothingHeldAway
<1>11. CASE UNCHANGED keyVars
  BY <1>11 DEF keyVars, HeldInv, HeldMeansDown, HeldBy, KeyTypes, NothingHeldAway
<1> QED
  BY <1>1, <1>2, <1>3, <1>4, <1>5, <1>6, <1>7, <1>8, <1>9, <1>10, <1>11 DEF KeyNext

\* HeldMeansDown: for any of the keys, held in any number and order while the
\* focus, the control and the modifiers come and go, the guest holds no keysym
\* that no key-up will release, the two local chords aside.
THEOREM HeldTheorem == ASSUME KeyNames PROVE KeySpec => []HeldMeansDown
<1>1. KeyInit => HeldInv
  BY NoKeysymOfKey DEF KeyInit, HeldInv, KeyTypes, OfKey, NothingHeldAway, HeldMeansDown
<1>2. HeldInv /\ [KeyNext]_keyVars => HeldInv'
  BY HeldStep
<1>3. HeldInv => HeldMeansDown
  BY DEF HeldInv
<1> QED
  BY <1>1, <1>2, <1>3, PTL DEF KeySpec

(***************************************************************************)
(* The picker.  A discovery keeps the generation of the opening that began *)
(* it, and an open list is from the discovery of the present one.          *)
(***************************************************************************)
SearchTypes ==
  /\ picker \in [open : BOOLEAN, loading : BOOLEAN, choices : SUBSET Targets,
                 selected : Targets \cup {NoTarget}, generation : Nat,
                 active : Searches \cup {Zero}, from : Searches \cup {Zero}]
  /\ search \in [Searches -> [state : {"none", "running", "aborted", "done"}, generation : Nat]]
  /\ fleet \in SUBSET Targets

PickerInv == SearchTypes /\ ListIsNewest

LEMMA CancelledKeeps ==
  ASSUME SearchTypes
  PROVE  /\ Cancelled \in [Searches -> [state : {"none", "running", "aborted", "done"}, generation : Nat]]
         /\ \A d \in Searches : Cancelled[d].generation = search[d].generation
BY DEF SearchTypes, Cancelled

LEMMA ClosedPicker ==
  ASSUME SearchTypes, picker' = PickerClosed, search' = Cancelled, UNCHANGED fleet
  PROVE  PickerInv'
<1>1. picker.generation + 1 \in Nat
  BY DEF SearchTypes
<1>2. /\ ~picker'.open
      /\ picker' \in [open : BOOLEAN, loading : BOOLEAN, choices : SUBSET Targets,
                      selected : Targets \cup {NoTarget}, generation : Nat,
                      active : Searches \cup {Zero}, from : Searches \cup {Zero}]
  BY <1>1 DEF SearchTypes, PickerClosed
<1> QED
  BY <1>2, CancelledKeeps DEF SearchTypes, PickerInv, ListIsNewest

LEMMA PublishedList ==
  ASSUME PickerInv, NEW d \in Searches, NEW choices \in SUBSET Targets,
         NEW selected \in choices \cup {NoTarget},
         picker' = Published(d, choices, selected), Settles(d)
  PROVE  PickerInv'
<1> DEFINE shown == [picker EXCEPT !.loading = FALSE, !.choices = choices,
                                   !.selected = selected, !.from = d]
           p == IF Current(d) THEN shown ELSE picker
           Pickers == [open : BOOLEAN, loading : BOOLEAN, choices : SUBSET Targets,
                       selected : Targets \cup {NoTarget}, generation : Nat,
                       active : Searches \cup {Zero}, from : Searches \cup {Zero}]
<1>1. picker' = [p EXCEPT !.active = IF p.active = d THEN Zero ELSE p.active]
  BY DEF Published
<1>2. /\ search' \in [Searches -> [state : {"none", "running", "aborted", "done"}, generation : Nat]]
      /\ \A e \in Searches : search'[e].generation = search[e].generation
      /\ fleet' \in SUBSET Targets
  BY DEF Settles, PickerInv, SearchTypes
<1>3. selected \in Targets \cup {NoTarget} /\ d # Zero
  BY DEF Searches, Zero
<1>4. CASE Current(d)
  <2>1. /\ shown \in Pickers /\ shown.from = d /\ shown.choices = choices
        /\ shown.selected = selected /\ shown.generation = picker.generation
    BY <1>3 DEF PickerInv, SearchTypes
  <2> HIDE DEF shown
  <2>2. picker' = [shown EXCEPT !.active = IF shown.active = d THEN Zero ELSE shown.active]
    BY <1>1, <1>4
  <2>3. /\ picker' \in Pickers /\ picker'.from = d /\ picker'.choices = choices
        /\ picker'.selected = selected /\ picker'.generation = picker.generation
    BY <2>1, <2>2
  <2> QED
    BY <1>2, <1>3, <1>4, <2>3 DEF PickerInv, SearchTypes, ListIsNewest, Current
<1>5. CASE ~Current(d)
  <2>1. picker' = [picker EXCEPT !.active = IF picker.active = d THEN Zero ELSE picker.active]
    BY <1>1, <1>5
  <2>2. /\ picker' \in Pickers /\ picker'.from = picker.from /\ picker'.choices = picker.choices
        /\ picker'.selected = picker.selected /\ picker'.generation = picker.generation
        /\ picker'.open = picker.open /\ picker'.loading = picker.loading
    BY <2>1 DEF PickerInv, SearchTypes
  <2> QED
    BY <1>2, <2>2 DEF PickerInv, SearchTypes, ListIsNewest
<1> QED
  BY <1>4, <1>5

LEMMA PickerStep ==
  ASSUME PickerAssumption, PickerInv, [PickerNext]_pickerVars
  PROVE  PickerInv'
<1>1. ASSUME NEW d \in Searches, OpenPicker(d) PROVE PickerInv'
  <2>1. /\ picker' = [picker EXCEPT !.open = TRUE, !.loading = TRUE, !.active = d,
                                    !.generation = picker.generation + 1]
        /\ search' = [Cancelled EXCEPT ![d] = [state |-> "running",
                                               generation |-> picker.generation + 1]]
        /\ UNCHANGED fleet
    BY <1>1 DEF OpenPicker, PickerOpen
  <2>2. picker.generation + 1 \in Nat
    BY DEF PickerInv, SearchTypes
  <2>3. SearchTypes' /\ picker'.loading
    BY <2>1, <2>2, CancelledKeeps DEF PickerInv, SearchTypes
  <2> QED
    BY <2>3 DEF PickerInv, ListIsNewest
<1>2. ASSUME NEW d \in Searches, Discovered(d) PROVE PickerInv'
  <2>1. PICK t \in IF fleet = {} THEN {NoTarget} ELSE fleet : picker' = Published(d, fleet, t)
    BY <1>2 DEF Discovered
  <2>2. t \in fleet \cup {NoTarget} /\ fleet \in SUBSET Targets
    BY DEF PickerInv, SearchTypes
  <2> QED
    BY <1>2, <2>1, <2>2, PublishedList DEF Discovered
<1>3. ASSUME NEW d \in Searches, DiscoveryFails(d) PROVE PickerInv'
  BY <1>3, PublishedList DEF DiscoveryFails
<1>4. ASSUME NEW t \in Targets, Move(t) PROVE PickerInv'
  BY <1>4 DEF Move, PickerInv, SearchTypes, ListIsNewest
<1>5. ASSUME NEW k \in Connects, Choose(k) PROVE PickerInv'
  BY <1>5, ClosedPicker DEF Choose, PickerInv
<1>6. CASE ClosePicker
  BY <1>6, ClosedPicker DEF ClosePicker, PickerInv
<1>7. CASE Shutdown
  BY <1>7, ClosedPicker DEF Shutdown, PickerInv
<1>8. ASSUME NEW k \in Connects, TakesTarget(k) \/ ConnectResolves(k) \/ ConnectRejects(k) PROVE PickerInv'
  BY <1>8 DEF TakesTarget, ConnectResolves, ConnectRejects, PickerInv, SearchTypes, ListIsNewest
<1>9. ASSUME NEW f \in SUBSET Targets, FleetChanges(f) PROVE PickerInv'
  BY <1>9 DEF FleetChanges, PickerInv, SearchTypes, ListIsNewest
<1>10. CASE UNCHANGED pickerVars
  BY <1>10 DEF pickerVars, PickerInv, SearchTypes, ListIsNewest
<1> QED
  BY <1>1, <1>2, <1>3, <1>4, <1>5, <1>6, <1>7, <1>8, <1>9, <1>10 DEF PickerNext

\* ListIsNewest: for any number of openings, a discovery that ends late, fails or
\* was cancelled shows nothing in an opening that is not its own.
THEOREM ListTheorem == ASSUME PickerAssumption PROVE PickerSpec => []ListIsNewest
<1>1. PickerInit => PickerInv
  BY DEF PickerInit, PickerInv, SearchTypes, ListIsNewest, Zero
<1>2. PickerInv /\ [PickerNext]_pickerVars => PickerInv'
  BY PickerStep
<1>3. PickerInv => ListIsNewest
  BY DEF PickerInv
<1> QED
  BY <1>1, <1>2, <1>3, PTL DEF PickerSpec

\* What the keyboard has to do with the surface behind the picker.
SurfaceTypes ==
  surface \in [target : Targets \cup {NoTarget}, newest : Nat, session : Nat, focused : BOOLEAN,
               connect : [Connects -> [state : {"none", "pending", "opening", "done"},
                                       target : Targets \cup {NoTarget}]],
               shut : BOOLEAN]

\* A session, and a connect on its way to one, has the target that closing
\* the picker gives the keyboard back to.
HasTarget ==
  /\ surface.session # Zero => surface.target # NoTarget
  /\ \A k \in Connects : surface.connect[k].state = "pending" => surface.connect[k].target # NoTarget
  /\ \A k \in Connects : surface.connect[k].state = "opening" => surface.target # NoTarget

FocusInv == SurfaceTypes /\ HasTarget /\ FocusReturns

LEMMA FocusStep ==
  ASSUME PickerAssumption, PickerInv, FocusInv, [PickerNext]_pickerVars
  PROVE  FocusInv'
<1> USE DEF FocusInv, SurfaceTypes, HasTarget, FocusReturns
<1>1. SearchTypes /\ Connects \subseteq Nat /\ Zero \in Nat
  BY DEF PickerInv, Connects, Zero
<1>2. ASSUME NEW d \in Searches, OpenPicker(d) PROVE FocusInv'
  <2>1. /\ surface' = [surface EXCEPT !.focused = FALSE]
        /\ picker'.open
    BY <1>1, <1>2 DEF OpenPicker, PickerOpen, SearchTypes
  <2> QED
    BY <2>1
<1>3. ASSUME NEW d \in Searches, NEW choices, NEW selected, picker' = Published(d, choices, selected)
      PROVE  picker'.open = picker.open
  BY <1>1, <1>3 DEF Published, SearchTypes
<1>4. ASSUME NEW d \in Searches, Discovered(d) \/ DiscoveryFails(d) PROVE FocusInv'
  <2>1. picker'.open = picker.open
    BY <1>3, <1>4 DEF Discovered, DiscoveryFails
  <2> QED
    BY <1>4, <2>1 DEF Discovered, DiscoveryFails, Settles
<1>5. ASSUME NEW t \in Targets, Move(t) PROVE FocusInv'
  BY <1>1, <1>5 DEF Move, SearchTypes
<1>6. ASSUME NEW k \in Connects, Choose(k) PROVE FocusInv'
  <2>1. /\ surface' = [surface EXCEPT !.newest = k, !.session = Zero,
                         !.connect[k] = [state |-> "pending", target |-> picker.selected]]
        /\ picker.selected # NoTarget /\ picker.selected \in Targets \cup {NoTarget}
    BY <1>1, <1>6 DEF Choose, SearchTypes
  <2> QED
    BY <1>1, <2>1
<1>7. CASE ClosePicker
  <2>1. surface' = Refocused(surface)
    BY <1>7 DEF ClosePicker
  <2>2. CASE surface.target # NoTarget
    BY <2>1, <2>2 DEF Refocused
  <2>3. CASE surface.target = NoTarget
    BY <2>1, <2>3 DEF Refocused
  <2> QED
    BY <2>2, <2>3
<1>8. CASE Shutdown
  BY <1>1, <1>8 DEF Shutdown
<1>9. ASSUME NEW k \in Connects, TakesTarget(k) PROVE FocusInv'
  <2>1. /\ surface.connect[k].target \in Targets \cup {NoTarget} /\ surface.connect[k].target # NoTarget
        /\ surface' = [surface EXCEPT !.connect[k].state = "opening",
                                      !.target = surface.connect[k].target]
        /\ UNCHANGED picker
    BY <1>9 DEF TakesTarget
  <2> QED
    BY <2>1
<1>10. ASSUME NEW k \in Connects, ConnectResolves(k) PROVE FocusInv'
  <2> DEFINE n == IF surface.newest = k THEN k ELSE surface.session
  <2>1. /\ surface' = [surface EXCEPT !.connect[k].state = "done", !.focused = TRUE, !.session = n]
        /\ surface.newest = k => surface.connect[k].state = "opening"
    BY <1>10 DEF ConnectResolves
  <2>2. n \in Nat /\ (n # Zero => surface.target # NoTarget)
    BY <1>1, <2>1
  <2> HIDE DEF n
  <2> QED
    BY <2>1, <2>2
<1>11. ASSUME NEW k \in Connects, ConnectRejects(k) PROVE FocusInv'
  BY <1>11 DEF ConnectRejects
<1>12. CASE UNCHANGED <<picker, surface>>
  BY <1>12
<1> QED
  BY <1>2, <1>4, <1>5, <1>6, <1>7, <1>8, <1>9, <1>10, <1>11, <1>12 DEF PickerNext, FleetChanges, pickerVars

\* FocusReturns: for any number of openings and connects, the newest connect
\* has the keyboard as soon as it has its session and the picker is closed,
\* whoever closed the picker and whatever the older connects end with.
THEOREM FocusTheorem == ASSUME PickerAssumption PROVE PickerSpec => []FocusReturns
<1>1. PickerInit => FocusInv
  BY DEF PickerInit, FocusInv, SurfaceTypes, HasTarget, FocusReturns, Zero
<1>2. PickerInit => PickerInv
  BY DEF PickerInit, PickerInv, SearchTypes, ListIsNewest, Zero
<1>3. PickerInv /\ FocusInv /\ [PickerNext]_pickerVars => (PickerInv /\ FocusInv)'
  BY PickerStep, FocusStep
<1>4. FocusInv => FocusReturns
  BY DEF FocusInv
<1> QED
  BY <1>1, <1>2, <1>3, <1>4, PTL DEF PickerSpec

-----------------------------------------------------------------------------
(***************************************************************************)
(* The surface of the Live View (LiveViewSurface), for any number of       *)
(* overlapping calls, frames, resizes and errors: the session it shows is  *)
(* the newest call's, on a tunnel nobody closes, and once every call has   *)
(* settled no native session and no ssh child is left that it does not own.*)
(***************************************************************************)

Numbers == Ops \cup {None}
Sizes == 0 .. 2
Phases == {"empty", "opening", "failed", "live"}
Pcs == {"idle", "converting", "accessing", "opening", "waiting", "reaping",
        "failing", "discarding", "converter", "closing", "done"}
Pictures == [session : Numbers, frame : Nat, size : Sizes]
Surfaces ==
  [destroyed : BOOLEAN, gen : Nat, epoch : Nat, controller : Numbers, session : Numbers,
   tunnel : Numbers, polling : BOOLEAN, phase : Phases, source : Pictures, latest : Nat,
   lastSize : Sizes, converter : {"open", "closed"}]
Calls ==
  [kind : {"none", "connect", "disconnect", "dispose", "destroy"}, gen : Nat, pc : Pcs,
   aborted : BOOLEAN, taken : Numbers, pending : SUBSET Ops]
Tunnels == [child : {"none", "running", "exited"}, signal : {0, 9, 15}, closing : BOOLEAN]
Sessions == [handle : {"none", "open", "closed"}, newest : Nat]
Conversions ==
  [session : Numbers, gen : Nat, epoch : Nat, frame : Nat, size : Sizes, accepted : BOOLEAN]

TypeInv ==
  /\ surf \in Surfaces
  /\ op \in [Ops -> Calls]
  /\ tun \in [Ops -> Tunnels]
  /\ ses \in [Ops -> Sessions]
  /\ conv \in Conversions \cup {NoConversion}
  /\ env \in [size : Sizes, resizes : Nat, errors : Nat]

\* The calls are numbered by their generation, without a gap.
Numbered ==
  \A i \in Ops :
    /\ Called(i) <=> i <= surf.gen
    /\ Called(i) => op[i].gen = i
    /\ ~Called(i) => op[i].taken = None

\* What a call may still do is a matter of its kind.
Kinded ==
  \A i \in Ops :
    /\ op[i].pc \in {"opening", "waiting", "reaping", "failing", "discarding"} =>
         op[i].kind = "connect"
    /\ op[i].pc \in {"converter", "closing"} => op[i].kind \in {"dispose", "destroy"}
    /\ op[i].kind = "destroy" => surf.destroyed
    /\ op[i].kind # "none" <=> Called(i)

\* The surface owns the session of its newest call and the tunnel with it; a destroyed one
\* none, unless that call came when a dispose had begun.
Owned ==
  /\ surf.tunnel = surf.session
  /\ surf.polling => surf.session # None
  /\ surf.session # None =>
       /\ op[surf.session].gen = surf.gen
       /\ op[surf.session].pc = "done"
       /\ ses[surf.session].handle = "open"
       /\ ~tun[surf.session].closing
  /\ \A i \in Ops : ses[i].handle = "open" => i = surf.session
  /\ surf.session # None /\ surf.destroyed =>
       \E d \in Ops : op[d].kind = "dispose" /\ d < surf.session

\* A call has a child only from its spawn on, and nobody closes its tunnel before it does.
Early ==
  \A i \in Ops :
    /\ op[i].pc \in {"idle", "converting", "accessing", "opening", "waiting"} =>
         ~tun[i].closing
    /\ op[i].pc \in {"idle", "converting", "accessing", "opening", "converter", "closing"} =>
         tun[i].child = "none"

\* A tunnel that a call took over was settled before, and is gone once the call goes on.
Taken ==
  \A j \in Ops :
    op[j].taken # None =>
      /\ op[j].pc # "done"
      /\ op[op[j].taken].pc = "done"
      /\ op[j].taken # surf.tunnel
      /\ op[j].pc \notin {"converting", "accessing"} => tun[op[j].taken].child # "running"

\* Every running child has somebody who closes it, or is the surface's own.
Tended ==
  \A i \in Ops :
    tun[i].child = "running" =>
      Pending(i) \/ i = surf.tunnel \/ \E j \in Ops : op[j].taken = i

SurfaceInv == TypeInv /\ Numbered /\ Kinded /\ Owned /\ Early /\ Taken /\ Tended

-----------------------------------------------------------------------------
(* Types.                                                                  *)

LEMMA Numbering == None \in Nat /\ None \notin Ops /\ \A i \in Ops : i \in Nat /\ i >= 1
BY SurfaceBounds DEF None, Ops

LEMMA Resting == NoPicture \in Pictures
BY Numbering DEF NoPicture, Pictures, Numbers, Sizes

LEMMA DroppedKeeps ==
  ASSUME NEW s \in Surfaces, NEW i \in Ops
  PROVE  /\ Dropped(s, i) \in Surfaces
         /\ Dropped(s, i).destroyed <=> s.destroyed
         /\ Dropped(s, i).polling <=> s.polling
         /\ Dropped(s, i).gen = s.gen
         /\ Dropped(s, i).session = s.session
         /\ Dropped(s, i).tunnel = s.tunnel
<1>1. None \in Numbers
  BY DEF Numbers
<1> QED
  BY <1>1 DEF Dropped, Surfaces

LEMMA PhaseKeeps ==
  ASSUME NEW s \in Surfaces, NEW ph \in Phases
  PROVE  LET t == [s EXCEPT !.phase = ph] IN
         /\ t \in Surfaces
         /\ t.destroyed <=> s.destroyed
         /\ t.polling <=> s.polling
         /\ t.gen = s.gen /\ t.session = s.session /\ t.tunnel = s.tunnel
BY DEF Surfaces

LEMMA ClosingKeeps ==
  ASSUME NEW t \in Tunnels
  PROVE  Closing(t) \in Tunnels /\ Closing(t).child = t.child /\ Closing(t).closing
BY DEF Closing, Tunnels

LEMMA GotoMoves ==
  ASSUME TypeInv, NEW i \in Ops, NEW pc \in Pcs, Goto(i, pc)
  PROVE  /\ op' \in [Ops -> Calls]
         /\ \A j \in Ops : j # i => op'[j] = op[j]
         /\ op'[i].pc = pc /\ op'[i].kind = op[i].kind /\ op'[i].gen = op[i].gen
         /\ op'[i].taken = IF pc = "done" THEN None ELSE op[i].taken
<1>1. op[i] \in Calls /\ None \in Numbers /\ {} \in SUBSET Ops
  BY DEF TypeInv, Numbers
<1>2. /\ [op[i] EXCEPT !.pc = pc] \in Calls
      /\ [op[i] EXCEPT !.pc = pc, !.aborted = FALSE, !.taken = None, !.pending = {}] \in Calls
  BY <1>1 DEF Calls
<1>3. op' = [op EXCEPT ![i] =
               IF pc = "done"
               THEN [op[i] EXCEPT !.pc = pc, !.aborted = FALSE, !.taken = None, !.pending = {}]
               ELSE [op[i] EXCEPT !.pc = pc]]
  BY DEF Goto
<1>4. op' \in [Ops -> Calls] /\ \A j \in Ops : j # i => op'[j] = op[j]
  BY <1>2, <1>3 DEF TypeInv
<1>5. /\ op'[i].pc = pc /\ op'[i].kind = op[i].kind /\ op'[i].gen = op[i].gen
      /\ op'[i].taken = IF pc = "done" THEN None ELSE op[i].taken
  BY <1>1, <1>3 DEF TypeInv, Calls
<1> QED
  BY <1>4, <1>5

-----------------------------------------------------------------------------
(* A call that goes on keeps the invariant.                                *)

LEMMA MovesOn ==
  ASSUME SurfaceInv, NEW i \in Ops, NEW pc \in Pcs \ {"idle", "converting", "accessing"},
         Goto(i, pc), op[i].pc \notin {"idle", "done"},
         tun' \in [Ops -> Tunnels], \A j \in Ops : j # i => tun'[j] = tun[j],
         surf' \in Surfaces, surf'.polling <=> surf.polling, surf'.gen = surf.gen,
         surf'.session = surf.session, surf'.tunnel = surf.tunnel,
         surf.destroyed => surf'.destroyed,
         surf'.destroyed => surf.destroyed \/ op[i].kind = "dispose",
         UNCHANGED <<ses, conv, env>>,
         pc \in {"opening", "waiting", "reaping", "failing", "discarding"} =>
           op[i].kind = "connect",
         pc \in {"converter", "closing"} => op[i].kind \in {"dispose", "destroy"},
         pc \in {"opening", "waiting"} => ~tun'[i].closing,
         pc \in {"opening", "converter", "closing"} => tun'[i].child = "none",
         op[i].pc \in {"converting", "accessing"} /\ op[i].taken # None =>
           tun[op[i].taken].child # "running",
         pc = "done" => tun'[i].child # "running"
  PROVE  SurfaceInv'
<1> USE DEF SurfaceInv
<1>0. /\ op' \in [Ops -> Calls]
      /\ \A j \in Ops : j # i => op'[j] = op[j]
      /\ op'[i].pc = pc /\ op'[i].kind = op[i].kind /\ op'[i].gen = op[i].gen
      /\ op'[i].taken = IF pc = "done" THEN None ELSE op[i].taken
  BY GotoMoves
<1>1. \A j \in Ops : op[j].taken \in Numbers /\ surf.session \in Numbers
  BY DEF TypeInv, Calls, Surfaces
<1>2. TypeInv'
  BY <1>0 DEF TypeInv
<1>3. Numbered'
  BY <1>0 DEF Numbered, Called
<1>4. Kinded'
  BY <1>0 DEF Kinded, Called
<1>5. Owned'
  <2>1. surf.session # None => surf.session \in Ops /\ surf.session # i
    BY <1>1 DEF Owned, Numbers
  <2>2. ASSUME surf'.session # None, surf'.destroyed
        PROVE  \E d \in Ops : op'[d].kind = "dispose" /\ d < surf'.session
    <3>1. \A j \in Ops : op'[j].kind = op[j].kind
      BY <1>0
    <3>2. CASE surf.destroyed
      BY <2>2, <3>1, <3>2 DEF Owned
    <3>3. CASE op[i].kind = "dispose"
      <4>1. i <= surf.gen /\ surf.session = surf.gen /\ surf.session # i
        BY <2>1, <2>2 DEF Owned, Numbered, Called
      <4>2. i < surf.session
        BY <1>1, <4>1, Numbering DEF TypeInv, Surfaces
      <4> QED
        BY <2>2, <3>1, <3>3, <4>2
    <3> QED
      BY <2>2, <3>2, <3>3
  <2> QED
    BY <1>0, <2>1, <2>2 DEF Owned
<1>6. Early'
  BY <1>0 DEF Early
<1>7. Taken'
  <2> SUFFICES ASSUME NEW j \in Ops, op'[j].taken # None
               PROVE  /\ op'[j].pc # "done"
                      /\ op'[op'[j].taken].pc = "done"
                      /\ op'[j].taken # surf'.tunnel
                      /\ op'[j].pc \notin {"converting", "accessing"} =>
                           tun'[op'[j].taken].child # "running"
    BY DEF Taken
  <2>1. op'[j].taken = op[j].taken /\ op[j].taken # None
    BY <1>0
  <2>2. op[j].taken \in Ops /\ op[j].taken # i
    BY <1>1, <2>1 DEF Taken, Numbers
  <2>3. op'[j].pc # "done"
    BY <1>0, <2>1 DEF Taken
  <2>4. op'[j].pc \notin {"converting", "accessing"} => tun[op[j].taken].child # "running"
    BY <1>0, <2>1 DEF Taken
  <2> QED
    BY <1>0, <2>1, <2>2, <2>3, <2>4 DEF Taken
<1>8. Tended'
  <2> SUFFICES ASSUME NEW t \in Ops, tun'[t].child = "running"
               PROVE  \/ op'[t].pc \notin {"idle", "done"}
                      \/ t = surf'.tunnel
                      \/ \E j \in Ops : op'[j].taken = t
    BY DEF Tended, Pending
  <2>1. CASE t = i
    BY <1>0, <2>1
  <2>2. CASE t # i /\ (Pending(t) \/ t = surf.tunnel)
    BY <1>0, <2>2 DEF Pending
  <2>3. CASE t # i /\ \E j \in Ops : op[j].taken = t
    <3>1. PICK j \in Ops : op[j].taken = t
      BY <2>3
    <3>2. j = i => pc # "done"
      <4>1. t # None /\ tun[t].child = "running"
        BY <2>3, Numbering
      <4> QED
        BY <3>1, <4>1 DEF Taken
    <3> QED
      BY <1>0, <3>1, <3>2
  <2> QED
    BY <2>1, <2>2, <2>3 DEF Tended
<1> QED
  BY <1>2, <1>3, <1>4, <1>5, <1>6, <1>7, <1>8

-----------------------------------------------------------------------------
(* The steps of a call.                                                    *)

LEMMA OpenTunnelKeeps ==
  ASSUME SurfaceInv, NEW i \in Ops, OpenTunnel(i)
  PROVE  SurfaceInv'
<1>1. op[i].pc = "accessing" /\ op[i].kind = "connect"
  BY DEF OpenTunnel, AccessGone
<1>2. op[i].taken # None => tun[op[i].taken].child # "running"
  BY DEF OpenTunnel, AccessGone, Closed, SurfaceInv, TypeInv, Calls, Numbers
<1>3. surf \in Surfaces /\ tun \in [Ops -> Tunnels] /\ "opening" \in Phases
  BY DEF SurfaceInv, TypeInv, Phases
<1>4. ~tun[i].closing /\ tun[i].child = "none"
  BY <1>1 DEF SurfaceInv, Early
<1>5. CASE Overtaken(i)
  BY <1>1, <1>2, <1>3, <1>4, <1>5, MovesOn DEF OpenTunnel, Pcs
<1>6. CASE ~Overtaken(i)
  <2>1. /\ surf' \in Surfaces /\ (surf'.destroyed <=> surf.destroyed)
        /\ (surf'.polling <=> surf.polling) /\ surf'.gen = surf.gen
        /\ surf'.session = surf.session /\ surf'.tunnel = surf.tunnel
    <3> DEFINE s == [surf EXCEPT !.phase = "opening"]
    <3>1. /\ s \in Surfaces /\ (s.destroyed <=> surf.destroyed) /\ (s.polling <=> surf.polling)
          /\ s.gen = surf.gen /\ s.session = surf.session /\ s.tunnel = surf.tunnel
      BY <1>3, PhaseKeeps
    <3>2. surf' = s
      BY <1>6 DEF OpenTunnel
    <3> QED
      BY <3>1, <3>2
  <2>2. Goto(i, "opening") /\ UNCHANGED <<tun, ses, conv, env>>
    BY <1>6 DEF OpenTunnel
  <2> QED
    BY <1>1, <1>2, <1>3, <1>4, <2>1, <2>2, MovesOn DEF Pcs
<1> QED
  BY <1>5, <1>6

\* What a failing connect does to the surface.
LEMMA FailKeeps ==
  ASSUME TypeInv, NEW i \in Ops, Fail(i)
  PROVE  /\ surf' \in Surfaces
         /\ surf'.destroyed <=> surf.destroyed
         /\ surf'.polling <=> surf.polling
         /\ surf'.gen = surf.gen /\ surf'.session = surf.session
         /\ surf'.tunnel = surf.tunnel
<1>1. surf \in Surfaces /\ "failed" \in Phases
  BY DEF TypeInv, Phases
<1>2. CASE Overtaken(i)
  BY <1>1, <1>2, DroppedKeeps DEF Fail
<1>3. CASE ~Overtaken(i)
  <2> DEFINE s == [surf EXCEPT !.phase = "failed"]
  <2>1. /\ s \in Surfaces /\ (s.destroyed <=> surf.destroyed) /\ (s.polling <=> surf.polling)
        /\ s.gen = surf.gen /\ s.session = surf.session /\ s.tunnel = surf.tunnel
    BY <1>1, PhaseKeeps
  <2>2. surf' = Dropped(s, i)
    BY <1>3 DEF Fail
  <2> HIDE DEF s
  <2> QED
    BY <2>1, <2>2, DroppedKeeps
<1> QED
  BY <1>2, <1>3

LEMMA SpawnKeeps ==
  ASSUME SurfaceInv, NEW i \in Ops, Spawn(i)
  PROVE  SurfaceInv'
<1>1. /\ op[i].pc = "opening" /\ op[i].kind = "connect" /\ ~tun[i].closing
      /\ tun \in [Ops -> Tunnels] /\ surf \in Surfaces
  BY DEF Spawn, SurfaceInv, Early, Kinded, TypeInv
<1>2. /\ tun' \in [Ops -> Tunnels] /\ \A j \in Ops : j # i => tun'[j] = tun[j]
      /\ ~tun'[i].closing
  BY <1>1 DEF Spawn, Tunnels
<1> QED
  BY <1>1, <1>2, MovesOn DEF Spawn, Pcs

LEMMA SpawnFailsKeeps ==
  ASSUME SurfaceInv, NEW i \in Ops, SpawnFails(i)
  PROVE  SurfaceInv'
<1>1. op[i].pc = "opening" /\ tun[i].child = "none" /\ tun \in [Ops -> Tunnels]
  BY DEF SpawnFails, SurfaceInv, Early, TypeInv
<1>2. Goto(i, "done") /\ Fail(i) /\ UNCHANGED <<tun, ses, conv, env>>
  BY DEF SpawnFails, Fail
<1> QED
  BY <1>1, <1>2, FailKeeps, MovesOn DEF SurfaceInv, Pcs

LEMMA ReapedKeeps ==
  ASSUME SurfaceInv, NEW i \in Ops, Reaped(i)
  PROVE  SurfaceInv'
<1>1. op[i].pc \in {"reaping", "failing"} /\ tun[i].child # "running" /\ tun \in [Ops -> Tunnels]
  BY DEF Reaped, Closed, SurfaceInv, TypeInv
<1>2. Goto(i, "done") /\ Fail(i) /\ UNCHANGED <<tun, ses, conv, env>>
  BY DEF Reaped, Fail
<1> QED
  BY <1>1, <1>2, FailKeeps, MovesOn DEF SurfaceInv, Pcs

\* WaitFails, OpenedLate and SessionFails close the tunnel the call opened.
LEMMA GivesUp ==
  ASSUME SurfaceInv, NEW i \in Ops, NEW pc \in {"reaping", "discarding", "failing"},
         op[i].pc \in {"opening", "waiting"}, Goto(i, pc),
         tun' = [tun EXCEPT ![i] = Closing(@)], UNCHANGED <<surf, ses, conv, env>>
  PROVE  SurfaceInv'
<1>1. op[i].kind = "connect" /\ tun \in [Ops -> Tunnels] /\ surf \in Surfaces
  BY DEF SurfaceInv, Kinded, TypeInv
<1>2. tun' \in [Ops -> Tunnels] /\ \A j \in Ops : j # i => tun'[j] = tun[j]
  BY <1>1, ClosingKeeps
<1> QED
  BY <1>1, <1>2, MovesOn DEF Pcs

LEMMA DiscardedKeeps ==
  ASSUME SurfaceInv, NEW i \in Ops, Discarded(i)
  PROVE  SurfaceInv'
<1>1. /\ op[i].pc = "discarding" /\ tun[i].child # "running" /\ tun \in [Ops -> Tunnels]
      /\ surf \in Surfaces
  BY DEF Discarded, Closed, SurfaceInv, TypeInv
<1> QED
  BY <1>1, DroppedKeeps, MovesOn DEF Discarded, Pcs

LEMMA OpenedKeeps ==
  ASSUME SurfaceInv, NEW i \in Ops, Opened(i)
  PROVE  SurfaceInv'
<1> USE DEF SurfaceInv
<1> DEFINE s == [surf EXCEPT !.session = i, !.tunnel = i, !.polling = TRUE, !.phase = "live"]
<1>1. /\ surf \in Surfaces /\ op \in [Ops -> Calls] /\ tun \in [Ops -> Tunnels]
      /\ ses \in [Ops -> Sessions]
  BY DEF TypeInv
<1>2. /\ op[i].pc \in {"opening", "waiting"} /\ op[i].kind = "connect"
      /\ ~surf.destroyed /\ op[i].gen = surf.gen /\ ~tun[i].closing
      /\ surf.gen = i
  BY DEF Opened, Reachable, Overtaken, Kinded, Early, Numbered, Called
<1>3. surf.session = None /\ surf.tunnel = None /\ \A j \in Ops : ses[j].handle # "open"
  <2>1. surf.session # None => FALSE
    <3> SUFFICES ASSUME surf.session # None PROVE FALSE
      OBVIOUS
    <3>1. surf.session \in Ops
      BY <1>1 DEF Surfaces, Numbers
    <3>2. op[surf.session].gen = surf.session
      BY <3>1 DEF Owned, Numbered, Called
    <3> QED
      BY <1>2, <3>2 DEF Owned
  <2> QED
    BY <2>1, Numbering DEF Owned
<1>4. /\ s \in Surfaces /\ s.session = i /\ s.tunnel = i /\ s.polling
      /\ (s.destroyed <=> surf.destroyed) /\ s.gen = surf.gen
  BY <1>1 DEF Surfaces, Numbers, Phases
<1>5. /\ surf' \in Surfaces /\ surf'.session = i /\ surf'.tunnel = i /\ surf'.polling
      /\ ~surf'.destroyed /\ surf'.gen = surf.gen
  <2>1. surf' = Dropped(s, i)
    BY DEF Opened
  <2> HIDE DEF s
  <2> QED
    BY <1>2, <1>4, <2>1, DroppedKeeps
<1>6. /\ ses' \in [Ops -> Sessions] /\ ses'[i].handle = "open"
      /\ \A j \in Ops : j # i => ses'[j] = ses[j]
  BY <1>1 DEF Opened, Sessions
<1>7. UNCHANGED <<tun, conv, env>> /\ Goto(i, "done")
  BY DEF Opened
<1>8. /\ op' \in [Ops -> Calls]
      /\ \A j \in Ops : j # i => op'[j] = op[j]
      /\ op'[i].pc = "done" /\ op'[i].kind = op[i].kind /\ op'[i].gen = op[i].gen
      /\ op'[i].taken = None
  BY <1>7, GotoMoves DEF Pcs
<1>9. TypeInv'
  BY <1>5, <1>6, <1>7, <1>8 DEF TypeInv
<1>10. Numbered'
  BY <1>2, <1>5, <1>8 DEF Numbered, Called
<1>11. Kinded'
  BY <1>2, <1>5, <1>8 DEF Kinded, Called
<1>12. Owned'
  BY <1>2, <1>3, <1>5, <1>6, <1>7, <1>8, Numbering DEF Owned
<1>13. Early'
  BY <1>7, <1>8 DEF Early
<1>14. Taken'
  <2> SUFFICES ASSUME NEW j \in Ops, op'[j].taken # None
               PROVE  /\ op'[j].pc # "done"
                      /\ op'[op'[j].taken].pc = "done"
                      /\ op'[j].taken # surf'.tunnel
                      /\ op'[j].pc \notin {"converting", "accessing"} =>
                           tun'[op'[j].taken].child # "running"
    BY DEF Taken
  <2>1. j # i /\ op'[j] = op[j] /\ op[j].taken # None
    BY <1>8
  <2>2. op[j].taken \in Ops /\ op[j].taken # i
    BY <1>1, <1>2, <2>1 DEF Taken, Numbers, Calls
  <2>3. op'[op[j].taken] = op[op[j].taken]
    BY <1>8, <2>2
  <2> QED
    BY <1>5, <1>7, <2>1, <2>2, <2>3 DEF Taken
<1>15. Tended'
  <2> SUFFICES ASSUME NEW t \in Ops, t # i, tun[t].child = "running"
               PROVE  \/ op'[t].pc \notin {"idle", "done"}
                      \/ \E j \in Ops : op'[j].taken = t
    BY <1>5, <1>7 DEF Tended, Pending
  <2>1. Pending(t) \/ \E j \in Ops : op[j].taken = t
    BY <1>3, Numbering DEF Tended
  <2>2. CASE Pending(t)
    BY <1>8, <2>2 DEF Pending
  <2>3. CASE \E j \in Ops : op[j].taken = t
    <3>1. PICK j \in Ops : op[j].taken = t
      BY <2>3
    <3>2. j # i
      BY <1>2, <3>1, Numbering DEF Taken
    <3> QED
      BY <1>8, <3>1, <3>2
  <2> QED
    BY <2>1, <2>2, <2>3
<1> QED
  BY <1>9, <1>10, <1>11, <1>12, <1>13, <1>14, <1>15

LEMMA SettleKeeps ==
  ASSUME SurfaceInv, NEW i \in Ops, Settle(i)
  PROVE  SurfaceInv'
<1> DEFINE pc == IF op[i].kind = "disconnect" THEN "done" ELSE "converter"
<1>1. op[i].pc = "accessing" /\ op[i].kind # "connect"
  BY DEF Settle, AccessGone
<1>2. op[i].kind \in {"disconnect", "dispose", "destroy"}
  BY <1>1 DEF SurfaceInv, TypeInv, Kinded, Calls, Called
<1>3. op[i].taken # None => tun[op[i].taken].child # "running"
  BY DEF Settle, AccessGone, Closed, SurfaceInv, TypeInv, Calls, Numbers
<1>4. surf \in Surfaces /\ tun \in [Ops -> Tunnels] /\ "empty" \in Phases
  BY DEF SurfaceInv, TypeInv, Phases
<1>5. ~tun[i].closing /\ tun[i].child = "none"
  BY <1>1 DEF SurfaceInv, Early
<1>6. /\ surf' \in Surfaces /\ (surf'.destroyed <=> surf.destroyed)
      /\ (surf'.polling <=> surf.polling) /\ surf'.gen = surf.gen
      /\ surf'.session = surf.session /\ surf'.tunnel = surf.tunnel
  <2>1. CASE Overtaken(i)
    BY <1>4, <2>1 DEF Settle
  <2>2. CASE ~Overtaken(i)
    BY <1>4, <2>2, PhaseKeeps DEF Settle
  <2> QED
    BY <2>1, <2>2
<1>7. Goto(i, pc) /\ UNCHANGED <<tun, ses, conv, env>>
  BY DEF Settle
<1>8. pc \in {"done", "converter"} /\ (pc = "converter" => op[i].kind \in {"dispose", "destroy"})
  BY <1>2
<1> HIDE DEF pc
<1> QED
  BY <1>1, <1>3, <1>4, <1>5, <1>6, <1>7, <1>8, MovesOn DEF Pcs

LEMMA CloseConverterKeeps ==
  ASSUME SurfaceInv, NEW i \in Ops, CloseConverter(i) \/ ConverterClosed(i)
  PROVE  SurfaceInv'
<1>1. /\ op[i].pc \in {"converter", "closing"} /\ tun[i].child = "none"
      /\ tun \in [Ops -> Tunnels] /\ UNCHANGED <<tun, ses, conv, env>>
  BY DEF CloseConverter, ConverterClosed, SurfaceInv, Early, TypeInv
<1>2. /\ op[i].kind \in {"dispose", "destroy"}
      /\ surf.destroyed \/ op[i].kind = "dispose"
  BY <1>1 DEF SurfaceInv, Kinded
<1>3. /\ surf' \in Surfaces /\ (surf'.polling <=> surf.polling) /\ surf'.gen = surf.gen
      /\ surf'.session = surf.session /\ surf'.tunnel = surf.tunnel
      /\ surf.destroyed => surf'.destroyed
  <2>1. surf \in Surfaces
    BY DEF SurfaceInv, TypeInv
  <2>2. CASE CloseConverter(i)
    BY <2>1, <2>2 DEF CloseConverter, Surfaces
  <2>3. CASE ConverterClosed(i)
    BY <2>1, <2>3, Resting DEF ConverterClosed, Surfaces
  <2> QED
    BY <2>2, <2>3
<1>4. Goto(i, "closing") \/ Goto(i, "done")
  BY DEF CloseConverter, ConverterClosed
<1> QED
  BY <1>1, <1>2, <1>3, <1>4, MovesOn DEF Pcs

LEMMA StepKeeps ==
  ASSUME SurfaceInv, NEW i \in Ops, Step(i)
  PROVE  SurfaceInv'
<1>1. CASE WaitFails(i)
  BY <1>1, GivesUp DEF WaitFails
<1>2. CASE OpenedLate(i)
  BY <1>2, GivesUp DEF OpenedLate, Reachable
<1>3. CASE SessionFails(i)
  BY <1>3, GivesUp DEF SessionFails, Reachable
<1> QED
  BY <1>1, <1>2, <1>3, OpenTunnelKeeps, SpawnKeeps, SpawnFailsKeeps, ReapedKeeps,
     DiscardedKeeps, OpenedKeeps, SettleKeeps, CloseConverterKeeps DEF Step

-----------------------------------------------------------------------------
(* A call begins.                                                          *)

LEMMA NoPresentationKeeps ==
  ASSUME NEW s \in Surfaces
  PROVE  /\ NoPresentation(s) \in Surfaces
         /\ NoPresentation(s).destroyed <=> s.destroyed
         /\ NoPresentation(s).polling <=> s.polling
         /\ NoPresentation(s).gen = s.gen
         /\ NoPresentation(s).session = s.session
         /\ NoPresentation(s).tunnel = s.tunnel
<1>1. 0 \in Sizes /\ 0 \in Nat
  BY DEF Sizes
<1> QED
  BY <1>1, Resting DEF NoPresentation, Surfaces

LEMMA TornDownKeeps ==
  ASSUME NEW s \in Surfaces
  PROVE  /\ TornDown(s) \in Surfaces
         /\ TornDown(s).destroyed <=> s.destroyed
         /\ ~TornDown(s).polling
         /\ TornDown(s).gen = s.gen
         /\ TornDown(s).session = None
         /\ TornDown(s).tunnel = None
<1> DEFINE t == [s EXCEPT !.session = None, !.tunnel = None, !.polling = FALSE, !.epoch = @ + 1]
<1>1. None \in Numbers /\ s.epoch + 1 \in Nat
  BY DEF Numbers, Surfaces
<1>2. /\ t \in Surfaces /\ (t.destroyed <=> s.destroyed) /\ ~t.polling /\ t.gen = s.gen
      /\ t.session = None /\ t.tunnel = None
  BY <1>1 DEF Surfaces
<1>3. TornDown(s) = IF conv = NoConversion THEN NoPresentation(t) ELSE t
  BY DEF TornDown
<1> HIDE DEF t
<1> QED
  BY <1>2, <1>3, NoPresentationKeeps

LEMMA BeginMakes ==
  ASSUME TypeInv, NEW i \in Ops, NEW k \in {"connect", "disconnect", "dispose", "destroy"},
         NEW destroyed \in BOOLEAN, Begin(i, k, destroyed)
  PROVE  /\ surf' \in Surfaces
         /\ surf'.destroyed <=> surf.destroyed \/ destroyed
         /\ ~surf'.polling
         /\ surf'.gen = surf.gen + 1
         /\ surf'.session = None
         /\ surf'.tunnel = None
<1> DEFINE t == TornDown(surf)
<1>1. /\ t \in Surfaces /\ (t.destroyed <=> surf.destroyed) /\ ~t.polling /\ t.gen = surf.gen
      /\ t.session = None /\ t.tunnel = None
  BY TornDownKeeps DEF TypeInv
<1>2. surf' = [t EXCEPT !.gen = @ + 1,
                        !.controller = IF k = "connect" THEN i ELSE None,
                        !.destroyed = @ \/ destroyed,
                        !.source = IF destroyed THEN NoPicture ELSE @]
  BY DEF Begin
<1> HIDE DEF t
<1>3. t.gen + 1 \in Nat /\ i \in Numbers /\ None \in Numbers /\ t.destroyed \in BOOLEAN
  BY <1>1 DEF Surfaces, Numbers
<1> QED
  BY <1>1, <1>2, <1>3, Resting DEF Surfaces

LEMMA CallMakes ==
  ASSUME TypeInv, NEW i \in Ops, NEW k \in {"connect", "disconnect", "dispose", "destroy"},
         NEW destroyed \in BOOLEAN, Begin(i, k, destroyed)
  PROVE  /\ op' \in [Ops -> Calls]
         /\ op'[i].kind = k /\ op'[i].gen = surf.gen + 1 /\ op'[i].taken = surf.tunnel
         /\ op'[i].pc = IF conv = NoConversion THEN "accessing" ELSE "converting"
         /\ \A j \in Ops : j # i =>
              /\ op'[j].kind = op[j].kind /\ op'[j].gen = op[j].gen
              /\ op'[j].taken = op[j].taken /\ op'[j].pc = op[j].pc
<1> DEFINE pending == IF k = "connect" THEN {} ELSE
                      {c \in Ops : op[c].kind = "connect" /\ Pending(c)}
           new == [kind |-> k, gen |-> surf.gen + 1, aborted |-> FALSE,
                   pc |-> IF conv = NoConversion THEN "accessing" ELSE "converting",
                   taken |-> surf.tunnel, pending |-> pending]
<1>1. op \in [Ops -> Calls] /\ surf \in Surfaces
  BY DEF TypeInv
<1>2. new \in Calls
  BY <1>1 DEF Calls, Surfaces, Pcs
<1>3. op' = [j \in Ops |-> CASE j = i -> new
                             [] j # i /\ j = surf.controller -> [op[j] EXCEPT !.aborted = TRUE]
                             [] OTHER -> op[j]]
  BY DEF Begin
<1>4. op'[i] = new
  BY <1>3
<1>5. ASSUME NEW j \in Ops, j # i
      PROVE  op'[j] = op[j] \/ op'[j] = [op[j] EXCEPT !.aborted = TRUE]
  BY <1>3, <1>5
<1>6. ASSUME NEW j \in Ops, j # i
      PROVE  /\ op'[j] \in Calls
             /\ op'[j].kind = op[j].kind /\ op'[j].gen = op[j].gen
             /\ op'[j].taken = op[j].taken /\ op'[j].pc = op[j].pc
  <2>1. op[j] \in Calls
    BY <1>1
  <2> QED
    BY <1>5, <1>6, <2>1 DEF Calls
<1>7. op'[i].kind = k /\ op'[i].gen = surf.gen + 1 /\ op'[i].taken = surf.tunnel
      /\ op'[i].pc = IF conv = NoConversion THEN "accessing" ELSE "converting"
  BY <1>4
<1>8. op' \in [Ops -> Calls]
  <2>1. \A j \in Ops : op'[j] \in Calls
    BY <1>2, <1>4, <1>6
  <2> HIDE DEF new
  <2> QED
    BY <1>3, <2>1
<1> QED
  BY <1>6, <1>7, <1>8

LEMMA BeginKeeps ==
  ASSUME SurfaceInv, NEW i \in Ops, NEW k \in {"connect", "disconnect", "dispose", "destroy"},
         NEW destroyed \in BOOLEAN, Begin(i, k, destroyed),
         k = "destroy" <=> destroyed
  PROVE  SurfaceInv'
<1> USE DEF SurfaceInv
<1>1. /\ surf \in Surfaces /\ op \in [Ops -> Calls] /\ tun \in [Ops -> Tunnels]
      /\ ses \in [Ops -> Sessions] /\ surf.gen \in Nat
      /\ surf.tunnel = surf.session /\ surf.session \in Numbers
  BY DEF TypeInv, Surfaces, Owned
<1>2. /\ surf' \in Surfaces /\ (surf'.destroyed <=> surf.destroyed \/ destroyed)
      /\ ~surf'.polling /\ surf'.gen = surf.gen + 1
      /\ surf'.session = None /\ surf'.tunnel = None
  BY BeginMakes
<1>3. /\ op' \in [Ops -> Calls]
      /\ op'[i].kind = k /\ op'[i].gen = surf.gen + 1 /\ op'[i].taken = surf.tunnel
      /\ op'[i].pc = IF conv = NoConversion THEN "accessing" ELSE "converting"
      /\ \A j \in Ops : j # i =>
           /\ op'[j].kind = op[j].kind /\ op'[j].gen = op[j].gen
           /\ op'[j].taken = op[j].taken /\ op'[j].pc = op[j].pc
  BY CallMakes
<1>4. i = surf.gen + 1 /\ op[i].pc = "idle"
  <2>1. ~Called(i) /\ \A j \in Ops : j < i => Called(j)
    BY DEF Begin
  <2>2. ~(i <= surf.gen) /\ \A j \in Ops : j < i => j <= surf.gen
    BY <2>1 DEF Numbered
  <2>3. i > 1 => i - 1 \in Ops
    BY SurfaceBounds DEF Ops
  <2> QED
    BY <1>1, <2>1, <2>2, <2>3, Numbering DEF Called
<1>5. /\ ses' \in [Ops -> Sessions] /\ \A j \in Ops : ses'[j].handle # "open"
  <2>1. ses' = IF surf.session = None THEN ses
               ELSE [ses EXCEPT ![surf.session] = [handle |-> "closed", newest |-> 0]]
    BY DEF Begin, CloseSession
  <2>2. CASE surf.session = None
    BY <1>1, <2>1, <2>2, Numbering DEF Owned
  <2>3. CASE surf.session # None
    <3>1. surf.session \in Ops
      BY <1>1, <2>3 DEF Numbers
    <3>2. [handle |-> "closed", newest |-> 0] \in Sessions
      BY DEF Sessions
    <3> QED
      BY <1>1, <2>1, <2>3, <3>1, <3>2 DEF Owned
  <2> QED
    BY <2>2, <2>3
<1>6. /\ tun' \in [Ops -> Tunnels]
      /\ \A j \in Ops : j # surf.tunnel => tun'[j] = tun[j]
      /\ \A j \in Ops : tun'[j].child = tun[j].child
  <2>1. tun' = tun \/ (surf.tunnel # None /\ tun' = [tun EXCEPT ![surf.tunnel] = Closing(@)])
    BY DEF Begin, CloseOf
  <2>2. CASE tun' = tun
    BY <1>1, <2>2
  <2>3. CASE surf.tunnel # None /\ tun' = [tun EXCEPT ![surf.tunnel] = Closing(@)]
    <3>1. surf.tunnel \in Ops /\ tun[surf.tunnel] \in Tunnels
      BY <1>1, <2>3 DEF Numbers
    <3> QED
      BY <1>1, <2>3, <3>1, ClosingKeeps
  <2> QED
    BY <2>1, <2>2, <2>3
<1>7. surf.tunnel # None => surf.tunnel \in Ops /\ op[surf.tunnel].pc = "done" /\ surf.tunnel # i
  BY <1>1, <1>4 DEF Owned, Numbers
<1>8. UNCHANGED <<conv, env>>
  BY DEF Begin
<1>9. TypeInv'
  BY <1>2, <1>3, <1>5, <1>6, <1>8 DEF TypeInv
<1>10. Numbered'
  <2>1. ASSUME NEW j \in Ops
        PROVE  /\ op'[j].pc # "idle" <=> j <= surf'.gen
               /\ op'[j].pc # "idle" => op'[j].gen = j
               /\ op'[j].pc = "idle" => op'[j].taken = None
    <3>1. CASE j = i
      BY <1>1, <1>2, <1>3, <1>4, <3>1, Numbering
    <3>2. CASE j # i
      <4>1. j <= surf.gen + 1 <=> j <= surf.gen
        BY <1>1, <1>4, <3>2, Numbering
      <4> QED
        BY <1>2, <1>3, <3>2, <4>1 DEF Numbered, Called
    <3> QED
      BY <3>1, <3>2
  <2> QED
    BY <2>1 DEF Numbered, Called
<1>11. Kinded'
  <2>1. ASSUME NEW j \in Ops
        PROVE  /\ op'[j].pc \in {"opening", "waiting", "reaping", "failing", "discarding"} =>
                    op'[j].kind = "connect"
               /\ op'[j].pc \in {"converter", "closing"} => op'[j].kind \in {"dispose", "destroy"}
               /\ op'[j].kind = "destroy" => surf'.destroyed
               /\ op'[j].kind # "none" <=> op'[j].pc # "idle"
    <3>1. CASE j = i
      BY <1>2, <1>3, <3>1
    <3>2. CASE j # i
      BY <1>2, <1>3, <3>2 DEF Kinded, Called
    <3> QED
      BY <3>1, <3>2
  <2> QED
    BY <2>1 DEF Kinded, Called
<1>12. Owned'
  BY <1>2, <1>5 DEF Owned
<1>13. Early'
  <2>1. op[i].pc = "idle" /\ ~tun[i].closing /\ tun[i].child = "none"
    BY <1>4 DEF Early
  <2>2. \A j \in Ops : op[j].pc \in {"idle", "converting", "accessing", "opening", "waiting"} =>
          tun'[j] = tun[j]
    BY <1>6, <1>7, Numbering
  <2>3. ~tun'[i].closing /\ tun'[i].child = "none"
    BY <1>4, <2>1, <2>2
  <2> QED
    BY <1>3, <1>6, <2>2, <2>3 DEF Early
<1>14. Taken'
  <2> SUFFICES ASSUME NEW j \in Ops, op'[j].taken # None
               PROVE  /\ op'[j].pc # "done"
                      /\ op'[op'[j].taken].pc = "done"
                      /\ op'[j].taken # surf'.tunnel
                      /\ op'[j].pc \notin {"converting", "accessing"} =>
                           tun'[op'[j].taken].child # "running"
    BY DEF Taken
  <2>1. CASE j = i
    BY <1>2, <1>3, <1>7, <2>1
  <2>2. CASE j # i
    <3>1. op[j].taken # None /\ op'[j].taken = op[j].taken /\ op'[j].pc = op[j].pc
      BY <1>3, <2>2
    <3>2. op[j].taken \in Ops /\ op[op[j].taken].pc = "done"
      BY <1>1, <3>1 DEF Taken, Calls, Numbers
    <3>3. op[j].taken # i
      BY <1>4, <3>2
    <3> QED
      BY <1>2, <1>3, <1>6, <3>1, <3>2, <3>3 DEF Taken
  <2> QED
    BY <2>1, <2>2
<1>15. Tended'
  <2> SUFFICES ASSUME NEW t \in Ops, tun[t].child = "running"
               PROVE  \/ op'[t].pc \notin {"idle", "done"}
                      \/ \E j \in Ops : op'[j].taken = t
    BY <1>6 DEF Tended, Pending
  <2>1. CASE Pending(t)
    BY <1>3, <1>4, <2>1 DEF Pending
  <2>2. CASE t = surf.tunnel
    BY <1>3, <2>2
  <2>3. CASE \E j \in Ops : op[j].taken = t
    <3>1. PICK j \in Ops : op[j].taken = t
      BY <2>3
    <3>2. j # i
      BY <1>4, <3>1, Numbering DEF Numbered, Called
    <3> QED
      BY <1>3, <3>1, <3>2
  <2> QED
    BY <2>1, <2>2, <2>3 DEF Tended
<1> QED
  BY <1>9, <1>10, <1>11, <1>12, <1>13, <1>14, <1>15

-----------------------------------------------------------------------------
(* What the tunnels' children, the conversion and the poll do.             *)

LEMMA ChildrenKeep ==
  ASSUME SurfaceInv, NEW i \in Ops, CloseEscalate(i) \/ ChildExits(i)
  PROVE  SurfaceInv'
<1> USE DEF SurfaceInv
<1>1. /\ tun' \in [Ops -> Tunnels] /\ UNCHANGED <<surf, op, ses, conv, env>>
      /\ tun[i].child = "running"
      /\ \A j \in Ops : j # i => tun'[j] = tun[j]
      /\ tun'[i].closing <=> tun[i].closing
      /\ tun'[i].child \in {"running", "exited"}
  <2>1. tun \in [Ops -> Tunnels] /\ tun[i] \in Tunnels
    BY DEF TypeInv
  <2>2. CASE CloseEscalate(i)
    BY <2>1, <2>2 DEF CloseEscalate, Tunnels
  <2>3. CASE ChildExits(i)
    BY <2>1, <2>3 DEF ChildExits, Tunnels
  <2> QED
    BY <2>2, <2>3
<1>2. \A j \in Ops : (tun'[j].closing <=> tun[j].closing)
                     /\ (tun'[j].child = "running" => tun[j].child = "running")
                     /\ (tun[j].child = "none" => tun'[j].child = "none")
  BY <1>1
<1>3. TypeInv' /\ Numbered' /\ Kinded' /\ Early'
  BY <1>1, <1>2 DEF TypeInv, Numbered, Kinded, Early, Called
<1>4. Owned'
  <2>1. surf.session # None => surf.session \in Ops
    BY DEF TypeInv, Surfaces, Numbers
  <2> QED
    BY <1>1, <1>2, <2>1 DEF Owned
<1>5. Taken'
  <2>1. \A j \in Ops : op[j].taken # None => op[j].taken \in Ops
    BY DEF TypeInv, Calls, Numbers
  <2> QED
    BY <1>1, <1>2, <2>1 DEF Taken
<1>6. Tended'
  BY <1>1, <1>2 DEF Tended, Pending
<1> QED
  BY <1>3, <1>4, <1>5, <1>6

\* The poll and the layout touch nothing that the calls read.
LEMMA IdleKeeps ==
  ASSUME SurfaceInv, surf' \in Surfaces, conv' \in Conversions \cup {NoConversion},
         env' \in [size : Sizes, resizes : Nat, errors : Nat],
         surf'.destroyed <=> surf.destroyed, surf'.polling => surf.polling,
         surf'.gen = surf.gen, surf'.session = surf.session, surf'.tunnel = surf.tunnel,
         ses' \in [Ops -> Sessions], \A j \in Ops : ses'[j].handle = ses[j].handle,
         UNCHANGED <<op, tun>>
  PROVE  SurfaceInv'
<1> USE DEF SurfaceInv
<1>1. surf.session # None => surf.session \in Ops
  BY DEF TypeInv, Surfaces, Numbers
<1>2. TypeInv' /\ Numbered' /\ Kinded' /\ Early' /\ Taken' /\ Tended'
  BY DEF TypeInv, Numbered, Kinded, Early, Taken, Tended, Called, Pending
<1>3. Owned'
  BY <1>1 DEF Owned
<1> QED
  BY <1>2, <1>3

LEMMA BrokenKeeps ==
  ASSUME NEW s \in Surfaces
  PROVE  /\ Broken(s) \in Surfaces
         /\ Broken(s).destroyed <=> s.destroyed
         /\ ~Broken(s).polling
         /\ Broken(s).gen = s.gen
         /\ Broken(s).session = s.session
         /\ Broken(s).tunnel = s.tunnel
BY DEF Broken, Surfaces, Phases

LEMMA PollKeeps ==
  ASSUME SurfaceInv, Poll
  PROVE  SurfaceInv'
<1> DEFINE s == surf.session
           open == surf.converter = "open"
           new == [session |-> s, gen |-> surf.gen, epoch |-> surf.epoch,
                   frame |-> ses[s].newest, size |-> env.size, accepted |-> open]
           t == [surf EXCEPT !.phase = "live"]
<1>1. /\ surf \in Surfaces /\ ses \in [Ops -> Sessions] /\ conv \in Conversions \cup {NoConversion}
      /\ env \in [size : Sizes, resizes : Nat, errors : Nat] /\ "live" \in Phases
  BY DEF SurfaceInv, TypeInv, Phases
<1>2. s \in Ops
  BY <1>1 DEF Poll, Polls, Surfaces, Numbers
<1>3. conv' = conv \/ conv' = new
  BY Zenon DEF Poll
<1>4. new \in Conversions
  <2>1. open \in BOOLEAN
    OBVIOUS
  <2> HIDE DEF open
  <2> QED
    BY <1>1, <1>2, <2>1 DEF Conversions, Surfaces, Sessions, Numbers
<1>5. /\ t \in Surfaces /\ (t.destroyed <=> surf.destroyed) /\ (t.polling <=> surf.polling)
      /\ t.gen = surf.gen /\ t.session = surf.session /\ t.tunnel = surf.tunnel
  BY <1>1, PhaseKeeps
<1>6. surf' = t /\ UNCHANGED <<op, tun, ses, env>>
  BY DEF Poll
<1> HIDE DEF new, t
<1> QED
  BY <1>1, <1>3, <1>4, <1>5, <1>6, IdleKeeps

LEMMA PollThrowsKeeps ==
  ASSUME SurfaceInv, PollThrows
  PROVE  SurfaceInv'
<1>1. /\ surf \in Surfaces /\ ses \in [Ops -> Sessions] /\ conv \in Conversions \cup {NoConversion}
      /\ env \in [size : Sizes, resizes : Nat, errors : Nat]
  BY DEF SurfaceInv, TypeInv
<1>2. env' \in [size : Sizes, resizes : Nat, errors : Nat]
  BY <1>1 DEF PollThrows
<1>3. surf' = Broken(surf) /\ UNCHANGED <<op, tun, ses, conv>>
  BY DEF PollThrows
<1> QED
  BY <1>1, <1>2, <1>3, BrokenKeeps, IdleKeeps

LEMMA FrameArrivesKeeps ==
  ASSUME SurfaceInv, NEW s \in Ops, FrameArrives(s)
  PROVE  SurfaceInv'
<1>1. /\ surf \in Surfaces /\ ses \in [Ops -> Sessions] /\ conv \in Conversions \cup {NoConversion}
      /\ env \in [size : Sizes, resizes : Nat, errors : Nat]
  BY DEF SurfaceInv, TypeInv
<1>2. ses[s].newest + 1 \in Nat
  BY <1>1 DEF Sessions
<1>3. /\ ses' \in [Ops -> Sessions]
      /\ \A j \in Ops : ses'[j].handle = ses[j].handle
  BY <1>1, <1>2 DEF FrameArrives, Sessions
<1> QED
  BY <1>1, <1>3, IdleKeeps DEF FrameArrives

LEMMA ResizeKeeps ==
  ASSUME SurfaceInv, NEW z \in 0 .. 2, Resize(z)
  PROVE  SurfaceInv'
<1>1. /\ surf \in Surfaces /\ ses \in [Ops -> Sessions] /\ conv \in Conversions \cup {NoConversion}
      /\ env \in [size : Sizes, resizes : Nat, errors : Nat]
  BY DEF SurfaceInv, TypeInv
<1>2. env' \in [size : Sizes, resizes : Nat, errors : Nat]
  <2>1. z \in Sizes /\ env.resizes + 1 \in Nat
    BY <1>1 DEF Sizes
  <2>2. env' = [env EXCEPT !.size = z, !.resizes = @ + 1]
    BY DEF Resize
  <2> QED
    BY <1>1, <2>1, <2>2
<1> QED
  BY <1>1, <1>2, IdleKeeps DEF Resize

\* The end of a conversion: the calls that waited for it close the tunnels they took.
LEMMA SettledKeeps ==
  ASSUME SurfaceInv, NEW s \in Surfaces, ConversionSettled(s),
         env' \in [size : Sizes, resizes : Nat, errors : Nat],
         s.destroyed <=> surf.destroyed, s.polling => surf.polling,
         s.gen = surf.gen, s.session = surf.session, s.tunnel = surf.tunnel
  PROVE  SurfaceInv'
<1> USE DEF SurfaceInv
<1>1. /\ surf \in Surfaces /\ op \in [Ops -> Calls] /\ tun \in [Ops -> Tunnels]
      /\ ses \in [Ops -> Sessions]
  BY DEF TypeInv
<1>2. /\ surf' \in Surfaces /\ (surf'.destroyed <=> surf.destroyed)
      /\ (surf'.polling => surf.polling) /\ surf'.gen = surf.gen
      /\ surf'.session = surf.session /\ surf'.tunnel = surf.tunnel
  <2>1. surf' = s \/ surf' = NoPresentation(s)
    BY DEF ConversionSettled
  <2> QED
    BY <2>1, NoPresentationKeeps
<1>3. ASSUME NEW j \in Ops
      PROVE  /\ op'[j] \in Calls
             /\ op'[j].kind = op[j].kind /\ op'[j].gen = op[j].gen
             /\ op'[j].taken = op[j].taken
             /\ op'[j].pc = IF op[j].pc = "converting" THEN "accessing" ELSE op[j].pc
  <2>1. op[j] \in Calls /\ op'[j] = IF op[j].pc = "converting"
                                    THEN [op[j] EXCEPT !.pc = "accessing"] ELSE op[j]
    BY <1>1 DEF ConversionSettled, Waiting
  <2> QED
    BY <2>1 DEF Calls, Pcs
<1>4. op' \in [Ops -> Calls]
  BY <1>3 DEF ConversionSettled
<1>5. ASSUME NEW t \in Ops
      PROVE  /\ tun'[t] \in Tunnels /\ tun'[t].child = tun[t].child
             /\ (\A i \in Ops : op[i].taken # t) => tun'[t] = tun[t]
  <2>1. tun'[t] = IF \E i \in Waiting : op[i].taken = t THEN Closing(tun[t]) ELSE tun[t]
    BY DEF ConversionSettled
  <2>2. tun[t] \in Tunnels /\ Waiting \subseteq Ops
    BY <1>1 DEF Waiting
  <2> QED
    BY <2>1, <2>2, ClosingKeeps
<1>6. tun' \in [Ops -> Tunnels]
  BY <1>5 DEF ConversionSettled
<1>7. conv' = NoConversion /\ ses' = ses
  BY DEF ConversionSettled
<1>9. TypeInv' /\ Numbered' /\ Kinded'
  BY <1>2, <1>3, <1>4, <1>6, <1>7 DEF TypeInv, Numbered, Kinded, Called
<1>10. Owned'
  <2>1. surf.session # None => /\ surf.session \in Ops
                               /\ \A i \in Ops : op[i].taken # surf.session
    BY <1>1, Numbering DEF Owned, Taken, Surfaces, Numbers
  <2> QED
    BY <1>2, <1>3, <1>5, <1>7, <2>1 DEF Owned
<1>11. Early'
  <2>1. ASSUME NEW j \in Ops, op[j].pc # "done"
        PROVE  tun'[j] = tun[j]
    BY <1>5, <2>1, Numbering DEF Taken
  <2> QED
    BY <1>3, <1>5, <2>1 DEF Early
<1>12. Taken'
  <2>1. ASSUME NEW j \in Ops, op[j].taken # None
        PROVE  op[j].taken \in Ops
    BY <1>1, <2>1 DEF Calls, Numbers
  <2> QED
    BY <1>2, <1>3, <1>5, <2>1 DEF Taken
<1>13. Tended'
  BY <1>2, <1>3, <1>5 DEF Tended, Pending
<1> QED
  BY <1>9, <1>10, <1>11, <1>12, <1>13

LEMMA ConversionEndsKeeps ==
  ASSUME SurfaceInv, ConversionEnds
  PROVE  SurfaceInv'
<1>1. /\ surf \in Surfaces /\ conv \in Conversions \cup {NoConversion}
      /\ env \in [size : Sizes, resizes : Nat, errors : Nat]
  BY DEF SurfaceInv, TypeInv
<1>2. CASE Converted
  <2>1. conv \in Conversions /\ env' = env
    BY <1>1, <1>2 DEF Converted
  <2>2. /\ Submitted(surf) \in Surfaces
        /\ Submitted(surf).destroyed <=> surf.destroyed
        /\ Submitted(surf).polling <=> surf.polling
        /\ Submitted(surf).gen = surf.gen
        /\ Submitted(surf).session = surf.session
        /\ Submitted(surf).tunnel = surf.tunnel
    BY <1>1, <2>1 DEF Submitted, Surfaces, Conversions, Pictures
  <2>3. ConversionSettled(surf) \/ ConversionSettled(Submitted(surf))
    BY <1>2 DEF Converted
  <2> QED
    BY <1>1, <2>1, <2>2, <2>3, SettledKeeps
<1>3. CASE ConversionFails
  <2>1. ConversionSettled(surf) \/ ConversionSettled(Broken(surf))
    BY <1>3 DEF ConversionFails
  <2>2. env' \in [size : Sizes, resizes : Nat, errors : Nat]
    BY <1>1, <1>3 DEF ConversionFails
  <2> QED
    BY <1>1, <2>1, <2>2, BrokenKeeps, SettledKeeps
<1>4. CASE ConversionRefused
  <2>1. ConversionSettled(surf)
    BY <1>4 DEF ConversionRefused
  <2>2. env' \in [size : Sizes, resizes : Nat, errors : Nat]
    BY <1>1, <1>4 DEF ConversionRefused
  <2> QED
    BY <1>1, <2>1, <2>2, SettledKeeps
<1> QED
  BY <1>2, <1>3, <1>4 DEF ConversionEnds

-----------------------------------------------------------------------------
(* The theorems.                                                           *)

LEMMA SurfaceStarts == SurfaceInit => SurfaceInv
<1> SUFFICES ASSUME SurfaceInit PROVE SurfaceInv
  OBVIOUS
<1>1. TypeInv
  <2>1. surf \in Surfaces
    BY Resting DEF SurfaceInit, Surfaces, Numbers, Phases, Sizes
  <2>2. op \in [Ops -> Calls]
    BY DEF SurfaceInit, Calls, Numbers, Pcs
  <2>3. tun \in [Ops -> Tunnels] /\ ses \in [Ops -> Sessions]
    BY DEF SurfaceInit, Tunnels, Sessions
  <2>4. conv \in Conversions \cup {NoConversion}
        /\ env \in [size : Sizes, resizes : Nat, errors : Nat]
    BY DEF SurfaceInit, Sizes
  <2> QED
    BY <2>1, <2>2, <2>3, <2>4 DEF TypeInv
<1>2. Numbered
  BY Numbering DEF SurfaceInit, Numbered, Called
<1>3. Kinded
  BY DEF SurfaceInit, Kinded, Called
<1>4. Owned
  BY DEF SurfaceInit, Owned
<1>5. Early /\ Taken /\ Tended
  BY DEF SurfaceInit, Early, Taken, Tended
<1> QED
  BY <1>1, <1>2, <1>3, <1>4, <1>5 DEF SurfaceInv

LEMMA SurfaceNextKeeps == SurfaceInv /\ [SurfaceNext]_vars => SurfaceInv'
<1> SUFFICES ASSUME SurfaceInv, [SurfaceNext]_vars PROVE SurfaceInv'
  OBVIOUS
<1>1. ASSUME NEW i \in Ops, Connect(i) PROVE SurfaceInv'
  BY <1>1, BeginKeeps DEF Connect
<1>2. ASSUME NEW i \in Ops, Disconnect(i) PROVE SurfaceInv'
  BY <1>2, BeginKeeps DEF Disconnect
<1>3. ASSUME NEW i \in Ops, Dispose(i) PROVE SurfaceInv'
  BY <1>3, BeginKeeps DEF Dispose
<1>4. ASSUME NEW i \in Ops, Destroy(i) PROVE SurfaceInv'
  BY <1>4, BeginKeeps DEF Destroy
<1>5. CASE UNCHANGED vars
  BY <1>5 DEF vars, SurfaceInv, TypeInv, Numbered, Kinded, Owned, Early, Taken, Tended,
     Called, Pending
<1> QED
  BY <1>1, <1>2, <1>3, <1>4, <1>5, StepKeeps, ChildrenKeep, FrameArrivesKeeps, PollKeeps,
     PollThrowsKeeps, ConversionEndsKeeps, ResizeKeeps DEF SurfaceNext

LEMMA SurfaceInvariance == SurfaceSpec => []SurfaceInv
BY SurfaceStarts, SurfaceNextKeeps, PTL DEF SurfaceSpec

(* Whatever calls of connect, disconnect, dispose and destroy overlap, and  *)
(* whenever a tunnel answers, the session on the surface is the newest      *)
(* call's, open, and on a tunnel that nobody closes (connectTarget's test   *)
(* after each await).                                                       *)
THEOREM NewestTheorem == SurfaceSpec => []SessionIsNewest
<1>1. SurfaceInv => SessionIsNewest
  BY DEF SurfaceInv, Owned, SessionIsNewest
<1> QED
  BY <1>1, SurfaceInvariance, PTL

(* Once the calls have settled, the surface's own session is the only one   *)
(* open and its own ssh child the only one running, and a destroyed surface *)
(* has neither, but for a connect that was called while a dispose was under *)
(* way (teardownCurrent, LiveViewTunnel.close, dispose).                    *)
THEOREM LeakTheorem == SurfaceSpec => []NothingLeaks
<1>1. SurfaceInv => NothingLeaks
  <2> SUFFICES ASSUME SurfaceInv, AllSettled PROVE NothingLeaks
    BY DEF NothingLeaks
  <2>1. ASSUME NEW i \in Ops, tun[i].child = "running"
        PROVE  i = surf.tunnel
    <3>1. ASSUME NEW j \in Ops, op[j].taken = i PROVE FALSE
      BY <3>1, Numbering DEF AllSettled, Pending, SurfaceInv, Numbered, Taken, Called
    <3> QED
      BY <2>1, <3>1 DEF AllSettled, SurfaceInv, Tended
  <2>2. surf.session = None => surf.tunnel = None /\ ~surf.polling
    BY DEF SurfaceInv, Owned
  <2> QED
    BY <2>1, <2>2 DEF NothingLeaks, SurfaceInv, Owned
<1> QED
  BY <1>1, SurfaceInvariance, PTL
=============================================================================
