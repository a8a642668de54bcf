--------------------------- MODULE MCInputDelivery ---------------------------
(* A Live View session and the keyboard in front of it, in four parts for    *)
(* one run: the life of the connection (SessionLifecycle), who has the       *)
(* keyboard (BrowserPicker), what the view's key reports make the native     *)
(* session hold (OpenTuiKeys), and what the session puts on the wire         *)
(* (InputDelivery).  They meet in connect(), focus() and setKey(), which are *)
(* operators of the one and actions of the other, and share no state: a      *)
(* behaviour takes one of them.                                              *)
EXTENDS InputDelivery, OpenTuiKeys, BrowserPicker, SessionLifecycle

CONSTANT shift

VARIABLE part

ShiftOnly == <<shift>>

ASSUME PartAssumptions == KeyNames /\ PickerAssumption

(* The parts that a behaviour does not take have one initial state.          *)
MCInit ==
  /\ part \in {"wire", "view", "picker", "life"}
  /\ Init /\ KeyInit /\ PickerInit /\ LifeInit
  /\ part # "view" => terminal = "raw"
  /\ part # "picker" => fleet = {}

MCNext ==
  \/ part = "wire" /\ Next /\ UNCHANGED <<part, keyVars, pickerVars, lifeVars>>
  \/ part = "view" /\ KeyNext /\ UNCHANGED <<part, vars, pickerVars, lifeVars>>
  \/ part = "picker" /\ PickerNext /\ UNCHANGED <<part, vars, keyVars, lifeVars>>
  \/ part = "life" /\ LifeNext /\ UNCHANGED <<part, vars, keyVars, pickerVars>>

MCSpec == MCInit /\ [][MCNext]_<<part, vars, keyVars, pickerVars, lifeVars>>
=============================================================================
