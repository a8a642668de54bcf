--------------------------- MODULE MCSessionClients ---------------------------
(* Provider sessions and a program that keeps one, for one run: the session     *)
(* operations of concurrent providers (ProviderSessions), and the screencast    *)
(* helper, which holds a session's exact lease until its recording is safe      *)
(* (ScreencastRun).  The helper has a state directory, and so a registry, of    *)
(* its own: a behaviour takes one of them.                                      *)
EXTENDS MCProviderSessions, ScreencastRun

VARIABLE part

(* An action on the driver alone, and one that moves the native pointer too.     *)
TwoActions == <<"press", "click">>

ASSUME ClientAssumption == FilmAssumption

MCInit == part \in {"sessions", "film"} /\ SessionInit /\ FilmInit

MCNext ==
  \/ part = "sessions" /\ SessionNext /\ UNCHANGED <<part, filmVars>>
  \/ part = "film" /\ FilmNext /\ UNCHANGED <<part, allVars>>

MCSpec == MCInit /\ [][MCNext]_<<part, allVars, filmVars>>
===============================================================================
