------------------------- MODULE MCFrameConversion -------------------------
(* Two worker viewers on two libraries and a synchronous one on the first.   *)
EXTENDS FrameConversion

CONSTANTS c1, c2, c3, l1, l2

LibraryPaths == [c \in Clients |-> IF c = c2 THEN l2 ELSE l1]
=============================================================================
