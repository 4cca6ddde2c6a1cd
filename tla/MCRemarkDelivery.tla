-------------------------- MODULE MCRemarkDelivery --------------------------
(***************************************************************************)
(* Small instances of RemarkDelivery: two remarks are the fewest with an   *)
(* order, two recipients the fewest of which one can be reached while the  *)
(* other is not, two conversations the fewest to switch between.  The two  *)
(* recipients run the same code, so that a safety run may exchange them.   *)
(***************************************************************************)
EXTENDS RemarkDelivery, TLC

CONSTANTS app, notify

Surfaces == {app, notify}
Conversations == {0, 1}
SurfaceSymmetry == Permutations(Surfaces)
NoneQuiet == {}
FirstQuiet == {1}
=============================================================================
