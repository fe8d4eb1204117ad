--------------------------- MODULE MCKoupletBuild ---------------------------
(***************************************************************************)
(* Small instances of KoupletBuild for TLC: one or two objects that bear   *)
(* the name one after the other.                                           *)
(***************************************************************************)
EXTENDS KoupletBuild, TLC

CONSTANTS u1, u2

OneObject == {u1}
TwoObjects == {u1, u2}
Interchangeable == Permutations(Uid)
=============================================================================
