--------------------------- MODULE MCTabletSession ---------------------------
(* Small instances of TabletSession for TLC. *)
EXTENDS TabletSession, TLC

Symmetry == Permutations(Req)
=============================================================================
