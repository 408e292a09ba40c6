--------------------------- MODULE MCKitchenStream ---------------------------
(* Small instances of KitchenStream for TLC. *)
EXTENDS KitchenStream, TLC

Symmetry ==
  Permutations(Req) \cup Permutations(Client) \cup Permutations(Order) \cup Permutations(Tenant)
=============================================================================
