--------------------------- MODULE MCKitchenOrders ---------------------------
(* Small instances of KitchenOrders for TLC. *)
EXTENDS KitchenOrders, TLC

Symmetry == Permutations(Req) \cup Permutations(Tenant)

(* The channel matters to pickup orders alone. *)
AllKinds == {<<"pickup", "remote">>, <<"pickup", "tablet">>,
             <<"delivery", "remote">>, <<"tablet", "tablet">>}
=============================================================================
