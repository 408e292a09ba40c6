---------------------------- MODULE MCBackOffice ----------------------------
(***************************************************************************)
(* The parts of BackOffice in small instances.  They share no state, so    *)
(* TLC looks at one of them, the focus, at a time: each behaviour here is  *)
(* one of BackOffice in which only the focus moves.                        *)
(***************************************************************************)
EXTENDS BackOffice, TLC

(* A removed item, a price that rounds to nothing, one that rounds half up  *)
(* and one whose tax rounds.                                               *)
MCMills == {-1, 4, 65, 995}
MCQuotedFee == {-1, 0, 399}

(* The names of all processes and of all restaurants; each part treats     *)
(* them alike.                                                             *)
Symmetry == Permutations(Joiner)

VARIABLE focus

Part == {"groups", "conversation", "access", "connect", "rows", "uber", "tenants", "pricing"}

Init ==
  /\ focus \in Part
  /\ Groups!Init /\ Conversation!Init /\ Access!Init /\ Connect!Init
  /\ Rows!Init /\ Uber!Init /\ Tenants!Init /\ Pricing!Init
  /\ focus = "rows" \/ table = "menu"
  /\ focus = "pricing" \/ menu = [i \in Item |-> -1]

Next ==
  \/ /\ focus = "groups" /\ Groups!Next
     /\ UNCHANGED <<focus, conversation, access, connect, rows, uber, tenants, pricing>>
  \/ /\ focus = "conversation" /\ Conversation!Next
     /\ UNCHANGED <<focus, groups, access, connect, rows, uber, tenants, pricing>>
  \/ /\ focus = "access" /\ Access!Next
     /\ UNCHANGED <<focus, groups, conversation, connect, rows, uber, tenants, pricing>>
  \/ /\ focus = "connect" /\ Connect!Next
     /\ UNCHANGED <<focus, groups, conversation, access, rows, uber, tenants, pricing>>
  \/ /\ focus = "rows" /\ Rows!Next
     /\ UNCHANGED <<focus, groups, conversation, access, connect, uber, tenants, pricing>>
  \/ /\ focus = "uber" /\ Uber!Next
     /\ UNCHANGED <<focus, groups, conversation, access, connect, rows, tenants, pricing>>
  \/ /\ focus = "tenants" /\ Tenants!Next
     /\ UNCHANGED <<focus, groups, conversation, access, connect, rows, uber, pricing>>
  \/ /\ focus = "pricing" /\ Pricing!Next
     /\ UNCHANGED <<focus, groups, conversation, access, connect, rows, uber, tenants>>

=============================================================================
