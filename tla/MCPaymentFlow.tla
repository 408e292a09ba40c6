---------------------------- MODULE MCPaymentFlow ----------------------------
(* Small instances of PaymentFlow for TLC. *)
EXTENDS PaymentFlow, TLC

Symmetry == Permutations(Req) \cup Permutations(Copy)

Everywhere == {"claim", "apply", "answer", "priced", "session", "job"}
BeforeClaim == {"claim", "priced", "session"}
=============================================================================
