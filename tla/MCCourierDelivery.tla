-------------------------- MODULE MCCourierDelivery --------------------------
(* Small instances of CourierDelivery for TLC. *)
EXTENDS CourierDelivery, TLC

CONSTANT o1      \* the order that Uber delivers; others are delivered by hand

QuotedOnce == [o \in Order |-> IF o = o1 THEN 1 ELSE 0]
QuotedTwice == [o \in Order |-> IF o = o1 THEN 2 ELSE 0]

Symmetry == Permutations(Job) \cup Permutations(Hook) \cup Permutations(Order \ {o1})
=============================================================================
