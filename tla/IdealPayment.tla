---------------------------- MODULE IdealPayment ----------------------------
(***************************************************************************)
(* What the payment flow promises, without requests, events, handlers and  *)
(* failures.  A checkout is opened for one order, charged at most once,    *)
(* and settled at most once after that, which puts its order into the      *)
(* kitchen; only a settled checkout sends a courier, and only one.         *)
(***************************************************************************)
CONSTANTS Order, Checkout

VARIABLES for,      \* the order of each checkout that was opened
          charged,  \* the checkouts whose customer has paid
          settled,  \* how often a checkout was settled
          kitchen,  \* what the kitchen knows of an order
          sent      \* how many couriers a checkout has ordered

vars == <<for, charged, settled, kitchen, sent>>

Init ==
  /\ for = [c \in {} |-> {}]
  /\ charged = {}
  /\ settled = [c \in Checkout |-> 0]
  /\ kitchen = [o \in Order |-> "none"]
  /\ sent = [c \in Checkout |-> 0]

Open(c, o) ==
  /\ c \notin DOMAIN for
  /\ for' = [d \in DOMAIN for \cup {c} |-> IF d = c THEN o ELSE for[d]]
  /\ UNCHANGED <<charged, settled, kitchen, sent>>

Charge(c) ==
  /\ c \in DOMAIN for /\ c \notin charged
  /\ charged' = charged \cup {c}
  /\ UNCHANGED <<for, settled, kitchen, sent>>

Settle(c) ==
  /\ c \in charged /\ settled[c] = 0
  /\ settled' = [settled EXCEPT ![c] = 1]
  /\ kitchen' = [kitchen EXCEPT ![for[c]] = "queued"]
  /\ UNCHANGED <<for, charged, sent>>

Send(c) ==
  /\ settled[c] = 1 /\ sent[c] = 0
  /\ sent' = [sent EXCEPT ![c] = 1]
  /\ UNCHANGED <<for, charged, settled, kitchen>>

Work(o) ==
  /\ kitchen[o] = "queued"
  /\ kitchen' = [kitchen EXCEPT ![o] = "worked"]
  /\ UNCHANGED <<for, charged, settled, sent>>

Next ==
  \/ \E c \in Checkout : Charge(c) \/ Settle(c) \/ Send(c) \/ \E o \in Order : Open(c, o)
  \/ \E o \in Order : Work(o)

Spec == Init /\ [][Next]_vars
=============================================================================
