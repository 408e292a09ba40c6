-------------------------- MODULE ConnectOnboarding --------------------------
(***************************************************************************)
(* A restaurant's Stripe Connect account: createConnectAccount opens it at *)
(* Stripe and stores it; Stripe changes its status while the owner goes    *)
(* through the onboarding, and sends an event each time; the webhook and   *)
(* GET connect-status fetch the status and store it; a checkout is refused *)
(* unless the stored status is ready.  Rows are by restaurant and accounts *)
(* belong to one restaurant, so one restaurant is modelled.                *)
(*                                                                         *)
(* Stripe's status of an account is the number of its changes: it is ready *)
(* (details submitted, charges enabled) while that is odd.                 *)
(***************************************************************************)
EXTENDS Naturals

CONSTANTS Creator,      \* calls of createConnectAccount, and their accounts
          Refresher,    \* calls of connectStatus and deliveries of events
          MaxChanges    \* bound on the changes of an account's status

VARIABLES
  row,        \* tenant_stripe_accounts: the account, and the stored status
  creators, refreshers,
  stripe,     \* Stripe: the status of each account that was created
  claimed,    \* processed_webhook_events
  acked,      \* the events answered with a 2xx
  raced       \* history: did two calls look for an account before one was stored?

vars == <<row, creators, refreshers, stripe, claimed, acked, raced>>

Ready(n) == n % 2 = 1
Event == [account: Creator, change: 1..MaxChanges]
Placeholder == [account |-> "none", change |-> 0]
Row == [account: Creator, change: 0..MaxChanges]

Poll == [account |-> "none", change |-> 0]
Resting == [pc |-> "idle"]
(* event is Poll for connectStatus; overtaken is history: was a status     *)
(* stored since this call fetched its own?                                 *)
Refresh == [pc: {"claim", "find", "fetch", "store"}, event: Event \cup {Poll},
            account: Creator \cup {"none"}, got: 0..MaxChanges, overtaken: BOOLEAN]

Init ==
  /\ row = Placeholder
  /\ creators = [c \in Creator |-> "idle"]
  /\ refreshers = [x \in Refresher |-> Resting]
  /\ stripe = [c \in Creator |-> 0]
  /\ claimed = {} /\ acked = {} /\ raced = FALSE

-----------------------------------------------------------------------------
(* createConnectAccount: a stored account gets another onboarding link ... *)
Look(c, found) ==
  /\ creators[c] = "idle"
  /\ creators' = [creators EXCEPT ![c] = IF found THEN "resumed" ELSE "missing"]
  /\ raced' = (raced \/ \E d \in Creator : creators[d] \in {"missing", "opened"})
  /\ UNCHANGED <<row, refreshers, stripe, claimed, acked>>

BeginCreateAlways(c) == Look(c, FALSE)   \* a plausible slip: it is not looked for
BeginCreate(c) == Look(c, row # Placeholder)

(* ... else an account is opened, with a link, ... *)
OpenAccount(c) ==
  /\ creators[c] = "missing"
  /\ creators' = [creators EXCEPT ![c] = "opened"]
  /\ UNCHANGED <<row, refreshers, stripe, claimed, acked, raced>>

(* ... and stored, whatever the row has become; only then is it answered.  *)
StoreAccount(c) ==
  /\ creators[c] = "opened"
  /\ creators' = [creators EXCEPT ![c] = "stored"]
  /\ row' = [account |-> c, change |-> 0]
  /\ UNCHANGED <<refreshers, stripe, claimed, acked, raced>>

(* Stripe does not answer, or the row cannot be written. *)
LoseAccount(c) ==
  /\ creators[c] = "opened"
  /\ creators' = [creators EXCEPT ![c] = "lost"]
  /\ UNCHANGED <<row, refreshers, stripe, claimed, acked, raced>>

(* Stripe, external: the status of an account whose link was answered.     *)
ChangeStatus(c) ==
  /\ creators[c] = "stored" /\ stripe[c] < MaxChanges
  /\ stripe' = [stripe EXCEPT ![c] = @ + 1]
  /\ UNCHANGED <<row, creators, refreshers, claimed, acked, raced>>

-----------------------------------------------------------------------------
Step(x, next) == refreshers' = [refreshers EXCEPT ![x] = next]

(* GET connect-status: read the row; the placeholder is answered as it is. *)
BeginPoll(x) ==
  /\ refreshers[x] = Resting /\ row # Placeholder
  /\ Step(x, [pc |-> "fetch", event |-> Poll, account |-> row.account, got |-> 0,
              overtaken |-> FALSE])
  /\ UNCHANGED <<row, creators, stripe, claimed, acked, raced>>

(* stripeConnectWebhook: an event that Stripe sends until it is answered.  *)
Receive(x, e) ==
  /\ refreshers[x] = Resting
  /\ e.change <= stripe[e.account] /\ e \notin acked
  /\ Step(x, [pc |-> "claim", event |-> e, account |-> "none", got |-> 0,
              overtaken |-> FALSE])
  /\ UNCHANGED <<row, creators, stripe, claimed, acked, raced>>

Claim(x) ==
  /\ refreshers[x].pc = "claim"
  /\ LET e == refreshers[x].event
     IN \/ /\ e \in claimed
           /\ acked' = acked \cup {e} /\ Step(x, Resting)
           /\ UNCHANGED claimed
        \/ /\ e \notin claimed
           /\ claimed' = claimed \cup {e} /\ Step(x, [refreshers[x] EXCEPT !.pc = "find"])
           /\ UNCHANGED acked
  /\ UNCHANGED <<row, creators, stripe, raced>>

Answered(x) == acked' = IF refreshers[x].event = Poll THEN acked
                        ELSE acked \cup {refreshers[x].event}

(* handleConnectWebhook: the row of the account, if there is one. *)
FindRow(x) ==
  /\ refreshers[x].pc = "find"
  /\ \/ /\ row.account = refreshers[x].event.account
        /\ Step(x, [refreshers[x] EXCEPT !.pc = "fetch", !.account = row.account])
        /\ UNCHANGED acked
     \/ /\ row.account # refreshers[x].event.account
        /\ Step(x, Resting) /\ Answered(x)
  /\ UNCHANGED <<row, creators, stripe, claimed, raced>>

(* refreshConnectStatusFromStripe: fetch; without an answer, leave the row. *)
Fetch(x) ==
  /\ refreshers[x].pc = "fetch"
  /\ Step(x, [refreshers[x] EXCEPT !.pc = "store", !.got = stripe[refreshers[x].account]])
  /\ UNCHANGED <<row, creators, stripe, claimed, acked, raced>>

(* Without an answer of Stripe, or for a deleted account, the row stays. *)
FetchFails(x) ==
  /\ refreshers[x].pc = "fetch"
  /\ Step(x, Resting) /\ Answered(x)
  /\ UNCHANGED <<row, creators, stripe, claimed, raced>>

StatusToStoreFromEvent(x) ==    \* a plausible slip: the status of the event
  IF refreshers[x].event = Poll THEN refreshers[x].got ELSE refreshers[x].event.change

StatusToStore(x) == refreshers[x].got

(* The row of the restaurant, whatever account it has by now.              *)
StoreStatus(x) ==
  /\ refreshers[x].pc = "store"
  /\ row' = [row EXCEPT !.change = StatusToStore(x)]
  /\ refreshers' = [y \in Refresher |->
       IF y = x THEN Resting
       ELSE IF refreshers[y] # Resting /\ refreshers[y].pc = "store"
            THEN [refreshers[y] EXCEPT !.overtaken = TRUE] ELSE refreshers[y]]
  /\ Answered(x)
  /\ UNCHANGED <<creators, stripe, claimed, raced>>

(* The database fails: no 2xx, and the event is delivered again. *)
Fail(x) ==
  /\ refreshers[x].pc \in {"claim", "find", "fetch", "store"}
  /\ Step(x, Resting)
  /\ UNCHANGED <<row, creators, stripe, claimed, acked, raced>>

(* createCheckoutSession's gate: what the row lets through. *)
CheckoutOpenAnyStatus == row # Placeholder    \* a plausible slip: only the account is looked at
CheckoutOpen == row # Placeholder /\ Ready(row.change)

Next ==
  \/ \E c \in Creator :
       BeginCreate(c) \/ OpenAccount(c) \/ StoreAccount(c) \/ LoseAccount(c) \/ ChangeStatus(c)
  \/ \E x \in Refresher :
       \/ BeginPoll(x) \/ Claim(x) \/ FindRow(x) \/ Fetch(x) \/ FetchFails(x)
       \/ StoreStatus(x) \/ Fail(x)
       \/ \E e \in Event : Receive(x, e)

Spec == Init /\ [][Next]_vars

-----------------------------------------------------------------------------
TypeOK ==
  /\ row \in Row \cup {Placeholder}
  /\ creators \in [Creator -> {"idle", "missing", "resumed", "opened", "stored", "lost"}]
  /\ refreshers \in [Refresher -> Refresh \cup {Resting}]
  /\ stripe \in [Creator -> 0..MaxChanges]
  /\ claimed \subseteq Event /\ acked \subseteq Event
  /\ raced \in BOOLEAN

(***************************************************************************)
(* OneAccount: the account that its owner has been through the onboarding  *)
(* with stays the restaurant's, however often and by whom the onboarding   *)
(* is started again; it is only replaced by a call that looked for an      *)
(* account while another was opening one (222-255).                        *)
(***************************************************************************)
OneAccount == \A c \in Creator : stripe[c] > 0 => row.account = c \/ raced

(***************************************************************************)
(* ReadyWhenCharged: a checkout is only opened for an account that Stripe  *)
(* has reported ready ("enforces connected account readiness", README.md   *)
(* 48); only the status of a replaced account may be taken for that of its *)
(* successor, when two calls have created accounts at the same time.       *)
(***************************************************************************)
ReadyWhenCharged == CheckoutOpen => stripe[row.account] > 0 \/ raced

(***************************************************************************)
(* StatusMovesOn: the stored status of an account goes back to an older    *)
(* one only when two refreshes overlapped between fetch and store          *)
(* (307-310) and the earlier answer was stored last, or with the accounts. *)
(***************************************************************************)
StatusMovesOn ==
  [][(row'.account = row.account /\ row'.change < row.change) =>
       \/ \E x \in Refresher : refreshers[x] # Resting /\ refreshers[x].overtaken
                               /\ refreshers'[x] = Resting
       \/ raced]_vars

(***************************************************************************)
(* AckedIsStored: the webhook "updates tenant Stripe account readiness"    *)
(* (swagger-docs.ts 304): when an event has been answered, the row shows   *)
(* that change of its account, or a later one.                             *)
(***************************************************************************)
AckedIsStored ==
  \A e \in acked : e.account = row.account => row.change >= e.change
=============================================================================
