------------------------ MODULE BackOfficeKeys_proofs ------------------------
(***************************************************************************)
(* What BackOffice promises about accounts, links, tokens and guards, for  *)
(* every value of its constants.  Each part has an inductive invariant: a  *)
(* conjunction of its types, of the property and of what the calls that    *)
(* are under way know about the state that they read or asked for.         *)
(***************************************************************************)
EXTENDS BackOffice, TLAPS

-----------------------------------------------------------------------------
(* The Stripe account of a restaurant (ConnectOnboarding). *)

(* A call that has looked for an account and found none is creating one. *)
Creating(c) == creators[c] \in {"missing", "opened"}
(* From the first account that was stored the row has one; *)
StoredHasRow == \A c \in Creator : creators[c] = "stored" => account.account # "none"
(* its account was stored; *)
RowIsStored ==
  account.account # "none" => account.account \in Creator /\ creators[account.account] = "stored"
(* so was an account whose status has changed. *)
ChangedIsStored == \A c \in Creator : stripe[c] > 0 => creators[c] = "stored"
(* Without a race one call creates an account, before any is stored; *)
OneCreation ==
  ~raced => \A c, d \in Creator : c # d /\ Creating(c) => ~Creating(d) /\ creators[d] # "stored"
(* and the stored one is the row's. *)
StoredIsRow == ~raced => \A c \in Creator : creators[c] = "stored" => account.account = c
(* What the creators know of the row. *)
Accounts == StoredHasRow /\ RowIsStored /\ ChangedIsStored /\ OneCreation /\ StoredIsRow

(* A refresh asks for an account that was stored; *)
AskedIsStored ==
  \A x \in Refresher : refreshers[x].pc \in {"fetch", "store"} =>
    refreshers[x].account \in Creator /\ creators[refreshers[x].account] = "stored"
(* the answer is no newer than the status at Stripe; *)
GotIsOld ==
  \A x \in Refresher : refreshers[x].pc = "store" =>
    refreshers[x].got <= stripe[refreshers[x].account]
(* nor is the row, if there was no race; *)
RowIsOld == ~raced /\ account.account # "none" => account.change <= stripe[account.account]
(* and then only an answer that was overtaken is older than the row. *)
OvertakenIsOld ==
  ~raced => \A x \in Refresher : refreshers[x].pc = "store" /\ ~refreshers[x].overtaken =>
              account.change <= refreshers[x].got
(* What is claimed, and whose row is looked for, is an event. *)
EventIsLookedFor ==
  \A x \in Refresher :
    refreshers[x].pc \in {"claim", "find"} => refreshers[x].event \in Connect!Event
(* What the refreshes know of the row and of Stripe. *)
Statuses == AskedIsStored /\ GotIsOld /\ RowIsOld /\ OvertakenIsOld /\ EventIsLookedFor

(* The inductive invariant of the onboarding. *)
Onboarding == Connect!TypeOK /\ Accounts /\ Statuses

(* It holds initially. *)
LEMMA OnboardingInit == Connect!Init => Onboarding
  <1>. SUFFICES ASSUME Connect!Init PROVE Onboarding
    OBVIOUS
  <1>. USE IdAssumption, BoundAssumption DEF Connect!Init
  <1>1. Connect!TypeOK
    <2>1. 0 \in 0..MaxChanges
      OBVIOUS
    <2>2. stripe \in [Creator -> 0..MaxChanges]
      BY <2>1
    <2>. QED BY <2>2 DEF Connect!TypeOK
  <1>2. account.account = "none" /\ \A x \in Refresher : refreshers[x].pc = "idle"
    BY DEF Connect!Placeholder, Connect!Resting
  <1>3. Accounts
    BY <1>2 DEF Accounts, StoredHasRow, RowIsStored, ChangedIsStored, OneCreation, StoredIsRow,
       Creating
  <1>4. Statuses
    BY <1>2 DEF Statuses, AskedIsStored, GotIsOld, RowIsOld, OvertakenIsOld, EventIsLookedFor
  <1>. QED BY <1>1, <1>3, <1>4 DEF Onboarding

(* What the types say of a row, a refresh and a status. *)
LEMMA Typing ==
  ASSUME Connect!TypeOK
  PROVE /\ account \in Connect!Row \/ account = Connect!Placeholder
        /\ account.change \in 0..MaxChanges
        /\ account \in Connect!Row <=> account.account # "none"
        /\ \A x \in Refresher : refreshers[x].pc # "idle" => refreshers[x] \in Connect!Refresh
        /\ \A c \in Creator : stripe[c] \in Nat
  <1>. USE IdAssumption, BoundAssumption
  <1>1. account \in Connect!Row \/ account = Connect!Placeholder
    BY DEF Connect!TypeOK
  <1>2. account.change \in 0..MaxChanges
    BY <1>1 DEF Connect!Row, Connect!Placeholder
  <1>3. account \in Connect!Row <=> account.account # "none"
    BY <1>1 DEF Connect!Row, Connect!Placeholder
  <1>4. ASSUME NEW x \in Refresher, refreshers[x].pc # "idle" PROVE refreshers[x] \in Connect!Refresh
    BY <1>4 DEF Connect!TypeOK, Connect!Resting
  <1>5. \A c \in Creator : stripe[c] \in Nat
    BY DEF Connect!TypeOK
  <1>. QED BY <1>1, <1>2, <1>3, <1>4, <1>5

(* The properties follow. *)
LEMMA OnboardingIsRight == Onboarding => OneAccount /\ ReadyWhenCharged
  <1>. SUFFICES ASSUME Onboarding PROVE OneAccount /\ ReadyWhenCharged
    OBVIOUS
  <1>. USE IdAssumption, BoundAssumption
  <1>1. OneAccount
    BY DEF Onboarding, Accounts, ChangedIsStored, StoredIsRow, OneAccount, Connect!OneAccount
  <1>2. ReadyWhenCharged
    <2>. SUFFICES ASSUME account # Connect!Placeholder, Connect!Ready(account.change), ~raced
                  PROVE stripe[account.account] > 0
      BY DEF ReadyWhenCharged, Connect!ReadyWhenCharged, Connect!CheckoutOpen
    <2>1. account \in Connect!Row /\ account.change \in Nat /\ account.account # "none"
      BY Typing DEF Onboarding
    <2>2. account.change # 0
      BY DEF Connect!Ready
    <2>3. account.change <= stripe[account.account] /\ stripe[account.account] \in Nat
      BY <2>1, Typing DEF Onboarding, Statuses, RowIsOld, Connect!Row
    <2>. QED BY <2>1, <2>2, <2>3
  <1>. QED BY <1>1, <1>2

(* A step of the creators or of Stripe keeps it. *)
LEMMA CreatorStep ==
  ASSUME Onboarding, NEW c \in Creator,
         \/ Connect!BeginCreate(c) \/ Connect!OpenAccount(c) \/ Connect!StoreAccount(c)
         \/ Connect!LoseAccount(c) \/ Connect!ChangeStatus(c)
  PROVE Onboarding'
  <1>. USE IdAssumption, BoundAssumption
  <1>t. Connect!TypeOK /\ Accounts /\ Statuses
    BY DEF Onboarding
  <1>1. ASSUME NEW p \in {"idle", "missing", "resumed", "opened", "stored", "lost"}, 
               creators' = [creators EXCEPT ![c] = p], creators[c] # "stored",
               UNCHANGED <<account, refreshers, stripe, claimed, acked>>, raced' \in BOOLEAN,
               raced => raced', p # "stored",
               ~raced' /\ p \in {"missing", "opened"} =>
                 \A d \in Creator : c # d => ~Creating(d) /\ creators[d] # "stored"
        PROVE Onboarding'
    <2>1. Connect!TypeOK'
      BY <1>t, <1>1 DEF Connect!TypeOK
    <2>2. \A d \in Creator : creators'[d] = IF d = c THEN p ELSE creators[d]
      BY <1>t, <1>1 DEF Connect!TypeOK
    <2>3. \A d \in Creator : creators'[d] = "stored" <=> creators[d] = "stored"
      BY <1>1, <2>2
    <2>4. Accounts'
      <3>1. StoredHasRow' /\ RowIsStored' /\ ChangedIsStored' /\ StoredIsRow'
        BY <1>t, <1>1, <2>3 DEF Accounts, StoredHasRow, RowIsStored, ChangedIsStored, StoredIsRow
      <3>2. OneCreation'
        BY <1>t, <1>1, <2>2, <2>3 DEF Accounts, OneCreation, Creating
      <3>. QED BY <3>1, <3>2 DEF Accounts
    <2>5. Statuses'
      BY <1>t, <1>1, <2>3 DEF Statuses, AskedIsStored, GotIsOld, RowIsOld, OvertakenIsOld,
         EventIsLookedFor
    <2>. QED BY <2>1, <2>4, <2>5 DEF Onboarding
  <1>2. CASE Connect!BeginCreate(c)
    <2>. DEFINE p == IF account # Connect!Placeholder THEN "resumed" ELSE "missing"
    <2>1. /\ creators[c] = "idle" /\ creators' = [creators EXCEPT ![c] = p]
          /\ raced' = (raced \/ \E d \in Creator : creators[d] \in {"missing", "opened"})
          /\ UNCHANGED <<account, refreshers, stripe, claimed, acked>>
      BY <1>2 DEF Connect!BeginCreate, Connect!Look
    <2>2. raced' \in BOOLEAN /\ (raced => raced')
      BY <1>t, <2>1 DEF Connect!TypeOK
    <2>3. ASSUME ~raced', p = "missing", NEW d \in Creator, c # d
          PROVE ~Creating(d) /\ creators[d] # "stored"
      <3>1. ~Creating(d) /\ ~raced
        BY <2>1, <2>3 DEF Creating
      <3>2. account.account = "none"
        BY <2>3 DEF Connect!Placeholder
      <3>. QED BY <1>t, <3>1, <3>2 DEF Accounts, StoredIsRow
    <2>4. p \in {"missing", "resumed"}
      OBVIOUS
    <2>. HIDE DEF p
    <2>. QED BY <1>1, <2>1, <2>2, <2>3, <2>4
  <1>3. CASE Connect!OpenAccount(c) \/ Connect!LoseAccount(c)
    <2>1. PICK p \in {"opened", "lost"} : creators' = [creators EXCEPT ![c] = p]
      BY <1>3 DEF Connect!OpenAccount, Connect!LoseAccount
    <2>2. /\ UNCHANGED <<account, refreshers, stripe, claimed, acked, raced>> /\ creators[c] # "stored"
          /\ Creating(c)
      BY <1>3 DEF Connect!OpenAccount, Connect!LoseAccount, Creating
    <2>3. ~raced => \A d \in Creator : c # d => ~Creating(d) /\ creators[d] # "stored"
      BY <1>t, <2>2 DEF Accounts, OneCreation
    <2>4. /\ raced' \in BOOLEAN /\ (raced => raced') /\ (~raced' => ~raced)
          /\ UNCHANGED <<account, refreshers, stripe, claimed, acked>>
      BY <1>t, <2>2 DEF Connect!TypeOK
    <2>5. p \in {"idle", "missing", "resumed", "opened", "stored", "lost"} /\ p # "stored"
      BY <2>1
    <2>. QED BY <1>1, <2>1, <2>2, <2>3, <2>4, <2>5
  <1>4. CASE Connect!StoreAccount(c)
    <2>1. /\ creators[c] = "opened" /\ creators' = [creators EXCEPT ![c] = "stored"]
          /\ account' = [account |-> c, change |-> 0]
          /\ UNCHANGED <<refreshers, stripe, claimed, acked, raced>>
      BY <1>4 DEF Connect!StoreAccount
    <2>2. account' \in Connect!Row /\ account'.account = c /\ account'.change = 0
      BY <2>1 DEF Connect!Row
    <2>3. \A d \in Creator : creators'[d] = IF d = c THEN "stored" ELSE creators[d]
      BY <1>t, <2>1 DEF Connect!TypeOK
    <2>4. Connect!TypeOK'
      BY <1>t, <2>1, <2>2 DEF Connect!TypeOK
    <2>5. StoredHasRow' /\ RowIsStored' /\ ChangedIsStored' /\ StoredIsRow' /\ OneCreation'
      <3>1. StoredHasRow' /\ RowIsStored' /\ ChangedIsStored'
        BY <1>t, <2>1, <2>2, <2>3 DEF Accounts, StoredHasRow, RowIsStored, ChangedIsStored
      <3>2. ~raced => \A d \in Creator : c # d => ~Creating(d) /\ creators[d] # "stored"
        BY <1>t, <2>1 DEF Accounts, OneCreation, Creating
      <3>. QED BY <2>1, <2>2, <2>3, <3>1, <3>2 DEF StoredIsRow, OneCreation, Creating
    <2>6. AskedIsStored' /\ GotIsOld' /\ EventIsLookedFor'
      BY <1>t, <2>1, <2>3 DEF Statuses, AskedIsStored, GotIsOld, EventIsLookedFor
    <2>7. RowIsOld'
      BY <1>t, <2>1, <2>2, Typing DEF RowIsOld
    <2>8. OvertakenIsOld'
      <3>1. \A x \in Refresher : refreshers[x].pc = "store" => refreshers[x].got \in Nat
        BY <1>t, Typing DEF Connect!Refresh
      <3>. QED BY <2>1, <2>2, <3>1 DEF OvertakenIsOld
    <2>. QED BY <2>4, <2>5, <2>6, <2>7, <2>8 DEF Onboarding, Accounts, Statuses
  <1>5. CASE Connect!ChangeStatus(c)
    <2>1. /\ creators[c] = "stored" /\ stripe[c] < MaxChanges /\ stripe' = [stripe EXCEPT ![c] = @ + 1]
          /\ UNCHANGED <<account, creators, refreshers, claimed, acked, raced>>
      BY <1>5 DEF Connect!ChangeStatus
    <2>2. /\ stripe' \in [Creator -> 0..MaxChanges]
          /\ \A d \in Creator : stripe'[d] = IF d = c THEN stripe[d] + 1 ELSE stripe[d]
      BY <1>t, <2>1 DEF Connect!TypeOK
    <2>3. \A d \in Creator : stripe[d] \in Nat /\ stripe'[d] >= stripe[d]
      BY <1>t, <2>2, Typing
    <2>4. Connect!TypeOK'
      BY <1>t, <2>1, <2>2 DEF Connect!TypeOK
    <2>5. Accounts'
      BY <1>t, <2>1, <2>2 DEF Accounts, StoredHasRow, RowIsStored, ChangedIsStored, StoredIsRow,
         OneCreation, Creating
    <2>6. AskedIsStored' /\ EventIsLookedFor' /\ OvertakenIsOld'
      BY <1>t, <2>1 DEF Statuses, AskedIsStored, EventIsLookedFor, OvertakenIsOld
    <2>7. GotIsOld'
      <3>. SUFFICES ASSUME NEW x \in Refresher, refreshers[x].pc = "store"
                    PROVE refreshers[x].got <= stripe'[refreshers[x].account]
        BY <2>1 DEF GotIsOld
      <3>1. refreshers[x].account \in Creator /\ refreshers[x].got <= stripe[refreshers[x].account]
        BY <1>t DEF Statuses, AskedIsStored, GotIsOld
      <3>2. refreshers[x].got \in Nat
        BY <1>t, Typing DEF Connect!Refresh
      <3>3. stripe'[refreshers[x].account] \in Nat
        BY <2>2, <3>1
      <3>. QED BY <2>3, <3>1, <3>2, <3>3
    <2>8. RowIsOld'
      <3>. SUFFICES ASSUME ~raced, account.account # "none"
                    PROVE account.change <= stripe'[account.account]
        BY <2>1 DEF RowIsOld
      <3>1. account.account \in Creator /\ account.change <= stripe[account.account]
        BY <1>t DEF Accounts, Statuses, RowIsStored, RowIsOld
      <3>2. account.change \in Nat
        BY <1>t, Typing
      <3>3. stripe'[account.account] \in Nat
        BY <2>2, <3>1
      <3>. QED BY <2>3, <3>1, <3>2, <3>3
    <2>. QED BY <2>4, <2>5, <2>6, <2>7, <2>8 DEF Onboarding, Statuses
  <1>. QED BY <1>2, <1>3, <1>4, <1>5


(* A step of one refresh keeps it if what the refresh goes on with is right. *)
LEMMA RefreshGoesOn ==
  ASSUME Onboarding, NEW x \in Refresher, NEW next \in Connect!Refresh \cup {Connect!Resting},
         refreshers' = [refreshers EXCEPT ![x] = next],
         UNCHANGED <<account, creators, stripe, raced>>,
         claimed' \subseteq Connect!Event, acked' \subseteq Connect!Event,
         next.pc \in {"claim", "find"} => next.event \in Connect!Event,
         next.pc \in {"fetch", "store"} =>
           next.account \in Creator /\ creators[next.account] = "stored",
         next.pc = "store" =>
           /\ next.got <= stripe[next.account]
           /\ ~raced /\ ~next.overtaken => account.change <= next.got
  PROVE Onboarding'
  <1>t. Connect!TypeOK /\ Accounts /\ Statuses
    BY DEF Onboarding
  <1>1. Connect!TypeOK'
    BY <1>t DEF Connect!TypeOK
  <1>2. \A y \in Refresher : refreshers'[y] = IF y = x THEN next ELSE refreshers[y]
    BY <1>t DEF Connect!TypeOK
  <1>3. Accounts'
    BY <1>t DEF Accounts, StoredHasRow, RowIsStored, ChangedIsStored, OneCreation, StoredIsRow,
       Creating
  <1>4. AskedIsStored' /\ EventIsLookedFor' /\ RowIsOld'
    BY <1>t, <1>2 DEF Statuses, AskedIsStored, EventIsLookedFor, RowIsOld
  <1>5. GotIsOld' /\ OvertakenIsOld'
    BY <1>t, <1>2 DEF Statuses, GotIsOld, OvertakenIsOld
  <1>. QED BY <1>1, <1>3, <1>4, <1>5 DEF Onboarding, Statuses

(* An answer is given to an event only. *)
LEMMA AnsweredEvents ==
  ASSUME Connect!TypeOK, NEW x \in Refresher, refreshers[x].pc # "idle", Connect!Answered(x)
  PROVE acked' \subseteq Connect!Event
  <1>1. refreshers[x].event \in Connect!Event \cup {Connect!Poll}
    BY Typing DEF Connect!Refresh
  <1>. QED BY <1>1 DEF Connect!Answered, Connect!TypeOK

(* The step that stores a status: without a race it goes back only when overtaken. *)
LEMMA StoreStatusStep ==
  ASSUME Onboarding, NEW x \in Refresher, Connect!StoreStatus(x)
  PROVE /\ Onboarding'
        /\ refreshers[x] # Connect!Resting /\ refreshers'[x] = Connect!Resting
        /\ raced \/ refreshers[x].overtaken \/ account'.change >= account.change
  <1>. USE IdAssumption, BoundAssumption
  <1>t. Connect!TypeOK /\ Accounts /\ Statuses
    BY DEF Onboarding
  <1>1. /\ refreshers[x].pc = "store" /\ account' = [account EXCEPT !.change = refreshers[x].got]
        /\ refreshers' = [y \in Refresher |->
             IF y = x THEN Connect!Resting
             ELSE IF refreshers[y] # Connect!Resting /\ refreshers[y].pc = "store"
                  THEN [refreshers[y] EXCEPT !.overtaken = TRUE] ELSE refreshers[y]]
        /\ Connect!Answered(x) /\ UNCHANGED <<creators, stripe, claimed, raced>>
    BY DEF Connect!StoreStatus, Connect!StatusToStore
  <1>2. refreshers[x] \in Connect!Refresh /\ refreshers[x].got \in 0..MaxChanges
    <2>1. refreshers[x] \in Connect!Refresh
      BY <1>t, <1>1, Typing
    <2>. QED BY <2>1 DEF Connect!Refresh
  <1>3. ASSUME NEW y \in Refresher, refreshers'[y].pc # "idle"
        PROVE /\ y # x /\ refreshers'[y] \in Connect!Refresh
              /\ refreshers'[y].pc = refreshers[y].pc
              /\ refreshers'[y].event = refreshers[y].event
              /\ refreshers'[y].account = refreshers[y].account
              /\ refreshers'[y].got = refreshers[y].got
              /\ refreshers[y].pc = "store" => refreshers'[y].overtaken
    <2>1. y # x
      BY <1>1, <1>3 DEF Connect!Resting
    <2>2. CASE refreshers[y].pc = "store"
      <3>1. refreshers[y] \in Connect!Refresh
        BY <1>t, <2>2, Typing
      <3>2. refreshers'[y] = [refreshers[y] EXCEPT !.overtaken = TRUE]
        BY <1>1, <2>1, <2>2 DEF Connect!Resting
      <3>. QED BY <2>1, <3>1, <3>2 DEF Connect!Refresh
    <2>3. CASE refreshers[y].pc # "store"
      <3>1. refreshers'[y] = refreshers[y]
        BY <1>1, <2>1, <2>3
      <3>. QED BY <1>t, <1>3, <2>1, <2>3, <3>1, Typing
    <2>. QED BY <2>2, <2>3
  <1>4. refreshers' \in [Refresher -> Connect!Refresh \cup {Connect!Resting}]
    <2>1. ASSUME NEW y \in Refresher, refreshers'[y].pc = "idle"
          PROVE refreshers'[y] = Connect!Resting
      <3>1. CASE y = x
        BY <1>1, <3>1
      <3>2. CASE y # x /\ refreshers[y].pc = "store"
        <4>1. refreshers[y] \in Connect!Refresh
          BY <1>t, <3>2, Typing
        <4>2. refreshers'[y] = [refreshers[y] EXCEPT !.overtaken = TRUE]
          BY <1>1, <3>2 DEF Connect!Resting
        <4>. QED BY <2>1, <3>2, <4>1, <4>2 DEF Connect!Refresh
      <3>3. CASE y # x /\ refreshers[y].pc # "store"
        <4>1. refreshers'[y] = refreshers[y]
          BY <1>1, <3>3
        <4>. QED BY <1>t, <2>1, <4>1 DEF Connect!TypeOK, Connect!Refresh
      <3>. QED BY <3>1, <3>2, <3>3
    <2>2. refreshers' = [y \in Refresher |-> refreshers'[y]]
      BY <1>1
    <2>3. \A y \in Refresher : refreshers'[y] \in Connect!Refresh \cup {Connect!Resting}
      BY <1>3, <2>1
    <2>. QED BY <2>2, <2>3
  <1>5. /\ refreshers[x].account \in Creator /\ creators[refreshers[x].account] = "stored"
        /\ refreshers[x].got <= stripe[refreshers[x].account]
    BY <1>t, <1>1 DEF Statuses, AskedIsStored, GotIsOld
  <1>6. account' \in Connect!Row /\ account'.account = account.account
        /\ account'.change = refreshers[x].got /\ account.account # "none"
    <2>1. account \in Connect!Row
      BY <1>t, <1>5, Typing DEF Accounts, StoredHasRow
    <2>2. account.account # "none"
      BY <1>t, <2>1, Typing
    <2>. QED BY <1>1, <1>2, <2>1, <2>2 DEF Connect!Row
  <1>7. Connect!TypeOK'
    <2>1. acked' \subseteq Connect!Event
      BY <1>t, <1>1, AnsweredEvents
    <2>. QED BY <1>t, <1>1, <1>4, <1>6, <2>1 DEF Connect!TypeOK
  <1>8. Accounts'
    BY <1>t, <1>1, <1>6 DEF Accounts, StoredHasRow, RowIsStored, ChangedIsStored, OneCreation,
       StoredIsRow, Creating
  <1>9. Statuses'
    <2>1. AskedIsStored' /\ EventIsLookedFor' /\ GotIsOld'
      <3>1. AskedIsStored'
        <4>. SUFFICES ASSUME NEW y \in Refresher, refreshers'[y].pc \in {"fetch", "store"}
                      PROVE /\ refreshers'[y].account \in Creator
                            /\ creators[refreshers'[y].account] = "stored"
          BY <1>1 DEF AskedIsStored
        <4>1. /\ refreshers[y].pc \in {"fetch", "store"}
              /\ refreshers'[y].account = refreshers[y].account
          BY <1>3
        <4>. QED BY <1>t, <4>1 DEF Statuses, AskedIsStored
      <3>2. EventIsLookedFor'
        BY <1>t, <1>3 DEF Statuses, EventIsLookedFor
      <3>3. GotIsOld'
        <4>. SUFFICES ASSUME NEW y \in Refresher, refreshers'[y].pc = "store"
                      PROVE refreshers'[y].got <= stripe[refreshers'[y].account]
          BY <1>1 DEF GotIsOld
        <4>1. /\ refreshers[y].pc = "store" /\ refreshers'[y].got = refreshers[y].got
              /\ refreshers'[y].account = refreshers[y].account
          BY <1>3
        <4>. QED BY <1>t, <4>1 DEF Statuses, GotIsOld
      <3>. QED BY <3>1, <3>2, <3>3
    <2>2. OvertakenIsOld'
      BY <1>3 DEF OvertakenIsOld
    <2>3. RowIsOld'
      BY <1>t, <1>1, <1>5, <1>6 DEF Accounts, StoredIsRow, RowIsOld
    <2>. QED BY <2>1, <2>2, <2>3 DEF Statuses
  <1>10. refreshers[x] # Connect!Resting /\ refreshers'[x] = Connect!Resting
    BY <1>1 DEF Connect!Resting
  <1>11. raced \/ refreshers[x].overtaken \/ account'.change >= account.change
    <2>1. CASE ~raced /\ ~refreshers[x].overtaken
      <3>1. account.change <= refreshers[x].got
        BY <1>t, <1>1, <2>1 DEF Statuses, OvertakenIsOld
      <3>2. account.change \in Nat /\ refreshers[x].got \in Nat
        BY <1>t, <1>2, Typing
      <3>. QED BY <1>6, <3>1, <3>2
    <2>. QED BY <2>1
  <1>. QED BY <1>7, <1>8, <1>9, <1>10, <1>11 DEF Onboarding

(* The other steps of a refresh. *)
LEMMA RefresherStep ==
  ASSUME Onboarding, NEW x \in Refresher,
         \/ Connect!BeginPoll(x) \/ Connect!Claim(x) \/ Connect!FindRow(x) \/ Connect!Fetch(x)
         \/ Connect!FetchFails(x) \/ Connect!Fail(x)
         \/ \E e \in Connect!Event : Connect!Receive(x, e)
  PROVE Onboarding' /\ account' = account
  <1>. USE IdAssumption, BoundAssumption
  <1>t. /\ Connect!TypeOK /\ Accounts /\ Statuses
        /\ claimed \subseteq Connect!Event /\ acked \subseteq Connect!Event
    BY DEF Onboarding, Connect!TypeOK
  <1>r. refreshers[x].pc # "idle" => refreshers[x] \in Connect!Refresh
    BY <1>t, Typing
  <1>1. ASSUME Connect!Step(x, Connect!Resting), UNCHANGED <<account, creators, stripe, raced>>,
               claimed' \subseteq Connect!Event, acked' \subseteq Connect!Event
        PROVE Onboarding'
    <2>1. Connect!Resting.pc = "idle" /\ refreshers' = [refreshers EXCEPT ![x] = Connect!Resting]
      BY <1>1 DEF Connect!Step, Connect!Resting
    <2>. QED BY <1>1, <2>1, RefreshGoesOn
  <1>2. CASE Connect!BeginPoll(x)
    <2>. DEFINE next == [pc |-> "fetch", event |-> Connect!Poll, account |-> account.account,
                         got |-> 0, overtaken |-> FALSE]
    <2>1. /\ refreshers' = [refreshers EXCEPT ![x] = next] /\ account # Connect!Placeholder
          /\ UNCHANGED <<account, creators, stripe, claimed, acked, raced>>
      BY <1>2 DEF Connect!BeginPoll, Connect!Step
    <2>2. account.account \in Creator /\ creators[account.account] = "stored"
      BY <1>t, <2>1, Typing DEF Accounts, RowIsStored, Connect!Row
    <2>3. next \in Connect!Refresh /\ next.pc = "fetch" /\ next.account = account.account
      BY <2>2 DEF Connect!Refresh
    <2>. HIDE DEF next
    <2>. QED BY <1>t, <2>1, <2>2, <2>3, RefreshGoesOn
  <1>3. ASSUME NEW e \in Connect!Event, Connect!Receive(x, e) PROVE Onboarding' /\ account' = account
    <2>. DEFINE next == [pc |-> "claim", event |-> e, account |-> "none", got |-> 0,
                         overtaken |-> FALSE]
    <2>1. /\ refreshers' = [refreshers EXCEPT ![x] = next]
          /\ UNCHANGED <<account, creators, stripe, claimed, acked, raced>>
      BY <1>3 DEF Connect!Receive, Connect!Step
    <2>2. next \in Connect!Refresh /\ next.pc = "claim" /\ next.event = e
      BY DEF Connect!Refresh
    <2>. HIDE DEF next
    <2>. QED BY <1>t, <2>1, <2>2, RefreshGoesOn
  <1>4. CASE Connect!Claim(x)
    <2>1. /\ refreshers[x].pc = "claim" /\ refreshers[x] \in Connect!Refresh
          /\ refreshers[x].event \in Connect!Event
          /\ UNCHANGED <<account, creators, stripe, raced>>
      BY <1>4, <1>r, <1>t DEF Connect!Claim, Statuses, EventIsLookedFor
    <2>2. claimed' \subseteq Connect!Event /\ acked' \subseteq Connect!Event
      BY <1>4, <1>t, <2>1 DEF Connect!Claim
    <2>3. CASE Connect!Step(x, Connect!Resting)
      BY <1>1, <2>1, <2>2, <2>3
    <2>4. CASE Connect!Step(x, [refreshers[x] EXCEPT !.pc = "find"])
      <3>. DEFINE next == [refreshers[x] EXCEPT !.pc = "find"]
      <3>1. refreshers' = [refreshers EXCEPT ![x] = next]
        BY <2>4 DEF Connect!Step
      <3>2. next \in Connect!Refresh /\ next.pc = "find" /\ next.event = refreshers[x].event
        BY <2>1 DEF Connect!Refresh
      <3>. HIDE DEF next
      <3>. QED BY <2>1, <2>2, <3>1, <3>2, RefreshGoesOn
    <2>. QED BY <1>4, <2>1, <2>3, <2>4 DEF Connect!Claim
  <1>5. CASE Connect!FindRow(x)
    <2>1. /\ refreshers[x].pc = "find" /\ refreshers[x] \in Connect!Refresh
          /\ refreshers[x].event \in Connect!Event
          /\ UNCHANGED <<account, creators, stripe, claimed, raced>>
      BY <1>5, <1>r, <1>t DEF Connect!FindRow, Statuses, EventIsLookedFor
    <2>2. CASE Connect!Step(x, Connect!Resting) /\ Connect!Answered(x)
      <3>1. acked' \subseteq Connect!Event
        BY <1>t, <2>1, <2>2, AnsweredEvents
      <3>. QED BY <1>1, <1>t, <2>1, <2>2, <3>1
    <2>3. CASE /\ account.account = refreshers[x].event.account /\ acked' = acked
               /\ Connect!Step(x, [refreshers[x] EXCEPT !.pc = "fetch", !.account = account.account])
      <3>. DEFINE next == [refreshers[x] EXCEPT !.pc = "fetch", !.account = account.account]
      <3>1. refreshers' = [refreshers EXCEPT ![x] = next]
        BY <2>3 DEF Connect!Step
      <3>2. account.account \in Creator /\ creators[account.account] = "stored"
        BY <1>t, <2>1, <2>3 DEF Accounts, RowIsStored, Connect!Event
      <3>3. next \in Connect!Refresh /\ next.pc = "fetch" /\ next.account = account.account
        BY <2>1, <3>2 DEF Connect!Refresh
      <3>. HIDE DEF next
      <3>. QED BY <1>t, <2>1, <2>3, <3>1, <3>2, <3>3, RefreshGoesOn
    <2>. QED BY <1>5, <2>1, <2>2, <2>3 DEF Connect!FindRow
  <1>6. CASE Connect!Fetch(x)
    <2>. DEFINE next == [refreshers[x] EXCEPT !.pc = "store", !.got = stripe[refreshers[x].account]]
    <2>1. /\ refreshers[x].pc = "fetch" /\ refreshers[x] \in Connect!Refresh
          /\ refreshers' = [refreshers EXCEPT ![x] = next]
          /\ UNCHANGED <<account, creators, stripe, claimed, acked, raced>>
      BY <1>6, <1>r DEF Connect!Fetch, Connect!Step
    <2>2. /\ refreshers[x].account \in Creator /\ creators[refreshers[x].account] = "stored"
          /\ stripe[refreshers[x].account] \in 0..MaxChanges
      BY <1>t, <2>1 DEF Statuses, AskedIsStored, Connect!TypeOK
    <2>3. /\ next \in Connect!Refresh /\ next.pc = "store"
          /\ next.account = refreshers[x].account /\ next.got = stripe[refreshers[x].account]
      BY <2>1, <2>2 DEF Connect!Refresh
    <2>4. ~raced => account.change <= next.got
      <3>. SUFFICES ASSUME ~raced PROVE account.change <= next.got
        OBVIOUS
      <3>1. account.account = refreshers[x].account /\ account.account # "none"
        BY <1>t, <2>2 DEF Accounts, StoredIsRow
      <3>. QED BY <1>t, <2>3, <3>1 DEF Statuses, RowIsOld
    <2>5. next.got <= stripe[next.account]
      BY <2>2, <2>3
    <2>. HIDE DEF next
    <2>. QED BY <1>t, <2>1, <2>2, <2>3, <2>4, <2>5, RefreshGoesOn
  <1>7. CASE Connect!FetchFails(x)
    <2>1. /\ refreshers[x].pc = "fetch" /\ Connect!Step(x, Connect!Resting) /\ Connect!Answered(x)
          /\ UNCHANGED <<account, creators, stripe, claimed, raced>>
      BY <1>7 DEF Connect!FetchFails
    <2>2. acked' \subseteq Connect!Event
      BY <1>t, <2>1, AnsweredEvents
    <2>. QED BY <1>1, <1>t, <2>1, <2>2
  <1>8. CASE Connect!Fail(x)
    BY <1>1, <1>8, <1>t DEF Connect!Fail
  <1>. QED BY <1>2, <1>3, <1>4, <1>5, <1>6, <1>7, <1>8

(* Every step keeps it. *)
LEMMA OnboardingStep == Onboarding /\ [Connect!Next]_(Connect!vars) => Onboarding'
  <1>1. ASSUME Onboarding, UNCHANGED Connect!vars PROVE Onboarding'
    <2>1. Connect!TypeOK'
      BY <1>1 DEF Onboarding, Connect!vars, Connect!TypeOK
    <2>2. Accounts'
      BY <1>1 DEF Onboarding, Connect!vars, Accounts, StoredHasRow, RowIsStored, ChangedIsStored,
         OneCreation, StoredIsRow, Creating
    <2>3. Statuses'
      BY <1>1 DEF Onboarding, Connect!vars, Statuses, AskedIsStored, GotIsOld, RowIsOld,
         OvertakenIsOld, EventIsLookedFor
    <2>. QED BY <2>1, <2>2, <2>3 DEF Onboarding
  <1>. QED BY <1>1, CreatorStep, RefresherStep, StoreStatusStep DEF Connect!Next

(* And the stored status moves on. *)
LEMMA OnboardingMovesOn ==
  Onboarding /\ [Connect!Next]_(Connect!vars) =>
    [(account'.account = account.account /\ account'.change < account.change) =>
       \/ \E x \in Refresher : refreshers[x] # Connect!Resting /\ refreshers[x].overtaken
                               /\ refreshers'[x] = Connect!Resting
       \/ raced]_(Connect!vars)
  <1>. SUFFICES ASSUME Onboarding, Connect!Next, ~raced,
                       account'.account = account.account, account'.change < account.change
                PROVE \E x \in Refresher : refreshers[x] # Connect!Resting /\ refreshers[x].overtaken
                                           /\ refreshers'[x] = Connect!Resting
    OBVIOUS
  <1>. USE IdAssumption, BoundAssumption
  <1>t. account.change \in Nat /\ Accounts
    BY Typing DEF Onboarding
  <1>1. account' # account
    BY <1>t
  <1>2. ASSUME NEW c \in Creator, Connect!StoreAccount(c) PROVE FALSE
    <2>1. creators[c] = "opened" /\ account'.account = c
      BY <1>2 DEF Connect!StoreAccount
    <2>2. account.account = c /\ c # "none"
      BY <2>1
    <2>. QED BY <1>t, <2>1, <2>2 DEF Accounts, RowIsStored
  <1>3. ASSUME NEW c \in Creator, \/ Connect!BeginCreate(c) \/ Connect!OpenAccount(c)
                                  \/ Connect!LoseAccount(c) \/ Connect!ChangeStatus(c)
        PROVE account' = account
    BY <1>3 DEF Connect!BeginCreate, Connect!Look, Connect!OpenAccount, Connect!LoseAccount,
                Connect!ChangeStatus
  <1>4. PICK x \in Refresher : Connect!StoreStatus(x)
    BY <1>1, <1>2, <1>3, RefresherStep DEF Connect!Next
  <1>5. account'.change \in Nat
    BY <1>4, StoreStatusStep, Typing DEF Onboarding, Connect!TypeOK, Connect!Row,
       Connect!Placeholder
  <1>6. refreshers[x].overtaken /\ refreshers[x] # Connect!Resting /\ refreshers'[x] = Connect!Resting
    BY <1>t, <1>4, <1>5, StoreStatusStep
  <1>. QED BY <1>6

(***************************************************************************)
(* For any number of calls, events and status changes: an account whose    *)
(* owner went through the onboarding stays the restaurant's, but for two   *)
(* creations that overlapped.                                              *)
(***************************************************************************)
THEOREM OneAccountHolds == Spec => []OneAccount
  BY OnboardingInit, OnboardingStep, OnboardingIsRight, PTL DEF Spec, Connect!Spec

(***************************************************************************)
(* For any number of calls, events and status changes: a checkout is only  *)
(* opened for an account that Stripe has reported ready.                   *)
(***************************************************************************)
THEOREM ReadyWhenChargedHolds == Spec => []ReadyWhenCharged
  BY OnboardingInit, OnboardingStep, OnboardingIsRight, PTL DEF Spec, Connect!Spec

(***************************************************************************)
(* For any number of refreshes: the stored status of an account goes back  *)
(* only when one was overtaken between its fetch and its store.            *)
(***************************************************************************)
THEOREM StatusMovesOnHolds == Spec => StatusMovesOn
  BY OnboardingInit, OnboardingStep, OnboardingMovesOn, PTL
     DEF Spec, Connect!Spec, StatusMovesOn, Connect!StatusMovesOn

-----------------------------------------------------------------------------
(* The links to the conversations (ReviewAccess). *)

(* The stored token was written by a call that got past its write, for that restaurant. *)
TokenOfWriter ==
  reviewToken # Access!NoToken =>
    /\ issues[reviewToken.by].pc \in {"mail", "done", "failed"}
    /\ reviewToken.tenant = issues[reviewToken.by].tenant
(* The last mail was sent by a call that is done. *)
MailOfDone == mailbox # Access!NoToken => issues[mailbox.by].pc = "done"
(* Of two calls under way at once, each is marked. *)
LiveOverlap ==
  \A i, j \in Issue : i # j /\ Access!Live(i) /\ Access!Live(j) => issues[i].overlapped
(* A call that was alone mails the token that is stored ... *)
AloneWrote ==
  \A i \in Issue : issues[i].pc = "mail" /\ ~issues[i].overlapped =>
    reviewToken # Access!NoToken /\ reviewToken.by = i
(* ... and the token of its mail stays stored, until one that is not mailed yet replaces it. *)
LastMail ==
  mailbox # Access!NoToken /\ ~mailbox.overlapped =>
    /\ reviewToken # Access!NoToken
    /\ reviewToken.by = mailbox.by \/ issues[reviewToken.by].pc \in {"mail", "failed"}

(* The inductive invariant of the customers' links. *)
Links == Access!TypeOK /\ TokenOfWriter /\ MailOfDone /\ LiveOverlap /\ AloneWrote /\ LastMail

(* It holds initially. *)
LEMMA LinksInit == Access!Init => Links
  BY DEF Access!Init, Links, Access!TypeOK, TokenOfWriter, MailOfDone, LiveOverlap, AloneWrote,
         LastMail, Access!NoToken, Access!NotIssued, Access!Live

(* It says that the last mail opens the conversation. *)
LEMMA LinksOpen == Links => LatestMailOpens
  <1>. SUFFICES ASSUME Links, mailbox # Access!NoToken, ~mailbox.overlapped, reviewToken.fresh
                PROVE \/ Access!Validate(issues[mailbox.by].tenant, mailbox.by)
                      \/ reviewToken # Access!NoToken /\ Access!Replaced
    BY DEF LatestMailOpens, Access!LatestMailOpens, Links, LastMail
  <1>1. reviewToken # Access!NoToken /\ reviewToken \in Access!Token
    BY DEF Links, LastMail, Access!TypeOK
  <1>2. CASE reviewToken.by = mailbox.by
    BY <1>1, <1>2 DEF Links, TokenOfWriter, Access!Validate
  <1>3. CASE issues[reviewToken.by].pc \in {"mail", "failed"}
    BY <1>1, <1>3 DEF Access!Replaced, Access!Token
  <1>. QED BY <1>2, <1>3 DEF Links, LastMail

(* Every step keeps it. *)
LEMMA LinksStep == Links /\ [Access!Next]_(Access!vars) => Links'
  <1>. SUFFICES ASSUME Links, [Access!Next]_(Access!vars) PROVE Links'
    OBVIOUS
  <1>. USE IdAssumption
  <1>t. /\ Access!TypeOK /\ TokenOfWriter /\ MailOfDone /\ LiveOverlap /\ AloneWrote /\ LastMail
        /\ issues \in [Issue -> Access!Call \cup {Access!NotIssued}]
    BY DEF Links, Access!TypeOK
  <1>c. ASSUME NEW i \in Issue, issues[i].pc # "idle" PROVE issues[i] \in Access!Call
    BY <1>t, <1>c DEF Access!NotIssued
  <1>k. /\ reviewToken # Access!NoToken => reviewToken \in Access!Token /\ reviewToken.by \in Issue
        /\ mailbox # Access!NoToken => mailbox \in Access!Mail /\ mailbox.by \in Issue
    BY <1>t DEF Access!TypeOK, Access!Token, Access!Mail
  <1>1. CASE UNCHANGED Access!vars
    BY <1>t, <1>1 DEF Links, Access!vars, Access!TypeOK, TokenOfWriter, MailOfDone, LiveOverlap,
       AloneWrote, LastMail, Access!Live
  <1>2. ASSUME NEW i \in Issue, NEW t \in Tenant, Access!FindToken(i, t) PROVE Links'
    <2>. DEFINE rivals == {j \in Issue : Access!Live(j)}
                pc == IF reviewToken = Access!NoToken THEN "create"
                      ELSE IF reviewToken.tenant # t THEN "failed" ELSE "update"
    <2>1. /\ issues[i] = Access!NotIssued /\ UNCHANGED <<reviewToken, mailbox>>
          /\ issues' = [j \in Issue |->
                IF j = i THEN [pc |-> pc, tenant |-> t, overlapped |-> rivals # {}]
                ELSE IF j \in rivals THEN [issues[j] EXCEPT !.overlapped = TRUE]
                ELSE issues[j]]
      BY <1>2 DEF Access!FindToken
    <2>2. issues[i].pc = "idle" /\ ~Access!Live(i) /\ pc \in {"create", "failed", "update"}
      BY <2>1 DEF Access!Live, Access!NotIssued
    <2>3. ASSUME NEW j \in Issue, j # i
          PROVE /\ issues'[j] \in Access!Call \cup {Access!NotIssued}
                /\ issues'[j].pc = issues[j].pc
                /\ issues[j].pc # "idle" => issues'[j].tenant = issues[j].tenant
                /\ Access!Live(j) => issues'[j].overlapped
                /\ ~Access!Live(j) => issues'[j] = issues[j]
      <3>1. CASE Access!Live(j)
        <4>1. issues[j] \in Access!Call /\ issues'[j] = [issues[j] EXCEPT !.overlapped = TRUE]
          BY <1>c, <2>1, <2>3, <3>1 DEF Access!Live
        <4>. QED BY <3>1, <4>1 DEF Access!Call
      <3>2. CASE ~Access!Live(j)
        BY <1>t, <2>1, <2>3, <3>2
      <3>. QED BY <3>1, <3>2
    <2>4. /\ issues'[i].pc = pc /\ issues'[i].tenant = t /\ issues'[i] \in Access!Call
          /\ issues'[i].overlapped = (rivals # {})
      BY <2>1, <2>2 DEF Access!Call
    <2>5. rivals # {} => issues'[i].overlapped
      BY <2>4
    <2>. HIDE DEF pc
    <2>6. issues' \in [Issue -> Access!Call \cup {Access!NotIssued}]
      BY <2>1, <2>3, <2>4
    <2>. HIDE DEF rivals
    <2>7. Access!TypeOK'
      BY <1>t, <2>1, <2>6 DEF Access!TypeOK
    <2>8. TokenOfWriter' /\ MailOfDone' /\ LastMail'
      BY <1>t, <1>k, <2>1, <2>2, <2>3 DEF TokenOfWriter, MailOfDone, LastMail
    <2>9. LiveOverlap'
      <3>1. ASSUME NEW j \in Issue, NEW k \in Issue, j # k,
                   issues'[j].pc \in {"update", "create", "mail"},
                   issues'[k].pc \in {"update", "create", "mail"}
            PROVE issues'[j].overlapped
        <4>1. CASE j # i
          BY <2>3, <3>1, <4>1 DEF Access!Live
        <4>2. CASE j = i
          <5>1. Access!Live(k)
            BY <2>3, <3>1, <4>2 DEF Access!Live
          <5>. QED BY <2>5, <4>2, <5>1 DEF rivals
        <4>. QED BY <4>1, <4>2
      <3>. QED BY <3>1 DEF LiveOverlap, Access!Live
    <2>10. AloneWrote'
      BY <1>t, <2>1, <2>2, <2>3, <2>4 DEF AloneWrote, Access!Live
    <2>. QED BY <2>7, <2>8, <2>9, <2>10 DEF Links
  <1>3. ASSUME NEW i \in Issue, Access!Live(i), NEW p \in {"mail", "done", "failed"},
               issues' = [issues EXCEPT ![i].pc = p]
        PROVE /\ issues' \in [Issue -> Access!Call \cup {Access!NotIssued}]
              /\ issues'[i].pc = p /\ issues'[i].tenant = issues[i].tenant
              /\ issues'[i].overlapped = issues[i].overlapped
              /\ \A j \in Issue : j # i => issues'[j] = issues[j]
              /\ LiveOverlap'
    <2>1. issues[i] \in Access!Call
      BY <1>c, <1>3 DEF Access!Live
    <2>2. /\ issues'[i] \in Access!Call
          /\ issues'[i].pc = p /\ issues'[i].tenant = issues[i].tenant
          /\ issues'[i].overlapped = issues[i].overlapped
      BY <1>t, <1>3, <2>1 DEF Access!Call
    <2>3. \A j \in Issue : j # i => issues'[j] = issues[j]
      BY <1>t, <1>3
    <2>4. issues' \in [Issue -> Access!Call \cup {Access!NotIssued}]
      BY <1>t, <1>3, <2>2
    <2>5. LiveOverlap'
      <3>1. \A j \in Issue : issues'[j].overlapped = issues[j].overlapped
        BY <2>2, <2>3
      <3>2. \A j \in Issue : issues'[j].pc \in {"update", "create", "mail"} => Access!Live(j)
        BY <1>3, <2>2, <2>3 DEF Access!Live
      <3>. QED BY <1>t, <3>1, <3>2 DEF LiveOverlap, Access!Live
    <2>. QED BY <2>2, <2>3, <2>4, <2>5
  <1>4. ASSUME NEW i \in Issue, Access!Live(i), issues' = [issues EXCEPT ![i].pc = "failed"],
               UNCHANGED <<reviewToken, mailbox>>
        PROVE Links'
    <2>1. /\ issues' \in [Issue -> Access!Call \cup {Access!NotIssued}]
          /\ issues'[i].pc = "failed" /\ issues'[i].tenant = issues[i].tenant
          /\ \A j \in Issue : j # i => issues'[j] = issues[j]
          /\ LiveOverlap'
      BY <1>3, <1>4
    <2>2. issues[i].pc \in {"update", "create", "mail"}
      BY <1>4 DEF Access!Live
    <2>3. Access!TypeOK'
      BY <1>t, <1>4, <2>1 DEF Access!TypeOK
    <2>4. TokenOfWriter' /\ MailOfDone'
      BY <1>t, <1>k, <1>4, <2>1, <2>2 DEF TokenOfWriter, MailOfDone
    <2>5. AloneWrote'
      BY <1>t, <1>4, <2>1 DEF AloneWrote
    <2>6. LastMail'
      BY <1>t, <1>k, <1>4, <2>1, <2>2 DEF LastMail
    <2>. QED BY <2>1, <2>3, <2>4, <2>5, <2>6 DEF Links
  <1>5. ASSUME NEW i \in Issue, Access!WriteToken(i) PROVE Links'
    <2>1. /\ issues[i].pc \in {"update", "create"} /\ Access!Live(i)
          /\ mailbox' = mailbox /\ issues[i] \in Access!Call
      BY <1>5, <1>c DEF Access!WriteToken, Access!Live
    <2>2. CASE issues' = [issues EXCEPT ![i].pc = "failed"] /\ reviewToken' = reviewToken
      BY <1>4, <2>1, <2>2
    <2>3. CASE /\ reviewToken' = [by |-> i, tenant |-> issues[i].tenant, fresh |-> TRUE]
               /\ issues' = [issues EXCEPT ![i].pc = "mail"]
      <3>1. /\ reviewToken' \in Access!Token /\ reviewToken' # Access!NoToken
            /\ reviewToken'.by = i /\ reviewToken'.tenant = issues[i].tenant
        BY <2>1, <2>3 DEF Access!Token, Access!Call, Access!NoToken
      <3>2. /\ issues' \in [Issue -> Access!Call \cup {Access!NotIssued}]
            /\ issues'[i].pc = "mail" /\ issues'[i].tenant = issues[i].tenant
            /\ issues'[i].overlapped = issues[i].overlapped
            /\ \A j \in Issue : j # i => issues'[j] = issues[j]
            /\ LiveOverlap'
        BY <1>3, <2>1, <2>3
      <3>3. AloneWrote'
        BY <1>t, <2>1, <3>1, <3>2 DEF AloneWrote, LiveOverlap, Access!Live
      <3>4. Access!TypeOK'
        BY <1>t, <2>1, <3>1, <3>2 DEF Access!TypeOK
      <3>5. TokenOfWriter' /\ LastMail'
        BY <3>1, <3>2 DEF TokenOfWriter, LastMail
      <3>6. MailOfDone'
        BY <1>t, <1>k, <2>1, <3>2 DEF MailOfDone
      <3>. QED BY <3>2, <3>3, <3>4, <3>5, <3>6 DEF Links
    <2>. QED BY <1>5, <2>2, <2>3 DEF Access!WriteToken
  <1>6. ASSUME NEW i \in Issue, Access!SendMail(i) PROVE Links'
    <2>1. /\ issues[i].pc = "mail" /\ Access!Live(i) /\ reviewToken' = reviewToken
          /\ mailbox' = [by |-> i, overlapped |-> issues[i].overlapped]
          /\ issues' = [issues EXCEPT ![i].pc = "done"] /\ issues[i] \in Access!Call
      BY <1>6, <1>c DEF Access!SendMail, Access!Live
    <2>2. mailbox' \in Access!Mail /\ mailbox'.by = i /\ mailbox'.overlapped = issues[i].overlapped
      BY <2>1 DEF Access!Mail, Access!Call
    <2>3. /\ issues' \in [Issue -> Access!Call \cup {Access!NotIssued}]
          /\ issues'[i].pc = "done" /\ issues'[i].tenant = issues[i].tenant
          /\ \A j \in Issue : j # i => issues'[j] = issues[j]
          /\ LiveOverlap'
      BY <1>3, <2>1
    <2>4. LastMail'
      BY <1>t, <2>1, <2>2 DEF AloneWrote, LastMail
    <2>5. Access!TypeOK'
      BY <1>t, <2>1, <2>2, <2>3 DEF Access!TypeOK
    <2>6. TokenOfWriter' /\ MailOfDone'
      BY <1>t, <1>k, <2>1, <2>2, <2>3 DEF TokenOfWriter, MailOfDone
    <2>7. AloneWrote'
      BY <1>t, <2>1, <2>3 DEF AloneWrote
    <2>. QED BY <2>3, <2>4, <2>5, <2>6, <2>7 DEF Links
  <1>7. ASSUME NEW i \in Issue, Access!Fail(i) PROVE Links'
    BY <1>7, <1>4 DEF Access!Fail
  <1>8. CASE Access!Expire
    <2>1. /\ reviewToken # Access!NoToken /\ reviewToken' = [reviewToken EXCEPT !.fresh = FALSE]
          /\ UNCHANGED <<issues, mailbox>> /\ reviewToken \in Access!Token
      BY <1>8, <1>k DEF Access!Expire
    <2>2. /\ reviewToken' \in Access!Token /\ reviewToken' # Access!NoToken
          /\ reviewToken'.by = reviewToken.by /\ reviewToken'.tenant = reviewToken.tenant
      BY <2>1 DEF Access!Token, Access!NoToken
    <2>. QED BY <1>t, <2>1, <2>2 DEF Links, Access!TypeOK, TokenOfWriter, MailOfDone, LiveOverlap,
                AloneWrote, LastMail, Access!Live
  <1>. QED BY <1>1, <1>2, <1>5, <1>6, <1>7, <1>8 DEF Access!Next

(***************************************************************************)
(* For any number of calls and restaurants: the link that a customer got   *)
(* last opens the conversation, but for the exceptions that                *)
(* LatestMailOpens names.                                                  *)
(***************************************************************************)
THEOREM LatestMailOpensHolds == Spec => []LatestMailOpens
  BY LinksInit, LinksStep, LinksOpen, PTL DEF Spec, Access!Spec

-----------------------------------------------------------------------------
(* The token for Uber (UberToken). *)

(* A token is granted before its answer is read. *)
GrantedBefore ==
  \A c \in Caller : callers[c].pc = "granted" => callers[c].token.granted <= now

(* The inductive invariant of the Uber token. *)
Tokens == Uber!TypeOK /\ TokenAlive /\ GrantedBefore

(* It holds initially. *)
LEMMA TokensInit == Uber!Init => Tokens
  <1>. SUFFICES ASSUME Uber!Init PROVE Tokens
    OBVIOUS
  <1>. USE BoundAssumption DEF Uber!Init, Uber!Waiting, Uber!NoToken, Uber!Time, Uber!Token
  <1>1. Uber!TypeOK
    BY DEF Uber!TypeOK
  <1>2. TokenAlive
    BY DEF TokenAlive, Uber!TokenAlive
  <1>3. GrantedBefore
    BY DEF GrantedBefore
  <1>. QED BY <1>1, <1>2, <1>3 DEF Tokens

(* Every step keeps it. *)
LEMMA TokensStep == Tokens /\ [Uber!Next]_(Uber!vars) => Tokens'
  <1>. SUFFICES ASSUME Tokens, [Uber!Next]_(Uber!vars) PROVE Tokens'
    OBVIOUS
  <1>. USE BoundAssumption
  <1>t. /\ now \in Nat /\ Uber!TypeOK /\ TokenAlive /\ GrantedBefore /\ Uber!Time \subseteq Nat
        /\ 0 \in Uber!Time
    BY DEF Tokens, Uber!TypeOK, Uber!Time
  <1>1. CASE UNCHANGED Uber!vars
    BY <1>t, <1>1 DEF Tokens, Uber!vars, Uber!TypeOK, TokenAlive, Uber!TokenAlive, GrantedBefore,
       Uber!AliveAt
  <1>2. CASE Uber!Tick
    <2>1. now' = now + 1 /\ now' \in Uber!Time /\ UNCHANGED <<cached, callers>>
      BY <1>t, <1>2 DEF Uber!Tick, Uber!Time
    <2>2. GrantedBefore'
      <3>1. ASSUME NEW c \in Caller, callers[c].pc = "granted" PROVE callers[c].token.granted \in Nat
        <4>1. callers[c] \in [pc: {"granted"}, token: Uber!Token]
          BY <1>t, <3>1 DEF Uber!TypeOK, Uber!Waiting
        <4>. QED BY <1>t, <4>1 DEF Uber!Token
      <3>. QED BY <1>t, <2>1, <3>1 DEF GrantedBefore
    <2>. QED BY <1>t, <2>1, <2>2 DEF Tokens, Uber!TypeOK, TokenAlive, Uber!TokenAlive,
       Uber!AliveAt
  <1>3. CASE Uber!Restart
    BY <1>t, <1>3 DEF Tokens, Uber!Restart, Uber!TypeOK, TokenAlive, Uber!TokenAlive,
       GrantedBefore,
                      Uber!Waiting, Uber!NoToken, Uber!Token
  <1>4. ASSUME NEW c \in Caller, Uber!UseCached(c) PROVE Tokens'
    <2>1. /\ Uber!Fresh(cached) /\ UNCHANGED <<now, cached>>
          /\ callers' = [callers EXCEPT ![c] = Uber!Holding(cached)]
      BY <1>4 DEF Uber!UseCached, Uber!Step
    <2>2. /\ cached \in Uber!Token /\ now \in Uber!Time
          /\ cached.granted \in Nat /\ cached.delay \in Nat /\ cached.life \in Nat
      BY <1>t DEF Uber!TypeOK, Uber!Token
    <2>3. Uber!AliveAt(cached, now) \/ cached.delay > Slack
      BY <1>t, <2>1, <2>2 DEF Uber!Fresh, Uber!ExpiresAt, Uber!AliveAt
    <2>4. Uber!TypeOK'
      BY <1>t, <2>1, <2>2 DEF Uber!TypeOK, Uber!Holding
    <2>5. TokenAlive'
      BY <1>t, <2>1, <2>3 DEF TokenAlive, Uber!TokenAlive, Uber!TypeOK, Uber!Holding, Uber!AliveAt
    <2>6. GrantedBefore'
      BY <1>t, <2>1 DEF GrantedBefore, Uber!TypeOK, Uber!Holding
    <2>. QED BY <2>4, <2>5, <2>6 DEF Tokens
  <1>5. ASSUME NEW c \in Caller, Uber!Ask(c) \/ Uber!SendQuote(c) \/ Uber!GiveUp(c) PROVE Tokens'
    <2>1. PICK next \in {Uber!Waiting, [pc |-> "asked"]} :
            callers' = [callers EXCEPT ![c] = next] /\ UNCHANGED <<now, cached>>
      BY <1>5 DEF Uber!Ask, Uber!SendQuote, Uber!GiveUp, Uber!Step
    <2>. QED BY <1>t, <2>1 DEF Tokens, Uber!TypeOK, TokenAlive, Uber!TokenAlive, Uber!AliveAt,
                              GrantedBefore, Uber!Waiting
  <1>6. ASSUME NEW c \in Caller, NEW life \in {0, Life}, Uber!Grant(c, life) PROVE Tokens'
    <2>. DEFINE t == [granted |-> now, life |-> life, delay |-> 0]
    <2>1. callers' = [callers EXCEPT ![c] = [pc |-> "granted", token |-> t]] /\ UNCHANGED <<now, cached>>
      BY <1>6 DEF Uber!Grant, Uber!Step
    <2>2. t \in Uber!Token /\ t.granted = now
      BY <1>t DEF Uber!Token, Uber!TypeOK
    <2>. HIDE DEF t
    <2>. QED BY <1>t, <2>1, <2>2 DEF Tokens, Uber!TypeOK, TokenAlive, Uber!TokenAlive,
       Uber!AliveAt,
                              GrantedBefore
  <1>7. ASSUME NEW c \in Caller, Uber!Arrive(c) PROVE Tokens'
    <2>. DEFINE t == [callers[c].token EXCEPT !.delay = now - callers[c].token.granted]
    <2>1. /\ callers[c].pc = "granted" /\ cached' = t /\ now' = now
          /\ callers' = [callers EXCEPT ![c] = Uber!Holding(t)]
      BY <1>7 DEF Uber!Arrive, Uber!Step
    <2>2. callers[c] \in [pc: {"granted"}, token: Uber!Token]
      BY <1>t, <2>1 DEF Uber!TypeOK, Uber!Waiting
    <2>3. callers[c].token.granted \in Uber!Time /\ callers[c].token.granted <= now /\ now \in Uber!Time
      BY <1>t, <2>1, <2>2 DEF Uber!Token, GrantedBefore, Uber!TypeOK
    <2>4. now - callers[c].token.granted \in Uber!Time
      BY <2>3 DEF Uber!Time
    <2>5. t \in Uber!Token /\ now = t.granted + t.delay
      <3>1. t \in Uber!Token
        BY <2>2, <2>4 DEF Uber!Token
      <3>2. t.granted = callers[c].token.granted /\ t.delay = now - callers[c].token.granted
        BY <2>2 DEF Uber!Token
      <3>. QED BY <1>t, <2>3, <3>1, <3>2
    <2>. HIDE DEF t
    <2>6. Uber!TypeOK'
      BY <1>t, <2>1, <2>3, <2>5 DEF Uber!TypeOK, Uber!Holding
    <2>7. TokenAlive'
      BY <1>t, <2>1, <2>5 DEF TokenAlive, Uber!TokenAlive, Uber!TypeOK, Uber!Holding, Uber!AliveAt
    <2>8. GrantedBefore'
      BY <1>t, <2>1 DEF GrantedBefore, Uber!TypeOK, Uber!Holding
    <2>. QED BY <2>6, <2>7, <2>8 DEF Tokens
  <1>. QED BY <1>1, <1>2, <1>3, <1>4, <1>5, <1>6, <1>7 DEF Uber!Next

(***************************************************************************)
(* For any number of callers, any life, slack and horizon: a call that is  *)
(* handed the cached token gets one that Uber still honours, unless the    *)
(* answer that brought it took longer than the slack.                      *)
(***************************************************************************)
THEOREM TokenAliveHolds == Spec => []TokenAlive
  <1>1. Tokens => TokenAlive
    BY DEF Tokens
  <1>. QED BY TokensInit, TokensStep, <1>1, PTL DEF Spec, Uber!Spec

-----------------------------------------------------------------------------
(* The restaurant of a request (TenantContext). *)

(* A guard of one of four kinds, or none, decides on the user of a route. *)
LEMMA RouteKinds == \A r \in Route : r.auth \in {"no", "optional", "required", "kitchen"}
  <1>. DEFINE Kind == {"no", "optional", "required", "kitchen"}
              Kinds(c) == \A m \in DOMAIN c : c[m].auth \in Kind
  <1>1. \A chain, methods : chain.auth \in Kind => Kinds(Guarded(chain, methods))
    BY DEF Guarded
  <1>2. \A methods, chain, guarded : chain.auth \in Kind => Kinds(Except(methods, chain, guarded))
    BY DEF Except, PublicRoute, Chain
  <1>. HIDE DEF Kinds
  <1>3. /\ OpenRoute.auth \in Kind /\ PublicRoute.auth \in Kind /\ OptionalRoute.auth \in Kind
        /\ AnyUserRoute.auth \in Kind /\ CustomerRoute.auth \in Kind /\ KitchenRoute.auth \in Kind
        /\ AdminRoute.auth \in Kind /\ PlatformRoute.auth \in Kind
        /\ \A r : VerifyRoute(r).auth \in Kind
    BY DEF OpenRoute, PublicRoute, OptionalRoute, AnyUserRoute, CustomerRoute, KitchenRoute,
           AdminRoute, PlatformRoute, VerifyRoute, Chain
  <1>. HIDE DEF Kind
  <1>4. /\ Kinds(KitchenReads) /\ Kinds(KitchenWrites) /\ Kinds(Arrivals) /\ Kinds(Webhooks)
        /\ Kinds(Delivery) /\ Kinds(OrderTracking) /\ Kinds(Locations) /\ Kinds(ReviewsOfAdmin)
        /\ Kinds(Tablet) /\ Kinds(Chat) /\ Kinds(Agent) /\ Kinds(Business) /\ Kinds(PlatformOpen)
        /\ Kinds(Platform) /\ Kinds(Voice) /\ Kinds(Health)
    BY <1>1, <1>3 DEF KitchenReads, KitchenWrites, Arrivals, Webhooks, Delivery, OrderTracking,
         Locations, ReviewsOfAdmin, Tablet, Chat, Agent, Business, PlatformOpen, Platform, Voice,
            Health
  <1>5. /\ Kinds(Payments) /\ Kinds(Menu) /\ Kinds(Inventory) /\ Kinds(Promotions)
        /\ Kinds(Reservations) /\ Kinds(LegacyOrders) /\ Kinds(GroupOrders) /\ Kinds(Settings)
        /\ Kinds(Content) /\ Kinds(ReviewsOfCustomer) /\ Kinds(Customers)
    BY <1>2, <1>3 DEF PublicAndAdmin, Payments, Menu, Inventory, Promotions, Reservations,
         LegacyOrders, GroupOrders, Settings, Content, ReviewsOfCustomer, Customers
  <1>6. Kinds(Auth) /\ Kinds(Public)
    BY <1>3 DEF Kinds, Auth, Public
  <1>7. \A c \in Controller : Kinds(c)
    BY <1>4, <1>5, <1>6 DEF Controller
  <1>. QED BY <1>7 DEF Kinds, Kind, Route

(* A restaurant that was resolved is active, unless its status changed since. *)
ActiveOrStale ==
  request.pc \in {"guards", "handler"} /\ request.tenant # "none" =>
    tenantStatus[request.tenant] = "active" \/ request.stale

(* The inductive invariant of the requests. *)
Requests == Tenants!TypeOK /\ ServedForOwnRestaurant /\ ActiveOrStale

(* It holds initially. *)
LEMMA RequestsInit == Tenants!Init => Requests
  BY DEF Tenants!Init, Requests, Tenants!TypeOK, ServedForOwnRestaurant,
         Tenants!ServedForOwnRestaurant, ActiveOrStale, Tenants!NoRequest, Tenants!NoToken,
         Tenants!Token, Tenants!None

(* The user that the guards find for a restaurant is of that restaurant, or of none. *)
LEMMA UserOfTenant ==
  ASSUME request.route \in Route, NEW t, t # "none"
  PROVE Tenants!UserOf(t).tenant \in {"none", t}
  BY RouteKinds DEF Tenants!UserOf, Tenants!OptionalUser, Tenants!AuthUser, Tenants!KitchenUser,
     Tenants!ScopeOK, Tenants!NoToken, Tenants!None

(* Every step keeps it. *)
LEMMA RequestsStep == Requests /\ [Tenants!Next]_(Tenants!vars) => Requests'
  <1>. SUFFICES ASSUME Requests, [Tenants!Next]_(Tenants!vars) PROVE Requests'
    OBVIOUS
  <1>. USE IdAssumption DEF Tenants!None
  <1>t. /\ Tenants!TypeOK /\ ServedForOwnRestaurant /\ ActiveOrStale
        /\ request # Tenants!NoRequest => request \in Tenants!Request
    BY DEF Requests, Tenants!TypeOK
  <1>1. CASE UNCHANGED Tenants!vars
    BY <1>t, <1>1 DEF Requests, Tenants!vars, Tenants!TypeOK, ServedForOwnRestaurant,
                      Tenants!ServedForOwnRestaurant, ActiveOrStale
  <1>2. ASSUME NEW t \in Tenant, NEW s \in {"active", "suspended"}, Tenants!SetStatus(t, s),
               role' \in [Tenant -> {"owner", "staff", "none"}], token' \in Tenants!Token
        PROVE Requests'
    <2>1. /\ tenantStatus' = [tenantStatus EXCEPT ![t] = s]
          /\ tenantStatus' \in [Tenant -> {"absent", "active", "suspended"}]
      BY <1>t, <1>2 DEF Tenants!SetStatus, Tenants!TypeOK
    <2>2. CASE request = Tenants!NoRequest
      BY <1>t, <1>2, <2>1, <2>2 DEF Requests, Tenants!SetStatus, Tenants!TypeOK,
         ServedForOwnRestaurant, Tenants!ServedForOwnRestaurant, ActiveOrStale, Tenants!NoRequest
    <2>3. CASE request # Tenants!NoRequest
      <3>1. request' = [request EXCEPT !.stale = @ \/ request.tenant = t] /\ request \in Tenants!Request
        BY <1>t, <1>2, <2>3 DEF Tenants!SetStatus
      <3>2. /\ request'.pc = request.pc /\ request'.route = request.route
            /\ request'.tenant = request.tenant /\ request'.user = request.user
            /\ request'.stale = (request.stale \/ request.tenant = t)
            /\ request' \in Tenants!Request
        BY <3>1 DEF Tenants!Request
      <3>3. request.tenant # "none" =>
              tenantStatus'[request.tenant] = tenantStatus[request.tenant] \/ request'.stale
        <4>1. CASE request.tenant = t
          BY <3>2, <4>1
        <4>2. CASE request.tenant # t
          BY <1>t, <2>1, <3>1, <4>2 DEF Tenants!TypeOK, Tenants!Request, Tenants!Named
        <4>. QED BY <4>1, <4>2
      <3>a. request.stale => request'.stale
        BY <3>2
      <3>4. ServedForOwnRestaurant'
        BY <1>t, <3>2, <3>3, <3>a DEF ServedForOwnRestaurant, Tenants!ServedForOwnRestaurant
      <3>5. ActiveOrStale'
        BY <1>t, <3>2, <3>3, <3>a DEF ActiveOrStale
      <3>. QED BY <1>2, <2>1, <3>2, <3>4, <3>5 DEF Requests, Tenants!TypeOK
    <2>. QED BY <2>2, <2>3
  <1>3. ASSUME NEW t \in Tenant, NEW s \in {"active", "suspended"}, NEW owned \in BOOLEAN,
               Tenants!UpdateRestaurant(t, s) \/ Tenants!CreateRestaurant(t, s, owned)
        PROVE Requests'
    <2>1. Tenants!SetStatus(t, s)
      BY <1>3 DEF Tenants!UpdateRestaurant, Tenants!CreateRestaurant
    <2>2. role' \in [Tenant -> {"owner", "staff", "none"}] /\ token' \in Tenants!Token
      BY <1>t, <1>3 DEF Tenants!UpdateRestaurant, Tenants!CreateRestaurant, Tenants!TypeOK,
         Tenants!Token
    <2>. QED BY <1>2, <2>1, <2>2
  <1>4. CASE \/ Tenants!PlatformLogin
             \/ \E t \in Tenant : \/ Tenants!Enrol(t) \/ Tenants!CustomerLogin(t)
                                 \/ \E r \in {"admin", "kitchen"}, hint \in Tenants!Named :
                                      Tenants!Login(r, hint, t)
    <2>1. /\ role' \in [Tenant -> {"owner", "staff", "none"}] /\ token' \in Tenants!Token
          /\ UNCHANGED <<tenantStatus, request>>
      BY <1>t, <1>4 DEF Tenants!Enrol, Tenants!CustomerLogin, Tenants!Login,
         Tenants!PlatformLogin,
                   Tenants!TypeOK, Tenants!Token
    <2>. QED BY <1>t, <2>1 DEF Requests, Tenants!TypeOK, ServedForOwnRestaurant,
                      Tenants!ServedForOwnRestaurant, ActiveOrStale
  <1>5. ASSUME NEW r \in Route, NEW h \in Tenants!Named, NEW x \in Tenants!Named,
               NEW s \in Tenants!Sending, Tenants!Send(r, h, x, s)
        PROVE Requests'
    <2>1. request' \in Tenants!Request /\ request'.pc = "middleware"
      BY <1>5 DEF Tenants!Send, Tenants!Request, Tenants!Named, Tenants!Token, Tenants!NoToken
    <2>. QED BY <1>t, <1>5, <2>1 DEF Requests, Tenants!Send, Tenants!TypeOK,
       ServedForOwnRestaurant,
                      Tenants!ServedForOwnRestaurant, ActiveOrStale
  <1>6. CASE Tenants!Middleware
    <2>1. /\ request \in Tenants!Request /\ UNCHANGED <<tenantStatus, role, token>>
          /\ request' = [request EXCEPT !.pc = "guards", !.tenant = Tenants!Resolve(request.header),
                                        !.stale = FALSE]
      BY <1>t, <1>6 DEF Tenants!Middleware, Tenants!NoRequest
    <2>2. Tenants!Resolve(request.header) \in Tenants!Named
      BY <2>1 DEF Tenants!Resolve, Tenants!Request, Tenants!Named
    <2>3. /\ request'.pc = "guards" /\ request'.tenant = Tenants!Resolve(request.header)
          /\ request' \in Tenants!Request
      BY <2>1, <2>2 DEF Tenants!Request
    <2>4. ActiveOrStale'
      BY <2>1, <2>3 DEF ActiveOrStale, Tenants!Resolve
    <2>. QED BY <1>t, <2>1, <2>3, <2>4 DEF Requests, Tenants!TypeOK, ServedForOwnRestaurant,
                                      Tenants!ServedForOwnRestaurant
  <1>7. CASE Tenants!Guards
    <2>1. /\ request \in Tenants!Request /\ request.pc = "guards"
          /\ UNCHANGED <<tenantStatus, role, token>>
      BY <1>t, <1>7 DEF Tenants!Guards, Tenants!NoRequest
    <2>2. CASE ~Tenants!Admitted(Tenants!TenantOf)
      <3>1. request' = Tenants!NoRequest
        BY <1>7, <2>2 DEF Tenants!Guards
      <3>. QED BY <1>t, <2>1, <3>1 DEF Requests, Tenants!TypeOK, ServedForOwnRestaurant,
                  Tenants!ServedForOwnRestaurant, ActiveOrStale, Tenants!NoRequest
    <2>3. CASE Tenants!Admitted(Tenants!TenantOf)
      <3>. DEFINE t == Tenants!TenantOf
                  u == Tenants!UserOf(t)
      <3>1. request' = [request EXCEPT !.pc = "handler", !.tenant = t, !.user = u,
                                       !.stale = IF request.tenant = t THEN @ ELSE FALSE]
        BY <1>7, <2>3 DEF Tenants!Guards
      <3>2. t \in Tenants!Named /\ request.route \in Route
        BY <1>t, <2>1 DEF Tenants!TenantOf, Tenants!Resolve, Tenants!Request, Tenants!Named,
                     Tenants!Claimed, Tenants!TypeOK, Tenants!Token, Tenants!NoToken, Tenants!Bearer
      <3>3. u \in Tenants!Token
        BY <1>t, <3>2, RouteKinds DEF Tenants!UserOf, Tenants!OptionalUser, Tenants!AuthUser,
           Tenants!KitchenUser, Tenants!Bearer, Tenants!KitchenToken, Tenants!TypeOK, Tenants!Token
      <3>4. t # "none" => u.tenant \in {"none", t}
        BY <3>2, UserOfTenant
      <3>5. request.route.tenant => t # "none"
        BY <2>3 DEF Tenants!Admitted
      <3>6. t # "none" => tenantStatus[t] = "active" \/ (request.tenant = t /\ request.stale)
        BY <1>t, <2>1 DEF ActiveOrStale, Tenants!TenantOf, Tenants!Resolve
      <3>. HIDE DEF t, u
      <3>7. /\ request'.pc = "handler" /\ request'.tenant = t /\ request'.user = u
            /\ request'.route = request.route /\ request' \in Tenants!Request
            /\ request.tenant = t => request'.stale = request.stale
        BY <2>1, <3>1, <3>2, <3>3 DEF Tenants!Request
      <3>8. ActiveOrStale'
        BY <2>1, <3>6, <3>7 DEF ActiveOrStale
      <3>9. ServedForOwnRestaurant'
        BY <2>1, <3>4, <3>5, <3>6, <3>7 DEF ServedForOwnRestaurant, Tenants!ServedForOwnRestaurant
      <3>. QED BY <1>t, <2>1, <3>7, <3>8, <3>9 DEF Requests, Tenants!TypeOK
    <2>. QED BY <2>2, <2>3
  <1>8. CASE Tenants!Handle
    BY <1>t, <1>8 DEF Requests, Tenants!Handle, Tenants!TypeOK, ServedForOwnRestaurant,
                  Tenants!ServedForOwnRestaurant, ActiveOrStale, Tenants!NoRequest
  <1>. QED BY <1>1, <1>3, <1>4, <1>5, <1>6, <1>7, <1>8 DEF Tenants!Next

(***************************************************************************)
(* For any restaurants, and every route of the server: a handler serves    *)
(* the restaurant of its user and no other, and only an active one.        *)
(***************************************************************************)
THEOREM ServedForOwnRestaurantHolds == Spec => []ServedForOwnRestaurant
  <1>1. Requests => ServedForOwnRestaurant
    BY DEF Requests
  <1>. QED BY RequestsInit, RequestsStep, <1>1, PTL DEF Spec, Tenants!Spec

-----------------------------------------------------------------------------
(***************************************************************************)
(* The types of the accounts, links, tokens and requests are kept.         *)
(***************************************************************************)
THEOREM KeysTyped == Spec => [](Connect!TypeOK /\ Access!TypeOK /\ Uber!TypeOK /\ Tenants!TypeOK)
  <1>1. /\ Onboarding => Connect!TypeOK
        /\ Links => Access!TypeOK
        /\ Tokens => Uber!TypeOK
        /\ Requests => Tenants!TypeOK
    BY DEF Onboarding, Links, Tokens, Requests
  <1>. QED BY <1>1, OnboardingInit, OnboardingStep, LinksInit, LinksStep, TokensInit, TokensStep,
              RequestsInit, RequestsStep, PTL
           DEF Spec, Connect!Spec, Access!Spec, Uber!Spec, Tenants!Spec
=============================================================================
