---------------------------- MODULE TabletSession ----------------------------
(***************************************************************************)
(* The session of one in-store tablet: TabletService.touchSession, which   *)
(* every request of the tablet goes through, and the chat that limits the  *)
(* number of questions.  touchSession reads the row, decides on what it    *)
(* read, and upserts a whole new row in a second round trip; requests of   *)
(* the same tablet, and the reset of its chat, interleave with it.         *)
(*                                                                         *)
(* Sessions of different tablets share nothing (the row's key holds the    *)
(* tenant and the tablet).  A chat message is named by its request.        *)
(***************************************************************************)
EXTENDS Integers, Sequences

CONSTANTS Req,            \* the requests, each made at most once
          QuestionLimit,  \* questionLimit(), 10 by default
          WarningAfter,   \* warningAfterMs() and expireAfterMs(), in ticks
          ExpireAfter,
          HistoryCap,     \* questions kept in a conversation (20 messages are 10)
          MaxTime         \* the clock stops here

ASSUME LimitsAssumption ==
  /\ QuestionLimit \in Nat /\ HistoryCap \in Nat \ {0} /\ MaxTime \in Nat
  /\ WarningAfter \in Nat \ {0} /\ ExpireAfter \in Nat \ {0}

VARIABLES row,       \* the tablet_sessions row
          reqs,      \* the request handlers
          clock,
          made,      \* the number of session ids given out
          view,      \* history: is the row still the one that the handler read?
          answered,  \* history: questions answered since the last chat reset
          lost       \* history: question counts lost to overtaken writes since

vars == <<row, reqs, clock, made, view, answered, lost>>

OrderStatus == {"NONE", "IN_PROGRESS", "PAID", "COMPLETED"}
Locked(status) == status \in {"PAID", "COMPLETED"}
Keep == "keep"            \* no orderStatusOverride
NoSession == [id |-> 0]

Session == [id: Nat, count: Nat, last: 0..MaxTime, status: OrderStatus,
            warned: BOOLEAN, history: Seq(Req)]

Idle == [pc |-> "idle"]
Done == [pc |-> "done"]
(* A touch: "chat" counts a question, "reply" stores an answered one.       *)
(* at is the time at which touchSession was called, seen the row it read.   *)
Touch == [pc: {"read", "write"}, op: {"activity", "status", "chat", "reply"},
          override: OrderStatus \cup {Keep}, at: 0..MaxTime,
          seen: Session \cup {NoSession}]

-----------------------------------------------------------------------------
(* What touchSession decides before its second query, from what it read.   *)

Inactivity(h) == h.at - h.seen.last

IgnoresTimeout(h) == Locked(h.seen.status) \/ Locked(h.override)

ResetsEvenPaid(h) ==       \* a plausible slip: locked sessions expire, too
  h.seen = NoSession \/ Inactivity(h) >= ExpireAfter

ResetsAtWarning(h) ==      \* a plausible slip: the wrong one of the two timeouts
  h.seen = NoSession \/ (~IgnoresTimeout(h) /\ Inactivity(h) >= WarningAfter)

Resets(h) ==
  \/ h.seen = NoSession
  \/ ~IgnoresTimeout(h) /\ Inactivity(h) >= ExpireAfter

Warns(h) ==
  /\ ~Resets(h)
  /\ ~IgnoresTimeout(h)
  /\ h.seen.status = "NONE"
  /\ ~h.seen.warned
  /\ Inactivity(h) >= WarningAfter

SeenCount(h) == IF h.seen = NoSession THEN 0 ELSE h.seen.count

NewQuestionCount(h) ==
  IF h.op = "chat" /\ ~(h.seen # NoSession /\ Locked(h.seen.status))
  THEN SeenCount(h) + 1 ELSE SeenCount(h)

ConversationUncapped(r, h) ==     \* a plausible slip: the cap is missing
  IF h.op = "reply" THEN Append(IF Resets(h) THEN <<>> ELSE h.seen.history, r)
  ELSE IF Resets(h) THEN <<>> ELSE h.seen.history

Conversation(r, h) ==
  LET kept == IF Resets(h) THEN <<>> ELSE h.seen.history
      all  == IF h.op = "reply" THEN Append(kept, r) ELSE kept
  IN IF Len(all) > HistoryCap THEN SubSeq(all, Len(all) - HistoryCap + 1, Len(all)) ELSE all

(* The row that the upsert writes: the same one whether it has to insert it *)
(* or, when another request inserted it meanwhile, to update it.            *)
Upserted(r, h) ==
  [id      |-> IF Resets(h) THEN made + 1 ELSE h.seen.id,
   count   |-> NewQuestionCount(h),
   last    |-> h.at,
   status  |-> IF h.override # Keep THEN h.override
               ELSE IF Resets(h) THEN "NONE" ELSE h.seen.status,
   warned  |-> Warns(h) \/ (~Resets(h) /\ h.seen.warned),
   history |-> Conversation(r, h)]

AnswersByOldCount(written, h) ==   \* a plausible slip: the count before this question
  ~Locked(written.status) /\ SeenCount(h) <= QuestionLimit

(* Is a question answered, given the row that its touch wrote? *)
Answers(written, h) == ~Locked(written.status) /\ written.count <= QuestionLimit

-----------------------------------------------------------------------------
Touching(op, override) ==
  [pc |-> "read", op |-> op, override |-> override, at |-> clock, seen |-> NoSession]

(* POST tablet/activity, POST tablet/order-status, POST chat. *)
Request(r, op, override) ==
  /\ reqs[r] = Idle
  /\ reqs' = [reqs EXCEPT ![r] = Touching(op, override)]
  /\ UNCHANGED <<row, clock, made, view, answered, lost>>

(* QUERY 1 of touchSession. *)
Query1(r) ==
  /\ reqs[r].pc = "read"
  /\ reqs' = [reqs EXCEPT ![r].pc = "write", ![r].seen = row]
  /\ view' = [view EXCEPT ![r] = "current"]
  /\ UNCHANGED <<row, clock, made, answered, lost>>

Overtaken(r) ==
  [x \in Req |-> IF x = r THEN "current"
                 ELSE IF reqs[x].pc = "write" THEN "overtaken" ELSE view[x]]

RowCount == IF row = NoSession THEN 0 ELSE row.count

(* QUERY 2: the upsert.  A chat that may be answered goes on to a second    *)
(* touchSession, which stores the question with its answer.                 *)
Query2(r) ==
  /\ reqs[r].pc = "write"
  /\ LET h == reqs[r]
         written == Upserted(r, h)
         answers == h.op = "chat" /\ Answers(written, h)
     IN /\ row' = written
        /\ made' = IF Resets(h) THEN made + 1 ELSE made
        /\ answered' = IF answers THEN answered + 1 ELSE answered
        /\ lost' = IF RowCount > SeenCount(h) THEN lost + RowCount - SeenCount(h) ELSE lost
        /\ reqs' = [reqs EXCEPT ![r] = IF answers THEN Touching("reply", Keep) ELSE Done]
  /\ view' = Overtaken(r)
  /\ UNCHANGED clock

(* ChatService.reset: one update; a missing row (P2025) is not an error.    *)
ResetChat(r) ==
  /\ reqs[r] = Idle
  /\ reqs' = [reqs EXCEPT ![r] = Done]
  /\ IF row = NoSession
     THEN UNCHANGED <<row, view, answered, lost>>
     ELSE /\ row' = [row EXCEPT !.history = <<>>, !.count = 0, !.warned = FALSE]
          /\ view' = Overtaken(r)
          /\ answered' = 0 /\ lost' = 0
  /\ UNCHANGED <<clock, made>>

(* A failed query or a restart of the process: the request is gone.         *)
Die(r) ==
  /\ reqs[r].pc \in {"read", "write"}
  /\ reqs' = [reqs EXCEPT ![r] = Done]
  /\ view' = [view EXCEPT ![r] = "current"]
  /\ UNCHANGED <<row, clock, made, answered, lost>>

Tick ==
  /\ clock < MaxTime
  /\ clock' = clock + 1
  /\ UNCHANGED <<row, reqs, made, view, answered, lost>>

Init ==
  /\ row = NoSession
  /\ reqs = [r \in Req |-> Idle]
  /\ clock = 0 /\ made = 0
  /\ view = [r \in Req |-> "current"]
  /\ answered = 0 /\ lost = 0

Arrives(r) ==
  \/ Request(r, "activity", Keep)
  \/ Request(r, "chat", Keep)
  \/ \E s \in OrderStatus : Request(r, "status", s)

Next ==
  \/ \E r \in Req : Arrives(r) \/ Query1(r) \/ Query2(r) \/ ResetChat(r) \/ Die(r)
  \/ Tick

Spec == Init /\ [][Next]_vars

-----------------------------------------------------------------------------
(* TypeOK, with the cap on the conversation that is stored (117).           *)
TypeOK ==
  /\ row \in Session \cup {NoSession}
  /\ row # NoSession => row.id \in 1..made /\ Len(row.history) <= HistoryCap
  /\ reqs \in [Req -> Touch \cup {Idle, Done}]
  /\ clock \in 0..MaxTime /\ made \in Nat
  /\ view \in [Req -> {"current", "overtaken"}]
  /\ answered \in Nat /\ lost \in Nat

(***************************************************************************)
(* AnsweredWithinLimit: between two resets of the chat, at most            *)
(* QuestionLimit questions are answered, but for those whose count a       *)
(* concurrent request of the tablet has overwritten with an older one (70  *)
(* against 124).                                                           *)
(***************************************************************************)
AnsweredWithinLimit == answered <= QuestionLimit + lost

(* The handler whose write this step is. *)
Acting(r) == reqs'[r] # reqs[r]

(***************************************************************************)
(* PaidSessionKept: the session of a paid or completed order is neither    *)
(* replaced nor taken out of that status by time or by any request except  *)
(* order-status, or one that had read the row before the order was paid.   *)
(***************************************************************************)
PaidSessionKept ==
  [][row # NoSession /\ Locked(row.status)
       /\ (row'.id # row.id \/ row'.status # row.status)
     => \E r \in Req :
          Acting(r) /\ (view[r] = "overtaken" \/ (reqs[r].op = "status" /\ row'.id = row.id))]_vars

(***************************************************************************)
(* ActiveSessionKept: a session, and with it the customer's cart and       *)
(* conversation, is only replaced when the tablet's last recorded activity *)
(* is ExpireAfter or more ago, unless the decision was overtaken.          *)
(***************************************************************************)
ActiveSessionKept ==
  [][row # NoSession /\ row'.id # row.id
     => \/ clock - row.last >= ExpireAfter
        \/ \E r \in Req : Acting(r) /\ view[r] = "overtaken"]_vars

(***************************************************************************)
(* NewSessionCanAsk: a customer whose questions are used up can ask again  *)
(* in a new session, as the message of the chat promises.                  *)
(***************************************************************************)
NewSessionCanAsk ==
  [][row'.id # row.id => row'.count <= QuestionLimit]_vars
=============================================================================
