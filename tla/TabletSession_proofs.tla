------------------------ MODULE TabletSession_proofs ------------------------
(***************************************************************************)
(* Proofs about TabletSession, for any requests and any limits.            *)
(***************************************************************************)
EXTENDS TabletSession, SequenceTheorems, TLAPS

(* The session that a handler has read is one that was given out. *)
Given(session) == session.id \in 1..made /\ Len(session.history) <= HistoryCap

(* What the handlers hold: sessions that were given out, times that have   *)
(* passed, and an order status only if it was posted.                      *)
Held ==
  \A r \in Req : reqs[r].pc \in {"read", "write"} =>
    /\ reqs[r].seen # NoSession => Given(reqs[r].seen)
    /\ reqs[r].at <= clock
    /\ reqs[r].override # Keep => reqs[r].op = "status"

(* A handler whose view was not overtaken has read the row as it is. *)
ViewIsRow == \A r \in Req : reqs[r].pc = "write" /\ view[r] = "current" => reqs[r].seen = row

(* The row has counted every answered question whose count was not lost.   *)
Counted == answered <= RowCount + lost

-----------------------------------------------------------------------------
LEMMA RecordsApart ==
  /\ NoSession \notin Session /\ Idle \notin Touch /\ Done \notin Touch
  /\ Keep \notin OrderStatus
BY DEF NoSession, Session, Idle, Done, Touch, Keep, OrderStatus

(* What the handler of a request holds while it is at work. *)
LEMMA TouchFields ==
  ASSUME TypeOK, NEW r \in Req, reqs[r].pc \in {"read", "write"}
  PROVE  /\ reqs[r] \in Touch
         /\ reqs[r].at \in 0..MaxTime /\ reqs[r].override \in OrderStatus \cup {Keep}
         /\ reqs[r].seen \in Session \cup {NoSession}
BY DEF TypeOK, Idle, Done, Touch

LEMMA SessionFields ==
  ASSUME NEW s \in Session
  PROVE  /\ s # NoSession /\ s.id \in Nat /\ s.count \in Nat /\ s.last \in 0..MaxTime
         /\ s.status \in OrderStatus /\ s.warned \in BOOLEAN /\ s.history \in Seq(Req)
BY RecordsApart DEF Session

LEMMA TouchingType ==
  ASSUME TypeOK, NEW op \in {"activity", "status", "chat", "reply"},
         NEW override \in OrderStatus \cup {Keep}
  PROVE  /\ Touching(op, override) \in Touch
         /\ Touching(op, override).pc = "read" /\ Touching(op, override).seen = NoSession
         /\ Touching(op, override).at = clock /\ Touching(op, override).op = op
         /\ Touching(op, override).override = override
BY DEF Touching, Touch, TypeOK

LEMMA Counts ==
  ASSUME TypeOK
  PROVE  /\ RowCount \in Nat
         /\ \A r \in Req : reqs[r].pc = "write" => SeenCount(reqs[r]) \in Nat
<1>1. RowCount \in Nat
  BY SessionFields DEF TypeOK, RowCount
<1>2. ASSUME NEW r \in Req, reqs[r].pc = "write" PROVE SeenCount(reqs[r]) \in Nat
  BY <1>2, TouchFields, SessionFields DEF SeenCount
<1>3. QED BY <1>1, <1>2

(* The stored conversation is capped, whatever was read. *)
LEMMA ConversationType ==
  ASSUME TypeOK, Held, NEW r \in Req, reqs[r].pc = "write"
  PROVE  /\ Conversation(r, reqs[r]) \in Seq(Req)
         /\ Len(Conversation(r, reqs[r])) <= HistoryCap
<1> DEFINE h == reqs[r]
           kept == IF Resets(h) THEN <<>> ELSE h.seen.history
           all == IF h.op = "reply" THEN Append(kept, r) ELSE kept
<1>1. kept \in Seq(Req)
  BY TouchFields, SessionFields, EmptySeq DEF Resets
<1>2. all \in Seq(Req)
  BY <1>1, AppendProperties
<1>3. Conversation(r, h) = IF Len(all) > HistoryCap
                           THEN SubSeq(all, Len(all) - HistoryCap + 1, Len(all)) ELSE all
  BY DEF Conversation
<1> HIDE DEF kept, all
<1>4. Len(all) \in Nat /\ \A i \in 1..Len(all) : all[i] \in Req
  BY <1>2, LenProperties
<1>5. CASE Len(all) > HistoryCap
  <2> DEFINE m == Len(all) - HistoryCap + 1
  <2>1. m \in 1..Len(all) /\ Len(all) - m + 1 = HistoryCap
    BY <1>4, <1>5, LimitsAssumption
  <2>2. \A i \in m..Len(all) : all[i] \in Req
    BY <1>4, <2>1
  <2>3. SubSeq(all, m, Len(all)) \in Seq(Req) /\ Len(SubSeq(all, m, Len(all))) = HistoryCap
    BY <1>4, <2>1, <2>2, SubSeqProperties
  <2>4. QED BY <1>3, <1>5, <2>3, LimitsAssumption
<1>6. CASE ~(Len(all) > HistoryCap)
  BY <1>2, <1>3, <1>4, <1>6, LimitsAssumption
<1>7. QED BY <1>5, <1>6

(* The row that is written is a session that has been given out by then.   *)
LEMMA UpsertedType ==
  ASSUME TypeOK, Held, NEW r \in Req, Query2(r)
  PROVE  /\ row' = Upserted(r, reqs[r]) /\ row' \in Session
         /\ made' \in Nat /\ made <= made' /\ Given(row)'
<1> DEFINE h == reqs[r]
<1>1. h.pc = "write" /\ row' = Upserted(r, h) /\ made' = IF Resets(h) THEN made + 1 ELSE made
  BY DEF Query2
<1>2. h \in Touch /\ h.at \in 0..MaxTime /\ h.override \in OrderStatus \cup {Keep}
  BY <1>1, TouchFields
<1>3. ~Resets(h) => h.seen \in Session /\ Given(h.seen)
  BY <1>1, TouchFields, RecordsApart DEF Resets, Held
<1>4. NewQuestionCount(h) \in Nat
  BY <1>1, Counts DEF NewQuestionCount
<1>5. made \in Nat /\ made' \in Nat /\ made <= made'
  BY <1>1 DEF TypeOK
<1>6. row'.id \in 1..made' /\ row'.id \in Nat
  BY <1>1, <1>3, <1>5 DEF Upserted, Given
<1>7. row'.status \in OrderStatus
  BY <1>1, <1>2, <1>3, SessionFields DEF Upserted, OrderStatus
<1>8. (Warns(h) \/ (~Resets(h) /\ h.seen.warned)) \in BOOLEAN
  BY <1>3, SessionFields DEF Warns
<1>9. row'.history \in Seq(Req) /\ Len(row'.history) <= HistoryCap
  BY <1>1, ConversationType DEF Upserted
<1>10. row' = [id |-> row'.id, count |-> NewQuestionCount(h), last |-> h.at,
               status |-> row'.status, warned |-> row'.warned, history |-> row'.history]
  BY <1>1 DEF Upserted
<1>11. row'.warned \in BOOLEAN
  BY <1>1, <1>8 DEF Upserted
<1>12. row' \in Session
  BY <1>2, <1>4, <1>6, <1>7, <1>9, <1>10, <1>11 DEF Session
<1>13. QED BY <1>1, <1>5, <1>6, <1>9, <1>12 DEF Given

-----------------------------------------------------------------------------
Sound == TypeOK /\ Held

LEMMA SoundStep ==
  ASSUME Sound, [Next]_vars
  PROVE  Sound'
<1> USE DEF Sound
<1> DEFINE HeldBy(r) == reqs[r].pc \in {"read", "write"} =>
             /\ reqs[r].seen # NoSession => Given(reqs[r].seen)
             /\ reqs[r].at <= clock
             /\ reqs[r].override # Keep => reqs[r].op = "status"
<1>1. ASSUME NEW r \in Req, NEW op \in {"activity", "status", "chat"},
             NEW override \in OrderStatus \cup {Keep},
             Request(r, op, override), override # Keep => op = "status"
      PROVE  Sound'
  <2>1. reqs' = [reqs EXCEPT ![r] = Touching(op, override)]
        /\ UNCHANGED <<row, clock, made, view, answered, lost>>
    BY <1>1 DEF Request
  <2>2. TypeOK'
    BY <2>1, TouchingType DEF TypeOK
  <2>3. clock <= clock
    BY DEF TypeOK
  <2>4. Held'
    BY <1>1, <2>1, <2>3, TouchingType DEF Held, Given, TypeOK
  <2>5. QED BY <2>2, <2>4
<1>2. ASSUME NEW r \in Req, Query1(r) PROVE Sound'
  <2>1. reqs[r] \in Touch
    BY <1>2, TouchFields DEF Query1
  <2>2. /\ reqs' = [reqs EXCEPT ![r] = [reqs[r] EXCEPT !.pc = "write", !.seen = row]]
        /\ UNCHANGED <<row, clock, made, answered, lost>>
    BY <1>2, <2>1 DEF Query1, TypeOK
  <2>3. [reqs[r] EXCEPT !.pc = "write", !.seen = row] \in Touch
    BY <2>1 DEF Touch, TypeOK
  <2>4. TypeOK'
    BY <1>2, <2>2, <2>3 DEF Query1, TypeOK
  <2>5. row # NoSession => Given(row)
    BY DEF TypeOK, Given
  <2>6. HeldBy(r) /\ reqs[r].pc = "read"
    BY <1>2 DEF Held, Query1
  <2>7. HeldBy(r)'
    BY <2>1, <2>2, <2>5, <2>6 DEF Touch, TypeOK, Given
  <2>8. \A q \in Req \ {r} : HeldBy(q)'
    BY <2>2 DEF Held, Given, TypeOK
  <2> HIDE DEF HeldBy
  <2>9. \A q \in Req : HeldBy(q)'
    BY <2>7, <2>8
  <2>10. Held'
    BY <2>9 DEF HeldBy, Held
  <2>11. QED BY <2>4, <2>10
<1>3. ASSUME NEW r \in Req, Query2(r) PROVE Sound'
  <2> DEFINE next == IF reqs[r].op = "chat" /\ Answers(Upserted(r, reqs[r]), reqs[r])
                     THEN Touching("reply", Keep) ELSE Done
  <2>1. row' \in Session /\ made' \in Nat /\ made <= made' /\ Given(row)'
    BY <1>3, UpsertedType
  <2>2. reqs' = [reqs EXCEPT ![r] = next] /\ clock' = clock /\ view' = Overtaken(r)
    BY <1>3 DEF Query2
  <2>3. Touching("reply", Keep) \in Touch /\ next \in Touch \cup {Done}
    BY TouchingType
  <2>4. answered' \in Nat
    BY <1>3 DEF Query2, TypeOK
  <2>5. lost' \in Nat
    <3>1. RowCount \in Nat /\ SeenCount(reqs[r]) \in Nat /\ lost \in Nat
      BY <1>3, Counts DEF Query2, TypeOK
    <3>2. lost' = IF RowCount > SeenCount(reqs[r]) THEN lost + RowCount - SeenCount(reqs[r]) ELSE lost
      BY <1>3 DEF Query2
    <3>3. QED BY <3>1, <3>2
  <2>6. view' \in [Req -> {"current", "overtaken"}]
    BY <2>2 DEF Overtaken, TypeOK
  <2>7. reqs' \in [Req -> Touch \cup {Idle, Done}]
    BY <2>2, <2>3 DEF TypeOK
  <2>8. TypeOK'
    BY <2>1, <2>2, <2>4, <2>5, <2>6, <2>7, SessionFields DEF TypeOK, Given
  <2>9. HeldBy(r)'
    <3>1. clock <= clock
      BY DEF TypeOK
    <3>2. reqs'[r] = Done \/ reqs'[r] = Touching("reply", Keep)
      BY <2>2 DEF TypeOK
    <3>3. CASE reqs'[r] = Done
      BY <3>3 DEF Done
    <3>4. CASE reqs'[r] = Touching("reply", Keep)
      BY <2>2, <3>1, <3>4, TouchingType
    <3>5. QED BY <3>2, <3>3, <3>4
  <2>10. ASSUME NEW q \in Req \ {r} PROVE HeldBy(q)'
    <3>1. reqs'[q] = reqs[q] /\ HeldBy(q)
      BY <2>2 DEF TypeOK, Held
    <3>2. \A s : Given(s) => Given(s)'
      BY <2>1 DEF Given, TypeOK
    <3>3. QED BY <2>2, <3>1, <3>2 DEF Given
  <2> HIDE DEF HeldBy
  <2>11. Held'
    BY <2>9, <2>10 DEF HeldBy, Held
  <2>12. QED BY <2>8, <2>11
<1>4. ASSUME NEW r \in Req, ResetChat(r) \/ Die(r) PROVE Sound'
  <2>1. reqs' = [reqs EXCEPT ![r] = Done] /\ UNCHANGED <<clock, made>>
    BY <1>4 DEF ResetChat, Die
  <2>2. row' = row \/ (row # NoSession /\ row' = [row EXCEPT !.history = <<>>, !.count = 0, !.warned = FALSE])
    BY <1>4 DEF ResetChat, Die
  <2>3. row # NoSession => /\ [row EXCEPT !.history = <<>>, !.count = 0, !.warned = FALSE] \in Session
                           /\ [row EXCEPT !.history = <<>>, !.count = 0, !.warned = FALSE].id = row.id
                           /\ [row EXCEPT !.history = <<>>, !.count = 0, !.warned = FALSE].history = <<>>
    BY EmptySeq DEF TypeOK, Session
  <2>4. row' \in Session \cup {NoSession} /\ (row' # NoSession => row'.id \in 1..made' /\ Len(row'.history) <= HistoryCap)
    <3>1. CASE row' = row
      BY <2>1, <3>1 DEF TypeOK
    <3>2. CASE row # NoSession /\ row' = [row EXCEPT !.history = <<>>, !.count = 0, !.warned = FALSE]
      <4>1. Len(<<>>) <= HistoryCap
        BY EmptySeq, LimitsAssumption
      <4>2. QED BY <2>1, <2>3, <3>2, <4>1 DEF TypeOK
    <3>3. QED BY <2>2, <3>1, <3>2
  <2>5. view' \in [Req -> {"current", "overtaken"}] /\ answered' \in Nat /\ lost' \in Nat
    BY <1>4 DEF ResetChat, Die, Overtaken, TypeOK
  <2>6. TypeOK'
    BY <2>1, <2>4, <2>5 DEF TypeOK
  <2>7. Held'
    BY <2>1 DEF Held, Given, TypeOK, Done
  <2>8. QED BY <2>6, <2>7
<1>5. CASE Tick
  <2>1. clock' = clock + 1 /\ clock' \in 0..MaxTime /\ UNCHANGED <<row, reqs, made, view, answered, lost>>
    BY <1>5, LimitsAssumption DEF Tick, TypeOK
  <2>2. \A r \in Req : reqs[r].pc \in {"read", "write"} /\ reqs[r].at <= clock => reqs[r].at <= clock'
    BY <2>1, TouchFields DEF TypeOK
  <2>3. QED BY <2>1, <2>2 DEF TypeOK, Held, Given
<1>6. CASE UNCHANGED vars
  BY <1>6 DEF vars, TypeOK, Held, Given
<1>7. QED
  BY <1>1, <1>2, <1>3, <1>4, <1>5, <1>6, RecordsApart DEF Next, Arrives

LEMMA SoundHolds == Spec => []Sound
<1>1. Init => Sound
  BY LimitsAssumption DEF Init, Sound, TypeOK, Held, Idle
<1>2. QED BY <1>1, SoundStep, PTL DEF Spec

(***************************************************************************)
(* Type correctness; in particular the stored conversation is capped.      *)
(***************************************************************************)
THEOREM TypeCorrect == Spec => []TypeOK
<1>1. Sound => TypeOK BY DEF Sound
<1>2. QED BY <1>1, SoundHolds, PTL

-----------------------------------------------------------------------------
(* Every answered question is counted, by the row or as lost. *)
LEMMA CountedStep ==
  ASSUME Sound, Counted, AnsweredWithinLimit, [Next]_vars
  PROVE  Counted' /\ AnsweredWithinLimit'
<1> USE DEF Sound
<1>1. ASSUME NEW r \in Req, Query2(r) PROVE Counted' /\ AnsweredWithinLimit'
  <2> DEFINE h == reqs[r]
             answers == h.op = "chat" /\ Answers(Upserted(r, h), h)
  <2>1. /\ RowCount \in Nat /\ SeenCount(h) \in Nat
        /\ answered \in Nat /\ lost \in Nat /\ QuestionLimit \in Nat
    BY <1>1, Counts, LimitsAssumption DEF Query2, TypeOK
  <2>2. row' = Upserted(r, h) /\ RowCount' = NewQuestionCount(h)
    <3>1. row' = Upserted(r, h) /\ row' \in Session
      BY <1>1, UpsertedType
    <3>2. row' # NoSession
      BY <3>1, SessionFields
    <3>3. row'.count = NewQuestionCount(h)
      BY <3>1 DEF Upserted
    <3>4. QED BY <3>1, <3>2, <3>3 DEF RowCount
  <2>3. /\ answered' = IF answers THEN answered + 1 ELSE answered
        /\ lost' = IF RowCount > SeenCount(h) THEN lost + RowCount - SeenCount(h) ELSE lost
    BY <1>1 DEF Query2
  <2>4. answers => NewQuestionCount(h) = SeenCount(h) + 1 /\ NewQuestionCount(h) <= QuestionLimit
    <3> SUFFICES ASSUME answers
                 PROVE  NewQuestionCount(h) = SeenCount(h) + 1 /\ NewQuestionCount(h) <= QuestionLimit
      OBVIOUS
    <3>1. ~Locked(row'.status) /\ row'.count <= QuestionLimit /\ h.op = "chat"
      BY <2>2 DEF Answers
    <3>2. h.override = Keep
      BY <1>1, <3>1 DEF Query2, Held
    <3>3. h.seen # NoSession => ~Locked(h.seen.status)
      <4> SUFFICES ASSUME h.seen # NoSession, Locked(h.seen.status) PROVE FALSE
        OBVIOUS
      <4>1. ~Resets(h)
        BY DEF Resets, IgnoresTimeout
      <4>2. row'.status = h.seen.status
        BY <2>2, <3>2, <4>1 DEF Upserted
      <4>3. QED BY <3>1, <4>2
    <3>4. NewQuestionCount(h) = SeenCount(h) + 1
      BY <3>1, <3>3 DEF NewQuestionCount
    <3>5. QED BY <2>2, <3>1, <3>4 DEF Upserted
  <2>5. NewQuestionCount(h) \in {SeenCount(h), SeenCount(h) + 1}
    BY DEF NewQuestionCount
  <2>6. answered <= RowCount + lost /\ answered <= QuestionLimit + lost
    BY DEF Counted, AnsweredWithinLimit
  <2>7. /\ lost' \in Nat /\ lost <= lost' /\ RowCount + lost <= SeenCount(h) + lost'
    BY <2>1, <2>3
  <2> HIDE DEF answers, h
  <2>8. answered' <= NewQuestionCount(h) + lost' /\ answered' <= QuestionLimit + lost'
    BY <2>1, <2>3, <2>4, <2>5, <2>6, <2>7
  <2>9. QED BY <2>2, <2>8 DEF Counted, AnsweredWithinLimit
<1>2. ASSUME NEW r \in Req, ResetChat(r) PROVE Counted' /\ AnsweredWithinLimit'
  <2>1. CASE row = NoSession
    BY <1>2, <2>1 DEF ResetChat, Counted, AnsweredWithinLimit, RowCount
  <2>2. CASE row # NoSession
    <3>1. /\ answered' = 0 /\ lost' = 0
          /\ row' = [row EXCEPT !.history = <<>>, !.count = 0, !.warned = FALSE]
      BY <1>2, <2>2 DEF ResetChat
    <3>2. RowCount' = 0
      BY <2>2, <3>1 DEF RowCount, TypeOK, Session
    <3>3. QED BY <3>1, <3>2, LimitsAssumption DEF Counted, AnsweredWithinLimit
  <2>3. QED BY <2>1, <2>2
<1>3. CASE UNCHANGED <<row, answered, lost>>
  BY <1>3 DEF Counted, AnsweredWithinLimit, RowCount
<1>4. QED
  BY <1>1, <1>2, <1>3 DEF Next, Arrives, Request, Query1, Die, Tick, vars

(***************************************************************************)
(* Between two resets of the chat at most QuestionLimit questions are      *)
(* answered, but for counts that a concurrent request overwrites.          *)
(***************************************************************************)
THEOREM AnsweredWithinLimitHolds == Spec => []AnsweredWithinLimit
<1>1. Init => Counted /\ AnsweredWithinLimit
  BY LimitsAssumption DEF Init, Counted, AnsweredWithinLimit, RowCount
<1>2. Sound /\ (Counted /\ AnsweredWithinLimit) /\ [Next]_vars => (Counted /\ AnsweredWithinLimit)'
  BY CountedStep
<1>3. QED BY <1>1, <1>2, SoundHolds, PTL DEF Spec

-----------------------------------------------------------------------------
LEMMA ViewIsRowStep ==
  ASSUME Sound, ViewIsRow, [Next]_vars
  PROVE  ViewIsRow'
<1> USE DEF Sound
<1>1. ASSUME NEW r \in Req, NEW op, NEW override, Request(r, op, override) PROVE ViewIsRow'
  BY <1>1 DEF Request, Touching, ViewIsRow, TypeOK
<1>2. ASSUME NEW r \in Req, Query1(r) PROVE ViewIsRow'
  <2>1. reqs[r] \in Touch
    BY <1>2, TouchFields DEF Query1
  <2>2. reqs'[r].seen = row
    BY <1>2, <2>1 DEF Query1, TypeOK, Touch
  <2>3. QED BY <1>2, <2>2 DEF Query1, ViewIsRow, TypeOK
<1>3. ASSUME NEW r \in Req, Query2(r) PROVE ViewIsRow'
  <2>1. view' = Overtaken(r) /\ reqs'[r].pc # "write" /\ \A q \in Req \ {r} : reqs'[q] = reqs[q]
    BY <1>3 DEF Query2, Touching, Done, TypeOK
  <2>2. QED BY <2>1 DEF Overtaken, ViewIsRow
<1>4. ASSUME NEW r \in Req, ResetChat(r) \/ Die(r) PROVE ViewIsRow'
  <2>1. reqs'[r].pc # "write" /\ \A q \in Req \ {r} : reqs'[q] = reqs[q]
    BY <1>4 DEF ResetChat, Die, Done, TypeOK
  <2>2. \/ view' = Overtaken(r)
        \/ row' = row /\ \A q \in Req \ {r} : view'[q] = view[q]
    BY <1>4 DEF ResetChat, Die, TypeOK
  <2>3. QED BY <2>1, <2>2 DEF Overtaken, ViewIsRow
<1>5. CASE UNCHANGED <<row, reqs, view>>
  BY <1>5 DEF ViewIsRow
<1>6. QED
  BY <1>1, <1>2, <1>3, <1>4, <1>5 DEF Next, Arrives, Tick, vars

LEMMA ViewIsRowHolds == Spec => []ViewIsRow
<1>1. Init => ViewIsRow
  BY DEF Init, ViewIsRow, Idle
<1>2. QED BY <1>1, ViewIsRowStep, SoundHolds, PTL DEF Spec

(* The session, or its status, changes only by the write of a handler.     *)
LEMMA SessionSteps ==
  ASSUME Sound, [Next]_vars, row # NoSession, row'.id # row.id \/ row'.status # row.status
  PROVE  \E r \in Req : Query2(r) /\ Acting(r)
<1>1. ASSUME NEW r \in Req, Query2(r) PROVE Acting(r)
  <2>1. reqs'[r] = Done \/ reqs'[r] = Touching("reply", Keep)
    BY <1>1 DEF Query2, Sound, TypeOK
  <2>2. reqs'[r].pc # "write"
    BY <2>1 DEF Done, Touching
  <2>3. QED BY <1>1, <2>2 DEF Query2, Acting
<1>2. ASSUME NEW r \in Req, ResetChat(r) PROVE row'.id = row.id /\ row'.status = row.status
  BY <1>2 DEF ResetChat, Sound, TypeOK, Session
<1>3. QED
  BY <1>1, <1>2 DEF Next, Arrives, Request, Query1, Die, Tick, vars

(***************************************************************************)
(* A paid session is neither replaced nor taken out of its status but by   *)
(* order-status, or by a handler that read the row before it was paid.     *)
(***************************************************************************)
THEOREM PaidSessionKeptHolds == Spec => PaidSessionKept
<1> DEFINE Kept ==
      row # NoSession /\ Locked(row.status) /\ (row'.id # row.id \/ row'.status # row.status)
        => \E r \in Req :
             Acting(r) /\ (view[r] = "overtaken" \/ (reqs[r].op = "status" /\ row'.id = row.id))
<1>1. ASSUME Sound, ViewIsRow, [Next]_vars PROVE Kept
  <2> SUFFICES ASSUME row # NoSession, Locked(row.status),
                      row'.id # row.id \/ row'.status # row.status
               PROVE  \E r \in Req :
                        Acting(r) /\ (view[r] = "overtaken" \/ (reqs[r].op = "status" /\ row'.id = row.id))
    OBVIOUS
  <2>1. PICK r \in Req : Query2(r) /\ Acting(r)
    BY <1>1, SessionSteps
  <2>2. CASE view[r] = "overtaken"
    BY <2>1, <2>2
  <2>3. CASE view[r] # "overtaken"
    <3>1. reqs[r].pc = "write" /\ reqs[r].seen = row /\ row' = Upserted(r, reqs[r])
      BY <1>1, <2>1, <2>3, UpsertedType DEF Query2, ViewIsRow, Sound, TypeOK
    <3>2. ~Resets(reqs[r])
      BY <3>1 DEF Resets, IgnoresTimeout
    <3>3. row'.id = row.id /\ (reqs[r].override = Keep => row'.status = row.status)
      BY <3>1, <3>2 DEF Upserted
    <3>4. reqs[r].op = "status"
      BY <1>1, <3>1, <3>3 DEF Sound, Held
    <3>5. QED BY <2>1, <3>3, <3>4
  <2>4. QED BY <2>2, <2>3
<1>2. QED
  BY <1>1, SoundHolds, ViewIsRowHolds, PTL DEF Spec, PaidSessionKept

(***************************************************************************)
(* A session is only replaced ExpireAfter or more after the last recorded  *)
(* activity, or by a handler whose view of it was overtaken.               *)
(***************************************************************************)
THEOREM ActiveSessionKeptHolds == Spec => ActiveSessionKept
<1> DEFINE Kept == row # NoSession /\ row'.id # row.id
                     => \/ clock - row.last >= ExpireAfter
                        \/ \E r \in Req : Acting(r) /\ view[r] = "overtaken"
<1>1. ASSUME Sound, ViewIsRow, [Next]_vars PROVE Kept
  <2> SUFFICES ASSUME row # NoSession, row'.id # row.id
               PROVE  \/ clock - row.last >= ExpireAfter
                      \/ \E r \in Req : Acting(r) /\ view[r] = "overtaken"
    OBVIOUS
  <2>1. PICK r \in Req : Query2(r) /\ Acting(r)
    BY <1>1, SessionSteps
  <2>2. CASE view[r] = "overtaken"
    BY <2>1, <2>2
  <2>3. CASE view[r] # "overtaken"
    <3>1. /\ reqs[r].pc = "write" /\ reqs[r].seen = row /\ row' = Upserted(r, reqs[r])
      BY <1>1, <2>1, <2>3, UpsertedType DEF Query2, ViewIsRow, Sound, TypeOK
    <3>2. Resets(reqs[r])
      BY <3>1 DEF Upserted
    <3>3. reqs[r].at - row.last >= ExpireAfter
      BY <3>1, <3>2 DEF Resets, Inactivity
    <3>4. reqs[r].at <= clock /\ reqs[r].at \in Int /\ clock \in Int /\ row.last \in Int
      BY <1>1, <3>1, TouchFields, SessionFields DEF Sound, Held, TypeOK
    <3>5. QED BY <3>3, <3>4, LimitsAssumption
  <2>4. QED BY <2>2, <2>3
<1>2. QED
  BY <1>1, SoundHolds, ViewIsRowHolds, PTL DEF Spec, ActiveSessionKept
=============================================================================
