------------------------ MODULE BackOfficeRows_proofs ------------------------
(***************************************************************************)
(* What BackOffice promises about rows that are read in one query and      *)
(* written in the next, for every value of its constants.  The inductive   *)
(* invariants say what a handler still knows of the row that it has read:  *)
(* that it is unchanged, or that the handler has been overtaken.           *)
(***************************************************************************)
EXTENDS BackOffice, TLAPS

-----------------------------------------------------------------------------
(* The group orders (GroupOrders). *)

(* A request that read the group while it was active, and that no change   *)
(* of the status has overtaken, finds it active still.                     *)
UnovertakenIsActive ==
  \A r \in Joiner :
    joins[r].pc \in {"add", "remove", "expire"} /\ ~joins[r].overtaken => groupStatus = "active"

(* The inductive invariant of a group order. *)
Choosing == Groups!TypeOK /\ UnovertakenIsActive

(* It holds initially. *)
LEMMA ChoosingInit == Groups!Init => Choosing
  <1>. SUFFICES ASSUME Groups!Init PROVE Choosing
    OBVIOUS
  <1>1. Groups!TypeOK
    BY DEF Groups!Init, Groups!TypeOK
  <1>2. \A r \in Joiner : joins[r].pc = "idle"
    BY DEF Groups!Init, Groups!NotBegun
  <1>. QED BY <1>1, <1>2 DEF Choosing, UnovertakenIsActive

(* A request that is under way is a Join; and Overtake changes its flag or its end. *)
LEMMA Overtaking ==
  ASSUME Groups!TypeOK, NEW r \in Joiner, joins[r].pc # "idle", NEW to \in Groups!Status,
         NEW pc \in {"gone", "answer"}, joins' = Groups!Overtake(to, r, pc)
  PROVE /\ joins' \in [Joiner -> Groups!Join \cup {Groups!NotBegun}]
        /\ joins'[r] = Groups!NotBegun \/ joins'[r].pc = "answer"
        /\ pc = "gone" => joins'[r] = Groups!NotBegun
        /\ pc = "answer" => joins'[r].pc = "answer"
        /\ \A q \in Joiner : q # r =>
             /\ joins'[q].pc = joins[q].pc
             /\ to = groupStatus => joins'[q] = joins[q]
             /\ to # groupStatus /\ joins[q].pc # "idle" => joins'[q].overtaken
  <1>. DEFINE Next(q) == IF q = r THEN (IF pc = "gone" THEN Groups!NotBegun
                                        ELSE [joins[r] EXCEPT !.pc = pc])
                         ELSE IF joins[q] # Groups!NotBegun /\ to # groupStatus
                              THEN [joins[q] EXCEPT !.overtaken = TRUE]
                              ELSE joins[q]
  <1>1. joins' = [q \in Joiner |-> Next(q)]
    BY DEF Groups!Overtake
  <1>2. ASSUME NEW q \in Joiner, joins[q].pc # "idle" PROVE joins[q] \in Groups!Join
    BY <1>2 DEF Groups!TypeOK, Groups!NotBegun
  <1>3. /\ Next(r) \in Groups!Join \cup {Groups!NotBegun}
        /\ pc = "gone" => Next(r) = Groups!NotBegun
        /\ pc = "answer" => Next(r).pc = "answer"
    BY <1>2 DEF Groups!Join
  <1>4. ASSUME NEW q \in Joiner, q # r
        PROVE /\ Next(q) \in Groups!Join \cup {Groups!NotBegun}
              /\ Next(q).pc = joins[q].pc
              /\ to = groupStatus => Next(q) = joins[q]
              /\ to # groupStatus /\ joins[q].pc # "idle" => Next(q).overtaken
    <2>1. CASE joins[q] = Groups!NotBegun
      BY <1>4, <2>1 DEF Groups!NotBegun
    <2>2. CASE joins[q] # Groups!NotBegun
      <3>1. joins[q] \in Groups!Join
        BY <2>2 DEF Groups!TypeOK
      <3>2. CASE to = groupStatus
        BY <1>4, <3>1, <3>2
      <3>3. CASE to # groupStatus
        <4>1. Next(q) = [joins[q] EXCEPT !.overtaken = TRUE]
          BY <1>4, <2>2, <3>3
        <4>. QED BY <3>1, <3>3, <4>1 DEF Groups!Join
      <3>. QED BY <3>2, <3>3
    <2>. QED BY <2>1, <2>2
  <1>. HIDE DEF Next
  <1>5. \A q \in Joiner : joins'[q] = Next(q)
    BY <1>1
  <1>6. joins' \in [Joiner -> Groups!Join \cup {Groups!NotBegun}]
    BY <1>1, <1>3, <1>4
  <1>. QED BY <1>3, <1>4, <1>5, <1>6

(* A request that ends leaves the others as they are. *)
LEMMA Ending ==
  ASSUME Choosing, NEW r \in Joiner, joins' = [joins EXCEPT ![r] = Groups!NotBegun],
         groupStatus' = groupStatus, late' = late, items' \subseteq Joiner
  PROVE Choosing'
  <1>1. Groups!TypeOK'
    BY DEF Choosing, Groups!TypeOK
  <1>2. UnovertakenIsActive'
    BY DEF Choosing, Groups!TypeOK, UnovertakenIsActive, Groups!NotBegun
  <1>. QED BY <1>1, <1>2 DEF Choosing

(* A request that changes the status overtakes the others. *)
LEMMA Changing ==
  ASSUME Choosing, NEW r \in Joiner, joins[r].pc # "idle", NEW to \in Groups!Status,
         NEW pc \in {"gone", "answer"}, joins' = Groups!Overtake(to, r, pc),
         groupStatus' = to, late' = late, items' = items
  PROVE Choosing'
  <1>t. Groups!TypeOK /\ UnovertakenIsActive
    BY DEF Choosing
  <1>1. joins'[r].pc \in {"idle", "answer"}
    BY <1>t, Overtaking DEF Groups!NotBegun
  <1>2. \A q \in Joiner : q # r =>
          /\ joins'[q].pc = joins[q].pc
          /\ to = groupStatus => joins'[q] = joins[q]
          /\ to # groupStatus /\ joins[q].pc # "idle" => joins'[q].overtaken
    BY <1>t, Overtaking
  <1>3. Groups!TypeOK'
    <2>1. joins' \in [Joiner -> Groups!Join \cup {Groups!NotBegun}]
      BY <1>t, Overtaking
    <2>. QED BY <1>t, <2>1 DEF Groups!TypeOK
  <1>4. UnovertakenIsActive'
    BY <1>t, <1>1, <1>2 DEF UnovertakenIsActive
  <1>. QED BY <1>3, <1>4 DEF Choosing

(* A request that begins has read the group's status. *)
LEMMA Beginning ==
  ASSUME Choosing, NEW r \in Joiner, NEW item \in Joiner, NEW to \in Groups!Status,
         NEW pc \in {"add", "remove", "close", "expire"}, Groups!Begin(r, pc, item, to),
         pc # "close" => groupStatus = "active"
  PROVE Choosing'
  <1>. DEFINE next == [pc |-> pc, item |-> item, to |-> to, overtaken |-> FALSE]
  <1>1. joins' = [joins EXCEPT ![r] = next] /\ UNCHANGED <<groupStatus, late, items>>
    BY DEF Groups!Begin
  <1>2. next \in Groups!Join /\ next.pc = pc
    BY DEF Groups!Join
  <1>. HIDE DEF next
  <1>3. Groups!TypeOK'
    BY <1>1, <1>2 DEF Choosing, Groups!TypeOK
  <1>4. UnovertakenIsActive'
    BY <1>1, <1>2 DEF Choosing, Groups!TypeOK, UnovertakenIsActive
  <1>. QED BY <1>3, <1>4 DEF Choosing

(* Every step keeps it, and what is closed. *)
LEMMA ChoosingStep ==
  ASSUME Choosing, [Groups!Next]_(Groups!vars)
  PROVE /\ Choosing'
        /\ [groupStatus \notin {"none", "active"} =>
              /\ items' # items => Groups!OvertakenStep
              /\ groupStatus' # groupStatus => Groups!OvertakenStep \/ Groups!AdminStep]_(Groups!vars)
  <1>. DEFINE Kept == groupStatus \notin {"none", "active"} =>
              /\ items' # items => Groups!OvertakenStep
              /\ groupStatus' # groupStatus => Groups!OvertakenStep \/ Groups!AdminStep
  <1>t. /\ Groups!TypeOK /\ UnovertakenIsActive /\ items \subseteq Joiner
        /\ "expired" \in Groups!Status
        /\ \A r \in Joiner : joins[r].pc # "idle" => joins[r] \in Groups!Join
    BY DEF Choosing, Groups!TypeOK, Groups!NotBegun, Groups!Status
  <1>1. CASE UNCHANGED Groups!vars
    <2>1. Choosing'
      BY <1>t, <1>1 DEF Choosing, Groups!vars, Groups!TypeOK, UnovertakenIsActive
    <2>. QED BY <1>1, <2>1
  <1>2. ASSUME Groups!Create PROVE Choosing' /\ Kept
    BY <1>2, <1>t DEF Groups!Create, Choosing, Groups!TypeOK, Groups!Status, UnovertakenIsActive
  <1>3. ASSUME Groups!TimePasses PROVE Choosing' /\ Kept
    BY <1>3, <1>t DEF Groups!TimePasses, Choosing, Groups!TypeOK, UnovertakenIsActive
  <1>4. ASSUME NEW r \in Joiner, Groups!BeginAdd(r) PROVE Choosing' /\ Kept
    <2>1. groupStatus = "active" /\ \E pc \in {"add", "expire"} : Groups!Begin(r, pc, r, "expired")
      BY <1>4 DEF Groups!BeginAdd
    <2>. QED BY <1>t, <2>1, Beginning
  <1>5. ASSUME NEW r \in Joiner, NEW i \in items, Groups!BeginRemove(r, i) PROVE Choosing' /\ Kept
    <2>1. groupStatus = "active" /\ Groups!Begin(r, "remove", i, "expired") /\ i \in Joiner
      BY <1>t, <1>5 DEF Groups!BeginRemove
    <2>. QED BY <1>t, <2>1, Beginning
  <1>6. ASSUME NEW r \in Joiner, NEW s \in Groups!Status, Groups!BeginUpdateStatus(r, s)
        PROVE Choosing' /\ Kept
    <2>1. Groups!Begin(r, "close", r, s) /\ UNCHANGED <<groupStatus, items>>
      BY <1>6 DEF Groups!BeginUpdateStatus, Groups!Begin
    <2>. QED BY <2>1, Beginning
  <1>7. ASSUME NEW r \in Joiner, Groups!AddItem(r) \/ Groups!RemoveItem(r) PROVE Choosing' /\ Kept
    <2>1. /\ joins[r].pc \in {"add", "remove"} /\ joins[r] \in Groups!Join
          /\ joins' = [joins EXCEPT ![r] = Groups!NotBegun] /\ UNCHANGED <<groupStatus, late>>
      BY <1>t, <1>7 DEF Groups!AddItem, Groups!RemoveItem
    <2>2. items' \subseteq Joiner
      BY <1>t, <1>7, <2>1 DEF Groups!AddItem, Groups!RemoveItem, Groups!Join
    <2>3. joins[r] # Groups!NotBegun /\ joins'[r] = Groups!NotBegun
      BY <1>t, <2>1 DEF Groups!NotBegun, Groups!TypeOK
    <2>4. Kept
      BY <1>t, <2>1, <2>3 DEF UnovertakenIsActive, Groups!OvertakenStep
    <2>. QED BY <2>1, <2>2, <2>4, Ending
  <1>8. ASSUME NEW r \in Joiner, Groups!MarkExpired(r) PROVE Choosing' /\ Kept
    <2>1. /\ joins[r].pc = "expire" /\ groupStatus' = "expired"
          /\ joins' = Groups!Overtake("expired", r, "gone") /\ UNCHANGED <<late, items>>
      BY <1>8 DEF Groups!MarkExpired
    <2>2. joins[r] # Groups!NotBegun /\ joins'[r] = Groups!NotBegun
      BY <1>t, <2>1, Overtaking DEF Groups!NotBegun
    <2>3. Kept
      BY <1>t, <2>1, <2>2 DEF UnovertakenIsActive, Groups!OvertakenStep
    <2>. QED BY <1>t, <2>1, <2>3, Changing
  <1>9. ASSUME NEW r \in Joiner, Groups!WriteStatus(r) PROVE Choosing' /\ Kept
    <2>1. /\ joins[r].pc = "close" /\ groupStatus' = joins[r].to /\ joins[r].to \in Groups!Status
          /\ joins' = Groups!Overtake(joins[r].to, r, "answer") /\ UNCHANGED <<late, items>>
      BY <1>t, <1>9 DEF Groups!WriteStatus, Groups!Join
    <2>2. joins'[r].pc = "answer"
      BY <1>t, <2>1, Overtaking
    <2>3. Kept
      BY <2>1, <2>2 DEF Groups!AdminStep
    <2>. QED BY <1>t, <2>1, <2>3, Changing
  <1>10. ASSUME NEW r \in Joiner, Groups!AnswerStatus(r) PROVE Choosing' /\ Kept
    BY <1>t, <1>10, Ending DEF Groups!AnswerStatus
  <1>. QED BY <1>1, <1>2, <1>3, <1>4, <1>5, <1>6, <1>7, <1>8, <1>9, <1>10 DEF Groups!Next

(***************************************************************************)
(* For any number of requests: a closed group order is changed only by     *)
(* requests that the closing overtook, or reopened by an administrator.    *)
(***************************************************************************)
THEOREM ClosedGroupKeptHolds == Spec => ClosedGroupKept
  BY ChoosingInit, ChoosingStep, PTL DEF Spec, Groups!Spec, ClosedGroupKept,
     Groups!ClosedGroupKept

-----------------------------------------------------------------------------
(* The replies to the reviews (ReviewConversation). *)

(* What is in a conversation that is being read was listed, or has come since. *)
ListedOrSince ==
  \A r \in Reader : readers[r] # Conversation!NotReading =>
    Conversation!In(readers[r].of) \subseteq readers[r].got \cup readers[r].since

(* The inductive invariant of the conversations. *)
Replying == Conversation!TypeOK /\ ListedOrSince

(* It holds initially. *)
LEMMA ReplyingInit == Conversation!Init => Replying
  BY DEF Conversation!Init, Replying, Conversation!TypeOK, ListedOrSince

(* A step that brings no reply into a conversation, and leaves the readers alone, keeps it. *)
LEMMA NothingComes ==
  ASSUME Replying, replies' \in [Reply -> Conversation!Written \cup {Conversation!NoReply}],
         \A m \in Reply : replies'[m].state # "none" =>
            replies[m].state # "none" /\ replies'[m].of = replies[m].of,
         \A r \in Reader : readers'[r] \in {readers[r], Conversation!NotReading},
         readers' \in [Reader -> Conversation!Reading \cup {Conversation!NotReading}]
  PROVE ListedOrSince'
  <1>1. \A v : Conversation!In(v)' \subseteq Conversation!In(v)
    BY DEF Conversation!In
  <1>. QED BY <1>1 DEF Replying, ListedOrSince

(* Marking replies takes none away and brings none. *)
LEMMA Marking ==
  ASSUME Conversation!TypeOK, NEW M, \A m \in M : m \in Reply => replies[m].state # "none",
         replies' = Conversation!Marked(M)
  PROVE /\ replies' \in [Reply -> Conversation!Written \cup {Conversation!NoReply}]
        /\ \A m \in Reply : replies'[m].state # "none" =>
             replies[m].state # "none" /\ replies'[m].of = replies[m].of
  <1>. DEFINE New(m) == IF m \in M THEN [replies[m] EXCEPT !.state = "read"] ELSE replies[m]
  <1>1. replies' = [m \in Reply |-> New(m)]
    BY DEF Conversation!Marked
  <1>2. ASSUME NEW m \in Reply
        PROVE /\ New(m) \in Conversation!Written \cup {Conversation!NoReply}
              /\ New(m).state # "none" => replies[m].state # "none" /\ New(m).of = replies[m].of
    <2>1. CASE m \in M
      <3>1. replies[m] \in Conversation!Written
        BY <2>1 DEF Conversation!TypeOK, Conversation!NoReply
      <3>. QED BY <2>1, <3>1 DEF Conversation!Written
    <2>2. CASE m \notin M
      BY <2>2 DEF Conversation!TypeOK
    <2>. QED BY <2>1, <2>2
  <1>. HIDE DEF New
  <1>. QED BY <1>1, <1>2

(* So does removing some. *)
LEMMA Removing ==
  ASSUME Conversation!TypeOK, replies' \in [Reply -> Conversation!Written \cup {Conversation!NoReply}],
         \A m \in Reply : replies'[m] \in {replies[m], Conversation!NoReply}
  PROVE \A m \in Reply : replies'[m].state # "none" =>
          replies[m].state # "none" /\ replies'[m].of = replies[m].of
  BY DEF Conversation!NoReply

(* Every step keeps it; and only what was listed is marked read. *)
LEMMA ReplyingStep ==
  ASSUME Replying, [Conversation!Next]_(Conversation!vars)
  PROVE /\ Replying'
        /\ [\A r \in Reader, m \in Reply :
              (/\ readers[r] # Conversation!NotReading /\ readers'[r] = Conversation!NotReading
               /\ replies[m].state = "unread" /\ replies'[m] # replies[m])
              => m \in readers[r].got \cup readers[r].since]_(Conversation!vars)
  <1>. DEFINE Listed ==
         \A r \in Reader, m \in Reply :
              (/\ readers[r] # Conversation!NotReading /\ readers'[r] = Conversation!NotReading
               /\ replies[m].state = "unread" /\ replies'[m] # replies[m])
              => m \in readers[r].got \cup readers[r].since
  <1>. USE IdAssumption
  <1>t. /\ Conversation!TypeOK /\ ListedOrSince
        /\ removed \subseteq Review /\ removers \subseteq Review
        /\ replies \in [Reply -> Conversation!Written \cup {Conversation!NoReply}]
        /\ writers \in [Reply -> Conversation!Draft \cup {Conversation!NoReply}]
        /\ readers \in [Reader -> Conversation!Reading \cup {Conversation!NotReading}]
    BY DEF Replying, Conversation!TypeOK
  <1>1. CASE UNCHANGED Conversation!vars
    <2>1. Conversation!TypeOK'
      BY <1>t, <1>1 DEF Conversation!vars, Conversation!TypeOK
    <2>2. ListedOrSince'
      BY <1>t, <1>1 DEF Conversation!vars, ListedOrSince, Conversation!In
    <2>. QED BY <1>1, <2>1, <2>2 DEF Replying
  <1>2. ASSUME NEW m \in Reply, NEW v \in Review, NEW from \in {"admin", "customer"},
               Conversation!BeginReply(m, v, from)
        PROVE Replying' /\ Listed
    <2>1. /\ writers' = [writers EXCEPT ![m] = [state |-> "draft", of |-> v, from |-> from]]
          /\ UNCHANGED <<removed, replies, readers, removers>>
      BY <1>2 DEF Conversation!BeginReply
    <2>2. Conversation!TypeOK'
      BY <1>t, <2>1 DEF Conversation!TypeOK, Conversation!Draft
    <2>3. ListedOrSince'
      BY <1>t, <2>1 DEF ListedOrSince, Conversation!In
    <2>. QED BY <2>1, <2>2, <2>3 DEF Replying
  <1>3. ASSUME NEW n \in Reply, Conversation!InsertReply(n) PROVE Replying' /\ Listed
    <2>1. /\ writers[n] # Conversation!NoReply /\ writers[n] \in Conversation!Draft
          /\ writers' = [writers EXCEPT ![n] = Conversation!NoReply] /\ UNCHANGED <<removed, removers>>
      BY <1>t, <1>3 DEF Conversation!InsertReply
    <2>2. writers' \in [Reply -> Conversation!Draft \cup {Conversation!NoReply}]
      BY <1>t, <2>1
    <2>3. CASE UNCHANGED <<replies, readers>>
      <3>1. Conversation!TypeOK'
        BY <1>t, <2>1, <2>2, <2>3 DEF Conversation!TypeOK
      <3>2. ListedOrSince'
        BY <1>t, <2>3 DEF ListedOrSince, Conversation!In
      <3>. QED BY <2>3, <3>1, <3>2 DEF Replying
    <2>4. CASE /\ replies' = [replies EXCEPT ![n] = [writers[n] EXCEPT !.state = "unread"]]
               /\ readers' = [r \in Reader |->
                       IF readers[r].of = writers[n].of
                       THEN [readers[r] EXCEPT !.since = @ \cup {n}] ELSE readers[r]]
      <3>. DEFINE reply == [writers[n] EXCEPT !.state = "unread"]
      <3>1. reply \in Conversation!Written /\ reply.of = writers[n].of /\ reply.of \in Review
        BY <2>1 DEF Conversation!Draft, Conversation!Written
      <3>2. /\ replies'[n] = reply /\ \A m \in Reply : m # n => replies'[m] = replies[m]
            /\ replies' \in [Reply -> Conversation!Written \cup {Conversation!NoReply}]
        BY <1>t, <2>4, <3>1
      <3>. HIDE DEF reply
      <3>3. ASSUME NEW r \in Reader, readers[r] = Conversation!NotReading
            PROVE readers'[r] = Conversation!NotReading
        BY <2>4, <3>1, <3>3 DEF Conversation!NotReading
      <3>4. ASSUME NEW r \in Reader, readers[r] # Conversation!NotReading
            PROVE /\ readers'[r] \in Conversation!Reading /\ readers'[r] # Conversation!NotReading
                  /\ readers'[r].of = readers[r].of /\ readers'[r].got = readers[r].got
                  /\ readers[r].since \subseteq readers'[r].since
                  /\ readers[r].of = reply.of => n \in readers'[r].since
        <4>1. readers[r] \in Conversation!Reading
          BY <1>t, <3>4
        <4>2. CASE readers[r].of = writers[n].of
          <5>1. readers'[r] = [readers[r] EXCEPT !.since = @ \cup {n}]
            BY <2>4, <4>2
          <5>2. readers'[r] \in Conversation!Reading /\ readers'[r].of = readers[r].of
                /\ readers'[r].got = readers[r].got /\ readers'[r].since = readers[r].since \cup {n}
            BY <4>1, <5>1 DEF Conversation!Reading
          <5>3. readers'[r] # Conversation!NotReading
            BY <5>2 DEF Conversation!Reading, Conversation!NotReading
          <5>. QED BY <5>2, <5>3
        <4>3. CASE readers[r].of # writers[n].of
          <5>1. readers'[r] = readers[r]
            BY <2>4, <4>3
          <5>. QED BY <3>1, <3>4, <4>1, <4>3, <5>1
        <4>. QED BY <4>2, <4>3
      <3>5. readers' \in [Reader -> Conversation!Reading \cup {Conversation!NotReading}]
        <4>1. readers' = [r \in Reader |-> readers'[r]]
          BY <2>4
        <4>. QED BY <3>3, <3>4, <4>1
      <3>6. Conversation!TypeOK'
        BY <1>t, <2>1, <2>2, <3>2, <3>5 DEF Conversation!TypeOK
      <3>7. ListedOrSince'
        <4>. SUFFICES ASSUME NEW r \in Reader, readers'[r] # Conversation!NotReading,
                             NEW m \in Reply, replies'[m].state # "none",
                             replies'[m].of = readers'[r].of
                      PROVE m \in readers'[r].got \cup readers'[r].since
          BY DEF ListedOrSince, Conversation!In
        <4>1. readers[r] # Conversation!NotReading
          BY <3>3
        <4>2. CASE m = n
          BY <3>2, <3>4, <4>1, <4>2
        <4>3. CASE m # n
          BY <1>t, <3>2, <3>4, <4>1, <4>3 DEF ListedOrSince, Conversation!In
        <4>. QED BY <4>2, <4>3
      <3>8. Listed
        BY <3>4
      <3>. QED BY <3>6, <3>7, <3>8 DEF Replying
    <2>. QED BY <1>3, <2>3, <2>4 DEF Conversation!InsertReply
  <1>4. ASSUME NEW r \in Reader, NEW v \in Review, Conversation!ListReplies(r, v)
        PROVE Replying' /\ Listed
    <2>. DEFINE reading == [of |-> v, got |-> Conversation!In(v), since |-> {}]
    <2>1. /\ readers[r] = Conversation!NotReading /\ readers' = [readers EXCEPT ![r] = reading]
          /\ UNCHANGED <<removed, replies, writers, removers>>
      BY <1>4 DEF Conversation!ListReplies
    <2>2. reading \in Conversation!Reading /\ reading.of = v /\ reading.got = Conversation!In(v)
          /\ reading # Conversation!NotReading
      BY DEF Conversation!Reading, Conversation!In, Conversation!NotReading
    <2>. HIDE DEF reading
    <2>3. Conversation!TypeOK'
      BY <1>t, <2>1, <2>2 DEF Conversation!TypeOK
    <2>4. ListedOrSince'
      <3>1. \A w : Conversation!In(w)' = Conversation!In(w)
        BY <2>1 DEF Conversation!In
      <3>. QED BY <1>t, <2>1, <2>2, <3>1 DEF ListedOrSince
    <2>. QED BY <2>1, <2>3, <2>4 DEF Replying
  <1>5. ASSUME NEW r \in Reader, Conversation!MarkListed(r) PROVE Replying' /\ Listed
    <2>1. /\ readers[r] # Conversation!NotReading
          /\ replies' = Conversation!Marked(Conversation!Unread(readers[r].of))
          /\ readers' = [readers EXCEPT ![r] = Conversation!NotReading]
          /\ UNCHANGED <<removed, writers, removers>>
      BY <1>5 DEF Conversation!MarkListed
    <2>2. /\ replies' \in [Reply -> Conversation!Written \cup {Conversation!NoReply}]
          /\ \A m \in Reply : replies'[m].state # "none" =>
               replies[m].state # "none" /\ replies'[m].of = replies[m].of
      BY <1>t, <2>1, Marking DEF Conversation!Unread
    <2>3. Conversation!TypeOK'
      BY <1>t, <2>1, <2>2 DEF Conversation!TypeOK
    <2>4. ListedOrSince'
      BY <1>t, <2>1, <2>2, NothingComes
    <2>5. Listed
      <3>. SUFFICES ASSUME NEW q \in Reader, NEW m \in Reply, readers[q] # Conversation!NotReading,
                           readers'[q] = Conversation!NotReading, replies'[m] # replies[m]
                    PROVE m \in readers[q].got \cup readers[q].since
        OBVIOUS
      <3>1. q = r
        BY <1>t, <2>1
      <3>2. m \in Conversation!In(readers[r].of)
        BY <2>1 DEF Conversation!Marked, Conversation!Unread
      <3>. QED BY <1>t, <2>1, <3>1, <3>2 DEF ListedOrSince
    <2>. QED BY <2>3, <2>4, <2>5 DEF Replying
  <1>6. ASSUME NEW v \in Review, NEW from \in {"admin", "customer"}, Conversation!MarkRead(v, from)
        PROVE Replying' /\ Listed
    <2>1. /\ replies' = Conversation!Marked({m \in Conversation!In(v) : replies[m].from = from})
          /\ UNCHANGED <<removed, writers, readers, removers>>
      BY <1>6 DEF Conversation!MarkRead
    <2>2. /\ replies' \in [Reply -> Conversation!Written \cup {Conversation!NoReply}]
          /\ \A m \in Reply : replies'[m].state # "none" =>
               replies[m].state # "none" /\ replies'[m].of = replies[m].of
      BY <1>t, <2>1, Marking DEF Conversation!In
    <2>3. Conversation!TypeOK'
      BY <1>t, <2>1, <2>2 DEF Conversation!TypeOK
    <2>4. ListedOrSince'
      BY <1>t, <2>1, <2>2, NothingComes
    <2>. QED BY <2>1, <2>3, <2>4 DEF Replying
  <1>7. ASSUME \/ \E m \in Reply : Conversation!DeleteReply(m)
               \/ \E v \in Review : \/ Conversation!RemoveReplies(v) \/ Conversation!RemoveReview(v)
                                    \/ Conversation!RemoverFails(v)
        PROVE Replying' /\ Listed
    <2>1. UNCHANGED <<writers, readers>>
      BY <1>7 DEF Conversation!DeleteReply, Conversation!RemoveReplies, Conversation!RemoveReview,
                  Conversation!RemoverFails
    <2>2. removed' \subseteq Review /\ removers' \subseteq Review
      BY <1>t, <1>7 DEF Conversation!DeleteReply, Conversation!RemoveReplies,
                        Conversation!RemoveReview, Conversation!RemoverFails
    <2>3. /\ replies' \in [Reply -> Conversation!Written \cup {Conversation!NoReply}]
          /\ \A m \in Reply : replies'[m] \in {replies[m], Conversation!NoReply}
      BY <1>t, <1>7 DEF Conversation!DeleteReply, Conversation!RemoveReplies,
                        Conversation!RemoveReview, Conversation!RemoverFails, Conversation!Without
    <2>4. Conversation!TypeOK'
      BY <1>t, <2>1, <2>2, <2>3 DEF Conversation!TypeOK
    <2>5. ListedOrSince'
      BY <1>t, <2>1, <2>3, Removing, NothingComes
    <2>. QED BY <2>1, <2>4, <2>5 DEF Replying
  <1>. QED BY <1>1, <1>2, <1>3, <1>4, <1>5, <1>6, <1>7 DEF Conversation!Next

(***************************************************************************)
(* For any reviews, replies and readers: reading a conversation marks only *)
(* what was listed, or what came into that conversation since.             *)
(***************************************************************************)
THEOREM ReadMeansListedHolds == Spec => ReadMeansListed
  BY ReplyingInit, ReplyingStep, PTL DEF Spec, Conversation!Spec, ReadMeansListed,
     Conversation!ReadMeansListed

-----------------------------------------------------------------------------
(* The administrator's tables (RowUpdates). *)

(* The values of the row, *)
RowSet == {Rows!Live(v) : v \in [Rows!Field -> Rows!Value]} \cup {Rows!NotYet, Rows!Gone}
(* of the inventory, *)
StockSet ==
  {Rows!Stock(v, s) : v \in [Rows!Field -> Rows!Value], s \in BOOLEAN} \cup {Rows!NotYet, Rows!Gone}
(* and of all. *)
Typed ==
  /\ table \in Table /\ row \in RowSet /\ stock \in StockSet /\ torn \in BOOLEAN
  /\ clerks \in [Clerk -> Rows!Clerking \cup {Rows!Rested}]
(* They are the type invariant. *)
LEMMA TypedIsTypeOK == Rows!TypeOK <=> Typed
  <1>1. Rows!TypeOK => table \in Table /\ row \in RowSet
    BY DEF Rows!TypeOK, RowSet
  <1>2. Rows!TypeOK => stock \in StockSet
    BY DEF Rows!TypeOK, StockSet
  <1>3. Rows!TypeOK => clerks \in [Clerk -> Rows!Clerking \cup {Rows!Rested}] /\ torn \in BOOLEAN
    BY DEF Rows!TypeOK
  <1>4. Typed => Rows!TypeOK
    BY DEF Typed, Rows!TypeOK, RowSet, StockSet
  <1>. QED BY <1>1, <1>2, <1>3, <1>4 DEF Typed

(* What a clerk has read and nobody has changed since is still there. *)
SeenIsRow ==
  \A c \in Clerk : clerks[c].pc = "write" /\ ~clerks[c].overtaken =>
    Rows!IsLive(row) /\ clerks[c].seen = row.v
(* That holds of the inventory, too. *)
SeenIsStock ==
  \A c \in Clerk : clerks[c].pc = "write stock" /\ ~clerks[c].overtaken =>
    Rows!IsLive(stock) /\ clerks[c].seen = stock.v
(* Only the menu has an inventory. *)
StockOfMenu == Rows!IsLive(stock) => table = "menu"

(* The inductive invariant of the tables. *)
Keeping == Typed /\ SeenIsRow /\ SeenIsStock /\ StockOfMenu /\ OrphanExplained

(* It holds initially. *)
LEMMA KeepingInit == Rows!Init => Keeping
  <1>. SUFFICES ASSUME Rows!Init PROVE Keeping
    OBVIOUS
  <1>1. Typed
    <2>1. row \in RowSet /\ stock \in StockSet
      BY DEF Rows!Init, RowSet, StockSet
    <2>2. clerks \in [Clerk -> Rows!Clerking \cup {Rows!Rested}]
      BY DEF Rows!Init
    <2>. QED BY <2>1, <2>2 DEF Rows!Init, Typed
  <1>2. ~Rows!IsLive(stock) /\ row # Rows!Gone /\ \A c \in Clerk : clerks[c].pc = "idle"
    BY DEF Rows!Init, Rows!IsLive, Rows!NotYet, Rows!Gone, Rows!Rested
  <1>. QED BY <1>1, <1>2 DEF Keeping, SeenIsRow, SeenIsStock, StockOfMenu, OrphanExplained,
              Rows!OrphanExplained

(* A request's fields over values are values. *)
LEMMA OverIsValue ==
  ASSUME NEW old \in [Rows!Field -> Rows!Value], NEW dto \in Rows!Dto
  PROVE /\ Rows!Over(old, dto) \in [Rows!Field -> Rows!Value]
        /\ \A f \in Rows!Field : f \notin DOMAIN dto => Rows!Over(old, dto)[f] = old[f]
  <1>1. PICK S \in {{}, {"a"}, {"b"}} : dto \in [S -> Rows!Value]
    BY DEF Rows!Dto
  <1>. QED BY <1>1 DEF Rows!Over, Rows!Field

(* A live row or stock has values. *)
LEMMA LiveIsValue ==
  ASSUME Typed
  PROVE /\ Rows!IsLive(row) => row.v \in [Rows!Field -> Rows!Value] /\ row = Rows!Live(row.v)
        /\ Rows!IsLive(stock) =>
             stock.v \in [Rows!Field -> Rows!Value] /\ stock = Rows!Stock(stock.v, stock.stray)
             /\ stock.stray \in BOOLEAN
  <1>0. /\ Rows!NotYet.is # "row" /\ Rows!Gone.is # "row"
        /\ \A v : Rows!Live(v).is = "row" /\ Rows!Live(v).v = v
        /\ \A v, s : Rows!Stock(v, s).is = "row" /\ Rows!Stock(v, s).v = v /\ Rows!Stock(v, s).stray = s
    BY DEF Rows!NotYet, Rows!Gone, Rows!Live, Rows!Stock
  <1>1. row \in RowSet /\ stock \in StockSet
    BY DEF Typed
  <1>2. ASSUME Rows!IsLive(row) PROVE \E v \in [Rows!Field -> Rows!Value] : row = Rows!Live(v)
    BY <1>0, <1>1, <1>2 DEF RowSet, Rows!IsLive
  <1>3. ASSUME Rows!IsLive(stock)
        PROVE \E v \in [Rows!Field -> Rows!Value], s \in BOOLEAN : stock = Rows!Stock(v, s)
    BY <1>0, <1>1, <1>3 DEF StockSet, Rows!IsLive
  <1>. QED BY <1>0, <1>2, <1>3

(* A clerk that is not idle is at work. *)
LEMMA AtWork ==
  ASSUME Typed, NEW d \in Clerk
  PROVE /\ Rows!Rested.pc = "idle"
        /\ clerks[d] \in Rows!Clerking \/ clerks[d] = Rows!Rested
  BY DEF Typed, Rows!Rested

(* What Go does to the clerk c and to the others. *)
LEMMA Going ==
  ASSUME Typed, NEW c \in Clerk, clerks[c].pc # "idle",
         NEW pc \in {"idle", "answer", "delete stock"}, NEW changed \in BOOLEAN,
         Rows!Go(c, pc, changed)
  PROVE /\ clerks' \in [Clerk -> Rows!Clerking \cup {Rows!Rested}]
        /\ clerks'[c].pc = pc
        /\ \A d \in Clerk : d # c =>
             /\ clerks'[d].pc = clerks[d].pc
             /\ clerks[d].pc # "idle" =>
                  /\ clerks'[d].seen = clerks[d].seen
                  /\ changed => clerks'[d].overtaken
                  /\ ~changed => clerks'[d].overtaken = clerks[d].overtaken
  <1>. DEFINE New(d) == IF d = c THEN IF pc = "idle" THEN Rows!Rested
                                      ELSE [clerks[c] EXCEPT !.pc = pc]
                        ELSE IF changed /\ clerks[d] # Rows!Rested
                             THEN [clerks[d] EXCEPT !.overtaken = TRUE]
                        ELSE clerks[d]
  <1>1. clerks' = [d \in Clerk |-> New(d)]
    BY DEF Rows!Go
  <1>0. clerks \in [Clerk -> Rows!Clerking \cup {Rows!Rested}]
    BY DEF Typed
  <1>2. ASSUME NEW d \in Clerk, clerks[d].pc # "idle" PROVE clerks[d] \in Rows!Clerking
    BY <1>2, AtWork
  <1>3. New(c) \in Rows!Clerking \cup {Rows!Rested} /\ New(c).pc = pc
    <2>1. CASE pc = "idle"
      BY <2>1 DEF Rows!Rested
    <2>2. CASE pc # "idle"
      <3>1. clerks[c] \in Rows!Clerking /\ New(c) = [clerks[c] EXCEPT !.pc = pc]
        BY <1>2, <2>2
      <3>. HIDE DEF New
      <3>. QED BY <2>2, <3>1 DEF Rows!Clerking
    <2>. QED BY <2>1, <2>2
  <1>4. ASSUME NEW d \in Clerk, d # c
        PROVE /\ New(d) \in Rows!Clerking \cup {Rows!Rested}
              /\ New(d).pc = clerks[d].pc
              /\ clerks[d].pc # "idle" =>
                  /\ New(d).seen = clerks[d].seen
                  /\ changed => New(d).overtaken
                  /\ ~changed => New(d).overtaken = clerks[d].overtaken
    <2>1. CASE clerks[d] = Rows!Rested
      <3>1. New(d) = clerks[d]
        BY <1>4, <2>1
      <3>2. clerks[d].pc = "idle"
        BY <2>1, AtWork
      <3>. QED BY <2>1, <3>1, <3>2
    <2>2. CASE clerks[d] # Rows!Rested /\ changed
      <3>1. clerks[d] \in Rows!Clerking /\ New(d) = [clerks[d] EXCEPT !.overtaken = TRUE]
        BY <1>0, <1>4, <2>2
      <3>. HIDE DEF New
      <3>. QED BY <2>2, <3>1 DEF Rows!Clerking
    <2>3. CASE clerks[d] # Rows!Rested /\ ~changed
      <3>1. clerks[d] \in Rows!Clerking /\ New(d) = clerks[d]
        BY <1>0, <1>4, <2>3
      <3>. QED BY <2>3, <3>1
    <2>. QED BY <2>1, <2>2, <2>3
  <1>. HIDE DEF New
  <1>5. \A d \in Clerk : clerks'[d] = New(d)
    BY <1>1
  <1>6. clerks' \in [Clerk -> Rows!Clerking \cup {Rows!Rested}]
    BY <1>1, <1>3, <1>4
  <1>. QED BY <1>3, <1>4, <1>5, <1>6

(* A clerk that goes on, having changed the row or the stock or neither, keeps the clerks right. *)
LEMMA GoneOn ==
  ASSUME Keeping, NEW c \in Clerk, clerks[c].pc # "idle",
         NEW pc \in {"idle", "answer", "delete stock"}, NEW changed \in BOOLEAN,
         Rows!Go(c, pc, changed),
         row' # row \/ stock' # stock => changed,
         table' = table,
         row' \in RowSet, stock' \in StockSet, torn' \in BOOLEAN
  PROVE /\ Typed' /\ SeenIsRow' /\ SeenIsStock'
        /\ clerks'[c].pc = pc /\ \A d \in Clerk : d # c => clerks'[d].pc = clerks[d].pc
  <1>t. Typed /\ SeenIsRow /\ SeenIsStock
    BY DEF Keeping
  <1>1. /\ clerks' \in [Clerk -> Rows!Clerking \cup {Rows!Rested}]
        /\ clerks'[c].pc = pc
        /\ \A d \in Clerk : d # c =>
             /\ clerks'[d].pc = clerks[d].pc
             /\ clerks[d].pc # "idle" =>
                  /\ clerks'[d].seen = clerks[d].seen
                  /\ changed => clerks'[d].overtaken
                  /\ ~changed => clerks'[d].overtaken = clerks[d].overtaken
    BY <1>t, Going
  <1>2. Typed'
    BY <1>t, <1>1 DEF Typed
  <1>3. ~changed => row' = row /\ stock' = stock
    OBVIOUS
  <1>4. SeenIsRow'
    <2>. SUFFICES ASSUME NEW d \in Clerk, clerks'[d].pc = "write", ~clerks'[d].overtaken
                  PROVE Rows!IsLive(row') /\ clerks'[d].seen = row'.v
      BY DEF SeenIsRow, Rows!IsLive
    <2>1. d # c /\ clerks[d].pc = "write" /\ ~changed /\ clerks'[d].seen = clerks[d].seen
          /\ ~clerks[d].overtaken
      BY <1>1
    <2>. QED BY <1>t, <1>3, <2>1 DEF SeenIsRow
  <1>5. SeenIsStock'
    <2>. SUFFICES ASSUME NEW d \in Clerk, clerks'[d].pc = "write stock", ~clerks'[d].overtaken
                  PROVE Rows!IsLive(stock') /\ clerks'[d].seen = stock'.v
      BY DEF SeenIsStock, Rows!IsLive
    <2>1. d # c /\ clerks[d].pc = "write stock" /\ ~changed /\ clerks'[d].seen = clerks[d].seen
          /\ ~clerks[d].overtaken
      BY <1>1
    <2>. QED BY <1>t, <1>3, <2>1 DEF SeenIsStock
  <1>. QED BY <1>1, <1>2, <1>4, <1>5

(* The fields of a live row change only in the way that they may. *)
RowKept ==
  \A f \in Rows!Undone(row, row') : \E c \in Clerk :
    /\ Rows!Writes(c, "write")
    /\ f \in DOMAIN clerks[c].dto \/ (table \notin Rows!Patched /\ clerks[c].overtaken)
(* The same of the inventory. *)
StockKept ==
  \A f \in Rows!Undone(stock, stock') : \E c \in Clerk :
    Rows!Writes(c, "write stock") /\ (f \in DOMAIN clerks[c].dto \/ clerks[c].overtaken)

(* They do not change if the row stays as it is, or is not live before and after. *)
LEMMA NothingUndone ==
  ASSUME NEW old, NEW new, old = new \/ ~Rows!IsLive(old) \/ ~Rows!IsLive(new)
  PROVE Rows!Undone(old, new) = {}
  BY DEF Rows!Undone

(* A creation. *)
LEMMA CreateStep ==
  ASSUME Keeping, NEW t, NEW v \in [Rows!Field -> Rows!Value], Rows!Create(t, v)
  PROVE Keeping' /\ RowKept /\ StockKept
  <1>1. /\ row = Rows!NotYet /\ row' = Rows!Live(v) /\ UNCHANGED <<table, stock, clerks, torn>>
    BY DEF Rows!Create
  <1>2. /\ ~Rows!IsLive(row) /\ row' # Rows!Gone /\ row' \in RowSet
    BY <1>1 DEF Rows!IsLive, Rows!NotYet, Rows!Live, Rows!Gone, RowSet
  <1>3. Typed'
    BY <1>1, <1>2 DEF Keeping, Typed
  <1>4. SeenIsRow' /\ SeenIsStock' /\ StockOfMenu'
    BY <1>1, <1>2 DEF Keeping, SeenIsRow, SeenIsStock, StockOfMenu, Rows!IsLive
  <1>5. OrphanExplained'
    BY <1>2 DEF OrphanExplained, Rows!OrphanExplained
  <1>6. RowKept /\ StockKept
    BY <1>1, <1>2, NothingUndone DEF RowKept, StockKept
  <1>. QED BY <1>3, <1>4, <1>5, <1>6 DEF Keeping

(* A row of inventory has a shape. *)
LEMMA StockShape ==
  ASSUME NEW v \in [Rows!Field -> Rows!Value], NEW s \in BOOLEAN
  PROVE /\ Rows!Stock(v, s) \in StockSet
        /\ Rows!IsLive(Rows!Stock(v, s)) /\ Rows!Stock(v, s).v = v
        /\ Rows!Stock(v, s).stray = s
  <1>1. Rows!Stock(v, s) \in StockSet
    BY DEF StockSet
  <1>2. Rows!IsLive(Rows!Stock(v, s)) /\ Rows!Stock(v, s).v = v /\ Rows!Stock(v, s).stray = s
    BY DEF Rows!IsLive, Rows!Stock
  <1>. QED BY <1>1, <1>2

(* The creation of an inventory. *)
LEMMA CreateStockStep ==
  ASSUME Keeping, NEW dto \in Rows!Dto, Rows!CreateStock(dto)
  PROVE Keeping' /\ RowKept /\ StockKept
  <1>. DEFINE v == Rows!Over(Rows!Default, dto)
              stray == ~Rows!IsLive(row)
  <1>1. /\ table = "menu" /\ ~Rows!IsLive(stock) /\ UNCHANGED <<table, row, clerks, torn>>
        /\ stock' = Rows!Stock(v, stray)
    BY DEF Rows!CreateStock
  <1>2. v \in [Rows!Field -> Rows!Value] /\ stray \in BOOLEAN
    BY OverIsValue DEF Rows!Default, Rows!Value, Rows!IsLive
  <1>3. stock' \in StockSet /\ (stray => stock'.stray)
    BY <1>1, <1>2, StockShape
  <1>4. Typed'
    BY <1>1, <1>3 DEF Keeping, Typed
  <1>5. SeenIsRow' /\ SeenIsStock' /\ StockOfMenu'
    BY <1>1 DEF Keeping, SeenIsRow, SeenIsStock, StockOfMenu, Rows!IsLive
  <1>6. OrphanExplained'
    <2>1. row = Rows!Gone => stray
      BY DEF Rows!IsLive, Rows!Gone
    <2>. HIDE DEF stray
    <2>. QED BY <1>1, <1>3, <2>1 DEF OrphanExplained, Rows!OrphanExplained
  <1>7. RowKept /\ StockKept
    BY <1>1, NothingUndone DEF RowKept, StockKept
  <1>. QED BY <1>4, <1>5, <1>6, <1>7 DEF Keeping

(* A clerk begins by reading. *)
LEMMA BeginStep ==
  ASSUME Keeping, NEW c \in Clerk, NEW dto \in Rows!Dto, NEW pc, NEW r,
         Rows!Begin(c, pc, r, dto),
         \/ pc = "write" /\ r = row
         \/ pc = "delete" /\ r = row
         \/ pc = "write stock" /\ r = stock
         \/ pc = "delete stock" /\ r = stock
  PROVE Keeping' /\ RowKept /\ StockKept
  <1>. DEFINE next == [pc |-> pc, dto |-> dto, seen |-> r.v, overtaken |-> FALSE]
  <1>t. Typed /\ clerks \in [Clerk -> Rows!Clerking \cup {Rows!Rested}]
    BY DEF Keeping, Typed
  <1>1. /\ clerks' = [clerks EXCEPT ![c] = next] /\ clerks[c] = Rows!Rested /\ Rows!IsLive(r)
        /\ UNCHANGED <<table, row, stock, torn>>
    BY DEF Rows!Begin
  <1>2. r.v \in [Rows!Field -> Rows!Value]
    BY <1>t, <1>1, LiveIsValue
  <1>3. next \in Rows!Clerking /\ next.pc = pc /\ next.seen = r.v
    BY <1>2 DEF Rows!Clerking
  <1>. HIDE DEF next
  <1>4. /\ clerks' \in [Clerk -> Rows!Clerking \cup {Rows!Rested}]
        /\ clerks'[c] = next /\ \A d \in Clerk : d # c => clerks'[d] = clerks[d]
    BY <1>t, <1>1, <1>3
  <1>5. Typed'
    BY <1>t, <1>1, <1>4 DEF Typed
  <1>6. SeenIsRow'
    BY <1>1, <1>3, <1>4 DEF Keeping, SeenIsRow, Rows!IsLive
  <1>7. SeenIsStock'
    BY <1>1, <1>3, <1>4 DEF Keeping, SeenIsStock, Rows!IsLive
  <1>8. StockOfMenu'
    BY <1>1 DEF Keeping, StockOfMenu, Rows!IsLive
  <1>9. OrphanExplained'
    <2>1. \A d \in Clerk : clerks[d].pc = "delete stock" => clerks'[d].pc = "delete stock"
      BY <1>t, <1>1, <1>4, AtWork
    <2>. QED BY <1>1, <2>1 DEF Keeping, OrphanExplained, Rows!OrphanExplained, Rows!IsLive
  <1>10. RowKept /\ StockKept
    BY <1>1, NothingUndone DEF RowKept, StockKept
  <1>. QED BY <1>5, <1>6, <1>7, <1>8, <1>9, <1>10 DEF Keeping

(* A clerk writes or removes the row: changed says whether it changes. *)
LEMMA WriteStep ==
  ASSUME Keeping, NEW c \in Clerk, NEW t, NEW v \in [Rows!Field -> Rows!Value],
         Rows!Write(c, t, v),
         \A f \in Rows!Field : Rows!IsLive(row) /\ f \notin DOMAIN clerks[c].dto =>
            v[f] = row.v[f] \/ (t \notin Rows!Patched /\ v[f] = clerks[c].seen[f])
  PROVE Keeping' /\ RowKept /\ StockKept
  <1>t. Typed /\ row \in RowSet /\ stock \in StockSet /\ torn \in BOOLEAN
    BY DEF Keeping, Typed
  <1>1. /\ table = t /\ clerks[c].pc = "write" /\ UNCHANGED <<table, stock, torn>>
        /\ row' = IF Rows!IsLive(row) THEN Rows!Live(v) ELSE row
        /\ Rows!Go(c, IF Rows!IsLive(row) THEN "answer" ELSE "idle", row' # row)
    BY DEF Rows!Write
  <1>2. row' \in RowSet
    BY <1>t, <1>1 DEF RowSet
  <1>3. PICK pc \in {"idle", "answer"} : Rows!Go(c, pc, row' # row)
    BY <1>1
  <1>4. /\ Typed' /\ SeenIsRow' /\ SeenIsStock'
        /\ clerks'[c].pc = pc /\ \A d \in Clerk : d # c => clerks'[d].pc = clerks[d].pc
    <2>. DEFINE changed == row' # row
    <2>1. changed \in BOOLEAN /\ Rows!Go(c, pc, changed) /\ (row' # row \/ stock' # stock => changed)
      BY <1>1, <1>3
    <2>. HIDE DEF changed
    <2>. QED BY <1>t, <1>1, <1>2, <2>1, GoneOn
  <1>5. StockOfMenu'
    BY <1>1 DEF Keeping, StockOfMenu, Rows!IsLive
  <1>6. OrphanExplained'
    <2>1. \A d \in Clerk : clerks[d].pc = "delete stock" => clerks'[d].pc = "delete stock"
      BY <1>1, <1>4
    <2>2. row' = Rows!Gone => row = Rows!Gone
      BY <1>1 DEF Rows!Live, Rows!Gone
    <2>. QED BY <1>1, <2>1, <2>2 DEF Keeping, OrphanExplained, Rows!OrphanExplained, Rows!IsLive
  <1>7. RowKept
    <2>. SUFFICES ASSUME Rows!IsLive(row), NEW f \in Rows!Field, row'.v[f] # row.v[f]
                  PROVE /\ Rows!Writes(c, "write")
                        /\ \/ f \in DOMAIN clerks[c].dto
                           \/ table \notin Rows!Patched /\ clerks[c].overtaken
      BY DEF RowKept, Rows!Undone
    <2>1. row'.v = v
      BY <1>1 DEF Rows!Live
    <2>2. f \notin DOMAIN clerks[c].dto => table \notin Rows!Patched /\ clerks[c].overtaken
      BY <1>1, <2>1 DEF Keeping, SeenIsRow
    <2>3. clerks'[c] # clerks[c]
      BY <1>1, <1>4
    <2>. QED BY <1>1, <2>2, <2>3 DEF Rows!Writes
  <1>8. StockKept
    BY <1>1, NothingUndone DEF StockKept
  <1>. QED BY <1>4, <1>5, <1>6, <1>7, <1>8 DEF Keeping

(* The patches and the merges are such writes. *)
LEMMA UpdateStep ==
  ASSUME Keeping, NEW c \in Clerk,
         \/ Rows!UpdateMenuItem(c) \/ Rows!UpdatePromotion(c) \/ Rows!UpdateReservation(c)
         \/ Rows!UpdateLegacyOrder(c) \/ Rows!UpdateReview(c)
  PROVE Keeping' /\ RowKept /\ StockKept
  <1>1. Typed /\ clerks[c].pc = "write"
    BY DEF Keeping, Rows!UpdateMenuItem, Rows!UpdatePromotion, Rows!UpdateReservation,
           Rows!UpdateLegacyOrder, Rows!UpdateReview, Rows!Write
  <1>2. /\ clerks[c] \in Rows!Clerking /\ clerks[c].dto \in Rows!Dto
        /\ clerks[c].seen \in [Rows!Field -> Rows!Value]
    BY <1>1, AtWork DEF Rows!Clerking
  <1>3. CASE Rows!UpdateMenuItem(c) \/ Rows!UpdatePromotion(c)
    <2>1. PICK t : Rows!Write(c, t, Rows!Patch(c))
      BY <1>3 DEF Rows!UpdateMenuItem, Rows!UpdatePromotion
    <2>2. CASE Rows!IsLive(row)
      <3>1. /\ Rows!Patch(c) \in [Rows!Field -> Rows!Value]
            /\ \A f \in Rows!Field : f \notin DOMAIN clerks[c].dto => Rows!Patch(c)[f] = row.v[f]
        BY <1>1, <1>2, <2>2, LiveIsValue, OverIsValue DEF Rows!Patch
      <3>. QED BY <2>1, <3>1, WriteStep
    <2>3. CASE ~Rows!IsLive(row)
      <3>1. Rows!Write(c, t, clerks[c].seen)
        BY <2>1, <2>3 DEF Rows!Write
      <3>. QED BY <1>2, <2>3, <3>1, WriteStep
    <2>. QED BY <2>2, <2>3
  <1>4. CASE Rows!UpdateReservation(c) \/ Rows!UpdateLegacyOrder(c) \/ Rows!UpdateReview(c)
    <2>1. PICK t \in {"reservations", "legacyOrders", "reviews"} : Rows!Write(c, t, Rows!Merge(c))
      BY <1>4 DEF Rows!UpdateReservation, Rows!UpdateLegacyOrder, Rows!UpdateReview
    <2>2. /\ Rows!Merge(c) \in [Rows!Field -> Rows!Value]
          /\ \A f \in Rows!Field : f \notin DOMAIN clerks[c].dto => Rows!Merge(c)[f] = clerks[c].seen[f]
      BY <1>2, OverIsValue DEF Rows!Merge
    <2>3. t \notin Rows!Patched
      BY DEF Rows!Patched
    <2>. QED BY <2>1, <2>2, <2>3, WriteStep
  <1>. QED BY <1>3, <1>4

(* The answer, which reads the row again. *)
LEMMA AnswerStep ==
  ASSUME Keeping, NEW c \in Clerk, Rows!AnswerUpdate(c)
  PROVE Keeping' /\ RowKept /\ StockKept
  <1>t. Typed /\ row \in RowSet /\ stock \in StockSet /\ torn \in BOOLEAN
    BY DEF Keeping, Typed
  <1>1. /\ clerks[c].pc = "answer" /\ Rows!Go(c, "idle", FALSE)
        /\ UNCHANGED <<table, row, stock, torn>>
    BY DEF Rows!AnswerUpdate
  <1>2. /\ Typed' /\ SeenIsRow' /\ SeenIsStock'
        /\ \A d \in Clerk : d # c => clerks'[d].pc = clerks[d].pc
    BY <1>t, <1>1, GoneOn
  <1>3. StockOfMenu' /\ OrphanExplained'
    BY <1>1, <1>2 DEF Keeping, StockOfMenu, OrphanExplained, Rows!OrphanExplained, Rows!IsLive
  <1>4. RowKept /\ StockKept
    BY <1>1, NothingUndone DEF RowKept, StockKept
  <1>. QED BY <1>2, <1>3, <1>4 DEF Keeping

(* A removal; that of a menu item goes on to its inventory. *)
LEMMA DeleteStep ==
  ASSUME Keeping, NEW c \in Clerk,
         \/ Rows!DeleteMenuItem(c) \/ Rows!DeletePromotion(c) \/ Rows!DeleteReservation(c)
         \/ Rows!DeleteLegacyOrder(c) \/ Rows!DeleteReview(c)
  PROVE Keeping' /\ RowKept /\ StockKept
  <1>t. Typed /\ row \in RowSet /\ stock \in StockSet /\ torn \in BOOLEAN
    BY DEF Keeping, Typed
  <1>. DEFINE changed == row # Rows!Gone
  <1>1. /\ clerks[c].pc = "delete" /\ row' = Rows!Gone /\ UNCHANGED <<table, stock, torn>>
        /\ \/ table = "menu" /\ Rows!Go(c, "delete stock", changed)
           \/ table # "menu" /\ Rows!Go(c, "idle", changed)
    BY DEF Rows!DeleteMenuItem, Rows!DeletePromotion, Rows!DeleteReservation,
           Rows!DeleteLegacyOrder, Rows!DeleteReview, Rows!Delete
  <1>2. /\ changed \in BOOLEAN /\ (row' # row \/ stock' # stock => changed)
        /\ row' \in RowSet /\ ~Rows!IsLive(row')
    <2>1. ~Rows!IsLive(Rows!Gone) /\ Rows!Gone \in RowSet
      BY DEF RowSet, Rows!IsLive, Rows!Gone
    <2>2. row' # row \/ stock' # stock => changed
      BY <1>1
    <2>. QED BY <1>1, <2>1, <2>2
  <1>. HIDE DEF changed
  <1>3. PICK pc \in {"idle", "delete stock"} :
          Rows!Go(c, pc, changed) /\ (table = "menu" => pc = "delete stock")
    BY <1>1
  <1>4. /\ Typed' /\ SeenIsRow' /\ SeenIsStock'
        /\ clerks'[c].pc = pc /\ \A d \in Clerk : d # c => clerks'[d].pc = clerks[d].pc
    BY <1>t, <1>1, <1>2, <1>3, GoneOn
  <1>5. StockOfMenu'
    BY <1>1 DEF Keeping, StockOfMenu, Rows!IsLive
  <1>6. OrphanExplained'
    <2>1. Rows!IsLive(stock) => clerks'[c].pc = "delete stock"
      BY <1>3, <1>4 DEF Keeping, StockOfMenu
    <2>. QED BY <1>1, <2>1 DEF OrphanExplained, Rows!OrphanExplained, Rows!IsLive
  <1>7. RowKept /\ StockKept
    BY <1>1, <1>2, NothingUndone DEF RowKept, StockKept
  <1>. QED BY <1>4, <1>5, <1>6, <1>7 DEF Keeping

(* The inventory's own update, a merge. *)
LEMMA UpdateStockStep ==
  ASSUME Keeping, NEW c \in Clerk, Rows!UpdateStock(c)
  PROVE Keeping' /\ RowKept /\ StockKept
  <1>. DEFINE changed == stock' # stock
  <1>t. Typed /\ row \in RowSet /\ stock \in StockSet /\ torn \in BOOLEAN
    BY DEF Keeping, Typed
  <1>1. /\ clerks[c].pc = "write stock" /\ Rows!Go(c, "idle", changed) /\ UNCHANGED <<table, row, torn>>
        /\ stock' = IF Rows!IsLive(stock) THEN Rows!Stock(Rows!Merge(c), stock.stray) ELSE stock
    BY DEF Rows!UpdateStock
  <1>2. /\ clerks[c] \in Rows!Clerking /\ clerks[c].dto \in Rows!Dto
        /\ clerks[c].seen \in [Rows!Field -> Rows!Value]
    BY <1>t, <1>1, AtWork DEF Rows!Clerking
  <1>3. /\ Rows!Merge(c) \in [Rows!Field -> Rows!Value]
        /\ \A f \in Rows!Field : f \notin DOMAIN clerks[c].dto => Rows!Merge(c)[f] = clerks[c].seen[f]
    BY <1>2, OverIsValue DEF Rows!Merge
  <1>4. /\ stock' \in StockSet /\ (Rows!IsLive(stock') <=> Rows!IsLive(stock))
        /\ Rows!IsLive(stock) => stock'.v = Rows!Merge(c) /\ stock'.stray = stock.stray
    BY <1>t, <1>1, <1>3, LiveIsValue, StockShape
  <1>5. changed \in BOOLEAN /\ (row' # row \/ stock' # stock => changed)
    BY <1>1
  <1>. HIDE DEF changed
  <1>6. /\ Typed' /\ SeenIsRow' /\ SeenIsStock'
        /\ clerks'[c].pc = "idle" /\ \A d \in Clerk : d # c => clerks'[d].pc = clerks[d].pc
    BY <1>t, <1>1, <1>4, <1>5, GoneOn
  <1>7. StockOfMenu'
    BY <1>1, <1>4 DEF Keeping, StockOfMenu, Rows!IsLive
  <1>8. OrphanExplained'
    <2>1. \A d \in Clerk : clerks[d].pc = "delete stock" => clerks'[d].pc = "delete stock"
      BY <1>1, <1>6
    <2>. QED BY <1>1, <1>4, <2>1 DEF Keeping, OrphanExplained, Rows!OrphanExplained, Rows!IsLive
  <1>9. StockKept
    <2>. SUFFICES ASSUME Rows!IsLive(stock), NEW f \in Rows!Field, stock'.v[f] # stock.v[f]
                  PROVE /\ Rows!Writes(c, "write stock")
                        /\ f \in DOMAIN clerks[c].dto \/ clerks[c].overtaken
      BY DEF StockKept, Rows!Undone
    <2>1. f \notin DOMAIN clerks[c].dto => clerks[c].overtaken
      BY <1>1, <1>3, <1>4 DEF Keeping, SeenIsStock
    <2>2. clerks'[c] # clerks[c]
      BY <1>1, <1>6
    <2>. QED BY <1>1, <2>1, <2>2 DEF Rows!Writes
  <1>10. RowKept
    BY <1>1, NothingUndone DEF RowKept
  <1>. QED BY <1>6, <1>7, <1>8, <1>9, <1>10 DEF Keeping

(* The removal of an inventory. *)
LEMMA DeleteStockStep ==
  ASSUME Keeping, NEW c \in Clerk, Rows!DeleteStock(c)
  PROVE Keeping' /\ RowKept /\ StockKept
  <1>. DEFINE changed == stock' # stock
  <1>t. Typed /\ row \in RowSet /\ stock \in StockSet /\ torn \in BOOLEAN
    BY DEF Keeping, Typed
  <1>1. /\ clerks[c].pc = "delete stock" /\ Rows!Go(c, "idle", changed) /\ UNCHANGED <<table, row, torn>>
        /\ stock' = IF Rows!IsLive(stock) THEN Rows!Gone ELSE stock
    BY DEF Rows!DeleteStock
  <1>2. ~Rows!IsLive(stock') /\ stock' \in StockSet
    <2>1. ~Rows!IsLive(Rows!Gone) /\ Rows!Gone \in StockSet
      BY DEF StockSet, Rows!IsLive, Rows!Gone
    <2>. QED BY <1>t, <1>1, <2>1
  <1>3. changed \in BOOLEAN /\ (row' # row \/ stock' # stock => changed)
    BY <1>1
  <1>. HIDE DEF changed
  <1>4. Typed' /\ SeenIsRow' /\ SeenIsStock'
    BY <1>t, <1>1, <1>2, <1>3, GoneOn
  <1>5. StockOfMenu' /\ OrphanExplained'
    BY <1>2 DEF StockOfMenu, OrphanExplained, Rows!OrphanExplained, Rows!IsLive
  <1>6. RowKept /\ StockKept
    BY <1>1, <1>2, NothingUndone DEF RowKept, StockKept
  <1>. QED BY <1>4, <1>5, <1>6 DEF Keeping

(* A clerk stops: if it was about to remove the inventory, that is torn from the menu. *)
LEMMA StopStep ==
  ASSUME Keeping, NEW c \in Clerk, Rows!Stop(c)
  PROVE Keeping' /\ RowKept /\ StockKept
  <1>t. Typed /\ row \in RowSet /\ stock \in StockSet /\ torn \in BOOLEAN
    BY DEF Keeping, Typed
  <1>1. /\ clerks[c] # Rows!Rested /\ Rows!Go(c, "idle", FALSE) /\ UNCHANGED <<table, row, stock>>
        /\ torn' = (torn \/ (table = "menu" /\ clerks[c].pc = "delete stock" /\ ~Rows!IsLive(row)))
    BY DEF Rows!Stop
  <1>2. clerks[c].pc # "idle"
    <2>1. clerks[c] \in Rows!Clerking
      BY <1>t, <1>1, AtWork
    <2>. QED BY <2>1 DEF Rows!Clerking
  <1>3. torn' \in BOOLEAN /\ (torn => torn')
        /\ (table = "menu" /\ clerks[c].pc = "delete stock" /\ ~Rows!IsLive(row) => torn')
    BY <1>t, <1>1
  <1>4. /\ Typed' /\ SeenIsRow' /\ SeenIsStock'
        /\ \A d \in Clerk : d # c => clerks'[d].pc = clerks[d].pc
    BY <1>t, <1>1, <1>2, <1>3, GoneOn
  <1>5. StockOfMenu'
    BY <1>1 DEF Keeping, StockOfMenu, Rows!IsLive
  <1>6. OrphanExplained'
    <2>. SUFFICES ASSUME row = Rows!Gone, Rows!IsLive(stock)
                  PROVE stock.stray \/ torn' \/ \E d \in Clerk : clerks'[d].pc = "delete stock"
      BY <1>1 DEF OrphanExplained, Rows!OrphanExplained, Rows!IsLive
    <2>1. table = "menu" /\ ~Rows!IsLive(row)
      BY DEF Keeping, StockOfMenu, Rows!IsLive, Rows!Gone
    <2>2. stock.stray \/ torn \/ \E d \in Clerk : clerks[d].pc = "delete stock"
      BY DEF Keeping, OrphanExplained, Rows!OrphanExplained
    <2>. QED BY <1>3, <1>4, <2>1, <2>2
  <1>7. RowKept /\ StockKept
    BY <1>1, NothingUndone DEF RowKept, StockKept
  <1>. QED BY <1>4, <1>5, <1>6, <1>7 DEF Keeping

(* Every step keeps the invariant, and the fields that it does not name. *)
LEMMA KeepingStep ==
  ASSUME Keeping, [Rows!Next]_(Rows!vars)
  PROVE /\ Keeping'
        /\ [/\ \A f \in Rows!Undone(row, row') : \E c \in Clerk :
                 /\ Rows!Writes(c, "write")
                 /\ f \in DOMAIN clerks[c].dto \/ (table \notin Rows!Patched /\ clerks[c].overtaken)
            /\ \A f \in Rows!Undone(stock, stock') : \E c \in Clerk :
                 Rows!Writes(c, "write stock")
                 /\ (f \in DOMAIN clerks[c].dto \/ clerks[c].overtaken)]_(Rows!vars)
  <1>1. CASE UNCHANGED Rows!vars
    <2>1. Typed' /\ SeenIsRow' /\ SeenIsStock' /\ StockOfMenu'
      BY <1>1 DEF Keeping, Rows!vars, Typed, SeenIsRow, SeenIsStock, StockOfMenu, Rows!IsLive
    <2>2. OrphanExplained'
      BY <1>1 DEF Keeping, Rows!vars, OrphanExplained, Rows!OrphanExplained, Rows!IsLive
    <2>. QED BY <1>1, <2>1, <2>2 DEF Keeping
  <1>2. ASSUME NEW dto \in Rows!Dto,
               \/ Rows!CreateMenuItem(dto) \/ Rows!CreatePromotion(dto) \/ Rows!CreateLegacyOrder(dto)
        PROVE Keeping' /\ RowKept /\ StockKept
    <2>1. \E t : Rows!Create(t, Rows!Over(Rows!Default, dto))
      BY <1>2 DEF Rows!CreateMenuItem, Rows!CreatePromotion, Rows!CreateLegacyOrder
    <2>2. Rows!Over(Rows!Default, dto) \in [Rows!Field -> Rows!Value]
      BY OverIsValue DEF Rows!Default, Rows!Value
    <2>. QED BY <2>1, <2>2, CreateStep
  <1>3. ASSUME Rows!CreateReservation \/ Rows!CreateReview PROVE Keeping' /\ RowKept /\ StockKept
    <2>1. \E t : Rows!Create(t, Rows!Default)
      BY <1>3 DEF Rows!CreateReservation, Rows!CreateReview
    <2>2. Rows!Default \in [Rows!Field -> Rows!Value]
      BY DEF Rows!Default, Rows!Value
    <2>. QED BY <2>1, <2>2, CreateStep
  <1>4. ASSUME NEW c \in Clerk, NEW dto \in Rows!Dto,
               Rows!BeginUpdate(c, dto) \/ Rows!BeginUpdateStock(c, dto)
        PROVE Keeping' /\ RowKept /\ StockKept
    BY <1>4, BeginStep DEF Rows!BeginUpdate, Rows!BeginUpdateStock
  <1>5. ASSUME NEW c \in Clerk, Rows!BeginRemove(c) \/ Rows!BeginRemoveStock(c)
        PROVE Keeping' /\ RowKept /\ StockKept
    <2>1. <<>> \in Rows!Dto
      BY DEF Rows!Dto
    <2>. QED BY <1>5, <2>1, BeginStep DEF Rows!BeginRemove, Rows!BeginRemoveStock
  <1>6. Rows!Next => Keeping' /\ RowKept /\ StockKept
    BY <1>2, <1>3, <1>4, <1>5, CreateStockStep, UpdateStep, AnswerStep, DeleteStep,
       UpdateStockStep,
       DeleteStockStep, StopStep DEF Rows!Next
  <1>. QED BY <1>1, <1>6 DEF RowKept, StockKept

(***************************************************************************)
(* For any number of clerks: an item's inventory is left behind only by a  *)
(* removal that is under way or was torn, or if the item was never there.  *)
(***************************************************************************)
THEOREM OrphanExplainedHolds == Spec => []OrphanExplained
  <1>1. Keeping => OrphanExplained
    BY DEF Keeping
  <1>. QED BY KeepingInit, KeepingStep, <1>1, PTL DEF Spec, Rows!Spec

(***************************************************************************)
(* For any number of clerks: a field that a request does not name changes  *)
(* only by a merge that was overtaken, never by a patch of the menu.       *)
(***************************************************************************)
THEOREM UnaskedFieldsKeptHolds == Spec => UnaskedFieldsKept
  BY KeepingInit, KeepingStep, PTL DEF Spec, Rows!Spec, UnaskedFieldsKept, Rows!UnaskedFieldsKept

-----------------------------------------------------------------------------
(***************************************************************************)
(* The types of the groups, conversations and tables are kept.             *)
(***************************************************************************)
THEOREM RowsTyped == Spec => [](Groups!TypeOK /\ Conversation!TypeOK /\ Rows!TypeOK)
  <1>1. /\ Choosing => Groups!TypeOK
        /\ Replying => Conversation!TypeOK
        /\ Keeping => Rows!TypeOK
    BY TypedIsTypeOK DEF Choosing, Replying, Keeping
  <1>. QED BY <1>1, ChoosingInit, ChoosingStep, ReplyingInit, ReplyingStep, KeepingInit,
     KeepingStep, PTL
           DEF Spec, Groups!Spec, Conversation!Spec, Rows!Spec
=============================================================================
