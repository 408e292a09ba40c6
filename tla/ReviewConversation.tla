------------------------- MODULE ReviewConversation -------------------------
(***************************************************************************)
(* The replies to the reviews of one restaurant: customers and             *)
(* administrators write them, administrators read and so mark them, and a  *)
(* review is removed with its replies.  Handlers read the review first and *)
(* go on with a query each; a reply of a removed review is refused by the  *)
(* foreign key, whose ON DELETE CASCADE takes what is left of them.        *)
(* ReviewAccess decides which customer may write.                          *)
(***************************************************************************)
CONSTANTS Review, Reply, Reader

VARIABLES removed,   \* the reviews that are gone
          replies,   \* the rows of review_replies, by the id they (will) have
          writers,   \* the replies whose handler has found the review
          readers,   \* the calls of adminConversation
          removers   \* the reviews whose replies a handler has just deleted

vars == <<removed, replies, writers, readers, removers>>

NoReply == [state |-> "none"]
Written == [state: {"unread", "read"}, of: Review, from: {"admin", "customer"}]
Draft == [state: {"draft"}, of: Review, from: {"admin", "customer"}]
(* got is what the handler has listed, since what arrived after that.      *)
Reading == [of: Review, got: SUBSET Reply, since: SUBSET Reply]
NotReading == [of |-> "none"]

In(v) == {m \in Reply : replies[m].state # "none" /\ replies[m].of = v}
Unread(v) == {m \in In(v) : replies[m].from = "customer" /\ replies[m].state = "unread"}

Init ==
  /\ removed = {} /\ writers = [m \in Reply |-> NoReply] /\ removers = {}
  /\ replies = [m \in Reply |-> NoReply]
  /\ readers = [r \in Reader |-> NotReading]

(* createReply, createPublicReply: find the review ... *)
BeginReply(m, v, from) ==
  /\ v \notin removed
  /\ replies[m] = NoReply /\ writers[m] = NoReply
  /\ writers' = [writers EXCEPT ![m] = [state |-> "draft", of |-> v, from |-> from]]
  /\ UNCHANGED <<removed, replies, readers, removers>>

(* ... and insert; if the review is gone by now, the insert fails. *)
InsertReply(m) ==
  /\ writers[m] # NoReply
  /\ IF writers[m].of \in removed THEN UNCHANGED <<replies, readers>>
     ELSE /\ replies' = [replies EXCEPT ![m] = [writers[m] EXCEPT !.state = "unread"]]
          /\ readers' = [r \in Reader |->
                           IF readers[r].of = writers[m].of
                           THEN [readers[r] EXCEPT !.since = @ \cup {m}] ELSE readers[r]]
  /\ writers' = [writers EXCEPT ![m] = NoReply]
  /\ UNCHANGED <<removed, removers>>

(* adminConversation: find the review and list all its replies ... *)
ListReplies(r, v) ==
  /\ v \notin removed /\ readers[r] = NotReading
  /\ readers' = [readers EXCEPT ![r] = [of |-> v, got |-> In(v), since |-> {}]]
  /\ UNCHANGED <<removed, replies, writers, removers>>

Marked(M) == [m \in Reply |-> IF m \in M THEN [replies[m] EXCEPT !.state = "read"] ELSE replies[m]]

MarkEveryConversation(r) ==     \* a plausible slip: reviewId is not in the condition
  /\ readers[r] # NotReading
  /\ replies' = Marked(UNION {Unread(v) : v \in Review})
  /\ readers' = [readers EXCEPT ![r] = NotReading]
  /\ UNCHANGED <<removed, writers, removers>>

(* ... then mark the review's customer replies, whatever they are now.     *)
MarkListed(r) ==
  /\ readers[r] # NotReading
  /\ replies' = Marked(Unread(readers[r].of))
  /\ readers' = [readers EXCEPT ![r] = NotReading]
  /\ UNCHANGED <<removed, writers, removers>>

(* adminMarkRead, markRead: one statement, for either sender. *)
MarkRead(v, from) ==
  /\ \E m \in In(v) : replies[m].from = from /\ replies[m].state = "unread"
  /\ replies' = Marked({m \in In(v) : replies[m].from = from})
  /\ UNCHANGED <<removed, writers, readers, removers>>

DeleteReply(m) ==
  /\ replies[m] # NoReply
  /\ replies' = [replies EXCEPT ![m] = NoReply]
  /\ UNCHANGED <<removed, writers, readers, removers>>

Without(v) == [m \in Reply |-> IF m \in In(v) THEN NoReply ELSE replies[m]]

(* remove: the replies first, then the review with what came in between.   *)
RemoveReplies(v) ==
  /\ v \notin removed \cup removers
  /\ replies' = Without(v) /\ removers' = removers \cup {v}
  /\ UNCHANGED <<removed, writers, readers>>

RemoveReview(v) ==
  /\ v \in removers
  /\ removed' = removed \cup {v} /\ removers' = removers \ {v}
  /\ replies' = Without(v)
  /\ UNCHANGED <<writers, readers>>

(* The remover fails between its two statements: the review stays, empty.  *)
RemoverFails(v) ==
  /\ v \in removers
  /\ removers' = removers \ {v}
  /\ UNCHANGED <<removed, replies, writers, readers>>

Next ==
  \/ \E m \in Reply : InsertReply(m) \/ DeleteReply(m)
  \/ \E r \in Reader : MarkListed(r)
  \/ \E v \in Review :
       \/ RemoveReplies(v) \/ RemoveReview(v) \/ RemoverFails(v)
       \/ \E from \in {"admin", "customer"} :
            MarkRead(v, from) \/ \E m \in Reply : BeginReply(m, v, from)
       \/ \E r \in Reader : ListReplies(r, v)

Spec == Init /\ [][Next]_vars

-----------------------------------------------------------------------------
TypeOK ==
  /\ removed \subseteq Review /\ removers \subseteq Review
  /\ replies \in [Reply -> Written \cup {NoReply}]
  /\ writers \in [Reply -> Draft \cup {NoReply}]
  /\ readers \in [Reader -> Reading \cup {NotReading}]

(***************************************************************************)
(* ReadMeansListed: reading a conversation marks a reply that was not      *)
(* listed to the reader only if it arrived in that very conversation       *)
(* between the listing and the mark (371-379).                             *)
(***************************************************************************)
ReadMeansListed ==
  [][\A r \in Reader, m \in Reply :
       (/\ readers[r] # NotReading /\ readers'[r] = NotReading
        /\ replies[m].state = "unread" /\ replies'[m] # replies[m])
       => m \in readers[r].got \cup readers[r].since]_vars
=============================================================================
