---------------------------- MODULE ReviewAccess ----------------------------
(***************************************************************************)
(* The tokens with which customers open the conversations about their      *)
(* reviews.  There is one row per e-mail address, for all restaurants; a   *)
(* new token is issued when the customer asks for access and whenever an   *)
(* administrator replies, and replaces the one before; a link with the     *)
(* token is mailed.  One address is modelled, since no handler looks at    *)
(* two; it is spelled in lower case, as requests for access make it.       *)
(***************************************************************************)
CONSTANTS Tenant,
          Issue      \* calls of issueReviewAccessToken, and their tokens

VARIABLES token,     \* the row of review_access_tokens
          issues,    \* the calls
          mailbox    \* the token of the last mail, and whether another call
                     \* was under way while its call was

vars == <<token, issues, mailbox>>

NoToken == [by |-> "none"]
Token == [by: Issue, tenant: Tenant, fresh: BOOLEAN]
NotIssued == [pc |-> "idle"]
Call == [pc: {"update", "create", "mail", "done", "failed"}, tenant: Tenant,
         overlapped: BOOLEAN]
Mail == [by: Issue, overlapped: BOOLEAN]

Live(i) == issues[i].pc \in {"update", "create", "mail"}

Init ==
  /\ token = NoToken
  /\ issues = [i \in Issue |-> NotIssued]
  /\ mailbox = NoToken

(***************************************************************************)
(* Look for the row.  Another restaurant's is refused; that refuses an     *)
(* administrator's reply after it has been stored.  A row always has a     *)
(* restaurant: the column is null only if the restaurant's own row goes    *)
(* (onDelete: SetNull), which no code of the system deletes.               *)
(***************************************************************************)
FindToken(i, t) ==
  /\ issues[i] = NotIssued
  /\ LET rivals == {j \in Issue : Live(j)}
         pc == IF token = NoToken THEN "create"
               ELSE IF token.tenant # t THEN "failed" ELSE "update"
     IN issues' = [j \in Issue |->
          IF j = i THEN [pc |-> pc, tenant |-> t, overlapped |-> rivals # {}]
          ELSE IF j \in rivals THEN [issues[j] EXCEPT !.overlapped = TRUE]
          ELSE issues[j]]
  /\ UNCHANGED <<token, mailbox>>

(* Write it.  Of two that found none, the second violates the primary key. *)
WriteToken(i) ==
  /\ issues[i].pc \in {"update", "create"}
  /\ \/ /\ issues[i].pc = "create" /\ token # NoToken
        /\ issues' = [issues EXCEPT ![i].pc = "failed"]
        /\ UNCHANGED token
     \/ /\ issues[i].pc = "update" \/ token = NoToken
        /\ token' = [by |-> i, tenant |-> issues[i].tenant, fresh |-> TRUE]
        /\ issues' = [issues EXCEPT ![i].pc = "mail"]
  /\ UNCHANGED mailbox

SendMailUnwritten(i) ==     \* a plausible slip: the row is written last
  /\ Live(i)
  /\ mailbox' = [by |-> i, overlapped |-> issues[i].overlapped]
  /\ issues' = [issues EXCEPT ![i].pc = "done"]
  /\ UNCHANGED token

SendMail(i) ==
  /\ issues[i].pc = "mail"
  /\ mailbox' = [by |-> i, overlapped |-> issues[i].overlapped]
  /\ issues' = [issues EXCEPT ![i].pc = "done"]
  /\ UNCHANGED token

(* The mail server fails, or the process. *)
Fail(i) ==
  /\ Live(i)
  /\ issues' = [issues EXCEPT ![i].pc = "failed"]
  /\ UNCHANGED <<token, mailbox>>

Expire ==
  /\ token # NoToken /\ token.fresh
  /\ token' = [token EXCEPT !.fresh = FALSE]
  /\ UNCHANGED <<issues, mailbox>>

Next ==
  \/ \E i \in Issue :
       WriteToken(i) \/ SendMail(i) \/ Fail(i) \/ \E t \in Tenant : FindToken(i, t)
  \/ Expire

Spec == Init /\ [][Next]_vars

(* validateReviewAccessToken: the token i, used by a customer of t. *)
Validate(t, i) == token # NoToken /\ token.tenant = t /\ token.by = i /\ token.fresh

-----------------------------------------------------------------------------
TypeOK ==
  /\ token \in Token \cup {NoToken}
  /\ issues \in [Issue -> Call \cup {NotIssued}]
  /\ mailbox \in Mail \cup {NoToken}

(***************************************************************************)
(* LatestMailOpens: the link that a customer got last opens the            *)
(* conversation at the restaurant that sent it, until it expires.  The     *)
(* exceptions: a newer token was stored whose mail is still to come or     *)
(* never came (82-91 before 110-115), or two calls for the address         *)
(* overlapped, of which the first to write may be the last to mail.        *)
(***************************************************************************)
Replaced == \E i \in Issue : token.by = i /\ issues[i].pc \in {"mail", "failed"}
LatestMailOpens ==
  mailbox # NoToken =>
    \/ Validate(issues[mailbox.by].tenant, mailbox.by)
    \/ token # NoToken /\ (~token.fresh \/ Replaced)
    \/ mailbox.overlapped
=============================================================================
