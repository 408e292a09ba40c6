----------------------------- MODULE UberToken ------------------------------
(***************************************************************************)
(* The access token with which the server asks Uber for quotes and         *)
(* deliveries: cached in memory with the time of its expiry, and asked for *)
(* anew when that is near.  Nothing keeps two calls from asking at once.   *)
(* Uber counts the life of a token from when it is granted, the server     *)
(* from when it has read the answer; the timeout bounds the wait for the   *)
(* answer's headers only, so the answer may take as long as it likes.      *)
(***************************************************************************)
EXTENDS Naturals

CONSTANTS Caller,     \* calls of createQuote and createDelivery
          Life,       \* expires_in of a token
          Slack,      \* the 60 s that a cached token must still have
          Horizon     \* bound on the time

VARIABLES now, cached, callers

vars == <<now, cached, callers>>

Time == 0..Horizon
Token == [granted: Time, life: {0, Life}, delay: Time]
NoToken == [granted |-> 0, life |-> 0, delay |-> 0]
Waiting == [pc |-> "idle"]
(* at: when the call was handed its token. *)
Holding(t) == [pc |-> "holding", token |-> t, at |-> now]

(* What the cache believes: the life begins when the answer is read.       *)
ExpiresAt(t) == t.granted + t.delay + t.life
AliveAt(t, time) == time < t.granted + t.life

Init == now = 0 /\ cached = NoToken /\ callers = [c \in Caller |-> Waiting]

Tick ==
  /\ now < Horizon
  /\ now' = now + 1
  /\ UNCHANGED <<cached, callers>>

Step(c, next) == callers' = [callers EXCEPT ![c] = next] /\ UNCHANGED now

FreshWithoutSlack(t) == now < ExpiresAt(t)    \* a plausible slip
Fresh(t) == now + Slack < ExpiresAt(t)

(* getAccessToken: a cached token that is fresh is used ... *)
UseCached(c) ==
  /\ callers[c] = Waiting /\ Fresh(cached)
  /\ Step(c, Holding(cached)) /\ UNCHANGED cached

(* ... or else Uber is asked ... *)
Ask(c) ==
  /\ callers[c] = Waiting /\ ~Fresh(cached)
  /\ Step(c, [pc |-> "asked"]) /\ UNCHANGED cached

(* ... and grants one, with or without expires_in, ... *)
Grant(c, life) ==
  /\ callers[c].pc = "asked"
  /\ Step(c, [pc |-> "granted", token |-> [granted |-> now, life |-> life, delay |-> 0]])
  /\ UNCHANGED cached

(* ... which replaces the cached one when the answer is read. *)
Arrive(c) ==
  /\ callers[c].pc = "granted"
  /\ LET t == [callers[c].token EXCEPT !.delay = now - callers[c].token.granted]
     IN cached' = t /\ Step(c, Holding(t))

(* The quote or the delivery is sent with it.  A refusal leaves the cache   *)
(* as it is.                                                                *)
SendQuote(c) ==
  /\ callers[c].pc = "holding"
  /\ Step(c, Waiting) /\ UNCHANGED cached

(* The timeout aborts the wait, or Uber refuses. *)
GiveUp(c) ==
  /\ callers[c].pc \in {"asked", "granted"}
  /\ Step(c, Waiting) /\ UNCHANGED cached

Restart ==
  /\ cached' = NoToken /\ callers' = [c \in Caller |-> Waiting]
  /\ UNCHANGED now

Next ==
  \/ Tick \/ Restart
  \/ \E c \in Caller :
       \/ UseCached(c) \/ Ask(c) \/ Arrive(c) \/ SendQuote(c) \/ GiveUp(c)
       \/ \E life \in {0, Life} : Grant(c, life)

Spec == Init /\ [][Next]_vars

-----------------------------------------------------------------------------
TypeOK ==
  /\ now \in Time /\ cached \in Token
  /\ callers \in [Caller ->
       {Waiting, [pc |-> "asked"]}
         \cup [pc: {"granted"}, token: Token]
         \cup [pc: {"holding"}, token: Token, at: Time]]

(***************************************************************************)
(* TokenAlive: whoever else is asking for tokens, and whichever of their   *)
(* answers is read last, a call that takes the cached token gets one that  *)
(* Uber still honours (uber-direct.service.ts 46-48); the 60 s make up for *)
(* the answer's way, unless that took longer.                              *)
(***************************************************************************)
TokenAlive ==
  \A c \in Caller : callers[c].pc = "holding" =>
    \/ AliveAt(callers[c].token, callers[c].at)
    \/ callers[c].token.delay > Slack
    \/ callers[c].at = callers[c].token.granted + callers[c].token.delay   \* not cached
=============================================================================
