---------------------------- MODULE TenantContext ----------------------------
(***************************************************************************)
(* For which restaurant, and as whom, a request is served.  The middleware *)
(* looks at the tenant header; TenantRequiredGuard at whatever else names  *)
(* a restaurant, unless the middleware has found one; the other guards at  *)
(* the token.  Tokens come from the logins and from the creation of a      *)
(* restaurant, live for a day, and name their restaurant and role for      *)
(* good; restaurants are suspended and taken back meanwhile.               *)
(*                                                                         *)
(* One client, with the last token it has got, makes one request after     *)
(* another; what others do is the change of the restaurants' status.       *)
(***************************************************************************)
CONSTANTS Tenant,
          Route       \* the guards of a route, as in Routes

VARIABLES status,     \* of each restaurant
          role,       \* the client's membership in each
          token,      \* the client's token
          request

vars == <<status, role, token, request>>

None == "none"
Named == Tenant \cup {None}
NoToken == [role |-> None, tenant |-> None]
Token == [role: {"admin", "kitchen", "customer"}, tenant: Tenant]
           \cup {NoToken, [role |-> "platform", tenant |-> None]}

Sending == {"no", "header", "query"}
NoRequest == [pc |-> "none"]
(* explicit: the restaurant in the query, the path or the body; sent: where *)
(* is the token?  stale is history: has the status of the request's         *)
(* restaurant changed since it was resolved?                                *)
Request == [pc: {"middleware", "guards", "handler"}, route: Route, header: Named,
            explicit: Named, sent: Sending, tenant: Named, user: Token, stale: BOOLEAN]

Init ==
  /\ status = [t \in Tenant |-> "absent"]
  /\ role = [t \in Tenant |-> None]
  /\ token = NoToken
  /\ request = NoRequest

-----------------------------------------------------------------------------
(* resolveById: only an active restaurant is found. *)
Resolve(t) == IF t # None /\ status[t] = "active" THEN t ELSE None

SetStatus(t, s) ==
  /\ status' = [status EXCEPT ![t] = s]
  /\ request' = IF request = NoRequest THEN request 
                 ELSE [request EXCEPT !.stale = @ \/ request.tenant = t]

(* createRestaurant: in one transaction the restaurant and the membership  *)
(* of its owner, who is answered with a token whatever its status.         *)
CreateRestaurant(t, s, owned) ==
  /\ status[t] = "absent"
  /\ owned => request = NoRequest
  /\ SetStatus(t, s)
  /\ role' = IF owned THEN [role EXCEPT ![t] = "owner"] ELSE role
  /\ token' = IF owned THEN [role |-> "admin", tenant |-> t] ELSE token

(* updateRestaurant, by the platform or by another administrator. *)
UpdateRestaurant(t, s) ==
  /\ status[t] \notin {"absent", s}
  /\ SetStatus(t, s)
  /\ UNCHANGED <<role, token>>

(* External: other memberships are written into the database. *)
Enrol(t) ==
  /\ status[t] # "absent" /\ role[t] = None
  /\ role' = [role EXCEPT ![t] = "staff"]
  /\ UNCHANGED <<status, token, request>>

AllowedMembershipRoles(r) == IF r = "admin" THEN {"owner"} ELSE {"owner", "staff"}

(* loginWithRole: without a hint, the only restaurant of these roles. *)
Memberships(r, hint) ==
  {t \in Tenant : /\ role[t] \in AllowedMembershipRoles(r) /\ status[t] = "active"
                  /\ hint \in {None, t}}

Login(r, hint, t) ==
  /\ request = NoRequest
  /\ Memberships(r, hint) = {t}
  /\ token' = [role |-> r, tenant |-> t]
  /\ UNCHANGED <<status, role, request>>

(* Customers log in at the restaurant that they are looking at. *)
CustomerLogin(t) ==
  /\ request = NoRequest
  /\ Resolve(t) = t
  /\ token' = [role |-> "customer", tenant |-> t]
  /\ UNCHANGED <<status, role, request>>

PlatformLogin ==
  /\ request = NoRequest
  /\ token' = [role |-> "platform", tenant |-> None]
  /\ UNCHANGED <<status, role, request>>

-----------------------------------------------------------------------------
Send(route, header, explicit, sent) ==
  /\ request = NoRequest
  /\ request' = [pc |-> "middleware", route |-> route, header |-> header,
                 explicit |-> explicit, sent |-> sent,
                 tenant |-> None, user |-> NoToken, stale |-> FALSE]
  /\ UNCHANGED <<status, role, token>>

(* TenantMiddleware: the header alone, and no error if it names nothing. *)
Middleware ==
  /\ request.pc = "middleware"
  /\ request' = [request EXCEPT !.pc = "guards", !.tenant = Resolve(request.header),
                                !.stale = FALSE]
  /\ UNCHANGED <<status, role, token>>

Bearer == IF request.sent = "header" THEN token ELSE NoToken
(* An EventSource can only send it in the query; the kitchen takes that, too. *)
KitchenToken == IF request.sent = "no" THEN NoToken ELSE token

(* TenantRequiredGuard: the restaurant of the request.                     *)
Claimed ==
  IF Bearer.tenant # None THEN Bearer.tenant
  ELSE IF request.header # None THEN request.header ELSE request.explicit
TenantOf ==
  IF request.tenant # None \/ ~request.route.tenant THEN request.tenant ELSE Resolve(Claimed)

(* AuthGuard, OptionalAuthGuard, KitchenAccessGuard: the user of the token, *)
(* if the token may be used for the restaurant t.                          *)
ScopeOKUnchecked(user, t) == TRUE     \* a plausible slip: of whatever restaurant
ScopeOK(user, t) == t = None \/ user.tenant \in {None, t}
TenantInToken(t) == t = None \/ Bearer.role = "platform" \/ Bearer.tenant # None

AuthUser(t) ==
  IF Bearer # NoToken /\ ScopeOK(Bearer, t) /\ TenantInToken(t) THEN Bearer ELSE NoToken
OptionalUser(t) == IF ScopeOK(Bearer, t) THEN Bearer ELSE NoToken
KitchenUser(t) ==
  IF KitchenToken.role \in {"admin", "kitchen"} /\ ScopeOK(KitchenToken, t)
  THEN KitchenToken ELSE NoToken

UserOf(t) ==
  CASE request.route.auth = "no" -> NoToken
    [] request.route.auth = "optional" -> OptionalUser(t)
    [] request.route.auth = "required" -> AuthUser(t)
    [] request.route.auth = "kitchen" -> KitchenUser(t)

(* RoleGuard: administrators pass for everything but the platform. *)
RoleOK(user) ==
  \/ request.route.role \in {None, user.role}
  \/ request.route.role # "platform" /\ user.role = "admin"

Admitted(t) ==
  /\ request.route.tenant => t # None
  /\ request.route.auth \in {"required", "kitchen"} => UserOf(t) # NoToken
  /\ RoleOK(UserOf(t))

Guards ==
  /\ request.pc = "guards"
  /\ request' = IF Admitted(TenantOf)
                THEN [request EXCEPT !.pc = "handler", !.tenant = TenantOf,
                                     !.user = UserOf(TenantOf),
                                     !.stale = IF request.tenant = TenantOf THEN @ ELSE FALSE]
                ELSE NoRequest
  /\ UNCHANGED <<status, role, token>>

Handle ==
  /\ request.pc = "handler"
  /\ request' = NoRequest
  /\ UNCHANGED <<status, role, token>>

Next ==
  \/ \E t \in Tenant :
       \/ \E s \in {"active", "suspended"} :
            UpdateRestaurant(t, s) \/ \E owned \in BOOLEAN : CreateRestaurant(t, s, owned)
       \/ Enrol(t) \/ CustomerLogin(t)
       \/ \E r \in {"admin", "kitchen"}, hint \in Named : Login(r, hint, t)
  \/ PlatformLogin
  \/ \E route \in Route, h, x \in Named, s \in Sending : Send(route, h, x, s)
  \/ Middleware \/ Guards \/ Handle

Spec == Init /\ [][Next]_vars

-----------------------------------------------------------------------------
TypeOK ==
  /\ status \in [Tenant -> {"absent", "active", "suspended"}]
  /\ role \in [Tenant -> {"owner", "staff", None}]
  /\ token \in Token
  /\ request = NoRequest \/ request \in Request

(***************************************************************************)
(* ServedForOwnRestaurant: whichever restaurants the header, the rest of   *)
(* the request and the token name, a handler serves the one restaurant of  *)
(* its user, if it has one ("prevents cross-tenant token usage", README.md *)
(* 30), and a suspended restaurant is not served, unless it was suspended  *)
(* since it was resolved (tenant-required.guard.ts 63, 76).                *)
(***************************************************************************)
ServedForOwnRestaurant ==
  request.pc = "handler" =>
    /\ request.tenant # None =>
         /\ request.user.tenant \in {None, request.tenant}
         /\ status[request.tenant] = "active" \/ request.stale
    /\ request.route.tenant => request.tenant # None
=============================================================================
