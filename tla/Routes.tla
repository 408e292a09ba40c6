------------------------------- MODULE Routes -------------------------------
(***************************************************************************)
(* Every route of the server, by the method of the controller that handles *)
(* it, with its guards in the order in which Nest asks them: those of the  *)
(* controller, then those of the method.  What the methods do is in the    *)
(* modules of their services; some of them only read.                      *)
(***************************************************************************)
None == "none"

(* tenant: TenantRequiredGuard; auth: AuthGuard, OptionalAuthGuard,        *)
(* KitchenAccessGuard or none of them; role: what RoleGuard asks for.      *)
Chain(tenant, auth, role) == [tenant |-> tenant, auth |-> auth, role |-> role]
OpenRoute == Chain(FALSE, "no", None)
PublicRoute == Chain(TRUE, "no", None)
OptionalRoute == Chain(TRUE, "optional", None)
AnyUserRoute == Chain(TRUE, "required", None)
CustomerRoute == Chain(TRUE, "required", "customer")
KitchenRoute == Chain(TRUE, "kitchen", None)
AdminRoute == Chain(TRUE, "required", "admin")
VerifyRoute(r) == Chain(FALSE, "required", r)
PlatformRoute == VerifyRoute("platform")

Guarded(chain, methods) == [m \in methods |-> chain]
(* Most controllers are open to the public but for some methods. *)
Except(methods, chain, guarded) ==
  [m \in methods \cup guarded |-> IF m \in guarded THEN chain ELSE PublicRoute]
PublicAndAdmin(public, admin) == Except(public, AdminRoute, admin)

-----------------------------------------------------------------------------
KitchenReads == Guarded(KitchenRoute, {"stream", "getOrderStatus", "list", "getOrder"})
KitchenWrites == Guarded(KitchenRoute,
  {"start", "ready", "serve", "deliver", "hold", "resume", "cancel", "arrive", "refire",
   "edit", "manual", "demo"})
Arrivals == Guarded(KitchenRoute, {"arrive"})

Payments == PublicAndAdmin(
  {"createCart", "paymentLink", "phonePaymentLink", "createCheckoutSession", "getPayment"},
  {"paymentSummary", "paymentTransactions", "connectAccount", "connectStatus"})
Webhooks == Guarded(OpenRoute, {"stripeWebhook", "stripeConnectWebhook", "deliveryWebhook"})
Delivery == Guarded(PublicRoute, {"request", "quote", "webhook", "status"})

Menu == PublicAndAdmin({"list", "getOne"}, {"create", "update", "remove"})
Inventory == PublicAndAdmin({"list", "get"}, {"create", "update", "remove"})
Promotions == PublicAndAdmin({"listActive", "get"}, {"list", "create", "update", "remove"})
Reservations == PublicAndAdmin({"create"}, {"list", "get", "update", "remove"})
LegacyOrders == PublicAndAdmin({"create"}, {"list", "get", "update", "remove"})
OrderTracking == Guarded(PublicRoute, {"track"})
GroupOrders == PublicAndAdmin(
  {"get", "create", "addItem", "removeItem", "participantItems"}, {"listAdmin", "updateStatus"})
Locations == Guarded(PublicRoute, {"create", "list", "get"})
Settings == PublicAndAdmin(
  {"all", "contact", "hours", "about"}, {"putContact", "putHours", "putAbout"})
Content == PublicAndAdmin({"getPolicies"}, {"putFaqs", "putPolicies"})

ReviewsOfAdmin == Guarded(AdminRoute,
  {"listAdmin", "update", "remove", "adminConversations", "adminUnreadCount", "adminMarkRead",
   "adminConversation", "get", "listReplies", "createReply", "deleteReply"})
ReviewsOfCustomer == Except(
  {"requestAccess", "listApproved", "create", "publicWithReplies"},
  OptionalRoute, {"createPublicReply", "myReviews", "markRead"})

Tablet == Guarded(PublicRoute, {"activity", "orderStatus"})
Chat == Guarded(PublicRoute, {"chats", "reset"})
Customers == Except(
  {"register", "login", "logout"}, CustomerRoute, {"me", "myOrders", "myOrderById"})
Agent == Guarded(AnyUserRoute, {"confirmPayment", "generatePickup"})
Business == Guarded(AdminRoute, {"me", "updateBusiness", "locations", "createLocation"})

(* Without TenantRequiredGuard. *)
Auth == [adminLogin |-> OpenRoute, kitchenLogin |-> OpenRoute, logout |-> OpenRoute,
         adminVerify |-> VerifyRoute("admin"), kitchenVerify |-> VerifyRoute("kitchen")]
Public == [resolve |-> OpenRoute, bootstrap |-> PublicRoute]
PlatformOpen == Guarded(OpenRoute, {"login", "createRestaurant"})
Platform == Guarded(PlatformRoute,
  {"restaurants", "getRestaurant", "patchRestaurant", "createLocation", "listLocations",
   "createConnectAccount", "connectStatus"})
Voice == Guarded(OpenRoute, {"tts"})
Health == Guarded(OpenRoute, {"health", "ready"})

Controller ==
  {KitchenReads, KitchenWrites, Arrivals, Payments, Webhooks, Delivery, Menu, Inventory,
   Promotions, Reservations, LegacyOrders, OrderTracking, GroupOrders, Locations, Settings,
   Content, ReviewsOfAdmin, ReviewsOfCustomer, Tablet, Chat, Customers, Agent, Business,
   Auth, Public, PlatformOpen, Platform, Voice, Health}
Route == UNION {{c[m] : m \in DOMAIN c} : c \in Controller}
=============================================================================
