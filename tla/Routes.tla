------------------------------- MODULE Routes -------------------------------
(***************************************************************************)
(* The HTTP routes of the controllers, in the order in which they are      *)
(* declared, with the guards each of them runs: first those of the         *)
(* controller, then its own.  A segment that starts with a colon is a      *)
(* parameter.  The checks some handlers make themselves before they do     *)
(* anything else are listed after the guards (InHandler).                  *)
(***************************************************************************)
EXTENDS Naturals, Sequences

Parameters == {":slug", ":id", ":cabinetId", ":demandId", ":userId", ":token",
               ":planId", ":featureSlug"}

Guard(kind, any) == [kind |-> kind, any |-> any]

Jwt == Guard("jwt", {})                          \* JwtAuthGuard
OptionalJwt == Guard("optional", {})             \* OptionalJwtAuthGuard
Google == Guard("google", {})                    \* GoogleAuthGuard
Roles(any) == Guard("roles", any)                \* RolesGuard, @Roles
CabinetRoles(any) == Guard("cabinetRoles", any)  \* CabinetRolesGuard, @CabinetRoles
OwnProfile == Guard("userAccess", {})            \* UserAccessGuard
DemandAccess == Guard("demandAccess", {})        \* DemandAccessGuard
ResultAccess == Guard("resultAccess", {})        \* ResultAccessGuard
Subscribed == Guard("subscription", {})          \* ActiveSubscriptionGuard
Feature(f) == Guard("feature", {f})              \* FeatureGuard, @RequireFeature
InHandler(any) == Guard("inHandler", any)        \* findMembership in the cabinet named
InDemand == Guard("inDemand", {})                \* findMembership in the demand's cabinet

Admin == <<Jwt, Roles({"ADMIN"})>>
Owner == <<Jwt, CabinetRoles({"OWNER"})>>
Member == <<Jwt, CabinetRoles({"OWNER", "STAFF"})>>
Anyone == <<>>

Route(verb, path, guards) == [verb |-> verb, path |-> path, guards |-> guards]

(* A controller: its path comes before its routes', its guards run first. *)
Controller(base, guards, routes) ==
  [i \in DOMAIN routes |->
     Route(routes[i].verb, <<base>> \o routes[i].path, guards \o routes[i].guards)]

-----------------------------------------------------------------------------
DemandListings ==
  <<Route("POST", <<>>, <<OptionalJwt>>),
    Route("GET", <<>>, <<OptionalJwt>>),
    Route("GET", <<"cabinet", ":slug", "opendata">>, Anyone),
    Route("GET", <<"cabinet", ":slug", "testimonials">>, Anyone),
    Route("GET", <<"cabinet", ":slug", "metrics">>, Anyone),
    Route("GET", <<"cabinet", ":slug", "dashboard", "summary">>,
          <<Jwt, InHandler({"OWNER", "STAFF"})>>)>>

DemandReads ==
  <<Route("GET", <<"heatmap">>, <<OptionalJwt>>),
    Route("GET", <<"me">>, <<Jwt>>),
    Route("GET", <<"me", "summary">>, <<Jwt>>),
    Route("GET", <<"cabinet", ":slug", "trend">>, Anyone),
    Route("GET", <<"cabinet", ":slug", "trend-detailed">>, Anyone),
    Route("GET", <<"cabinet", ":slug", "report">>,
          <<Jwt, Feature("csv_export"), Subscribed, InHandler({"OWNER", "STAFF"})>>),
    Route("GET", <<"cabinet", ":slug">>, <<OptionalJwt>>),
    Route("GET", <<"neighborhood">>, Anyone),
    Route("GET", <<"neighborhoods">>, <<OptionalJwt>>),
    Route("GET", <<":id">>, <<OptionalJwt>>)>>

DemandWrites ==
  <<Route("PATCH", <<":id">>, <<Jwt, DemandAccess>>),
    Route("DELETE", <<":id">>, <<Jwt, DemandAccess>>),
    Route("PATCH", <<":id", "unlink">>, <<Jwt, InDemand>>),
    Route("POST", <<":id", "claim">>, <<Jwt, Subscribed>>),
    Route("POST", <<":id", "evidence", "presign">>, <<OptionalJwt>>),
    Route("POST", <<":id", "evidence", "confirm">>, <<OptionalJwt>>),
    Route("PATCH", <<":id", "assign">>, <<Jwt, DemandAccess, InDemand>>)>>

DemandReactions ==
  <<Route("POST", <<":id", "comments">>, <<Jwt>>),
    Route("POST", <<":id", "report">>, <<Jwt>>),
    Route("GET", <<":id", "comments">>, <<OptionalJwt>>),
    Route("PATCH", <<":id", "progress">>, <<Jwt, Subscribed, InDemand>>),
    Route("POST", <<":id", "like">>, <<Jwt>>),
    Route("GET", <<"survey", ":token">>, Anyone),
    Route("POST", <<"survey", ":token">>, Anyone),
    Route("GET", <<"export">>, <<Jwt>>)>>

DemandRoutes ==
  Controller("demands", Anyone, DemandListings \o DemandReads \o DemandWrites \o DemandReactions)

-----------------------------------------------------------------------------
CabinetReads ==
  <<Route("POST", <<>>, <<Jwt, Roles({"ADMIN", "MEMBER"})>>),
    Route("GET", <<>>, Anyone),
    Route("GET", <<"me">>, <<Jwt>>),
    Route("GET", <<":slug", "plans">>, <<Jwt>>),
    Route("GET", <<":slug", "usage">>, <<Jwt>>),
    Route("GET", <<":slug">>, Anyone)>>

CabinetPage ==
  <<Route("PATCH", <<":slug">>, Owner \o <<Subscribed>>),
    Route("GET", <<":slug", "widget.js">>, <<Feature("widget")>>),
    Route("GET", <<":slug", "sections">>, Anyone),
    Route("GET", <<":slug", "testimonials">>, Anyone)>>

CabinetOwnersDesk ==
  <<Route("GET", <<":slug", "testimonials", "all">>, Member),
    Route("PATCH", <<":slug", "testimonials", ":demandId", "hide">>, Member),
    Route("PATCH", <<":slug", "testimonials", ":demandId", "show">>, Member),
    Route("PUT", <<":slug", "sections">>, Owner),
    Route("DELETE", <<":slug">>, Owner),
    Route("POST", <<":slug", "invites">>, Owner \o <<Subscribed, InHandler({"OWNER"})>>),
    Route("GET", <<"invites", ":token">>, Anyone),
    Route("POST", <<"invites", ":token", "accept">>, <<Jwt>>)>>

CabinetTeam ==
  <<Route("GET", <<":slug", "invites">>, <<Jwt, InHandler({"OWNER"})>>),
    Route("DELETE", <<"invites", ":id">>, <<Jwt, InHandler({"OWNER"})>>),
    Route("PATCH", <<":slug", "members", ":userId">>, <<Jwt, InHandler({"OWNER"})>>),
    Route("POST", <<":slug", "leave">>, <<Jwt, InHandler({"OWNER", "STAFF"})>>),
    Route("GET", <<":slug", "members">>, Anyone),
    Route("DELETE", <<":slug", "members", ":userId">>, Owner \o <<InHandler({"OWNER"})>>)>>

CabinetRoutes ==
  Controller("cabinets", Anyone, CabinetReads \o CabinetPage \o CabinetOwnersDesk \o CabinetTeam)

ResultRoutes ==
  Controller("results", Anyone,
    <<Route("POST", <<>>, <<Jwt, InHandler({"OWNER", "STAFF"})>>),
      Route("GET", <<>>, Anyone),
      Route("GET", <<":id">>, Anyone),
      Route("PATCH", <<":id">>, <<Jwt, ResultAccess>>),
      Route("DELETE", <<":id">>, <<Jwt, ResultAccess>>),
      Route("POST", <<":id", "images">>, <<Jwt, ResultAccess>>),
      Route("POST", <<":id", "protocol">>, <<Jwt, ResultAccess>>)>>)

-----------------------------------------------------------------------------
AdminModeration ==
  <<Route("GET", <<"reports">>, Admin),
    Route("GET", <<"reports", ":demandId", "reasons">>, Admin),
    Route("PATCH", <<"reports", ":demandId", "dismiss">>, Admin),
    Route("DELETE", <<"demands", ":demandId">>, Admin),
    Route("PATCH", <<"users", ":userId", "disable">>, Admin),
    Route("PATCH", <<"users", ":userId", "enable">>, Admin),
    Route("GET", <<"cabinets">>, Admin)>>

AdminCabinets ==
  <<Route("POST", <<"cabinets", "avatar", "presign">>, Admin),
    Route("POST", <<"cabinets">>, Admin),
    Route("PATCH", <<"cabinets", ":id">>, Admin)>>

AdminUsers ==
  <<Route("GET", <<"cabinets", ":id">>, Admin),
    Route("DELETE", <<"cabinets", ":id">>, Admin),
    Route("PATCH", <<"cabinets", ":id", "enable">>, Admin),
    Route("POST", <<"users", "avatar", "presign">>, Admin),
    Route("POST", <<"users">>, Admin),
    Route("GET", <<"users", ":id">>, Admin)>>

(* Two controllers share the path admin. *)
PlansAdminRoutes ==
  <<Route("GET", <<"plans">>, Anyone),
    Route("GET", <<"plans", "subscriptions-summary">>, Anyone),
    Route("GET", <<"features">>, Anyone),
    Route("POST", <<"plans", ":planId", "features">>, Anyone),
    Route("PATCH", <<"plans", ":planId">>, Anyone),
    Route("PATCH", <<"plans", ":planId", "active">>, Anyone),
    Route("DELETE", <<"plans", ":planId", "features", ":featureSlug">>, Anyone),
    Route("GET", <<"cabinets", ":cabinetId", "subscription">>, Anyone),
    Route("GET", <<"cabinets", ":cabinetId", "subscriptions">>, Anyone)>>

PlansOfCabinets ==
  <<Route("PATCH", <<"cabinets", ":cabinetId", "subscription">>, Anyone),
    Route("PATCH", <<"cabinets", ":cabinetId", "subscription", "limits">>, Anyone),
    Route("GET", <<"cabinets", ":cabinetId", "overrides">>, Anyone),
    Route("POST", <<"cabinets", ":cabinetId", "overrides">>, Anyone),
    Route("DELETE", <<"cabinets", ":cabinetId", "overrides", ":featureSlug">>, Anyone)>>

AdminUserUpdate == <<Route("PATCH", <<"users", ":id">>, Admin)>>

AdminRoutes ==
  Controller("admin", Anyone, AdminModeration \o AdminCabinets \o AdminUsers \o AdminUserUpdate)
  \o Controller("admin", Admin, PlansAdminRoutes \o PlansOfCabinets)

-----------------------------------------------------------------------------
UserRoutes ==
  Controller("users", <<Jwt>>,
    <<Route("GET", <<>>, <<Roles({"ADMIN"})>>),
      Route("GET", <<":id">>, Anyone),
      Route("PATCH", <<":id">>, <<OwnProfile>>),
      Route("DELETE", <<":id">>, <<OwnProfile>>),
      Route("GET", <<"me", "neighborhoods">>, Anyone),
      Route("POST", <<"me", "neighborhoods">>, Anyone),
      Route("DELETE", <<"me", "neighborhoods", ":id">>, Anyone),
      Route("PATCH", <<"me", "neighborhoods", ":id", "primary">>, Anyone)>>)

AuthRoutes ==
  Controller("auth", Anyone,
    <<Route("POST", <<"register">>, Anyone),
      Route("POST", <<"verify-email">>, Anyone),
      Route("POST", <<"login">>, Anyone),
      Route("POST", <<"refresh">>, Anyone),
      Route("POST", <<"forgot-password">>, Anyone),
      Route("POST", <<"reset-password">>, Anyone),
      Route("PATCH", <<"change-password">>, <<Jwt>>),
      Route("POST", <<"confirm-change-password">>, Anyone),
      Route("GET", <<"me">>, <<Jwt>>),
      Route("GET", <<"google">>, <<Google>>),
      Route("POST", <<"logout">>, Anyone),
      Route("GET", <<"google", "callback">>, <<Google>>)>>)

CategoryRoutes ==
  Controller("categories", Anyone,
    <<Route("POST", <<>>, Admin),
      Route("GET", <<>>, Anyone),
      Route("GET", <<":slug">>, Anyone),
      Route("PATCH", <<":slug">>, Admin),
      Route("DELETE", <<":slug">>, Admin)>>)

NotificationRoutes ==
  Controller("notifications", <<Jwt>>,
    <<Route("GET", <<>>, Anyone),
      Route("PATCH", <<":id", "read">>, Anyone),
      Route("PATCH", <<"read-all">>, Anyone)>>)

PreviewRoutes == Controller("og", Anyone, <<Route("GET", <<"demands", ":id">>, Anyone)>>)

AllRoutes ==
  DemandRoutes \o CabinetRoutes \o ResultRoutes \o AdminRoutes \o UserRoutes
  \o AuthRoutes \o CategoryRoutes \o NotificationRoutes \o PreviewRoutes

-----------------------------------------------------------------------------
(* A path that is asked for: its parameters stand for ids, which equal no  *)
(* literal segment.                                                        *)
Matches(route, verb, path) ==
  /\ route.verb = verb
  /\ Len(route.path) = Len(path)
  /\ \A i \in DOMAIN path : route.path[i] \in Parameters \/ route.path[i] = path[i]

(* The router takes the first declared route that matches. *)
Dispatch(verb, path) ==
  LET matching == {i \in DOMAIN AllRoutes : Matches(AllRoutes[i], verb, path)}
  IN AllRoutes[CHOOSE i \in matching : \A j \in matching : i <= j]
=============================================================================
