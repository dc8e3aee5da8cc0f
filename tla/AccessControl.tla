---------------------------- MODULE AccessControl ---------------------------
(***************************************************************************)
(* A request on its way to a handler: the route it is dispatched to, and   *)
(* the guards of that route one after the other.  Every guard reads the    *)
(* database anew, some of them twice, while other requests change users,   *)
(* memberships, owners and subscriptions.  What a handler is promised is   *)
(* that each thing its guards check was true at some moment since the      *)
(* request arrived.                                                        *)
(*                                                                         *)
(* The state of the database that guards look at is a set of facts.        *)
(***************************************************************************)
EXTENDS Routes, FiniteSets

CONSTANTS
  Users,       \* ids of users
  Cabinets,    \* ids of cabinets
  Demands,     \* ids of demands
  Results,     \* ids of results
  NONE,        \* null
  MaxRequests, \* bound: requests served in a behaviour
  MaxChanges   \* bound: changes of the facts in a behaviour

ASSUME AccessAssumption ==
  /\ NONE \notin Users \cup Cabinets \cup Demands \cup Results
  /\ MaxRequests \in Nat /\ MaxChanges \in Nat

VARIABLES
  facts,       \* what the tables say: a set of Fact
  request,     \* the request being guarded: a Request
  known,       \* history: the facts true at some moment since it arrived
  served,      \* requests received so far
  changes      \* changes of the facts so far

vars == <<facts, request, known, served, changes>>

UserRole == {"ADMIN", "MEMBER", "CITIZEN"}
CabinetRole == {"OWNER", "STAFF"}
Features == {"csv_export", "widget"}

Fact ==
  ({"role"} \X Users \X UserRole)                   \* users.role
    \cup ({"enabled"} \X Users)                     \* users.disabled_at is null
    \cup ({"member"} \X Users \X Cabinets \X CabinetRole)
    \cup ({"owns"} \X Demands \X Cabinets)          \* demands.cabinet_id
    \cup ({"result"} \X Results \X Cabinets)        \* results.cabinet_id
    \cup ({"active"} \X Cabinets)                   \* has a running subscription
    \cup ({"planned"} \X Cabinets \X Features)      \* the plan subscribed to includes it
    \cup ({"granted"} \X Cabinets \X Features)      \* a GRANT override is in force
    \cup ({"unblocked"} \X Cabinets \X Features)    \* no BLOCK override is in force

NoRoute == Route("none", <<>>, <<>>)

Request ==
  [route : {NoRoute} \cup {AllRoutes[i] : i \in DOMAIN AllRoutes},
   bearer : Users \cup {NONE},      \* subject of a valid access token
   cabinet : Cabinets \cup {NONE}, demand : Demands \cup {NONE},
   result : Results \cup {NONE}, profile : Users \cup {NONE},
   next : Nat,                      \* position of the guard to run
   me : Users \cup {NONE},          \* request.user, set by the JWT strategy
   role : UserRole \cup {NONE},     \* its role
   loaded : Cabinets \cup {NONE},   \* cabinet a guard has resolved
   plan : SUBSET Features]          \* features of the plan it has read

NoRequest == [route |-> NoRoute, bearer |-> NONE, cabinet |-> NONE, demand |-> NONE,
              result |-> NONE, profile |-> NONE, next |-> 1, me |-> NONE,
              role |-> NONE, loaded |-> NONE, plan |-> {}]

(* A running subscription is to a plan with every feature; of overrides    *)
(* there is one per cabinet and feature at most.                           *)
Init ==
  /\ \E roles \in [Users -> UserRole], enabled \in SUBSET Users,
        members \in [Users \X Cabinets -> CabinetRole \cup {NONE}],
        owner \in [Demands -> Cabinets \cup {NONE}], publisher \in [Results -> Cabinets],
        active \in SUBSET Cabinets,
        override \in [Cabinets \X Features -> {"GRANT", "BLOCK", NONE}] :
       facts = {<<"role", u, roles[u]>> : u \in Users}
                 \cup {<<"enabled", u>> : u \in enabled}
                 \cup {f \in {"member"} \X Users \X Cabinets \X CabinetRole :
                         members[<<f[2], f[3]>>] = f[4]}
                 \cup {f \in {"owns"} \X Demands \X Cabinets : owner[f[2]] = f[3]}
                 \cup {<<"result", x, publisher[x]>> : x \in Results}
                 \cup {<<"active", c>> : c \in active}
                 \cup {<<"planned", c, f>> : c \in active, f \in Features}
                 \cup {f \in {"granted"} \X Cabinets \X Features :
                         override[<<f[2], f[3]>>] = "GRANT"}
                 \cup {f \in {"unblocked"} \X Cabinets \X Features :
                         override[<<f[2], f[3]>>] # "BLOCK"}
  /\ request = NoRequest /\ known = {}
  /\ served = 0 /\ changes = 0

-----------------------------------------------------------------------------
(* Which parameters a route has besides those that are only looked up.     *)
NamesCabinet(route) ==
  \/ \E i \in DOMAIN route.path : route.path[i] = ":slug" /\ route.path[1] # "categories"
  \/ route.path[1] = "cabinets" /\ route.verb = "DELETE" /\ route.path[2] = "invites"
  \/ route.path = <<"results">> /\ route.verb = "POST"

NamesById(route, base) == Len(route.path) >= 2 /\ route.path[1] = base /\ route.path[2] = ":id"

OrNone(S, named) == IF named THEN S ELSE {NONE}

(* The guards that each kind of route needs.  They are in the table of the *)
(* routes, and whatever path is asked for the router goes by that table.   *)
Has(route, kind, any) == \E i \in 1..Len(route.guards) : route.guards[i] = Guard(kind, any)

Guarded(route) ==
  LET base == route.path[1]
      end == route.path[Len(route.path)]
      write == route.verb # "GET"
  IN
  /\ Len(route.guards) \in Nat
  /\ base = "cabinets" /\ write /\ NamesCabinet(route) =>
       \/ Has(route, "cabinetRoles", {"OWNER"})
       \/ Has(route, "inHandler", {"OWNER"})
       \/ /\ end \in {"hide", "show", "leave"}
          /\ (Has(route, "cabinetRoles", CabinetRole) \/ Has(route, "inHandler", CabinetRole))
  /\ base = "demands" /\ write /\ end \in {":id", "assign", "unlink", "progress"} =>
       Has(route, "inDemand", {}) \/ (end = ":id" /\ Has(route, "demandAccess", {}))
  /\ base = "results" /\ write =>
       Has(route, "resultAccess", {}) \/ Has(route, "inHandler", CabinetRole)
  /\ (base = "admin" \/ (base = "categories" /\ write) \/ (base = "users" /\ Len(route.path) = 1)) =>
       Has(route, "roles", {"ADMIN"})
  /\ (write /\ ~(base = "auth" /\ end # "change-password")
            /\ ~(base = "demands"
                    /\ (Len(route.path) = 1 \/ end \in {"presign", "confirm", ":token"}))) =>
       Has(route, "jwt", {})
  /\ Len(route.path) > 1 /\ route.path[2] = "me" => Has(route, "jwt", {})
  /\ NamesCabinet(route) /\ end \in {"report", "widget.js"} =>
       \E f \in Features : Has(route, "feature", {f})
  /\ (NamesCabinet(route)
        /\ (\/ end = "report"
            \/ base = "cabinets" /\ route.verb = "PATCH" /\ end = ":slug"
            \/ base = "cabinets" /\ route.verb = "POST" /\ end = "invites")) =>
       Has(route, "subscription", {}) /\ ~NamesById(route, "demands")

ASSUME RoutesAreGuarded ==
  \A i \in DOMAIN AllRoutes : Guarded(Dispatch(AllRoutes[i].verb, AllRoutes[i].path))

Arriving(route, u, c, d, x, p) ==
  [NoRequest EXCEPT !.route = route, !.bearer = u, !.cabinet = c, !.demand = d,
                    !.result = x, !.profile = p]

(* A client asks for the path of some route; c may be the slug of none.    *)
Receive ==
  /\ request = NoRequest
  /\ served < MaxRequests
  /\ \E i \in DOMAIN AllRoutes, u \in Users \cup {NONE} :
       LET asked == AllRoutes[i]
           route == Dispatch(asked.verb, asked.path)
       IN
       \E c \in OrNone(Cabinets \cup {NONE}, NamesCabinet(route)),
          d \in OrNone(Demands, NamesById(route, "demands")),
          x \in OrNone(Results, NamesById(route, "results")),
          p \in OrNone(Users, NamesById(route, "users")) :
         request' = Arriving(route, u, c, d, x, p)
  /\ known' = facts
  /\ served' = served + 1
  /\ UNCHANGED <<facts, changes>>

AtGuard(kind) ==
  /\ request.next <= Len(request.route.guards)
  /\ request.route.guards[request.next].kind = kind

Wanted == request.route.guards[request.next].any

AtHandler == request # NoRequest /\ request.next > Len(request.route.guards)

Admit == request' = [request EXCEPT !.next = @ + 1, !.loaded = NONE, !.plan = {}]

Enabled(u) == <<"enabled", u>> \in facts
RoleOf(u) == CHOOSE k \in UserRole : <<"role", u, k>> \in facts
MemberAs(u, c, roles) == \E k \in roles : <<"member", u, c, k>> \in facts
Owns(c, d) == <<"owns", d, c>> \in facts

AttachIfKnown ==                   \* variant: the account may be disabled
  /\ request.bearer # NONE
  /\ request' = [request EXCEPT !.next = @ + 1, !.me = request.bearer,
                                !.role = RoleOf(request.bearer)]

(* JwtStrategy.validate: the user of the token, as its row is now. *)
Attach ==
  /\ request.bearer # NONE
  /\ Enabled(request.bearer)
  /\ request' = [request EXCEPT !.next = @ + 1, !.me = request.bearer,
                                !.role = RoleOf(request.bearer)]

Authenticate ==
  /\ AtGuard("jwt")
  /\ Attach

(* Whatever goes wrong, the request goes on without a user. *)
AuthenticateIfPossible ==
  /\ AtGuard("optional")
  /\ Attach \/ ((request.bearer = NONE \/ ~Enabled(request.bearer)) /\ Admit)

CheckGoogle == AtGuard("google") /\ Admit

CheckRole ==
  /\ AtGuard("roles")
  /\ request.me # NONE
  /\ request.role \in Wanted
  /\ Admit

CheckProfile ==
  /\ AtGuard("userAccess")
  /\ request.me # NONE
  /\ request.role = "ADMIN" \/ request.me = request.profile
  /\ Admit

(* A slug that names no cabinet is left to the handler, which finds none. *)
CheckCabinetRole ==
  /\ AtGuard("cabinetRoles")
  /\ request.me # NONE
  /\ \/ request.role = "ADMIN"
     \/ request.cabinet = NONE
     \/ MemberAs(request.me, request.cabinet, Wanted)
  /\ Admit

(* First the demand and its cabinet, then the membership in that cabinet.  *)
LoadDemand ==
  /\ AtGuard("demandAccess") \/ AtGuard("inDemand")
  /\ request.me # NONE /\ request.loaded = NONE
  /\ \E c \in Cabinets :
       Owns(c, request.demand) /\ request' = [request EXCEPT !.loaded = c]

CheckDemandAccess ==
  /\ AtGuard("demandAccess")
  /\ \/ request.me # NONE /\ request.role = "ADMIN"
     \/ request.loaded # NONE /\ MemberAs(request.me, request.loaded, CabinetRole)
  /\ Admit

CheckInDemand ==
  /\ AtGuard("inDemand")
  /\ request.loaded # NONE
  /\ MemberAs(request.me, request.loaded, CabinetRole)
  /\ Admit

(* The cabinet of a result never changes. *)
CheckResultAccess ==
  /\ AtGuard("resultAccess")
  /\ request.me # NONE
  /\ \E c \in Cabinets : /\ <<"result", request.result, c>> \in facts
                         /\ MemberAs(request.me, c, CabinetRole)
  /\ Admit

CheckInHandler ==
  /\ AtGuard("inHandler")
  /\ request.cabinet # NONE
  /\ MemberAs(request.me, request.cabinet, Wanted)
  /\ Admit

(* The cabinet named, the owner of the demand named, or else any cabinet   *)
(* of the caller; without one there is nothing to check.                   *)
ResolveCabinet ==
  /\ AtGuard("subscription") /\ request.loaded = NONE
  /\ LET own == {c \in Cabinets : request.me # NONE /\ MemberAs(request.me, c, CabinetRole)}
         candidates == IF request.demand = NONE THEN {request.cabinet}
                       ELSE IF \E c \in Cabinets : Owns(c, request.demand)
                       THEN {c \in Cabinets : Owns(c, request.demand)}
                       ELSE IF own # {} THEN own ELSE {NONE}
     IN \E c \in candidates :
          IF c = NONE THEN Admit ELSE request' = [request EXCEPT !.loaded = c]

CheckSubscription ==
  /\ AtGuard("subscription") /\ request.loaded # NONE
  /\ <<"active", request.loaded>> \in facts
  /\ Admit

(* FeatureGuard reads the subscription with its plan, then the overrides;  *)
(* a slug that names no cabinet is left to the handler.                    *)
Planned(c) == {f \in Features : <<"planned", c, f>> \in facts}

ReadPlan ==
  /\ AtGuard("feature") /\ request.cabinet # NONE /\ request.loaded = NONE
  /\ request' = [request EXCEPT !.loaded = request.cabinet, !.plan = Planned(request.cabinet)]

CheckFeatureOfPlan ==              \* variant: BLOCK overrides are not looked at
  /\ AtGuard("feature")
  /\ request.cabinet # NONE =>
       /\ request.loaded # NONE
       /\ \A f \in Wanted : f \in request.plan \/ <<"granted", request.cabinet, f>> \in facts
  /\ Admit

CheckFeature ==
  /\ AtGuard("feature")
  /\ request.cabinet # NONE =>
       /\ request.loaded # NONE
       /\ \A f \in Wanted :
            /\ <<"unblocked", request.cabinet, f>> \in facts
            /\ f \in request.plan \/ <<"granted", request.cabinet, f>> \in facts
  /\ Admit

RunGuard ==
  /\ \/ Authenticate      \/ AuthenticateIfPossible \/ CheckGoogle
     \/ CheckRole         \/ CheckProfile           \/ CheckCabinetRole
     \/ LoadDemand        \/ CheckDemandAccess      \/ CheckInDemand
     \/ CheckResultAccess \/ CheckInHandler
     \/ ResolveCabinet    \/ CheckSubscription
     \/ ReadPlan          \/ CheckFeature
  /\ UNCHANGED <<facts, known, served, changes>>

(* A guard refuses, or the handler has done its work. *)
Leave ==
  /\ request # NoRequest
  /\ request' = NoRequest
  /\ known' = {}
  /\ UNCHANGED <<facts, served, changes>>

-----------------------------------------------------------------------------
(* Writes of other requests. *)
Become(F) ==
  /\ changes < MaxChanges
  /\ F # facts
  /\ facts' = F
  /\ known' = IF request = NoRequest THEN {} ELSE known \cup F
  /\ changes' = changes + 1
  /\ UNCHANGED <<request, served>>

DisableUser(u) == Become(facts \ {<<"enabled", u>>})
EnableUser(u) == Become(facts \cup {<<"enabled", u>>})

UpdateUserRole(u, k) == Become((facts \ {<<"role", u, j>> : j \in UserRole}) \cup {<<"role", u, k>>})

Memberships(u, c) == {<<"member", u, c, k>> : k \in CabinetRole}

AddMember(u, c, k) ==
  /\ facts \cap Memberships(u, c) = {}
  /\ Become(facts \cup {<<"member", u, c, k>>})

RemoveMember(u, c) == Become(facts \ Memberships(u, c))

UpdateMemberRole(u, c, k) ==
  /\ facts \cap Memberships(u, c) # {}
  /\ Become((facts \ Memberships(u, c)) \cup {<<"member", u, c, k>>})

Ownership(d) == {<<"owns", d, c>> : c \in Cabinets}

ClaimDemand(d, c) == Become((facts \ Ownership(d)) \cup {<<"owns", d, c>>})
UnlinkDemand(d) == Become(facts \ Ownership(d))

(* A new subscription; one that is canceled, or whose period is over while  *)
(* its row still has the status that FeatureGuard asks for.                *)
PlanFacts(c, F) == {<<"planned", c, f>> : f \in F}

StartSubscription(c, F) ==
  Become((facts \ PlanFacts(c, Features)) \cup {<<"active", c>>} \cup PlanFacts(c, F))
CancelSubscription(c) == Become(facts \ ({<<"active", c>>} \cup PlanFacts(c, Features)))
EndPeriod(c) == Become(facts \ {<<"active", c>>})

(* A plan gains or loses a feature, for some of the cabinets subscribed.   *)
ExtendPlan(C, f) ==
  /\ \A c \in C : <<"active", c>> \in facts
  /\ Become(facts \cup {<<"planned", c, f>> : c \in C})
ReducePlan(C, f) == Become(facts \ {<<"planned", c, f>> : c \in C})

GrantFeature(c, f) == Become(facts \cup {<<"granted", c, f>>, <<"unblocked", c, f>>})
BlockFeature(c, f) == Become(facts \ {<<"granted", c, f>>, <<"unblocked", c, f>>})
RemoveOverride(c, f) == Become((facts \ {<<"granted", c, f>>}) \cup {<<"unblocked", c, f>>})

ChangeEntitlements ==
  \/ \E c \in Cabinets, F \in SUBSET Features : StartSubscription(c, F)
  \/ \E c \in Cabinets : CancelSubscription(c) \/ EndPeriod(c)
  \/ \E C \in SUBSET Cabinets, f \in Features : ExtendPlan(C, f) \/ ReducePlan(C, f)
  \/ \E c \in Cabinets, f \in Features :
       GrantFeature(c, f) \/ BlockFeature(c, f) \/ RemoveOverride(c, f)

ChangeFacts ==
  \/ \E u \in Users : DisableUser(u) \/ EnableUser(u)
  \/ \E u \in Users, k \in UserRole : UpdateUserRole(u, k)
  \/ \E u \in Users, c \in Cabinets : RemoveMember(u, c)
  \/ \E u \in Users, c \in Cabinets, k \in CabinetRole : AddMember(u, c, k) \/ UpdateMemberRole(u, c, k)
  \/ \E d \in Demands, c \in Cabinets : ClaimDemand(d, c) \/ UnlinkDemand(d)
  \/ ChangeEntitlements

Next ==
  \/ Receive
  \/ RunGuard
  \/ Leave
  \/ ChangeFacts

Spec == Init /\ [][Next]_vars

-----------------------------------------------------------------------------
(* What the caller was since the request arrived. *)
WasAdmin == request.me # NONE /\ <<"role", request.me, "ADMIN">> \in known
WasIn(c, roles) == request.me # NONE /\ \E k \in roles : <<"member", request.me, c, k>> \in known
WasEnabled == request.me # NONE /\ <<"enabled", request.me>> \in known

IsWrite == request.route.verb # "GET"
Under(base) == request # NoRequest /\ request.route.path[1] = base
Ends(with) == request.route.path[Len(request.route.path)] = with

(* A request that is to change a cabinet, its page, its team or its        *)
(* invitations was sent by an administrator or by one of its owners; its   *)
(* staff may only hide testimonials and leave.                             *)
OwnersRunTheirCabinet ==
  AtHandler /\ Under("cabinets") /\ IsWrite /\ request.cabinet # NONE =>
    \/ WasAdmin
    \/ WasIn(request.cabinet, {"OWNER"})
    \/ /\ Ends("hide") \/ Ends("show") \/ Ends("leave")
       /\ WasIn(request.cabinet, CabinetRole)

(* A demand is edited, assigned, unlinked, moved along or deleted, and a   *)
(* result published or changed, on behalf of a cabinet that had them: by   *)
(* one of its members, or for a demand's edit or deletion by an            *)
(* administrator.                                                          *)
MembersRunTheirDemands ==
  /\ AtHandler /\ IsWrite /\ Under("demands")
       /\ (Ends(":id") \/ Ends("assign") \/ Ends("unlink") \/ Ends("progress")) =>
     \/ WasAdmin /\ Ends(":id")
     \/ \E c \in Cabinets : <<"owns", request.demand, c>> \in known /\ WasIn(c, CabinetRole)
  /\ AtHandler /\ IsWrite /\ Under("results") =>
     \E c \in Cabinets :
       /\ c = request.cabinet \/ <<"result", request.result, c>> \in known
       /\ WasIn(c, CabinetRole)

(* The administration's handlers, the writes to the categories and the     *)
(* list of users are entered on behalf of administrators only.             *)
AdminAreaIsClosed ==
  AtHandler /\ (\/ Under("admin")
                \/ Under("categories") /\ IsWrite
                \/ Under("users") /\ Len(request.route.path) = 1) => WasAdmin

(* Writes a visitor without an account may make. *)
OpenToVisitors ==
  \/ Under("auth") /\ ~Ends("change-password")
  \/ Under("demands") /\ (Len(request.route.path) = 1 \/ Ends("presign") \/ Ends("confirm")
                            \/ Ends(":token"))

(* Every other write, and every read of data of one's own, is made by a    *)
(* user whose account was enabled since the request arrived, however long  *)
(* its access token has still to live.                                     *)
DisabledAccountsAreShutOut ==
  AtHandler /\ (\/ IsWrite /\ ~OpenToVisitors
                \/ Len(request.route.path) > 1 /\ request.route.path[2] = "me") => WasEnabled

(* The report, the widget, the edits of the page and the invitations are   *)
(* there for cabinets that had the feature, by their plan or by a grant,   *)
(* that were not blocked from it, and that had a running subscription.     *)
(* Each was so at some moment: the guard reads the plan before it reads    *)
(* the overrides, so it can let a cabinet pass that never had the feature  *)
(* in its plan and unblocked at once.                                      *)
PaidFeaturesArePaid ==
  AtHandler /\ request.cabinet # NONE =>
    /\ Ends("report") \/ Ends("widget.js") =>
         \E f \in Features :
           /\ <<"unblocked", request.cabinet, f>> \in known
           /\ \/ <<"planned", request.cabinet, f>> \in known
              \/ <<"granted", request.cabinet, f>> \in known
    /\ \/ Ends("report")
       \/ Under("cabinets") /\ request.route.verb = "PATCH" /\ Ends(":slug")
       \/ Under("cabinets") /\ request.route.verb = "POST" /\ Ends("invites")
         => <<"active", request.cabinet>> \in known

(* What the four kinds of routes require was true when the handler ran, or *)
(* at least while its guards did, whichever route the request went to.     *)
OnlyTheEntitledAreServed ==
  /\ OwnersRunTheirCabinet
  /\ MembersRunTheirDemands
  /\ AdminAreaIsClosed
  /\ PaidFeaturesArePaid
=============================================================================
