------------------------- MODULE AccessControlProofs ------------------------
(***************************************************************************)
(* Proofs about the guards of a request, for any number of users,          *)
(* cabinets, demands, results, requests and changes of the tables between  *)
(* two guards.  What the table of the routes says is RoutesAreGuarded.     *)
(***************************************************************************)
EXTENDS AccessControl, TLAPS

(* What is known of the caller of request q, K being what the tables said. *)
AdminIn(q, K) == q.me # NONE /\ <<"role", q.me, "ADMIN">> \in K
MemberIn(q, K, c, roles) == q.me # NONE /\ \E k \in roles : <<"member", q.me, c, k>> \in K
HolderIn(q, K) ==
  \E c \in Cabinets : <<"owns", q.demand, c>> \in K /\ MemberIn(q, K, c, CabinetRole)
PublisherIn(q, K) ==
  \E c \in Cabinets : <<"result", q.result, c>> \in K /\ MemberIn(q, K, c, CabinetRole)

(* The feature is not blocked, and it is in the plan or granted.           *)
PaidIn(c, K, f) ==
  /\ <<"unblocked", c, f>> \in K
  /\ <<"planned", c, f>> \in K \/ <<"granted", c, f>> \in K

(* What a guard leaves behind once it has let q pass. *)
Passed(q, K, g) ==
  /\ g.kind = "jwt" => q.me # NONE /\ <<"enabled", q.me>> \in K
  /\ g.kind = "roles" => q.me # NONE /\ \E k \in g.any : <<"role", q.me, k>> \in K
  /\ g.kind = "cabinetRoles" =>
       AdminIn(q, K) \/ q.cabinet = NONE \/ MemberIn(q, K, q.cabinet, g.any)
  /\ g.kind = "demandAccess" => AdminIn(q, K) \/ HolderIn(q, K)
  /\ g.kind = "inDemand" => HolderIn(q, K)
  /\ g.kind = "resultAccess" => PublisherIn(q, K)
  /\ g.kind = "inHandler" => q.cabinet \in Cabinets /\ MemberIn(q, K, q.cabinet, g.any)
  /\ g.kind = "subscription" /\ q.demand = NONE /\ q.cabinet # NONE =>
       <<"active", q.cabinet>> \in K
  /\ g.kind = "feature" /\ q.cabinet # NONE =>
       \A f \in g.any : PaidIn(q.cabinet, K, f)

(* Which cabinet and which plan a guard has found, between its two reads.  *)
Resolved(q, K) ==
  q.loaded # NONE =>
    /\ q.next <= Len(q.route.guards)
    /\ q.route.guards[q.next].kind \in {"demandAccess", "inDemand", "subscription", "feature"}
    /\ q.route.guards[q.next].kind = "feature" =>
         \A f \in q.plan : <<"planned", q.cabinet, f>> \in K
    /\ q.route.guards[q.next].kind \in {"demandAccess", "inDemand"} =>
         q.loaded \in Cabinets /\ <<"owns", q.demand, q.loaded>> \in K
    /\ q.route.guards[q.next].kind = "subscription" /\ q.demand = NONE => q.loaded = q.cabinet

(* The user that the access token names, if a guard has asked for it. *)
Attached(q, K) ==
  q.me # NONE => /\ q.me = q.bearer
                 /\ <<"enabled", q.me>> \in K /\ <<"role", q.me, q.role>> \in K

Named(q) ==
  /\ \E i \in DOMAIN AllRoutes : q.route = Dispatch(AllRoutes[i].verb, AllRoutes[i].path)
  /\ q.cabinet \in OrNone(Cabinets \cup {NONE}, NamesCabinet(q.route))
  /\ q.demand \in OrNone(Demands, NamesById(q.route, "demands"))

Fields == {"route", "bearer", "cabinet", "demand", "result", "profile", "next", "me", "role",
           "loaded", "plan"}

Sound(q, K) ==
  /\ DOMAIN q = Fields /\ q.next \in Nat \ {0} /\ q.bearer \in Users \cup {NONE}
  /\ Named(q) /\ Attached(q, K) /\ Resolved(q, K)
  /\ \A i \in 1..(q.next - 1) : Passed(q, K, q.route.guards[i])

(* Every user has a role, and only users are members. *)
Consistent(F) ==
  /\ \A u \in Users : \E k \in UserRole : <<"role", u, k>> \in F
  /\ \A u, c, k : <<"member", u, c, k>> \in F => u \in Users

GuardsInv ==
  /\ Consistent(facts)
  /\ request # NoRequest => facts \subseteq known /\ Sound(request, known)

-----------------------------------------------------------------------------
(* What was true stays known, whatever the tables say later. *)
LEMMA PassedStays ==
  ASSUME NEW p, NEW q, NEW K, NEW L, NEW g, Passed(p, K, g), K \subseteq L,
         p.me \in {NONE, q.me}, q.cabinet = p.cabinet, q.demand = p.demand,
         q.result = p.result
  PROVE  Passed(q, L, g)
<1>1. AdminIn(p, K) => AdminIn(q, L)
  BY DEF AdminIn
<1>2. \A c, roles : MemberIn(p, K, c, roles) => MemberIn(q, L, c, roles)
  BY DEF MemberIn
<1>3. /\ HolderIn(p, K) => HolderIn(q, L)
      /\ PublisherIn(p, K) => PublisherIn(q, L)
  BY <1>2 DEF HolderIn, PublisherIn
<1>4. p.me # NONE => q.me = p.me
  OBVIOUS
<1> QED
  BY <1>1, <1>2, <1>3, <1>4 DEF Passed, PaidIn

LEMMA KnownGrows ==
  ASSUME NEW q, NEW K, NEW L, Sound(q, K), K \subseteq L
  PROVE  Sound(q, L)
<1>1. \A i \in 1..(q.next - 1) : Passed(q, L, q.route.guards[i])
  BY PassedStays DEF Sound
<1>2. Attached(q, L) /\ Resolved(q, L)
  BY DEF Sound, Attached, Resolved
<1> QED
  BY <1>1, <1>2 DEF Sound

(* A guard that lets a request pass. *)
LEMMA AdmitSound ==
  ASSUME Sound(request, known), Admit, request.next <= Len(request.route.guards),
         Passed(request, known, request.route.guards[request.next])
  PROVE  Sound(request', known)
<1>1. PICK q : q = request'
  OBVIOUS
<1>2. /\ DOMAIN q = Fields /\ q.next = request.next + 1 /\ q.loaded = NONE
      /\ q.route = request.route /\ q.bearer = request.bearer /\ q.cabinet = request.cabinet
      /\ q.demand = request.demand /\ q.result = request.result /\ q.me = request.me
      /\ q.role = request.role
  BY <1>1 DEF Admit, Sound, Fields
<1>3. /\ q.next \in Nat \ {0} /\ q.bearer \in Users \cup {NONE} /\ Named(q)
      /\ Attached(q, known) /\ Resolved(q, known)
  BY <1>2 DEF Sound, Named, Attached, Resolved
<1>4. ASSUME NEW i \in 1..(q.next - 1) PROVE Passed(q, known, q.route.guards[i])
  <2>1. i \in 1..(request.next - 1) \/ i = request.next
    BY <1>2 DEF Sound
  <2>2. Passed(request, known, request.route.guards[i])
    BY <2>1 DEF Sound
  <2>. QED
    BY <1>2, <2>2, PassedStays
<1> QED
  BY <1>1, <1>2, <1>3, <1>4 DEF Sound

LEMMA AttachSound ==
  ASSUME Sound(request, known), Consistent(facts), facts \subseteq known, Attach,
         request.next <= Len(request.route.guards),
         request.route.guards[request.next].kind \in {"jwt", "optional"}
  PROVE  Sound(request', known)
<1>. USE AccessAssumption
<1>1. PICK q : q = request'
  OBVIOUS
<1>2. /\ DOMAIN q = Fields /\ q.next = request.next + 1 /\ q.loaded = request.loaded
      /\ q.route = request.route /\ q.bearer = request.bearer /\ q.cabinet = request.cabinet
      /\ q.demand = request.demand /\ q.result = request.result
      /\ q.me = request.bearer /\ q.role = RoleOf(request.bearer)
  BY <1>1 DEF Attach, Sound, Fields
<1>3. request.bearer \in Users /\ request.bearer # NONE /\ <<"enabled", request.bearer>> \in facts
  BY DEF Attach, Enabled, Sound
<1>4. <<"role", request.bearer, RoleOf(request.bearer)>> \in facts
  <2>1. \E k \in UserRole : <<"role", request.bearer, k>> \in facts
    BY <1>3 DEF Consistent
  <2>. QED
    BY <2>1 DEF RoleOf
<1>5. q.loaded = NONE
  BY <1>2 DEF Sound, Resolved
<1>6. /\ q.next \in Nat \ {0} /\ q.bearer \in Users \cup {NONE} /\ Named(q)
      /\ Attached(q, known) /\ Resolved(q, known)
  BY <1>2, <1>3, <1>4, <1>5 DEF Sound, Named, Attached, Resolved
<1>7. ASSUME NEW i \in 1..(q.next - 1) PROVE Passed(q, known, q.route.guards[i])
  <2>1. CASE i \in 1..(request.next - 1)
    <3>1. Passed(request, known, request.route.guards[i])
      BY <2>1 DEF Sound
    <3>2. request.me \in {NONE, q.me}
      BY <1>2 DEF Sound, Attached
    <3>. QED
      BY <1>2, <3>1, <3>2, PassedStays
  <2>2. CASE i = request.next
    BY <1>2, <1>3, <2>2 DEF Passed
  <2>. QED
    BY <1>2, <2>1, <2>2 DEF Sound
<1> QED
  BY <1>1, <1>2, <1>6, <1>7 DEF Sound

(* The first of the two statements of a guard about a demand. *)
LEMMA LoadSound ==
  ASSUME Sound(request, known), NEW c \in Cabinets,
         request' = [request EXCEPT !.loaded = c],
         request.next <= Len(request.route.guards),
         \/ /\ request.route.guards[request.next].kind \in {"demandAccess", "inDemand"}
            /\ <<"owns", request.demand, c>> \in known
         \/ /\ request.route.guards[request.next].kind = "subscription"
            /\ request.demand = NONE => c = request.cabinet
  PROVE  Sound(request', known)
<1>1. PICK q : q = request'
  OBVIOUS
<1>2. /\ DOMAIN q = Fields /\ q.next = request.next /\ q.loaded = c
      /\ q.route = request.route /\ q.bearer = request.bearer /\ q.cabinet = request.cabinet
      /\ q.demand = request.demand /\ q.result = request.result /\ q.me = request.me
      /\ q.role = request.role
  BY <1>1 DEF Sound, Fields
<1>3. /\ q.next \in Nat \ {0} /\ q.bearer \in Users \cup {NONE} /\ Named(q)
      /\ Attached(q, known) /\ Resolved(q, known)
  BY <1>2 DEF Sound, Named, Attached, Resolved
<1>4. ASSUME NEW i \in 1..(q.next - 1) PROVE Passed(q, known, q.route.guards[i])
  BY <1>2, PassedStays DEF Sound
<1> QED
  BY <1>1, <1>2, <1>3, <1>4 DEF Sound

LEMMA ReadPlanSound ==
  ASSUME Sound(request, known), NEW F, \A f \in F : <<"planned", request.cabinet, f>> \in known,
         request' = [request EXCEPT !.loaded = request.cabinet, !.plan = F],
         request.next <= Len(request.route.guards),
         request.route.guards[request.next].kind = "feature"
  PROVE  Sound(request', known)
<1>1. PICK q : q = request'
  OBVIOUS
<1>2. /\ DOMAIN q = Fields /\ q.next = request.next /\ q.plan = F
      /\ q.route = request.route /\ q.bearer = request.bearer /\ q.cabinet = request.cabinet
      /\ q.demand = request.demand /\ q.result = request.result /\ q.me = request.me
      /\ q.role = request.role
  BY <1>1 DEF Sound, Fields
<1>3. /\ q.next \in Nat \ {0} /\ q.bearer \in Users \cup {NONE} /\ Named(q)
      /\ Attached(q, known) /\ Resolved(q, known)
  BY <1>2 DEF Sound, Named, Attached, Resolved
<1>4. ASSUME NEW i \in 1..(q.next - 1) PROVE Passed(q, known, q.route.guards[i])
  BY <1>2, PassedStays DEF Sound
<1> QED
  BY <1>1, <1>2, <1>3, <1>4 DEF Sound

-----------------------------------------------------------------------------
LEMMA GuardsStep ==
  ASSUME Sound(request, known), Consistent(facts), facts \subseteq known, RunGuard
  PROVE  Sound(request', known)
<1>. USE AccessAssumption
<1>. DEFINE g == request.route.guards[request.next]
<1>0. \A kind : AtGuard(kind) => request.next <= Len(request.route.guards) /\ g.kind = kind
  BY DEF AtGuard
<1>a. \A c, roles : MemberAs(request.me, c, roles) => MemberIn(request, known, c, roles)
  BY DEF MemberAs, MemberIn, Consistent
<1>b. request.me # NONE /\ request.role = "ADMIN" => AdminIn(request, known)
  BY DEF Sound, Attached, AdminIn
<1>c. request.cabinet \in Cabinets \cup {NONE} /\ request.demand \in Demands \cup {NONE}
  BY DEF Sound, Named, OrNone
<1>d. Admit /\ request.next <= Len(request.route.guards) /\ Passed(request, known, g)
        => Sound(request', known)
  BY AdmitSound
<1>1. ASSUME Authenticate \/ (AtGuard("optional") /\ Attach) PROVE Sound(request', known)
  <2>1. Attach /\ (AtGuard("jwt") \/ AtGuard("optional"))
    BY <1>1 DEF Authenticate
  <2>. QED
    BY <1>0, <2>1, AttachSound
<1>2. ASSUME (AtGuard("optional") \/ AtGuard("google")) /\ Admit PROVE Sound(request', known)
  <2>1. g.kind \in {"optional", "google"} /\ request.next <= Len(request.route.guards)
    BY <1>0, <1>2
  <2>2. Passed(request, known, g)
    BY <2>1 DEF Passed
  <2>. QED
    BY <1>2, <1>d, <2>1, <2>2
<1>3. ASSUME CheckRole PROVE Sound(request', known)
  <2>1. /\ g.kind = "roles" /\ request.next <= Len(request.route.guards)
        /\ request.me # NONE /\ request.role \in g.any /\ Admit
    BY <1>0, <1>3 DEF CheckRole, Wanted
  <2>2. <<"role", request.me, request.role>> \in known
    BY <2>1 DEF Sound, Attached
  <2>3. Passed(request, known, g)
    BY <2>1, <2>2 DEF Passed
  <2>. QED
    BY <1>d, <2>1, <2>3
<1>4. ASSUME CheckProfile PROVE Sound(request', known)
  <2>1. g.kind = "userAccess" /\ request.next <= Len(request.route.guards) /\ Admit
    BY <1>0, <1>4 DEF CheckProfile
  <2>2. Passed(request, known, g)
    BY <2>1 DEF Passed
  <2>. QED
    BY <1>d, <2>1, <2>2
<1>5. ASSUME CheckCabinetRole PROVE Sound(request', known)
  <2>1. /\ g.kind = "cabinetRoles" /\ request.next <= Len(request.route.guards) /\ Admit
        /\ \/ AdminIn(request, known)
           \/ request.cabinet = NONE
           \/ MemberIn(request, known, request.cabinet, g.any)
    BY <1>0, <1>5, <1>a, <1>b DEF CheckCabinetRole, Wanted
  <2>2. Passed(request, known, g)
    BY <2>1 DEF Passed
  <2>. QED
    BY <1>d, <2>1, <2>2
<1>6. ASSUME LoadDemand PROVE Sound(request', known)
  <2>1. PICK c \in Cabinets : /\ <<"owns", request.demand, c>> \in facts
                              /\ request' = [request EXCEPT !.loaded = c]
    BY <1>6 DEF LoadDemand, Owns
  <2>2. g.kind \in {"demandAccess", "inDemand"} /\ request.next <= Len(request.route.guards)
    BY <1>0, <1>6 DEF LoadDemand
  <2>. QED
    BY <2>1, <2>2, LoadSound
<1>7. ASSUME CheckDemandAccess PROVE Sound(request', known)
  <2>1. /\ g.kind = "demandAccess" /\ request.next <= Len(request.route.guards) /\ Admit
        /\ \/ AdminIn(request, known)
           \/ request.loaded # NONE /\ MemberIn(request, known, request.loaded, CabinetRole)
    BY <1>0, <1>7, <1>a, <1>b DEF CheckDemandAccess
  <2>2. AdminIn(request, known) \/ HolderIn(request, known)
    BY <2>1 DEF Sound, Resolved, HolderIn
  <2>3. Passed(request, known, g)
    BY <2>1, <2>2 DEF Passed
  <2>. QED
    BY <1>d, <2>1, <2>3
<1>8. ASSUME CheckInDemand PROVE Sound(request', known)
  <2>1. /\ g.kind = "inDemand" /\ request.next <= Len(request.route.guards) /\ Admit
        /\ request.loaded # NONE /\ MemberIn(request, known, request.loaded, CabinetRole)
    BY <1>0, <1>8, <1>a DEF CheckInDemand
  <2>2. HolderIn(request, known)
    BY <2>1 DEF Sound, Resolved, HolderIn
  <2>3. Passed(request, known, g)
    BY <2>1, <2>2 DEF Passed
  <2>. QED
    BY <1>d, <2>1, <2>3
<1>9. ASSUME CheckResultAccess PROVE Sound(request', known)
  <2>1. g.kind = "resultAccess" /\ request.next <= Len(request.route.guards) /\ Admit
    BY <1>0, <1>9 DEF CheckResultAccess
  <2>2. PublisherIn(request, known)
    BY <1>9, <1>a DEF CheckResultAccess, PublisherIn
  <2>3. Passed(request, known, g)
    BY <2>1, <2>2 DEF Passed
  <2>. QED
    BY <1>d, <2>1, <2>3
<1>10. ASSUME CheckInHandler PROVE Sound(request', known)
  <2>1. /\ g.kind = "inHandler" /\ request.next <= Len(request.route.guards) /\ Admit
        /\ request.cabinet # NONE /\ MemberIn(request, known, request.cabinet, g.any)
    BY <1>0, <1>10, <1>a DEF CheckInHandler, Wanted
  <2>2. Passed(request, known, g)
    BY <1>c, <2>1 DEF Passed
  <2>. QED
    BY <1>d, <2>1, <2>2
<1>11. ASSUME ResolveCabinet PROVE Sound(request', known)
  <2>1. g.kind = "subscription" /\ request.next <= Len(request.route.guards)
    BY <1>0, <1>11 DEF ResolveCabinet
  <2>2. PICK c \in Cabinets \cup {NONE} :
          /\ request.demand = NONE => c = request.cabinet
          /\ IF c = NONE THEN Admit ELSE request' = [request EXCEPT !.loaded = c]
    BY <1>11, <1>c DEF ResolveCabinet
  <2>3. CASE c = NONE
    <3>1. Passed(request, known, g)
      BY <2>1, <2>2, <2>3 DEF Passed
    <3>. QED
      BY <1>d, <2>1, <2>2, <2>3, <3>1
  <2>4. CASE c # NONE
    BY <2>1, <2>2, <2>4, LoadSound
  <2>. QED
    BY <2>3, <2>4
<1>12. ASSUME CheckSubscription PROVE Sound(request', known)
  <2>1. /\ g.kind = "subscription" /\ request.next <= Len(request.route.guards) /\ Admit
        /\ request.loaded # NONE /\ <<"active", request.loaded>> \in known
    BY <1>0, <1>12 DEF CheckSubscription
  <2>2. request.demand = NONE => request.loaded = request.cabinet
    BY <2>1 DEF Sound, Resolved
  <2>3. Passed(request, known, g)
    BY <2>1, <2>2 DEF Passed
  <2>. QED
    BY <1>d, <2>1, <2>3
<1>13. ASSUME CheckFeature PROVE Sound(request', known)
  <2>1. /\ g.kind = "feature" /\ request.next <= Len(request.route.guards) /\ Admit
        /\ request.cabinet # NONE =>
             /\ request.loaded # NONE
             /\ \A f \in g.any :
                  /\ <<"unblocked", request.cabinet, f>> \in known
                  /\ f \in request.plan \/ <<"granted", request.cabinet, f>> \in known
    BY <1>0, <1>13 DEF CheckFeature, Wanted
  <2>2. request.loaded # NONE => \A f \in request.plan : <<"planned", request.cabinet, f>> \in known
    BY <2>1 DEF Sound, Resolved
  <2>3. Passed(request, known, g)
    BY <2>1, <2>2 DEF Passed, PaidIn
  <2>. QED
    BY <1>d, <2>1, <2>3
<1>14. ASSUME AuthenticateIfPossible PROVE Sound(request', known)
  BY <1>1, <1>2, <1>14 DEF AuthenticateIfPossible
<1>15. ASSUME CheckGoogle PROVE Sound(request', known)
  BY <1>2, <1>15 DEF CheckGoogle
<1>16. ASSUME ReadPlan PROVE Sound(request', known)
  <2>1. /\ g.kind = "feature" /\ request.next <= Len(request.route.guards)
        /\ request.cabinet \in Cabinets
        /\ request' = [request EXCEPT !.loaded = request.cabinet,
                                      !.plan = Planned(request.cabinet)]
    BY <1>0, <1>16, <1>c DEF ReadPlan
  <2>2. \A f \in Planned(request.cabinet) : <<"planned", request.cabinet, f>> \in known
    BY DEF Planned
  <2>. QED
    BY <2>1, <2>2, ReadPlanSound
<1> QED
  BY <1>1, <1>3, <1>4, <1>5, <1>6, <1>7, <1>8, <1>9, <1>10, <1>11, <1>12, <1>13, <1>14, <1>15, <1>16
  DEF RunGuard

LEMMA NoRequestFields ==
  /\ DOMAIN NoRequest = Fields /\ NoRequest.next = 1 /\ NoRequest.me = NONE
  /\ NoRequest.loaded = NONE /\ NoRequest.route.guards = <<>>
BY DEF NoRequest, Fields, NoRoute, Route

LEMMA ArrivingFields ==
  ASSUME NEW route, NEW u, NEW c, NEW d, NEW x, NEW p, NEW q, q = Arriving(route, u, c, d, x, p)
  PROVE  /\ DOMAIN q = Fields /\ q.next = 1 /\ q.me = NONE /\ q.loaded = NONE
         /\ q.route = route /\ q.bearer = u /\ q.cabinet = c /\ q.demand = d
<1>1. DOMAIN q = Fields
  BY DEF Arriving, NoRequest, Fields
<1>2. q.next = 1 /\ q.me = NONE /\ q.loaded = NONE
  BY DEF Arriving, NoRequest
<1>3. q.route = route /\ q.bearer = u
  BY DEF Arriving, NoRequest
<1>4. q.cabinet = c /\ q.demand = d
  BY DEF Arriving, NoRequest
<1> QED
  BY <1>1, <1>2, <1>3, <1>4

LEMMA ReceiveStep ==
  ASSUME GuardsInv, Receive
  PROVE  GuardsInv'
<1>1. PICK i \in DOMAIN AllRoutes, u \in Users \cup {NONE} :
        LET asked == AllRoutes[i]
            route == Dispatch(asked.verb, asked.path)
        IN
        \E c \in OrNone(Cabinets \cup {NONE}, NamesCabinet(route)),
           d \in OrNone(Demands, NamesById(route, "demands")),
           x \in OrNone(Results, NamesById(route, "results")),
           p \in OrNone(Users, NamesById(route, "users")) :
          request' = Arriving(route, u, c, d, x, p)
  BY DEF Receive
<1>2. PICK route : route = Dispatch(AllRoutes[i].verb, AllRoutes[i].path)
  OBVIOUS
<1>3. PICK c, d, x, p :
        /\ c \in OrNone(Cabinets \cup {NONE}, NamesCabinet(route))
        /\ d \in OrNone(Demands, NamesById(route, "demands"))
        /\ request' = Arriving(route, u, c, d, x, p)
  BY <1>1, <1>2
<1>4. PICK q : q = request'
  OBVIOUS
<1>5. /\ DOMAIN q = Fields /\ q.next = 1 /\ q.me = NONE /\ q.loaded = NONE
      /\ q.route = route /\ q.bearer = u /\ q.cabinet = c /\ q.demand = d
  BY <1>3, <1>4, ArrivingFields
<1>6. Named(q)
  BY <1>2, <1>3, <1>5 DEF Named
<1>7. Sound(q, facts)
  BY <1>5, <1>6 DEF Sound, Attached, Resolved
<1>8. known' = facts /\ facts' = facts
  BY DEF Receive
<1> QED
  BY <1>4, <1>7, <1>8 DEF GuardsInv

LEMMA BecomeStep ==
  ASSUME GuardsInv, NEW F, Become(F), Consistent(F)
  PROVE  GuardsInv'
<1>1. facts' = F /\ request' = request /\ (request # NoRequest => known' = known \cup F)
  BY DEF Become
<1>2. ASSUME request # NoRequest PROVE facts' \subseteq known' /\ Sound(request, known)'
  BY <1>1, <1>2, KnownGrows DEF GuardsInv
<1> QED
  BY <1>1, <1>2 DEF GuardsInv

(* A fact that is no role and no membership comes or goes. *)
LEMMA OtherFacts ==
  ASSUME Consistent(facts), NEW F,
         \A u, k : <<"role", u, k>> \in facts => <<"role", u, k>> \in F,
         \A u, c, k : <<"member", u, c, k>> \in F => <<"member", u, c, k>> \in facts
  PROVE  Consistent(F)
BY DEF Consistent

LEMMA ChangesStep ==
  ASSUME GuardsInv, ChangeFacts
  PROVE  GuardsInv'
<1>0. Consistent(facts)
  BY DEF GuardsInv
<1>1. ASSUME NEW u \in Users, DisableUser(u) \/ EnableUser(u) PROVE GuardsInv'
  <2>1. Consistent(facts \ {<<"enabled", u>>}) /\ Consistent(facts \cup {<<"enabled", u>>})
    BY <1>0, OtherFacts
  <2>. QED
    BY <1>1, <2>1, BecomeStep DEF DisableUser, EnableUser
<1>2. ASSUME NEW u \in Users, NEW k \in UserRole, UpdateUserRole(u, k) PROVE GuardsInv'
  <2>. DEFINE F == (facts \ {<<"role", u, j>> : j \in UserRole}) \cup {<<"role", u, k>>}
  <2>1. ASSUME NEW v \in Users PROVE \E j \in UserRole : <<"role", v, j>> \in F
    <3>1. PICK j \in UserRole : <<"role", v, j>> \in facts
      BY <1>0 DEF Consistent
    <3>2. v # u => <<"role", v, j>> \in F
      BY <3>1
    <3>3. <<"role", u, k>> \in F
      OBVIOUS
    <3>. HIDE DEF F
    <3>. QED
      BY <3>2, <3>3
  <2>2. \A v, c, j : <<"member", v, c, j>> \in F => v \in Users
    BY <1>0 DEF Consistent
  <2>3. Consistent(F)
    BY <2>1, <2>2 DEF Consistent
  <2>. QED
    BY <1>2, <2>3, BecomeStep DEF UpdateUserRole
<1>3. ASSUME NEW u \in Users, NEW c \in Cabinets, RemoveMember(u, c) PROVE GuardsInv'
  <2>1. Consistent(facts \ Memberships(u, c))
    BY <1>0, OtherFacts DEF Memberships
  <2>. QED
    BY <1>3, <2>1, BecomeStep DEF RemoveMember
<1>4. ASSUME NEW u \in Users, NEW c \in Cabinets, NEW k \in CabinetRole,
             AddMember(u, c, k) \/ UpdateMemberRole(u, c, k)
      PROVE  GuardsInv'
  <2>1. Consistent(facts \cup {<<"member", u, c, k>>})
    BY <1>0 DEF Consistent
  <2>2. Consistent((facts \ Memberships(u, c)) \cup {<<"member", u, c, k>>})
    BY <1>0 DEF Consistent, Memberships
  <2>. QED
    BY <1>4, <2>1, <2>2, BecomeStep DEF AddMember, UpdateMemberRole
<1>5. ASSUME NEW d \in Demands, NEW c \in Cabinets, ClaimDemand(d, c) \/ UnlinkDemand(d)
      PROVE  GuardsInv'
  <2>1. Consistent((facts \ Ownership(d)) \cup {<<"owns", d, c>>})
    BY <1>0, OtherFacts DEF Ownership
  <2>2. Consistent(facts \ Ownership(d))
    BY <1>0, OtherFacts DEF Ownership
  <2>. QED
    BY <1>5, <2>1, <2>2, BecomeStep DEF ClaimDemand, UnlinkDemand
<1>6. ASSUME ChangeEntitlements PROVE GuardsInv'
  <2>1. ASSUME NEW c \in Cabinets, NEW F \in SUBSET Features, StartSubscription(c, F)
        PROVE  GuardsInv'
    <3>1. Consistent((facts \ PlanFacts(c, Features)) \cup {<<"active", c>>} \cup PlanFacts(c, F))
      BY <1>0, OtherFacts DEF PlanFacts
    <3>. QED
      BY <2>1, <3>1, BecomeStep DEF StartSubscription
  <2>2. ASSUME NEW c \in Cabinets, CancelSubscription(c) \/ EndPeriod(c) PROVE GuardsInv'
    <3>1. /\ Consistent(facts \ ({<<"active", c>>} \cup PlanFacts(c, Features)))
          /\ Consistent(facts \ {<<"active", c>>})
      BY <1>0, OtherFacts DEF PlanFacts
    <3>. QED
      BY <2>2, <3>1, BecomeStep DEF CancelSubscription, EndPeriod
  <2>3. ASSUME NEW C \in SUBSET Cabinets, NEW f \in Features, ExtendPlan(C, f) \/ ReducePlan(C, f)
        PROVE  GuardsInv'
    <3>1. /\ Consistent(facts \cup {<<"planned", c, f>> : c \in C})
          /\ Consistent(facts \ {<<"planned", c, f>> : c \in C})
      BY <1>0, OtherFacts
    <3>. QED
      BY <2>3, <3>1, BecomeStep DEF ExtendPlan, ReducePlan
  <2>4. ASSUME NEW c \in Cabinets, NEW f \in Features,
               GrantFeature(c, f) \/ BlockFeature(c, f) \/ RemoveOverride(c, f)
        PROVE  GuardsInv'
    <3>1. /\ Consistent(facts \cup {<<"granted", c, f>>, <<"unblocked", c, f>>})
          /\ Consistent(facts \ {<<"granted", c, f>>, <<"unblocked", c, f>>})
          /\ Consistent((facts \ {<<"granted", c, f>>}) \cup {<<"unblocked", c, f>>})
      BY <1>0, OtherFacts
    <3>. QED
      BY <2>4, <3>1, BecomeStep DEF GrantFeature, BlockFeature, RemoveOverride
  <2>. QED
    BY <1>6, <2>1, <2>2, <2>3, <2>4 DEF ChangeEntitlements
<1> QED
  BY <1>1, <1>2, <1>3, <1>4, <1>5, <1>6 DEF ChangeFacts

-----------------------------------------------------------------------------
LEMMA GuardsStart == Init => GuardsInv
<1> SUFFICES ASSUME Init PROVE GuardsInv
  OBVIOUS
<1>2. ASSUME NEW u \in Users PROVE \E k \in UserRole : <<"role", u, k>> \in facts
  BY DEF Init
<1>3. ASSUME NEW u, NEW c, NEW k, <<"member", u, c, k>> \in facts PROVE u \in Users
  BY <1>3 DEF Init
<1>4. request = NoRequest
  BY DEF Init
<1> QED
  BY <1>2, <1>3, <1>4 DEF GuardsInv, Consistent

LEMMA GuardsNext == GuardsInv /\ [Next]_vars => GuardsInv'
<1> SUFFICES ASSUME GuardsInv, [Next]_vars PROVE GuardsInv'
  OBVIOUS
<1>1. CASE Receive
  BY <1>1, ReceiveStep
<1>2. CASE RunGuard
  <2>1. request # NoRequest
    <3> SUFFICES ASSUME request = NoRequest PROVE FALSE
      OBVIOUS
    <3>1. Len(request.route.guards) = 0 /\ request.next = 1 /\ request.loaded = NONE
      BY NoRequestFields
    <3>2. \A kind : ~AtGuard(kind)
      BY <3>1 DEF AtGuard
    <3>. QED
      BY <1>2, <3>1, <3>2
      DEF RunGuard, Authenticate, AuthenticateIfPossible, CheckGoogle, CheckRole, CheckProfile,
          CheckCabinetRole, LoadDemand, CheckDemandAccess, CheckInDemand, CheckResultAccess,
          CheckInHandler, ResolveCabinet, CheckSubscription, ReadPlan, CheckFeature
  <2>2. Sound(request', known)
    BY <1>2, <2>1, GuardsStep DEF GuardsInv
  <2>3. facts' = facts /\ known' = known
    BY <1>2 DEF RunGuard
  <2>. QED
    BY <2>1, <2>2, <2>3 DEF GuardsInv
<1>3. CASE Leave
  BY <1>3 DEF Leave, GuardsInv
<1>4. CASE ChangeFacts
  BY <1>4, ChangesStep
<1>5. CASE UNCHANGED vars
  BY <1>5 DEF vars, GuardsInv
<1> QED
  BY <1>1, <1>2, <1>3, <1>4, <1>5 DEF Next

LEMMA GuardsAlways == Spec => []GuardsInv
<1> QED
  BY GuardsStart, GuardsNext, PTL DEF Spec

-----------------------------------------------------------------------------
(* The handler runs after every guard of its route. *)
LEMMA HandlerFollows ==
  ASSUME GuardsInv, AtHandler
  PROVE  /\ Guarded(request.route) /\ Named(request)
         /\ \A kind, any : Has(request.route, kind, any) =>
              Passed(request, known, Guard(kind, any))
<1>1. Sound(request, known) /\ request.next > Len(request.route.guards)
  BY DEF GuardsInv, AtHandler
<1>2. Guarded(request.route) /\ Named(request)
  BY <1>1, RoutesAreGuarded DEF Sound, Named
<1>3. Len(request.route.guards) \in Nat /\ request.next \in Nat
  BY <1>1, <1>2 DEF Guarded, Sound
<1>4. ASSUME NEW kind, NEW any, Has(request.route, kind, any)
      PROVE  Passed(request, known, Guard(kind, any))
  <2>1. PICK i \in 1..Len(request.route.guards) : request.route.guards[i] = Guard(kind, any)
    BY <1>4 DEF Has
  <2>2. i \in 1..(request.next - 1)
    BY <1>1, <1>3
  <2>. QED
    BY <1>1, <2>1, <2>2 DEF Sound
<1> QED
  BY <1>2, <1>4

(* What each kind of guard says at the handler. *)
LEMMA HandlerKnows ==
  ASSUME GuardsInv, AtHandler, NEW any
  PROVE  /\ Has(request.route, "jwt", any) => WasEnabled
         /\ Has(request.route, "roles", {"ADMIN"}) => WasAdmin
         /\ Has(request.route, "cabinetRoles", any) =>
              WasAdmin \/ request.cabinet = NONE \/ WasIn(request.cabinet, any)
         /\ Has(request.route, "demandAccess", any) =>
              WasAdmin \/ HolderIn(request, known)
         /\ Has(request.route, "inDemand", any) => HolderIn(request, known)
         /\ Has(request.route, "resultAccess", any) => PublisherIn(request, known)
         /\ Has(request.route, "inHandler", any) =>
              request.cabinet \in Cabinets /\ WasIn(request.cabinet, any)
         /\ Has(request.route, "subscription", any)
              /\ request.demand = NONE /\ request.cabinet # NONE =>
              <<"active", request.cabinet>> \in known
         /\ Has(request.route, "feature", any) /\ request.cabinet # NONE =>
              \A f \in any : PaidIn(request.cabinet, known, f)
<1>. DEFINE P(kind, a) == Passed(request, known, Guard(kind, a))
<1>1. \A kind, a : Has(request.route, kind, a) => P(kind, a)
  BY HandlerFollows
<1>2. \A kind, a : Guard(kind, a).kind = kind /\ Guard(kind, a).any = a
  BY DEF Guard
<1>3. P("jwt", any) => WasEnabled
  BY <1>2 DEF Passed, WasEnabled
<1>4. P("roles", {"ADMIN"}) => WasAdmin
  <2>1. PICK a : a = {"ADMIN"}
    OBVIOUS
  <2>2. P("roles", a) => \E k \in a : request.me # NONE /\ <<"role", request.me, k>> \in known
    BY <1>2 DEF Passed
  <2>. QED
    BY <2>1, <2>2 DEF WasAdmin
<1>5. P("cabinetRoles", any) =>
        WasAdmin \/ request.cabinet = NONE \/ WasIn(request.cabinet, any)
  BY <1>2 DEF Passed, WasAdmin, WasIn, AdminIn, MemberIn
<1>6. P("demandAccess", any) => WasAdmin \/ HolderIn(request, known)
  BY <1>2 DEF Passed, WasAdmin, AdminIn
<1>7. /\ P("inDemand", any) => HolderIn(request, known)
      /\ P("resultAccess", any) => PublisherIn(request, known)
  BY <1>2 DEF Passed
<1>8. P("inHandler", any) => request.cabinet \in Cabinets /\ WasIn(request.cabinet, any)
  BY <1>2 DEF Passed, WasIn, MemberIn
<1>9. P("subscription", any) /\ request.demand = NONE /\ request.cabinet # NONE =>
        <<"active", request.cabinet>> \in known
  BY <1>2 DEF Passed
<1>10. P("feature", any) /\ request.cabinet # NONE =>
         \A f \in any : PaidIn(request.cabinet, known, f)
  BY <1>2 DEF Passed
<1>. HIDE DEF P
<1> QED
  BY <1>1, <1>3, <1>4, <1>5, <1>6, <1>7, <1>8, <1>9, <1>10

(* A request that names no cabinet has none. *)
LEMMA HandlerNames ==
  ASSUME GuardsInv, AtHandler
  PROVE  /\ request.cabinet # NONE => NamesCabinet(request.route)
         /\ ~NamesById(request.route, "demands") => request.demand = NONE
BY HandlerFollows DEF Named, OrNone

LEMMA OwnersFollow == GuardsInv => OwnersRunTheirCabinet
<1> SUFFICES ASSUME GuardsInv, AtHandler, Under("cabinets"), IsWrite, request.cabinet # NONE
             PROVE  \/ WasAdmin
                    \/ WasIn(request.cabinet, {"OWNER"})
                    \/ /\ Ends("hide") \/ Ends("show") \/ Ends("leave")
                       /\ WasIn(request.cabinet, CabinetRole)
  BY DEF OwnersRunTheirCabinet
<1>1. Guarded(request.route) /\ NamesCabinet(request.route)
  BY HandlerFollows, HandlerNames
<1>2. \/ Has(request.route, "cabinetRoles", {"OWNER"})
      \/ Has(request.route, "inHandler", {"OWNER"})
      \/ /\ Ends("hide") \/ Ends("show") \/ Ends("leave")
         /\ (Has(request.route, "cabinetRoles", CabinetRole)
               \/ Has(request.route, "inHandler", CabinetRole))
  BY <1>1 DEF Guarded, Under, IsWrite, Ends
<1> QED
  BY <1>2, HandlerKnows

LEMMA HoldersFollow == GuardsInv => MembersRunTheirDemands
<1>1. ASSUME GuardsInv, AtHandler, IsWrite, Under("demands"),
             Ends(":id") \/ Ends("assign") \/ Ends("unlink") \/ Ends("progress")
      PROVE  \/ WasAdmin /\ Ends(":id")
             \/ \E c \in Cabinets :
                  <<"owns", request.demand, c>> \in known /\ WasIn(c, CabinetRole)
  <2>1. Guarded(request.route)
    BY <1>1, HandlerFollows
  <2>2. \/ Has(request.route, "inDemand", {})
        \/ Ends(":id") /\ Has(request.route, "demandAccess", {})
    BY <1>1, <2>1 DEF Guarded, Under, IsWrite, Ends
  <2>3. HolderIn(request, known) \/ (WasAdmin /\ Ends(":id"))
    BY <1>1, <2>2, HandlerKnows
  <2>. QED
    BY <2>3 DEF HolderIn, MemberIn, WasIn
<1>2. ASSUME GuardsInv, AtHandler, IsWrite, Under("results")
      PROVE  \E c \in Cabinets :
               /\ c = request.cabinet \/ <<"result", request.result, c>> \in known
               /\ WasIn(c, CabinetRole)
  <2>1. Guarded(request.route)
    BY <1>2, HandlerFollows
  <2>2. Has(request.route, "resultAccess", {}) \/ Has(request.route, "inHandler", CabinetRole)
    BY <1>2, <2>1 DEF Guarded, Under, IsWrite
  <2>3. \/ PublisherIn(request, known)
        \/ request.cabinet \in Cabinets /\ WasIn(request.cabinet, CabinetRole)
    BY <1>2, <2>2, HandlerKnows
  <2>. QED
    BY <2>3 DEF PublisherIn, MemberIn, WasIn
<1> QED
  BY <1>1, <1>2 DEF MembersRunTheirDemands

LEMMA AdminFollows == GuardsInv => AdminAreaIsClosed
<1> SUFFICES ASSUME GuardsInv, AtHandler,
                    \/ Under("admin")
                    \/ Under("categories") /\ IsWrite
                    \/ Under("users") /\ Len(request.route.path) = 1
             PROVE  WasAdmin
  BY DEF AdminAreaIsClosed
<1>1. Guarded(request.route)
  BY HandlerFollows
<1>2. Has(request.route, "roles", {"ADMIN"})
  BY <1>1 DEF Guarded, Under, IsWrite
<1> QED
  BY <1>2, HandlerKnows

LEMMA PaidFollow == GuardsInv => PaidFeaturesArePaid
<1> SUFFICES ASSUME GuardsInv, AtHandler, request.cabinet # NONE
             PROVE  /\ Ends("report") \/ Ends("widget.js") =>
                         \E f \in Features : PaidIn(request.cabinet, known, f)
                    /\ (\/ Ends("report")
                        \/ Under("cabinets") /\ request.route.verb = "PATCH" /\ Ends(":slug")
                        \/ Under("cabinets") /\ request.route.verb = "POST" /\ Ends("invites"))
                         => <<"active", request.cabinet>> \in known
  BY DEF PaidFeaturesArePaid, PaidIn
<1>1. Guarded(request.route) /\ NamesCabinet(request.route)
  BY HandlerFollows, HandlerNames
<1>2. ASSUME Ends("report") \/ Ends("widget.js")
      PROVE  \E f \in Features : PaidIn(request.cabinet, known, f)
  <2>1. PICK f \in Features : Has(request.route, "feature", {f})
    BY <1>1, <1>2 DEF Guarded, Ends
  <2>. QED
    BY <2>1, HandlerKnows
<1>3. ASSUME \/ Ends("report")
             \/ Under("cabinets") /\ request.route.verb = "PATCH" /\ Ends(":slug")
             \/ Under("cabinets") /\ request.route.verb = "POST" /\ Ends("invites")
      PROVE  <<"active", request.cabinet>> \in known
  <2>1. Has(request.route, "subscription", {}) /\ ~NamesById(request.route, "demands")
    BY <1>1, <1>3 DEF Guarded, Under, Ends
  <2>. QED
    BY <2>1, HandlerKnows, HandlerNames
<1> QED
  BY <1>2, <1>3

(* However the tables change between the guards of a request, and whoever  *)
(* changes them: when a handler of a cabinet, its demands, its results,    *)
(* the administration or a paid feature runs, each thing that entitles the *)
(* caller to it had been true since the request arrived, the plan and the  *)
(* overrides each at a moment of its own (cabinet-roles, demand-access,    *)
(* result-access, roles, feature and active-subscription guards).          *)
THEOREM EntitledServed == Spec => []OnlyTheEntitledAreServed
<1>1. GuardsInv => OnlyTheEntitledAreServed
  BY OwnersFollow, HoldersFollow, AdminFollows, PaidFollow DEF OnlyTheEntitledAreServed
<1> QED
  BY <1>1, GuardsAlways, PTL

(* A write that is not open to visitors, and what is read under me, is     *)
(* served to an account that was enabled since the request arrived, not    *)
(* only when its access token was signed (jwt.strategy.ts).                *)
THEOREM DisabledShutOut == Spec => []DisabledAccountsAreShutOut
<1>1. GuardsInv => DisabledAccountsAreShutOut
  <2> SUFFICES ASSUME GuardsInv, AtHandler,
                      \/ IsWrite /\ ~OpenToVisitors
                      \/ Len(request.route.path) > 1 /\ request.route.path[2] = "me"
               PROVE  WasEnabled
    BY DEF DisabledAccountsAreShutOut
  <2>1. Guarded(request.route) /\ request # NoRequest
    BY HandlerFollows DEF AtHandler
  <2>2. Has(request.route, "jwt", {})
    BY <2>1 DEF Guarded, OpenToVisitors, Under, IsWrite, Ends
  <2>. QED
    BY <2>2, HandlerKnows
<1> QED
  BY <1>1, GuardsAlways, PTL
=============================================================================
