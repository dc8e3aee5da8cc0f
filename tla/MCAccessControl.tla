--------------------------- MODULE MCAccessControl --------------------------
(* Instances of AccessControl in which the two cabinets are                 *)
(* interchangeable.  "guards": any caller, any route and any tables, with   *)
(* whole plans and no overrides, and one change while it is guarded.        *)
(* "features": the routes that a plan opens, for an owner of every cabinet, *)
(* with an override at first or none, and two changes of subscriptions,     *)
(* plans and overrides.                                                     *)
EXTENDS AccessControl, TLC

VARIABLE part

Unrestricted == \A c \in Cabinets :
  /\ Planned(c) \in {{}, Features}
  /\ \A f \in Features : <<"granted", c, f>> \notin facts /\ <<"unblocked", c, f>> \in facts

Overridden == {x \in Cabinets \X Features :
  <<"granted", x[1], x[2]>> \in facts \/ <<"unblocked", x[1], x[2]>> \notin facts}

OwnerOfAll == \A u \in Users :
  /\ <<"role", u, "CITIZEN">> \in facts /\ <<"enabled", u>> \in facts
  /\ \A c \in Cabinets : <<"member", u, c, "OWNER">> \in facts
  /\ \A d \in Demands : facts \cap Ownership(d) = {}

MCInit ==
  /\ Init
  /\ part \in {"guards", "features"}
  /\ part = "guards" => Unrestricted
  /\ part = "features" => OwnerOfAll /\ Cardinality(Overridden) <= 1

ReceivePaid == Receive /\ \E f \in Features : Has(request'.route, "feature", {f})

MCNext ==
  /\ UNCHANGED part
  /\ \/ part = "guards" /\ (Receive \/ RunGuard \/ Leave)
     \/ part = "guards" /\ request # NoRequest /\ changes = 0 /\ ChangeFacts /\ Unrestricted'
     \/ part = "features" /\ (ReceivePaid \/ RunGuard \/ Leave \/ ChangeEntitlements)

MCSpec == MCInit /\ [][MCNext]_<<vars, part>>

Symmetry == Permutations(Cabinets)
=============================================================================
