------------------------- MODULE MCDemandLifecycle --------------------------
(* Instances of DemandLifecycle: one user per cabinet; the administrator   *)
(* u2 belongs to none unless the instance has the membership m2.           *)
EXTENDS DemandLifecycle, TLC

CONSTANTS c1, c2, d1, m1, m2, u1, u2

MCUserOf == [m \in Members |-> IF m = m1 THEN u1 ELSE u2]
MCCabinetOf == [m \in Members |-> IF m = m1 THEN c1 ELSE c2]

(* In the instance with two demands the first is already resolved. *)
MCStartStatus ==
  [d \in Demands |-> IF d = d1 /\ Cardinality(Demands) > 1 THEN "RESOLVED" ELSE "SUBMITTED"]

RequestSymmetry == Permutations(Requests)
=============================================================================
