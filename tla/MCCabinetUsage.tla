--------------------------- MODULE MCCabinetUsage ---------------------------
(* An instance of CabinetUsage and one of FeatureAccess over the same       *)
(* subscriptions: a plan, with small limits or with unlimited storage,      *)
(* files of one and of two bytes.  While features are looked for there are  *)
(* three changes at most, enough for a race of two replacements and a       *)
(* feature that the plan gains in between.                                  *)
EXTENDS CabinetUsage, FeatureAccess, TLC

VARIABLE part    \* which of the two runs

MCInit ==
  /\ part \in {"usage", "access"}
  /\ Init
  /\ AccessInit

MCNext ==
  /\ UNCHANGED part
  /\ \/ part = "usage" /\ Next /\ UNCHANGED reader
     \/ part = "access" /\ AccessNext /\ changes' <= 3 /\ UNCHANGED usageVars

MCSpec == MCInit /\ [][MCNext]_<<vars, reader, part>>

MCLimits == {[maxDemands |-> 1, maxStorageBytes |-> 2],
             [maxDemands |-> 2, maxStorageBytes |-> NONE]}

MCSizeOf == [k \in 1..MaxKeys |-> 1 + (k % 2)]

Symmetry ==
  Permutations(Jobs) \cup Permutations(Desks) \cup Permutations(Demands) \cup Permutations(Readers)
=============================================================================
