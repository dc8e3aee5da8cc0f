------------------------- MODULE MCDemandEngagement -------------------------
(* An instance of DemandEngagement and CabinetReports, in which requests,   *)
(* users, cabinets, and the demands that are counted are interchangeable.   *)
(* The two share no variable and wait for nothing of each other, so a       *)
(* behaviour explores one of them.                                          *)
EXTENDS DemandEngagement, CabinetReports, TLC

VARIABLE part

MCInit ==
  /\ Init /\ ReportsInit
  /\ part \in {"engagement", "reports"}
  /\ part = "engagement" => \A d \in Filings : filed[d] = NULL
  /\ part = "reports" => members = {} /\ \A d \in Demands : owner[d] = NONE

MCNext ==
  /\ \/ part = "engagement" /\ Next /\ UNCHANGED reportVars
     \/ part = "reports" /\ PublishFigures /\ UNCHANGED vars
  /\ UNCHANGED part

MCSpec == MCInit /\ [][MCNext]_<<vars, reportVars, part>>

(* Every column and every request and reading in progress has the type the  *)
(* schema and the handlers give it.                                         *)
MCTypeOK == TypeOK /\ ReportsTypeOK

Symmetry ==
  Permutations(Requests) \cup Permutations(Users) \cup Permutations(Cabinets)
    \cup Permutations(Filings)
=============================================================================
