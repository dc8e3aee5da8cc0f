----------------------------- MODULE MCAccounts -----------------------------
(* An instance of Accounts and UserNeighborhoods.  The two share no variable *)
(* and wait for nothing of each other, so a behaviour explores one of them.  *)
(* Every spelling of an address belongs to one mailbox, and spellings are    *)
(* only compared, so they are symmetric.                                     *)
EXTENDS Accounts, TLC

VARIABLE part

MCMailbox == [e \in Emails |-> CHOOSE m \in Emails : TRUE]

Init ==
  /\ AccountsInit /\ NeighborhoodsInit
  /\ part \in {"accounts", "neighborhoods"}

Next ==
  /\ \/ part = "accounts" /\ ChangeAccounts /\ UNCHANGED neighborhoodVars
     \/ part = "neighborhoods" /\ ChangeNeighborhoods /\ UNCHANGED accountVars
  /\ UNCHANGED part

Spec == Init /\ [][Next]_<<accountVars, neighborhoodVars, part>>

(* Every column and every request in progress has the type the schema and   *)
(* the handlers give it.                                                     *)
TypeOK == AccountsTypeOK /\ NeighborhoodsTypeOK

Symmetry ==
  Permutations(Users) \cup Permutations(Slots) \cup Permutations(Tabs) \cup Permutations(Emails)
=============================================================================
