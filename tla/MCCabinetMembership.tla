------------------------ MODULE MCCabinetMembership -------------------------
(* Instances of CabinetMembership: every user has one address, the second   *)
(* spelling e9, where it is used, is of the first user's.                    *)
EXTENDS CabinetMembership, TLC

CONSTANTS u1, u2, u3, e1, e2, e3, e9

MCAddressOf == [e \in Emails |-> CASE e \in {e1, e9} -> u1
                                   [] e = e2 -> u2
                                   [] e = e3 -> u3]

RequestSymmetry == Permutations(Requests)
=============================================================================
