---------------------------- MODULE DemandService ---------------------------
(***************************************************************************)
(* What the API promises of a demand, without requests, reads and checks:  *)
(* each operation happens at once, to a demand in a state that allows it.  *)
(* DemandLifecycle implements it as long as requests are served one after  *)
(* the other.                                                              *)
(***************************************************************************)
EXTENDS Naturals

CONSTANTS Demands, Cabinets, Members, Statuses, StartStatus, Ratings, NONE

VARIABLE
  book  \* for each demand: row, owner, assignee, status, is there a survey, its rating

OpenStates == [row : {"enabled"}, cabinet : Cabinets \cup {NONE},
               assignee : Members \cup {NONE}, status : Statuses,
               surveyed : {FALSE}, rating : {0}]

Blank == [row |-> "absent", cabinet |-> NONE, assignee |-> NONE, status |-> "SUBMITTED",
          surveyed |-> FALSE, rating |-> 0]

Open(d) == book[d].row = "enabled"

Init ==
  /\ book \in [Demands -> OpenStates \cup {Blank}]
  /\ \A d \in Demands : book[d].cabinet = NONE => book[d].assignee = NONE
  /\ \A d \in Demands : Open(d) => book[d].status = StartStatus[d]

Submit(d, c) ==
  /\ book[d] = Blank
  /\ book' = [book EXCEPT ![d].row = "enabled", ![d].cabinet = c]

(* Only a free demand is claimed. *)
Claim(d, c) ==
  /\ Open(d) /\ book[d].cabinet = NONE
  /\ book' = [book EXCEPT ![d].cabinet = c]

(* Whoever answers for a demand lets go of it with the cabinet. *)
Unlink(d) ==
  /\ Open(d) /\ book[d].cabinet # NONE
  /\ book' = [book EXCEPT ![d].cabinet = NONE, ![d].assignee = NONE]

(* PATCH changes status and assignee together; null unassigns. *)
Work(d, s, m) ==
  /\ Open(d)
  /\ m \in Members => book[d].cabinet # NONE
  /\ book' = [book EXCEPT ![d].status = s, ![d].assignee = m]

(* The cabinet's first resolution opens the survey, once for all. *)
Resolve(d) ==
  /\ Open(d) /\ book[d].cabinet # NONE
  /\ book' = [book EXCEPT ![d].status = "RESOLVED", ![d].surveyed = TRUE]

(* By itself, after the last result of a resolved demand is gone. *)
Reopen(d) ==
  /\ book[d].row # "absent"
  /\ book' = [book EXCEPT ![d].status = "IN_PROGRESS"]

(* A survey is answered once, also when its demand was deleted since. *)
Answer(d, n) ==
  /\ book[d].surveyed /\ book[d].rating = 0
  /\ book' = [book EXCEPT ![d].rating = n]

Delete(d) ==
  /\ Open(d)
  /\ book' = [book EXCEPT ![d].row = "disabled"]

(* A member who leaves is taken off every demand. *)
Leave(m) ==
  book' = [d \in Demands |->
             IF book[d].assignee = m THEN [book[d] EXCEPT !.assignee = NONE] ELSE book[d]]

Next ==
  \/ \E d \in Demands :
       \/ \E c \in Cabinets \cup {NONE} : Submit(d, c)
       \/ \E c \in Cabinets : Claim(d, c)
       \/ Unlink(d) \/ Resolve(d) \/ Reopen(d) \/ Delete(d)
       \/ \E s \in Statuses, m \in Members \cup {NONE} : Work(d, s, m)
       \/ \E n \in Ratings : Answer(d, n)
  \/ \E m \in Members : Leave(m)

Spec == Init /\ [][Next]_book
=============================================================================
