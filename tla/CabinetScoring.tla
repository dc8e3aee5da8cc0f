--------------------------- MODULE CabinetScoring ---------------------------
(***************************************************************************)
(* The score a cabinet earns from the demands it handles, kept by          *)
(* cabinet-scoring.listener.ts in three columns of the cabinets table.     *)
(*                                                                         *)
(* demand.status-changed is emitted synchronously by a request handler     *)
(* (EventEmitter2); the listener it starts then runs on its own and ends   *)
(* in one UPDATE with relative increments.  An event that was emitted and  *)
(* whose UPDATE has not reached the database is a member of the bag        *)
(* scoreTasks: the updates may land in any order, and a crash drops them.  *)
(***************************************************************************)
EXTENDS Integers, Bags

CONSTANTS
  Cabinets,     \* ids of cabinets
  Statuses,     \* the members of enum DemandStatus
  NONE          \* null in a nullable column

ASSUME ScoringAssumption ==
  {"SUBMITTED", "IN_PROGRESS", "RESOLVED"} \subseteq Statuses

VARIABLES
  counters,     \* per cabinet: columns score, in_progress_count, resolved_count
  scoreTasks    \* bag of status changes whose score update is outstanding

scoringVars == <<counters, scoreTasks>>

Counters == [score : Int, inProgress : Int, resolved : Int]

ScoreTask == [cabinet : Cabinets, previous : Statuses, new : Statuses]

ScoringTypeOK ==
  /\ counters \in [Cabinets -> Counters]
  /\ IsABag(scoreTasks)
  /\ DOMAIN scoreTasks \subseteq ScoreTask

ScoringInit ==
  /\ counters = [c \in Cabinets |-> [score |-> 0, inProgress |-> 0, resolved |-> 0]]
  /\ scoreTasks = EmptyBag

-----------------------------------------------------------------------------
SCORE_PER_RESOLVED == 10
SCORE_PER_IN_PROGRESS == 2

Unit(condition) == IF condition THEN 1 ELSE 0

InProgressDelta(previous, new) ==
  Unit(new = "IN_PROGRESS") - Unit(previous = "IN_PROGRESS")

ResolvedDelta(previous, new) ==
  Unit(new = "RESOLVED") - Unit(previous = "RESOLVED")

(* Variant: leaving RESOLVED also takes the points of work in progress. *)
ScoreDeltaTakesBoth(previous, new) ==
  SCORE_PER_RESOLVED * ResolvedDelta(previous, new)
    + SCORE_PER_IN_PROGRESS *
        (Unit(new = "IN_PROGRESS") - Unit(previous \in {"IN_PROGRESS", "RESOLVED"}))

(* A demand that goes from in progress to resolved leaves the count of     *)
(* demands in progress and keeps its two points.                           *)
ScoreDelta(previous, new) ==
  SCORE_PER_RESOLVED * ResolvedDelta(previous, new)
    + SCORE_PER_IN_PROGRESS *
        (Unit(new = "IN_PROGRESS")
           - Unit(previous = "IN_PROGRESS" /\ new # "RESOLVED"))

(* emit('demand.status-changed'): the listener returns at once when the    *)
(* event names no cabinet.                                                 *)
EmitStatusChanged(cabinet, previous, new) ==
  scoreTasks' = IF cabinet = NONE
                THEN scoreTasks
                ELSE scoreTasks (+)
                       SetToBag({[cabinet |-> cabinet, previous |-> previous, new |-> new]})

(* The listener's UPDATE, all three increments in one statement. *)
HandleStatusChanged(t) ==
  /\ BagIn(t, scoreTasks)
  /\ scoreTasks' = scoreTasks (-) SetToBag({t})
  /\ counters' = [counters EXCEPT ![t.cabinet] =
       [score      |-> @.score + ScoreDelta(t.previous, t.new),
        inProgress |-> @.inProgress + InProgressDelta(t.previous, t.new),
        resolved   |-> @.resolved + ResolvedDelta(t.previous, t.new)]]

(* The points a cabinet holds beyond what its two counts are worth. *)
Excess(c) ==
  counters[c].score - SCORE_PER_RESOLVED * counters[c].resolved
                    - SCORE_PER_IN_PROGRESS * counters[c].inProgress
=============================================================================
