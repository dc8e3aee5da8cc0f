---------------------------- MODULE FeatureAccess ----------------------------
(***************************************************************************)
(* Which features a cabinet has is computed twice: by the page that lists  *)
(* them, GET /cabinets/:slug/plans, and by FeatureGuard.  Each reads the   *)
(* subscription and the overrides in two queries with conditions of their  *)
(* own, without an order and without a transaction, while administrators   *)
(* go on changing both.  A query with its nested rows is one read.         *)
(***************************************************************************)
EXTENDS Subscriptions

CONSTANTS
  Readers    \* slots of requests that look for the features of a cabinet

VARIABLES
  reader     \* the page or the guard in each slot, and what it has read

accessVars == <<plansVars, reader>>

Reader == [kind : {"none", "page", "guard"}, cabinet : Cabinets \cup {NONE},
           feature : Features \cup {NONE},     \* the one the guard is about
           read : SUBSET {"subscription", "overrides"},
           planned : SUBSET Features,          \* features of the plan found
           granted : SUBSET Features, blocked : SUBSET Features,
           undisturbed : BOOLEAN]              \* history: no change since it started

NoReader == [kind |-> "none", cabinet |-> NONE, feature |-> NONE, read |-> {},
             planned |-> {}, granted |-> {}, blocked |-> {}, undisturbed |-> TRUE]

AccessTypeOK == reader \in [Readers -> Reader]

AccessInit ==
  /\ PlansInit
  /\ reader = [r \in Readers |-> NoReader]

-----------------------------------------------------------------------------
Answered(r) == reader[r].kind # "none" /\ reader[r].read = {"subscription", "overrides"}

(* A slot whose answer is out may be used again. *)
StartReader(r, kind, c, f) ==
  /\ reader[r].kind = "none" \/ Answered(r)
  /\ reader' = [reader EXCEPT ![r] = [NoReader EXCEPT !.kind = kind, !.cabinet = c, !.feature = f]]
  /\ UNCHANGED plansVars

(* findFirst without an order: any row that the query finds, or none. *)
FindPlan(r, rows) ==
  /\ "subscription" \notin reader[r].read
  /\ \E planned \in {PlanFeatures(i) : i \in rows} \cup (IF rows = {} THEN {{}} ELSE {}) :
       reader' = [reader EXCEPT ![r].read = @ \cup {"subscription"}, ![r].planned = planned]
  /\ UNCHANGED plansVars

(* The page asks for both at once, the guard for the overrides at the end. *)
FindPlanForPage(r) ==
  /\ reader[r].kind = "page"
  /\ FindPlan(r, ActiveSubscriptions(reader[r].cabinet))

FindPlanForGuard(r) ==
  /\ reader[r].kind = "guard"
  /\ FindPlan(r, SubscriptionsForGuard(reader[r].cabinet))

FindOverrides(r) ==
  /\ reader[r].kind # "none" /\ "overrides" \notin reader[r].read
  /\ reader[r].kind = "guard" => "subscription" \in reader[r].read
  /\ reader' = [reader EXCEPT ![r].read = @ \cup {"overrides"},
                              ![r].granted = RunningOverrides(reader[r].cabinet, "GRANT"),
                              ![r].blocked = RunningOverrides(reader[r].cabinet, "BLOCK")]
  /\ UNCHANGED plansVars

(* The answers. *)
Listed(r) == (reader[r].planned \ reader[r].blocked) \cup (reader[r].granted \ reader[r].blocked)

AdmittedInSpite(r) ==              \* variant: blocks are not looked at
  reader[r].feature \in reader[r].planned \cup reader[r].granted

Admitted(r) ==
  /\ reader[r].feature \notin reader[r].blocked
  /\ reader[r].feature \in reader[r].planned \/ reader[r].feature \in reader[r].granted

(* An administrator changes something, or time passes. *)
Disturb ==
  /\ ChangePlans
  /\ reader' = [r \in Readers |-> [reader[r] EXCEPT !.undisturbed = FALSE]]

AccessNext ==
  \/ \E r \in Readers, c \in Cabinets : StartReader(r, "page", c, NONE)
  \/ \E r \in Readers, c \in Cabinets, f \in Features : StartReader(r, "guard", c, f)
  \/ \E r \in Readers : FindPlanForPage(r) \/ FindPlanForGuard(r) \/ FindOverrides(r)
  \/ Disturb

AccessSpec == AccessInit /\ [][AccessNext]_accessVars

-----------------------------------------------------------------------------
(* The page lists a feature exactly if FeatureGuard admits the cabinet to  *)
(* it, when nothing changes from the first read of either to the last of   *)
(* both, in spite of their different conditions, and also in the middle of *)
(* a replacement of the subscription and after one was cut short.  Only a  *)
(* cabinet whose replacements raced may be told otherwise: of its two      *)
(* subscriptions each may find another (get-cabinet-plan.use-case.ts,      *)
(* feature.guard.ts).                                                      *)
PageAgreesWithGuard ==
  \A p, g \in Readers :
    /\ reader[p].kind = "page" /\ Answered(p) /\ reader[p].undisturbed
    /\ reader[g].kind = "guard" /\ Answered(g) /\ reader[g].undisturbed
    /\ reader[p].cabinet = reader[g].cabinet /\ reader[g].cabinet \notin raced
    => (reader[g].feature \in Listed(p) <=> Admitted(g))
=============================================================================
