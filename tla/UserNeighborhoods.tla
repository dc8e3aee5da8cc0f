-------------------------- MODULE UserNeighborhoods -------------------------
(***************************************************************************)
(* The neighborhoods users save: at most MaxNeighborhoods each, one of     *)
(* them primary.  Both rules are kept by several statements: the count is  *)
(* read before the insert, and the primary row is cleared before another   *)
(* is set, so requests of one user interleave and a failure may strike     *)
(* between two statements.                                                 *)
(***************************************************************************)
EXTENDS Integers, FiniteSets, FiniteSetsExt

CONSTANTS
  Users,             \* ids of users
  Places,            \* neighborhood, city and state
  NONE,              \* null
  Tabs,              \* slots of requests served at the same time
  MaxNeighborhoods,  \* MAX_NEIGHBORHOODS
  MaxOpened          \* bound: requests in a behaviour

ASSUME NeighborhoodsAssumption ==
  /\ MaxNeighborhoods \in Nat \ {0} /\ MaxOpened \in Nat
  /\ IsFiniteSet(Tabs) /\ NONE \notin Users \cup Places

VARIABLES
  saved,     \* table user_neighborhoods
  tab,       \* the request in each slot
  rows,      \* rows ever created: ids follow the order of creation
  opened,    \* requests so far
  untidy     \* history: users with requests that overlapped or failed half way

neighborhoodVars == <<saved, tab, rows, opened, untidy>>

Neighborhood == [id : Nat, user : Users, place : Places, primary : BOOLEAN]

NeighborhoodRequest ==
  [op : {"none", "add", "setPrimary", "remove"},
   step : {"idle", "count", "find", "clear", "create", "set", "delete", "promote"},
   user : Users \cup {NONE}, place : Places \cup {NONE}, id : Nat, primary : BOOLEAN]

NoTab == [op |-> "none", step |-> "idle", user |-> NONE, place |-> NONE, id |-> 0,
          primary |-> FALSE]

NeighborhoodsTypeOK ==
  /\ saved \subseteq Neighborhood
  /\ tab \in [Tabs -> NeighborhoodRequest]
  /\ rows \in 0..MaxOpened
  /\ opened \in 0..MaxOpened
  /\ untidy \subseteq Users

NeighborhoodsInit ==
  /\ saved = {}
  /\ tab = [t \in Tabs |-> NoTab]
  /\ rows = 0 /\ opened = 0
  /\ untidy = {}

SavedBy(u) == {n \in saved : n.user = u}

ClearPrimary(u) == {IF n.user = u THEN [n EXCEPT !.primary = FALSE] ELSE n : n \in saved}
MarkPrimary(id) == {IF n.id = id THEN [n EXCEPT !.primary = TRUE] ELSE n : n \in saved}
Exists(id) == \E n \in saved : n.id = id

(* findByUserId: primary first, then the oldest. *)
FirstOf(R) ==
  LET preferred == IF \E n \in R : n.primary THEN {n \in R : n.primary} ELSE R
  IN Min({n.id : n \in preferred})

-----------------------------------------------------------------------------
StartTab(t, request) ==
  /\ tab[t] = NoTab
  /\ opened < MaxOpened
  /\ opened' = opened + 1
  /\ tab' = [tab EXCEPT ![t] = request]
  /\ untidy' = IF \E o \in Tabs : tab[o].user = request.user
               THEN untidy \cup {request.user} ELSE untidy
  /\ UNCHANGED <<saved, rows>>

Reached(t, op, step) == tab[t].op = op /\ tab[t].step = step
Proceed(t, step) == tab' = [tab EXCEPT ![t].step = step]
Done(t) == tab' = [tab EXCEPT ![t] = NoTab]

(* POST /users/me/neighborhoods *)
AddNeighborhood(t, u, place, primary) ==
  StartTab(t, [NoTab EXCEPT !.op = "add", !.step = "count", !.user = u, !.place = place,
                            !.primary = primary])

CountNeighborhoods(t) ==
  /\ Reached(t, "add", "count")
  /\ LET count == Cardinality(SavedBy(tab[t].user)) IN
       /\ count < MaxNeighborhoods
       /\ tab' = [tab EXCEPT ![t].step = "find", ![t].primary = @ \/ count = 0]
  /\ UNCHANGED <<saved, rows, opened, untidy>>

FindByLocation(t) ==
  /\ Reached(t, "add", "find")
  /\ ~\E n \in SavedBy(tab[t].user) : n.place = tab[t].place
  /\ Proceed(t, IF tab[t].primary THEN "clear" ELSE "create")
  /\ UNCHANGED <<saved, rows, opened, untidy>>

(* The unique index refuses a place saved since. *)
CreateNeighborhood(t) ==
  /\ Reached(t, "add", "create")
  /\ ~\E n \in SavedBy(tab[t].user) : n.place = tab[t].place
  /\ rows' = rows + 1
  /\ saved' = saved \cup {[id |-> rows + 1, user |-> tab[t].user, place |-> tab[t].place,
                           primary |-> tab[t].primary]}
  /\ Done(t)
  /\ UNCHANGED <<opened, untidy>>

(* PATCH /users/me/neighborhoods/:id/primary; DELETE /users/me/neighborhoods/:id. *)
ChooseNeighborhood(t, u, op, n) ==
  /\ n \in SavedBy(u)
  /\ StartTab(t, [NoTab EXCEPT !.op = op, !.user = u, !.id = n.id, !.primary = n.primary,
                               !.step = IF op = "remove" THEN "delete" ELSE "clear"])

ClearBeforeSetting(t) ==
  /\ tab[t].step = "clear"
  /\ saved' = ClearPrimary(tab[t].user)
  /\ Proceed(t, IF tab[t].op = "add" THEN "create" ELSE "set")
  /\ UNCHANGED <<rows, opened, untidy>>

SetPrimary(t) ==
  /\ tab[t].step = "set" /\ Exists(tab[t].id)
  /\ saved' = MarkPrimary(tab[t].id)
  /\ Done(t)
  /\ UNCHANGED <<rows, opened, untidy>>

DeleteOnly(t) ==                   \* variant: no other row becomes primary
  /\ Reached(t, "remove", "delete") /\ Exists(tab[t].id)
  /\ saved' = {n \in saved : n.id # tab[t].id}
  /\ Done(t)
  /\ UNCHANGED <<rows, opened, untidy>>

DeleteNeighborhood(t) ==
  /\ Reached(t, "remove", "delete") /\ Exists(tab[t].id)
  /\ saved' = {n \in saved : n.id # tab[t].id}
  /\ IF tab[t].primary THEN Proceed(t, "promote") ELSE Done(t)
  /\ UNCHANGED <<rows, opened, untidy>>

(* What findByUserId returns first is set primary by a statement of its own. *)
FindRemaining(t) ==
  /\ Reached(t, "remove", "promote")
  /\ LET remaining == SavedBy(tab[t].user) IN
       tab' = [tab EXCEPT ![t] = IF remaining = {} THEN NoTab
                                 ELSE [@ EXCEPT !.step = "set", !.id = FirstOf(remaining)]]
  /\ UNCHANGED <<saved, rows, opened, untidy>>

(* A check refuses, a statement fails or the process dies. *)
StopTab(t) ==
  /\ tab[t] # NoTab
  /\ untidy' = IF tab[t].step \in {"count", "find", "delete"}
                  \/ (tab[t].op = "setPrimary" /\ tab[t].step = "clear")
               THEN untidy ELSE untidy \cup {tab[t].user}
  /\ Done(t)
  /\ UNCHANGED <<saved, rows, opened>>

ChangeNeighborhoods ==
  \E t \in Tabs :
    \/ \E u \in Users, place \in Places, primary \in BOOLEAN : AddNeighborhood(t, u, place, primary)
    \/ \E u \in Users, op \in {"setPrimary", "remove"}, n \in saved : ChooseNeighborhood(t, u, op, n)
    \/ CountNeighborhoods(t) \/ FindByLocation(t) \/ CreateNeighborhood(t)
    \/ ClearBeforeSetting(t) \/ SetPrimary(t)
    \/ DeleteNeighborhood(t) \/ FindRemaining(t)
    \/ StopTab(t)

NeighborhoodsSpec == NeighborhoodsInit /\ [][ChangeNeighborhoods]_neighborhoodVars

-----------------------------------------------------------------------------
(* The maximum is counted before the insert: requests that overlap may     *)
(* exceed it, by no more than one row for each but the first               *)
(* (add-user-neighborhood.use-case.ts:21).                                 *)
OverlapExceedsByItsWidth ==
  \A u \in Users : Cardinality(SavedBy(u)) < MaxNeighborhoods + Cardinality(Tabs)

(* A user whose requests came one at a time and finished has one primary   *)
(* neighborhood as soon as there is any                                    *)
(* (set-primary-neighborhood.use-case.ts:20, remove-user-neighborhood.use- *)
(* case.ts:21).                                                            *)
OnePrimaryWhenTidy ==
  \A u \in Users \ untidy :
    (\A t \in Tabs : tab[t].user # u) /\ SavedBy(u) # {} =>
      Cardinality({n \in SavedBy(u) : n.primary}) = 1

(* The rows of a user are few, and one is primary, with the exceptions above. *)
NeighborhoodsAreTidy == OverlapExceedsByItsWidth /\ OnePrimaryWhenTidy
=============================================================================
