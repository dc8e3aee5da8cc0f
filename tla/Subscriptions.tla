---------------------------- MODULE Subscriptions ---------------------------
(***************************************************************************)
(* Plans, the subscriptions of cabinets to them, the features a plan has   *)
(* and the overrides that grant or block a feature for one cabinet.        *)
(*                                                                         *)
(* A subscription copies the limits of its plan when it starts; a limit    *)
(* that is null falls back to the plan's.  Replacing a subscription reads  *)
(* the plan, cancels what the cabinet has and inserts the new row in three *)
(* statements, without a transaction, so two replacements interleave and a *)
(* failure may strike between them.                                        *)
(***************************************************************************)
EXTENDS Integers, Sequences, FiniteSets

CONSTANTS
  Cabinets,      \* ids of cabinets
  Plans,         \* ids of plans
  Features,      \* slugs of features
  NONE,          \* null
  LimitChoices,  \* limits an administrator sets: records of maxDemands, maxStorageBytes
  Desks,         \* slots of subscription changes served at the same time
  MaxTime,       \* bound: instants of the clock
  MaxChanges     \* bound: changes of plans, subscriptions and overrides

ASSUME SubscriptionsAssumption ==
  /\ LimitChoices \subseteq [maxDemands : Nat \cup {NONE}, maxStorageBytes : Nat \cup {NONE}]
  /\ NONE \notin Nat /\ NONE \notin Cabinets \cup Plans
  /\ MaxTime \in Nat /\ MaxChanges \in Nat

VARIABLES
  now,          \* the clock
  limits,       \* columns max_* of each plan
  offered,      \* table plan_features: effective_from of each feature of a plan
  subs,         \* table cabinet_subscriptions, in order of creation
  overrides,    \* table cabinet_feature_overrides
  desk,         \* the change of a subscription in each slot
  changes,      \* changes so far
  raced,        \* history: cabinets with two replacements under way at once
  interrupted   \* history: cabinets whose replacement failed half way

plansVars == <<now, limits, offered, subs, overrides, desk, changes, raced, interrupted>>

Limits == [maxDemands : Nat \cup {NONE}, maxStorageBytes : Nat \cup {NONE}]

(* A feature is not in the plan, is in it for all (null) or since a time.  *)
Absent == -2
ForAll == -1
Effective == {Absent, ForAll} \cup Nat

Subscription == [cabinet : Cabinets, plan : Plans, status : {"ACTIVE", "CANCELED"},
                 createdAt : Nat, canceledAt : Nat \cup {NONE}, deletedAt : Nat \cup {NONE},
                 max : Limits]

Override == [type : {"NONE", "GRANT", "BLOCK"}, expiresAt : Nat \cup {NONE},
             deleted : BOOLEAN]

NoOverride == [type |-> "NONE", expiresAt |-> NONE, deleted |-> FALSE]

Change == [step : {"idle", "read", "canceled"}, cabinet : Cabinets \cup {NONE},
           plan : Plans \cup {NONE}, max : Limits]

Idle == [step |-> "idle", cabinet |-> NONE, plan |-> NONE,
         max |-> [maxDemands |-> NONE, maxStorageBytes |-> NONE]]

PlansTypeOK ==
  /\ now \in 0..MaxTime
  /\ limits \in [Plans -> Limits]
  /\ offered \in [Plans \X Features -> Effective]
  /\ \A i \in DOMAIN subs : subs[i] \in Subscription
  /\ overrides \in [Cabinets \X Features -> Override]
  /\ desk \in [Desks -> Change]
  /\ changes \in Nat
  /\ raced \subseteq Cabinets /\ interrupted \subseteq Cabinets

(* No cabinet has a subscription until an administrator starts one.        *)
PlansInit ==
  /\ now = 0
  /\ limits \in [Plans -> LimitChoices]
  /\ offered = [pf \in Plans \X Features |-> Absent]
  /\ subs = <<>>
  /\ overrides = [cf \in Cabinets \X Features |-> NoOverride]
  /\ desk = [s \in Desks |-> Idle]
  /\ changes = 0
  /\ raced = {} /\ interrupted = {}

-----------------------------------------------------------------------------
(* What is read from the tables. *)

(* getActiveSubscription: findFirst without an order, so any of these rows. *)
ActiveSubscriptions(c) ==
  {i \in DOMAIN subs : /\ subs[i].cabinet = c
                       /\ subs[i].deletedAt = NONE
                       /\ subs[i].status = "ACTIVE"
                       /\ subs[i].canceledAt = NONE
                       /\ subs[i].createdAt <= now}

(* The rows ActiveSubscriptionGuard and CheckActiveSubscriptionUseCase accept. *)
HasActiveSubscription(c) == ActiveSubscriptions(c) # {}

LimitOf(i, kind) ==
  IF subs[i].max[kind] # NONE THEN subs[i].max[kind] ELSE limits[subs[i].plan][kind]

(* A check against the limit of whichever row is found; without a row or a *)
(* limit nothing is refused.                                               *)
WithinLimit(c, kind, amount) ==
  HasActiveSubscription(c) =>
    \E i \in ActiveSubscriptions(c) : LimitOf(i, kind) # NONE => amount <= LimitOf(i, kind)

PlanFeatures(i) ==
  {f \in Features : /\ offered[<<subs[i].plan, f>>] # Absent
                    /\ offered[<<subs[i].plan, f>>] <= subs[i].createdAt}

RunningOverrides(c, type) ==
  {f \in Features : /\ overrides[<<c, f>>].type = type
                    /\ ~overrides[<<c, f>>].deleted
                    /\ overrides[<<c, f>>].expiresAt = NONE \/ overrides[<<c, f>>].expiresAt > now}

(* FeatureGuard looks for the subscription by itself, by its status only;  *)
(* so does the change of its limits.                                       *)
SubscriptionsForGuard(c) ==
  {i \in DOMAIN subs : /\ subs[i].cabinet = c
                       /\ subs[i].deletedAt = NONE
                       /\ subs[i].status = "ACTIVE"}

-----------------------------------------------------------------------------
Changed ==
  /\ changes < MaxChanges
  /\ changes' = changes + 1

Tick ==
  /\ now < MaxTime
  /\ now' = now + 1
  /\ UNCHANGED <<limits, offered, subs, overrides, desk, changes, raced, interrupted>>

(* PATCH /admin/plans/:planId *)
UpdatePlan(p, l) ==
  /\ Changed
  /\ l # limits[p]
  /\ limits' = [limits EXCEPT ![p] = l]
  /\ UNCHANGED <<now, offered, subs, overrides, desk, raced, interrupted>>

(* POST /admin/plans/:planId/features, for all cabinets or from now on. *)
AddFeatureToPlan(p, f, retroactive) ==
  /\ Changed
  /\ offered' = [offered EXCEPT ![<<p, f>>] = IF retroactive THEN ForAll ELSE now]
  /\ UNCHANGED <<now, limits, subs, overrides, desk, raced, interrupted>>

RemoveFeatureFromPlan(p, f) ==
  /\ Changed
  /\ offered[<<p, f>>] # Absent
  /\ offered' = [offered EXCEPT ![<<p, f>>] = Absent]
  /\ UNCHANGED <<now, limits, subs, overrides, desk, raced, interrupted>>

(* PATCH /admin/cabinets/:cabinetId/subscription *)
ReadPlan(s, c, p) ==
  /\ desk[s] = Idle
  /\ Changed
  /\ desk' = [desk EXCEPT ![s] = [step |-> "read", cabinet |-> c, plan |-> p,
                                  max |-> limits[p]]]
  /\ raced' = IF \E t \in Desks : desk[t].cabinet = c THEN raced \cup {c} ELSE raced
  /\ UNCHANGED <<now, limits, offered, subs, overrides, interrupted>>

CancelOlder(s) ==                  \* variant: what started at this instant stays
  /\ desk[s].step = "read"
  /\ subs' = [i \in DOMAIN subs |->
                IF /\ subs[i].cabinet = desk[s].cabinet /\ subs[i].deletedAt = NONE
                   /\ subs[i].createdAt < now
                THEN [subs[i] EXCEPT !.deletedAt = now, !.canceledAt = now,
                                     !.status = "CANCELED"]
                ELSE subs[i]]
  /\ desk' = [desk EXCEPT ![s].step = "canceled"]
  /\ UNCHANGED <<now, limits, offered, overrides, changes, raced, interrupted>>

CancelSubscriptions(s) ==
  /\ desk[s].step = "read"
  /\ subs' = [i \in DOMAIN subs |->
                IF subs[i].cabinet = desk[s].cabinet /\ subs[i].deletedAt = NONE
                THEN [subs[i] EXCEPT !.deletedAt = now, !.canceledAt = now,
                                     !.status = "CANCELED"]
                ELSE subs[i]]
  /\ desk' = [desk EXCEPT ![s].step = "canceled"]
  /\ UNCHANGED <<now, limits, offered, overrides, changes, raced, interrupted>>

CreateSubscription(s) ==
  /\ desk[s].step = "canceled"
  /\ subs' = Append(subs, [cabinet |-> desk[s].cabinet, plan |-> desk[s].plan,
                           status |-> "ACTIVE", createdAt |-> now,
                           canceledAt |-> NONE, deletedAt |-> NONE, max |-> desk[s].max])
  /\ desk' = [desk EXCEPT ![s] = Idle]
  /\ UNCHANGED <<now, limits, offered, overrides, changes, raced, interrupted>>

(* A statement fails or the process dies. *)
AbandonChange(s) ==
  /\ desk[s] # Idle
  /\ interrupted' = IF desk[s].step = "canceled" THEN interrupted \cup {desk[s].cabinet}
                                                 ELSE interrupted
  /\ desk' = [desk EXCEPT ![s] = Idle]
  /\ UNCHANGED <<now, limits, offered, subs, overrides, changes, raced>>

(* PATCH /admin/cabinets/:cabinetId/subscription/limits; a null is stored. *)
UpdateSubscription(c, l) ==
  /\ Changed
  /\ SubscriptionsForGuard(c) # {}
  /\ subs' = [i \in DOMAIN subs |->
                IF i \in SubscriptionsForGuard(c) THEN [subs[i] EXCEPT !.max = l] ELSE subs[i]]
  /\ UNCHANGED <<now, limits, offered, overrides, desk, raced, interrupted>>

(* POST /admin/cabinets/:cabinetId/overrides: one row per cabinet and feature. *)
AddOverride(c, f, type, expiresAt) ==
  /\ Changed
  /\ overrides' = [overrides EXCEPT ![<<c, f>>] = [type |-> type, expiresAt |-> expiresAt,
                                               deleted |-> FALSE]]
  /\ UNCHANGED <<now, limits, offered, subs, desk, raced, interrupted>>

RemoveOverride(c, f) ==
  /\ Changed
  /\ overrides[<<c, f>>].type # "NONE"
  /\ overrides' = [overrides EXCEPT ![<<c, f>>].deleted = TRUE]
  /\ UNCHANGED <<now, limits, offered, subs, desk, raced, interrupted>>

ChangePlans ==
  \/ Tick
  \/ \E p \in Plans, l \in LimitChoices : UpdatePlan(p, l)
  \/ \E p \in Plans, f \in Features, retroactive \in BOOLEAN : AddFeatureToPlan(p, f, retroactive)
  \/ \E p \in Plans, f \in Features : RemoveFeatureFromPlan(p, f)
  \/ \E s \in Desks, c \in Cabinets, p \in Plans : ReadPlan(s, c, p)
  \/ \E s \in Desks : CancelSubscriptions(s) \/ CreateSubscription(s) \/ AbandonChange(s)
  \/ \E c \in Cabinets, l \in LimitChoices : UpdateSubscription(c, l)
  \/ \E c \in Cabinets, f \in Features, type \in {"GRANT", "BLOCK"},
        expiresAt \in {NONE} \cup ((now + 1)..MaxTime) : AddOverride(c, f, type, expiresAt)
  \/ \E c \in Cabinets, f \in Features : RemoveOverride(c, f)

PlansSpec == PlansInit /\ [][ChangePlans]_plansVars

-----------------------------------------------------------------------------
(* A cabinet has more than one running subscription only if two            *)
(* replacements of it were under way at once.                              *)
OneSubscriptionUnlessRaced ==
  \A c \in Cabinets \ raced : Cardinality(ActiveSubscriptions(c)) <= 1

(* A cabinet that has had a subscription is without one only between the   *)
(* two statements of a replacement, or for good if that replacement was    *)
(* cut short there: nothing completes it.                                  *)
GapsAreInterruptions ==
  \A c \in Cabinets : (\E i \in DOMAIN subs : subs[i].cabinet = c) =>
    \/ HasActiveSubscription(c)
    \/ \E s \in Desks : desk[s].step = "canceled" /\ desk[s].cabinet = c
    \/ c \in interrupted

(* A cabinet has one running subscription, with the exceptions above.      *)
SubscriptionsAreSingle == OneSubscriptionUnlessRaced /\ GapsAreInterruptions
=============================================================================
