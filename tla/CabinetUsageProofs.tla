------------------------- MODULE CabinetUsageProofs -------------------------
(***************************************************************************)
(* Theorems about Subscriptions, FeatureAccess and CabinetUsage, for any   *)
(* cabinets, plans, features, limits, demands, results, sizes, number of   *)
(* overlapping requests and bounds.                                        *)
(***************************************************************************)
EXTENDS CabinetUsage, FeatureAccess, FiniteSetTheorems, TLAPS

-----------------------------------------------------------------------------
(* Plans and subscriptions: types *)

(* Requests of CabinetUsage count as changes and leave the rest alone. *)
PlansKept ==
  /\ UNCHANGED <<now, limits, offered, subs, overrides, desk, raced, interrupted>>
  /\ changes' \in Nat

(* A running subscription was never canceled and has started. *)
Standing(q) ==
  q.status = "ACTIVE" /\ q.deletedAt = NONE => q.canceledAt = NONE /\ q.createdAt <= now

Waiting(q) ==
  /\ q.step = "idle" => q = Idle
  /\ q.step # "idle" => q.cabinet \in Cabinets /\ q.plan \in Plans

PlansInv ==
  /\ PlansTypeOK
  /\ subs \in Seq(Subscription)
  /\ \A i \in DOMAIN subs : Standing(subs[i])
  /\ \A s \in Desks : Waiting(desk[s])

LEMMA IdleType == Idle \in Change /\ Waiting(Idle)
  BY DEF Idle, Change, Limits, Waiting

LEMMA PlansInitial == PlansInit => PlansInv
<1> SUFFICES ASSUME PlansInit PROVE PlansInv
  OBVIOUS
<1>1. PlansTypeOK
  <2>1. NoOverride \in Override
    BY DEF NoOverride, Override
  <2>2. limits \in [Plans -> Limits]
    BY SubscriptionsAssumption DEF PlansInit, Limits
  <2>. QED
    BY <2>1, <2>2, IdleType, SubscriptionsAssumption DEF PlansInit, PlansTypeOK, Effective
<1>2. subs = <<>> /\ subs \in Seq(Subscription) /\ DOMAIN subs = {}
  BY DEF PlansInit
<1> QED
  BY <1>1, <1>2, IdleType DEF PlansInit, PlansInv

(* The desks after each step of a replacement. *)
LEMMA DeskFields ==
  ASSUME PlansInv, NEW s \in Desks, desk[s].step = "read",
         desk' = [desk EXCEPT ![s].step = "canceled"]
  PROVE  /\ desk' \in [Desks -> Change]
         /\ desk'[s].step = "canceled" /\ desk'[s].cabinet = desk[s].cabinet
         /\ desk'[s].plan = desk[s].plan
         /\ \A t \in Desks : t # s => desk'[t] = desk[t]
         /\ \A t \in Desks : Waiting(desk'[t])
BY DEF PlansInv, PlansTypeOK, Change, Waiting

LEMMA DeskCleared ==
  ASSUME PlansInv, NEW s \in Desks, desk' = [desk EXCEPT ![s] = Idle]
  PROVE  /\ desk' \in [Desks -> Change]
         /\ desk'[s] = Idle
         /\ \A t \in Desks : t # s => desk'[t] = desk[t]
         /\ \A t \in Desks : Waiting(desk'[t])
BY IdleType DEF PlansInv, PlansTypeOK

(* What the two statements and the change of limits do to the rows. *)
LEMMA CancelRows ==
  ASSUME PlansInv, NEW s \in Desks, CancelSubscriptions(s)
  PROVE  /\ subs' \in Seq(Subscription) /\ DOMAIN subs' = DOMAIN subs
         /\ \A i \in DOMAIN subs :
              /\ subs'[i].cabinet = subs[i].cabinet
              /\ subs[i].cabinet = desk[s].cabinet => subs'[i].deletedAt # NONE
              /\ subs[i].cabinet # desk[s].cabinet => subs'[i] = subs[i]
         /\ \A i \in DOMAIN subs' : Standing(subs'[i])
<1>1. /\ subs \in Seq(Subscription) /\ \A i \in DOMAIN subs : Standing(subs[i])
      /\ now \in Nat /\ now # NONE
  BY SubscriptionsAssumption DEF PlansInv, PlansTypeOK
<1>. DEFINE gone(i) == [subs[i] EXCEPT !.deletedAt = now, !.canceledAt = now, !.status = "CANCELED"]
<1>2. ASSUME NEW i \in DOMAIN subs
      PROVE  /\ gone(i) \in Subscription /\ gone(i).deletedAt = now
             /\ gone(i).status = "CANCELED" /\ gone(i).cabinet = subs[i].cabinet
  <2>1. subs[i] \in Subscription
    BY <1>1
  <2>. QED
    BY <1>1, <2>1 DEF Subscription
<1>3. subs' = [i \in DOMAIN subs |->
                 IF subs[i].cabinet = desk[s].cabinet /\ subs[i].deletedAt = NONE
                 THEN gone(i) ELSE subs[i]]
  BY DEF CancelSubscriptions
<1>. HIDE DEF gone
<1>4. subs' \in Seq(Subscription) /\ DOMAIN subs' = DOMAIN subs
  BY <1>1, <1>2, <1>3
<1>5. \A i \in DOMAIN subs : Standing(subs'[i])
  BY <1>1, <1>2, <1>3 DEF Standing
<1>6. \A i \in DOMAIN subs :
        /\ subs'[i].cabinet = subs[i].cabinet
        /\ subs[i].cabinet = desk[s].cabinet => subs'[i].deletedAt # NONE
        /\ subs[i].cabinet # desk[s].cabinet => subs'[i] = subs[i]
  BY <1>1, <1>2, <1>3
<1> QED
  BY <1>4, <1>5, <1>6

LEMMA CreateRows ==
  ASSUME PlansInv, NEW s \in Desks, CreateSubscription(s)
  PROVE  /\ subs' \in Seq(Subscription) /\ DOMAIN subs' = DOMAIN subs \cup {Len(subs) + 1}
         /\ \A i \in DOMAIN subs : subs'[i] = subs[i]
         /\ LET new == subs'[Len(subs) + 1] IN
              /\ new.cabinet = desk[s].cabinet /\ new.status = "ACTIVE"
              /\ new.deletedAt = NONE /\ new.canceledAt = NONE /\ new.createdAt = now
         /\ \A i \in DOMAIN subs' : Standing(subs'[i])
<1>. DEFINE new == [cabinet |-> desk[s].cabinet, plan |-> desk[s].plan,
                    status |-> "ACTIVE", createdAt |-> now,
                    canceledAt |-> NONE, deletedAt |-> NONE, max |-> desk[s].max]
<1>1. /\ subs \in Seq(Subscription) /\ \A i \in DOMAIN subs : Standing(subs[i])
      /\ now \in Nat /\ desk[s] \in Change /\ desk[s].step = "canceled" /\ Waiting(desk[s])
      /\ subs' = Append(subs, new)
  BY DEF PlansInv, PlansTypeOK, CreateSubscription
<1>2. new \in Subscription /\ new.cabinet = desk[s].cabinet /\ Standing(new)
      /\ new.status = "ACTIVE" /\ new.deletedAt = NONE /\ new.canceledAt = NONE /\ new.createdAt = now
  BY <1>1 DEF Subscription, Change, Waiting, Standing
<1>. HIDE DEF new
<1>3. /\ subs' \in Seq(Subscription) /\ DOMAIN subs' = DOMAIN subs \cup {Len(subs) + 1}
      /\ \A i \in DOMAIN subs : subs'[i] = subs[i]
      /\ subs'[Len(subs) + 1] = new
  BY <1>1, <1>2
<1>4. \A i \in DOMAIN subs' : Standing(subs'[i])
  BY <1>1, <1>2, <1>3
<1> QED
  BY <1>2, <1>3, <1>4

LEMMA UpdateRows ==
  ASSUME PlansInv, NEW c \in Cabinets, NEW l \in LimitChoices, UpdateSubscription(c, l)
  PROVE  /\ subs' \in Seq(Subscription) /\ DOMAIN subs' = DOMAIN subs
         /\ \A i \in DOMAIN subs :
              /\ subs'[i].cabinet = subs[i].cabinet /\ subs'[i].status = subs[i].status
              /\ subs'[i].deletedAt = subs[i].deletedAt /\ subs'[i].canceledAt = subs[i].canceledAt
              /\ subs'[i].createdAt = subs[i].createdAt
         /\ \A i \in DOMAIN subs' : Standing(subs'[i])
<1>1. subs \in Seq(Subscription) /\ (\A i \in DOMAIN subs : Standing(subs[i])) /\ l \in Limits
  BY SubscriptionsAssumption DEF PlansInv, PlansTypeOK, Limits
<1>. DEFINE new(i) == [subs[i] EXCEPT !.max = l]
<1>2. ASSUME NEW i \in DOMAIN subs
      PROVE  /\ new(i) \in Subscription
             /\ new(i).cabinet = subs[i].cabinet /\ new(i).status = subs[i].status
             /\ new(i).deletedAt = subs[i].deletedAt /\ new(i).canceledAt = subs[i].canceledAt
             /\ new(i).createdAt = subs[i].createdAt
  <2>1. subs[i] \in Subscription
    BY <1>1
  <2>. QED
    BY <1>1, <2>1 DEF Subscription, Limits
<1>3. subs' = [i \in DOMAIN subs |-> IF i \in SubscriptionsForGuard(c) THEN new(i) ELSE subs[i]]
  BY DEF UpdateSubscription
<1>. HIDE DEF new
<1>4. subs' \in Seq(Subscription) /\ DOMAIN subs' = DOMAIN subs
  BY <1>1, <1>2, <1>3
<1>5. \A i \in DOMAIN subs :
        /\ subs'[i].cabinet = subs[i].cabinet /\ subs'[i].status = subs[i].status
        /\ subs'[i].deletedAt = subs[i].deletedAt /\ subs'[i].canceledAt = subs[i].canceledAt
        /\ subs'[i].createdAt = subs[i].createdAt
  BY <1>2, <1>3
<1>6. \A i \in DOMAIN subs' : Standing(subs'[i])
  BY <1>1, <1>4, <1>5 DEF Standing
<1> QED
  BY <1>4, <1>5, <1>6

LEMMA PlansStep == PlansInv /\ (ChangePlans \/ PlansKept) => PlansInv'
<1> SUFFICES ASSUME PlansInv, ChangePlans \/ PlansKept PROVE PlansInv'
  OBVIOUS
<1>0. /\ PlansTypeOK /\ subs \in Seq(Subscription) /\ changes \in Nat /\ now \in Nat
      /\ MaxTime \in Nat /\ now <= MaxTime
  BY SubscriptionsAssumption DEF PlansInv, PlansTypeOK
<1>1. CASE PlansKept
  BY <1>0, <1>1 DEF PlansKept, PlansInv, PlansTypeOK, Standing, Waiting
<1>2. CASE Tick
  <2>1. now' \in 0..MaxTime /\ now' \in Nat /\ now <= now'
    BY <1>0, <1>2 DEF Tick
  <2>2. ASSUME NEW i \in DOMAIN subs PROVE Standing(subs[i])'
    <3>0. subs[i] \in Subscription
      BY <1>0
    <3>1. subs[i].createdAt \in Nat /\ Standing(subs[i]) /\ subs' = subs
      BY <1>2, <3>0 DEF Tick, PlansInv, Subscription
    <3>2. subs[i].createdAt <= now => subs[i].createdAt <= now'
      BY <1>0, <2>1, <3>1
    <3>. QED
      BY <3>1, <3>2 DEF Standing
  <2>. QED
    BY <1>0, <1>2, <2>1, <2>2 DEF Tick, PlansInv, PlansTypeOK, Waiting
<1>3. ASSUME NEW p \in Plans, NEW l \in LimitChoices, UpdatePlan(p, l) PROVE PlansInv'
  <2>1. limits' \in [Plans -> Limits] /\ changes' \in Nat
    BY <1>0, <1>3, SubscriptionsAssumption DEF UpdatePlan, Changed, PlansTypeOK, Limits
  <2>. QED
    BY <1>3, <2>1 DEF UpdatePlan, PlansInv, PlansTypeOK, Standing, Waiting
<1>4. ASSUME NEW p \in Plans, NEW f \in Features, NEW retroactive \in BOOLEAN,
             AddFeatureToPlan(p, f, retroactive) \/ RemoveFeatureFromPlan(p, f)
      PROVE  PlansInv'
  <2>0. changes' \in Nat /\ offered \in [Plans \X Features -> Effective]
    BY <1>0, <1>4 DEF AddFeatureToPlan, RemoveFeatureFromPlan, Changed, PlansTypeOK
  <2>1. offered' \in [Plans \X Features -> Effective]
    <3>1. CASE AddFeatureToPlan(p, f, retroactive)
      <4>1. (IF retroactive THEN ForAll ELSE now) \in Effective
        BY <1>0 DEF Effective
      <4>. QED
        BY <2>0, <3>1, <4>1 DEF AddFeatureToPlan
    <3>2. CASE RemoveFeatureFromPlan(p, f)
      <4>1. Absent \in Effective
        BY DEF Effective
      <4>. QED
        BY <2>0, <3>2, <4>1 DEF RemoveFeatureFromPlan
    <3>. QED
      BY <1>4, <3>1, <3>2
  <2>. QED
    BY <1>4, <2>0, <2>1
       DEF AddFeatureToPlan, RemoveFeatureFromPlan, PlansInv, PlansTypeOK, Standing, Waiting
<1>5. ASSUME NEW s \in Desks, NEW c \in Cabinets, NEW p \in Plans, ReadPlan(s, c, p)
      PROVE  PlansInv'
  <2>1. desk' \in [Desks -> Change] /\ \A t \in Desks : Waiting(desk'[t])
    BY <1>0, <1>5 DEF ReadPlan, PlansInv, PlansTypeOK, Change, Limits, Waiting
  <2>2. changes' \in Nat /\ raced' \subseteq Cabinets
    BY <1>0, <1>5 DEF ReadPlan, Changed, PlansTypeOK
  <2>. QED
    BY <1>5, <2>1, <2>2 DEF ReadPlan, PlansInv, PlansTypeOK, Standing, Waiting
<1>6. ASSUME NEW s \in Desks, CancelSubscriptions(s) PROVE PlansInv'
  <2>1. /\ desk' \in [Desks -> Change] /\ \A t \in Desks : Waiting(desk'[t])
    BY <1>6, DeskFields DEF CancelSubscriptions
  <2>2. /\ subs' \in Seq(Subscription) /\ \A i \in DOMAIN subs' : Standing(subs'[i])
        /\ UNCHANGED <<now, limits, offered, overrides, changes, raced, interrupted>>
    BY <1>6, CancelRows DEF CancelSubscriptions
  <2>3. \A i \in DOMAIN subs' : subs'[i] \in Subscription
    BY <2>2
  <2>. QED
    BY <1>0, <2>1, <2>2, <2>3 DEF PlansInv, PlansTypeOK, Standing, Waiting
<1>7. ASSUME NEW s \in Desks, CreateSubscription(s) PROVE PlansInv'
  <2>1. /\ desk' \in [Desks -> Change] /\ \A t \in Desks : Waiting(desk'[t])
    BY <1>7, DeskCleared DEF CreateSubscription
  <2>2. /\ subs' \in Seq(Subscription) /\ \A i \in DOMAIN subs' : Standing(subs'[i])
        /\ UNCHANGED <<now, limits, offered, overrides, changes, raced, interrupted>>
    BY <1>7, CreateRows DEF CreateSubscription
  <2>3. \A i \in DOMAIN subs' : subs'[i] \in Subscription
    BY <2>2
  <2>. QED
    BY <1>0, <2>1, <2>2, <2>3 DEF PlansInv, PlansTypeOK, Standing, Waiting
<1>8. ASSUME NEW s \in Desks, AbandonChange(s) PROVE PlansInv'
  <2>1. /\ desk' \in [Desks -> Change] /\ \A t \in Desks : Waiting(desk'[t])
    BY <1>8, DeskCleared DEF AbandonChange
  <2>2. interrupted' \subseteq Cabinets
    BY <1>0, <1>8 DEF AbandonChange, PlansInv, PlansTypeOK, Waiting
  <2>. QED
    BY <1>8, <2>1, <2>2 DEF AbandonChange, PlansInv, PlansTypeOK, Standing, Waiting
<1>9. ASSUME NEW c \in Cabinets, NEW l \in LimitChoices, UpdateSubscription(c, l) PROVE PlansInv'
  <2>1. changes' \in Nat
    BY <1>0, <1>9 DEF UpdateSubscription, Changed
  <2>2. /\ subs' \in Seq(Subscription) /\ \A i \in DOMAIN subs' : Standing(subs'[i])
        /\ UNCHANGED <<now, limits, offered, overrides, desk, raced, interrupted>>
    BY <1>9, UpdateRows DEF UpdateSubscription
  <2>3. \A i \in DOMAIN subs' : subs'[i] \in Subscription
    BY <2>2
  <2>. QED
    BY <1>0, <2>1, <2>2, <2>3 DEF PlansInv, PlansTypeOK, Standing, Waiting
<1>10. ASSUME NEW c \in Cabinets, NEW f \in Features, NEW type \in {"GRANT", "BLOCK"},
              NEW expiresAt \in {NONE} \cup ((now + 1)..MaxTime),
              AddOverride(c, f, type, expiresAt)
       PROVE  PlansInv'
  <2>0. expiresAt \in Nat \cup {NONE}
    BY <1>0, SubscriptionsAssumption
  <2>1. overrides' \in [Cabinets \X Features -> Override] /\ changes' \in Nat
    BY <1>0, <1>10, <2>0 DEF AddOverride, Changed, PlansTypeOK, Override
  <2>. QED
    BY <1>10, <2>1 DEF AddOverride, PlansInv, PlansTypeOK, Standing, Waiting
<1>11. ASSUME NEW c \in Cabinets, NEW f \in Features, RemoveOverride(c, f) PROVE PlansInv'
  <2>1. overrides' \in [Cabinets \X Features -> Override] /\ changes' \in Nat
    <3>1. /\ overrides \in [Cabinets \X Features -> Override] /\ changes' \in Nat
          /\ overrides' = [overrides EXCEPT ![<<c, f>>].deleted = TRUE]
      BY <1>0, <1>11 DEF RemoveOverride, Changed, PlansTypeOK
    <3>2. overrides[<<c, f>>] \in Override
      BY <3>1
    <3>3. [overrides[<<c, f>>] EXCEPT !.deleted = TRUE] \in Override
      BY <3>2 DEF Override
    <3>. QED
      BY <3>1, <3>3
  <2>. QED
    BY <1>11, <2>1 DEF RemoveOverride, PlansInv, PlansTypeOK, Standing, Waiting
<1>12. ASSUME NEW p \in Plans, NEW f \in Features, RemoveFeatureFromPlan(p, f) PROVE PlansInv'
  BY <1>4, <1>12
<1> QED
  BY <1>1, <1>2, <1>3, <1>4, <1>5, <1>6, <1>7, <1>8, <1>9, <1>10, <1>11, <1>12 DEF ChangePlans

-----------------------------------------------------------------------------
(* One running subscription *)

Running(q, c) == q.cabinet = c /\ q.deletedAt = NONE /\ q.status = "ACTIVE"

(* Until replacements of a cabinet race, one desk at most is replacing its *)
(* subscription, one row at most runs, and none between the statements.    *)
SingleInv ==
  \A c \in Cabinets \ raced :
    /\ \A s, t \in Desks : desk[s].cabinet = c /\ desk[t].cabinet = c => s = t
    /\ \A i, j \in DOMAIN subs : Running(subs[i], c) /\ Running(subs[j], c) => i = j
    /\ \A s \in Desks : desk[s].step = "canceled" /\ desk[s].cabinet = c =>
         \A i \in DOMAIN subs : ~Running(subs[i], c)

(* GapsAreInterruptions, row by row. *)
GapInv ==
  \A c \in Cabinets : (\E i \in DOMAIN subs : subs[i].cabinet = c) =>
    \/ \E i \in DOMAIN subs : Running(subs[i], c)
    \/ \E s \in Desks : desk[s].step = "canceled" /\ desk[s].cabinet = c
    \/ c \in interrupted

LEMMA IdleDesk == Idle.step = "idle" /\ \A c \in Cabinets : Idle.cabinet # c
  BY SubscriptionsAssumption DEF Idle

(* The rows may change as long as which of them run does not. *)
LEMMA SameRunning ==
  ASSUME SingleInv, GapInv, UNCHANGED <<desk, raced, interrupted>>, DOMAIN subs' = DOMAIN subs,
         \A i \in DOMAIN subs : /\ subs'[i].cabinet = subs[i].cabinet
                                /\ subs'[i].status = subs[i].status
                                /\ subs'[i].deletedAt = subs[i].deletedAt
  PROVE  SingleInv' /\ GapInv'
<1>1. \A i \in DOMAIN subs, c \in Cabinets : Running(subs'[i], c) <=> Running(subs[i], c)
  BY DEF Running
<1>2. SingleInv'
  <2> SUFFICES ASSUME NEW c \in Cabinets \ raced
               PROVE  /\ \A s, t \in Desks : desk[s].cabinet = c /\ desk[t].cabinet = c => s = t
                      /\ \A i, j \in DOMAIN subs : Running(subs'[i], c) /\ Running(subs'[j], c) => i = j
                      /\ \A s \in Desks : desk[s].step = "canceled" /\ desk[s].cabinet = c =>
                           \A i \in DOMAIN subs : ~Running(subs'[i], c)
    BY DEF SingleInv, Running
  <2>. QED
    BY <1>1 DEF SingleInv
<1>3. GapInv'
  <2> SUFFICES ASSUME NEW c \in Cabinets, NEW i \in DOMAIN subs, subs'[i].cabinet = c
               PROVE  \/ \E j \in DOMAIN subs : Running(subs'[j], c)
                      \/ \E s \in Desks : desk[s].step = "canceled" /\ desk[s].cabinet = c
                      \/ c \in interrupted
    BY DEF GapInv, Running
  <2>. QED
    BY <1>1 DEF GapInv
<1> QED
  BY <1>2, <1>3

LEMMA SingleRead ==
  ASSUME PlansInv, SingleInv, GapInv, NEW s \in Desks, NEW c \in Cabinets, NEW p \in Plans,
         ReadPlan(s, c, p)
  PROVE  SingleInv' /\ GapInv'
<1>1. /\ UNCHANGED <<subs, interrupted>> /\ desk[s] = Idle
      /\ desk'[s].step = "read" /\ desk'[s].cabinet = c
      /\ \A t \in Desks : t # s => desk'[t] = desk[t]
      /\ raced' = IF \E t \in Desks : desk[t].cabinet = c THEN raced \cup {c} ELSE raced
  BY DEF ReadPlan, PlansInv, PlansTypeOK
<1>2. SingleInv'
  <2> SUFFICES ASSUME NEW d \in Cabinets, d \notin raced'
               PROVE  /\ \A x, y \in Desks : desk'[x].cabinet = d /\ desk'[y].cabinet = d => x = y
                      /\ \A i, j \in DOMAIN subs : Running(subs[i], d) /\ Running(subs[j], d) => i = j
                      /\ \A x \in Desks : desk'[x].step = "canceled" /\ desk'[x].cabinet = d =>
                           \A i \in DOMAIN subs : ~Running(subs[i], d)
    BY <1>1 DEF SingleInv, Running
  <2>1. d \notin raced /\ (d = c => \A t \in Desks : desk[t].cabinet # c)
    BY <1>1
  <2>2. \A x, y \in Desks : desk'[x].cabinet = d /\ desk'[y].cabinet = d => x = y
    BY <1>1, <2>1 DEF SingleInv
  <2>3. \A x \in Desks : desk'[x].step = "canceled" /\ desk'[x].cabinet = d =>
          \A i \in DOMAIN subs : ~Running(subs[i], d)
    BY <1>1, <2>1 DEF SingleInv
  <2>. QED
    BY <2>1, <2>2, <2>3 DEF SingleInv
<1>3. GapInv'
  <2>1. \A t \in Desks : desk[t].step = "canceled" => desk'[t] = desk[t]
    BY <1>1, IdleDesk
  <2>. QED
    BY <1>1, <2>1 DEF GapInv, Running
<1> QED
  BY <1>2, <1>3

LEMMA SingleCancel ==
  ASSUME PlansInv, SingleInv, GapInv, NEW s \in Desks, CancelSubscriptions(s)
  PROVE  SingleInv' /\ GapInv'
<1>. DEFINE c == desk[s].cabinet
<1>1. /\ UNCHANGED <<raced, interrupted>> /\ DOMAIN subs' = DOMAIN subs
      /\ \A i \in DOMAIN subs :
           /\ subs'[i].cabinet = subs[i].cabinet
           /\ subs[i].cabinet = c => subs'[i].deletedAt # NONE
           /\ subs[i].cabinet # c => subs'[i] = subs[i]
  BY CancelRows DEF CancelSubscriptions
<1>2. /\ desk'[s].step = "canceled" /\ desk'[s].cabinet = c
      /\ \A t \in Desks : t # s => desk'[t] = desk[t]
  BY DeskFields DEF CancelSubscriptions
<1>3. \A i \in DOMAIN subs, d \in Cabinets :
        Running(subs'[i], d) <=> Running(subs[i], d) /\ d # c
  BY <1>1 DEF Running
<1>4. SingleInv'
  <2> SUFFICES ASSUME NEW d \in Cabinets, d \notin raced
               PROVE  /\ \A x, y \in Desks : desk'[x].cabinet = d /\ desk'[y].cabinet = d => x = y
                      /\ \A i, j \in DOMAIN subs : Running(subs'[i], d) /\ Running(subs'[j], d) => i = j
                      /\ \A x \in Desks : desk'[x].step = "canceled" /\ desk'[x].cabinet = d =>
                           \A i \in DOMAIN subs : ~Running(subs'[i], d)
    BY <1>1 DEF SingleInv, Running
  <2>. QED
    BY <1>2, <1>3 DEF SingleInv
<1>5. GapInv'
  <2> SUFFICES ASSUME NEW d \in Cabinets, NEW i \in DOMAIN subs, subs[i].cabinet = d
               PROVE  \/ \E j \in DOMAIN subs : Running(subs'[j], d)
                      \/ \E t \in Desks : desk'[t].step = "canceled" /\ desk'[t].cabinet = d
                      \/ d \in interrupted
    BY <1>1 DEF GapInv, Running
  <2>1. CASE d = c
    BY <1>2, <2>1
  <2>2. CASE d # c
    BY <1>2, <1>3, <2>2 DEF GapInv
  <2>. QED
    BY <2>1, <2>2
<1> QED
  BY <1>4, <1>5

LEMMA SingleCreate ==
  ASSUME PlansInv, SingleInv, GapInv, NEW s \in Desks, CreateSubscription(s)
  PROVE  SingleInv' /\ GapInv'
<1>. DEFINE c == desk[s].cabinet
            n == Len(subs) + 1
<1>1. /\ UNCHANGED <<raced, interrupted>> /\ DOMAIN subs' = DOMAIN subs \cup {n}
      /\ \A i \in DOMAIN subs : subs'[i] = subs[i]
      /\ Running(subs'[n], c) /\ subs'[n].cabinet = c
  BY CreateRows DEF CreateSubscription, Running
<1>2. /\ desk[s].step = "canceled" /\ desk'[s] = Idle
      /\ \A t \in Desks : t # s => desk'[t] = desk[t]
  BY DeskCleared DEF CreateSubscription
<1>3. SingleInv'
  <2> SUFFICES ASSUME NEW d \in Cabinets, d \notin raced
               PROVE  /\ \A x, y \in Desks : desk'[x].cabinet = d /\ desk'[y].cabinet = d => x = y
                      /\ \A i, j \in DOMAIN subs' : Running(subs'[i], d) /\ Running(subs'[j], d) => i = j
                      /\ \A x \in Desks : desk'[x].step = "canceled" /\ desk'[x].cabinet = d =>
                           \A i \in DOMAIN subs' : ~Running(subs'[i], d)
    BY <1>1 DEF SingleInv, Running
  <2>1. d # c => ~Running(subs'[n], d)
    BY <1>1 DEF Running
  <2>2. d = c => \A i \in DOMAIN subs : ~Running(subs[i], d)
    BY <1>2 DEF SingleInv
  <2>3. \A x \in Desks : desk'[x].cabinet = d => x # s /\ desk'[x] = desk[x]
    BY <1>2, IdleDesk
  <2>4. d = c => \A x \in Desks : desk'[x].cabinet # d
    BY <2>3 DEF SingleInv
  <2>. QED
    BY <1>1, <2>1, <2>2, <2>3, <2>4 DEF SingleInv
<1>4. GapInv'
  <2> SUFFICES ASSUME NEW d \in Cabinets, NEW i \in DOMAIN subs', subs'[i].cabinet = d
               PROVE  \/ \E j \in DOMAIN subs' : Running(subs'[j], d)
                      \/ \E t \in Desks : desk'[t].step = "canceled" /\ desk'[t].cabinet = d
                      \/ d \in interrupted
    BY <1>1 DEF GapInv, Running
  <2>1. CASE d = c
    BY <1>1, <2>1
  <2>2. CASE d # c
    BY <1>1, <1>2, <2>2 DEF GapInv
  <2>. QED
    BY <2>1, <2>2
<1> QED
  BY <1>3, <1>4

LEMMA SingleAbandon ==
  ASSUME PlansInv, SingleInv, GapInv, NEW s \in Desks, AbandonChange(s)
  PROVE  SingleInv' /\ GapInv'
<1>1. /\ UNCHANGED <<subs, raced>> /\ desk'[s] = Idle
      /\ \A t \in Desks : t # s => desk'[t] = desk[t]
      /\ interrupted' = IF desk[s].step = "canceled" THEN interrupted \cup {desk[s].cabinet}
                                                     ELSE interrupted
  BY DeskCleared DEF AbandonChange
<1>2. \A t \in Desks, c \in Cabinets : desk'[t].cabinet = c => desk'[t] = desk[t]
  BY <1>1, IdleDesk
<1>3. SingleInv'
  BY <1>1, <1>2 DEF SingleInv, Running
<1>4. GapInv'
  <2> SUFFICES ASSUME NEW d \in Cabinets, NEW i \in DOMAIN subs, subs[i].cabinet = d
               PROVE  \/ \E j \in DOMAIN subs : Running(subs[j], d)
                      \/ \E t \in Desks : desk'[t].step = "canceled" /\ desk'[t].cabinet = d
                      \/ d \in interrupted'
    BY <1>1 DEF GapInv, Running
  <2>. QED
    BY <1>1 DEF GapInv
<1> QED
  BY <1>3, <1>4

LEMMA SingleStep ==
  PlansInv /\ SingleInv /\ GapInv /\ (ChangePlans \/ PlansKept) => SingleInv' /\ GapInv'
<1> SUFFICES ASSUME PlansInv, SingleInv, GapInv, ChangePlans \/ PlansKept
             PROVE  SingleInv' /\ GapInv'
  OBVIOUS
<1>1. UNCHANGED <<subs, desk, raced, interrupted>> => SingleInv' /\ GapInv'
  BY SameRunning
<1>2. ASSUME NEW c \in Cabinets, NEW l \in LimitChoices, UpdateSubscription(c, l)
      PROVE  SingleInv' /\ GapInv'
  <2>1. UNCHANGED <<desk, raced, interrupted>>
    BY <1>2 DEF UpdateSubscription
  <2>. QED
    BY <1>2, <2>1, UpdateRows, SameRunning
<1>3. \/ PlansKept \/ Tick
      \/ \E p \in Plans, l \in LimitChoices : UpdatePlan(p, l)
      \/ \E p \in Plans, f \in Features, retroactive \in BOOLEAN :
           AddFeatureToPlan(p, f, retroactive)
      \/ \E p \in Plans, f \in Features : RemoveFeatureFromPlan(p, f)
      \/ \E c \in Cabinets, f \in Features, type \in {"GRANT", "BLOCK"},
            expiresAt \in {NONE} \cup ((now + 1)..MaxTime) : AddOverride(c, f, type, expiresAt)
      \/ \E c \in Cabinets, f \in Features : RemoveOverride(c, f)
      => UNCHANGED <<subs, desk, raced, interrupted>>
  BY DEF PlansKept, Tick, UpdatePlan, AddFeatureToPlan, RemoveFeatureFromPlan, AddOverride,
         RemoveOverride
<1> QED
  BY <1>1, <1>2, <1>3, SingleRead, SingleCancel, SingleCreate, SingleAbandon DEF ChangePlans

LEMMA SingleInitial == PlansInit => SingleInv /\ GapInv
<1> SUFFICES ASSUME PlansInit PROVE SingleInv /\ GapInv
  OBVIOUS
<1>1. DOMAIN subs = {} /\ \A s \in Desks : desk[s] = Idle
  BY DEF PlansInit
<1> QED
  BY <1>1, IdleDesk DEF SingleInv, GapInv

-----------------------------------------------------------------------------
(* Requests and files: types *)

(* What a request in progress names, and the steps it goes through, by the *)
(* route it came on.                                                       *)
Named(q) ==
  /\ q.op = "none" => q = NoJob
  /\ q.op \in {"createDemand", "claim", "confirm", "deleteDemand"} => q.demand \in Demands
  /\ q.op \in {"createResult", "addImages", "protocol", "deleteResult"} => q.result \in Results
  /\ q.op \in {"protocol", "confirm"} \/ (q.op = "createResult" /\ q.step = "allowed")
       => q.file \in Keys
  /\ q.op \in {"createResult", "addImages"} \/ (q.todo = {} /\ q.passed = {} /\ q.done = {})
  /\ q.op \in {"protocol", "deleteDemand", "deleteResult"} \/ q.old = {}
  /\ q.step = "counted" => q.op \in {"createDemand", "claim"}
  /\ q.step = "allowed" => q.op \in {"createDemand", "claim", "createResult", "protocol", "confirm"}
  /\ q.step = "replacing" => q.op = "protocol"
  /\ q.step = "dropped" => q.op \in {"deleteDemand", "deleteResult"}

UsageInv ==
  /\ PlansInv /\ TypeOK
  /\ evidence \in Seq(Demands \X Keys)
  /\ \A j \in Jobs : Named(job[j])

LEMMA NoJobType == NoJob \in Job /\ Named(NoJob) /\ NoJob.op = "none"
  BY DEF NoJob, Job, Named

LEMMA UsageInitial == Init => UsageInv
<1> SUFFICES ASSUME Init PROVE UsageInv
  OBVIOUS
<1>1. PlansInv
  BY PlansInitial DEF Init
<1>2. NoHolder \in Holder
  BY DEF NoHolder, Holder, Row
<1>3. TypeOK
  BY <1>1, <1>2, NoJobType, UsageAssumption DEF Init, PlansInv, TypeOK
<1>4. evidence \in Seq(Demands \X Keys) /\ \A j \in Jobs : Named(job[j])
  BY NoJobType DEF Init
<1> QED
  BY <1>1, <1>3, <1>4 DEF UsageInv

LEMMA Administering == UsageInv /\ [Next]_vars => ChangePlans \/ PlansKept
<1> SUFFICES ASSUME UsageInv, [Next]_vars PROVE ChangePlans \/ PlansKept
  OBVIOUS
<1>0. changes \in Nat
  BY DEF UsageInv, PlansInv, PlansTypeOK
<1>1. ASSUME NEW j \in Jobs, Arrive(j) PROVE PlansKept
  <2>1. \E q, n : Start(j, q, n)
    BY <1>1, Zenon DEF Arrive, StartDemand, StartClaim, StartResult, StartImages, StartProtocol,
         StartDeleteResult, StartConfirm, StartDeleteDemand
  <2>. QED
    BY <1>0, <2>1 DEF Start, Changed, PlansKept
<1>2. ASSUME UNCHANGED plansVars PROVE PlansKept
  BY <1>0, <1>2 DEF plansVars, PlansKept
<1>3. ASSUME NEW j \in Jobs, Work(j) PROVE UNCHANGED plansVars
  BY <1>3
     DEF Work, CountDemands, CheckDemandLimit, SaveDemand, CheckImage, UploadImage, SaveImages,
         CheckProtocol, DropOldProtocol, UploadProtocol, SaveProtocol, SaveResult, CheckEvidence,
         RefuseEvidence, SaveEvidence, DropFiles, DisableDemand, DisableResult, FailJob,
         Silently, Wrote
<1>4. ASSUME \/ \E d \in Demands : PresignEvidence(d)
             \/ \E d \in Demands, k \in Keys : PutObject(d, k)
             \/ Crash \/ UNCHANGED vars
      PROVE  UNCHANGED plansVars
  BY <1>4 DEF PresignEvidence, PutObject, Crash, vars
<1> QED
  BY <1>1, <1>2, <1>3, <1>4 DEF Next, Administer

LEMMA CountType ==
  ASSUME UsageInv, NEW c
  PROVE  DemandCount(c) \in Nat
BY UsageAssumption, FS_Subset, FS_CardinalityType DEF DemandCount, DemandsOf

LEMMA FilesType ==
  ASSUME UsageInv
  PROVE  /\ \A d \in Demands : EvidenceOf(d) \subseteq Keys
         /\ \A x \in Results : FilesOfResult(x) \subseteq Keys
<1>1. ASSUME NEW d \in Demands PROVE EvidenceOf(d) \subseteq Keys
  <2>1. \A i \in DOMAIN evidence : evidence[i] \in Demands \X Keys
    BY DEF UsageInv
  <2>. QED
    BY <2>1 DEF EvidenceOf
<1>2. ASSUME NEW x \in Results PROVE FilesOfResult(x) \subseteq Keys
  BY DEF FilesOfResult, UsageInv, TypeOK
<1> QED
  BY <1>1, <1>2

(* A request that starts writes no table and no object, and takes a slot.  *)
Started(j) ==
  /\ job[j] = NoJob
  /\ \A i \in Jobs : i # j => job'[i] = job[i]
  /\ job' \in [Jobs -> Job] /\ Named(job'[j]) /\ job'[j].op # "none"
  /\ job'[j].passed = {} /\ job'[j].done = {}
  /\ minted' \in Nat /\ minted <= minted' /\ minted' <= MaxKeys
  /\ calm' = (calm /\ ~Busy /\ \A s \in Desks : desk[s] = Idle)
  /\ UNCHANGED <<usageTables, bucket, presigned, broken, stored>>

LEMMA Starting ==
  ASSUME UsageInv, NEW j \in Jobs, NEW q \in Job, NEW n \in Nat, Start(j, q, n),
         Named(q), q.op # "none", q.passed = {}, q.done = {}
  PROVE  Started(j) /\ job'[j] = q /\ minted' = minted + n
BY UsageAssumption DEF Start, Started, UsageInv, TypeOK, usageTables

(* Which requests may start, with what they read. *)
Arriving(j) ==
  \/ \E d \in Demands, c \in Cabinets \cup {NONE} :
       /\ demand[d].row = "absent"
       /\ \A i \in Jobs : ~(job[i].op = "createDemand" /\ job[i].demand = d)
       /\ job'[j].op = "createDemand" /\ job'[j].demand = d /\ job'[j].cabinet = c
       /\ job'[j].step = IF c = NONE THEN "allowed" ELSE "started"
       /\ minted' = minted
  \/ \E d \in Demands : 
       /\ demand[d].row = "enabled" /\ minted' = minted
       /\ job'[j].step = "started" /\ job'[j].demand = d
       /\ \/ job'[j].op = "claim"
          \/ /\ job'[j].op = "confirm" /\ <<d, job'[j].file>> \in presigned
             /\ job'[j].cabinet = demand[d].cabinet
          \/ job'[j].op = "deleteDemand" /\ job'[j].old = EvidenceOf(d)
  \/ \E x \in Results :
       /\ job'[j].result = x /\ job'[j].step = "started"
       /\ \/ /\ job'[j].op = "createResult" /\ result[x].row = "absent"
             /\ \A i \in Jobs : ~(job[i].op = "createResult" /\ job[i].result = x)
             /\ job'[j].todo \cup ({job'[j].file} \ {NONE}) \subseteq (minted + 1)..minted'
             /\ job'[j].file \notin job'[j].todo
          \/ /\ result[x].row = "enabled" /\ job'[j].cabinet = result[x].cabinet
             /\ job'[j].op = "addImages" /\ job'[j].todo \subseteq (minted + 1)..minted'
          \/ /\ result[x].row = "enabled"
             /\ job'[j].op = "protocol" /\ job'[j].cabinet = result[x].cabinet
             /\ job'[j].file \in (minted + 1)..minted'
             /\ job'[j].old = FilesOfResult(x) \ images[x]
          \/ /\ result[x].row = "enabled" /\ minted' = minted
             /\ job'[j].op = "deleteResult" /\ job'[j].old = FilesOfResult(x)

LEMMA Arrivals ==
  ASSUME UsageInv, NEW j \in Jobs, Arrive(j)
  PROVE  Started(j) /\ Arriving(j)
<1>0. /\ minted \in Nat /\ NONE \notin Nat /\ MaxKeys \in Nat
      /\ NoJob.passed = {} /\ NoJob.done = {} /\ NoJob.todo = {} /\ NoJob.old = {}
      /\ NoJob \in [op : {"none"}, step : {"idle"}, demand : {NONE}, result : {NONE},
                    cabinet : {NONE}, seen : Nat, todo : SUBSET Keys, passed : SUBSET Keys,
                    done : SUBSET Keys, file : {NONE}, old : SUBSET Keys]
      /\ result \in [Results -> Holder] /\ demand \in [Demands -> Holder]
  BY UsageAssumption, SubscriptionsAssumption DEF UsageInv, TypeOK, NoJob
<1>1. ASSUME NEW d \in Demands, NEW c \in Cabinets \cup {NONE}, StartDemand(j, d, c)
      PROVE  Started(j) /\ Arriving(j)
  <2>. DEFINE q == [NoJob EXCEPT !.op = "createDemand", !.demand = d, !.cabinet = c,
                                 !.step = IF c = NONE THEN "allowed" ELSE "started"]
  <2>1. /\ q \in Job /\ q.op = "createDemand" /\ q.demand = d /\ q.cabinet = c
        /\ q.step = IF c = NONE THEN "allowed" ELSE "started"
        /\ q.todo = {} /\ q.passed = {} /\ q.done = {} /\ q.old = {}
    BY <1>0 DEF Job
  <2>2. Start(j, q, 0)
    BY <1>1 DEF StartDemand
  <2>. HIDE DEF q
  <2>3. Named(q)
    BY <2>1 DEF Named
  <2>4. Started(j) /\ job'[j] = q /\ minted' = minted
    BY <1>0, <2>1, <2>2, <2>3, Starting
  <2>. QED
    BY <1>1, <2>1, <2>4 DEF StartDemand, Arriving
<1>2. ASSUME NEW d \in Demands, NEW c \in Cabinets, StartClaim(j, d, c)
      PROVE  Started(j) /\ Arriving(j)
  <2>. DEFINE q == [NoJob EXCEPT !.op = "claim", !.step = "started", !.demand = d, !.cabinet = c]
  <2>1. /\ q \in Job /\ q.op = "claim" /\ q.demand = d /\ q.step = "started"
        /\ q.todo = {} /\ q.passed = {} /\ q.done = {} /\ q.old = {}
    BY <1>0 DEF Job
  <2>2. Start(j, q, 0)
    BY <1>2 DEF StartClaim
  <2>. HIDE DEF q
  <2>3. Named(q)
    BY <2>1 DEF Named
  <2>4. Started(j) /\ job'[j] = q /\ minted' = minted
    BY <1>0, <2>1, <2>2, <2>3, Starting
  <2>. QED
    BY <1>2, <2>1, <2>4 DEF StartClaim, Arriving
<1>3. ASSUME NEW d \in Demands, NEW k \in Keys, StartConfirm(j, d, k)
      PROVE  Started(j) /\ Arriving(j)
  <2>. DEFINE q == [NoJob EXCEPT !.op = "confirm", !.step = "started", !.demand = d,
                                 !.cabinet = demand[d].cabinet, !.file = k]
  <2>0. demand[d].cabinet \in Cabinets \cup {NONE}
    BY <1>0 DEF Holder
  <2>1. /\ q \in Job /\ q.op = "confirm" /\ q.demand = d /\ q.step = "started" /\ q.file = k
        /\ q.cabinet = demand[d].cabinet
        /\ q.todo = {} /\ q.passed = {} /\ q.done = {} /\ q.old = {}
    BY <1>0, <2>0 DEF Job
  <2>2. Start(j, q, 0)
    BY <1>3 DEF StartConfirm
  <2>. HIDE DEF q
  <2>3. Named(q)
    BY <2>1 DEF Named
  <2>4. Started(j) /\ job'[j] = q /\ minted' = minted
    BY <1>0, <2>1, <2>2, <2>3, Starting
  <2>. QED
    BY <1>3, <2>1, <2>4 DEF StartConfirm, Arriving
<1>4. ASSUME NEW d \in Demands, StartDeleteDemand(j, d)
      PROVE  Started(j) /\ Arriving(j)
  <2>. DEFINE q == [NoJob EXCEPT !.op = "deleteDemand", !.step = "started", !.demand = d,
                                 !.old = EvidenceOf(d)]
  <2>0. EvidenceOf(d) \subseteq Keys
    BY FilesType
  <2>1. /\ q \in Job /\ q.op = "deleteDemand" /\ q.demand = d /\ q.step = "started"
        /\ q.todo = {} /\ q.passed = {} /\ q.done = {} /\ q.old = EvidenceOf(d)
    BY <1>0, <2>0 DEF Job
  <2>2. Start(j, q, 0)
    BY <1>4 DEF StartDeleteDemand
  <2>. HIDE DEF q
  <2>3. Named(q)
    BY <2>1 DEF Named
  <2>4. Started(j) /\ job'[j] = q /\ minted' = minted
    BY <1>0, <2>1, <2>2, <2>3, Starting
  <2>. QED
    BY <1>4, <2>1, <2>4 DEF StartDeleteDemand, Arriving
<1>5. ASSUME NEW x \in Results, StartDeleteResult(j, x)
      PROVE  Started(j) /\ Arriving(j)
  <2>. DEFINE q == [NoJob EXCEPT !.op = "deleteResult", !.step = "started", !.result = x,
                                 !.old = FilesOfResult(x)]
  <2>0. FilesOfResult(x) \subseteq Keys
    BY FilesType
  <2>1. /\ q \in Job /\ q.op = "deleteResult" /\ q.result = x /\ q.step = "started"
        /\ q.todo = {} /\ q.passed = {} /\ q.done = {} /\ q.old = FilesOfResult(x)
    BY <1>0, <2>0 DEF Job
  <2>2. Start(j, q, 0)
    BY <1>5 DEF StartDeleteResult
  <2>. HIDE DEF q
  <2>3. Named(q)
    BY <2>1 DEF Named
  <2>4. Started(j) /\ job'[j] = q /\ minted' = minted
    BY <1>0, <2>1, <2>2, <2>3, Starting
  <2>. QED
    BY <1>5, <2>1, <2>4 DEF StartDeleteResult, Arriving
<1>6. ASSUME NEW x \in Results, StartProtocol(j, x)
      PROVE  Started(j) /\ Arriving(j)
  <2>. DEFINE q == [NoJob EXCEPT !.op = "protocol", !.step = "started", !.result = x,
                                 !.cabinet = result[x].cabinet, !.file = minted + 1,
                                 !.old = FilesOfResult(x) \ images[x]]
  <2>0. /\ FilesOfResult(x) \subseteq Keys /\ result[x].cabinet \in Cabinets \cup {NONE}
        /\ minted + 1 \in Keys /\ minted + 1 \in (minted + 1)..(minted + 1)
    <3>1. minted + 1 <= MaxKeys
      BY <1>6 DEF StartProtocol, Start
    <3>2. minted + 1 \in Keys /\ minted + 1 \in (minted + 1)..(minted + 1)
      BY <1>0, <3>1 DEF Keys
    <3>. QED
      BY <1>0, <3>2, FilesType DEF Holder
  <2>1. /\ q \in Job /\ q.op = "protocol" /\ q.result = x /\ q.step = "started"
        /\ q.cabinet = result[x].cabinet /\ q.file = minted + 1
        /\ q.todo = {} /\ q.passed = {} /\ q.done = {} /\ q.old = FilesOfResult(x) \ images[x]
    BY <1>0, <2>0 DEF Job
  <2>2. Start(j, q, 1)
    BY <1>6 DEF StartProtocol
  <2>. HIDE DEF q
  <2>3. Named(q)
    BY <2>0, <2>1 DEF Named
  <2>4. Started(j) /\ job'[j] = q /\ minted' = minted + 1
    BY <1>0, <2>1, <2>2, <2>3, Starting
  <2>. QED
    BY <1>6, <2>0, <2>1, <2>4 DEF StartProtocol, Arriving
<1>7. ASSUME NEW x \in Results, NEW n \in 1..2, StartImages(j, x, n)
      PROVE  Started(j) /\ Arriving(j)
  <2>. DEFINE q == [NoJob EXCEPT !.op = "addImages", !.step = "started", !.result = x,
                                 !.cabinet = result[x].cabinet, !.todo = Fresh(n)]
  <2>0. Fresh(n) \subseteq Keys /\ result[x].cabinet \in Cabinets \cup {NONE}
    <3>1. minted + n <= MaxKeys
      BY <1>7 DEF StartImages, Start
    <3>2. Fresh(n) \subseteq Keys
      BY <1>0, <3>1 DEF Keys, Fresh
    <3>. QED
      BY <1>0, <3>2 DEF Holder
  <2>1. /\ q \in Job /\ q.op = "addImages" /\ q.result = x /\ q.step = "started"
        /\ q.cabinet = result[x].cabinet
        /\ q.todo = Fresh(n) /\ q.passed = {} /\ q.done = {} /\ q.old = {}
    BY <1>0, <2>0 DEF Job
  <2>2. Start(j, q, n)
    BY <1>7 DEF StartImages
  <2>. HIDE DEF q
  <2>3. Named(q)
    BY <2>0, <2>1 DEF Named
  <2>4. Started(j) /\ job'[j] = q /\ minted' = minted + n
    BY <1>0, <2>1, <2>2, <2>3, Starting
  <2>. QED
    BY <1>7, <2>0, <2>1, <2>4 DEF StartImages, Arriving, Fresh
<1>8. ASSUME NEW x \in Results, NEW c \in Cabinets, NEW n \in 0..2, NEW p \in 0..1,
             StartResult(j, x, c, n, p)
      PROVE  Started(j) /\ Arriving(j)
  <2>. DEFINE f == IF p = 1 THEN minted + n + 1 ELSE NONE
              q == [NoJob EXCEPT !.op = "createResult", !.step = "started", !.result = x,
                                 !.cabinet = c, !.todo = Fresh(n), !.file = f]
  <2>0. /\ Fresh(n) \subseteq Keys /\ f \in Keys \cup {NONE} /\ f \notin Fresh(n)
        /\ {f} \ {NONE} \subseteq (minted + 1)..(minted + n + p)
        /\ Fresh(n) \subseteq (minted + 1)..(minted + n + p)
        /\ n + p \in Nat
    <3>1. minted + (n + p) <= MaxKeys /\ n + p \in Nat
      BY <1>8 DEF StartResult, Start
    <3>2. /\ Fresh(n) \subseteq Keys /\ n + p \in Nat
          /\ Fresh(n) \subseteq (minted + 1)..(minted + n + p)
      BY <1>0, <3>1 DEF Keys, Fresh
    <3>3. CASE p = 1
      <4>1. f = minted + n + 1
        BY <3>3
      <4>. HIDE DEF f
      <4>2. f \in Keys /\ f \notin Fresh(n) /\ f \in (minted + 1)..(minted + n + p)
        BY <1>0, <3>1, <3>3, <4>1 DEF Keys, Fresh
      <4>. QED
        BY <3>2, <4>2
    <3>4. CASE p # 1
      <4>1. f = NONE
        BY <3>4
      <4>. HIDE DEF f
      <4>2. f \notin Fresh(n)
        BY <1>0, <4>1 DEF Fresh
      <4>. QED
        BY <3>2, <4>1, <4>2
    <3>. QED
      BY <3>3, <3>4
  <2>1. /\ q \in Job /\ q.op = "createResult" /\ q.result = x /\ q.step = "started"
        /\ q.todo = Fresh(n) /\ q.passed = {} /\ q.done = {} /\ q.old = {} /\ q.file = f
    BY <1>0, <2>0 DEF Job
  <2>2. Start(j, q, n + p)
    BY <1>8 DEF StartResult
  <2>. HIDE DEF q
  <2>3. Named(q)
    BY <2>0, <2>1 DEF Named
  <2>4. Started(j) /\ job'[j] = q /\ minted' = minted + (n + p)
    BY <1>0, <2>0, <2>1, <2>2, <2>3, Starting
  <2>5. minted' = minted + n + p
    BY <1>0, <2>4
  <2>. HIDE DEF f
  <2>. QED
    BY <1>8, <2>0, <2>1, <2>4, <2>5 DEF StartResult, Arriving
<1> QED
  BY <1>1, <1>2, <1>3, <1>4, <1>5, <1>6, <1>7, <1>8 DEF Arrive

(* What a step of a request leaves of its slot. *)
Stepped(j, q) ==
  /\ \A i \in Jobs : i # j => job'[i] = job[i]
  /\ job' \in [Jobs -> Job] /\ job'[j] = q

SameRequest(q, r) ==
  /\ r.op = q.op /\ r.demand = q.demand /\ r.result = q.result /\ r.cabinet = q.cabinet
  /\ r.file = q.file /\ r.old = q.old

LEMMA Going ==
  ASSUME UsageInv, NEW j \in Jobs,
         NEW st \in {"idle", "started", "counted", "allowed", "replacing", "dropped"}, Goto(j, st)
  PROVE  /\ \A i \in Jobs : i # j => job'[i] = job[i]
         /\ job' \in [Jobs -> Job] /\ SameRequest(job[j], job'[j])
         /\ job'[j].step = st /\ job'[j].seen = job[j].seen /\ job'[j].todo = job[j].todo
         /\ job'[j].passed = job[j].passed /\ job'[j].done = job[j].done
<1>1. job \in [Jobs -> Job] /\ job[j] \in Job
  BY DEF UsageInv, TypeOK
<1>. DEFINE r == [job[j] EXCEPT !.step = st]
<1>2. /\ r \in Job /\ SameRequest(job[j], r) /\ r.step = st /\ r.seen = job[j].seen
      /\ r.todo = job[j].todo /\ r.passed = job[j].passed /\ r.done = job[j].done
  BY <1>1 DEF Job, SameRequest
<1>3. job' = [job EXCEPT ![j] = r]
  BY DEF Goto
<1>. HIDE DEF r
<1> QED
  BY <1>1, <1>2, <1>3

LEMMA Ending ==
  ASSUME UsageInv, NEW j \in Jobs, End(j)
  PROVE  Stepped(j, NoJob)
BY NoJobType DEF End, Stepped, UsageInv, TypeOK

LEMMA Counting ==
  ASSUME UsageInv, NEW j \in Jobs, CountDemands(j)
  PROVE  /\ \A i \in Jobs : i # j => job'[i] = job[i]
         /\ job' \in [Jobs -> Job] /\ SameRequest(job[j], job'[j])
         /\ job'[j].step = "counted" /\ job'[j].seen = DemandCount(job[j].cabinet)
         /\ job'[j].todo = job[j].todo
         /\ job'[j].passed = job[j].passed /\ job'[j].done = job[j].done
<1>1. job \in [Jobs -> Job] /\ job[j] \in Job /\ DemandCount(job[j].cabinet) \in Nat
  BY CountType DEF UsageInv, TypeOK
<1>. DEFINE r == [job[j] EXCEPT !.step = "counted", !.seen = DemandCount(job[j].cabinet)]
<1>2. /\ r \in Job /\ SameRequest(job[j], r) /\ r.step = "counted"
      /\ r.seen = DemandCount(job[j].cabinet)
      /\ r.todo = job[j].todo /\ r.passed = job[j].passed /\ r.done = job[j].done
  BY <1>1 DEF Job, SameRequest
<1>3. job' = [job EXCEPT ![j] = r]
  BY <1>1 DEF CountDemands
<1>. HIDE DEF r
<1> QED
  BY <1>1, <1>2, <1>3

LEMMA Checking ==
  ASSUME UsageInv, NEW j \in Jobs, NEW k \in job[j].todo,
         job' = [job EXCEPT ![j].todo = @ \ {k}, ![j].passed = @ \cup {k}]
  PROVE  /\ \A i \in Jobs : i # j => job'[i] = job[i]
         /\ job' \in [Jobs -> Job] /\ SameRequest(job[j], job'[j]) /\ k \in Keys
         /\ job'[j].step = job[j].step /\ job'[j].todo = job[j].todo \ {k}
         /\ job'[j].passed = job[j].passed \cup {k} /\ job'[j].done = job[j].done
<1>1. job \in [Jobs -> Job] /\ job[j] \in Job /\ k \in Keys
  BY DEF UsageInv, TypeOK, Job
<1>. DEFINE r == [job[j] EXCEPT !.todo = @ \ {k}, !.passed = @ \cup {k}]
<1>2. /\ r \in Job /\ SameRequest(job[j], r) /\ r.step = job[j].step
      /\ r.todo = job[j].todo \ {k} /\ r.passed = job[j].passed \cup {k} /\ r.done = job[j].done
  BY <1>1 DEF Job, SameRequest
<1>3. job' = [job EXCEPT ![j] = r]
  BY <1>1
<1>. HIDE DEF r
<1> QED
  BY <1>1, <1>2, <1>3

LEMMA Uploading ==
  ASSUME UsageInv, NEW j \in Jobs, NEW k \in job[j].passed,
         job' = [job EXCEPT ![j].passed = @ \ {k}, ![j].done = @ \cup {k}]
  PROVE  /\ \A i \in Jobs : i # j => job'[i] = job[i]
         /\ job' \in [Jobs -> Job] /\ SameRequest(job[j], job'[j]) /\ k \in Keys
         /\ job'[j].step = job[j].step /\ job'[j].todo = job[j].todo
         /\ job'[j].passed = job[j].passed \ {k} /\ job'[j].done = job[j].done \cup {k}
<1>1. job \in [Jobs -> Job] /\ job[j] \in Job /\ k \in Keys
  BY DEF UsageInv, TypeOK, Job
<1>. DEFINE r == [job[j] EXCEPT !.passed = @ \ {k}, !.done = @ \cup {k}]
<1>2. /\ r \in Job /\ SameRequest(job[j], r) /\ r.step = job[j].step
      /\ r.todo = job[j].todo /\ r.passed = job[j].passed \ {k} /\ r.done = job[j].done \cup {k}
  BY <1>1 DEF Job, SameRequest
<1>3. job' = [job EXCEPT ![j] = r]
  BY <1>1
<1>. HIDE DEF r
<1> QED
  BY <1>1, <1>2, <1>3

(* The steps of a request, by what becomes of its slot. *)
Saves(j) ==
  \/ SaveDemand(j) \/ SaveImages(j) \/ SaveProtocol(j) \/ SaveResult(j) \/ SaveEvidence(j)
  \/ DisableDemand(j) \/ DisableResult(j)

LEMMA Slots ==
  ASSUME UsageInv, NEW j \in Jobs, Work(j)
  PROVE  /\ \A i \in Jobs : i # j => job'[i] = job[i]
         /\ job' \in [Jobs -> Job] /\ Named(job'[j])
         /\ \/ job'[j] = NoJob
            \/ /\ SameRequest(job[j], job'[j])
               /\ job'[j].todo \cup job'[j].passed \cup job'[j].done
                    = job[j].todo \cup job[j].passed \cup job[j].done
<1>0. Named(job[j]) /\ Named(NoJob) /\ job[j] \in Job
  BY NoJobType DEF UsageInv, TypeOK
<1>1. CASE CountDemands(j)
  BY <1>0, <1>1, Counting DEF CountDemands, At, SameRequest, Named
<1>2. CASE CheckDemandLimit(j)
  <2>1. Goto(j, "allowed") /\ job[j].step = "counted"
    BY <1>2 DEF CheckDemandLimit
  <2>. QED
    BY <1>0, <2>1, Going DEF SameRequest, Named
<1>3. CASE CheckImage(j)
  <2>1. PICK k \in job[j].todo : job' = [job EXCEPT ![j].todo = @ \ {k}, ![j].passed = @ \cup {k}]
    BY <1>3 DEF CheckImage
  <2>2. /\ \A i \in Jobs : i # j => job'[i] = job[i]
        /\ job' \in [Jobs -> Job] /\ SameRequest(job[j], job'[j]) /\ k \in Keys
        /\ job'[j].step = job[j].step /\ job'[j].todo = job[j].todo \ {k}
        /\ job'[j].passed = job[j].passed \cup {k} /\ job'[j].done = job[j].done
    BY <2>1, Checking
  <2>3. Named(job'[j])
    BY <1>0, <2>1, <2>2 DEF SameRequest, Named
  <2>. QED
    BY <2>1, <2>2, <2>3
<1>4. CASE UploadImage(j)
  <2>1. PICK k \in job[j].passed : job' = [job EXCEPT ![j].passed = @ \ {k}, ![j].done = @ \cup {k}]
    BY <1>4 DEF UploadImage
  <2>2. /\ \A i \in Jobs : i # j => job'[i] = job[i]
        /\ job' \in [Jobs -> Job] /\ SameRequest(job[j], job'[j]) /\ k \in Keys
        /\ job'[j].step = job[j].step /\ job'[j].todo = job[j].todo
        /\ job'[j].passed = job[j].passed \ {k} /\ job'[j].done = job[j].done \cup {k}
    BY <2>1, Uploading
  <2>3. Named(job'[j])
    BY <1>0, <2>1, <2>2 DEF SameRequest, Named
  <2>. QED
    BY <2>1, <2>2, <2>3
<1>5. CASE CheckProtocol(j)
  <2>. DEFINE st == IF job[j].op = "protocol" THEN "replacing" ELSE "allowed"
  <2>1. /\ Goto(j, st) /\ st \in {"allowed", "replacing"} /\ (st = "replacing" => job[j].op = "protocol")
        /\ job[j].op \in {"createResult", "protocol"} /\ job[j].file \in Keys
    BY <1>0, <1>5 DEF CheckProtocol, At, Job
  <2>. HIDE DEF st
  <2>. QED
    BY <1>0, <2>1, Going DEF SameRequest, Named
<1>6. CASE DropOldProtocol(j)
  <2>1. Goto(j, "allowed") /\ job[j].op = "protocol"
    BY <1>6 DEF DropOldProtocol, At
  <2>. QED
    BY <1>0, <2>1, Going DEF SameRequest, Named
<1>7. CASE UploadProtocol(j)
  BY <1>0, <1>7 DEF UploadProtocol, UsageInv, TypeOK, SameRequest
<1>8. CASE CheckEvidence(j)
  <2>1. Goto(j, "allowed") /\ job[j].op = "confirm"
    BY <1>8 DEF CheckEvidence, At
  <2>. QED
    BY <1>0, <2>1, Going DEF SameRequest, Named
<1>9. CASE DropFiles(j)
  <2>1. Goto(j, "dropped") /\ job[j].op \in {"deleteDemand", "deleteResult"}
    BY <1>9 DEF DropFiles, At
  <2>. QED
    BY <1>0, <2>1, Going DEF SameRequest, Named
<1>10. CASE Saves(j) \/ RefuseEvidence(j) \/ FailJob(j)
  <2>1. End(j)
    BY <1>10 DEF Saves, RefuseEvidence, FailJob, SaveDemand, SaveImages, SaveProtocol, SaveResult,
                 SaveEvidence, DisableDemand, DisableResult
  <2>. QED
    BY <1>0, <2>1, Ending DEF Stepped
<1> QED
  BY <1>1, <1>2, <1>3, <1>4, <1>5, <1>6, <1>7, <1>8, <1>9, <1>10 DEF Work, Saves

LEMMA ElseSlots ==
  ASSUME UsageInv,
         \/ \E d \in Demands : PresignEvidence(d)
         \/ \E d \in Demands, k \in Keys : PutObject(d, k)
         \/ Administer \/ Crash \/ UNCHANGED vars
  PROVE  /\ job' \in [Jobs -> Job] /\ \A j \in Jobs : job'[j] = job[j] \/ job'[j] = NoJob
         /\ UNCHANGED usageTables
<1>1. job \in [Jobs -> Job]
  BY DEF UsageInv, TypeOK
<1>2. CASE Crash
  BY <1>2, NoJobType DEF Crash
<1>3. CASE ~Crash
  BY <1>1, <1>3 DEF PresignEvidence, PutObject, Administer, vars, usageVars
<1> QED
  BY <1>2, <1>3

LEMMA UsageStep == UsageInv /\ [Next]_vars => UsageInv'
<1> SUFFICES ASSUME UsageInv, [Next]_vars PROVE UsageInv'
  OBVIOUS
<1>0. /\ PlansInv /\ TypeOK /\ evidence \in Seq(Demands \X Keys)
      /\ \A j \in Jobs : job[j] \in Job /\ Named(job[j])
      /\ minted \in Nat /\ MaxKeys \in Nat /\ minted <= MaxKeys /\ NONE \notin Keys
  BY UsageAssumption, SubscriptionsAssumption DEF UsageInv, TypeOK, Keys
<1>1. PlansInv' /\ PlansTypeOK'
  BY <1>0, Administering, PlansStep DEF PlansInv
<1>. DEFINE TablesOK == /\ demand \in [Demands -> Holder] /\ result \in [Results -> Holder]
                        /\ images \in [Results -> SUBSET Keys]
                        /\ protocol \in [Results -> Keys \cup {NONE}]
                        /\ evidence \in Seq(Demands \X Keys)
            ObjectsOK == /\ bucket \subseteq Keys /\ stored \subseteq Keys
                         /\ minted \in 0..MaxKeys /\ presigned \subseteq Demands \X Keys
                         /\ calm \in BOOLEAN /\ broken \subseteq Demands \cup Results
            SlotsOK == job \in [Jobs -> Job] /\ \A j \in Jobs : Named(job[j])
<1>2. TablesOK /\ ObjectsOK /\ SlotsOK
  BY <1>0 DEF TypeOK
<1>3. ASSUME NEW j \in Jobs, Arrive(j) PROVE TablesOK' /\ ObjectsOK' /\ SlotsOK'
  <2>1. Started(j)
    BY <1>3, Arrivals
  <2>2. SlotsOK'
    BY <1>2, <2>1 DEF Started
  <2>3. minted' \in 0..MaxKeys
    BY <1>0, <2>1 DEF Started
  <2>4. TablesOK' /\ ObjectsOK'
    BY <1>2, <2>1, <2>3 DEF Started, usageTables
  <2>. QED
    BY <2>2, <2>4
<1>4. ASSUME NEW j \in Jobs, Work(j) PROVE SlotsOK'
  BY <1>2, <1>4, Slots
<1>5. ASSUME NEW j \in Jobs, Work(j) PROVE TablesOK'
  <2>1. /\ job[j] \in Job /\ Named(job[j])
        /\ \A d \in Demands : demand[d] \in Holder
        /\ \A x \in Results : result[x] \in Holder
    BY <1>0, <1>2
  <2>2. CASE SaveDemand(j)
    <3>1. /\ job[j].demand \in Demands /\ job[j].cabinet \in Cabinets \cup {NONE}
          /\ UNCHANGED <<result, evidence, images, protocol>>
      BY <2>1, <2>2 DEF SaveDemand, At, Named, Job
    <3>. DEFINE row == IF job[j].op = "createDemand" THEN "enabled" ELSE demand[job[j].demand].row
               h == [demand[job[j].demand] EXCEPT !.cabinet = job[j].cabinet, !.row = row]
    <3>2. row \in Row
      BY <2>1, <3>1 DEF Holder, Row
    <3>. HIDE DEF row
    <3>3. h \in Holder
      BY <2>1, <3>1, <3>2 DEF Holder
    <3>4. demand' = [demand EXCEPT ![job[j].demand] = h]
      BY <2>2 DEF SaveDemand, row
    <3>. HIDE DEF h
    <3>. QED
      BY <1>2, <3>1, <3>3, <3>4
  <2>3. CASE SaveImages(j)
    BY <1>2, <2>1, <2>3 DEF SaveImages, Job, Named
  <2>4. CASE SaveProtocol(j)
    BY <1>2, <2>1, <2>4 DEF SaveProtocol, Job, Named, At
  <2>5. CASE SaveResult(j)
    <3>1. [row |-> "enabled", cabinet |-> job[j].cabinet] \in Holder
      BY <2>1 DEF Job, Holder, Row
    <3>2. /\ result' = [result EXCEPT ![job[j].result] = [row |-> "enabled", cabinet |-> job[j].cabinet]]
          /\ images' = [images EXCEPT ![job[j].result] = job[j].done]
          /\ protocol' = [protocol EXCEPT ![job[j].result] = job[j].file]
          /\ UNCHANGED <<demand, evidence>>
      BY <2>5 DEF SaveResult
    <3>3. job[j].done \subseteq Keys /\ job[j].file \in Keys \cup {NONE}
      BY <2>1 DEF Job
    <3>. QED
      BY <1>2, <3>1, <3>2, <3>3
  <2>6. CASE SaveEvidence(j)
    <3>1. <<job[j].demand, job[j].file>> \in Demands \X Keys
      BY <2>1, <2>6 DEF SaveEvidence, Named, At
    <3>. QED
      BY <1>2, <2>6, <3>1 DEF SaveEvidence
  <2>7. CASE DisableDemand(j)
    <3>1. job[j].demand \in Demands
      BY <2>1, <2>7 DEF DisableDemand, At, Named
    <3>2. [demand[job[j].demand] EXCEPT !.row = "disabled"] \in Holder
      BY <2>1, <3>1 DEF Holder, Row
    <3>. QED
      BY <1>2, <2>7, <3>2 DEF DisableDemand
  <2>8. CASE DisableResult(j)
    <3>1. job[j].result \in Results
      BY <2>1, <2>8 DEF DisableResult, At, Named
    <3>2. result[job[j].result] \in Holder
      BY <2>1, <3>1
    <3>3. [result[job[j].result] EXCEPT !.row = "disabled"] \in Holder
      BY <3>2 DEF Holder, Row
    <3>. QED
      BY <1>2, <2>8, <3>3 DEF DisableResult
  <2>9. CASE ~Saves(j)
    <3>1. UNCHANGED usageTables
      BY <1>5, <2>9
         DEF Saves, Work, CountDemands, CheckDemandLimit, CheckImage, UploadImage, CheckProtocol,
             DropOldProtocol, UploadProtocol, CheckEvidence, RefuseEvidence, DropFiles, FailJob,
             Silently
    <3>. QED
      BY <1>2, <3>1 DEF usageTables
  <2>. QED
    BY <2>2, <2>3, <2>4, <2>5, <2>6, <2>7, <2>8, <2>9 DEF Saves
<1>6. ASSUME NEW j \in Jobs, Work(j) PROVE ObjectsOK'
  <2>0. job[j] \in Job /\ Named(job[j])
    BY <1>0
  <2>1. CASE UploadImage(j)
    BY <1>2, <2>0, <2>1 DEF UploadImage, Store, Job
  <2>2. CASE UploadProtocol(j)
    <3>1. job[j].file \in Keys
      BY <2>0, <2>2 DEF UploadProtocol, At, Named, Job
    <3>. QED
      BY <1>2, <2>2, <3>1 DEF UploadProtocol, Store
  <2>3. CASE DropOldProtocol(j) \/ DropFiles(j)
    BY <1>2, <2>3 DEF DropOldProtocol, DropFiles, Drop
  <2>4. CASE RefuseEvidence(j)
    BY <1>2, <2>4 DEF RefuseEvidence, Drop
  <2>5. CASE FailJob(j)
    <3>1. Bereft(j) \subseteq Demands \cup Results
      BY <2>0 DEF Named, Bereft
    <3>2. calm' \in BOOLEAN
      BY <2>5 DEF FailJob
    <3>. QED
      BY <1>2, <2>0, <2>5, <3>1, <3>2 DEF FailJob, Job
  <2>6. CASE ~(UploadImage(j) \/ UploadProtocol(j) \/ DropOldProtocol(j) \/ DropFiles(j)
                 \/ RefuseEvidence(j) \/ FailJob(j))
    <3>1. UNCHANGED <<bucket, minted, presigned, calm, broken, stored>>
      BY <1>6, <2>6
         DEF Work, CountDemands, CheckDemandLimit, SaveDemand, CheckImage, SaveImages,
             CheckProtocol, SaveProtocol, SaveResult, CheckEvidence, SaveEvidence, DisableDemand,
             DisableResult, Silently, Wrote
    <3>. QED
      BY <1>2, <3>1
  <2>. QED
    BY <2>1, <2>2, <2>3, <2>4, <2>5, <2>6
<1>7. ASSUME \/ \E d \in Demands : PresignEvidence(d)
             \/ \E d \in Demands, k \in Keys : PutObject(d, k)
             \/ Administer \/ Crash \/ UNCHANGED vars
      PROVE  TablesOK' /\ ObjectsOK' /\ SlotsOK'
  <2>1. TablesOK' /\ SlotsOK'
    BY <1>2, <1>7, ElseSlots, NoJobType DEF usageTables
  <2>. SUFFICES ObjectsOK'
    BY <2>1
  <2>2. ASSUME NEW d \in Demands, PresignEvidence(d) PROVE ObjectsOK'
    <3>1. minted + 1 \in Keys /\ minted' \in 0..MaxKeys
      BY <1>0, <2>2 DEF PresignEvidence, Keys
    <3>. QED
      BY <1>2, <2>2, <3>1 DEF PresignEvidence
  <2>3. ASSUME NEW d \in Demands, NEW k \in Keys, PutObject(d, k) PROVE ObjectsOK'
    <3>1. calm' \in BOOLEAN
      BY <2>3 DEF PutObject
    <3>. QED
      BY <1>2, <2>3, <3>1 DEF PutObject, Store
  <2>4. CASE Administer
    <3>0. calm' = (calm /\ ~Busy)
      BY <2>4 DEF Administer
    <3>1. calm' \in BOOLEAN
      BY <3>0
    <3>. QED
      BY <1>2, <2>4, <3>1 DEF Administer
  <2>5. CASE Crash
    <3>1. ASSUME NEW j \in Jobs PROVE Bereft(j) \subseteq Demands \cup Results
      <4>1. Named(job[j])
        BY <1>0
      <4>. QED
        BY <4>1 DEF Named, Bereft
    <3>2. UNION {Bereft(j) : j \in Jobs} \subseteq Demands \cup Results
      BY <3>1
    <3>3. broken' \subseteq Demands \cup Results
      BY <1>2, <2>5, <3>2 DEF Crash
    <3>. QED
      BY <1>2, <2>5, <3>3 DEF Crash
  <2>6. CASE UNCHANGED vars
    BY <1>2, <2>6 DEF vars, usageVars
  <2>. QED
    BY <1>7, <2>1, <2>2, <2>3, <2>4, <2>5, <2>6
<1>8. TablesOK' /\ ObjectsOK' /\ SlotsOK'
  BY <1>3, <1>4, <1>5, <1>6, <1>7 DEF Next
<1>9. TypeOK'
  <2>1. \A i \in DOMAIN evidence' : evidence'[i] \in Demands \X Keys
    BY <1>8
  <2>. QED
    BY <1>1, <1>8, <2>1 DEF TypeOK
<1> QED
  BY <1>1, <1>8, <1>9 DEF UsageInv

-----------------------------------------------------------------------------

(* The tables, the bucket and the requests keep their types, whatever the  *)
(* order in which overlapping requests are served, fail and are cut short. *)
THEOREM TypeCorrect == Spec => []TypeOK
<1>1. Init => UsageInv
  BY UsageInitial
<1>2. UsageInv /\ [Next]_vars => UsageInv'
  BY UsageStep
<1>3. UsageInv => TypeOK
  BY DEF UsageInv
<1> QED
  BY <1>1, <1>2, <1>3, PTL DEF Spec

-----------------------------------------------------------------------------
(* Subscriptions: the two searches agree, and find one row *)

LEMMA SameSearch ==
  ASSUME PlansInv, NEW c
  PROVE  /\ ActiveSubscriptions(c) = SubscriptionsForGuard(c)
         /\ ActiveSubscriptions(c) = {i \in DOMAIN subs : Running(subs[i], c)}
<1>1. \A i \in DOMAIN subs : Standing(subs[i])
  BY DEF PlansInv
<1> QED
  BY <1>1 DEF ActiveSubscriptions, SubscriptionsForGuard, Standing, Running

LEMMA Singleness == PlansInv /\ SingleInv /\ GapInv => SubscriptionsAreSingle
<1> SUFFICES ASSUME PlansInv, SingleInv, GapInv PROVE SubscriptionsAreSingle
  OBVIOUS
<1>1. ASSUME NEW c \in Cabinets \ raced PROVE Cardinality(ActiveSubscriptions(c)) <= 1
  <2>1. \A i, j \in ActiveSubscriptions(c) : i = j
    BY SameSearch DEF SingleInv
  <2>2. CASE ActiveSubscriptions(c) = {}
    BY <2>2, FS_EmptySet
  <2>3. CASE ActiveSubscriptions(c) # {}
    <3>1. PICK i : i \in ActiveSubscriptions(c)
      BY <2>3
    <3>2. ActiveSubscriptions(c) = {i}
      BY <2>1, <3>1
    <3>. QED
      BY <3>2, FS_Singleton
  <2>. QED
    BY <2>2, <2>3
<1>2. GapsAreInterruptions
  <2> SUFFICES ASSUME NEW c \in Cabinets, \E i \in DOMAIN subs : subs[i].cabinet = c
               PROVE  \/ HasActiveSubscription(c)
                      \/ \E s \in Desks : desk[s].step = "canceled" /\ desk[s].cabinet = c
                      \/ c \in interrupted
    BY DEF GapsAreInterruptions
  <2>1. (\E i \in DOMAIN subs : Running(subs[i], c)) => HasActiveSubscription(c)
    BY SameSearch DEF HasActiveSubscription
  <2>. QED
    BY <2>1 DEF GapInv
<1> QED
  BY <1>1, <1>2 DEF SubscriptionsAreSingle, OneSubscriptionUnlessRaced

(* Whoever has not been disturbed has read what is there now. *)
Faithful(r) ==
  LET c == reader[r].cabinet IN
  /\ "overrides" \in reader[r].read =>
       /\ reader[r].granted = RunningOverrides(c, "GRANT")
       /\ reader[r].blocked = RunningOverrides(c, "BLOCK")
  /\ "subscription" \in reader[r].read =>
       \/ \E i \in SubscriptionsForGuard(c) : reader[r].planned = PlanFeatures(i)
       \/ SubscriptionsForGuard(c) = {} /\ reader[r].planned = {}

AccessInv ==
  /\ PlansInv /\ SingleInv /\ GapInv
  /\ AccessTypeOK
  /\ \A r \in Readers : reader[r].undisturbed => Faithful(r)

LEMMA NoReaderType == NoReader \in Reader /\ NoReader.read = {}
  BY DEF NoReader, Reader

LEMMA AccessInitial == AccessInit => AccessInv
<1> SUFFICES ASSUME AccessInit PROVE AccessInv
  OBVIOUS
<1>1. PlansInv /\ SingleInv /\ GapInv
  BY PlansInitial, SingleInitial DEF AccessInit
<1>2. AccessTypeOK /\ \A r \in Readers : Faithful(r)
  BY NoReaderType DEF AccessInit, AccessTypeOK, Faithful
<1> QED
  BY <1>1, <1>2 DEF AccessInv

LEMMA SameReads ==
  ASSUME UNCHANGED plansVars
  PROVE  /\ \A c, type : RunningOverrides(c, type)' = RunningOverrides(c, type)
         /\ \A c : SubscriptionsForGuard(c)' = SubscriptionsForGuard(c)
         /\ \A i : PlanFeatures(i)' = PlanFeatures(i)
BY DEF plansVars, RunningOverrides, SubscriptionsForGuard, PlanFeatures

(* A read, or the start of a reader. *)
LEMMA ReadsStep ==
  ASSUME AccessInv, UNCHANGED plansVars, NEW r \in Readers, NEW q \in Reader,
         reader' = [reader EXCEPT ![r] = q],
         q.undisturbed => Faithful(r)'
  PROVE  AccessInv'
<1>1. PlansInv' /\ SingleInv' /\ GapInv'
  <2>1. PlansKept
    BY DEF AccessInv, PlansInv, PlansTypeOK, PlansKept, plansVars
  <2>. QED
    BY <2>1, PlansStep, SingleStep DEF AccessInv
<1>2. AccessTypeOK'
  BY DEF AccessInv, AccessTypeOK
<1>3. ASSUME NEW s \in Readers, reader'[s].undisturbed PROVE Faithful(s)'
  <2>1. CASE s = r
    BY <1>3, <2>1 DEF AccessInv, AccessTypeOK
  <2>2. CASE s # r
    <3>1. reader'[s] = reader[s] /\ Faithful(s)
      BY <1>3, <2>2 DEF AccessInv, AccessTypeOK
    <3>. QED
      BY <3>1, SameReads DEF Faithful
  <2>. QED
    BY <2>1, <2>2
<1> QED
  BY <1>1, <1>2, <1>3 DEF AccessInv

LEMMA AccessStep == AccessInv /\ [AccessNext]_accessVars => AccessInv'
<1> SUFFICES ASSUME AccessInv, [AccessNext]_accessVars PROVE AccessInv'
  OBVIOUS
<1>0. reader \in [Readers -> Reader] /\ NONE \notin Cabinets
  BY SubscriptionsAssumption DEF AccessInv, AccessTypeOK
<1>1. ASSUME NEW r \in Readers, NEW kind \in {"page", "guard"}, NEW c \in Cabinets,
             NEW f \in Features \cup {NONE}, StartReader(r, kind, c, f)
      PROVE  AccessInv'
  <2>. DEFINE q == [NoReader EXCEPT !.kind = kind, !.cabinet = c, !.feature = f]
  <2>1. q \in Reader /\ q.read = {}
    BY DEF NoReader, Reader
  <2>2. reader' = [reader EXCEPT ![r] = q] /\ UNCHANGED plansVars
    BY <1>1 DEF StartReader
  <2>. HIDE DEF q
  <2>3. reader'[r] = q
    BY <1>0, <2>2
  <2>4. Faithful(r)'
    BY <2>1, <2>3 DEF Faithful
  <2>. QED
    BY <2>1, <2>2, <2>4, ReadsStep
<1>2. ASSUME NEW r \in Readers, FindPlanForPage(r) \/ FindPlanForGuard(r) PROVE AccessInv'
  <2>. DEFINE rows == SubscriptionsForGuard(reader[r].cabinet)
  <2>1. FindPlan(r, rows)
    BY <1>2, SameSearch DEF FindPlanForPage, FindPlanForGuard, AccessInv
  <2>2. PICK planned \in {PlanFeatures(i) : i \in rows} \cup (IF rows = {} THEN {{}} ELSE {}) :
          reader' = [reader EXCEPT ![r].read = @ \cup {"subscription"}, ![r].planned = planned]
    BY <2>1 DEF FindPlan
  <2>. DEFINE q == [reader[r] EXCEPT !.read = @ \cup {"subscription"}, !.planned = planned]
  <2>3. reader' = [reader EXCEPT ![r] = q] /\ UNCHANGED plansVars
    BY <1>0, <2>1, <2>2 DEF FindPlan
  <2>4. planned \subseteq Features
    BY <2>2 DEF PlanFeatures
  <2>5. /\ q \in Reader /\ q.read = reader[r].read \cup {"subscription"} /\ q.planned = planned
        /\ q.cabinet = reader[r].cabinet /\ q.granted = reader[r].granted
        /\ q.blocked = reader[r].blocked /\ q.undisturbed = reader[r].undisturbed
    BY <1>0, <2>4 DEF Reader
  <2>6. \/ \E i \in rows : planned = PlanFeatures(i)
        \/ rows = {} /\ planned = {}
    BY <2>2
  <2>. HIDE DEF q
  <2>7. reader'[r] = q
    BY <1>0, <2>3
  <2>8. q.undisturbed => Faithful(r)
    BY <2>5 DEF AccessInv
  <2>9. q.undisturbed => Faithful(r)'
    BY <2>3, <2>5, <2>6, <2>7, <2>8, SameReads DEF Faithful
  <2>. QED
    BY <2>3, <2>5, <2>9, ReadsStep
<1>3. ASSUME NEW r \in Readers, FindOverrides(r) PROVE AccessInv'
  <2>. DEFINE c == reader[r].cabinet
              q == [reader[r] EXCEPT !.read = @ \cup {"overrides"},
                                     !.granted = RunningOverrides(c, "GRANT"),
                                     !.blocked = RunningOverrides(c, "BLOCK")]
  <2>1. reader' = [reader EXCEPT ![r] = q] /\ UNCHANGED plansVars
    BY <1>0, <1>3 DEF FindOverrides
  <2>2. \A type : RunningOverrides(c, type) \subseteq Features
    BY DEF RunningOverrides
  <2>3. /\ q \in Reader /\ q.read = reader[r].read \cup {"overrides"}
        /\ q.planned = reader[r].planned /\ q.cabinet = c
        /\ q.granted = RunningOverrides(c, "GRANT") /\ q.blocked = RunningOverrides(c, "BLOCK")
        /\ q.undisturbed = reader[r].undisturbed
    BY <1>0, <2>2 DEF Reader
  <2>. HIDE DEF q
  <2>4. reader'[r] = q
    BY <1>0, <2>1
  <2>5. q.undisturbed => Faithful(r)
    BY <2>3 DEF AccessInv
  <2>6. q.undisturbed => Faithful(r)'
    BY <2>1, <2>3, <2>4, <2>5, SameReads DEF Faithful
  <2>. QED
    BY <2>1, <2>3, <2>6, ReadsStep
<1>4. CASE Disturb
  <2>1. PlansInv' /\ SingleInv' /\ GapInv'
    BY <1>4, PlansStep, SingleStep DEF Disturb, AccessInv
  <2>2. \A r \in Readers : reader'[r] \in Reader /\ reader'[r].undisturbed = FALSE
    BY <1>0, <1>4 DEF Disturb, Reader
  <2>3. reader' \in [Readers -> Reader]
    BY <1>4, <2>2 DEF Disturb
  <2>. QED
    BY <2>1, <2>2, <2>3 DEF AccessInv, AccessTypeOK
<1>5. CASE UNCHANGED accessVars
  <2>1. PlansKept /\ UNCHANGED plansVars /\ reader' = reader
    BY <1>5 DEF AccessInv, PlansInv, PlansTypeOK, PlansKept, plansVars, accessVars
  <2>2. PlansInv' /\ SingleInv' /\ GapInv'
    BY <2>1, PlansStep, SingleStep DEF AccessInv
  <2>3. \A r \in Readers : Faithful(r) => Faithful(r)'
    BY <2>1, SameReads DEF Faithful
  <2>. QED
    BY <2>1, <2>2, <2>3 DEF AccessInv, AccessTypeOK
<1> QED
  BY <1>1, <1>2, <1>3, <1>4, <1>5 DEF AccessNext

LEMMA PageAgreement == AccessInv => PageAgreesWithGuard
<1> SUFFICES ASSUME AccessInv, NEW p \in Readers, NEW g \in Readers,
                    Answered(p), Answered(g), reader[p].undisturbed, reader[g].undisturbed,
                    reader[p].cabinet = reader[g].cabinet,
                    reader[g].kind = "guard", reader[g].cabinet \notin raced
             PROVE  reader[g].feature \in Listed(p) <=> Admitted(g)
  BY DEF PageAgreesWithGuard
<1>1. Faithful(p) /\ Faithful(g)
  BY DEF AccessInv
<1>2. reader[p].granted = reader[g].granted /\ reader[p].blocked = reader[g].blocked
  BY <1>1 DEF Faithful, Answered
<1>3. \A i, j \in SubscriptionsForGuard(reader[g].cabinet) : i = j
  <2>1. CASE reader[g].cabinet \in Cabinets
    BY <2>1, SameSearch DEF AccessInv, SingleInv
  <2>2. CASE reader[g].cabinet \notin Cabinets
    BY <2>2 DEF SubscriptionsForGuard, AccessInv, PlansInv, PlansTypeOK, Subscription
  <2>. QED
    BY <2>1, <2>2
<1>4. reader[p].planned = reader[g].planned
  BY <1>1, <1>3 DEF Faithful, Answered
<1> QED
  BY <1>2, <1>4 DEF Listed, Admitted

-----------------------------------------------------------------------------
(* Of a cabinet whose replacements of the subscription have not raced, a   *)
(* page lists exactly the features that FeatureGuard admits it to, for any *)
(* number of pages and guards, whichever row each of them finds, as long   *)
(* as nothing changes between their reads.                                 *)
THEOREM PageAgrees == AccessSpec => []PageAgreesWithGuard
<1> QED
  BY AccessInitial, AccessStep, PageAgreement, PTL DEF AccessSpec

(* However many replacements of subscriptions overlap, fail or are cut     *)
(* short: two rows run for a cabinet only if two of them met, and none     *)
(* runs only inside a replacement or after one that was cut short.         *)
THEOREM SubscriptionsSingle == Spec => []SubscriptionsAreSingle
<1>. DEFINE Inv == UsageInv /\ SingleInv /\ GapInv
<1>1. Init => Inv
  BY UsageInitial, SingleInitial DEF Init
<1>2. Inv /\ [Next]_vars => Inv'
  BY UsageStep, Administering, SingleStep DEF UsageInv
<1>3. Inv => SubscriptionsAreSingle
  BY Singleness DEF UsageInv
<1>. HIDE DEF Inv
<1> QED
  BY <1>1, <1>2, <1>3, PTL DEF Spec

-----------------------------------------------------------------------------
(* Keys: each has one home *)

(* Keys a request has generated and not yet recorded, keys a result has or *)
(* is losing, keys whose upload URL was handed out for a demand.           *)
Uploads(q) == q.todo \cup q.passed \cup q.done
                \cup (IF q.op \in {"createResult", "protocol"} THEN {q.file} \ {NONE} ELSE {})

Holds(x, k) ==
  \/ k \in FilesOfResult(x)
  \/ \E j \in Jobs : /\ job[j].op \in {"protocol", "deleteResult"} /\ job[j].result = x
                     /\ k \in job[j].old

Generates(j, k) == k \in Uploads(job[j])
Presigns(d, k) == <<d, k>> \in presigned

HomesInv ==
  /\ \A j \in Jobs, k \in Keys : Generates(j, k) => k <= minted
  /\ \A x \in Results, k \in Keys : Holds(x, k) => k <= minted
  /\ \A d \in Demands, k \in Keys : Presigns(d, k) => k <= minted
  /\ \A i, j \in Jobs, k \in Keys : Generates(i, k) /\ Generates(j, k) => i = j
  /\ \A x, y \in Results, k \in Keys : Holds(x, k) /\ Holds(y, k) => x = y
  /\ \A d, e \in Demands, k \in Keys : Presigns(d, k) /\ Presigns(e, k) => d = e
  /\ \A j \in Jobs, x \in Results, k \in Keys : ~(Generates(j, k) /\ Holds(x, k))
  /\ \A j \in Jobs, d \in Demands, k \in Keys : ~(Generates(j, k) /\ Presigns(d, k))
  /\ \A x \in Results, d \in Demands, k \in Keys : ~(Holds(x, k) /\ Presigns(d, k))

(* What requests and rows name of demands was presigned for them; a row    *)
(* that is not there yet has one request to create it, and nothing else.   *)
RowsInv ==
  /\ \A i \in DOMAIN evidence : evidence[i] \in presigned
  /\ \A d \in Demands, k \in Keys : Presigns(d, k) => demand[d].row # "absent"
  /\ \A x \in Results : result[x].row = "absent" => FilesOfResult(x) = {}
  /\ \A j \in Jobs :
       /\ job[j].op = "confirm" => Presigns(job[j].demand, job[j].file)
       /\ job[j].op = "deleteDemand" => \A k \in job[j].old : Presigns(job[j].demand, k)
       /\ job[j].op = "protocol" => job[j].old \cap images[job[j].result] = {}
       /\ job[j].op = "createDemand" => demand[job[j].demand].row = "absent"
       /\ job[j].op \in {"claim", "confirm", "deleteDemand"} => demand[job[j].demand].row # "absent"
       /\ job[j].op = "createResult" => result[job[j].result].row = "absent"
       /\ job[j].op \in {"addImages", "protocol", "deleteResult"} =>
            result[job[j].result].row # "absent"
  /\ \A i, j \in Jobs : /\ job[i].op = job[j].op
                        /\ \/ job[i].op = "createDemand" /\ job[i].demand = job[j].demand
                           \/ job[i].op = "createResult" /\ job[i].result = job[j].result
                        => i = j

LEMMA NoJobFields ==
  /\ NoJob.op = "none" /\ NoJob.step = "idle" /\ NoJob.todo = {} /\ NoJob.passed = {}
  /\ NoJob.done = {} /\ NoJob.old = {} /\ Uploads(NoJob) = {}
BY DEF NoJob, Uploads

(* Keys change hands only when they are generated ... *)
LEMMA HomesKept ==
  ASSUME HomesInv, UsageInv, minted' \in Nat, minted <= minted',
         \A j \in Jobs, k \in Keys : Generates(j, k)' => k <= minted' /\ (k <= minted => Generates(j, k)),
         \A i, j \in Jobs, k \in Keys :
           ~(k <= minted) /\ Generates(i, k)' /\ Generates(j, k)' => i = j,
         \A x \in Results, k \in Keys : Holds(x, k)' => Holds(x, k),
         \A d \in Demands, k \in Keys : Presigns(d, k)' => k <= minted' /\ (k <= minted => Presigns(d, k)),
         \A d, e \in Demands, k \in Keys :
           ~(k <= minted) /\ Presigns(d, k)' /\ Presigns(e, k)' => d = e,
         \A j \in Jobs, d \in Demands, k \in Keys :
           ~(k <= minted) /\ Generates(j, k)' => ~Presigns(d, k)'
  PROVE  HomesInv'
<1>1. minted \in Nat /\ Keys \subseteq Nat
  BY DEF UsageInv, TypeOK, Keys
<1>2. \A k \in Keys : k <= minted => k <= minted'
  BY <1>1
<1> QED
  BY <1>2 DEF HomesInv

(* ... and when a request records what it generated. *)
LEMMA HomesRecorded ==
  ASSUME HomesInv, NEW j \in Jobs, NEW x \in Results, UNCHANGED <<minted, presigned>>,
         \A i \in Jobs, k \in Keys : Generates(i, k)' => Generates(i, k) /\ i # j,
         \A y \in Results, k \in Keys : Holds(y, k)' => Holds(y, k) \/ (y = x /\ Generates(j, k))
  PROVE  HomesInv'
<1>1. \A d \in Demands, k \in Keys : Presigns(d, k)' <=> Presigns(d, k)
  BY DEF Presigns
<1> QED
  BY <1>1 DEF HomesInv

(* Steps that record nothing of results, and may end requests. *)
LEMMA HomesStay ==
  ASSUME HomesInv, UsageInv, UNCHANGED <<images, protocol, minted, presigned>>,
         \A j \in Jobs : \/ job'[j] = NoJob
                         \/ /\ SameRequest(job[j], job'[j])
                            /\ job'[j].todo \cup job'[j].passed \cup job'[j].done
                                 = job[j].todo \cup job[j].passed \cup job[j].done
  PROVE  HomesInv'
<1>1. \A j \in Jobs, k \in Keys : Generates(j, k)' => Generates(j, k)
  <2> SUFFICES ASSUME NEW j \in Jobs, NEW k \in Keys, k \in Uploads(job'[j])
               PROVE  k \in Uploads(job[j])
    BY DEF Generates
  <2>. QED
    BY NoJobFields DEF SameRequest, Uploads
<1>2. \A x \in Results, k \in Keys : Holds(x, k)' => Holds(x, k)
  <2> SUFFICES ASSUME NEW x \in Results, NEW k \in Keys, Holds(x, k)' PROVE Holds(x, k)
    OBVIOUS
  <2>1. CASE k \in FilesOfResult(x)'
    BY <2>1 DEF FilesOfResult, Holds
  <2>2. CASE \E j \in Jobs : /\ job'[j].op \in {"protocol", "deleteResult"} /\ job'[j].result = x
                             /\ k \in job'[j].old
    BY <2>2, NoJobFields DEF SameRequest, Holds
  <2>. QED
    BY <2>1, <2>2 DEF Holds
<1>3. minted \in Nat /\ minted <= minted
  BY DEF UsageInv, TypeOK
<1>4. /\ \A j \in Jobs, k \in Keys : Generates(j, k) => k <= minted
      /\ \A d \in Demands, k \in Keys : Presigns(d, k) => k <= minted
  BY DEF HomesInv
<1>5. \A d \in Demands, k \in Keys : Presigns(d, k)' <=> Presigns(d, k)
  BY DEF Presigns
<1> QED
  BY <1>1, <1>2, <1>3, <1>4, <1>5, HomesKept

LEMMA HomesArrive ==
  ASSUME HomesInv, UsageInv, NEW j \in Jobs, Arrive(j)
  PROVE  HomesInv'
<1>1. Started(j) /\ Arriving(j)
  BY Arrivals
<1>2. /\ minted \in Nat /\ minted' \in Nat /\ minted <= minted' /\ Keys \subseteq Nat
      /\ UNCHANGED <<images, protocol, presigned>> /\ NONE \notin Keys
      /\ \A i \in Jobs : i # j => job'[i] = job[i]
      /\ job[j] = NoJob /\ job'[j].passed = {} /\ job'[j].done = {} /\ Named(job'[j])
  BY <1>1, SubscriptionsAssumption DEF UsageInv, TypeOK, Keys, Started, usageTables
<1>3. \A k \in Keys : k \in Uploads(job'[j]) => ~(k <= minted) /\ k <= minted'
  <2>1. \/ Uploads(job'[j]) = {}
        \/ Uploads(job'[j]) \subseteq (minted + 1)..minted'
    BY <1>1, <1>2 DEF Arriving, Uploads, Named
  <2>. QED
    BY <1>2, <2>1
<1>4. \A i \in Jobs, k \in Keys :
        Generates(i, k)' => k <= minted' /\ (k <= minted => Generates(i, k))
  <2>1. \A i \in Jobs, k \in Keys : i # j /\ k \in Uploads(job[i]) => k <= minted'
    <3>1. \A i \in Jobs, k \in Keys : k \in Uploads(job[i]) => k <= minted
      BY DEF HomesInv, Generates
    <3>. QED
      BY <1>2, <3>1
  <2>2. \A i \in Jobs, k \in Keys : i # j => (k \in Uploads(job'[i]) <=> k \in Uploads(job[i]))
    BY <1>2
  <2>. QED
    BY <1>3, <2>1, <2>2 DEF Generates
<1>5. \A i, l \in Jobs, k \in Keys :
        ~(k <= minted) /\ Generates(i, k)' /\ Generates(l, k)' => i = l
  BY <1>2 DEF HomesInv, Generates
<1>6. \A x \in Results, k \in Keys : Holds(x, k)' => Holds(x, k)
  <2> SUFFICES ASSUME NEW x \in Results, NEW k \in Keys, Holds(x, k)' PROVE Holds(x, k)
    OBVIOUS
  <2>0. FilesOfResult(x)' = FilesOfResult(x)
    BY <1>2 DEF FilesOfResult
  <2>1. CASE k \in FilesOfResult(x)'
    BY <2>0, <2>1 DEF Holds
  <2>2. ASSUME NEW i \in Jobs, job'[i].op \in {"protocol", "deleteResult"},
               job'[i].result = x, k \in job'[i].old
        PROVE  Holds(x, k)
    <3>1. CASE i # j
      BY <1>2, <2>2, <3>1 DEF Holds
    <3>2. CASE i = j
      <4>1. k \in FilesOfResult(x)
        BY <1>1, <2>2, <3>2 DEF Arriving
      <4>. QED
        BY <4>1 DEF Holds
    <3>. QED
      BY <3>1, <3>2
  <2>. QED
    BY <2>1, <2>2 DEF Holds
<1>7. /\ \A d \in Demands, k \in Keys : Presigns(d, k)' <=> Presigns(d, k)
      /\ \A d \in Demands, k \in Keys : Presigns(d, k) => k <= minted
  BY <1>2 DEF HomesInv, Presigns
<1>8. \A k \in Keys : k <= minted => k <= minted'
  BY <1>2
<1> QED
  BY <1>2, <1>4, <1>5, <1>6, <1>7, <1>8, HomesKept

(* The three writes that record keys of results. *)
LEMMA HomesRecord ==
  ASSUME HomesInv, UsageInv, NEW j \in Jobs, SaveImages(j) \/ SaveProtocol(j) \/ SaveResult(j)
  PROVE  HomesInv'
<1>. DEFINE x == job[j].result
<1>1. /\ x \in Results /\ UNCHANGED <<minted, presigned>> /\ End(j)
      /\ images \in [Results -> SUBSET Keys] /\ protocol \in [Results -> Keys \cup {NONE}]
  BY DEF SaveImages, SaveProtocol, SaveResult, Wrote, UsageInv, TypeOK, Named, At
<1>2. /\ \A i \in Jobs : i # j => job'[i] = job[i]
      /\ job'[j] = NoJob
  BY <1>1, Ending DEF Stepped
<1>3. \A i \in Jobs, k \in Keys : Generates(i, k)' => Generates(i, k) /\ i # j
  BY <1>2, NoJobFields DEF Generates
<1>4. \A y \in Results : /\ y # x => images'[y] = images[y] /\ protocol'[y] = protocol[y]
                         /\ images'[x] \cup ({protocol'[x]} \ {NONE})
                              \subseteq FilesOfResult(x) \cup Uploads(job[j])
  <2>1. CASE SaveImages(j)
    BY <1>1, <2>1 DEF SaveImages, FilesOfResult, Uploads
  <2>2. CASE SaveProtocol(j)
    BY <1>1, <2>2 DEF SaveProtocol, At, FilesOfResult, Uploads
  <2>3. CASE SaveResult(j)
    BY <1>1, <2>3 DEF SaveResult, FilesOfResult, Uploads
  <2>. QED
    BY <2>1, <2>2, <2>3
<1>5. ASSUME NEW y \in Results, NEW k \in Keys, Holds(y, k)'
      PROVE  Holds(y, k) \/ (y = x /\ Generates(j, k))
  <2>1. CASE k \in FilesOfResult(y)'
    <3>1. k \in images'[y] \cup ({protocol'[y]} \ {NONE})
      BY <2>1 DEF FilesOfResult
    <3>2. CASE y # x
      BY <1>4, <3>1, <3>2 DEF FilesOfResult, Holds
    <3>3. CASE y = x
      BY <1>4, <3>1, <3>3 DEF Holds, Generates
    <3>. QED
      BY <3>2, <3>3
  <2>2. ASSUME NEW i \in Jobs, job'[i].op \in {"protocol", "deleteResult"},
               job'[i].result = y, k \in job'[i].old
        PROVE  Holds(y, k)
    BY <1>2, <2>2, NoJobFields DEF Holds
  <2>. QED
    BY <1>5, <2>1, <2>2 DEF Holds
<1>. HIDE DEF x
<1> QED
  BY <1>1, <1>3, <1>5, HomesRecorded

LEMMA HomesPresign ==
  ASSUME HomesInv, UsageInv, NEW d \in Demands, PresignEvidence(d)
  PROVE  HomesInv'
<1>1. /\ minted \in Nat /\ minted' = minted + 1 /\ minted' \in Nat /\ Keys \subseteq Nat
      /\ UNCHANGED <<job, images, protocol>>
      /\ presigned' = presigned \cup {<<d, minted + 1>>}
  BY DEF UsageInv, TypeOK, Keys, PresignEvidence, usageTables
<1>2. /\ \A j \in Jobs, k \in Keys : Generates(j, k)' <=> Generates(j, k)
      /\ \A x \in Results, k \in Keys : Holds(x, k)' <=> Holds(x, k)
  BY <1>1 DEF Generates, Holds, FilesOfResult
<1>3. \A e \in Demands, k \in Keys :
        Presigns(e, k)' <=> Presigns(e, k) \/ (e = d /\ k = minted + 1)
  BY <1>1 DEF Presigns
<1>4. /\ \A k \in Keys : k <= minted => k <= minted'
      /\ ~(minted + 1 <= minted) /\ minted + 1 <= minted'
      /\ minted <= minted'
  BY <1>1
<1>5. /\ \A j \in Jobs, k \in Keys : Generates(j, k) => k <= minted
      /\ \A e \in Demands, k \in Keys : Presigns(e, k) => k <= minted
  BY DEF HomesInv
<1> QED
  BY <1>1, <1>2, <1>3, <1>4, <1>5, HomesKept

LEMMA HomesStep == HomesInv /\ UsageInv /\ [Next]_vars => HomesInv'
<1> SUFFICES ASSUME HomesInv, UsageInv, [Next]_vars PROVE HomesInv'
  OBVIOUS
<1>1. ASSUME NEW j \in Jobs, Arrive(j) PROVE HomesInv'
  BY <1>1, HomesArrive
<1>2. ASSUME NEW j \in Jobs, Work(j) PROVE HomesInv'
  <2>1. CASE SaveImages(j) \/ SaveProtocol(j) \/ SaveResult(j)
    BY <2>1, HomesRecord
  <2>2. CASE ~(SaveImages(j) \/ SaveProtocol(j) \/ SaveResult(j))
    <3>1. UNCHANGED <<images, protocol, minted, presigned>>
      BY <1>2, <2>2
         DEF Work, CountDemands, CheckDemandLimit, SaveDemand, CheckImage, UploadImage,
             CheckProtocol, DropOldProtocol, UploadProtocol, CheckEvidence, RefuseEvidence,
             SaveEvidence, DropFiles, DisableDemand, DisableResult, FailJob, Silently, Wrote,
             usageTables
    <3>2. \A i \in Jobs : \/ job'[i] = NoJob
                          \/ /\ SameRequest(job[i], job'[i])
                             /\ job'[i].todo \cup job'[i].passed \cup job'[i].done
                                  = job[i].todo \cup job[i].passed \cup job[i].done
      BY <1>2, Slots DEF SameRequest
    <3>. QED
      BY <3>1, <3>2, HomesStay
  <2>. QED
    BY <2>1, <2>2
<1>3. ASSUME NEW d \in Demands, PresignEvidence(d) PROVE HomesInv'
  BY <1>3, HomesPresign
<1>4. CASE (\E d \in Demands, k \in Keys : PutObject(d, k)) \/ Administer \/ Crash \/ UNCHANGED vars
  <2>1. UNCHANGED <<images, protocol, minted, presigned>>
    BY <1>4 DEF PutObject, Administer, Crash, vars, usageVars, usageTables
  <2>2. \A j \in Jobs : job'[j] = job[j] \/ job'[j] = NoJob
    BY <1>4, ElseSlots
  <2>. QED
    BY <2>1, <2>2, HomesStay DEF SameRequest
<1> QED
  BY <1>1, <1>2, <1>3, <1>4 DEF Next

LEMMA HomesInitial == Init => HomesInv
<1> SUFFICES ASSUME Init PROVE HomesInv
  OBVIOUS
<1>1. /\ \A j \in Jobs, k \in Keys : ~Generates(j, k)
      /\ \A x \in Results, k \in Keys : ~Holds(x, k)
      /\ \A d \in Demands, k \in Keys : ~Presigns(d, k)
  BY NoJobFields, SubscriptionsAssumption
     DEF Init, Generates, Holds, Presigns, FilesOfResult
<1> QED
  BY <1>1 DEF HomesInv

-----------------------------------------------------------------------------
(* Requests and the rows they are about *)

(* Rows change to enabled or disabled, and then no request is left that    *)
(* would create them; presigned keys stay presigned.                       *)
RowsMove ==
  /\ presigned \subseteq presigned'
  /\ \A d \in Demands : \/ demand'[d].row = demand[d].row
                        \/ /\ demand'[d].row # "absent"
                           /\ \A i \in Jobs : ~(job'[i].op = "createDemand" /\ job'[i].demand = d)
  /\ \A x \in Results : \/ result'[x].row = result[x].row
                        \/ /\ result'[x].row # "absent"
                           /\ \A i \in Jobs : ~(job'[i].op = "createResult" /\ job'[i].result = x)
  /\ \A x \in Results : result'[x].row = "absent" =>
       images'[x] = images[x] /\ protocol'[x] = protocol[x]
  /\ \A d \in Demands, k \in Keys : Presigns(d, k)' => Presigns(d, k) \/ demand[d].row = "enabled"
  /\ \A i \in DOMAIN evidence' : evidence'[i] \in presigned'
  /\ \A i \in Jobs : job'[i].op = "protocol" => job'[i].old \cap images'[job'[i].result] = {}

(* No request has come. *)
LEMMA RowsKept ==
  ASSUME UsageInv, UsageInv', RowsInv, RowsMove,
         \A j \in Jobs : job'[j] = NoJob \/ SameRequest(job[j], job'[j])
  PROVE  RowsInv'
<1>0. \A j \in Jobs : Named(job'[j])
  BY DEF UsageInv
<1>1. \A j \in Jobs : job'[j].op = "none" \/ SameRequest(job[j], job'[j])
  BY NoJobFields
<1>2. \A j \in Jobs :
       /\ job'[j].op = "confirm" => <<job'[j].demand, job'[j].file>> \in presigned'
       /\ job'[j].op = "deleteDemand" => \A k \in job'[j].old : <<job'[j].demand, k>> \in presigned'
  BY <1>1 DEF RowsInv, RowsMove, SameRequest, Presigns
<1>3. \A j \in Jobs :
       /\ job'[j].op = "createDemand" => demand'[job'[j].demand].row = "absent"
       /\ job'[j].op \in {"claim", "confirm", "deleteDemand"} => demand'[job'[j].demand].row # "absent"
  BY <1>0, <1>1 DEF RowsInv, RowsMove, SameRequest, Named
<1>4. \A j \in Jobs :
       /\ job'[j].op = "createResult" => result'[job'[j].result].row = "absent"
       /\ job'[j].op \in {"addImages", "protocol", "deleteResult"} =>
            result'[job'[j].result].row # "absent"
  BY <1>0, <1>1 DEF RowsInv, RowsMove, SameRequest, Named
<1>5. \A i, j \in Jobs : /\ job'[i].op = job'[j].op
                         /\ \/ job'[i].op = "createDemand" /\ job'[i].demand = job'[j].demand
                            \/ job'[i].op = "createResult" /\ job'[i].result = job'[j].result
                         => i = j
  BY <1>1 DEF RowsInv, SameRequest
<1>6. \A d \in Demands, k \in Keys : Presigns(d, k)' => demand'[d].row # "absent"
  BY DEF RowsInv, RowsMove
<1>7. \A x \in Results : result'[x].row = "absent" => FilesOfResult(x)' = {}
  <2> SUFFICES ASSUME NEW x \in Results, result'[x].row = "absent" PROVE FilesOfResult(x)' = {}
    OBVIOUS
  <2>1. result[x].row = "absent" /\ images'[x] = images[x] /\ protocol'[x] = protocol[x]
    BY DEF RowsMove
  <2>. QED
    BY <2>1 DEF RowsInv, FilesOfResult
<1> QED
  BY <1>2, <1>3, <1>4, <1>5, <1>6, <1>7 DEF RowsInv, RowsMove, Presigns

LEMMA EvidencePresigned ==
  ASSUME UsageInv, RowsInv
  PROVE  \A d \in Demands : \A k \in EvidenceOf(d) : k \in Keys /\ Presigns(d, k)
<1> SUFFICES ASSUME NEW d \in Demands, NEW k \in EvidenceOf(d)
             PROVE  k \in Keys /\ Presigns(d, k)
  OBVIOUS
<1>1. PICK i \in DOMAIN evidence : evidence[i][1] = d /\ k = evidence[i][2]
  BY DEF EvidenceOf
<1>2. evidence[i] \in Demands \X Keys /\ evidence[i] \in presigned
  BY DEF UsageInv, RowsInv
<1> QED
  BY <1>1, <1>2 DEF Presigns

LEMMA RowsArrive ==
  ASSUME UsageInv, RowsInv, NEW j \in Jobs, Arrive(j)
  PROVE  RowsInv'
<1>1. Started(j) /\ Arriving(j)
  BY Arrivals
<1>2. /\ UNCHANGED <<demand, result, evidence, images, protocol, presigned>>
      /\ \A i \in Jobs : i # j => job'[i] = job[i]
  BY <1>1 DEF Started, usageTables
<1>3. \A d \in Demands : \A k \in EvidenceOf(d) : Presigns(d, k)
  BY EvidencePresigned
<1>4. /\ job'[j].op = "confirm" => <<job'[j].demand, job'[j].file>> \in presigned
      /\ job'[j].op = "deleteDemand" => \A k \in job'[j].old : <<job'[j].demand, k>> \in presigned
      /\ job'[j].op = "protocol" => job'[j].old \cap images[job'[j].result] = {}
  BY <1>1, <1>3 DEF Arriving, Presigns
<1>5. /\ job'[j].op = "createDemand" =>
           /\ demand[job'[j].demand].row = "absent"
           /\ \A i \in Jobs : ~(job[i].op = "createDemand" /\ job[i].demand = job'[j].demand)
      /\ job'[j].op \in {"claim", "confirm", "deleteDemand"} => demand[job'[j].demand].row # "absent"
  BY <1>1 DEF Arriving
<1>6. /\ job'[j].op = "createResult" =>
           /\ result[job'[j].result].row = "absent"
           /\ \A i \in Jobs : ~(job[i].op = "createResult" /\ job[i].result = job'[j].result)
      /\ job'[j].op \in {"addImages", "protocol", "deleteResult"} =>
            result[job'[j].result].row # "absent"
  BY <1>1 DEF Arriving
<1>7. \A x \in Results : FilesOfResult(x)' = FilesOfResult(x)
  BY <1>2 DEF FilesOfResult
<1> QED
  BY <1>2, <1>4, <1>5, <1>6, <1>7 DEF RowsInv, Presigns

(* The writes of demands. *)
LEMMA RowsOfDemands ==
  ASSUME UsageInv, UsageInv', RowsInv, NEW j \in Jobs,
         SaveDemand(j) \/ DisableDemand(j) \/ SaveEvidence(j)
  PROVE  RowsInv'
<1>. DEFINE d == job[j].demand
<1>1. /\ d \in Demands /\ UNCHANGED <<result, images, protocol, presigned>> /\ End(j)
      /\ demand \in [Demands -> Holder]
      /\ SaveDemand(j) => job[j].op \in {"createDemand", "claim"}
      /\ DisableDemand(j) => job[j].op = "deleteDemand"
      /\ SaveEvidence(j) => job[j].op = "confirm"
  BY DEF SaveDemand, DisableDemand, SaveEvidence, Wrote, UsageInv, TypeOK, Named, At
<1>2. /\ \A i \in Jobs : i # j => job'[i] = job[i]
      /\ job'[j] = NoJob
  BY <1>1, Ending DEF Stepped
<1>3. \A e \in Demands : e # d => demand'[e].row = demand[e].row
  BY <1>1 DEF SaveDemand, DisableDemand, SaveEvidence, Holder
<1>4. \/ demand'[d].row = demand[d].row
      \/ demand'[d].row # "absent" /\ \A i \in Jobs : ~(job'[i].op = "createDemand" /\ job'[i].demand = d)
  <2>1. CASE SaveDemand(j) /\ job[j].op = "createDemand"
    <3>1. demand'[d].row = "enabled"
      BY <1>1, <2>1 DEF SaveDemand, Holder
    <3>2. \A i \in Jobs : ~(job'[i].op = "createDemand" /\ job'[i].demand = d)
      BY <1>2, <2>1, NoJobFields DEF RowsInv
    <3>. QED
      BY <3>1, <3>2
  <2>2. CASE SaveDemand(j) /\ job[j].op # "createDemand"
    BY <1>1, <2>2 DEF SaveDemand, Holder
  <2>3. CASE DisableDemand(j)
    <3>1. demand'[d].row = "disabled"
      BY <1>1, <2>3 DEF DisableDemand, Holder
    <3>2. \A i \in Jobs : ~(job'[i].op = "createDemand" /\ job'[i].demand = d)
      BY <1>1, <1>2, <2>3, NoJobFields DEF RowsInv
    <3>. QED
      BY <3>1, <3>2
  <2>4. CASE SaveEvidence(j)
    BY <2>4 DEF SaveEvidence
  <2>. QED
    BY <2>1, <2>2, <2>3, <2>4
<1>5. \A i \in DOMAIN evidence' : evidence'[i] \in presigned
  <2>1. CASE SaveEvidence(j)
    <3>1. /\ evidence' = Append(evidence, <<job[j].demand, job[j].file>>)
          /\ <<job[j].demand, job[j].file>> \in presigned
          /\ evidence \in Seq(Demands \X Keys)
          /\ \A i \in DOMAIN evidence : evidence[i] \in presigned
      BY <1>1, <2>1 DEF SaveEvidence, RowsInv, Presigns, UsageInv
    <3>. QED
      BY <3>1
  <2>2. CASE ~SaveEvidence(j)
    BY <2>2 DEF SaveDemand, DisableDemand, RowsInv
  <2>. QED
    BY <2>1, <2>2
<1>6. RowsMove
  BY <1>1, <1>2, <1>3, <1>4, <1>5, NoJobFields DEF RowsMove, RowsInv, Presigns
<1> QED
  BY <1>2, <1>6, RowsKept DEF SameRequest

(* The writes of results; what a result is losing is none of its images.   *)
LEMMA RowsOfResults ==
  ASSUME UsageInv, UsageInv', RowsInv, HomesInv, NEW j \in Jobs,
         SaveImages(j) \/ SaveProtocol(j) \/ SaveResult(j) \/ DisableResult(j)
  PROVE  RowsInv'
<1>. DEFINE x == job[j].result
<1>1. /\ x \in Results /\ UNCHANGED <<demand, evidence, presigned>> /\ End(j)
      /\ result \in [Results -> Holder]
      /\ images \in [Results -> SUBSET Keys] /\ protocol \in [Results -> Keys \cup {NONE}]
      /\ SaveImages(j) => job[j].op = "addImages"
      /\ SaveProtocol(j) => job[j].op = "protocol"
      /\ SaveResult(j) => job[j].op = "createResult"
      /\ DisableResult(j) => job[j].op = "deleteResult"
  BY DEF SaveImages, SaveProtocol, SaveResult, DisableResult, Wrote, UsageInv, TypeOK, Named, At
<1>2. /\ \A i \in Jobs : i # j => job'[i] = job[i]
      /\ job'[j] = NoJob
  BY <1>1, Ending DEF Stepped
<1>3. \A y \in Results : y # x =>
        result'[y] = result[y] /\ images'[y] = images[y] /\ protocol'[y] = protocol[y]
  BY <1>1 DEF SaveImages, SaveProtocol, SaveResult, DisableResult
<1>4. \/ result'[x].row = result[x].row /\ result[x].row # "absent"
      \/ result'[x].row # "absent" /\ \A i \in Jobs : ~(job'[i].op = "createResult" /\ job'[i].result = x)
  <2>1. CASE SaveResult(j)
    <3>1. result'[x].row = "enabled"
      BY <1>1, <2>1 DEF SaveResult
    <3>2. \A i \in Jobs : ~(job'[i].op = "createResult" /\ job'[i].result = x)
      BY <1>1, <1>2, <2>1, NoJobFields DEF RowsInv
    <3>. QED
      BY <3>1, <3>2
  <2>2. CASE DisableResult(j)
    <3>1. result'[x].row = "disabled"
      BY <1>1, <2>2 DEF DisableResult, Holder
    <3>2. \A i \in Jobs : ~(job'[i].op = "createResult" /\ job'[i].result = x)
      BY <1>1, <1>2, <2>2, NoJobFields DEF RowsInv
    <3>. QED
      BY <3>1, <3>2
  <2>3. CASE SaveImages(j) \/ SaveProtocol(j)
    BY <1>1, <2>3 DEF SaveImages, SaveProtocol, RowsInv
  <2>. QED
    BY <2>1, <2>2, <2>3
<1>5. images'[x] \subseteq images[x] \cup job[j].done
  BY <1>1 DEF SaveImages, SaveProtocol, SaveResult, DisableResult
<1>6. ASSUME NEW i \in Jobs, job'[i].op = "protocol"
      PROVE  job'[i].old \cap images'[job'[i].result] = {}
  <2>1. /\ i # j /\ job'[i] = job[i] /\ job[i].result \in Results
        /\ job[i].old \cap images[job[i].result] = {} /\ job[i].old \subseteq Keys
    BY <1>2, <1>6, NoJobFields DEF RowsInv, UsageInv, TypeOK, Named, Job
  <2>2. \A k \in Keys : k \in job[j].done => Generates(j, k)
    BY DEF Generates, Uploads
  <2>3. \A k \in job[i].old : Holds(job[i].result, k)
    BY <1>6, <2>1 DEF Holds
  <2>4. job[i].old \cap job[j].done = {}
    BY <2>1, <2>2, <2>3 DEF HomesInv
  <2>. QED
    BY <1>3, <1>5, <2>1, <2>4
<1>7. RowsMove
  BY <1>1, <1>2, <1>3, <1>4, <1>6, NoJobFields DEF RowsMove, RowsInv, Presigns
<1> QED
  BY <1>2, <1>7, RowsKept DEF SameRequest

LEMMA RowsStep == UsageInv /\ HomesInv /\ RowsInv /\ [Next]_vars => RowsInv'
<1> SUFFICES ASSUME UsageInv, HomesInv, RowsInv, [Next]_vars PROVE RowsInv'
  OBVIOUS
<1>0. UsageInv'
  BY UsageStep
<1>1. ASSUME NEW j \in Jobs, Arrive(j) PROVE RowsInv'
  BY <1>1, RowsArrive
<1>2. ASSUME UNCHANGED <<usageTables, presigned>>,
             \A j \in Jobs : job'[j] = NoJob \/ SameRequest(job[j], job'[j])
      PROVE  RowsInv'
  <2>1. \A j \in Jobs : job'[j].op = "protocol" => job'[j].old \cap images[job'[j].result] = {}
    BY <1>2, NoJobFields DEF RowsInv, SameRequest
  <2>2. RowsMove
    BY <1>2, <2>1 DEF RowsMove, RowsInv, usageTables, Presigns
  <2>. QED
    BY <1>0, <1>2, <2>2, RowsKept
<1>3. ASSUME NEW j \in Jobs, Work(j) PROVE RowsInv'
  <2>1. CASE SaveDemand(j) \/ DisableDemand(j) \/ SaveEvidence(j)
    BY <1>0, <2>1, RowsOfDemands
  <2>2. CASE SaveImages(j) \/ SaveProtocol(j) \/ SaveResult(j) \/ DisableResult(j)
    BY <1>0, <2>2, RowsOfResults
  <2>3. CASE ~Saves(j)
    <3>1. UNCHANGED <<usageTables, presigned>>
      BY <1>3, <2>3
         DEF Saves, Work, CountDemands, CheckDemandLimit, CheckImage, UploadImage, CheckProtocol,
             DropOldProtocol, UploadProtocol, CheckEvidence, RefuseEvidence, DropFiles, FailJob,
             Silently
    <3>2. \A i \in Jobs : job'[i] = NoJob \/ SameRequest(job[i], job'[i])
      BY <1>3, Slots DEF SameRequest
    <3>. QED
      BY <1>2, <3>1, <3>2
  <2>. QED
    BY <2>1, <2>2, <2>3 DEF Saves
<1>4. ASSUME NEW d \in Demands, PresignEvidence(d) PROVE RowsInv'
  <2>1. /\ UNCHANGED <<demand, result, evidence, images, protocol, job>>
        /\ presigned' = presigned \cup {<<d, minted + 1>>} /\ demand[d].row = "enabled"
    BY <1>4 DEF PresignEvidence, usageTables
  <2>2. RowsMove
    BY <2>1 DEF RowsMove, RowsInv, Presigns
  <2>. QED
    BY <1>0, <2>1, <2>2, RowsKept DEF SameRequest
<1>5. CASE (\E d \in Demands, k \in Keys : PutObject(d, k)) \/ Administer \/ Crash \/ UNCHANGED vars
  <2>1. UNCHANGED <<usageTables, presigned>>
    BY <1>5 DEF PutObject, Administer, Crash, vars, usageVars
  <2>2. \A j \in Jobs : job'[j] = NoJob \/ SameRequest(job[j], job'[j])
    BY <1>5, ElseSlots DEF SameRequest
  <2>. QED
    BY <1>2, <2>1, <2>2
<1> QED
  BY <1>1, <1>3, <1>4, <1>5 DEF Next

LEMMA RowsInitial == Init => RowsInv
<1> SUFFICES ASSUME Init PROVE RowsInv
  OBVIOUS
<1>1. \A j \in Jobs : job[j] = NoJob
  BY DEF Init
<1>2. /\ DOMAIN evidence = {} /\ \A d \in Demands, k \in Keys : ~Presigns(d, k)
      /\ \A x \in Results : FilesOfResult(x) = {}
  BY DEF Init, Presigns, FilesOfResult
<1> QED
  BY <1>1, <1>2, NoJobFields DEF RowsInv

-----------------------------------------------------------------------------
(* Objects of requests in progress *)

(* What a request says it has uploaded is there, the rest is not.          *)
Accounted(q, objects) ==
  /\ q.done \subseteq objects /\ (q.todo \cup q.passed) \cap objects = {}
  /\ q.todo \cap q.passed = {}
  /\ q.op \in {"createResult", "protocol"} =>
       /\ q.file \notin q.todo \cup q.passed \cup q.done
       /\ q.file \in objects => q.step = "allowed"

UploadsInv ==
  /\ \A j \in Jobs : Accounted(job[j], bucket)
  /\ \A k \in bucket \cup stored : k <= minted

LEMMA Quiet ==
  ASSUME NEW q, NEW objects, Named(q), q.op \notin {"createResult", "addImages", "protocol"}
  PROVE  Accounted(q, objects)
BY DEF Named, Accounted

LEMMA Undisturbed ==
  ASSUME UsageInv, UsageInv', NEW j \in Jobs, job'[j] = job[j], Accounted(job[j], bucket),
         \A k \in Keys : Generates(j, k) => (k \in bucket <=> k \in bucket')
  PROVE  Accounted(job'[j], bucket')
<1>1. job[j] \in Job /\ bucket \subseteq Keys /\ bucket' \subseteq Keys /\ NONE \notin Keys
  BY SubscriptionsAssumption DEF UsageInv, TypeOK, Keys
<1>2. \A k \in Keys : k \in job[j].todo \cup job[j].passed \cup job[j].done =>
                        (k \in bucket <=> k \in bucket')
  BY DEF Generates, Uploads
<1>3. job[j].op \in {"createResult", "protocol"} =>
        (job[j].file \in bucket <=> job[j].file \in bucket')
  BY <1>1 DEF Generates, Uploads, Job
<1> QED
  BY <1>1, <1>2, <1>3 DEF Accounted, Job

(* Where the objects that a step of a request stores and deletes belong.   *)
LEMMA ObjectsOfWork ==
  ASSUME UsageInv, RowsInv, NEW j \in Jobs, Work(j)
  PROVE  /\ \A k \in bucket' \ bucket : k \in Keys /\ Generates(j, k) /\ k \in stored'
         /\ \A k \in stored' \ stored : Generates(j, k) /\ k \in bucket'
         /\ \A k \in bucket \ bucket' :
              \/ /\ job[j].op \in {"protocol", "deleteResult"} /\ k \in job[j].old
                 /\ DropFiles(j) \/ DropOldProtocol(j)
              \/ job[j].op = "deleteDemand" /\ k \in job[j].old /\ DropFiles(j)
              \/ /\ job[j].op = "confirm" /\ Presigns(job[j].demand, k)
                 /\ k \notin stored' /\ RefuseEvidence(j)
<1>0. /\ job[j] \in Job /\ Named(job[j]) /\ bucket \subseteq Keys /\ stored \subseteq Keys
      /\ NONE \notin Keys
  BY SubscriptionsAssumption DEF UsageInv, TypeOK, Keys
<1>1. CASE UploadImage(j)
  BY <1>0, <1>1 DEF UploadImage, Store, Generates, Uploads, Job
<1>2. CASE UploadProtocol(j)
  <2>1. job[j].file \in Uploads(job[j]) /\ job[j].file \in Keys
    BY <1>0, <1>2 DEF UploadProtocol, At, Named, Uploads
  <2>. QED
    BY <1>2, <2>1 DEF UploadProtocol, Store, Generates
<1>3. CASE DropOldProtocol(j)
  BY <1>3 DEF DropOldProtocol, Drop, At
<1>4. CASE DropFiles(j)
  BY <1>4 DEF DropFiles, Drop, At
<1>5. CASE RefuseEvidence(j)
  BY <1>5 DEF RefuseEvidence, Drop, At, RowsInv
<1>6. CASE FailJob(j)
  BY <1>0, <1>6 DEF FailJob, Generates, Uploads, Job
<1>7. CASE ~(UploadImage(j) \/ UploadProtocol(j) \/ DropOldProtocol(j) \/ DropFiles(j)
               \/ RefuseEvidence(j) \/ FailJob(j))
  <2>1. UNCHANGED <<bucket, stored>>
    BY <1>7
       DEF Work, CountDemands, CheckDemandLimit, SaveDemand, CheckImage, SaveImages,
           CheckProtocol, SaveProtocol, SaveResult, CheckEvidence, SaveEvidence, DisableDemand,
           DisableResult, Silently, Wrote
  <2>. QED
    BY <2>1
<1> QED
  BY <1>1, <1>2, <1>3, <1>4, <1>5, <1>6, <1>7

(* No object that a step of one request stores or deletes is of another's. *)
LEMMA OthersObjects ==
  ASSUME UsageInv, HomesInv, RowsInv, NEW i \in Jobs, NEW j \in Jobs, i # j, Work(j)
  PROVE  \A k \in Keys : Generates(i, k) => (k \in bucket <=> k \in bucket')
<1> SUFFICES ASSUME NEW k \in Keys, Generates(i, k), k \in bucket <=> k \notin bucket' PROVE FALSE
  OBVIOUS
<1>1. CASE k \in bucket' \ bucket
  BY <1>1, ObjectsOfWork DEF HomesInv
<1>2. CASE k \in bucket \ bucket'
  <2>0. Named(job[j])
    BY DEF UsageInv
  <2>1. CASE job[j].op \in {"protocol", "deleteResult"} /\ k \in job[j].old
    BY <2>0, <2>1 DEF HomesInv, Holds, Named
  <2>2. CASE job[j].op = "deleteDemand" /\ k \in job[j].old
    BY <2>0, <2>2 DEF HomesInv, RowsInv, Named
  <2>3. CASE job[j].op = "confirm" /\ Presigns(job[j].demand, k)
    BY <2>0, <2>3 DEF HomesInv, Named
  <2>. QED
    BY <1>2, <2>1, <2>2, <2>3, ObjectsOfWork
<1> QED
  BY <1>1, <1>2

LEMMA UploadsWork ==
  ASSUME UsageInv, UsageInv', HomesInv, RowsInv, UploadsInv, NEW j \in Jobs, Work(j)
  PROVE  UploadsInv'
<1>0. /\ job[j] \in Job /\ Named(job[j]) /\ Named(job'[j]) /\ Accounted(job[j], bucket)
      /\ bucket \subseteq Keys
  BY DEF UsageInv, TypeOK, UploadsInv
<1>1. \A i \in Jobs : i # j => Accounted(job'[i], bucket')
  <2> SUFFICES ASSUME NEW i \in Jobs, i # j PROVE Accounted(job'[i], bucket')
    OBVIOUS
  <2>1. job'[i] = job[i] /\ Accounted(job[i], bucket)
    BY Slots DEF UploadsInv
  <2>. QED
    BY <2>1, OthersObjects, Undisturbed
<1>2. Accounted(job'[j], bucket')
  <2>1. CASE job'[j] = NoJob
    BY <1>0, <2>1, Quiet, NoJobFields
  <2>2. CASE job'[j].op \notin {"createResult", "addImages", "protocol"}
    BY <1>0, <2>2, Quiet
  <2>3. CASE CheckImage(j)
    <3>1. PICK k \in job[j].todo : job' = [job EXCEPT ![j].todo = @ \ {k}, ![j].passed = @ \cup {k}]
      BY <2>3 DEF CheckImage
    <3>2. /\ SameRequest(job[j], job'[j]) /\ job'[j].step = job[j].step
          /\ job'[j].todo = job[j].todo \ {k}
          /\ job'[j].passed = job[j].passed \cup {k} /\ job'[j].done = job[j].done
      BY <3>1, Checking
    <3>3. bucket' = bucket
      BY <2>3 DEF CheckImage, Silently
    <3>. QED
      BY <1>0, <3>2, <3>3 DEF Accounted, SameRequest
  <2>4. CASE UploadImage(j)
    <3>1. PICK k \in job[j].passed :
            /\ job' = [job EXCEPT ![j].passed = @ \ {k}, ![j].done = @ \cup {k}]
            /\ bucket' = bucket \cup {k}
      BY <2>4 DEF UploadImage, Store
    <3>2. /\ SameRequest(job[j], job'[j]) /\ job'[j].step = job[j].step
          /\ job'[j].todo = job[j].todo
          /\ job'[j].passed = job[j].passed \ {k} /\ job'[j].done = job[j].done \cup {k}
      BY <3>1, Uploading
    <3>3. k \notin job[j].todo
      BY <1>0, <3>1 DEF Accounted
    <3>4. /\ job'[j].done \subseteq bucket'
          /\ (job'[j].todo \cup job'[j].passed) \cap bucket' = {}
          /\ job'[j].todo \cap job'[j].passed = {}
      BY <1>0, <3>1, <3>2, <3>3 DEF Accounted
    <3>5. job[j].op \in {"createResult", "protocol"} => job[j].file # k
      BY <1>0, <3>1 DEF Accounted
    <3>6. job'[j].todo \cup job'[j].passed \cup job'[j].done
            = job[j].todo \cup job[j].passed \cup job[j].done
      BY <3>1, <3>2
    <3>7. ASSUME job'[j].op \in {"createResult", "protocol"}
          PROVE  /\ job'[j].file \notin job'[j].todo \cup job'[j].passed \cup job'[j].done
                 /\ job'[j].file \in bucket' => job'[j].step = "allowed"
      <4>1. job[j].op \in {"createResult", "protocol"} /\ job'[j].file = job[j].file
        BY <3>2, <3>7 DEF SameRequest
      <4>2. /\ job[j].file \notin job[j].todo \cup job[j].passed \cup job[j].done
            /\ job[j].file \in bucket => job[j].step = "allowed"
        BY <1>0, <4>1 DEF Accounted
      <4>3. job[j].file \in bucket' => job[j].file \in bucket
        BY <3>1, <3>5, <4>1
      <4>. QED
        BY <3>2, <3>6, <4>1, <4>2, <4>3
    <3>. QED
      BY <3>4, <3>7 DEF Accounted
  <2>5. CASE CheckProtocol(j)
    <3>1. /\ bucket' = bucket /\ job[j].step = "started"
          /\ \E st \in {"allowed", "replacing"} : Goto(j, st)
      BY <2>5 DEF CheckProtocol, At, Silently
    <3>2. /\ SameRequest(job[j], job'[j]) /\ job'[j].todo = job[j].todo
          /\ job'[j].passed = job[j].passed /\ job'[j].done = job[j].done
      BY <3>1, Going
    <3>. QED
      BY <1>0, <3>1, <3>2 DEF Accounted, SameRequest
  <2>6. CASE DropOldProtocol(j)
    <3>1. Goto(j, "allowed") /\ job[j].op = "protocol"
      BY <2>6 DEF DropOldProtocol, At
    <3>2. /\ SameRequest(job[j], job'[j]) /\ job'[j].step = "allowed" /\ job'[j].todo = {}
          /\ job'[j].passed = {} /\ job'[j].done = {}
      BY <1>0, <3>1, Going DEF Named
    <3>. QED
      BY <3>2 DEF Accounted
  <2>7. CASE UploadProtocol(j)
    <3>1. /\ job'[j] = job[j] /\ job[j].step = "allowed"
          /\ job[j].op \in {"createResult", "protocol"}
          /\ bucket' = bucket \cup {job[j].file}
      BY <2>7 DEF UploadProtocol, At, Store
    <3>. QED
      BY <1>0, <3>1 DEF Accounted
  <2>8. CASE ~(CheckImage(j) \/ UploadImage(j) \/ CheckProtocol(j) \/ DropOldProtocol(j)
                 \/ UploadProtocol(j)) /\ job'[j] # NoJob
    <3>1. CountDemands(j) \/ CheckDemandLimit(j) \/ CheckEvidence(j) \/ DropFiles(j)
      <4>1. ASSUME End(j) PROVE FALSE
        BY <2>8, <4>1, Ending DEF Stepped
      <4>. QED
        BY <2>8, <4>1
           DEF Work, SaveDemand, SaveImages, SaveProtocol, SaveResult, SaveEvidence, RefuseEvidence,
               DisableDemand, DisableResult, FailJob
    <3>2. job[j].op \notin {"createResult", "addImages", "protocol"}
      BY <1>0, <3>1 DEF CountDemands, CheckDemandLimit, CheckEvidence, DropFiles, At, Named
    <3>3. SameRequest(job[j], job'[j])
      BY <2>8, Slots
    <3>. QED
      BY <1>0, <3>2, <3>3, Quiet DEF SameRequest
  <2>. QED
    BY <2>1, <2>3, <2>4, <2>5, <2>6, <2>7, <2>8
<1>3. \A k \in bucket' \cup stored' : k <= minted'
  <2>1. minted' = minted
    BY DEF Work, CountDemands, CheckDemandLimit, SaveDemand, CheckImage, UploadImage, SaveImages,
         CheckProtocol, DropOldProtocol, UploadProtocol, SaveProtocol, SaveResult, CheckEvidence,
         RefuseEvidence, SaveEvidence, DropFiles, DisableDemand, DisableResult, FailJob,
         Silently, Wrote
  <2>2. \A k \in bucket' \ bucket : k <= minted
    BY ObjectsOfWork DEF HomesInv
  <2>3. \A k \in stored' \ stored : k \in bucket'
    BY ObjectsOfWork
  <2>. QED
    BY <2>1, <2>2, <2>3 DEF UploadsInv
<1> QED
  BY <1>1, <1>2, <1>3 DEF UploadsInv

LEMMA UploadsStep ==
  UsageInv /\ HomesInv /\ RowsInv /\ UploadsInv /\ [Next]_vars => UploadsInv'
<1> SUFFICES ASSUME UsageInv, HomesInv, RowsInv, UploadsInv, [Next]_vars PROVE UploadsInv'
  OBVIOUS
<1>0. /\ UsageInv' /\ minted \in Nat /\ Keys \subseteq Nat /\ bucket \subseteq Keys
      /\ stored \subseteq Keys
  BY UsageStep DEF UsageInv, TypeOK, Keys
<1>1. ASSUME NEW j \in Jobs, Arrive(j) PROVE UploadsInv'
  <2>1. Started(j) /\ Arriving(j)
    BY <1>1, Arrivals
  <2>2. /\ UNCHANGED <<bucket, stored>> /\ minted <= minted' /\ minted' \in Nat
        /\ \A i \in Jobs : i # j => job'[i] = job[i]
        /\ job'[j].passed = {} /\ job'[j].done = {} /\ Named(job'[j])
    BY <2>1 DEF Started
  <2>3. \A k \in bucket \cup stored : k <= minted'
    <3>1. \A k \in bucket \cup stored : k \in Nat /\ k <= minted
      BY <1>0 DEF UploadsInv
    <3>2. minted \in Nat /\ minted' \in Nat /\ minted <= minted'
      BY <1>0, <2>2
    <3>. QED
      BY <3>1, <3>2
  <2>4. \A k \in (minted + 1)..minted' : k \notin bucket
    BY <1>0, <2>2 DEF UploadsInv
  <2>. SUFFICES Accounted(job'[j], bucket)
    BY <2>2, <2>3 DEF UploadsInv
  <2>5. CASE job'[j].op \in {"createResult", "addImages", "protocol"}
    <3>1. /\ job'[j].todo \subseteq (minted + 1)..minted'
          /\ job'[j].op \in {"createResult", "protocol"} =>
               /\ job'[j].file \in (minted + 1)..minted' \cup {NONE}
               /\ job'[j].file \notin job'[j].todo
      BY <2>1, <2>2, <2>5 DEF Arriving, Named
    <3>2. NONE \notin bucket
      BY <1>0, SubscriptionsAssumption
    <3>. QED
      BY <2>2, <2>4, <3>1, <3>2 DEF Accounted
  <2>6. CASE job'[j].op \notin {"createResult", "addImages", "protocol"}
    BY <2>2, <2>6, Quiet
  <2>. QED
    BY <2>5, <2>6
<1>2. ASSUME NEW j \in Jobs, Work(j) PROVE UploadsInv'
  BY <1>0, <1>2, UploadsWork
<1>3. ASSUME NEW d \in Demands, PresignEvidence(d) PROVE UploadsInv'
  <2>1. \A k \in bucket \cup stored : k <= minted + 1
    BY <1>0 DEF UploadsInv
  <2>. QED
    BY <1>3, <2>1 DEF PresignEvidence, UploadsInv
<1>4. ASSUME NEW d \in Demands, NEW k \in Keys, PutObject(d, k) PROVE UploadsInv'
  <2>1. /\ Presigns(d, k) /\ bucket' = bucket \cup {k} /\ stored' = stored \cup {k}
        /\ UNCHANGED <<job, minted>>
    BY <1>4 DEF PutObject, Presigns, Store
  <2>2. k <= minted /\ \A j \in Jobs : ~Generates(j, k)
    BY <2>1 DEF HomesInv
  <2>3. \A j \in Jobs : Accounted(job'[j], bucket')
    <3> SUFFICES ASSUME NEW j \in Jobs PROVE Accounted(job'[j], bucket')
      OBVIOUS
    <3>. QED
      BY <1>0, <2>1, <2>2, Undisturbed DEF UploadsInv
  <2>. QED
    BY <2>1, <2>2, <2>3 DEF UploadsInv
<1>5. CASE Administer \/ Crash \/ UNCHANGED vars
  <2>1. UNCHANGED <<bucket, minted, stored>>
    BY <1>5 DEF Administer, Crash, vars, usageVars
  <2>2. \A j \in Jobs : job'[j] = job[j] \/ job'[j] = NoJob
    BY <1>5, ElseSlots
  <2>3. \A j \in Jobs : Accounted(job'[j], bucket')
    BY <2>1, <2>2, Quiet, NoJobType, NoJobFields DEF UploadsInv
  <2>. QED
    BY <2>1, <2>3 DEF UploadsInv
<1> QED
  BY <1>1, <1>2, <1>3, <1>4, <1>5 DEF Next

LEMMA UploadsInitial == Init => UploadsInv
  BY Quiet, NoJobType, NoJobFields DEF Init, UploadsInv

-----------------------------------------------------------------------------
(* Objects of demands and results *)

LosesDemand(d) == \E j \in Jobs : At(j, "deleteDemand", "dropped") /\ job[j].demand = d
LosesResult(x) == \E j \in Jobs : At(j, "deleteResult", "dropped") /\ job[j].result = x
LosesProtocol(x) == \E j \in Jobs : At(j, "protocol", "allowed") /\ job[j].result = x

FilesInv ==
  /\ \A d \in Demands : demand[d].row = "enabled" /\ d \notin broken /\ ~LosesDemand(d) =>
       \A k \in stored : Presigns(d, k) => k \in bucket
  /\ \A x \in Results : result[x].row = "enabled" /\ x \notin broken /\ ~LosesResult(x) =>
       /\ images[x] \subseteq bucket
       /\ protocol[x] \in bucket \cup {NONE} \/ LosesProtocol(x)

(* A request that has taken files goes on to change the row, or has left   *)
(* the row broken.                                                         *)
Settles(j) ==
  \/ job'[j] = job[j]
  \/ Bereft(j) \subseteq broken'
  \/ DisableDemand(j) \/ DisableResult(j) \/ SaveProtocol(j)

LEMMA LossesSettle ==
  ASSUME UsageInv, [Next]_vars, NEW j \in Jobs,
         \/ At(j, "deleteDemand", "dropped") \/ At(j, "deleteResult", "dropped")
         \/ At(j, "protocol", "allowed")
  PROVE  Settles(j)
<1>0. Named(job[j]) /\ job[j] # NoJob
  BY NoJobFields DEF UsageInv, At
<1>1. ASSUME NEW i \in Jobs, Arrive(i) PROVE Settles(j)
  BY <1>0, <1>1, Arrivals DEF Started, Settles
<1>2. ASSUME NEW i \in Jobs, Work(i), i # j PROVE Settles(j)
  BY <1>2, Slots DEF Settles
<1>3. ASSUME Work(j) PROVE Settles(j)
  <2>1. CASE FailJob(j)
    BY <2>1 DEF FailJob, Settles
  <2>2. CASE ~FailJob(j)
    <3>1. job[j].todo = {} /\ job[j].passed = {}
      BY <1>0 DEF Named, At
    <3>2. DisableDemand(j) \/ DisableResult(j) \/ SaveProtocol(j) \/ UploadProtocol(j)
      BY <1>3, <2>2, <3>1
         DEF Work, At, CountDemands, CheckDemandLimit, SaveDemand, CheckImage, UploadImage,
             SaveImages, CheckProtocol, DropOldProtocol, SaveResult, CheckEvidence, RefuseEvidence,
             SaveEvidence, DropFiles
    <3>. QED
      BY <3>2 DEF UploadProtocol, Settles
  <2>. QED
    BY <2>1, <2>2
<1>4. CASE \/ \E d \in Demands : PresignEvidence(d)
           \/ \E d \in Demands, k \in Keys : PutObject(d, k)
           \/ Administer \/ UNCHANGED vars
  BY <1>4 DEF PresignEvidence, PutObject, Administer, vars, usageVars, Settles
<1>5. CASE Crash
  BY <1>5 DEF Crash, Settles
<1> QED
  BY <1>1, <1>2, <1>3, <1>4, <1>5 DEF Next

LEMMA BrokenStays == [Next]_vars => broken \subseteq broken'
<1>1. ASSUME NEW j \in Jobs, Arrive(j) PROVE broken' = broken
  <2>1. \E q, n : Start(j, q, n)
    BY <1>1, Zenon DEF Arrive, StartDemand, StartClaim, StartResult, StartImages, StartProtocol,
         StartDeleteResult, StartConfirm, StartDeleteDemand
  <2>. QED
    BY <2>1 DEF Start
<1>2. ASSUME NEW j \in Jobs, Work(j) PROVE broken \subseteq broken'
  BY <1>2
     DEF Work, CountDemands, CheckDemandLimit, SaveDemand, CheckImage, UploadImage, SaveImages,
         CheckProtocol, DropOldProtocol, UploadProtocol, SaveProtocol, SaveResult, CheckEvidence,
         RefuseEvidence, SaveEvidence, DropFiles, DisableDemand, DisableResult, FailJob,
         Silently, Wrote
<1>3. ASSUME \/ \E d \in Demands : PresignEvidence(d)
             \/ \E d \in Demands, k \in Keys : PutObject(d, k)
             \/ Administer \/ Crash \/ UNCHANGED vars
      PROVE  broken \subseteq broken'
  BY <1>3 DEF PresignEvidence, PutObject, Crash, Administer, vars, usageVars
<1> QED
  BY <1>1, <1>2, <1>3 DEF Next

LEMMA LossesStay ==
  ASSUME UsageInv, [Next]_vars
  PROVE  /\ \A d \in Demands : LosesDemand(d) =>
              LosesDemand(d)' \/ demand'[d].row # "enabled" \/ d \in broken'
         /\ \A x \in Results : LosesResult(x) =>
              LosesResult(x)' \/ result'[x].row # "enabled" \/ x \in broken'
         /\ \A x \in Results : LosesProtocol(x) =>
              \/ LosesProtocol(x)' \/ x \in broken'
              \/ \E j \in Jobs : SaveProtocol(j) /\ job[j].result = x
<1>0. demand \in [Demands -> Holder] /\ result \in [Results -> Holder]
  BY DEF UsageInv, TypeOK
<1>1. ASSUME NEW d \in Demands, NEW j \in Jobs, At(j, "deleteDemand", "dropped"),
             job[j].demand = d, demand'[d].row = "enabled", d \notin broken'
      PROVE  LosesDemand(d)'
  <2>1. Bereft(j) = {d}
    BY <1>1 DEF Bereft, At
  <2>2. ~DisableDemand(j)
    <3>1. DisableDemand(j) => demand'[d].row = "disabled"
      BY <1>0, <1>1 DEF DisableDemand, Holder
    <3>. QED
      BY <1>1, <3>1
  <2>3. ~DisableResult(j) /\ ~SaveProtocol(j)
    BY <1>1 DEF DisableResult, SaveProtocol, At
  <2>4. job'[j] = job[j]
    BY <1>1, <2>1, <2>2, <2>3, LossesSettle DEF Settles
  <2>. QED
    BY <1>1, <2>4 DEF LosesDemand, At
<1>2. ASSUME NEW x \in Results, NEW j \in Jobs, At(j, "deleteResult", "dropped"),
             job[j].result = x, result'[x].row = "enabled", x \notin broken'
      PROVE  LosesResult(x)'
  <2>1. Bereft(j) = {x}
    BY <1>2 DEF Bereft, At
  <2>2. ~DisableResult(j)
    <3>1. DisableResult(j) => result'[x].row = "disabled"
      BY <1>0, <1>2 DEF DisableResult, Holder
    <3>. QED
      BY <1>2, <3>1
  <2>3. ~DisableDemand(j) /\ ~SaveProtocol(j)
    BY <1>2 DEF DisableDemand, SaveProtocol, At
  <2>4. job'[j] = job[j]
    BY <1>2, <2>1, <2>2, <2>3, LossesSettle DEF Settles
  <2>. QED
    BY <1>2, <2>4 DEF LosesResult, At
<1>3. ASSUME NEW x \in Results, NEW j \in Jobs, At(j, "protocol", "allowed"),
             job[j].result = x, x \notin broken', ~SaveProtocol(j)
      PROVE  LosesProtocol(x)'
  <2>1. Bereft(j) = {x}
    BY <1>3 DEF Bereft, At
  <2>2. ~DisableDemand(j) /\ ~DisableResult(j)
    BY <1>3 DEF DisableDemand, DisableResult, At
  <2>3. job'[j] = job[j]
    BY <1>3, <2>1, <2>2, LossesSettle DEF Settles
  <2>. QED
    BY <1>3, <2>3 DEF LosesProtocol, At
<1> QED
  BY <1>1, <1>2, <1>3 DEF LosesDemand, LosesResult, LosesProtocol

LEMMA FilesOfDemands ==
  ASSUME UsageInv, HomesInv, RowsInv, UploadsInv, FilesInv, UsageInv', [Next]_vars,
         NEW d \in Demands, demand'[d].row = "enabled", d \notin broken', ~LosesDemand(d)',
         NEW k \in stored', Presigns(d, k)'
  PROVE  k \in bucket'
<1>0. /\ k \in Keys /\ Keys \subseteq Nat /\ minted \in Nat /\ demand \in [Demands -> Holder]
      /\ d \notin broken /\ ~LosesDemand(d)
  BY BrokenStays, LossesStay DEF UsageInv, TypeOK, Keys
<1>1. ASSUME demand[d].row = "enabled", Presigns(d, k), k \in stored PROVE k \in bucket
  BY <1>0, <1>1 DEF FilesInv
<1>2. ASSUME NEW j \in Jobs, Arrive(j) PROVE k \in bucket'
  <2>1. Started(j)
    BY <1>2, Arrivals
  <2>. QED
    BY <1>1, <2>1 DEF Started, usageTables, Presigns
<1>3. ASSUME NEW j \in Jobs, Work(j) PROVE k \in bucket'
  <2>0. Named(job[j]) /\ Presigns(d, k)
    BY <1>3
       DEF UsageInv, Work, CountDemands, CheckDemandLimit, SaveDemand, CheckImage, UploadImage,
           SaveImages, CheckProtocol, DropOldProtocol, UploadProtocol, SaveProtocol, SaveResult,
           CheckEvidence, RefuseEvidence, SaveEvidence, DropFiles, DisableDemand, DisableResult,
           FailJob, Silently, Wrote, Presigns
  <2>1. demand[d].row = "enabled"
    <3>1. demand[d].row # "absent"
      BY <1>0, <2>0 DEF RowsInv
    <3>2. CASE SaveDemand(j)
      BY <1>0, <2>0, <3>1, <3>2 DEF SaveDemand, At, Named, RowsInv, Holder
    <3>3. CASE DisableDemand(j)
      BY <1>0, <2>0, <3>3 DEF DisableDemand, At, Named, Holder
    <3>4. CASE ~SaveDemand(j) /\ ~DisableDemand(j)
      BY <1>3, <3>4
         DEF Work, CountDemands, CheckDemandLimit, CheckImage, UploadImage,
             SaveImages, CheckProtocol, DropOldProtocol, UploadProtocol, SaveProtocol, SaveResult,
             CheckEvidence, RefuseEvidence, SaveEvidence, DropFiles, DisableResult,
             FailJob, Silently, usageTables
    <3>. QED
      BY <3>2, <3>3, <3>4
  <2>2. SUFFICES ASSUME k \notin bucket' PROVE FALSE
    OBVIOUS
  <2>3. k \in stored /\ k \in bucket \ bucket'
    BY <1>1, <1>3, <2>0, <2>1, <2>2, ObjectsOfWork
  <2>4. CASE job[j].op \in {"protocol", "deleteResult"} /\ k \in job[j].old
    BY <1>0, <2>0, <2>4 DEF HomesInv, Holds, Named
  <2>5. CASE job[j].op = "deleteDemand" /\ k \in job[j].old /\ DropFiles(j)
    <3>1. job[j].demand = d
      BY <1>0, <2>0, <2>5 DEF HomesInv, RowsInv, Named
    <3>2. job'[j].op = job[j].op /\ job'[j].demand = d /\ job'[j].step = "dropped"
      BY <2>5, <3>1, Going DEF DropFiles, SameRequest
    <3>. QED
      BY <2>5, <3>2 DEF LosesDemand, At
  <2>. QED
    BY <1>3, <2>3, <2>4, <2>5, ObjectsOfWork
<1>4. ASSUME NEW e \in Demands, PresignEvidence(e) PROVE k \in bucket'
  <2>1. /\ UNCHANGED <<demand, bucket, stored>>
        /\ presigned' = presigned \cup {<<e, minted + 1>>}
    BY <1>4 DEF PresignEvidence, usageTables
  <2>2. k # minted + 1
    BY <1>0, <2>1 DEF UploadsInv
  <2>. QED
    BY <1>1, <2>1, <2>2 DEF Presigns
<1>5. ASSUME NEW e \in Demands, NEW l \in Keys, PutObject(e, l) PROVE k \in bucket'
  BY <1>1, <1>5 DEF PutObject, Store, usageTables, Presigns
<1>6. CASE Administer \/ Crash \/ UNCHANGED vars
  BY <1>1, <1>6 DEF Administer, Crash, vars, usageVars, usageTables, Presigns
<1> QED
  BY <1>2, <1>3, <1>4, <1>5, <1>6 DEF Next

LEMMA FilesOfResults ==
  ASSUME UsageInv, HomesInv, RowsInv, UploadsInv, FilesInv, UsageInv', [Next]_vars,
         NEW x \in Results, result'[x].row = "enabled", x \notin broken', ~LosesResult(x)'
  PROVE  /\ images'[x] \subseteq bucket'
         /\ protocol'[x] \in bucket' \cup {NONE} \/ LosesProtocol(x)'
<1>0. /\ result \in [Results -> Holder] /\ images \in [Results -> SUBSET Keys]
      /\ protocol \in [Results -> Keys \cup {NONE}]
      /\ x \notin broken /\ ~LosesResult(x)
  BY BrokenStays, LossesStay DEF UsageInv, TypeOK
<1>1. ASSUME result[x].row = "enabled"
      PROVE  images[x] \subseteq bucket /\ (protocol[x] \in bucket \cup {NONE} \/ LosesProtocol(x))
  BY <1>0, <1>1 DEF FilesInv
<1>2. ASSUME NEW j \in Jobs, SaveProtocol(j), job[j].result = x
      PROVE  protocol'[x] \in bucket'
  BY <1>0, <1>2 DEF SaveProtocol, Wrote
<1>3. LosesProtocol(x) => protocol'[x] \in bucket' \cup {NONE} \/ LosesProtocol(x)'
  BY <1>2, LossesStay
<1>4. ASSUME UNCHANGED <<result, images, protocol>>, bucket \subseteq bucket'
      PROVE  /\ images'[x] \subseteq bucket'
             /\ protocol'[x] \in bucket' \cup {NONE} \/ LosesProtocol(x)'
  BY <1>1, <1>3, <1>4
<1>5. ASSUME NEW j \in Jobs, Arrive(j)
      PROVE  /\ images'[x] \subseteq bucket'
             /\ protocol'[x] \in bucket' \cup {NONE} \/ LosesProtocol(x)'
  <2>1. Started(j)
    BY <1>5, Arrivals
  <2>. QED
    BY <1>4, <2>1 DEF Started, usageTables
<1>6. CASE \/ \E d \in Demands : PresignEvidence(d)
           \/ \E d \in Demands, k \in Keys : PutObject(d, k)
           \/ Administer \/ Crash \/ UNCHANGED vars
  <2>1. UNCHANGED <<result, images, protocol>> /\ bucket \subseteq bucket'
    BY <1>6 DEF PresignEvidence, PutObject, Store, Administer, Crash, vars, usageVars, usageTables
  <2>. QED
    BY <1>4, <2>1
<1>7. ASSUME NEW j \in Jobs, Work(j)
      PROVE  /\ images'[x] \subseteq bucket'
             /\ protocol'[x] \in bucket' \cup {NONE} \/ LosesProtocol(x)'
  <2>0. Named(job[j]) /\ job[j].done \subseteq bucket
    BY DEF UsageInv, UploadsInv, Accounted
  <2>1. CASE SaveResult(j) /\ job[j].result = x
    <3>1. images'[x] = job[j].done /\ protocol'[x] = job[j].file /\ bucket' = bucket
      BY <1>0, <2>1 DEF SaveResult, Wrote
    <3>2. job[j].file \in bucket \cup {NONE}
      BY <2>1 DEF SaveResult
    <3>. QED
      BY <2>0, <3>1, <3>2
  <2>2. CASE ~(SaveResult(j) /\ job[j].result = x) /\ (SaveImages(j) \/ SaveProtocol(j) \/ SaveResult(j) \/ DisableResult(j))
    <3>1. result[x].row = "enabled" /\ bucket' = bucket
      BY <1>0, <2>0, <2>2 DEF SaveImages, SaveProtocol, SaveResult, DisableResult, Wrote, Named, At, Holder
    <3>2. images'[x] \subseteq images[x] \cup job[j].done
      BY <1>0, <2>2 DEF SaveImages, SaveProtocol, SaveResult, DisableResult
    <3>3. protocol'[x] = protocol[x] \/ (SaveProtocol(j) /\ job[j].result = x)
      BY <1>0, <2>2 DEF SaveImages, SaveProtocol, SaveResult, DisableResult
    <3>. QED
      BY <1>1, <1>2, <1>3, <2>0, <3>1, <3>2, <3>3
  <2>3. CASE ~(SaveImages(j) \/ SaveProtocol(j) \/ SaveResult(j) \/ DisableResult(j))
    <3>1. UNCHANGED <<result, images, protocol>>
      BY <1>7, <2>3
         DEF Work, CountDemands, CheckDemandLimit, SaveDemand, CheckImage, UploadImage,
             CheckProtocol, DropOldProtocol, UploadProtocol, CheckEvidence, RefuseEvidence,
             SaveEvidence, DropFiles, DisableDemand, FailJob, Silently, Wrote, usageTables
    <3>2. images[x] \subseteq bucket /\ (protocol[x] \in bucket \cup {NONE} \/ LosesProtocol(x))
      BY <1>1, <3>1
    <3>3. ASSUME NEW k \in bucket \ bucket', k \in FilesOfResult(x)
          PROVE  DropOldProtocol(j) /\ job[j].op = "protocol" /\ job[j].result = x /\ k \in job[j].old
      <4>0. k \in Keys /\ Holds(x, k)
        BY <1>0, <3>3 DEF Holds, FilesOfResult
      <4>1. CASE /\ job[j].op \in {"protocol", "deleteResult"} /\ k \in job[j].old
                 /\ DropFiles(j) \/ DropOldProtocol(j)
        <5>1. job[j].result = x
          BY <2>0, <4>0, <4>1 DEF HomesInv, Holds, Named
        <5>2. ASSUME DropFiles(j) PROVE FALSE
          <6>1. job[j].op = "deleteResult"
            BY <4>1, <5>2 DEF DropFiles, At
          <6>2. job'[j].op = job[j].op /\ job'[j].result = x /\ job'[j].step = "dropped"
            BY <5>1, <5>2, Going DEF DropFiles, SameRequest
          <6>. QED
            BY <6>1, <6>2 DEF LosesResult, At
        <5>. QED
          BY <4>1, <5>1, <5>2 DEF DropOldProtocol, At
      <4>2. CASE job[j].op = "deleteDemand" /\ k \in job[j].old
        BY <2>0, <4>0, <4>2 DEF HomesInv, RowsInv, Named
      <4>3. CASE job[j].op = "confirm" /\ Presigns(job[j].demand, k)
        BY <2>0, <4>0, <4>3 DEF HomesInv, Named
      <4>. QED
        BY <1>7, <3>3, <4>1, <4>2, <4>3, ObjectsOfWork
    <3>4. images[x] \subseteq bucket'
      <4>1. job[j].op = "protocol" /\ job[j].result = x => job[j].old \cap images[x] = {}
        BY DEF RowsInv
      <4>. QED
        BY <3>2, <3>3, <4>1 DEF FilesOfResult
    <3>5. protocol[x] \in bucket' \cup {NONE} \/ LosesProtocol(x)'
      <4>1. CASE protocol[x] \in bucket \ bucket'
        <5>1. protocol[x] \in FilesOfResult(x) \/ protocol[x] = NONE
          BY DEF FilesOfResult
        <5>2. CASE DropOldProtocol(j) /\ job[j].op = "protocol" /\ job[j].result = x
          <6>1. job'[j].op = "protocol" /\ job'[j].result = x /\ job'[j].step = "allowed"
            BY <5>2, Going DEF DropOldProtocol, SameRequest
          <6>. QED
            BY <6>1 DEF LosesProtocol, At
        <5>. QED
          BY <3>3, <4>1, <5>1, <5>2
      <4>2. CASE ~(protocol[x] \in bucket \ bucket')
        BY <1>3, <3>1, <3>2, <4>2
      <4>. QED
        BY <4>1, <4>2
    <3>. QED
      BY <3>1, <3>4, <3>5
  <2>. QED
    BY <2>1, <2>2, <2>3
<1> QED
  BY <1>5, <1>6, <1>7 DEF Next

(* What holds of files and rows whatever overlaps, fails and is cut short. *)
FilesAllInv == UsageInv /\ HomesInv /\ RowsInv /\ UploadsInv /\ FilesInv

LEMMA FilesInitial == Init => FilesAllInv
<1> SUFFICES ASSUME Init PROVE FilesAllInv
  OBVIOUS
<1>1. FilesInv
  <2>1. /\ \A d \in Demands : demand[d].row = "absent"
        /\ \A x \in Results : result[x].row = "absent"
    BY DEF Init, NoHolder
  <2>. QED
    BY <2>1 DEF FilesInv
<1> QED
  BY <1>1, UsageInitial, HomesInitial, RowsInitial, UploadsInitial DEF FilesAllInv

LEMMA FilesStep == FilesAllInv /\ [Next]_vars => FilesAllInv'
<1> SUFFICES ASSUME UsageInv, HomesInv, RowsInv, UploadsInv, FilesInv, [Next]_vars
             PROVE  FilesAllInv'
  BY DEF FilesAllInv
<1>1. UsageInv' /\ HomesInv' /\ RowsInv' /\ UploadsInv'
  BY UsageStep, HomesStep, RowsStep, UploadsStep
<1>2. ASSUME NEW d \in Demands, demand'[d].row = "enabled", d \notin broken', ~LosesDemand(d)',
             NEW k \in stored', Presigns(d, k)'
      PROVE  k \in bucket'
  BY <1>1, <1>2, FilesOfDemands
<1>3. ASSUME NEW x \in Results, result'[x].row = "enabled", x \notin broken', ~LosesResult(x)'
      PROVE  /\ images'[x] \subseteq bucket'
             /\ protocol'[x] \in bucket' \cup {NONE} \/ LosesProtocol(x)'
  BY <1>1, <1>3, FilesOfResults
<1>4. FilesInv'
  BY <1>2, <1>3 DEF FilesInv
<1> QED
  BY <1>1, <1>4 DEF FilesAllInv

LEMMA NamedFiles == FilesAllInv => NamedFilesExist
<1> SUFFICES ASSUME UsageInv, RowsInv, FilesInv PROVE NamedFilesExist
  BY DEF FilesAllInv
<1>. DEFINE taking(h) == \E j \in Jobs : Bereft(j) = {h}
<1>1. ASSUME NEW d \in Demands, demand[d].row = "enabled", d \notin broken, ~taking(d),
             NEW k \in EvidenceOf(d), k \in stored
      PROVE  k \in bucket
  <2>1. ~LosesDemand(d)
    BY <1>1 DEF LosesDemand, At, Bereft
  <2>2. PICK i \in DOMAIN evidence : evidence[i][1] = d /\ k = evidence[i][2]
    BY <1>1 DEF EvidenceOf
  <2>3. evidence[i] \in Demands \X Keys /\ evidence[i] \in presigned
    BY DEF UsageInv, RowsInv
  <2>. QED
    BY <1>1, <2>1, <2>2, <2>3 DEF FilesInv, Presigns
<1>2. ASSUME NEW x \in Results, result[x].row = "enabled", x \notin broken, ~taking(x)
      PROVE  FilesOfResult(x) \subseteq bucket
  <2>1. ~LosesResult(x) /\ ~LosesProtocol(x)
    BY <1>2 DEF LosesResult, LosesProtocol, At, Bereft
  <2>. QED
    BY <1>2, <2>1 DEF FilesInv, FilesOfResult
<1> QED
  BY <1>1, <1>2 DEF NamedFilesExist

-----------------------------------------------------------------------------
(* Requests that come one at a time *)

Alone == \A i, j \in Jobs : job[i] # NoJob /\ job[j] # NoJob => i = j

(* An object is named by an enabled row, awaited, or being uploaded.       *)
Owned(k) ==
  \/ \E d \in Demands : demand[d].row = "enabled" /\ k \in EvidenceOf(d)
  \/ \E x \in Results : result[x].row = "enabled" /\ k \in FilesOfResult(x)
  \/ \E d \in Demands : Presigns(d, k) /\ k \notin EvidenceOf(d)
  \/ \E j \in Jobs : Generates(j, k)

(* What a request has read is still so: the row is there, and the files it *)
(* goes on to delete are all that the row names.                           *)
Current(j) ==
  /\ job[j].op \in {"claim", "confirm", "deleteDemand"} =>
       demand[job[j].demand].row = "enabled"
  /\ job[j].op \in {"addImages", "protocol", "deleteResult"} =>
       result[job[j].result].row = "enabled"
  /\ job[j].op \in {"addImages", "protocol"} => job[j].cabinet = result[job[j].result].cabinet
  /\ job[j].op = "confirm" => job[j].cabinet = demand[job[j].demand].cabinet
  /\ At(j, "deleteDemand", "started") => EvidenceOf(job[j].demand) \subseteq job[j].old
  /\ At(j, "deleteDemand", "dropped") => EvidenceOf(job[j].demand) \cap bucket = {}
  /\ At(j, "deleteResult", "started") => FilesOfResult(job[j].result) \subseteq job[j].old
  /\ At(j, "deleteResult", "dropped") => FilesOfResult(job[j].result) \cap bucket = {}
  /\ At(j, "protocol", "started") \/ At(j, "protocol", "replacing") =>
       FilesOfResult(job[j].result) \subseteq job[j].old \cup images[job[j].result]
  /\ At(j, "protocol", "allowed") =>
       FilesOfResult(job[j].result) \cap bucket \subseteq images[job[j].result]

CalmInv == calm => Alone /\ (\A k \in bucket : Owned(k)) /\ \A j \in Jobs : Current(j)

LEMMA IdleCurrent == ASSUME NEW j, job[j] = NoJob PROVE Current(j)
  BY NoJobFields DEF Current, At

LEMMA CalmBefore ==
  ASSUME UsageInv, [Next]_vars, calm'
  PROVE  /\ calm
         /\ \A j \in Jobs : Arrive(j) => \A i \in Jobs : job[i] = NoJob
         /\ Administer => \A i \in Jobs : job[i] = NoJob
<1>1. ~Busy => \A i \in Jobs : job[i] = NoJob
  BY DEF Busy
<1>2. ASSUME NEW j \in Jobs, Arrive(j) PROVE calm /\ \A i \in Jobs : job[i] = NoJob
  BY <1>1, <1>2, Arrivals DEF Started
<1>3. ASSUME NEW j \in Jobs, Work(j) PROVE calm
  BY <1>3
     DEF Work, CountDemands, CheckDemandLimit, SaveDemand, CheckImage, UploadImage, SaveImages,
         CheckProtocol, DropOldProtocol, UploadProtocol, SaveProtocol, SaveResult, CheckEvidence,
         RefuseEvidence, SaveEvidence, DropFiles, DisableDemand, DisableResult, FailJob,
         Silently, Wrote, Drop
<1>4. ASSUME Administer PROVE calm /\ \A i \in Jobs : job[i] = NoJob
  BY <1>1, <1>4 DEF Administer
<1>5. ASSUME \/ \E d \in Demands : PresignEvidence(d)
             \/ \E d \in Demands, k \in Keys : PutObject(d, k)
             \/ Crash \/ UNCHANGED vars
      PROVE  calm
  BY <1>5 DEF PresignEvidence, PutObject, Crash, vars, usageVars
<1> QED
  BY <1>2, <1>3, <1>4, <1>5 DEF Next

LEMMA AloneStep ==
  ASSUME UsageInv, [Next]_vars, calm', Alone
  PROVE  Alone'
<1>1. ASSUME NEW j \in Jobs, Arrive(j) PROVE Alone'
  BY <1>1, Arrivals, CalmBefore DEF Alone, Started
<1>2. ASSUME NEW j \in Jobs, Work(j) PROVE Alone'
  <2>1. job[j] # NoJob
    BY <1>2, NoJobFields
       DEF Work, At, CountDemands, CheckDemandLimit, SaveDemand, CheckImage, UploadImage,
           SaveImages, CheckProtocol, DropOldProtocol, UploadProtocol, SaveProtocol, SaveResult,
           CheckEvidence, RefuseEvidence, SaveEvidence, DropFiles, DisableDemand, DisableResult,
           FailJob
  <2>. QED
    BY <1>2, <2>1, Slots DEF Alone
<1>3. ASSUME \/ \E d \in Demands : PresignEvidence(d)
             \/ \E d \in Demands, k \in Keys : PutObject(d, k)
             \/ Administer \/ Crash \/ UNCHANGED vars
      PROVE  Alone'
  BY <1>3, ElseSlots DEF Alone
<1> QED
  BY <1>1, <1>2, <1>3 DEF Next

LEMMA CurrentArrive ==
  ASSUME UsageInv, [Next]_vars, calm', NEW j \in Jobs, Arrive(j)
  PROVE  \A i \in Jobs : Current(i)'
<1>1. /\ Started(j) /\ Arriving(j) /\ \A i \in Jobs : job[i] = NoJob
  BY CalmBefore, Arrivals
<1>2. /\ UNCHANGED <<demand, result, evidence, images, protocol>>
      /\ \A i \in Jobs : i # j => job'[i] = NoJob
  BY <1>1 DEF Started, usageTables
<1>3. /\ \A d \in Demands : EvidenceOf(d)' = EvidenceOf(d)
      /\ \A x \in Results : FilesOfResult(x)' = FilesOfResult(x)
  BY <1>2 DEF EvidenceOf, FilesOfResult
<1>4. Current(j)'
  <2>1. CASE job'[j].op \in {"createDemand", "claim", "confirm", "deleteDemand"}
    BY <1>1, <1>2, <1>3, <2>1 DEF Arriving, Current, At
  <2>2. CASE job'[j].op \in {"createResult", "addImages", "protocol", "deleteResult"}
    <3>0. PICK x \in Results : job'[j].result = x
      BY <1>1, <2>2 DEF Arriving
    <3>1. /\ job'[j].step = "started"
          /\ job'[j].op \in {"addImages", "protocol", "deleteResult"} => result[x].row = "enabled"
          /\ job'[j].op \in {"addImages", "protocol"} => job'[j].cabinet = result[x].cabinet
          /\ job'[j].op = "deleteResult" => job'[j].old = FilesOfResult(x)
          /\ job'[j].op = "protocol" => job'[j].old = FilesOfResult(x) \ images[x]
      BY <1>1, <2>2, <3>0 DEF Arriving
    <3>2. FilesOfResult(x) \subseteq (FilesOfResult(x) \ images[x]) \cup images[x]
      OBVIOUS
    <3>3. FilesOfResult(x)' = FilesOfResult(x) /\ result' = result /\ images' = images
      BY <1>2, <1>3
    <3>. QED
      BY <2>2, <3>0, <3>1, <3>2, <3>3 DEF Current, At
  <2>. QED
    BY <1>1, <2>1, <2>2 DEF Arriving
<1>5. ASSUME NEW i \in Jobs, i # j PROVE Current(i)'
  <2>1. job'[i] = NoJob
    BY <1>2, <1>5
  <2>. QED
    BY <2>1, NoJobFields DEF Current, At
<1> QED
  BY <1>4, <1>5

LEMMA CurrentWork ==
  ASSUME UsageInv, HomesInv, CalmInv, [Next]_vars, calm', NEW j \in Jobs, Work(j)
  PROVE  \A i \in Jobs : Current(i)'
<1>0. /\ calm /\ Alone /\ Current(j) /\ Named(job[j]) /\ Named(job'[j])
      /\ \A i \in Jobs : i # j => job'[i] = job[i]
  BY CalmBefore, Slots DEF CalmInv, UsageInv
<1>1. job[j] # NoJob
  BY NoJobFields
     DEF Work, At, CountDemands, CheckDemandLimit, SaveDemand, CheckImage, UploadImage,
         SaveImages, CheckProtocol, DropOldProtocol, UploadProtocol, SaveProtocol, SaveResult,
         CheckEvidence, RefuseEvidence, SaveEvidence, DropFiles, DisableDemand, DisableResult,
         FailJob
<1>2. \A i \in Jobs : job'[i] = NoJob => Current(i)'
  BY NoJobFields DEF Current, At
<1>3. \A i \in Jobs : i # j => Current(i)'
  BY <1>0, <1>1, <1>2 DEF Alone
<1>4. Current(j)'
  <2>1. CASE job'[j] = NoJob
    BY <1>2, <2>1
  <2>2. CASE job'[j] # NoJob
    <3>0. ASSUME End(j) PROVE FALSE
      BY <2>2, <3>0, Ending DEF Stepped
    <3>1. UNCHANGED <<demand, result, evidence, images, protocol>>
      BY <3>0
         DEF Work, CountDemands, CheckDemandLimit, SaveDemand, CheckImage, UploadImage,
             SaveImages, CheckProtocol, DropOldProtocol, UploadProtocol, SaveProtocol, SaveResult,
             CheckEvidence, RefuseEvidence, SaveEvidence, DropFiles, DisableDemand, DisableResult,
             FailJob, Silently, usageTables
    <3>2. /\ \A d : EvidenceOf(d)' = EvidenceOf(d)
          /\ \A x : FilesOfResult(x)' = FilesOfResult(x)
      BY <3>1 DEF EvidenceOf, FilesOfResult
    <3>3. SameRequest(job[j], job'[j])
      BY <2>2, Slots
    <3>4. CASE DropFiles(j)
      <4>1. /\ job[j].step = "started" /\ job'[j].step = "dropped"
            /\ job[j].op \in {"deleteDemand", "deleteResult"}
            /\ bucket' = bucket \ job[j].old
        BY <1>0, <3>4, Going DEF DropFiles, Drop, At
      <4>. QED
        BY <1>0, <3>1, <3>2, <3>3, <4>1 DEF Current, At, SameRequest
    <3>5. CASE DropOldProtocol(j)
      <4>1. /\ job[j].step = "replacing" /\ job'[j].step = "allowed" /\ job[j].op = "protocol"
            /\ bucket' = bucket \ job[j].old
        BY <1>0, <3>5, Going DEF DropOldProtocol, Drop, At
      <4>. QED
        BY <1>0, <3>1, <3>2, <3>3, <4>1 DEF Current, At, SameRequest
    <3>6. CASE UploadProtocol(j)
      <4>1. /\ job'[j] = job[j] /\ bucket' = bucket \cup {job[j].file}
            /\ job[j].step = "allowed" /\ job[j].op \in {"createResult", "protocol"}
        BY <3>6 DEF UploadProtocol, At, Store
      <4>2. job[j].op = "protocol" => job[j].file \notin FilesOfResult(job[j].result)
        <5>1. SUFFICES ASSUME job[j].op = "protocol" PROVE ~Holds(job[j].result, job[j].file)
          BY DEF Holds
        <5>2. job[j].file \in Keys /\ Generates(j, job[j].file) /\ job[j].result \in Results
          BY <1>0, <5>1, SubscriptionsAssumption DEF Named, Generates, Uploads, Keys
        <5>. QED
          BY <5>2 DEF HomesInv
      <4>. QED
        BY <1>0, <3>1, <3>2, <4>1, <4>2 DEF Current, At
    <3>7. CASE CheckProtocol(j)
      <4>1. \E st \in {"allowed", "replacing"} :
              Goto(j, st) /\ (st = "allowed" => job[j].op = "createResult")
        BY <3>7 DEF CheckProtocol, At
      <4>2. /\ job[j].step = "started" /\ job'[j].step \in {"allowed", "replacing"}
            /\ job'[j].step = "allowed" => job[j].op = "createResult"
            /\ job[j].op \in {"createResult", "protocol"}
        BY <1>0, <3>7, <4>1, Going DEF CheckProtocol, At
      <4>. QED
        BY <1>0, <3>1, <3>2, <3>3, <4>2 DEF Current, At, SameRequest
    <3>8. CASE CheckImage(j) \/ UploadImage(j)
      <4>1. job[j].op \in {"createResult", "addImages"}
        BY <1>0, <3>8 DEF CheckImage, UploadImage, Named
      <4>. QED
        BY <1>0, <3>1, <3>3, <4>1 DEF Current, At, SameRequest
    <3>9. CASE ~(DropFiles(j) \/ DropOldProtocol(j) \/ UploadProtocol(j) \/ CheckProtocol(j)
                   \/ CheckImage(j) \/ UploadImage(j))
      <4>1. CountDemands(j) \/ CheckDemandLimit(j) \/ CheckEvidence(j)
        BY <3>0, <3>9
           DEF Work, SaveDemand, SaveImages, SaveProtocol, SaveResult, SaveEvidence, RefuseEvidence,
               DisableDemand, DisableResult, FailJob
      <4>2. job[j].op \in {"createDemand", "claim", "confirm"}
        BY <1>0, <4>1 DEF CountDemands, CheckDemandLimit, CheckEvidence, At, Named
      <4>. QED
        BY <1>0, <3>1, <3>3, <4>2 DEF Current, At, SameRequest
    <3>. QED
      BY <3>4, <3>5, <3>6, <3>7, <3>8, <3>9
  <2>. QED
    BY <2>1, <2>2
<1> QED
  BY <1>3, <1>4

LEMMA CurrentPut ==
  ASSUME UsageInv, HomesInv, RowsInv, CalmInv, calm', calm,
         NEW d \in Demands, NEW k \in Keys, PutObject(d, k)
  PROVE  \A i \in Jobs : Current(i)'
<1> SUFFICES ASSUME NEW i \in Jobs PROVE Current(i)'
  OBVIOUS
<1>1. /\ Presigns(d, k) /\ k \notin EvidenceOf(d) /\ bucket' = bucket \cup {k}
      /\ UNCHANGED <<demand, result, evidence, images, protocol, job>>
      /\ Current(i) /\ Named(job[i])
  BY DEF PutObject, Presigns, Store, usageTables, CalmInv, UsageInv
<1>2. \A e \in Demands : k \notin EvidenceOf(e)
  BY <1>1, EvidencePresigned DEF HomesInv
<1>3. \A x \in Results : k \notin FilesOfResult(x)
  BY <1>1 DEF HomesInv, Holds
<1>4. /\ \A e : EvidenceOf(e)' = EvidenceOf(e)
      /\ \A x : FilesOfResult(x)' = FilesOfResult(x)
  BY <1>1 DEF EvidenceOf, FilesOfResult
<1>5. /\ At(i, "deleteDemand", "dropped") => job[i].demand \in Demands
      /\ At(i, "deleteResult", "dropped") => job[i].result \in Results
      /\ At(i, "protocol", "allowed") => job[i].result \in Results
  BY <1>1 DEF At, Named
<1> QED
  BY <1>1, <1>2, <1>3, <1>4, <1>5 DEF Current, At

LEMMA CurrentStep ==
  ASSUME UsageInv, HomesInv, RowsInv, CalmInv, [Next]_vars, calm'
  PROVE  \A i \in Jobs : Current(i)'
<1>0. calm /\ \A i \in Jobs : Current(i)
  BY CalmBefore DEF CalmInv
<1>1. ASSUME NEW j \in Jobs, Arrive(j) PROVE \A i \in Jobs : Current(i)'
  BY <1>1, CurrentArrive
<1>2. ASSUME NEW j \in Jobs, Work(j) PROVE \A i \in Jobs : Current(i)'
  BY <1>2, CurrentWork
<1>3. ASSUME NEW d \in Demands, NEW k \in Keys, PutObject(d, k)
      PROVE  \A i \in Jobs : Current(i)'
  BY <1>0, <1>3, CurrentPut
<1>4. CASE (\E d \in Demands : PresignEvidence(d)) \/ Administer \/ UNCHANGED vars
  <2>1. UNCHANGED <<demand, result, evidence, images, protocol, job, bucket>>
    BY <1>4 DEF PresignEvidence, Administer, vars, usageVars, usageTables
  <2>. QED
    BY <1>0, <2>1 DEF Current, At, EvidenceOf, FilesOfResult
<1>5. CASE Crash
  BY <1>5 DEF Crash
<1> QED
  BY <1>1, <1>2, <1>3, <1>4, <1>5 DEF Next

(* Nothing is written. *)
LEMMA OwnedStays ==
  ASSUME NEW k, Owned(k), UNCHANGED usageTables, presigned \subseteq presigned',
         \A j \in Jobs : Generates(j, k) => Generates(j, k)'
  PROVE  Owned(k)'
<1>1. /\ \A d : EvidenceOf(d)' = EvidenceOf(d)
      /\ \A x : FilesOfResult(x)' = FilesOfResult(x)
      /\ UNCHANGED <<demand, result>>
  BY DEF usageTables, EvidenceOf, FilesOfResult
<1>2. \A d : Presigns(d, k) => Presigns(d, k)'
  BY DEF Presigns
<1> QED
  BY <1>1, <1>2 DEF Owned

LEMMA OwnedRecord ==
  ASSUME UsageInv, HomesInv, RowsInv, UploadsInv, CalmInv, calm, NEW k \in bucket, NEW j \in Jobs,
         SaveImages(j) \/ SaveProtocol(j) \/ SaveResult(j)
  PROVE  Owned(k)'
<1>. DEFINE x == job[j].result
<1>0. /\ Named(job[j]) /\ Alone /\ Current(j) /\ Owned(k) /\ job[j] # NoJob
      /\ End(j) /\ x \in Results /\ UNCHANGED <<demand, evidence, presigned>>
      /\ result \in [Results -> Holder] /\ images \in [Results -> SUBSET Keys]
      /\ protocol \in [Results -> Keys \cup {NONE}]
      /\ job[j].op = "createResult" => result[x].row = "absent"
  BY NoJobFields DEF CalmInv, UsageInv, TypeOK, SaveImages, SaveProtocol, SaveResult, At, Named, Wrote, RowsInv
<1>1. \A d \in Demands : EvidenceOf(d)' = EvidenceOf(d) /\ demand' = demand /\ (Presigns(d, k)' <=> Presigns(d, k))
  BY <1>0 DEF EvidenceOf, Presigns
<1>2. \A y \in Results : y # x =>
        result'[y] = result[y] /\ images'[y] = images[y] /\ protocol'[y] = protocol[y]
  BY <1>0 DEF SaveImages, SaveProtocol, SaveResult
<1>3. result'[x].row = "enabled"
  BY <1>0 DEF SaveImages, SaveProtocol, SaveResult, At, Current
<1>4. k \in FilesOfResult(x) => k \in images'[x] \cup ({protocol'[x]} \ {NONE})
  <2>1. CASE SaveImages(j)
    BY <1>0, <2>1 DEF SaveImages, FilesOfResult
  <2>2. CASE SaveProtocol(j)
    <3>1. k \in FilesOfResult(x) => k \in images[x]
      BY <1>0, <2>2 DEF SaveProtocol, Current
    <3>. QED
      BY <1>0, <2>2, <3>1 DEF SaveProtocol
  <2>3. CASE SaveResult(j)
    BY <1>0, <2>3 DEF SaveResult, RowsInv
  <2>. QED
    BY <2>1, <2>2, <2>3
<1>5. Generates(j, k) => k \in images'[x] \cup ({protocol'[x]} \ {NONE})
  <2>1. CASE SaveImages(j)
    BY <1>0, <2>1 DEF SaveImages, ImagesDone, Generates, Uploads
  <2>2. CASE SaveProtocol(j)
    BY <1>0, <2>2 DEF SaveProtocol, At, Named, Generates, Uploads
  <2>3. CASE SaveResult(j)
    BY <1>0, <2>3 DEF SaveResult, ImagesDone, Generates, Uploads
  <2>. QED
    BY <2>1, <2>2, <2>3
<1>. HIDE DEF x
<1>6. k \in images'[x] \cup ({protocol'[x]} \ {NONE}) => Owned(k)'
  <2>. SUFFICES ASSUME k \in images'[x] \cup ({protocol'[x]} \ {NONE}) PROVE Owned(k)'
    OBVIOUS
  <2>1. PICK y \in Results : y = x
    BY <1>0
  <2>2. k \in FilesOfResult(y)'
    BY <2>1 DEF FilesOfResult
  <2>3. result'[y].row = "enabled"
    BY <1>3, <2>1
  <2>. QED
    BY <2>2, <2>3 DEF Owned
<1>7. CASE \E d \in Demands : demand[d].row = "enabled" /\ k \in EvidenceOf(d)
  BY <1>1, <1>7 DEF Owned
<1>8. CASE \E d \in Demands : Presigns(d, k) /\ k \notin EvidenceOf(d)
  BY <1>1, <1>8 DEF Owned
<1>9. CASE \E y \in Results : result[y].row = "enabled" /\ k \in FilesOfResult(y)
  <2>1. PICK y \in Results : result[y].row = "enabled" /\ k \in FilesOfResult(y)
    BY <1>9
  <2>2. CASE y = x
    BY <1>4, <1>6, <2>1, <2>2
  <2>3. CASE y # x
    <3>1. k \in FilesOfResult(y)' /\ result'[y].row = "enabled"
      BY <1>2, <2>1, <2>3 DEF FilesOfResult
    <3>. QED
      BY <3>1 DEF Owned
  <2>. QED
    BY <2>2, <2>3
<1>10. CASE \E i \in Jobs : Generates(i, k)
  <2>1. PICK i \in Jobs : Generates(i, k)
    BY <1>10
  <2>2. job[i] # NoJob
    BY <2>1, NoJobFields DEF Generates
  <2>. QED
    BY <1>0, <1>5, <1>6, <2>1, <2>2 DEF Alone
<1> QED
  BY <1>0, <1>7, <1>8, <1>9, <1>10 DEF Owned

LEMMA OwnedDisable ==
  ASSUME UsageInv, HomesInv, RowsInv, CalmInv, calm, NEW k \in bucket, NEW j \in Jobs,
         DisableDemand(j) \/ DisableResult(j)
  PROVE  Owned(k)'
<1>0. /\ Named(job[j]) /\ Alone /\ Current(j) /\ Owned(k) /\ job[j] # NoJob
      /\ UNCHANGED <<evidence, images, protocol, presigned>>
      /\ result \in [Results -> Holder] /\ demand \in [Demands -> Holder]
  BY NoJobFields DEF CalmInv, UsageInv, TypeOK, DisableDemand, DisableResult, At, Named, Wrote
<1>1. /\ \A d \in Demands : EvidenceOf(d)' = EvidenceOf(d) /\ (Presigns(d, k)' <=> Presigns(d, k))
      /\ \A x \in Results : FilesOfResult(x)' = FilesOfResult(x)
  BY <1>0 DEF EvidenceOf, FilesOfResult, Presigns
<1>2. \A d \in Demands : k \in EvidenceOf(d) => demand'[d] = demand[d]
  <2>1. CASE DisableDemand(j)
    <3>1. k \notin EvidenceOf(job[j].demand)
      BY <1>0, <2>1 DEF Current, DisableDemand
    <3>. QED
      BY <1>0, <2>1, <3>1 DEF DisableDemand
  <2>2. CASE DisableResult(j)
    BY <2>2 DEF DisableResult
  <2>. QED
    BY <2>1, <2>2
<1>3. \A x \in Results : k \in FilesOfResult(x) => result'[x] = result[x]
  <2>1. CASE DisableResult(j)
    <3>1. k \notin FilesOfResult(job[j].result)
      BY <1>0, <2>1 DEF Current, DisableResult
    <3>. QED
      BY <1>0, <2>1, <3>1 DEF DisableResult
  <2>2. CASE DisableDemand(j)
    BY <2>2 DEF DisableDemand
  <2>. QED
    BY <2>1, <2>2
<1>4. ASSUME NEW i \in Jobs PROVE ~Generates(i, k)
  <2>1. job[j].op \in {"deleteDemand", "deleteResult"}
    BY DEF DisableDemand, DisableResult, At
  <2>2. Uploads(job[j]) = {}
    BY <1>0, <2>1 DEF Named, Uploads
  <2>3. i # j => job[i] = NoJob
    BY <1>0 DEF Alone
  <2>. QED
    BY <2>2, <2>3, NoJobFields DEF Generates
<1> QED
  BY <1>0, <1>1, <1>2, <1>3, <1>4 DEF Owned

LEMMA OwnedDemand ==
  ASSUME UsageInv, HomesInv, RowsInv, CalmInv, calm, NEW k \in bucket, NEW j \in Jobs,
         SaveDemand(j) \/ SaveEvidence(j)
  PROVE  Owned(k)'
<1>. DEFINE d == job[j].demand
<1>0. /\ Named(job[j]) /\ Alone /\ Current(j) /\ Owned(k) /\ job[j] # NoJob /\ d \in Demands
      /\ UNCHANGED <<result, images, protocol, presigned>>
      /\ demand \in [Demands -> Holder] /\ evidence \in Seq(Demands \X Keys)
      /\ job[j].op \in {"createDemand", "claim", "confirm"}
  BY NoJobFields DEF CalmInv, UsageInv, TypeOK, SaveDemand, SaveEvidence, At, Named, Wrote
<1>1. /\ \A e \in Demands : Presigns(e, k)' <=> Presigns(e, k)
      /\ \A x \in Results : FilesOfResult(x)' = FilesOfResult(x)
  BY <1>0 DEF FilesOfResult, Presigns
<1>2. ASSUME NEW i \in Jobs PROVE ~Generates(i, k)
  <2>1. Uploads(job[j]) = {}
    BY <1>0 DEF Named, Uploads
  <2>2. i # j => job[i] = NoJob
    BY <1>0 DEF Alone
  <2>. QED
    BY <2>1, <2>2, NoJobFields DEF Generates
<1>3. \A e \in Demands : demand[e].row = "enabled" => demand'[e].row = "enabled"
  BY <1>0 DEF SaveDemand, SaveEvidence, Holder
<1>4. CASE SaveDemand(j)
  <2>1. \A e \in Demands : EvidenceOf(e)' = EvidenceOf(e)
    BY <1>4 DEF SaveDemand, EvidenceOf
  <2>. QED
    BY <1>0, <1>1, <1>2, <1>3, <2>1 DEF Owned
<1>5. CASE SaveEvidence(j)
  <2>1. evidence' = Append(evidence, <<d, job[j].file>>) /\ demand[d].row = "enabled"
    BY <1>0, <1>5 DEF SaveEvidence, Current, At
  <2>. HIDE DEF d
  <2>2. ASSUME NEW e \in Demands
        PROVE  EvidenceOf(e)' = EvidenceOf(e) \cup (IF e = d THEN {job[j].file} ELSE {})
    <3>. DEFINE n == Len(evidence) + 1
    <3>1. /\ DOMAIN evidence' = DOMAIN evidence \cup {n} /\ n \notin DOMAIN evidence
          /\ \A i \in DOMAIN evidence : evidence'[i] = evidence[i]
          /\ evidence'[n] = <<d, job[j].file>>
      BY <1>0, <2>1
    <3>. HIDE DEF n
    <3>2. {i \in DOMAIN evidence' : evidence'[i][1] = e}
            = {i \in DOMAIN evidence : evidence[i][1] = e} \cup (IF e = d THEN {n} ELSE {})
      BY <3>1
    <3>. QED
      BY <3>1, <3>2 DEF EvidenceOf
  <2>3. CASE \E e \in Demands : demand[e].row = "enabled" /\ k \in EvidenceOf(e)
    BY <1>3, <2>2, <2>3 DEF Owned
  <2>4. CASE \E x \in Results : result[x].row = "enabled" /\ k \in FilesOfResult(x)
    BY <1>0, <1>1, <2>4 DEF Owned
  <2>5. CASE \E e \in Demands : Presigns(e, k) /\ k \notin EvidenceOf(e)
    <3>1. PICK e \in Demands : Presigns(e, k) /\ k \notin EvidenceOf(e)
      BY <2>5
    <3>2. CASE k \in EvidenceOf(e)'
      <4>1. e = d
        BY <2>2, <3>1, <3>2
      <4>2. demand'[e].row = "enabled"
        BY <1>3, <2>1, <4>1
      <4>. QED
        BY <3>2, <4>2 DEF Owned
    <3>3. CASE k \notin EvidenceOf(e)'
      BY <1>1, <3>1, <3>3 DEF Owned
    <3>. QED
      BY <3>2, <3>3
  <2>. QED
    BY <1>0, <1>2, <2>3, <2>4, <2>5 DEF Owned
<1> QED
  BY <1>4, <1>5

LEMMA OwnedWork ==
  ASSUME UsageInv, RowsInv, UploadsInv, CalmInv, calm, calm', NEW j \in Jobs, Work(j), ~Saves(j),
         NEW k \in bucket'
  PROVE  Owned(k)'
<1>0. /\ Named(job[j]) /\ Accounted(job[j], bucket)
      /\ \A i \in Jobs : i # j => job'[i] = job[i]
      /\ k \in bucket => Owned(k)
  BY Slots DEF UsageInv, UploadsInv, CalmInv
<1>1. UNCHANGED <<usageTables, presigned>>
  BY DEF Saves, Work, CountDemands, CheckDemandLimit, CheckImage, UploadImage, CheckProtocol,
         DropOldProtocol, UploadProtocol, CheckEvidence, RefuseEvidence, DropFiles, FailJob,
         Silently
<1>2. CASE FailJob(j)
  <2>1. /\ job[j].step # "allowed" /\ job[j].done = {} /\ job[j].passed = {} /\ bucket' = bucket
    BY <1>2 DEF FailJob
  <2>2. ~Generates(j, k)
    BY <1>0, <2>1 DEF Accounted, Generates, Uploads
  <2>. QED
    BY <1>0, <1>1, <2>1, <2>2, OwnedStays DEF Generates
<1>3. CASE RefuseEvidence(j)
  <2>1. Uploads(job[j]) = {} /\ k \in bucket
    BY <1>0, <1>3 DEF RefuseEvidence, Drop, At, Named, Uploads
  <2>. QED
    BY <1>0, <1>1, <2>1, OwnedStays DEF Generates
<1>4. CASE ~FailJob(j) /\ ~RefuseEvidence(j)
  <2>1. Uploads(job'[j]) = Uploads(job[j])
    <3>1. SameRequest(job[j], job'[j]) /\ job'[j].todo \cup job'[j].passed \cup job'[j].done
                    = job[j].todo \cup job[j].passed \cup job[j].done
      <4>1. CASE UploadProtocol(j)
        BY <4>1 DEF UploadProtocol, SameRequest
      <4>2. CASE CheckImage(j)
        <5>1. PICK l \in job[j].todo : job' = [job EXCEPT ![j].todo = @ \ {l}, ![j].passed = @ \cup {l}]
          BY <4>2 DEF CheckImage
        <5>2. /\ SameRequest(job[j], job'[j]) /\ job'[j].todo = job[j].todo \ {l}
              /\ job'[j].passed = job[j].passed \cup {l} /\ job'[j].done = job[j].done
          BY <5>1, Checking
        <5>. QED
          BY <5>2
      <4>3. CASE UploadImage(j)
        <5>1. PICK l \in job[j].passed : job' = [job EXCEPT ![j].passed = @ \ {l}, ![j].done = @ \cup {l}]
          BY <4>3 DEF UploadImage
        <5>2. /\ SameRequest(job[j], job'[j]) /\ job'[j].todo = job[j].todo
              /\ job'[j].passed = job[j].passed \ {l} /\ job'[j].done = job[j].done \cup {l}
          BY <5>1, Uploading
        <5>. QED
          BY <5>2
      <4>4. CASE CountDemands(j)
        BY <4>4, Counting
      <4>5. CASE ~(UploadProtocol(j) \/ CheckImage(j) \/ UploadImage(j) \/ CountDemands(j))
        <5>1. \E st \in {"idle", "started", "counted", "allowed", "replacing", "dropped"} : Goto(j, st)
          BY <1>4, <4>5
             DEF Saves, Work, CheckDemandLimit, CheckProtocol, DropOldProtocol, CheckEvidence, DropFiles
        <5>. QED
          BY <5>1, Going
      <4>. QED
        BY <4>1, <4>2, <4>3, <4>4, <4>5
    <3>. QED
      BY <3>1 DEF SameRequest, Uploads
  <2>2. \A i \in Jobs : Generates(i, k) => Generates(i, k)'
    BY <1>0, <2>1 DEF Generates
  <2>3. CASE k \in bucket
    BY <1>0, <1>1, <2>2, <2>3, OwnedStays
  <2>4. CASE k \notin bucket
    <3>1. Generates(j, k)'
      BY <2>1, <2>4, ObjectsOfWork DEF Generates
    <3>. QED
      BY <3>1 DEF Owned
  <2>. QED
    BY <2>3, <2>4
<1> QED
  BY <1>2, <1>3, <1>4

LEMMA OwnedStep ==
  ASSUME UsageInv, HomesInv, RowsInv, UploadsInv, CalmInv, [Next]_vars, calm', NEW k \in bucket'
  PROVE  Owned(k)'
<1>0. calm /\ (k \in bucket => Owned(k))
  BY CalmBefore DEF CalmInv
<1>1. ASSUME NEW j \in Jobs, Arrive(j) PROVE Owned(k)'
  <2>1. Started(j)
    BY <1>1, Arrivals
  <2>2. /\ k \in bucket /\ UNCHANGED usageTables /\ presigned \subseteq presigned'
        /\ \A i \in Jobs : Generates(i, k) => Generates(i, k)'
    BY <2>1, NoJobFields DEF Started, Generates
  <2>. QED
    BY <1>0, <2>2, OwnedStays
<1>2. ASSUME NEW j \in Jobs, Work(j) PROVE Owned(k)'
  <2>1. CASE ~Saves(j)
    BY <1>0, <1>2, <2>1, OwnedWork
  <2>2. CASE Saves(j)
    <3>1. k \in bucket
      BY <2>2
         DEF Saves, SaveDemand, SaveImages, SaveProtocol, SaveResult, SaveEvidence, DisableDemand,
             DisableResult, Wrote
    <3>. QED
      BY <1>0, <2>2, <3>1, OwnedRecord, OwnedDisable, OwnedDemand DEF Saves
  <2>. QED
    BY <2>1, <2>2
<1>3. ASSUME NEW d \in Demands, NEW l \in Keys, PutObject(d, l) PROVE Owned(k)'
  <2>1. /\ UNCHANGED <<usageTables, presigned, job>> /\ bucket' = bucket \cup {l}
        /\ Presigns(d, l) /\ l \notin EvidenceOf(d)
    BY <1>3 DEF PutObject, Presigns, Store
  <2>2. Owned(k)
    BY <1>0, <2>1 DEF Owned
  <2>3. \A j \in Jobs : Generates(j, k) => Generates(j, k)'
    BY <2>1 DEF Generates
  <2>. QED
    BY <2>1, <2>2, <2>3, OwnedStays
<1>4. CASE (\E d \in Demands : PresignEvidence(d)) \/ Administer \/ UNCHANGED vars
  <2>1. /\ UNCHANGED <<usageTables, job>> /\ bucket' = bucket /\ presigned \subseteq presigned'
    BY <1>4 DEF PresignEvidence, Administer, vars, usageVars
  <2>2. \A j \in Jobs : Generates(j, k) => Generates(j, k)'
    BY <2>1 DEF Generates
  <2>. QED
    BY <1>0, <2>1, <2>2, OwnedStays
<1>5. CASE Crash
  BY <1>5 DEF Crash
<1> QED
  BY <1>1, <1>2, <1>3, <1>4, <1>5 DEF Next

LEMMA CalmStep == FilesAllInv /\ CalmInv /\ [Next]_vars => CalmInv'
<1> SUFFICES ASSUME UsageInv, HomesInv, RowsInv, UploadsInv, CalmInv, [Next]_vars, calm'
             PROVE  Alone' /\ (\A k \in bucket' : Owned(k)') /\ \A j \in Jobs : Current(j)'
  BY DEF FilesAllInv, CalmInv
<1>1. Alone
  BY CalmBefore DEF CalmInv
<1> QED
  BY <1>1, AloneStep, OwnedStep, CurrentStep

LEMMA CalmInitial == Init => CalmInv
<1> SUFFICES ASSUME Init PROVE CalmInv
  OBVIOUS
<1>1. bucket = {} /\ \A j \in Jobs : job[j] = NoJob
  BY DEF Init
<1> QED
  BY <1>1, IdleCurrent DEF CalmInv, Alone

LEMMA LeftBehind == CalmInv => NothingIsLeftBehind
<1> SUFFICES ASSUME CalmInv, calm, ~Busy, NEW k \in bucket
             PROVE  \/ \E d \in Demands : demand[d].row = "enabled" /\ k \in EvidenceOf(d)
                    \/ \E x \in Results : result[x].row = "enabled" /\ k \in FilesOfResult(x)
                    \/ \E d \in Demands : <<d, k>> \in presigned /\ k \notin EvidenceOf(d)
  BY DEF NothingIsLeftBehind
<1>1. \A j \in Jobs : ~Generates(j, k)
  BY NoJobFields DEF Busy, Generates
<1> QED
  BY <1>1 DEF CalmInv, Owned, Presigns

(* What a demand or a result names is stored, unless a deletion or a       *)
(* replacement is between its two steps or was cut short there, or a       *)
(* refused confirmation took the object; and requests that come one at a   *)
(* time leave no object that nothing names.                                *)
THEOREM FilesMatch == Spec => []FilesMatchRows
<1>. DEFINE Inv == FilesAllInv /\ CalmInv
<1>1. Init => Inv
  BY FilesInitial, CalmInitial
<1>2. Inv /\ [Next]_vars => Inv'
  BY FilesStep, CalmStep
<1>3. Inv => FilesMatchRows
  BY NamedFiles, LeftBehind DEF FilesMatchRows
<1>. HIDE DEF Inv
<1> QED
  BY <1>1, <1>2, <1>3, PTL DEF Spec

-----------------------------------------------------------------------------
(* Limits *)

(* What was counted and checked is still so when requests do not overlap.  *)
Checked(j) ==
  /\ job[j].step = "counted" => job[j].seen = DemandCount(job[j].cabinet)
  /\ At(j, "createDemand", "allowed") \/ At(j, "claim", "allowed") =>
       WithinLimit(job[j].cabinet, "maxDemands", DemandCount(job[j].cabinet) + 1)
  /\ \A k \in job[j].passed \cup job[j].done : StorageFits(job[j].cabinet, k)
  /\ job[j].op \in {"createResult", "protocol"} /\ job[j].step \in {"allowed", "replacing"} =>
       StorageFits(job[j].cabinet, job[j].file)
  /\ At(j, "confirm", "allowed") /\ job[j].cabinet # NONE =>
       StorageFits(job[j].cabinet, job[j].file)

LimitsInv == calm => \A j \in Jobs : Checked(j)

LEMMA IdleChecked == ASSUME NEW j, job[j] = NoJob PROVE Checked(j)
  BY NoJobFields DEF Checked, At

(* Use and limits are read from tables that do not change. *)
LEMMA SameLimits ==
  ASSUME UNCHANGED <<subs, limits, now>>
  PROVE  \A c, kind, amount : WithinLimit(c, kind, amount)' <=> WithinLimit(c, kind, amount)
<1>1. \A c : ActiveSubscriptions(c)' = ActiveSubscriptions(c)
  BY DEF ActiveSubscriptions
<1>2. \A i, kind : LimitOf(i, kind)' = LimitOf(i, kind)
  BY DEF LimitOf
<1> QED
  BY <1>1, <1>2 DEF WithinLimit, HasActiveSubscription

LEMMA SameUse ==
  ASSUME NEW c, UNCHANGED usageTables
  PROVE  StorageUsed(c)' = StorageUsed(c) /\ DemandCount(c)' = DemandCount(c)
<1>1. DemandsOf(c)' = DemandsOf(c)
  BY DEF usageTables, DemandsOf
<1>2. EvidenceBytes(c)' = EvidenceBytes(c)
  BY DEF usageTables, EvidenceBytes, DemandsOf
<1>3. SizeOfSet(UNION {FilesOfResult(x) : x \in ResultsOf(c)})'
        = SizeOfSet(UNION {FilesOfResult(x) : x \in ResultsOf(c)})
  <2>1. (UNION {FilesOfResult(x) : x \in ResultsOf(c)})'
          = UNION {FilesOfResult(x) : x \in ResultsOf(c)}
    BY Zenon DEF usageTables, FilesOfResult, ResultsOf
  <2>. QED
    BY <2>1, Zenon DEF SizeOfSet
<1> QED
  BY <1>1, <1>2, <1>3 DEF StorageUsed, DemandCount

LEMMA SameFits ==
  ASSUME UNCHANGED <<subs, limits, now, usageTables>>
  PROVE  /\ \A c, k : StorageFits(c, k)' <=> StorageFits(c, k)
         /\ \A c : WithinLimit(c, "maxDemands", DemandCount(c) + 1)'
                     <=> WithinLimit(c, "maxDemands", DemandCount(c) + 1)
<1>1. ASSUME NEW c PROVE StorageUsed(c)' = StorageUsed(c) /\ DemandCount(c)' = DemandCount(c)
  BY SameUse
<1>2. \A c, kind, amount : WithinLimit(c, kind, amount)' <=> WithinLimit(c, kind, amount)
  BY SameLimits
<1> QED
  BY <1>1, <1>2 DEF StorageFits

LEMMA NobodyIsLimited ==
  ASSUME UsageInv, NEW amount
  PROVE  WithinLimit(NONE, "maxDemands", amount)
<1>1. \A i \in DOMAIN subs : subs[i].cabinet # NONE
  <2>1. \A i \in DOMAIN subs : subs[i] \in Subscription
    BY DEF UsageInv, PlansInv, PlansTypeOK
  <2>. QED
    BY <2>1, SubscriptionsAssumption DEF Subscription
<1> QED
  BY <1>1 DEF WithinLimit, HasActiveSubscription, ActiveSubscriptions

LEMMA CheckedArrive ==
  ASSUME UsageInv, [Next]_vars, calm', NEW j \in Jobs, Arrive(j)
  PROVE  \A i \in Jobs : Checked(i)'
<1>1. /\ Started(j) /\ Arriving(j) /\ \A i \in Jobs : job[i] = NoJob
  BY CalmBefore, Arrivals
<1>2. \A i \in Jobs : i # j => job'[i] = NoJob
  BY <1>1 DEF Started
<1>3. ASSUME NEW i \in Jobs, i # j PROVE Checked(i)'
  BY <1>2, <1>3, NoJobFields DEF Checked, At
<1>4. Checked(j)'
  <2>1. /\ job'[j].passed = {} /\ job'[j].done = {}
        /\ job'[j].step \in {"started", "allowed"}
        /\ job'[j].step = "allowed" => job'[j].op = "createDemand" /\ job'[j].cabinet = NONE
    BY <1>1 DEF Started, Arriving
  <2>2. UsageInv'
    BY UsageStep
  <2>3. \A amount : WithinLimit(NONE, "maxDemands", amount)'
    BY <2>2, NobodyIsLimited, SubscriptionsAssumption, <2>2
       DEF UsageInv, PlansInv, PlansTypeOK, Subscription, WithinLimit, HasActiveSubscription,
           ActiveSubscriptions
  <2>. QED
    BY <2>1, <2>3 DEF Checked, At
<1> QED
  BY <1>3, <1>4

LEMMA CheckedWork ==
  ASSUME UsageInv, LimitsInv, calm, NEW j \in Jobs, Work(j), ~Saves(j), job'[j] # NoJob
  PROVE  Checked(j)'
<1>0. Named(job[j]) /\ Checked(j)
  BY DEF UsageInv, LimitsInv
<1>1. UNCHANGED <<plansVars, usageTables>>
  BY DEF Saves, Work, CountDemands, CheckDemandLimit, CheckImage, UploadImage, CheckProtocol,
         DropOldProtocol, UploadProtocol, CheckEvidence, RefuseEvidence, DropFiles, FailJob,
         Silently
<1>2. /\ \A c, k : StorageFits(c, k)' <=> StorageFits(c, k)
      /\ \A c : WithinLimit(c, "maxDemands", DemandCount(c) + 1)'
                  <=> WithinLimit(c, "maxDemands", DemandCount(c) + 1)
      /\ \A c : DemandCount(c)' = DemandCount(c)
  BY <1>1, SameFits, SameUse DEF plansVars
<1>3. SameRequest(job[j], job'[j])
  BY Slots
<1>4. CASE CountDemands(j)
  <2>1. /\ job'[j].step = "counted" /\ job'[j].seen = DemandCount(job[j].cabinet)
        /\ job'[j].passed = job[j].passed /\ job'[j].done = job[j].done
    BY <1>4, Counting
  <2>. QED
    BY <1>0, <1>2, <1>3, <2>1 DEF Checked, At, SameRequest
<1>5. CASE CheckDemandLimit(j)
  <2>1. /\ job'[j].step = "allowed" /\ job[j].op \in {"createDemand", "claim"}
        /\ job'[j].passed = job[j].passed /\ job'[j].done = job[j].done
    BY <1>0, <1>5, Going DEF CheckDemandLimit, Named
  <2>2. WithinLimit(job[j].cabinet, "maxDemands", DemandCount(job[j].cabinet) + 1)
    BY <1>0, <1>5 DEF CheckDemandLimit, Checked
  <2>. QED
    BY <1>0, <1>2, <1>3, <2>1, <2>2 DEF Checked, At, SameRequest
<1>6. CASE CheckImage(j)
  <2>1. PICK k \in job[j].todo :
          /\ job' = [job EXCEPT ![j].todo = @ \ {k}, ![j].passed = @ \cup {k}]
          /\ StorageFits(job[j].cabinet, k)
    BY <1>6 DEF CheckImage
  <2>2. /\ job'[j].step = job[j].step
        /\ job'[j].passed = job[j].passed \cup {k} /\ job'[j].done = job[j].done
    BY <2>1, Checking
  <2>3. StorageFits(job[j].cabinet, k) /\ job[j].op \in {"createResult", "addImages"}
    BY <1>0, <2>1 DEF Named
  <2>. QED
    BY <1>0, <1>2, <1>3, <2>2, <2>3 DEF Checked, At, SameRequest, Named
<1>7. CASE UploadImage(j)
  <2>1. PICK k \in job[j].passed :
          job' = [job EXCEPT ![j].passed = @ \ {k}, ![j].done = @ \cup {k}]
    BY <1>7 DEF UploadImage
  <2>2. /\ job'[j].step = job[j].step
        /\ job'[j].passed = job[j].passed \ {k} /\ job'[j].done = job[j].done \cup {k}
    BY <2>1, Uploading
  <2>3. job'[j].passed \cup job'[j].done = job[j].passed \cup job[j].done
    BY <2>2
  <2>4. job[j].op \in {"createResult", "addImages"}
    BY <1>0, <2>1 DEF Named
  <2>. QED
    BY <1>0, <1>2, <1>3, <2>2, <2>3, <2>4 DEF Checked, At, SameRequest, Named
<1>8. CASE CheckProtocol(j)
  <2>1. /\ \E st \in {"allowed", "replacing"} : Goto(j, st)
        /\ StorageFits(job[j].cabinet, job[j].file) /\ job[j].op \in {"createResult", "protocol"}
    BY <1>8 DEF CheckProtocol, At
  <2>2. /\ job'[j].step \in {"allowed", "replacing"}
        /\ job'[j].passed = job[j].passed /\ job'[j].done = job[j].done
    BY <2>1, Going
  <2>. QED
    BY <1>0, <1>2, <1>3, <2>1, <2>2 DEF Checked, At, SameRequest
<1>9. CASE DropOldProtocol(j)
  <2>1. /\ job'[j].step = "allowed" /\ job[j].step = "replacing" /\ job[j].op = "protocol"
        /\ job'[j].passed = job[j].passed /\ job'[j].done = job[j].done
    BY <1>9, Going DEF DropOldProtocol, At
  <2>. QED
    BY <1>0, <1>2, <1>3, <2>1 DEF Checked, At, SameRequest
<1>10. CASE UploadProtocol(j)
  BY <1>0, <1>2, <1>10 DEF UploadProtocol, Checked, At
<1>11. CASE CheckEvidence(j)
  <2>1. /\ job'[j].step = "allowed" /\ job[j].op = "confirm"
        /\ job'[j].passed = job[j].passed /\ job'[j].done = job[j].done
        /\ job[j].cabinet # NONE => StorageFits(job[j].cabinet, job[j].file)
    BY <1>11, Going DEF CheckEvidence, At
  <2>. QED
    BY <1>0, <1>2, <1>3, <2>1 DEF Checked, At, SameRequest
<1>12. CASE DropFiles(j)
  <2>1. /\ job'[j].step = "dropped" /\ job[j].op \in {"deleteDemand", "deleteResult"}
        /\ job'[j].passed = job[j].passed /\ job'[j].done = job[j].done
    BY <1>12, Going DEF DropFiles, At
  <2>. QED
    BY <1>0, <1>2, <1>3, <2>1 DEF Checked, At, SameRequest
<1>13. ASSUME RefuseEvidence(j) \/ FailJob(j) PROVE FALSE
  BY <1>13, Ending DEF RefuseEvidence, FailJob, Stepped
<1> QED
  BY <1>4, <1>5, <1>6, <1>7, <1>8, <1>9, <1>10, <1>11, <1>12, <1>13 DEF Saves, Work

LEMMA LimitsStep ==
  UsageInv /\ CalmInv /\ LimitsInv /\ [Next]_vars => LimitsInv'
<1> SUFFICES ASSUME UsageInv, CalmInv, LimitsInv, [Next]_vars, calm', NEW i \in Jobs
             PROVE  Checked(i)'
  BY DEF LimitsInv
<1>0. calm /\ Alone /\ Checked(i)
  BY CalmBefore DEF CalmInv, LimitsInv
<1>1. job'[i] = NoJob => Checked(i)'
  BY NoJobFields DEF Checked, At
<1>2. ASSUME NEW j \in Jobs, Arrive(j) PROVE Checked(i)'
  BY <1>2, CheckedArrive
<1>3. ASSUME NEW j \in Jobs, Work(j) PROVE Checked(i)'
  <2>1. job[j] # NoJob
    BY <1>3, NoJobFields
       DEF Work, At, CountDemands, CheckDemandLimit, SaveDemand, CheckImage, UploadImage,
           SaveImages, CheckProtocol, DropOldProtocol, UploadProtocol, SaveProtocol, SaveResult,
           CheckEvidence, RefuseEvidence, SaveEvidence, DropFiles, DisableDemand, DisableResult,
           FailJob
  <2>2. CASE i # j
    BY <1>0, <1>1, <1>3, <2>1, <2>2, Slots DEF Alone
  <2>3. CASE i = j /\ Saves(j)
    <3>1. End(j)
      BY <2>3 DEF Saves, SaveDemand, SaveImages, SaveProtocol, SaveResult, SaveEvidence,
                  DisableDemand, DisableResult
    <3>. QED
      BY <1>1, <2>3, <3>1, Ending DEF Stepped
  <2>4. CASE i = j /\ ~Saves(j)
    BY <1>0, <1>1, <1>3, <2>4, CheckedWork
  <2>. QED
    BY <2>2, <2>3, <2>4
<1>4. CASE Administer
  <2>1. job'[i] = NoJob
    BY <1>4, CalmBefore DEF Administer
  <2>. QED
    BY <1>1, <2>1
<1>5. CASE \/ \E d \in Demands : PresignEvidence(d)
           \/ \E d \in Demands, k \in Keys : PutObject(d, k)
           \/ UNCHANGED vars
  <2>1. UNCHANGED <<plansVars, usageTables, job>>
    BY <1>5 DEF PresignEvidence, PutObject, vars, usageVars
  <2>2. /\ \A c, k : StorageFits(c, k)' <=> StorageFits(c, k)
        /\ \A c : WithinLimit(c, "maxDemands", DemandCount(c) + 1)'
                    <=> WithinLimit(c, "maxDemands", DemandCount(c) + 1)
        /\ \A c : DemandCount(c)' = DemandCount(c)
    BY <2>1, SameFits, SameUse DEF plansVars
  <2>. QED
    BY <1>0, <2>1, <2>2 DEF Checked, At
<1>6. CASE Crash
  BY <1>6 DEF Crash
<1> QED
  BY <1>2, <1>3, <1>4, <1>5, <1>6 DEF Next

LEMMA LimitsInitial == Init => LimitsInv
<1> SUFFICES ASSUME Init PROVE LimitsInv
  OBVIOUS
<1>1. \A j \in Jobs : job[j] = NoJob
  BY DEF Init
<1> QED
  BY <1>1, IdleChecked DEF LimitsInv

(* What is within a limit stays within it when it is less. *)
LEMMA LessFits ==
  ASSUME UsageInv, NEW c
  PROVE  \A a \in Nat : \A b \in Nat :
           a <= b /\ WithinLimit(c, "maxDemands", b) => WithinLimit(c, "maxDemands", a)
<1> SUFFICES ASSUME NEW a \in Nat, NEW b \in Nat, a <= b, WithinLimit(c, "maxDemands", b)
             PROVE  WithinLimit(c, "maxDemands", a)
  OBVIOUS
<1>1. ASSUME NEW i \in DOMAIN subs PROVE LimitOf(i, "maxDemands") \in Nat \cup {NONE}
  <2>1. subs[i] \in Subscription /\ limits \in [Plans -> Limits]
    BY DEF UsageInv, PlansInv, PlansTypeOK
  <2>2. subs[i].plan \in Plans /\ subs[i].max \in Limits
    BY <2>1 DEF Subscription
  <2>3. limits[subs[i].plan] \in Limits
    BY <2>1, <2>2
  <2>. QED
    BY <2>2, <2>3 DEF LimitOf, Limits
<1>2. CASE ~HasActiveSubscription(c)
  BY <1>2 DEF WithinLimit
<1>3. CASE HasActiveSubscription(c)
  <2>1. PICK i \in ActiveSubscriptions(c) :
          LimitOf(i, "maxDemands") # NONE => b <= LimitOf(i, "maxDemands")
    BY <1>3 DEF WithinLimit
  <2>2. LimitOf(i, "maxDemands") \in Nat \cup {NONE}
    BY <1>1 DEF ActiveSubscriptions
  <2>3. LimitOf(i, "maxDemands") # NONE => a <= LimitOf(i, "maxDemands")
    BY <2>1, <2>2
  <2>. QED
    BY <2>3 DEF WithinLimit
<1> QED
  BY <1>2, <1>3

LEMMA Counts ==
  ASSUME NEW S, NEW T, NEW d, IsFiniteSet(T), S \subseteq T \cup {d}
  PROVE  /\ Cardinality(S) \in Nat /\ Cardinality(T) \in Nat
         /\ Cardinality(S) <= Cardinality(T) + 1
         /\ S \subseteq T => Cardinality(S) <= Cardinality(T)
<1>1. /\ IsFiniteSet(T \cup {d}) /\ Cardinality(T) \in Nat
      /\ Cardinality(T \cup {d}) = Cardinality(T) \/ Cardinality(T \cup {d}) = Cardinality(T) + 1
  BY FS_AddElement, FS_CardinalityType, Zenon
<1>2. IsFiniteSet(S) /\ Cardinality(S) <= Cardinality(T \cup {d})
  BY <1>1, FS_Subset
<1>3. Cardinality(S) \in Nat
  BY <1>2, FS_CardinalityType
<1>4. S \subseteq T => Cardinality(S) <= Cardinality(T)
  BY FS_Subset
<1> QED
  BY <1>1, <1>2, <1>3, <1>4

(* Only a demand that is saved adds to the demands of a cabinet. *)
LEMMA DemandsGrow ==
  ASSUME UsageInv, [Next]_vars, NEW c \in Cabinets, DemandCount(c)' > DemandCount(c)
  PROVE  \E j \in Jobs : /\ SaveDemand(j) /\ job[j].cabinet = c
                         /\ DemandCount(c) \in Nat /\ DemandCount(c)' \in Nat
                         /\ DemandCount(c)' <= DemandCount(c) + 1
<1>0. demand \in [Demands -> Holder] /\ IsFiniteSet(DemandsOf(c))
  BY FS_Subset, UsageAssumption DEF UsageInv, TypeOK, DemandsOf
<1>1. DemandCount(c) \in Nat
  BY <1>0, FS_CardinalityType DEF DemandCount
<1>2. demand' # demand
  <2> SUFFICES ASSUME demand' = demand PROVE FALSE
    OBVIOUS
  <2>1. DemandsOf(c)' = DemandsOf(c)
    BY DEF DemandsOf
  <2>2. DemandCount(c)' = DemandCount(c)
    BY <2>1 DEF DemandCount
  <2>. QED
    BY <1>1, <2>2
<1>3. PICK j \in Jobs : SaveDemand(j) \/ DisableDemand(j)
  <2>1. ASSUME NEW j \in Jobs, Arrive(j) PROVE demand' = demand
    BY <2>1, Arrivals DEF Started, usageTables
  <2>2. ASSUME NEW j \in Jobs, Work(j), ~SaveDemand(j), ~DisableDemand(j)
        PROVE  demand' = demand
    BY <2>2
       DEF Work, CountDemands, CheckDemandLimit, CheckImage, UploadImage, SaveImages,
           CheckProtocol, DropOldProtocol, UploadProtocol, SaveProtocol, SaveResult, CheckEvidence,
           RefuseEvidence, SaveEvidence, DropFiles, DisableResult, FailJob, Silently, usageTables
  <2>3. ASSUME \/ \E d \in Demands : PresignEvidence(d)
               \/ \E d \in Demands, k \in Keys : PutObject(d, k)
               \/ Administer \/ Crash \/ UNCHANGED vars
        PROVE  demand' = demand
    <3>1. UNCHANGED usageTables
      BY <2>3 DEF PresignEvidence, PutObject, Administer, Crash, vars, usageVars
    <3>. QED
      BY <3>1 DEF usageTables
  <2>. QED
    BY <1>2, <2>1, <2>2, <2>3 DEF Next
<1>4. ASSUME DemandsOf(c)' \subseteq DemandsOf(c) PROVE FALSE
  <2>1. Cardinality(DemandsOf(c)') <= Cardinality(DemandsOf(c))
    BY <1>0, <1>4, FS_Subset
  <2>2. DemandCount(c)' \in Nat
    <3>1. IsFiniteSet(DemandsOf(c)')
      BY <1>0, <1>4, FS_Subset
    <3>. QED
      BY <3>1, FS_CardinalityType DEF DemandCount
  <2>. QED
    BY <1>1, <2>1, <2>2 DEF DemandCount
<1>5. ~DisableDemand(j)
  <2> SUFFICES ASSUME DisableDemand(j) PROVE DemandsOf(c)' \subseteq DemandsOf(c)
    BY <1>4
  <2>1. demand' = [demand EXCEPT ![job[j].demand].row = "disabled"]
    BY DEF DisableDemand
  <2>2. \A d \in Demands :
          demand'[d].row = "enabled" => demand'[d] = demand[d]
    BY <1>0, <2>1 DEF Holder
  <2>. QED
    BY <2>2 DEF DemandsOf
<1>6. SaveDemand(j)
  BY <1>3, <1>5
<1>7. demand' = [demand EXCEPT ![job[j].demand].cabinet = job[j].cabinet,
                               ![job[j].demand].row =
                                 IF job[j].op = "createDemand" THEN "enabled" ELSE @]
  BY <1>6 DEF SaveDemand
<1>8. \A d \in Demands : d # job[j].demand => demand'[d] = demand[d]
  BY <1>0, <1>7
<1>9. job[j].demand \in Demands => demand'[job[j].demand].cabinet = job[j].cabinet
  BY <1>0, <1>7 DEF Holder
<1>10. DemandsOf(c)' \subseteq DemandsOf(c) \cup {job[j].demand}
  BY <1>8 DEF DemandsOf
<1>11. job[j].cabinet = c
  <2> SUFFICES ASSUME job[j].cabinet # c PROVE DemandsOf(c)' \subseteq DemandsOf(c)
    BY <1>4
  <2>. QED
    BY <1>8, <1>9 DEF DemandsOf
<1>12. DemandCount(c)' \in Nat /\ DemandCount(c)' <= DemandCount(c) + 1
  BY <1>0, <1>10, Counts DEF DemandCount
<1> QED
  BY <1>1, <1>6, <1>11, <1>12

(* The step of DemandsFit. *)
LEMMA DemandFits ==
  ASSUME UsageInv, LimitsInv, [Next]_vars, calm', NEW c \in Cabinets,
         DemandCount(c)' > DemandCount(c)
  PROVE  WithinLimit(c, "maxDemands", DemandCount(c)')
<1>1. PICK j \in Jobs : /\ SaveDemand(j) /\ job[j].cabinet = c
                        /\ DemandCount(c) \in Nat /\ DemandCount(c)' \in Nat
                        /\ DemandCount(c)' <= DemandCount(c) + 1
  BY DemandsGrow
<1>2. calm /\ Checked(j)
  BY CalmBefore DEF LimitsInv
<1>3. WithinLimit(c, "maxDemands", DemandCount(c) + 1)
  BY <1>1, <1>2 DEF Checked, SaveDemand
<1>4. DemandCount(c) + 1 \in Nat
  BY <1>1
<1> QED
  BY <1>1, <1>3, <1>4, LessFits

(* The step of FilesFit: who adds the file has had it checked. *)
LEMMA FileFits ==
  ASSUME UsageInv, UploadsInv, CalmInv, LimitsInv, [Next]_vars, calm',
         NEW x \in Results, NEW k \in Keys, k \in FilesOfResult(x)' \ FilesOfResult(x)
  PROVE  StorageFits(result'[x].cabinet, k)
<1>0. /\ images \in [Results -> SUBSET Keys] /\ protocol \in [Results -> Keys \cup {NONE}]
      /\ result \in [Results -> Holder] /\ calm
      /\ \A j \in Jobs : Checked(j) /\ Current(j) /\ Named(job[j]) /\ Accounted(job[j], bucket)
  BY CalmBefore DEF UsageInv, TypeOK, LimitsInv, CalmInv, UploadsInv
<1>1. images' # images \/ protocol' # protocol
  BY DEF FilesOfResult
<1>2. PICK j \in Jobs : SaveImages(j) \/ SaveProtocol(j) \/ SaveResult(j)
  <2>1. ASSUME NEW j \in Jobs, Arrive(j) PROVE UNCHANGED <<images, protocol>>
    BY <2>1, Arrivals DEF Started, usageTables
  <2>2. ASSUME NEW j \in Jobs, Work(j), ~SaveImages(j), ~SaveProtocol(j), ~SaveResult(j)
        PROVE  UNCHANGED <<images, protocol>>
    BY <2>2
       DEF Work, CountDemands, CheckDemandLimit, SaveDemand, CheckImage, UploadImage,
           CheckProtocol, DropOldProtocol, UploadProtocol, CheckEvidence, RefuseEvidence,
           SaveEvidence, DropFiles, DisableDemand, DisableResult, FailJob, Silently, usageTables
  <2>3. ASSUME \/ \E d \in Demands : PresignEvidence(d)
               \/ \E d \in Demands, l \in Keys : PutObject(d, l)
               \/ Administer \/ Crash \/ UNCHANGED vars
        PROVE  UNCHANGED <<images, protocol>>
    <3>1. UNCHANGED usageTables
      BY <2>3 DEF PresignEvidence, PutObject, Administer, Crash, vars, usageVars
    <3>. QED
      BY <3>1 DEF usageTables
  <2>. QED
    BY <1>1, <2>1, <2>2, <2>3 DEF Next
<1>3. ASSUME SaveImages(j) PROVE StorageFits(result'[x].cabinet, k)
  <2>1. /\ images' = [images EXCEPT ![job[j].result] = @ \cup job[j].done]
        /\ protocol' = protocol /\ result' = result /\ job[j].op = "addImages"
    BY <1>3 DEF SaveImages
  <2>2. x = job[j].result /\ k \in job[j].done
    BY <1>0, <2>1 DEF FilesOfResult
  <2>3. job[j].cabinet = result[x].cabinet
    BY <1>0, <2>1, <2>2 DEF Current
  <2>4. StorageFits(job[j].cabinet, k)
    BY <1>0, <2>2 DEF Checked
  <2>. QED
    BY <2>1, <2>3, <2>4
<1>4. ASSUME SaveProtocol(j) PROVE StorageFits(result'[x].cabinet, k)
  <2>1. /\ protocol' = [protocol EXCEPT ![job[j].result] = job[j].file]
        /\ images' = images /\ result' = result
        /\ job[j].op = "protocol" /\ job[j].step = "allowed"
    BY <1>4 DEF SaveProtocol, At
  <2>2. x = job[j].result /\ k = job[j].file
    BY <1>0, <2>1 DEF FilesOfResult
  <2>3. job[j].cabinet = result[x].cabinet
    BY <1>0, <2>1, <2>2 DEF Current
  <2>4. StorageFits(job[j].cabinet, k)
    BY <1>0, <2>1, <2>2 DEF Checked
  <2>. QED
    BY <2>1, <2>3, <2>4
<1>5. ASSUME SaveResult(j) PROVE StorageFits(result'[x].cabinet, k)
  <2>1. /\ result' = [result EXCEPT ![job[j].result] =
                        [row |-> "enabled", cabinet |-> job[j].cabinet]]
        /\ images' = [images EXCEPT ![job[j].result] = job[j].done]
        /\ protocol' = [protocol EXCEPT ![job[j].result] = job[j].file]
        /\ job[j].op = "createResult" /\ (job[j].file # NONE => job[j].file \in bucket)
    BY <1>5 DEF SaveResult
  <2>2. x = job[j].result /\ (k \in job[j].done \/ (k = job[j].file /\ job[j].file # NONE))
    BY <1>0, <2>1 DEF FilesOfResult
  <2>3. result'[x].cabinet = job[j].cabinet
    BY <1>0, <2>1, <2>2
  <2>4. CASE k \in job[j].done
    BY <1>0, <2>3, <2>4 DEF Checked
  <2>5. CASE k = job[j].file /\ job[j].file # NONE
    <3>1. job[j].step = "allowed"
      BY <1>0, <2>1, <2>5 DEF Accounted
    <3>. QED
      BY <1>0, <2>1, <2>3, <2>5, <3>1 DEF Checked
  <2>. QED
    BY <2>2, <2>4, <2>5
<1> QED
  BY <1>2, <1>3, <1>4, <1>5

(* The same for a piece of evidence. *)
LEMMA EvidenceFits ==
  ASSUME UsageInv, CalmInv, LimitsInv, [Next]_vars, calm',
         NEW i \in DOMAIN evidence' \ DOMAIN evidence, demand[evidence'[i][1]].cabinet # NONE
  PROVE  StorageFits(demand[evidence'[i][1]].cabinet, evidence'[i][2])
<1>0. /\ evidence \in Seq(Demands \X Keys) /\ calm
      /\ \A j \in Jobs : Checked(j) /\ Current(j)
  BY CalmBefore DEF UsageInv, LimitsInv, CalmInv
<1>1. PICK j \in Jobs : SaveEvidence(j)
  <2>1. ASSUME NEW j \in Jobs, Arrive(j) PROVE evidence' = evidence
    BY <2>1, Arrivals DEF Started, usageTables
  <2>2. ASSUME NEW j \in Jobs, Work(j), ~SaveEvidence(j) PROVE evidence' = evidence
    BY <2>2
       DEF Work, CountDemands, CheckDemandLimit, SaveDemand, CheckImage, UploadImage, SaveImages,
           CheckProtocol, DropOldProtocol, UploadProtocol, SaveProtocol, SaveResult, CheckEvidence,
           RefuseEvidence, DropFiles, DisableDemand, DisableResult, FailJob, Silently, usageTables
  <2>3. ASSUME \/ \E d \in Demands : PresignEvidence(d)
               \/ \E d \in Demands, l \in Keys : PutObject(d, l)
               \/ Administer \/ Crash \/ UNCHANGED vars
        PROVE  evidence' = evidence
    <3>1. UNCHANGED usageTables
      BY <2>3 DEF PresignEvidence, PutObject, Administer, Crash, vars, usageVars
    <3>. QED
      BY <3>1 DEF usageTables
  <2>. QED
    BY <2>1, <2>2, <2>3 DEF Next
<1>2. /\ evidence' = Append(evidence, <<job[j].demand, job[j].file>>)
      /\ At(j, "confirm", "allowed") /\ job[j].op = "confirm"
  BY <1>1 DEF SaveEvidence, At
<1>3. evidence'[i] = <<job[j].demand, job[j].file>>
  BY <1>0, <1>2
<1>4. job[j].cabinet = demand[job[j].demand].cabinet
  BY <1>0, <1>2 DEF Current
<1> QED
  BY <1>0, <1>2, <1>3, <1>4 DEF Checked

(* Requests that come one at a time keep within the limits of the          *)
(* subscription: no demand is created or claimed beyond them, and every    *)
(* file recorded with a result, or as evidence of a demand of the cabinet, *)
(* fitted by itself on top of what was used before.                        *)
THEOREM LimitsHeld == Spec => LimitsHold
<1>. DEFINE Inv == FilesAllInv /\ CalmInv /\ LimitsInv
            DemandsStep == \A c \in Cabinets : calm' /\ DemandCount(c)' > DemandCount(c) =>
                             WithinLimit(c, "maxDemands", DemandCount(c)')
            FilesStepFits ==
              /\ \A x \in Results, k \in Keys :
                   calm' /\ result'[x].row = "enabled"
                         /\ k \in FilesOfResult(x)' \ FilesOfResult(x) =>
                     StorageFits(result'[x].cabinet, k)
              /\ \A i \in DOMAIN evidence' \ DOMAIN evidence :
                   LET d == evidence'[i][1] IN
                   calm' /\ demand[d].cabinet # NONE =>
                     StorageFits(demand[d].cabinet, evidence'[i][2])
<1>1. Init => Inv
  BY FilesInitial, CalmInitial, LimitsInitial
<1>2. Inv /\ [Next]_vars => Inv'
  BY FilesStep, CalmStep, LimitsStep DEF FilesAllInv
<1>3. Inv /\ [Next]_vars => [DemandsStep]_vars
  BY DemandFits DEF FilesAllInv
<1>4. Inv /\ [Next]_vars => [FilesStepFits]_vars
  BY FileFits, EvidenceFits DEF FilesAllInv
<1>5. Spec => [][DemandsStep]_vars
  <2>. HIDE DEF Inv, DemandsStep
  <2>. QED
    BY <1>1, <1>2, <1>3, PTL DEF Spec
<1>6. Spec => [][FilesStepFits]_vars
  <2>. HIDE DEF Inv, FilesStepFits
  <2>. QED
    BY <1>1, <1>2, <1>4, PTL DEF Spec
<1> QED
  BY <1>5, <1>6 DEF LimitsHold, DemandsFit, FilesFit
=============================================================================
