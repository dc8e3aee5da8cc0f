----------------------- MODULE DemandLifecycleProofs ------------------------
(***************************************************************************)
(* Theorems about DemandLifecycle, for any number of demands, cabinets,    *)
(* members, results and overlapping requests.  First what holds however    *)
(* they overlap; then, from the part on rows on, what becomes of survey    *)
(* links, and what requests that are served one after the other achieve:   *)
(* they implement DemandService, and a link that was mailed stays valid.   *)
(***************************************************************************)
EXTENDS DemandLifecycle, TLAPS

-----------------------------------------------------------------------------
(* Bags: adding and removing one copy of an element of a set. *)

LEMMA EmptyBagType ==
  IsABag(EmptyBag) /\ \A S : DOMAIN EmptyBag \subseteq S
BY DEF IsABag, EmptyBag, SetToBag

LEMMA AddToBagType ==
  ASSUME NEW B, NEW S, NEW e \in S, IsABag(B), DOMAIN B \subseteq S
  PROVE  /\ IsABag(B (+) SetToBag({e}))
         /\ DOMAIN (B (+) SetToBag({e})) \subseteq S
BY DEF IsABag, SetToBag, (+)

LEMMA RemoveFromBagType ==
  ASSUME NEW B, NEW S, NEW e, IsABag(B), DOMAIN B \subseteq S
  PROVE  /\ IsABag(B (-) SetToBag({e}))
         /\ DOMAIN (B (-) SetToBag({e})) \subseteq S
BY DEF IsABag, SetToBag, (-)

-----------------------------------------------------------------------------
(* The records requests are made of. *)

LEMMA NoRequestType == NoRequest \in Request
BY ScoringAssumption, LifecycleAssumption
   DEF NoRequest, Request, RequestRecord, NoDemand, DemandRow, Row

LEMMA LoadingType ==
  ASSUME TypeOK, NEW u \in Users, NEW d \in Demands
  PROVE  /\ \A op \in {"claim", "unlink", "delete"} : Loading(op, u, d) \in Request
         /\ \A m \in Members \cup {NONE} :
              [Loading("assign", u, d) EXCEPT !.member = m] \in Request
         /\ \A s \in Statuses : [Loading("progress", u, d) EXCEPT !.status = s] \in Request
         /\ \A s \in Statuses \cup {NONE}, m \in Members \cup {NONE, KEEP} :
              [Loading("patch", u, d) EXCEPT !.status = s, !.member = m] \in Request
<1>1. \A op \in {"claim", "assign", "unlink", "progress", "patch", "delete"} :
        /\ Loading(op, u, d) \in RequestRecord
        /\ Loading(op, u, d).op = op
        /\ Loading(op, u, d).demand = d
  BY NoRequestType DEF TypeOK, Loading, Request, RequestRecord
<1>2. ASSUME NEW m \in Members \cup {NONE}
      PROVE  [Loading("assign", u, d) EXCEPT !.member = m] \in Request
  <2>. DEFINE q == Loading("assign", u, d)
  <2>1. q \in RequestRecord
    BY <1>1
  <2>. HIDE DEF q
  <2>2. [q EXCEPT !.member = m] \in RequestRecord /\ [q EXCEPT !.member = m].member = m
        /\ [q EXCEPT !.member = m].op = q.op
    BY <2>1 DEF RequestRecord
  <2>. QED
    BY <1>1, <2>2 DEF Request, q
<1>3. ASSUME NEW s \in Statuses
      PROVE  [Loading("progress", u, d) EXCEPT !.status = s] \in Request
  <2>. DEFINE q == Loading("progress", u, d)
  <2>1. q \in RequestRecord
    BY <1>1
  <2>. HIDE DEF q
  <2>2. [q EXCEPT !.status = s] \in RequestRecord /\ [q EXCEPT !.status = s].status = s
        /\ [q EXCEPT !.status = s].op = q.op /\ [q EXCEPT !.status = s].demand = q.demand
    BY <2>1 DEF RequestRecord
  <2>. QED
    BY <1>1, <2>2 DEF Request, q
<1>4. ASSUME NEW s \in Statuses \cup {NONE}, NEW m \in Members \cup {NONE, KEEP}
      PROVE  [Loading("patch", u, d) EXCEPT !.status = s, !.member = m] \in Request
  <2>. DEFINE q == Loading("patch", u, d)
  <2>1. q \in RequestRecord /\ q.op = "patch"
    BY <1>1
  <2>. HIDE DEF q
  <2>2. [q EXCEPT !.status = s, !.member = m] \in RequestRecord
        /\ [q EXCEPT !.status = s, !.member = m].op = "patch"
    BY <2>1 DEF RequestRecord
  <2>. QED
    BY <2>2 DEF Request, q
<1> QED
  BY <1>1, <1>2, <1>3, <1>4 DEF Request

LEMMA SlotType ==
  ASSUME TypeOK, NEW r \in Requests
  PROVE  /\ Finish(r) => req' \in [Requests -> Request]
         /\ Checked(r) => req' \in [Requests -> Request]
         /\ Written(r) => req' \in [Requests -> Request]
         /\ \A q \in Request : Accept(r, q) =>
              req' \in [Requests -> Request] /\ issued' \in Nat
<1>1. req \in [Requests -> Request] /\ issued \in Nat
  BY DEF TypeOK
<1>2. \A step \in {"checked", "written"} : [req[r] EXCEPT !.step = step] \in Request
  BY <1>1 DEF Request, RequestRecord
<1>3. \A q \in Request : [req EXCEPT ![r] = q] \in [Requests -> Request]
  BY <1>1
<1>4. \A step : [req EXCEPT ![r].step = step] = [req EXCEPT ![r] = [req[r] EXCEPT !.step = step]]
  BY <1>1
<1> QED
  BY <1>1, <1>2, <1>3, <1>4, NoRequestType DEF Finish, Checked, Written, Accept

(* Two fields of the request in a slot, as the checks leave them. *)
LEMMA RequestFields ==
  ASSUME req \in [Requests -> Request], NEW r \in Requests
  PROVE  /\ req[r] \in RequestRecord
         /\ \A n \in Nat : [req EXCEPT ![r].step = "checked", ![r].token = n]
                             \in [Requests -> Request]
         /\ \A c \in Cabinets : [req EXCEPT ![r].step = "checked", ![r].cabinet = c]
                             \in [Requests -> Request]
         /\ req[r].op = "patch" =>
              [req EXCEPT ![r].step = "checked", ![r].status = NONE, ![r].member = KEEP]
                             \in [Requests -> Request]
<1>. DEFINE q == req[r]
<1>1. q \in RequestRecord /\ q \in Request
  BY DEF Request
<1>2. ASSUME NEW n \in Nat
      PROVE  [q EXCEPT !.step = "checked", !.token = n] \in Request
  <2>. DEFINE p == [q EXCEPT !.step = "checked", !.token = n]
  <2>1. /\ p \in RequestRecord
        /\ p.op = q.op /\ p.member = q.member /\ p.status = q.status /\ p.demand = q.demand
    BY <1>1 DEF RequestRecord
  <2>. QED
    BY <1>1, <2>1 DEF Request
<1>3. ASSUME NEW c \in Cabinets
      PROVE  [q EXCEPT !.step = "checked", !.cabinet = c] \in Request
  <2>. DEFINE p == [q EXCEPT !.step = "checked", !.cabinet = c]
  <2>1. /\ p \in RequestRecord
        /\ p.op = q.op /\ p.member = q.member /\ p.status = q.status /\ p.demand = q.demand
    BY <1>1 DEF RequestRecord
  <2>. QED
    BY <1>1, <2>1 DEF Request
<1>4. ASSUME q.op = "patch"
      PROVE  [q EXCEPT !.step = "checked", !.status = NONE, !.member = KEEP] \in Request
  <2>. DEFINE p == [q EXCEPT !.step = "checked", !.status = NONE, !.member = KEEP]
  <2>1. p \in RequestRecord /\ p.op = "patch"
    BY <1>1, <1>4 DEF RequestRecord
  <2>. QED
    BY <2>1 DEF Request
<1>5. \A p \in Request : [req EXCEPT ![r] = p] \in [Requests -> Request]
  OBVIOUS
<1> QED
  BY <1>1, <1>2, <1>3, <1>4, <1>5

(* Accepting a request and every other step that writes no table.          *)
LEMMA AcceptType ==
  ASSUME TypeOK, NEW r \in Requests, NEW q \in Request, Accept(r, q),
         UNCHANGED <<tables, events, minted>>
  PROVE  TypeOK'
BY SlotType DEF TypeOK, ScoringTypeOK, tables, events

LEMMA ArrivalType ==
  ASSUME TypeOK, NEW r \in Requests, Arrival(r)
  PROVE  TypeOK'
<1>1. ASSUME NEW u \in Users, NEW d \in Demands, DemandRequest(r, u, d)
      PROVE  TypeOK'
  <2>1. CASE ClaimRead(r, u, d)
    BY <2>1, LoadingType, AcceptType DEF ClaimRead
  <2>2. CASE \E m \in Members \cup {NONE} : AssignRead(r, u, d, m)
    BY <2>2, LoadingType, AcceptType DEF AssignRead
  <2>3. CASE UnlinkRead(r, u, d)
    BY <2>3, LoadingType, AcceptType DEF UnlinkRead
  <2>4. CASE \E s \in Statuses : ProgressRead(r, u, d, s)
    BY <2>4, LoadingType, AcceptType DEF ProgressRead
  <2>5. CASE \E s \in Statuses \cup {NONE}, m \in Members \cup {NONE, KEEP} :
               PatchRead(r, u, d, s, m)
    BY <2>5, LoadingType, AcceptType DEF PatchRead
  <2>6. CASE DeleteRead(r, u, d)
    BY <2>6, LoadingType, AcceptType DEF DeleteRead
  <2>. QED
    BY <1>1, <2>1, <2>2, <2>3, <2>4, <2>5, <2>6 DEF DemandRequest
<1>2. ASSUME NEW u \in Users, NEW d \in Demands \cup {NONE}, NEW c \in Cabinets,
             CreateResultCheck(r, u, c, d)
      PROVE  TypeOK'
  <2>1. [NoRequest EXCEPT !.op = "createResult", !.step = "checked", !.user = u,
                          !.cabinet = c, !.demand = d] \in Request
    BY ScoringAssumption, LifecycleAssumption
       DEF Request, RequestRecord, NoRequest, NoDemand, DemandRow, Row
  <2>. QED
    BY <1>2, <2>1, AcceptType DEF CreateResultCheck
<1>3. ASSUME NEW u \in Users, NEW x \in Results, NEW d \in Demands \cup {NONE},
             NEW op \in {"updateResult", "deleteResult"}, LoadResult(r, op, u, x, d)
      PROVE  TypeOK'
  <2>1. [NoRequest EXCEPT !.op = op, !.step = "checked", !.user = u,
                          !.result = x, !.demand = d] \in Request
    BY ScoringAssumption, LifecycleAssumption
       DEF Request, RequestRecord, NoRequest, NoDemand, DemandRow, Row
  <2>. QED
    BY <1>3, <2>1, AcceptType DEF LoadResult
<1>4. ASSUME NEW d \in Demands, NEW n \in Ratings, SurveyRead(r, d, n)
      PROVE  TypeOK'
  <2>1. [NoRequest EXCEPT !.op = "survey", !.step = "read", !.demand = d, !.rating = n]
          \in Request
    BY ScoringAssumption, LifecycleAssumption
       DEF Request, RequestRecord, NoRequest, NoDemand, DemandRow, Row
  <2>. QED
    BY <1>4, <2>1, AcceptType DEF SurveyRead
<1>5. ASSUME NEW u \in Users, NEW x \in Results, DeleteResultRead(r, u, x)
      PROVE  TypeOK'
  <2>1. result[x].demand \in Demands \cup {NONE}
    BY DEF TypeOK, ResultRow
  <2>. QED
    BY <1>3, <1>5, <2>1 DEF DeleteResultRead
<1> QED
  BY <1>1, <1>2, <1>3, <1>4, <1>5 DEF Arrival, ResultRequest, UpdateResultRead

(* Writing the columns of one demand, whether or not its id is known.      *)
LEMMA DemandFields ==
  ASSUME demand \in [Demands -> DemandRow], NEW d
  PROVE  /\ \A c \in Cabinets \cup {NONE} :
              [demand EXCEPT ![d].cabinet = c] \in [Demands -> DemandRow]
         /\ \A m \in Members \cup {NONE} :
              [demand EXCEPT ![d].assignee = m] \in [Demands -> DemandRow]
         /\ \A s \in Statuses :
              [demand EXCEPT ![d].status = s] \in [Demands -> DemandRow]
         /\ \A n \in Nat :
              [demand EXCEPT ![d].rating = n] \in [Demands -> DemandRow]
         /\ [demand EXCEPT ![d].row = "disabled"] \in [Demands -> DemandRow]
         /\ [demand EXCEPT ![d].cabinet = NONE, ![d].assignee = NONE]
              \in [Demands -> DemandRow]
         /\ \A s \in Statuses, n \in Nat :
              [demand EXCEPT ![d].status = s, ![d].token = IF n = 0 THEN @ ELSE n]
                \in [Demands -> DemandRow]
         /\ \A s \in Statuses \cup {NONE}, m \in Members \cup {NONE, KEEP} :
              [demand EXCEPT ![d].status = IF s = NONE THEN @ ELSE s,
                             ![d].assignee = IF m = KEEP THEN @ ELSE m]
                \in [Demands -> DemandRow]
<1>1. CASE d \in Demands
  <2>1. \A p \in DemandRow : [demand EXCEPT ![d] = p] \in [Demands -> DemandRow]
    OBVIOUS
  <2>2. demand[d] \in DemandRow
    BY <1>1
  <2>. QED
    BY <1>1, <2>1, <2>2 DEF DemandRow, Row
<1>2. CASE d \notin Demands
  BY <1>2
<1> QED
  BY <1>1, <1>2

LEMMA EmitType ==
  ASSUME ScoringTypeOK, NEW c \in Cabinets \cup {NONE}, NEW s \in Statuses, NEW n \in Statuses,
         EmitStatusChanged(c, s, n)
  PROVE  IsABag(scoreTasks') /\ DOMAIN scoreTasks' \subseteq ScoreTask
<1>1. CASE c = NONE
  BY <1>1 DEF EmitStatusChanged, ScoringTypeOK
<1>2. CASE c # NONE
  <2>1. [cabinet |-> c, previous |-> s, new |-> n] \in ScoreTask
    BY <1>2 DEF ScoreTask
  <2>. QED
    BY <1>2, <2>1, AddToBagType DEF EmitStatusChanged, ScoringTypeOK
<1> QED
  BY <1>1, <1>2

(* A request that was accepted and goes on. *)
LEMMA ContinuationType ==
  ASSUME TypeOK, NEW r \in Requests, Continuation(r)
  PROVE  TypeOK'
<1>. USE DEF TypeOK, tables, events
<1>0. /\ req \in [Requests -> Request]
      /\ req[r] \in Request /\ req[r] \in RequestRecord
      /\ demand \in [Demands -> DemandRow]
      /\ result \in [Results -> ResultRow]
      /\ minted \in Nat
  BY RequestFields
<1>q. /\ req[r].cabinet \in Cabinets \cup {NONE}
      /\ req[r].status \in Statuses \cup {NONE}
      /\ req[r].member \in Members \cup {NONE, KEEP}
      /\ req[r].demand \in Demands \cup {NONE}
      /\ req[r].token \in Nat /\ req[r].rating \in Nat
      /\ req[r].seen \in DemandRow
      /\ req[r].seen.cabinet \in Cabinets \cup {NONE}
      /\ req[r].seen.status \in Statuses
      /\ req[r].seen.token \in Nat
  BY <1>0 DEF RequestRecord, DemandRow
<1>s. UNCHANGED <<counters, scoreTasks>> => ScoringTypeOK'
  BY DEF ScoringTypeOK
<1>1. CASE ClaimCheck(r)
  <2>1. PICK m \in Members : req' = [req EXCEPT ![r].step = "checked", ![r].cabinet = CabinetOf[m]]
    BY <1>1 DEF ClaimCheck
  <2>2. req' \in [Requests -> Request]
    BY <2>1, <1>0, RequestFields, ScoringAssumption, LifecycleAssumption
  <2>. QED
    BY <1>1, <2>2, <1>s DEF ClaimCheck
<1>2. CASE ClaimWrite(r)
  BY <1>2, <1>q, <1>s, DemandFields, SlotType DEF ClaimWrite
<1>3. CASE AssignCheck(r) \/ UnlinkCheck(r)
  BY <1>3, <1>s, SlotType DEF AssignCheck, UnlinkCheck
<1>4. CASE AssignWrite(r)
  <2>1. req[r].member \in Members \cup {NONE}
    BY <1>4, <1>0 DEF AssignWrite, AtStep, Request
  <2>. QED
    BY <1>4, <2>1, <1>s, DemandFields, SlotType DEF AssignWrite
<1>5. CASE UnlinkWrite(r)
  BY <1>5, <1>s, DemandFields, SlotType DEF UnlinkWrite
<1>6. CASE ProgressCheck(r)
  <2>1. CASE Checked(r) /\ UNCHANGED minted
    BY <1>6, <2>1, <1>s, SlotType DEF ProgressCheck
  <2>2. CASE /\ minted' = minted + 1
             /\ req' = [req EXCEPT ![r].step = "checked", ![r].token = minted + 1]
    <3>1. minted + 1 \in Nat
      BY <1>0
    <3>2. req' \in [Requests -> Request]
      BY <2>2, <3>1, <1>0, RequestFields
    <3>. QED
      BY <1>6, <2>2, <3>1, <3>2, <1>s DEF ProgressCheck
  <2>. QED
    BY <1>6, <2>1, <2>2 DEF ProgressCheck
<1>7. CASE ProgressWrite(r)
  <2>1. req[r].status \in Statuses
    BY <1>7, <1>0 DEF ProgressWrite, AtStep, Request
  <2>2. demand' \in [Demands -> DemandRow]
    BY <1>7, <2>1, <1>q, DemandFields DEF ProgressWrite
  <2>. QED
    BY <1>7, <2>2, <1>s, SlotType DEF ProgressWrite
<1>8. CASE ProgressPublish(r)
  <2>1. req[r].status \in Statuses /\ req[r].demand \in Demands
    BY <1>8, <1>0 DEF ProgressPublish, AtStep, Request
  <2>2. mailed' \subseteq Demands \X Nat
    BY <1>8, <2>1, <1>q DEF ProgressPublish, SendSurveyLink
  <2>3. ScoringTypeOK'
    BY <1>8, <2>1, <1>q, EmitType DEF ProgressPublish, ScoringTypeOK
  <2>. QED
    BY <1>8, <2>2, <2>3, SlotType DEF ProgressPublish
<1>9. CASE PatchCheck(r)
  <2>1. CASE Checked(r)
    BY <1>9, <2>1, <1>s, SlotType DEF PatchCheck
  <2>2. CASE req' = [req EXCEPT ![r].step = "checked", ![r].status = NONE, ![r].member = KEEP]
    <3>1. req' \in [Requests -> Request]
      BY <1>9, <2>2, <1>0, RequestFields DEF PatchCheck, AtStep
    <3>. QED
      BY <1>9, <2>2, <3>1, <1>s DEF PatchCheck
  <2>. QED
    BY <1>9, <2>1, <2>2 DEF PatchCheck
<1>10. CASE PatchWrite(r)
  <2>1. demand' = [demand EXCEPT
                     ![req[r].demand].status =
                       IF req[r].status = NONE THEN @ ELSE req[r].status,
                     ![req[r].demand].assignee =
                       IF req[r].member = KEEP THEN @ ELSE req[r].member]
    BY <1>10 DEF PatchWrite
  <2>2. demand' \in [Demands -> DemandRow]
    <3>. DEFINE s == req[r].status
                m == req[r].member
                d == req[r].demand
    <3>1. demand' = [demand EXCEPT ![d].status = IF s = NONE THEN @ ELSE s,
                                   ![d].assignee = IF m = KEEP THEN @ ELSE m]
      BY <2>1
    <3>2. s \in Statuses \cup {NONE} /\ m \in Members \cup {NONE, KEEP}
      BY <1>q
    <3>. HIDE DEF s, m, d
    <3>3. [demand EXCEPT ![d].status = IF s = NONE THEN @ ELSE s,
                         ![d].assignee = IF m = KEEP THEN @ ELSE m]
            \in [Demands -> DemandRow]
      BY <3>2, <1>0, DemandFields
    <3>. QED
      BY <3>1, <3>3
  <2>. QED
    BY <1>10, <2>2, <1>s, SlotType DEF PatchWrite
<1>11. CASE PatchPublish(r)
  <2>3. ScoringTypeOK'
    BY <1>11, <1>q, EmitType DEF PatchPublish, ScoringTypeOK
  <2>. QED
    BY <1>11, <2>3, SlotType DEF PatchPublish
<1>12. CASE DeleteWrite(r)
  BY <1>12, <1>s, DemandFields, SlotType DEF DeleteWrite
<1>13. CASE CreateResultWrite(r)
  <2>1. result' \in [Results -> ResultRow]
    BY <1>13, <1>0, <1>q DEF CreateResultWrite, ResultRow, Row
  <2>. QED
    BY <1>13, <2>1, <1>s, SlotType DEF CreateResultWrite
<1>14. CASE UpdateResultWrite(r)
  <2>1. result' \in [Results -> ResultRow]
    BY <1>14, <1>0, <1>q DEF UpdateResultWrite, ResultRow
  <2>. QED
    BY <1>14, <2>1, <1>s, SlotType DEF UpdateResultWrite
<1>15. CASE DeleteResultWrite(r)
  <2>1. result' \in [Results -> ResultRow]
    BY <1>15, <1>0 DEF DeleteResultWrite, ResultRow, Row
  <2>. QED
    BY <1>15, <2>1, <1>s, SlotType DEF DeleteResultWrite
<1>16. CASE DeleteResultPublish(r)
  <2>1. IsABag(reopenTasks') /\ DOMAIN reopenTasks' \subseteq ReopenTask
    <3>1. CASE req[r].demand = NONE
      BY <1>16, <3>1 DEF DeleteResultPublish
    <3>2. CASE req[r].demand # NONE
      <4>1. [demand |-> req[r].demand, step |-> "queued"] \in ReopenTask
        BY <3>2, <1>q DEF ReopenTask
      <4>. QED
        BY <1>16, <3>2, <4>1, AddToBagType DEF DeleteResultPublish
    <3>. QED
      BY <3>1, <3>2
  <2>. QED
    BY <1>16, <2>1, <1>s, SlotType DEF DeleteResultPublish
<1>17. CASE SurveyWrite(r)
  BY <1>17, <1>q, <1>s, DemandFields, SlotType DEF SurveyWrite
<1> QED
  BY <1>1, <1>2, <1>3, <1>4, <1>5, <1>6, <1>7, <1>8, <1>9, <1>10, <1>11, <1>12,
     <1>13, <1>14, <1>15, <1>16, <1>17 DEF Continuation

(* The listeners of result.deleted. *)
LEMMA ReopenType ==
  ASSUME TypeOK, NEW d \in Demands, ReopenStep(d)
  PROVE  TypeOK'
<1>. USE DEF TypeOK, tables
<1>1. \A t, step : step \in {"resolved", "empty"} /\ t.demand = d =>
        /\ EndTask(t) =>
             IsABag(reopenTasks') /\ DOMAIN reopenTasks' \subseteq ReopenTask
        /\ Advance(t, step) =>
             IsABag(reopenTasks') /\ DOMAIN reopenTasks' \subseteq ReopenTask
  <2>1. SUFFICES ASSUME NEW t, NEW step \in {"resolved", "empty"}, t.demand = d
                 PROVE  /\ EndTask(t) =>
                             IsABag(reopenTasks') /\ DOMAIN reopenTasks' \subseteq ReopenTask
                        /\ Advance(t, step) =>
                             IsABag(reopenTasks') /\ DOMAIN reopenTasks' \subseteq ReopenTask
    OBVIOUS
  <2>2. DEFINE rest == reopenTasks (-) SetToBag({t})
  <2>3. IsABag(rest) /\ DOMAIN rest \subseteq ReopenTask
    BY RemoveFromBagType
  <2>4. Task(t.demand, step) \in ReopenTask
    BY <2>1 DEF Task, ReopenTask
  <2>5. /\ IsABag(rest (+) SetToBag({Task(t.demand, step)}))
        /\ DOMAIN (rest (+) SetToBag({Task(t.demand, step)})) \subseteq ReopenTask
    BY <2>3, <2>4, AddToBagType
  <2>. QED
    BY <2>3, <2>5 DEF EndTask, Advance
<1>2. \A step : Task(d, step).demand = d
  BY DEF Task
<1>3. UNCHANGED <<counters, scoreTasks>> => ScoringTypeOK'
  BY DEF ScoringTypeOK
<1>4. CASE ReopenRead(d)
  BY <1>1, <1>2, <1>3, <1>4 DEF ReopenRead
<1>5. CASE ReopenCount(d)
  BY <1>1, <1>2, <1>3, <1>5 DEF ReopenCount
<1>6. CASE ReopenWrite(d)
  BY <1>1, <1>2, <1>3, <1>6, DemandFields, ScoringAssumption DEF ReopenWrite
<1> QED
  BY <1>4, <1>5, <1>6 DEF ReopenStep

LEMMA ScoreType ==
  ASSUME ScoringTypeOK, NEW t, HandleStatusChanged(t)
  PROVE  ScoringTypeOK'
<1>1. ScoreDelta(t.previous, t.new) \in Int
      /\ InProgressDelta(t.previous, t.new) \in Int
      /\ ResolvedDelta(t.previous, t.new) \in Int
  BY DEF ScoreDelta, InProgressDelta, ResolvedDelta, Unit, SCORE_PER_RESOLVED,
         SCORE_PER_IN_PROGRESS
<1>2. counters' \in [Cabinets -> Counters]
  <2>1. t.cabinet \in Cabinets
    BY DEF HandleStatusChanged, ScoringTypeOK, BagIn, BagToSet, ScoreTask
  <2>2. counters \in [Cabinets -> Counters] /\ counters[t.cabinet] \in Counters
    BY <2>1 DEF ScoringTypeOK
  <2>3. [score      |-> counters[t.cabinet].score + ScoreDelta(t.previous, t.new),
         inProgress |-> counters[t.cabinet].inProgress + InProgressDelta(t.previous, t.new),
         resolved   |-> counters[t.cabinet].resolved + ResolvedDelta(t.previous, t.new)]
          \in Counters
    BY <1>1, <2>2 DEF Counters
  <2>. QED
    BY <2>1, <2>2, <2>3 DEF HandleStatusChanged
<1>3. IsABag(scoreTasks') /\ DOMAIN scoreTasks' \subseteq ScoreTask
  BY RemoveFromBagType DEF HandleStatusChanged, ScoringTypeOK
<1> QED
  BY <1>2, <1>3 DEF ScoringTypeOK

LEMMA InitType == Init => TypeOK
<1> SUFFICES ASSUME Init PROVE TypeOK
  OBVIOUS
<1>1. StartRow \subseteq DemandRow
  BY ScoringAssumption, LifecycleAssumption DEF StartRow, NoDemand, DemandRow, Row
<1>2. StartResult \subseteq ResultRow
  BY DEF StartResult, NoResult, ResultRow, Row
<1>3. ScoringTypeOK
  BY EmptyBagType DEF Init, ScoringInit, ScoringTypeOK, Counters
<1>4. req \in [Requests -> Request]
  BY NoRequestType DEF Init
<1> QED
  BY <1>1, <1>2, <1>3, <1>4, EmptyBagType DEF Init, TypeOK

LEMMA NextType == TypeOK /\ [Next]_vars => TypeOK'
<1> SUFFICES ASSUME TypeOK, [Next]_vars PROVE TypeOK'
  OBVIOUS
<1>1. CASE UNCHANGED vars
  BY <1>1 DEF vars, TypeOK, ScoringTypeOK
<1>2. ASSUME NEW d \in Demands, NEW c \in Cabinets \cup {NONE}, CreateDemand(d, c)
      PROVE  TypeOK'
  <2>1. [NoDemand EXCEPT !.row = "enabled", !.cabinet = c] \in DemandRow
    BY ScoringAssumption, LifecycleAssumption DEF NoDemand, DemandRow, Row
  <2>. QED
    BY <1>2, <2>1 DEF CreateDemand, TypeOK, ScoringTypeOK, events
<1>3. ASSUME NEW r \in Requests, Arrival(r) \/ Continuation(r) \/ Fail(r)
      PROVE  TypeOK'
  <2>1. CASE Fail(r)
    BY <2>1, SlotType DEF Fail, TypeOK, ScoringTypeOK, tables, events
  <2>. QED
    BY <1>3, <2>1, ArrivalType, ContinuationType
<1>4. ASSUME NEW d \in Demands, ReopenStep(d)
      PROVE  TypeOK'
  BY <1>4, ReopenType
<1>5. ASSUME NEW t, ScoreStep(t)
      PROVE  TypeOK'
  BY <1>5, ScoreType DEF ScoreStep, TypeOK, tables
<1>6. ASSUME NEW m \in Members, JoinMember(m) \/ RemoveMember(m)
      PROVE  TypeOK'
  <2>1. CASE JoinMember(m)
    BY <2>1 DEF JoinMember, TypeOK, ScoringTypeOK, events
  <2>2. CASE RemoveMember(m)
    <3>1. demand' \in [Demands -> DemandRow]
      BY <2>2 DEF RemoveMember, TypeOK, DemandRow
    <3>. QED
      BY <2>2, <3>1 DEF RemoveMember, TypeOK, ScoringTypeOK, events
  <2>. QED
    BY <1>6, <2>1, <2>2
<1>7. CASE Crash
  <2>1. req' \in [Requests -> Request]
    BY <1>7, NoRequestType DEF Crash
  <2>. QED
    BY <1>7, <2>1, EmptyBagType DEF Crash, TypeOK, ScoringTypeOK, tables
<1> QED
  BY <1>1, <1>2, <1>3, <1>4, <1>5, <1>6, <1>7 DEF Next

(* Every variable keeps its type in every interleaving: what the handlers   *)
(* write by id is a row of the table, an event names an existing cabinet.   *)
THEOREM TypeCorrect == Spec => []TypeOK
BY InitType, NextType, PTL DEF Spec

-----------------------------------------------------------------------------
(* A request that arrives writes nothing. *)
LEMMA ArrivalFrame ==
  ASSUME NEW r \in Requests, Arrival(r)
  PROVE  UNCHANGED <<tables, events, minted>>
BY DEF Arrival, DemandRequest, ResultRequest, ClaimRead, AssignRead, UnlinkRead, ProgressRead,
       PatchRead, DeleteRead, CreateResultCheck, UpdateResultRead, DeleteResultRead, LoadResult,
       SurveyRead

(* The steps that write the table demands, and the rest. *)
LEMMA DemandWriters ==
  ASSUME [Next]_vars
  PROVE  \/ UNCHANGED <<demand, memberRow>>
         \/ \E d \in Demands, c \in Cabinets \cup {NONE} : CreateDemand(d, c)
         \/ \E r \in Requests : \/ ClaimWrite(r) \/ AssignWrite(r) \/ UnlinkWrite(r)
                               \/ ProgressWrite(r) \/ PatchWrite(r) \/ DeleteWrite(r)
                               \/ SurveyWrite(r)
         \/ \E d \in Demands : ReopenWrite(d)
         \/ \E m \in Members : JoinMember(m) \/ RemoveMember(m)
<1>1. CASE UNCHANGED vars
  BY <1>1 DEF vars
<1>2. ASSUME NEW r \in Requests, Arrival(r)
      PROVE  UNCHANGED <<demand, memberRow>>
  BY <1>2, ArrivalFrame DEF tables
<1>3. ASSUME NEW r \in Requests, Continuation(r)
      PROVE  \/ UNCHANGED <<demand, memberRow>>
             \/ ClaimWrite(r) \/ AssignWrite(r) \/ UnlinkWrite(r) \/ ProgressWrite(r)
             \/ PatchWrite(r) \/ DeleteWrite(r) \/ SurveyWrite(r)
  BY <1>3 DEF Continuation, ClaimCheck, AssignCheck, UnlinkCheck, ProgressCheck,
              ProgressPublish, PatchCheck, PatchPublish, CreateResultWrite, UpdateResultWrite,
              DeleteResultWrite, DeleteResultPublish, tables
<1>4. ASSUME NEW r \in Requests, Fail(r)
      PROVE  UNCHANGED <<demand, memberRow>>
  BY <1>4 DEF Fail, tables
<1>5. ASSUME NEW d \in Demands, ReopenRead(d) \/ ReopenCount(d)
      PROVE  UNCHANGED <<demand, memberRow>>
  BY <1>5 DEF ReopenRead, ReopenCount, tables
<1>6. ASSUME NEW t, ScoreStep(t)
      PROVE  UNCHANGED <<demand, memberRow>>
  BY <1>6 DEF ScoreStep, tables
<1>7. CASE Crash
  BY <1>7 DEF Crash, tables
<1> QED
  BY <1>1, <1>2, <1>3, <1>4, <1>5, <1>6, <1>7 DEF Next, ReopenStep

LEMMA AssigneeStep == TypeOK /\ AssigneeExists /\ [Next]_vars => AssigneeExists'
<1> SUFFICES ASSUME TypeOK, AssigneeExists, [Next]_vars, NEW d \in Demands,
                    demand'[d].assignee # NONE
             PROVE  memberRow'[demand'[d].assignee] = "active"
  BY DEF AssigneeExists, Active
<1>. USE DEF AssigneeExists, Active
<1>0. demand \in [Demands -> DemandRow] /\ demand[d] \in DemandRow
      /\ demand[d].assignee \in Members \cup {NONE}
      /\ memberRow \in [Members -> {"unused", "active", "removed"}]
  BY DEF TypeOK, DemandRow
<1>1. CASE UNCHANGED <<demand, memberRow>>
  BY <1>1
<1>2. ASSUME NEW e \in Demands, NEW c \in Cabinets \cup {NONE}, CreateDemand(e, c)
      PROVE  memberRow'[demand'[d].assignee] = "active"
  BY <1>0, <1>2 DEF CreateDemand, NoDemand
<1>3. ASSUME NEW r \in Requests, ClaimWrite(r) \/ ProgressWrite(r) \/ DeleteWrite(r)
                                   \/ SurveyWrite(r)
      PROVE  memberRow'[demand'[d].assignee] = "active"
  <2>1. demand'[d].assignee = demand[d].assignee
    BY <1>0, <1>3 DEF ClaimWrite, ProgressWrite, DeleteWrite, SurveyWrite, DemandRow
  <2>2. UNCHANGED memberRow
    BY <1>3 DEF ClaimWrite, ProgressWrite, DeleteWrite, SurveyWrite
  <2>. QED
    BY <2>1, <2>2
<1>4. ASSUME NEW r \in Requests, AssignWrite(r) \/ UnlinkWrite(r) \/ PatchWrite(r)
      PROVE  memberRow'[demand'[d].assignee] = "active"
  <2>1. demand'[d].assignee \in {demand[d].assignee, NONE}
        \/ (demand'[d].assignee = req[r].member /\ References(req[r].member)
            /\ req[r].member \in Members)
    <3>1. req[r].member \in Members \cup {NONE, KEEP}
          /\ (req[r].op = "assign" => req[r].member \in Members \cup {NONE})
      BY DEF TypeOK, Request, RequestRecord
    <3>. QED
      BY <1>0, <1>4, <3>1 DEF AssignWrite, UnlinkWrite, PatchWrite, AtStep, DemandRow
  <2>2. UNCHANGED memberRow
    BY <1>4 DEF AssignWrite, UnlinkWrite, PatchWrite
  <2>. QED
    BY <2>1, <2>2 DEF References
<1>5. ASSUME NEW e \in Demands, ReopenWrite(e)
      PROVE  memberRow'[demand'[d].assignee] = "active"
  BY <1>0, <1>5 DEF ReopenWrite, DemandRow
<1>6. ASSUME NEW m \in Members, JoinMember(m)
      PROVE  memberRow'[demand'[d].assignee] = "active"
  BY <1>0, <1>6 DEF JoinMember
<1>7. ASSUME NEW m \in Members, RemoveMember(m)
      PROVE  memberRow'[demand'[d].assignee] = "active"
  BY <1>0, <1>7 DEF RemoveMember, DemandRow
<1> QED
  BY <1>1, <1>2, <1>3, <1>4, <1>5, <1>6, <1>7, DemandWriters

(* A member who leaves between the check of an assignment and its write is  *)
(* never left as the assignee of a demand, for any number of overlapping    *)
(* assign and patch requests.                                               *)
THEOREM AssigneesExist == Spec => []AssigneeExists
<1>1. Init => AssigneeExists
  BY DEF Init, AssigneeExists
<1>. QED
  BY <1>1, AssigneeStep, TypeCorrect, PTL DEF Spec

(* A deleted demand is not brought back by any handler or listener that     *)
(* loaded it while it was enabled.                                          *)
THEOREM DeletionsAreFinal == Spec => DeletionIsFinal
<1>1. ASSUME TypeOK, [Next]_vars, NEW d \in Demands, demand[d].row = "disabled"
      PROVE  demand'[d].row = "disabled"
  <2>0. demand \in [Demands -> DemandRow] /\ demand[d] \in DemandRow
    BY <1>1 DEF TypeOK
  <2>1. ASSUME NEW r \in Requests, \/ ClaimWrite(r) \/ AssignWrite(r) \/ UnlinkWrite(r)
                                    \/ ProgressWrite(r) \/ PatchWrite(r) \/ DeleteWrite(r)
                                    \/ SurveyWrite(r)
        PROVE  demand'[d].row = "disabled"
    BY <1>1, <2>0, <2>1 DEF ClaimWrite, AssignWrite, UnlinkWrite, ProgressWrite, PatchWrite,
                            DeleteWrite, SurveyWrite, DemandRow
  <2>2. ASSUME NEW e \in Demands, NEW c \in Cabinets \cup {NONE}, CreateDemand(e, c)
        PROVE  demand'[d].row = "disabled"
    BY <1>1, <2>0, <2>2 DEF CreateDemand
  <2>3. ASSUME NEW e \in Demands, ReopenWrite(e)
        PROVE  demand'[d].row = "disabled"
    BY <1>1, <2>0, <2>3 DEF ReopenWrite, DemandRow
  <2>4. ASSUME NEW m \in Members, JoinMember(m) \/ RemoveMember(m)
        PROVE  demand'[d].row = "disabled"
    BY <1>1, <2>0, <2>4 DEF JoinMember, RemoveMember, DemandRow
  <2>. QED
    BY <1>1, <2>1, <2>2, <2>3, <2>4, DemandWriters
<1>2. TypeOK /\ [Next]_vars
        => [\A d \in Demands : demand[d].row = "disabled" => demand'[d].row = "disabled"]_vars
  BY <1>1
<1>. QED
  BY <1>2, TypeCorrect, PTL DEF Spec, DeletionIsFinal

-----------------------------------------------------------------------------
(* The score.  An update that takes a demand from in progress straight to  *)
(* resolved adds two points to the excess; every other update keeps it.    *)

LEMMA EvenPlusTwo ==
  ASSUME NEW n \in Int, n >= 0, n % 2 = 0
  PROVE  n + 2 >= 0 /\ (n + 2) % 2 = 0
OBVIOUS

LEMMA DeltaWorth ==
  ASSUME NEW previous, NEW new
  PROVE  /\ InProgressDelta(previous, new) \in Int
         /\ ResolvedDelta(previous, new) \in Int
         /\ ScoreDelta(previous, new) \in Int
         /\ ScoreDelta(previous, new) - SCORE_PER_RESOLVED * ResolvedDelta(previous, new)
              - SCORE_PER_IN_PROGRESS * InProgressDelta(previous, new) \in {0, 2}
BY DEF InProgressDelta, ResolvedDelta, ScoreDelta, Unit, SCORE_PER_RESOLVED,
       SCORE_PER_IN_PROGRESS

LEMMA ScoreStepKeeps ==
  ASSUME ScoringTypeOK, ScoreCoversCounts, NEW t, HandleStatusChanged(t)
  PROVE  ScoreCoversCounts'
<1> SUFFICES ASSUME NEW c \in Cabinets
             PROVE  Excess(c)' >= 0 /\ Excess(c)' % 2 = 0
  BY DEF ScoreCoversCounts
<1>1. counters \in [Cabinets -> Counters] /\ counters[c] \in Counters
  BY DEF ScoringTypeOK
<1>2. Excess(c) \in Int /\ Excess(c) >= 0 /\ Excess(c) % 2 = 0
  BY <1>1 DEF ScoreCoversCounts, Excess, Counters, SCORE_PER_RESOLVED, SCORE_PER_IN_PROGRESS
<1>3. CASE t.cabinet # c
  <2>1. counters'[c] = counters[c]
    BY <1>1, <1>3 DEF HandleStatusChanged
  <2>. QED
    BY <1>2, <2>1 DEF Excess
<1>4. CASE t.cabinet = c
  <2>. DEFINE p == t.previous
              n == t.new
  <2>1. counters'[c] = [score      |-> counters[c].score + ScoreDelta(p, n),
                        inProgress |-> counters[c].inProgress + InProgressDelta(p, n),
                        resolved   |-> counters[c].resolved + ResolvedDelta(p, n)]
    BY <1>1, <1>4 DEF HandleStatusChanged
  <2>2. Excess(c)' \in {Excess(c), Excess(c) + 2}
    BY <1>1, <2>1, DeltaWorth DEF Excess, Counters, SCORE_PER_RESOLVED, SCORE_PER_IN_PROGRESS
  <2>. QED
    BY <1>2, <2>2, EvenPlusTwo
<1> QED
  BY <1>3, <1>4

(* However the updates of the scoring listener are reordered, duplicated by *)
(* overlapping requests that saw the same status, or lost in a crash, a     *)
(* cabinet's score is its two counts at their price, plus a multiple of two.*)
THEOREM ScoreCovered == Spec => []ScoreCoversCounts
<1>1. Init => ScoreCoversCounts
  BY DEF Init, ScoringInit, ScoreCoversCounts, Excess, SCORE_PER_RESOLVED, SCORE_PER_IN_PROGRESS
<1>2. TypeOK /\ ScoreCoversCounts /\ [Next]_vars => ScoreCoversCounts'
  <2>1. ASSUME NEW t, ScoreStep(t), TypeOK, ScoreCoversCounts
        PROVE  ScoreCoversCounts'
    BY <2>1, ScoreStepKeeps DEF ScoreStep, TypeOK
  <2>2. [Next]_vars => UNCHANGED counters \/ \E t \in BagToSet(scoreTasks) : ScoreStep(t)
    <3>1. \A r \in Requests : Arrival(r) => UNCHANGED counters
      BY ArrivalFrame DEF events
    <3>2. \A r \in Requests : Continuation(r) \/ Fail(r) => UNCHANGED counters
      BY DEF Continuation, Fail, ClaimCheck, ClaimWrite, AssignCheck, AssignWrite, UnlinkCheck,
             UnlinkWrite, ProgressCheck, ProgressWrite, ProgressPublish, PatchCheck, PatchWrite,
             PatchPublish, DeleteWrite, CreateResultWrite, UpdateResultWrite, DeleteResultWrite,
             DeleteResultPublish, SurveyWrite, events
    <3>3. \A d \in Demands : ReopenStep(d) => UNCHANGED counters
      BY DEF ReopenStep, ReopenRead, ReopenCount, ReopenWrite
    <3>4. \A d \in Demands, c \in Cabinets \cup {NONE} : CreateDemand(d, c) => UNCHANGED counters
      BY DEF CreateDemand, events
    <3>5. \A m \in Members : JoinMember(m) \/ RemoveMember(m) => UNCHANGED counters
      BY DEF JoinMember, RemoveMember, events
    <3>6. Crash \/ UNCHANGED vars => UNCHANGED counters
      BY DEF Crash, vars
    <3>. QED
      BY <3>1, <3>2, <3>3, <3>4, <3>5, <3>6 DEF Next
  <2>3. UNCHANGED counters /\ ScoreCoversCounts => ScoreCoversCounts'
    BY DEF ScoreCoversCounts, Excess
  <2>. QED
    BY <2>1, <2>2, <2>3
<1>. QED
  BY <1>1, <1>2, TypeCorrect, PTL DEF Spec

-----------------------------------------------------------------------------
(* Rows.  A request that loaded a demand, and a listener that went past its *)
(* first look, hold the id of a row that exists, and no row disappears; an  *)
(* id without a row has no columns.                                         *)

OnDemand == {"claim", "assign", "unlink", "progress", "patch", "delete", "survey"}

Exists(d) == d \in Demands /\ demand[d].row # "absent"

BlankRows == \A d \in Demands : demand[d].row = "absent" => demand[d] = NoDemand

LoadedExist == \A r \in Requests : req[r].op \in OnDemand => Exists(req[r].demand)

TasksExist ==
  \A t \in DOMAIN reopenTasks : t.step # "queued" => Exists(t.demand)

RowInv == TypeOK /\ BlankRows /\ LoadedExist /\ TasksExist

(* Who carries token n for demand d: its row, a link in a mail, a request   *)
(* that minted it or saw it in the row.  A token is carried for one demand, *)
(* and the next one to be minted by none; a survey is answered by token.    *)
Carries(d, n) ==
  \/ demand[d].token = n
  \/ <<d, n>> \in mailed
  \/ \E r \in Requests : req[r].demand = d /\ n \in {req[r].token, req[r].seen.token}

TokensAreOwn ==
  \A d, e \in Demands, n \in Nat \ {0} :
    Carries(d, n) => n <= minted /\ (Carries(e, n) => d = e)

LinksAreReal == \A link \in mailed : link[2] # 0

LinkIsReal(q) ==
  q.op = "progress" /\ q.step \in {"checked", "written"} /\ q.status = "RESOLVED"
    => q.token # 0 \/ q.seen.token # 0

AnswersHaveLinks ==
  /\ \A d \in Demands : demand[d].rating # 0 => demand[d].token # 0
  /\ \A r \in Requests : req[r].op = "survey" => demand[req[r].demand].token # 0

LinkInv ==
  /\ RowInv
  /\ TokensAreOwn /\ LinksAreReal /\ AnswersHaveLinks
  /\ \A r \in Requests : LinkIsReal(req[r])

(* One slot.  What the request loaded still stands when it writes: nothing  *)
(* else touches owner, token and deletion of a demand meanwhile.            *)
OneSlot == \A r, s \in Requests : r = s

StillLoaded(q) ==
  q.op \in OnDemand \ {"survey"} /\ q.step \in {"read", "checked"} =>
    /\ demand[q.demand].row = "enabled"
    /\ demand[q.demand].cabinet = q.seen.cabinet
    /\ demand[q.demand].token = q.seen.token

Entitled(q) ==
  /\ q.op = "claim" => q.seen.cabinet = NONE /\ (q.step = "checked" => q.cabinet \in Cabinets)
  /\ q.op \in {"assign", "unlink", "progress"} => q.seen.cabinet # NONE
  /\ q.op = "patch" /\ q.step = "checked" /\ q.member \notin {NONE, KEEP} =>
       q.seen.cabinet # NONE
  /\ q.op = "survey" => demand[q.demand].rating = 0 /\ q.rating \in Ratings

Minting(q) ==
  q.op = "progress" =>
    /\ q.step = "read" => q.token = 0
    /\ q.token # 0 => q.seen.token = 0 /\ q.status = "RESOLVED"
    /\ q.step = "written" =>
         demand[q.demand].token = IF q.token = 0 THEN q.seen.token ELSE q.token

AssigneesAreOwned ==
  \A d \in Demands : demand[d].assignee # NONE => demand[d].cabinet # NONE

SerialInv ==
  /\ LinkInv
  /\ \A r \in Requests : StillLoaded(req[r]) /\ Entitled(req[r]) /\ Minting(req[r])
  /\ AssigneesAreOwned
  /\ MailedLinkWorks

-----------------------------------------------------------------------------
(* What a step does to the requests. *)

(* The same request, one step on. *)
Same(p, q) == p.op = q.op /\ p.demand = q.demand /\ p.seen = q.seen

(* A request as it is accepted. *)
Fresh(q) ==
  /\ q.token = 0
  /\ q.op \in OnDemand \ {"survey"} =>
       /\ q.step = "read" /\ q.demand \in Demands
       /\ q.seen = demand[q.demand] /\ q.seen.row = "enabled"
  /\ q.op = "survey" =>
       /\ q.demand \in Demands
       /\ demand[q.demand].token # 0 /\ demand[q.demand].rating = 0
       /\ q.rating \in Ratings
  /\ q.op \notin OnDemand \ {"survey"} => q.seen.token = 0
  /\ q.op = "claim" => q.seen.cabinet = NONE
  /\ q.op \in {"assign", "unlink", "progress"} => q.seen.cabinet # NONE

LEMMA LoadingFresh ==
  ASSUME NEW op \in OnDemand \ {"survey"}, NEW u, NEW d \in Demands, NEW s, NEW m,
         demand[d].row = "enabled",
         op = "claim" => demand[d].cabinet = NONE,
         op \in {"assign", "unlink", "progress"} => demand[d].cabinet # NONE
  PROVE  /\ Fresh(Loading(op, u, d))
         /\ Fresh([Loading(op, u, d) EXCEPT !.member = m])
         /\ Fresh([Loading(op, u, d) EXCEPT !.status = s])
         /\ Fresh([Loading(op, u, d) EXCEPT !.status = s, !.member = m])
<1>1. ASSUME NEW q, q.op = op, q.step = "read", q.demand = d, q.seen = demand[d], q.token = 0
      PROVE  Fresh(q)
  <2>1. q.op \in OnDemand \ {"survey"} /\ q.op # "survey"
    BY <1>1 DEF OnDemand
  <2>. QED
    BY <1>1, <2>1 DEF Fresh
<1>2. /\ Loading(op, u, d).op = op /\ Loading(op, u, d).step = "read"
      /\ Loading(op, u, d).demand = d /\ Loading(op, u, d).seen = demand[d]
      /\ Loading(op, u, d).token = 0
  BY DEF Loading, NoRequest
<1>. DEFINE l == Loading(op, u, d)
<1>3. {"op", "step", "demand", "seen", "token", "member", "status"} \subseteq DOMAIN l
  BY DEF Loading, NoRequest
<1>4. l.op = op /\ l.step = "read" /\ l.demand = d /\ l.seen = demand[d] /\ l.token = 0
  BY <1>2
<1>. HIDE DEF l
<1>5. Fresh(l)
  BY <1>1, <1>4
<1>6. Fresh([l EXCEPT !.member = m])
  BY <1>1, <1>3, <1>4
<1>7. Fresh([l EXCEPT !.status = s])
  BY <1>1, <1>3, <1>4
<1>8. Fresh([l EXCEPT !.status = s, !.member = m])
  BY <1>1, <1>3, <1>4
<1> QED
  BY <1>5, <1>6, <1>7, <1>8 DEF l

(* Every request that is accepted is fresh. *)
LEMMA ArrivalShape ==
  ASSUME TypeOK, NEW r \in Requests, Arrival(r)
  PROVE  \E q : Accept(r, q) /\ Fresh(q)
<1>1. ASSUME NEW u \in Users, NEW d \in Demands, DemandRequest(r, u, d)
      PROVE  \E q : Accept(r, q) /\ Fresh(q)
  <2>. USE LoadingFresh DEF OnDemand
  <2>1. CASE ClaimRead(r, u, d)
    BY <2>1 DEF ClaimRead
  <2>2. CASE \E m \in Members \cup {NONE} : AssignRead(r, u, d, m)
    BY <2>2 DEF AssignRead
  <2>3. CASE UnlinkRead(r, u, d)
    BY <2>3 DEF UnlinkRead
  <2>4. CASE \E s \in Statuses : ProgressRead(r, u, d, s)
    BY <2>4 DEF ProgressRead
  <2>5. ASSUME NEW s, NEW m, PatchRead(r, u, d, s, m)
        PROVE  \E q : Accept(r, q) /\ Fresh(q)
    BY <2>5 DEF PatchRead
  <2>6. CASE DeleteRead(r, u, d)
    BY <2>6 DEF DeleteRead
  <2>. QED
    BY <1>1, <2>1, <2>2, <2>3, <2>4, <2>5, <2>6 DEF DemandRequest
<1>2. ASSUME NEW u \in Users, ResultRequest(r, u)
      PROVE  \E q : Accept(r, q) /\ Fresh(q)
  <2>1. ASSUME NEW op \in {"createResult", "updateResult", "deleteResult"},
               NEW x, NEW c, NEW d
        PROVE  /\ Fresh([NoRequest EXCEPT !.op = op, !.step = "checked", !.user = u,
                                          !.result = x, !.demand = d])
               /\ Fresh([NoRequest EXCEPT !.op = op, !.step = "checked", !.user = u,
                                          !.cabinet = c, !.demand = d])
    BY DEF Fresh, OnDemand, NoRequest, NoDemand
  <2>. QED
    BY <1>2, <2>1 DEF ResultRequest, CreateResultCheck, UpdateResultRead, DeleteResultRead,
                      LoadResult
<1>3. ASSUME NEW d \in Demands, NEW n \in Ratings, SurveyRead(r, d, n)
      PROVE  \E q : Accept(r, q) /\ Fresh(q)
  <2>1. Fresh([NoRequest EXCEPT !.op = "survey", !.step = "read", !.demand = d, !.rating = n])
    BY <1>3 DEF SurveyRead, Fresh, OnDemand, NoRequest, NoDemand
  <2>. QED
    BY <1>3, <2>1 DEF SurveyRead
<1> QED
  BY <1>1, <1>2, <1>3 DEF Arrival

(* A request takes a step: the fields it keeps. *)
LEMMA StepFields ==
  ASSUME TypeOK, NEW r \in Requests, NEW step,
         req' = [req EXCEPT ![r].step = step]
  PROVE  /\ req'[r] = [req[r] EXCEPT !.step = step]
         /\ Same(req'[r], req[r]) /\ req'[r].step = step
         /\ req'[r].user = req[r].user /\ req'[r].cabinet = req[r].cabinet
         /\ req'[r].status = req[r].status /\ req'[r].member = req[r].member
         /\ req'[r].token = req[r].token /\ req'[r].rating = req[r].rating
         /\ \A s \in Requests \ {r} : req'[s] = req[s]
<1>1. req \in [Requests -> Request] /\ req[r] \in RequestRecord
  BY RequestFields DEF TypeOK
<1>2. req'[r] = [req[r] EXCEPT !.step = step]
  BY <1>1
<1>. DEFINE q == req[r]
<1>3. q \in RequestRecord /\ req'[r] = [q EXCEPT !.step = step]
  BY <1>1, <1>2
<1>. HIDE DEF q
<1>4. /\ Same(req'[r], q) /\ req'[r].step = step
      /\ req'[r].user = q.user /\ req'[r].cabinet = q.cabinet
      /\ req'[r].status = q.status /\ req'[r].member = q.member
      /\ req'[r].token = q.token /\ req'[r].rating = q.rating
  BY <1>3 DEF RequestRecord, Same
<1> QED
  BY <1>1, <1>2, <1>4 DEF q

(* A request of progress mints at its check, and only there. *)
Mints(p, q) ==
  /\ p.status = q.status
  /\ \/ /\ q.step = "read" /\ p.step = "checked"
        /\ IF q.status = "RESOLVED" /\ q.seen.token = 0
           THEN minted' = minted + 1 /\ p.token = minted + 1
           ELSE minted' = minted /\ p.token = q.token
     \/ /\ q.step = "checked" /\ p.step = "written"
        /\ p.token = q.token /\ minted' = minted

Continues(p, q) ==
  /\ Same(p, q)
  /\ p.step \in {"checked", "written"}
  /\ q.op = "progress" => Mints(p, q)
  /\ q.op # "progress" => p.token = q.token /\ minted' = minted

(* A request ends, or goes on as the same request; the others wait. *)
LEMMA ContinuationShape ==
  ASSUME TypeOK, NEW r \in Requests, Continuation(r)
  PROVE  /\ \A s \in Requests \ {r} : req'[s] = req[s]
         /\ \/ req'[r] = NoRequest /\ minted' = minted
            \/ Continues(req'[r], req[r])
<1>0. req \in [Requests -> Request] /\ req[r] \in RequestRecord
  BY RequestFields DEF TypeOK
<1>f. Finish(r) => req'[r] = NoRequest /\ \A s \in Requests \ {r} : req'[s] = req[s]
  BY <1>0 DEF Finish
<1>1. CASE ClaimCheck(r)
  <2>1. PICK c : req' = [req EXCEPT ![r].step = "checked", ![r].cabinet = c]
    BY <1>1 DEF ClaimCheck
  <2>. DEFINE q == req[r]
  <2>2. q \in RequestRecord /\ req'[r] = [q EXCEPT !.step = "checked", !.cabinet = c]
    BY <2>1, <1>0
  <2>. HIDE DEF q
  <2>3. Same(req'[r], q) /\ req'[r].step = "checked" /\ req'[r].token = q.token
    BY <2>2 DEF RequestRecord, Same
  <2>. QED
    BY <1>0, <1>1, <2>1, <2>3 DEF ClaimCheck, AtStep, Continues, q
<1>2. CASE AssignCheck(r) \/ UnlinkCheck(r)
  BY <1>2, StepFields DEF AssignCheck, UnlinkCheck, Checked, AtStep, Continues
<1>3. CASE ProgressCheck(r)
  <2>1. CASE ~(req[r].status = "RESOLVED" /\ req[r].seen.token = 0)
    BY <1>3, <2>1, StepFields DEF ProgressCheck, Checked, AtStep, Continues, Mints
  <2>2. CASE req[r].status = "RESOLVED" /\ req[r].seen.token = 0
    <3>1. /\ minted' = minted + 1
          /\ req' = [req EXCEPT ![r].step = "checked", ![r].token = minted + 1]
      BY <1>3, <2>2 DEF ProgressCheck
    <3>. DEFINE q == req[r]
    <3>2. q \in RequestRecord /\ req'[r] = [q EXCEPT !.step = "checked", !.token = minted + 1]
      BY <3>1, <1>0
    <3>. HIDE DEF q
    <3>3. /\ Same(req'[r], q) /\ req'[r].step = "checked" /\ req'[r].token = minted + 1
          /\ req'[r].status = q.status
      BY <3>2 DEF RequestRecord, Same
    <3>. QED
      BY <1>0, <1>3, <2>2, <3>1, <3>3 DEF ProgressCheck, AtStep, Continues, Mints, q
  <2>. QED
    BY <2>1, <2>2
<1>4. CASE ProgressWrite(r)
  BY <1>4, StepFields DEF ProgressWrite, Written, AtStep, Continues, Mints
<1>5. CASE PatchCheck(r)
  <2>1. CASE Checked(r)
    BY <1>5, <2>1, StepFields DEF PatchCheck, Checked, AtStep, Continues
  <2>2. CASE req' = [req EXCEPT ![r].step = "checked", ![r].status = NONE, ![r].member = KEEP]
    <3>. DEFINE q == req[r]
    <3>1. q \in RequestRecord
          /\ req'[r] = [q EXCEPT !.step = "checked", !.status = NONE, !.member = KEEP]
      BY <2>2, <1>0
    <3>. HIDE DEF q
    <3>2. Same(req'[r], q) /\ req'[r].step = "checked" /\ req'[r].token = q.token
      BY <3>1 DEF RequestRecord, Same
    <3>. QED
      BY <1>0, <1>5, <2>2, <3>2 DEF PatchCheck, AtStep, Continues, q
  <2>. QED
    BY <1>5, <2>1, <2>2 DEF PatchCheck
<1>6. CASE PatchWrite(r) \/ DeleteResultWrite(r)
  BY <1>6, StepFields DEF PatchWrite, DeleteResultWrite, Written, AtStep, Continues
<1>7. CASE \/ ClaimWrite(r) \/ AssignWrite(r) \/ UnlinkWrite(r) \/ ProgressPublish(r)
           \/ PatchPublish(r) \/ DeleteWrite(r) \/ CreateResultWrite(r)
           \/ UpdateResultWrite(r) \/ DeleteResultPublish(r) \/ SurveyWrite(r)
  <2>1. Finish(r) /\ minted' = minted
    BY <1>7 DEF ClaimWrite, AssignWrite, UnlinkWrite, ProgressPublish, PatchPublish, DeleteWrite,
                CreateResultWrite, UpdateResultWrite, DeleteResultPublish, SurveyWrite
  <2>. QED
    BY <2>1, <1>f
<1> QED
  BY <1>1, <1>2, <1>3, <1>4, <1>5, <1>6, <1>7 DEF Continuation

(* Who writes the row of a demand, and what becomes of its survey columns. *)
LEMMA RowWrites ==
  ASSUME TypeOK, [Next]_vars, NEW d \in Demands
  PROVE  \/ demand'[d] = demand[d]
         \/ /\ demand[d].row = "absent" /\ demand'[d].row = "enabled"
            /\ demand'[d].token = 0 /\ demand'[d].rating = 0
         \/ /\ demand'[d].row \in {demand[d].row, "disabled"}
            /\ \/ demand'[d].token = demand[d].token
               \/ \E r \in Requests : /\ req[r].demand = d /\ req[r].token # 0
                                      /\ demand'[d].token = req[r].token
            /\ \/ demand'[d].rating = demand[d].rating
               \/ \E r \in Requests : req[r].demand = d /\ req[r].op = "survey"
            /\ \/ \E r \in Requests : req[r].demand = d /\ req[r].op \in OnDemand
               \/ Task(d, "empty") \in DOMAIN reopenTasks
               \/ demand[d].assignee \in Members
                  /\ demand'[d] = [demand[d] EXCEPT !.assignee = NONE]
<1>0. demand \in [Demands -> DemandRow] /\ demand[d] \in DemandRow
  BY DEF TypeOK
<1>1. ASSUME NEW e \in Demands, NEW c \in Cabinets \cup {NONE}, CreateDemand(e, c)
      PROVE  \/ demand'[d] = demand[d]
             \/ /\ demand[d].row = "absent" /\ demand'[d].row = "enabled"
                /\ demand'[d].token = 0 /\ demand'[d].rating = 0
  BY <1>0, <1>1 DEF CreateDemand, NoDemand
<1>2. ASSUME NEW r \in Requests, \/ ClaimWrite(r) \/ AssignWrite(r) \/ UnlinkWrite(r)
                                  \/ ProgressWrite(r) \/ PatchWrite(r) \/ DeleteWrite(r)
                                  \/ SurveyWrite(r)
      PROVE  \/ demand'[d] = demand[d]
             \/ /\ req[r].demand = d /\ req[r].op \in OnDemand
                /\ demand'[d].row \in {demand[d].row, "disabled"}
                /\ \/ demand'[d].token = demand[d].token
                   \/ demand'[d].token = req[r].token /\ req[r].token # 0
                /\ demand'[d].rating = demand[d].rating \/ req[r].op = "survey"
  <2>1. CASE req[r].demand # d
    BY <1>0, <1>2, <2>1 DEF ClaimWrite, AssignWrite, UnlinkWrite, ProgressWrite, PatchWrite,
                            DeleteWrite, SurveyWrite
  <2>2. CASE req[r].demand = d
    BY <1>0, <1>2, <2>2 DEF ClaimWrite, AssignWrite, UnlinkWrite, ProgressWrite, PatchWrite,
                            DeleteWrite, SurveyWrite, DemandRow, AtStep, OnDemand
  <2>. QED
    BY <2>1, <2>2
<1>3. ASSUME NEW e \in Demands, ReopenWrite(e)
      PROVE  \/ demand'[d] = demand[d]
             \/ /\ Task(d, "empty") \in DOMAIN reopenTasks
                /\ demand'[d].row = demand[d].row /\ demand'[d].token = demand[d].token
                /\ demand'[d].rating = demand[d].rating
  BY <1>0, <1>3 DEF ReopenWrite, DemandRow, BagIn, BagToSet
<1>4. ASSUME NEW m \in Members, JoinMember(m) \/ RemoveMember(m)
      PROVE  \/ demand'[d] = demand[d]
             \/ /\ demand[d].assignee \in Members
                /\ demand'[d] = [demand[d] EXCEPT !.assignee = NONE]
                /\ demand'[d].row = demand[d].row /\ demand'[d].token = demand[d].token
                /\ demand'[d].rating = demand[d].rating
  BY <1>0, <1>4 DEF JoinMember, RemoveMember, DemandRow
<1>5. CASE UNCHANGED demand
  BY <1>5
<1>6. CASE \E e \in Demands, c \in Cabinets \cup {NONE} : CreateDemand(e, c)
  BY <1>6, <1>1
<1>7. CASE \E r \in Requests : \/ ClaimWrite(r) \/ AssignWrite(r) \/ UnlinkWrite(r)
                               \/ ProgressWrite(r) \/ PatchWrite(r) \/ DeleteWrite(r)
                               \/ SurveyWrite(r)
  BY <1>7, <1>2
<1>8. CASE \E e \in Demands : ReopenWrite(e)
  BY <1>8, <1>3
<1>9. CASE \E m \in Members : JoinMember(m) \/ RemoveMember(m)
  BY <1>9, <1>4
<1> QED
  BY <1>5, <1>6, <1>7, <1>8, <1>9, DemandWriters

(* What becomes of the request in a slot. *)
LEMMA RequestShape ==
  ASSUME TypeOK, [Next]_vars, NEW r \in Requests
  PROVE  \/ req'[r] = req[r]
         \/ req'[r] = NoRequest
         \/ Fresh(req'[r]) /\ UNCHANGED <<tables, events, minted>>
         \/ Continues(req'[r], req[r])
<1>0. req \in [Requests -> Request]
  BY DEF TypeOK
<1>1. ASSUME NEW s \in Requests, Arrival(s)
      PROVE  req'[r] = req[r] \/ (Fresh(req'[r]) /\ UNCHANGED <<tables, events, minted>>)
  <2>1. PICK q : Accept(s, q) /\ Fresh(q)
    BY <1>1, ArrivalShape
  <2>2. req'[r] = req[r] \/ Fresh(req'[r])
    BY <1>0, <2>1 DEF Accept
  <2>. QED
    BY <1>1, <2>2, ArrivalFrame
<1>2. ASSUME NEW s \in Requests, Continuation(s)
      PROVE  req'[r] = req[r] \/ req'[r] = NoRequest \/ Continues(req'[r], req[r])
  BY <1>2, ContinuationShape
<1>3. ASSUME NEW s \in Requests, Fail(s)
      PROVE  req'[r] = req[r] \/ req'[r] = NoRequest
  BY <1>0, <1>3 DEF Fail, Finish
<1>4. CASE Crash
  BY <1>4 DEF Crash
<1>5. CASE \/ UNCHANGED vars
           \/ \E d \in Demands, c \in Cabinets \cup {NONE} : CreateDemand(d, c)
           \/ \E d \in Demands : ReopenStep(d)
           \/ \E t \in BagToSet(scoreTasks) : ScoreStep(t)
           \/ \E m \in Members : JoinMember(m) \/ RemoveMember(m)
  <2>1. UNCHANGED req
    BY <1>5 DEF vars, CreateDemand, ReopenStep, ReopenRead, ReopenCount, ReopenWrite, ScoreStep,
                JoinMember, RemoveMember
  <2>. QED
    BY <2>1
<1> QED
  BY <1>1, <1>2, <1>3, <1>4, <1>5 DEF Next

-----------------------------------------------------------------------------
(* What was loaded exists. *)

LEMMA RemainExisting ==
  ASSUME TypeOK, [Next]_vars
  PROVE  \A d : Exists(d) => d \in Demands /\ demand'[d].row # "absent"
<1> SUFFICES ASSUME NEW d, Exists(d) PROVE demand'[d].row # "absent"
  BY DEF Exists
<1>1. d \in Demands /\ demand[d].row # "absent"
  BY DEF Exists
<1>2. demand[d].row = "disabled" \/ demand[d].row = "enabled"
  BY <1>1 DEF TypeOK, DemandRow, Row
<1> QED
  BY <1>1, <1>2, RowWrites DEF Exists

LEMMA BagDomain ==
  ASSUME NEW B, NEW t, NEW e
  PROVE  /\ DOMAIN (B (-) SetToBag({t})) \subseteq DOMAIN B
         /\ DOMAIN (B (+) SetToBag({e})) \subseteq DOMAIN B \cup {e}
         /\ DOMAIN ((B (-) SetToBag({t})) (+) SetToBag({e})) \subseteq DOMAIN B \cup {e}
BY DEF SetToBag, (-), (+)

(* The listeners started, those that went on, and those that were there. *)
LEMMA TaskShape ==
  ASSUME TypeOK, TasksExist, [Next]_vars, NEW t \in DOMAIN reopenTasks', t.step # "queued"
  PROVE  Exists(t.demand)
<1>1. CASE t \in DOMAIN reopenTasks
  BY <1>1 DEF TasksExist
<1>2. ASSUME NEW r \in Requests, DeleteResultPublish(r)
      PROVE  t \in DOMAIN reopenTasks
  <2>. DEFINE e == [demand |-> req[r].demand, step |-> "queued"]
  <2>1. DOMAIN reopenTasks' \subseteq DOMAIN reopenTasks \cup {e}
    BY <1>2, BagDomain DEF DeleteResultPublish
  <2>2. t # e
    OBVIOUS
  <2>. QED
    BY <2>1, <2>2
<1>3. ASSUME NEW d \in Demands, ReopenStep(d)
      PROVE  Exists(t.demand)
  <2>1. \A step : Task(d, step).demand = d /\ Task(d, step).step = step
    BY DEF Task
  <2>2. CASE ReopenRead(d)
    <3>1. CASE demand[d].row = "enabled"
      <4>1. DOMAIN reopenTasks' \subseteq DOMAIN reopenTasks \cup {Task(d, "resolved")}
        BY <2>1, <2>2, BagDomain DEF ReopenRead, Advance, EndTask
      <4>. QED
        BY <1>1, <2>1, <3>1, <4>1 DEF Exists
    <3>2. CASE demand[d].row # "enabled"
      <4>1. DOMAIN reopenTasks' \subseteq DOMAIN reopenTasks
        BY <2>1, <2>2, <3>2, BagDomain DEF ReopenRead, EndTask
      <4>. QED
        BY <1>1, <4>1
    <3>. QED
      BY <3>1, <3>2
  <2>3. CASE ReopenCount(d)
    <3>1. Exists(d)
      BY <2>1, <2>3 DEF ReopenCount, BagIn, BagToSet, TasksExist
    <3>2. DOMAIN reopenTasks' \subseteq DOMAIN reopenTasks \cup {Task(d, "empty")}
      BY <2>1, <2>3, BagDomain DEF ReopenCount, Advance, EndTask
    <3>. QED
      BY <1>1, <2>1, <3>1, <3>2
  <2>4. CASE ReopenWrite(d)
    <3>1. DOMAIN reopenTasks' \subseteq DOMAIN reopenTasks
      BY <2>4, BagDomain DEF ReopenWrite, EndTask
    <3>. QED
      BY <1>1, <3>1
  <2>. QED
    BY <1>3, <2>2, <2>3, <2>4 DEF ReopenStep
<1>4. CASE Crash
  BY <1>4 DEF Crash, EmptyBag, SetToBag
<1>5. CASE \/ UNCHANGED vars
           \/ \E d \in Demands, c \in Cabinets \cup {NONE} : CreateDemand(d, c)
           \/ \E r \in Requests : Arrival(r) \/ Fail(r)
           \/ \E x \in BagToSet(scoreTasks) : ScoreStep(x)
           \/ \E m \in Members : JoinMember(m) \/ RemoveMember(m)
  <2>1. UNCHANGED reopenTasks
    BY <1>5, ArrivalFrame DEF vars, CreateDemand, Fail, ScoreStep, JoinMember, RemoveMember,
                              events
  <2>. QED
    BY <1>1, <2>1
<1>6. ASSUME NEW r \in Requests, Continuation(r)
      PROVE  UNCHANGED reopenTasks \/ DeleteResultPublish(r)
  BY <1>6 DEF Continuation, ClaimCheck, ClaimWrite, AssignCheck, AssignWrite, UnlinkCheck,
              UnlinkWrite, ProgressCheck, ProgressWrite, ProgressPublish, PatchCheck, PatchWrite,
              PatchPublish, DeleteWrite, CreateResultWrite, UpdateResultWrite,
              DeleteResultWrite, SurveyWrite, events
<1> QED
  BY <1>1, <1>2, <1>3, <1>4, <1>5, <1>6 DEF Next

LEMMA RowStep == RowInv /\ [Next]_vars => RowInv'
<1> SUFFICES ASSUME RowInv, [Next]_vars PROVE RowInv'
  OBVIOUS
<1>. USE DEF RowInv
<1>1. TypeOK'
  BY NextType
<1>2. BlankRows'
  <2> SUFFICES ASSUME NEW d \in Demands, demand'[d].row = "absent" PROVE demand'[d] = NoDemand
    BY DEF BlankRows
  <2>1. \A r \in Requests : req[r].demand = d /\ req[r].op \in OnDemand => Exists(d)
    BY DEF LoadedExist
  <2>2. Task(d, "empty") \in DOMAIN reopenTasks => Exists(d)
    BY DEF TasksExist, Task
  <2>3. demand[d].row = "absent" => demand[d] = NoDemand
    BY DEF BlankRows
  <2>4. [NoDemand EXCEPT !.assignee = NONE] = NoDemand
    BY DEF NoDemand
  <2>5. ~Exists(d)
    BY RemainExisting
  <2>. QED
    BY <2>1, <2>2, <2>3, <2>4, <2>5, RowWrites DEF Exists
<1>3. LoadedExist'
  <2> SUFFICES ASSUME NEW r \in Requests, req'[r].op \in OnDemand
               PROVE  req'[r].demand \in Demands /\ demand'[req'[r].demand].row # "absent"
    BY DEF LoadedExist, Exists
  <2>1. CASE req'[r] = req[r] \/ Continues(req'[r], req[r])
    <3>1. req'[r].demand = req[r].demand /\ req[r].op \in OnDemand
      BY <2>1 DEF Continues, Same
    <3>2. Exists(req[r].demand)
      BY <3>1 DEF LoadedExist
    <3>. QED
      BY <3>1, <3>2, RemainExisting
  <2>2. CASE req'[r] = NoRequest
    BY <2>2 DEF NoRequest, OnDemand
  <2>3. CASE Fresh(req'[r]) /\ UNCHANGED <<tables, events, minted>>
    <3>1. demand' = demand
      BY <2>3 DEF tables
    <3>2. req'[r].demand \in Demands
      BY <2>3 DEF Fresh, OnDemand
    <3>3. demand[req'[r].demand].row # "absent"
      <4>1. CASE req'[r].op # "survey"
        BY <2>3, <4>1 DEF Fresh, OnDemand
      <4>2. CASE req'[r].op = "survey"
        BY <2>3, <3>2, <4>2 DEF Fresh, BlankRows, NoDemand
      <4>. QED
        BY <4>1, <4>2
    <3>. QED
      BY <3>1, <3>2, <3>3 DEF Exists
  <2>. QED
    BY <2>1, <2>2, <2>3, RequestShape
<1>4. TasksExist'
  <2> SUFFICES ASSUME NEW t \in DOMAIN reopenTasks', t.step # "queued"
               PROVE  t.demand \in Demands /\ demand'[t.demand].row # "absent"
    BY DEF TasksExist, Exists
  <2>1. Exists(t.demand)
    BY TaskShape
  <2>. QED
    BY <2>1, RemainExisting
<1> QED
  BY <1>1, <1>2, <1>3, <1>4

-----------------------------------------------------------------------------
(* Tokens are never crossed. *)

(* A token is minted by one request at a time. *)
LEMMA MintShape ==
  ASSUME TypeOK, [Next]_vars
  PROVE  \/ minted' = minted
         \/ /\ minted' = minted + 1
            /\ \E r \in Requests : \A s \in Requests \ {r} : req'[s] = req[s]
<1>1. ASSUME NEW r \in Requests, Continuation(r)
      PROVE  \/ minted' = minted
             \/ minted' = minted + 1 /\ \A s \in Requests \ {r} : req'[s] = req[s]
  BY <1>1, ContinuationShape DEF Continues, Mints
<1>2. CASE \/ UNCHANGED vars
           \/ \E d \in Demands, c \in Cabinets \cup {NONE} : CreateDemand(d, c)
           \/ \E r \in Requests : Arrival(r) \/ Fail(r)
           \/ \E d \in Demands : ReopenStep(d)
           \/ \E t \in BagToSet(scoreTasks) : ScoreStep(t)
           \/ \E m \in Members : JoinMember(m) \/ RemoveMember(m)
           \/ Crash
  BY <1>2, ArrivalFrame DEF vars, CreateDemand, Fail, ReopenStep, ReopenRead, ReopenCount,
                            ReopenWrite, ScoreStep, JoinMember, RemoveMember, Crash
<1> QED
  BY <1>1, <1>2 DEF Next

(* A link is mailed for the demand of the request that carries its token. *)
LEMMA MailShape ==
  ASSUME [Next]_vars, NEW link \in mailed'
  PROVE  \/ link \in mailed
         \/ \E r \in Requests :
              /\ AtStep(r, "progress", "written") /\ req[r].status = "RESOLVED"
              /\ link = <<req[r].demand, IF req[r].token # 0 THEN req[r].token
                                                             ELSE req[r].seen.token>>
<1>1. ASSUME NEW r \in Requests, ProgressPublish(r)
      PROVE  \/ link \in mailed
             \/ /\ AtStep(r, "progress", "written") /\ req[r].status = "RESOLVED"
                /\ link = <<req[r].demand, IF req[r].token # 0 THEN req[r].token
                                                               ELSE req[r].seen.token>>
  BY <1>1 DEF ProgressPublish, SendSurveyLink
<1>2. ASSUME NEW r \in Requests, Continuation(r)
      PROVE  UNCHANGED mailed \/ ProgressPublish(r)
  BY <1>2 DEF Continuation, ClaimCheck, ClaimWrite, AssignCheck, AssignWrite, UnlinkCheck,
              UnlinkWrite, ProgressCheck, ProgressWrite, PatchCheck, PatchWrite,
              PatchPublish, DeleteWrite, CreateResultWrite, UpdateResultWrite,
              DeleteResultWrite, DeleteResultPublish, SurveyWrite, events
<1>3. CASE \/ UNCHANGED vars
           \/ \E d \in Demands, c \in Cabinets \cup {NONE} : CreateDemand(d, c)
           \/ \E r \in Requests : Arrival(r) \/ Fail(r)
           \/ \E d \in Demands : ReopenStep(d)
           \/ \E t \in BagToSet(scoreTasks) : ScoreStep(t)
           \/ \E m \in Members : JoinMember(m) \/ RemoveMember(m)
           \/ Crash
  <2>1. UNCHANGED mailed
    BY <1>3, ArrivalFrame DEF vars, CreateDemand, Fail, ReopenStep, ReopenRead, ReopenCount,
                              ReopenWrite, ScoreStep, JoinMember, RemoveMember, Crash, events
  <2>. QED
    BY <2>1
<1> QED
  BY <1>1, <1>2, <1>3 DEF Next

LEMMA CarriedStep ==
  ASSUME LinkInv, [Next]_vars
  PROVE  \E e : \A d \in Demands, n \in Nat \ {0} :
           Carries(d, n)' => \/ Carries(d, n)
                             \/ d = e /\ n = minted + 1 /\ minted' = minted + 1
<1>. USE DEF LinkInv, RowInv
<1>1. ASSUME NEW d \in Demands, NEW n \in Nat \ {0}, demand'[d].token = n
      PROVE  Carries(d, n)
  <2>1. \/ demand'[d].token \in {demand[d].token, 0}
        \/ \E r \in Requests : req[r].demand = d /\ demand'[d].token = req[r].token
    BY RowWrites
  <2>. QED
    BY <1>1, <2>1 DEF Carries
<1>2. ASSUME NEW d \in Demands, NEW n \in Nat \ {0}, <<d, n>> \in mailed'
      PROVE  Carries(d, n)
  BY <1>2, MailShape DEF Carries
<1>3. ASSUME NEW d \in Demands, NEW n \in Nat \ {0}, NEW r \in Requests,
             req'[r].demand = d, n \in {req'[r].token, req'[r].seen.token}
      PROVE  \/ Carries(d, n)
             \/ d = req[r].demand /\ n = minted + 1 /\ minted' = minted + 1
  <2>1. CASE req'[r] = req[r]
    BY <1>3, <2>1 DEF Carries
  <2>2. CASE req'[r] = NoRequest
    BY <1>3, <2>2 DEF NoRequest, NoDemand
  <2>3. CASE Fresh(req'[r]) /\ UNCHANGED <<tables, events, minted>>
    <3>1. n = req'[r].seen.token
      BY <1>3, <2>3 DEF Fresh
    <3>2. CASE req'[r].op \in OnDemand \ {"survey"}
      BY <1>3, <2>3, <3>1, <3>2 DEF Fresh, Carries
    <3>3. CASE req'[r].op \notin OnDemand \ {"survey"}
      BY <1>3, <2>3, <3>1, <3>3 DEF Fresh
    <3>. QED
      BY <3>2, <3>3
  <2>4. CASE Continues(req'[r], req[r])
    BY <1>3, <2>4 DEF Continues, Mints, Same, Carries
  <2>. QED
    BY <2>1, <2>2, <2>3, <2>4, RequestShape
<1>4. CASE minted' = minted
  <2>1. minted + 1 # minted
    BY DEF TypeOK
  <2>2. \A d \in Demands, n \in Nat \ {0} : Carries(d, n)' => Carries(d, n)
    <3> SUFFICES ASSUME NEW d \in Demands, NEW n \in Nat \ {0}, Carries(d, n)'
                 PROVE  Carries(d, n)
      OBVIOUS
    <3>1. CASE demand'[d].token = n
      BY <1>1, <3>1
    <3>2. CASE <<d, n>> \in mailed'
      BY <1>2, <3>2
    <3>3. ASSUME NEW r \in Requests, req'[r].demand = d,
                 n \in {req'[r].token, req'[r].seen.token}
          PROVE  Carries(d, n)
      BY <1>3, <1>4, <2>1, <3>3
    <3>. QED
      BY <3>1, <3>2, <3>3 DEF Carries
  <2>. QED
    BY <2>2
<1>5. CASE minted' = minted + 1 /\ \E r \in Requests : \A s \in Requests \ {r} : req'[s] = req[s]
  <2>1. PICK r \in Requests : \A s \in Requests \ {r} : req'[s] = req[s]
    BY <1>5
  <2>2. ASSUME NEW d \in Demands, NEW n \in Nat \ {0}, NEW s \in Requests,
               req'[s].demand = d, n \in {req'[s].token, req'[s].seen.token}
        PROVE  Carries(d, n) \/ (d = req[r].demand /\ n = minted + 1 /\ minted' = minted + 1)
    <3>1. CASE s = r
      BY <1>3, <2>2, <3>1
    <3>2. CASE s # r
      BY <2>1, <2>2, <3>2 DEF Carries
    <3>. QED
      BY <3>1, <3>2
  <2>3. \A d \in Demands, n \in Nat \ {0} :
          Carries(d, n)' => \/ Carries(d, n)
                            \/ d = req[r].demand /\ n = minted + 1 /\ minted' = minted + 1
    <3> SUFFICES ASSUME NEW d \in Demands, NEW n \in Nat \ {0}, Carries(d, n)'
                 PROVE  \/ Carries(d, n)
                        \/ d = req[r].demand /\ n = minted + 1 /\ minted' = minted + 1
      OBVIOUS
    <3>1. CASE demand'[d].token = n
      BY <1>1, <3>1
    <3>2. CASE <<d, n>> \in mailed'
      BY <1>2, <3>2
    <3>3. CASE \E s \in Requests : req'[s].demand = d /\ n \in {req'[s].token, req'[s].seen.token}
      BY <2>2, <3>3
    <3>. QED
      BY <3>1, <3>2, <3>3 DEF Carries
  <2>. QED
    BY <2>3
<1> QED
  BY <1>4, <1>5, MintShape

LEMMA LinkStep == LinkInv /\ [Next]_vars => LinkInv'
<1> SUFFICES ASSUME LinkInv, [Next]_vars PROVE LinkInv'
  OBVIOUS
<1>0. TypeOK /\ RowInv
  BY DEF LinkInv, RowInv
<1>1. RowInv'
  BY RowStep, <1>0
<1>2. TokensAreOwn'
  <2> SUFFICES ASSUME NEW d \in Demands, NEW f \in Demands, NEW n \in Nat \ {0},
                      Carries(d, n)'
               PROVE  n <= minted' /\ (Carries(f, n)' => d = f)
    BY DEF TokensAreOwn
  <2>1. PICK e : \A c \in Demands, k \in Nat \ {0} :
          Carries(c, k)' => \/ Carries(c, k)
                            \/ c = e /\ k = minted + 1 /\ minted' = minted + 1
    BY CarriedStep
  <2>2. minted \in Nat /\ (minted' = minted \/ minted' = minted + 1)
    BY <1>0, MintShape DEF TypeOK
  <2>3. \A c \in Demands : Carries(c, n) => n <= minted
    BY DEF LinkInv, TokensAreOwn
  <2>4. \A c, k \in Demands : Carries(c, n) /\ Carries(k, n) => c = k
    BY DEF LinkInv, TokensAreOwn
  <2>5. n <= minted => ~(n = minted + 1)
    BY <2>2
  <2>6. n <= minted'
    BY <2>1, <2>2, <2>3
  <2>7. Carries(f, n)' => d = f
    BY <2>1, <2>3, <2>4, <2>5
  <2>. QED
    BY <2>6, <2>7
<1>3. LinksAreReal'
  <2> SUFFICES ASSUME NEW link \in mailed' PROVE link[2] # 0
    BY DEF LinksAreReal
  <2>1. CASE link \in mailed
    BY <2>1 DEF LinkInv, LinksAreReal
  <2>2. ASSUME NEW r \in Requests, AtStep(r, "progress", "written"), req[r].status = "RESOLVED",
               link = <<req[r].demand, IF req[r].token # 0 THEN req[r].token
                                                           ELSE req[r].seen.token>>
        PROVE  link[2] # 0
    BY <2>2 DEF LinkInv, LinkIsReal, AtStep
  <2>. QED
    BY <2>1, <2>2, MailShape
<1>4. AnswersHaveLinks'
  <2>1. ASSUME NEW d \in Demands, demand'[d].rating # 0
        PROVE  demand'[d].token # 0
    <3>1. \A r \in Requests : req[r].op = "survey" /\ req[r].demand = d => demand[d].token # 0
      BY DEF LinkInv, AnswersHaveLinks
    <3>2. demand[d].rating # 0 => demand[d].token # 0
      BY DEF LinkInv, AnswersHaveLinks
    <3>. QED
      BY <1>0, <2>1, <3>1, <3>2, RowWrites
  <2>2. ASSUME NEW d \in Demands, Exists(d), demand[d].token # 0
        PROVE  demand'[d].token # 0
    BY <1>0, <2>2, RowWrites DEF Exists
  <2>3. ASSUME NEW r \in Requests, req'[r].op = "survey"
        PROVE  demand'[req'[r].demand].token # 0
    <3>1. CASE req'[r] = req[r] \/ Continues(req'[r], req[r])
      <4>1. req'[r].demand = req[r].demand /\ req[r].op = "survey"
        BY <2>3, <3>1 DEF Continues, Same
      <4>2. Exists(req[r].demand)
        BY <1>0, <4>1 DEF RowInv, LoadedExist, OnDemand
      <4>3. demand[req[r].demand].token # 0
        BY <4>1 DEF LinkInv, AnswersHaveLinks
      <4>. QED
        BY <2>2, <4>1, <4>2, <4>3 DEF Exists
    <3>2. CASE req'[r] = NoRequest
      BY <2>3, <3>2 DEF NoRequest
    <3>3. CASE Fresh(req'[r]) /\ UNCHANGED <<tables, events, minted>>
      BY <2>3, <3>3 DEF Fresh, tables
    <3>. QED
      BY <1>0, <3>1, <3>2, <3>3, RequestShape
  <2>. QED
    BY <2>1, <2>3 DEF AnswersHaveLinks
<1>5. ASSUME NEW r \in Requests
      PROVE  LinkIsReal(req'[r])
  <2>0. LinkIsReal(req[r]) /\ minted \in Nat
    BY <1>0 DEF LinkInv, TypeOK
  <2>1. CASE req'[r] = NoRequest
    BY <2>1 DEF NoRequest, LinkIsReal
  <2>2. CASE Fresh(req'[r])
    BY <2>2 DEF Fresh, LinkIsReal, OnDemand
  <2>3. CASE Continues(req'[r], req[r])
    BY <2>0, <2>3 DEF Continues, Same, Mints, LinkIsReal
  <2>. QED
    BY <1>0, <2>0, <2>1, <2>2, <2>3, RequestShape
<1> QED
  BY <1>1, <1>2, <1>3, <1>4, <1>5 DEF LinkInv

LEMMA LinkInit == Init => LinkInv
<1> SUFFICES ASSUME Init PROVE LinkInv
  OBVIOUS
<1>1. TypeOK
  BY InitType
<1>2. \A d \in Demands : /\ demand[d].token = 0 /\ demand[d].rating = 0
                         /\ demand[d].row = "absent" => demand[d] = NoDemand
  <2>1. \A q \in StartRow : /\ q.token = 0 /\ q.rating = 0
                            /\ q.row = "absent" => q = NoDemand
    BY DEF StartRow, NoDemand
  <2>. QED
    BY <2>1 DEF Init
<1>3. \A r \in Requests : req[r] = NoRequest
  BY DEF Init
<1>4. RowInv
  <2>1. DOMAIN reopenTasks = {}
    BY DEF Init, EmptyBag, SetToBag
  <2>2. BlankRows /\ LoadedExist
    BY <1>2, <1>3 DEF BlankRows, LoadedExist, NoRequest, OnDemand
  <2>3. TasksExist
    BY <2>1 DEF TasksExist
  <2>. QED
    BY <1>1, <2>2, <2>3 DEF RowInv
<1>5. \A d \in Demands, n \in Nat \ {0} : ~Carries(d, n)
  BY <1>2, <1>3 DEF Carries, NoRequest, NoDemand, Init
<1>6. LinksAreReal
  BY DEF LinksAreReal, Init
<1>7. AnswersHaveLinks
  BY <1>2, <1>3 DEF AnswersHaveLinks, NoRequest
<1>8. \A r \in Requests : LinkIsReal(req[r])
  BY <1>3 DEF LinkIsReal, NoRequest
<1> QED
  BY <1>4, <1>5, <1>6, <1>7, <1>8 DEF LinkInv, TokensAreOwn

LEMMA LinkInvariant == Spec => []LinkInv
BY LinkInit, LinkStep, PTL DEF Spec

(* However resolutions, reopenings, surveys and crashes overlap, a link     *)
(* mailed for one demand never opens the survey of another, and a demand    *)
(* with an answer has a link: each token is minted for one demand and only  *)
(* ever written to the row it was minted for.                               *)
THEOREM LinksOwn == Spec => []LinksAreOwn
<1>1. LinkInv => LinksAreOwn
  <2> SUFFICES ASSUME LinkInv PROVE LinksAreOwn
    OBVIOUS
  <2>1. ASSUME NEW link \in mailed, NEW d \in Demands, demand[d].token = link[2]
        PROVE  d = link[1]
    <3>1. link \in Demands \X Nat /\ link = <<link[1], link[2]>> /\ link[2] # 0
      BY DEF LinkInv, RowInv, TypeOK, LinksAreReal
    <3>2. Carries(d, link[2]) /\ Carries(link[1], link[2])
      BY <2>1, <3>1 DEF Carries
    <3>. QED
      BY <3>1, <3>2 DEF LinkInv, TokensAreOwn
  <2>. QED
    BY <2>1 DEF LinksAreOwn, LinkInv, AnswersHaveLinks
<1>. QED
  BY <1>1, LinkInvariant, PTL

-----------------------------------------------------------------------------
(* Requests one after the other.  Steps that are not a request's own leave  *)
(* owner and survey of a demand alone and at most free its assignee.        *)

Sound(q) == StillLoaded(q) /\ Entitled(q) /\ Minting(q)

Bystander ==
  \/ UNCHANGED vars
  \/ \E d \in Demands, c \in Cabinets \cup {NONE} : CreateDemand(d, c)
  \/ \E r \in Requests : Fail(r)
  \/ \E d \in Demands : ReopenStep(d)
  \/ \E t \in BagToSet(scoreTasks) : ScoreStep(t)
  \/ \E m \in Members : JoinMember(m) \/ RemoveMember(m)
  \/ Crash

Kept(d) ==
  /\ demand'[d].row = demand[d].row /\ demand'[d].cabinet = demand[d].cabinet
  /\ demand'[d].token = demand[d].token /\ demand'[d].rating = demand[d].rating
  /\ demand'[d].assignee \in {demand[d].assignee, NONE}

Created(d) ==
  /\ demand[d].row = "absent"
  /\ demand'[d].token = 0 /\ demand'[d].assignee = NONE

LEMMA BystanderShape ==
  ASSUME TypeOK, Bystander
  PROVE  /\ UNCHANGED mailed
         /\ \A r \in Requests : req'[r] \in {req[r], NoRequest}
         /\ \A d \in Demands : Kept(d) \/ Created(d)
<1>0. /\ demand \in [Demands -> DemandRow] /\ req \in [Requests -> Request]
      /\ \A d \in Demands : demand[d] \in DemandRow
  BY DEF TypeOK
<1>1. UNCHANGED mailed
  BY DEF Bystander, vars, CreateDemand, Fail, ReopenStep, ReopenRead, ReopenCount, ReopenWrite,
         ScoreStep, JoinMember, RemoveMember, Crash, events
<1>2. ASSUME NEW r \in Requests
      PROVE  req'[r] \in {req[r], NoRequest}
  <2>1. \A s \in Requests : Fail(s) => req'[r] \in {req[r], NoRequest}
    BY <1>0 DEF Fail, Finish
  <2>2. Crash => req'[r] = NoRequest
    BY DEF Crash
  <2>3. (Bystander /\ ~Crash /\ ~\E s \in Requests : Fail(s)) => UNCHANGED req
    BY DEF Bystander, vars, CreateDemand, ReopenStep, ReopenRead, ReopenCount, ReopenWrite,
           ScoreStep, JoinMember, RemoveMember
  <2>. QED
    BY <2>1, <2>2, <2>3
<1>3. ASSUME NEW d \in Demands
      PROVE  Kept(d) \/ Created(d)
  <2>1. CASE UNCHANGED demand
    BY <2>1 DEF Kept
  <2>2. ASSUME NEW e \in Demands, NEW c \in Cabinets \cup {NONE}, CreateDemand(e, c)
        PROVE  demand'[d] = demand[d] \/ Created(d)
    BY <1>0, <2>2 DEF CreateDemand, NoDemand, Created
  <2>3. ASSUME NEW e \in Demands, ReopenWrite(e)
        PROVE  Kept(d)
    BY <1>0, <2>3 DEF ReopenWrite, DemandRow, Kept
  <2>4. ASSUME NEW m \in Members, RemoveMember(m)
        PROVE  Kept(d)
    BY <1>0, <2>4 DEF RemoveMember, DemandRow, Kept
  <2>5. \/ UNCHANGED demand
        \/ \E e \in Demands, c \in Cabinets \cup {NONE} : CreateDemand(e, c)
        \/ \E e \in Demands : ReopenWrite(e)
        \/ \E m \in Members : RemoveMember(m)
    BY DEF Bystander, vars, Fail, ReopenStep, ReopenRead, ReopenCount, ScoreStep, JoinMember,
           Crash, tables
  <2>6. demand'[d] = demand[d] => Kept(d)
    BY DEF Kept
  <2>. QED
    BY <2>1, <2>2, <2>3, <2>4, <2>5, <2>6
<1> QED
  BY <1>1, <1>2, <1>3

LEMMA BystanderStep ==
  ASSUME SerialInv, Bystander
  PROVE  /\ \A r \in Requests : Sound(req[r])'
         /\ AssigneesAreOwned' /\ MailedLinkWorks'
<1>. USE DEF SerialInv, LinkInv, RowInv
<1>0. /\ mailed' = mailed
      /\ \A r \in Requests : req'[r] \in {req[r], NoRequest}
      /\ \A d \in Demands : Kept(d) \/ Created(d)
  BY BystanderShape
<1>1. ASSUME NEW r \in Requests
      PROVE  Sound(req[r])'
  <2>1. CASE req'[r] = NoRequest
    BY <2>1 DEF Sound, StillLoaded, Entitled, Minting, NoRequest, OnDemand
  <2>2. CASE req'[r] = req[r] /\ req[r].op \in OnDemand
    <3>1. Exists(req[r].demand)
      BY <2>2 DEF LoadedExist
    <3>2. Kept(req[r].demand)
      BY <1>0, <3>1 DEF Exists, Created
    <3>. QED
      BY <2>2, <3>2 DEF Sound, StillLoaded, Entitled, Minting, Kept
  <2>3. CASE req'[r] = req[r] /\ req[r].op \notin OnDemand
    BY <2>3 DEF Sound, StillLoaded, Entitled, Minting, OnDemand
  <2>. QED
    BY <1>0, <2>1, <2>2, <2>3
<1>2. AssigneesAreOwned'
  BY <1>0 DEF AssigneesAreOwned, Kept, Created
<1>3. MailedLinkWorks'
  <2> SUFFICES ASSUME NEW link \in mailed PROVE demand'[link[1]].token = link[2]
    BY <1>0 DEF MailedLinkWorks
  <2>1. link[1] \in Demands /\ demand[link[1]].token = link[2]
    BY DEF TypeOK, MailedLinkWorks
  <2>2. demand[link[1]].row = "absent" => demand[link[1]].token = 0
    BY <2>1 DEF BlankRows, NoDemand
  <2>. QED
    BY <1>0, <2>1, <2>2 DEF Kept, Created
<1> QED
  BY <1>1, <1>2, <1>3

LEMMA SerialArrival ==
  ASSUME OneSlot, SerialInv, NEW r \in Requests, Arrival(r)
  PROVE  /\ \A s \in Requests : Sound(req[s])'
         /\ AssigneesAreOwned' /\ MailedLinkWorks'
<1>. USE DEF SerialInv, LinkInv, RowInv
<1>1. demand' = demand /\ mailed' = mailed
  BY ArrivalFrame DEF tables, events
<1>2. PICK q : Accept(r, q) /\ Fresh(q)
  BY ArrivalShape
<1>3. req'[r] = q
  BY <1>2 DEF Accept, TypeOK
<1>4. /\ StillLoaded(q) /\ Minting(q)
  BY <1>2 DEF Fresh, StillLoaded, Minting, OnDemand
<1>5. Entitled(q)
  BY <1>2 DEF Fresh, Entitled, OnDemand
<1>6. Sound(req[r])'
  BY <1>1, <1>3, <1>4, <1>5 DEF Sound, StillLoaded, Entitled, Minting
<1>7. AssigneesAreOwned' /\ MailedLinkWorks'
  BY <1>1 DEF AssigneesAreOwned, MailedLinkWorks
<1> QED
  BY <1>6, <1>7 DEF OneSlot

(* The checks keep what was loaded; claims and patches note what they found. *)
LEMMA SerialCheck ==
  ASSUME OneSlot, SerialInv, NEW r \in Requests,
         \/ ClaimCheck(r) \/ AssignCheck(r) \/ UnlinkCheck(r) \/ ProgressCheck(r)
         \/ PatchCheck(r)
  PROVE  /\ \A s \in Requests : Sound(req[s])'
         /\ AssigneesAreOwned' /\ MailedLinkWorks'
<1>. USE DEF SerialInv, LinkInv, RowInv
<1>0. /\ req \in [Requests -> Request] /\ req[r] \in RequestRecord
      /\ req[r].token \in Nat /\ minted \in Nat
  BY RequestFields DEF TypeOK, RequestRecord
<1>1. demand' = demand /\ mailed' = mailed
  BY DEF ClaimCheck, AssignCheck, UnlinkCheck, ProgressCheck, PatchCheck, tables, events
<1>2. req[r].step = "read" /\ StillLoaded(req[r]) /\ Entitled(req[r]) /\ Minting(req[r])
  BY DEF ClaimCheck, AssignCheck, UnlinkCheck, ProgressCheck, PatchCheck, AtStep
<1>3. Continues(req'[r], req[r])
  <2>1. Continuation(r)
    BY DEF Continuation
  <2>2. req'[r] # NoRequest
    <3>1. req'[r].step = "checked"
      <4>1. CASE ClaimCheck(r)
        <5>1. PICK c : req' = [req EXCEPT ![r].step = "checked", ![r].cabinet = c]
          BY <4>1 DEF ClaimCheck
        <5>. QED
          BY <1>0, <5>1 DEF RequestRecord
      <4>2. CASE AssignCheck(r) \/ UnlinkCheck(r)
        BY <1>0, <4>2, StepFields DEF AssignCheck, UnlinkCheck, Checked
      <4>3. CASE ProgressCheck(r)
        BY <1>0, <4>3 DEF ProgressCheck, Checked, RequestRecord
      <4>4. CASE PatchCheck(r)
        BY <1>0, <4>4 DEF PatchCheck, Checked, RequestRecord
      <4>. QED
        BY <4>1, <4>2, <4>3, <4>4
    <3>. QED
      BY <3>1 DEF NoRequest
  <2>. QED
    BY <2>1, <2>2, ContinuationShape
<1>4. StillLoaded(req[r])'
  BY <1>1, <1>2, <1>3 DEF StillLoaded, Continues, Same
<1>5. Minting(req[r])'
  <2>1. CASE req[r].op = "progress"
    <3>1. req'[r].step = "checked" /\ req[r].token = 0 /\ req'[r].seen = req[r].seen
          /\ req'[r].status = req[r].status
          /\ (req'[r].token # 0 => req[r].status = "RESOLVED" /\ req[r].seen.token = 0)
      BY <1>2, <1>3, <2>1 DEF Continues, Same, Mints, Minting
    <3>. QED
      BY <3>1 DEF Minting
  <2>2. CASE req[r].op # "progress"
    BY <1>3, <2>2 DEF Continues, Same, Minting
  <2>. QED
    BY <2>1, <2>2
<1>6. Entitled(req[r])'
  <2>0. req[r].op \in {"claim", "assign", "unlink", "progress", "patch"}
    BY DEF ClaimCheck, AssignCheck, UnlinkCheck, ProgressCheck, PatchCheck, AtStep
  <2>1. CASE req[r].op \in {"assign", "unlink", "progress"}
    BY <1>1, <1>2, <1>3, <2>1 DEF Entitled, Continues, Same
  <2>2. CASE req[r].op = "claim"
    <3>1. PICK m \in Members :
            req' = [req EXCEPT ![r].step = "checked", ![r].cabinet = CabinetOf[m]]
      BY <2>2 DEF ClaimCheck, AssignCheck, UnlinkCheck, ProgressCheck, PatchCheck, AtStep
    <3>2. req'[r].cabinet = CabinetOf[m]
      BY <1>0, <3>1 DEF RequestRecord
    <3>. QED
      BY <1>2, <1>3, <2>2, <3>2, LifecycleAssumption DEF Entitled, Continues, Same
  <2>3. CASE req[r].op = "patch"
    <3>1. PatchCheck(r)
      BY <2>3 DEF ClaimCheck, AssignCheck, UnlinkCheck, ProgressCheck, AtStep
    <3>2. req'[r].member \in {NONE, KEEP} \/ req[r].seen.cabinet # NONE
      <4>1. CASE req[r].seen.cabinet # NONE
        BY <4>1
      <4>2. CASE Checked(r) /\ req[r].member = NONE
        BY <4>2, StepFields DEF Checked
      <4>3. CASE req' = [req EXCEPT ![r].step = "checked", ![r].status = NONE, ![r].member = KEEP]
        BY <1>0, <4>3 DEF RequestRecord
      <4>. QED
        BY <3>1, <4>1, <4>2, <4>3 DEF PatchCheck
    <3>. QED
      BY <1>3, <2>3, <3>2 DEF Entitled, Continues, Same
  <2>. QED
    BY <2>0, <2>1, <2>2, <2>3
<1>7. Sound(req[r])'
  BY <1>4, <1>5, <1>6 DEF Sound
<1>8. AssigneesAreOwned' /\ MailedLinkWorks'
  BY <1>1 DEF AssigneesAreOwned, MailedLinkWorks
<1> QED
  BY <1>7, <1>8 DEF OneSlot

(* The writes find the row as it was loaded. *)
LEMMA SerialWrite ==
  ASSUME OneSlot, SerialInv, NEW r \in Requests,
         \/ ClaimWrite(r) \/ AssignWrite(r) \/ UnlinkWrite(r) \/ ProgressWrite(r)
         \/ PatchWrite(r) \/ DeleteWrite(r) \/ SurveyWrite(r)
  PROVE  /\ \A s \in Requests : Sound(req[s])'
         /\ AssigneesAreOwned' /\ MailedLinkWorks'
<1>. USE DEF SerialInv, LinkInv, RowInv
<1>0. /\ req \in [Requests -> Request] /\ req[r] \in Request /\ req[r] \in RequestRecord
      /\ demand \in [Demands -> DemandRow]
      /\ \A d \in Demands : demand[d] \in DemandRow
      /\ req[r].token \in Nat
  BY RequestFields DEF TypeOK, RequestRecord
<1>. DEFINE d == req[r].demand
<1>1. d \in Demands /\ demand[d] \in DemandRow
  <2>1. req[r].op \in OnDemand
    BY DEF ClaimWrite, AssignWrite, UnlinkWrite, ProgressWrite, PatchWrite, DeleteWrite,
           SurveyWrite, AtStep, OnDemand
  <2>. QED
    BY <1>0, <2>1 DEF LoadedExist, Exists
<1>2. mailed' = mailed
  BY DEF ClaimWrite, AssignWrite, UnlinkWrite, ProgressWrite, PatchWrite, DeleteWrite,
         SurveyWrite, events
<1>3. \A e \in Demands : e # d => demand'[e] = demand[e]
  BY <1>0 DEF ClaimWrite, AssignWrite, UnlinkWrite, ProgressWrite, PatchWrite, DeleteWrite,
              SurveyWrite
<1>4. /\ Entitled(req[r]) /\ Minting(req[r])
      /\ req[r].op # "survey" =>
           /\ demand[d].cabinet = req[r].seen.cabinet
           /\ demand[d].token = req[r].seen.token
  BY DEF ClaimWrite, AssignWrite, UnlinkWrite, ProgressWrite, PatchWrite, DeleteWrite,
         SurveyWrite, AtStep, StillLoaded, OnDemand
<1>5. \/ demand'[d].token = demand[d].token
      \/ /\ ProgressWrite(r) /\ demand[d].token = 0
         /\ demand'[d].token = req[r].token /\ req[r].token # 0
  <2>1. CASE ProgressWrite(r)
    <3>1. req[r].token # 0 => demand[d].token = 0
      BY <1>4, <2>1 DEF ProgressWrite, AtStep, Minting
    <3>2. demand'[d].token = IF req[r].token = 0 THEN demand[d].token ELSE req[r].token
      BY <1>0, <1>1, <2>1 DEF ProgressWrite, DemandRow
    <3>. QED
      BY <2>1, <3>1, <3>2
  <2>2. CASE ~ProgressWrite(r)
    BY <1>0, <1>1, <2>2 DEF ClaimWrite, AssignWrite, UnlinkWrite, PatchWrite, DeleteWrite,
                            SurveyWrite, DemandRow
  <2>. QED
    BY <2>1, <2>2
<1>6. demand[d].assignee # NONE => demand[d].cabinet # NONE
  BY <1>1 DEF AssigneesAreOwned
<1>7. demand'[d].assignee # NONE => demand'[d].cabinet # NONE
  <2>1. CASE ClaimWrite(r)
    BY <1>0, <1>1, <1>4, <2>1, LifecycleAssumption DEF ClaimWrite, AtStep, Entitled, DemandRow
  <2>2. CASE AssignWrite(r)
    BY <1>0, <1>1, <1>4, <2>2 DEF AssignWrite, AtStep, Entitled, DemandRow
  <2>3. CASE UnlinkWrite(r)
    BY <1>0, <1>1, <2>3 DEF UnlinkWrite, DemandRow
  <2>4. CASE PatchWrite(r)
    <3>1. demand'[d].cabinet = demand[d].cabinet
          /\ demand'[d].assignee \in {demand[d].assignee, req[r].member}
          /\ (req[r].member = KEEP => demand'[d].assignee = demand[d].assignee)
      BY <1>0, <1>1, <2>4 DEF PatchWrite, DemandRow
    <3>2. req[r].member \notin {NONE, KEEP} => demand[d].cabinet # NONE
      BY <1>4, <2>4 DEF PatchWrite, AtStep, Entitled
    <3>. QED
      BY <1>6, <3>1, <3>2
  <2>5. CASE ProgressWrite(r) \/ DeleteWrite(r) \/ SurveyWrite(r)
    BY <1>0, <1>1, <1>6, <2>5 DEF ProgressWrite, DeleteWrite, SurveyWrite, DemandRow
  <2>. QED
    BY <2>1, <2>2, <2>3, <2>4, <2>5
<1>8. AssigneesAreOwned'
  BY <1>3, <1>7 DEF AssigneesAreOwned
<1>9. MailedLinkWorks'
  <2> SUFFICES ASSUME NEW link \in mailed PROVE demand'[link[1]].token = link[2]
    BY <1>2 DEF MailedLinkWorks
  <2>1. link[1] \in Demands /\ demand[link[1]].token = link[2] /\ link[2] # 0
    BY DEF TypeOK, MailedLinkWorks, LinksAreReal
  <2>. QED
    BY <1>3, <1>5, <2>1
<1>10. Sound(req[r])'
  <2>1. CASE ProgressWrite(r)
    <3>1. /\ Same(req'[r], req[r]) /\ req'[r].step = "written"
          /\ req'[r].token = req[r].token /\ req'[r].status = req[r].status
      BY <2>1, StepFields DEF ProgressWrite, Written
    <3>2. demand'[d].token = IF req[r].token = 0 THEN req[r].seen.token ELSE req[r].token
      BY <1>0, <1>1, <1>4, <2>1 DEF ProgressWrite, AtStep, DemandRow
    <3>3. Minting(req[r])'
      BY <1>4, <2>1, <3>1, <3>2 DEF Minting, Same, ProgressWrite, AtStep
    <3>4. Entitled(req[r])'
      BY <1>4, <2>1, <3>1 DEF Entitled, Same, ProgressWrite, AtStep
    <3>5. StillLoaded(req[r])'
      BY <3>1 DEF StillLoaded
    <3>. QED
      BY <3>3, <3>4, <3>5 DEF Sound
  <2>2. CASE PatchWrite(r)
    <3>1. req'[r].op = "patch" /\ req'[r].step = "written"
      BY <2>2, StepFields DEF PatchWrite, Written, Same, AtStep
    <3>. QED
      BY <3>1 DEF Sound, StillLoaded, Entitled, Minting
  <2>3. CASE ~ProgressWrite(r) /\ ~PatchWrite(r)
    <3>1. req'[r] = NoRequest
      BY <1>0, <2>3 DEF ClaimWrite, AssignWrite, UnlinkWrite, DeleteWrite, SurveyWrite, Finish
    <3>. QED
      BY <3>1 DEF Sound, StillLoaded, Entitled, Minting, NoRequest, OnDemand
  <2>. QED
    BY <2>1, <2>2, <2>3
<1> QED
  BY <1>8, <1>9, <1>10 DEF OneSlot

(* What is left of the routes: events and the table results. *)
LEMMA SerialRest ==
  ASSUME OneSlot, SerialInv, NEW r \in Requests,
         \/ ProgressPublish(r) \/ PatchPublish(r) \/ CreateResultWrite(r)
         \/ UpdateResultWrite(r) \/ DeleteResultWrite(r) \/ DeleteResultPublish(r)
  PROVE  /\ \A s \in Requests : Sound(req[s])'
         /\ AssigneesAreOwned' /\ MailedLinkWorks'
<1>. USE DEF SerialInv, LinkInv, RowInv
<1>1. demand' = demand
  BY DEF ProgressPublish, PatchPublish, CreateResultWrite, UpdateResultWrite,
         DeleteResultWrite, DeleteResultPublish, tables
<1>2. Sound(req[r])'
  <2>1. CASE DeleteResultWrite(r)
    <3>1. req'[r].op = "deleteResult"
      BY <2>1, StepFields DEF DeleteResultWrite, Written, Same, AtStep
    <3>. QED
      BY <3>1 DEF Sound, StillLoaded, Entitled, Minting, OnDemand
  <2>2. CASE ~DeleteResultWrite(r)
    <3>1. req'[r] = NoRequest
      BY <2>2 DEF ProgressPublish, PatchPublish, CreateResultWrite, UpdateResultWrite,
                  DeleteResultPublish, Finish, TypeOK
    <3>. QED
      BY <3>1 DEF Sound, StillLoaded, Entitled, Minting, NoRequest, OnDemand
  <2>. QED
    BY <2>1, <2>2
<1>3. MailedLinkWorks'
  <2>1. [Next]_vars
    BY DEF Next, Continuation
  <2> SUFFICES ASSUME NEW link \in mailed' PROVE demand[link[1]].token = link[2]
    BY <1>1 DEF MailedLinkWorks
  <2>2. CASE link \in mailed
    BY <2>2 DEF MailedLinkWorks
  <2>3. ASSUME NEW s \in Requests, AtStep(s, "progress", "written"),
               link = <<req[s].demand, IF req[s].token # 0 THEN req[s].token
                                                           ELSE req[s].seen.token>>
        PROVE  demand[link[1]].token = link[2]
    <3>1. Minting(req[s])
      OBVIOUS
    <3>. QED
      BY <2>3, <3>1 DEF Minting, AtStep
  <2>. QED
    BY <2>1, <2>2, <2>3, MailShape
<1>4. AssigneesAreOwned'
  BY <1>1 DEF AssigneesAreOwned
<1> QED
  BY <1>2, <1>3, <1>4 DEF OneSlot

LEMMA SerialStep ==
  ASSUME OneSlot
  PROVE  SerialInv /\ [Next]_vars => SerialInv'
<1> SUFFICES ASSUME SerialInv, [Next]_vars PROVE SerialInv'
  OBVIOUS
<1>1. LinkInv'
  BY LinkStep DEF SerialInv
<1>2. CASE Bystander
  BY <1>1, <1>2, BystanderStep DEF SerialInv, Sound
<1>3. ASSUME NEW r \in Requests, Arrival(r)
      PROVE  SerialInv'
  BY <1>1, <1>3, SerialArrival DEF SerialInv, Sound
<1>4. ASSUME NEW r \in Requests, Continuation(r)
      PROVE  SerialInv'
  BY <1>1, <1>4, SerialCheck, SerialWrite, SerialRest DEF Continuation, SerialInv, Sound
<1> QED
  BY <1>2, <1>3, <1>4 DEF Next, Bystander

LEMMA SerialInit == Init => SerialInv
<1> SUFFICES ASSUME Init PROVE SerialInv
  OBVIOUS
<1>1. \A r \in Requests : StillLoaded(req[r]) /\ Entitled(req[r]) /\ Minting(req[r])
  BY DEF Init, StillLoaded, Entitled, Minting, NoRequest, OnDemand
<1>2. AssigneesAreOwned
  <2> SUFFICES ASSUME NEW d \in Demands, demand[d].assignee # NONE
               PROVE  demand[d].cabinet # NONE
    BY DEF AssigneesAreOwned
  <2>1. demand[d].assignee \in Members
    BY InitType DEF TypeOK, DemandRow
  <2>. QED
    BY <2>1, LifecycleAssumption DEF Init
<1>3. MailedLinkWorks
  BY DEF Init, MailedLinkWorks
<1> QED
  BY <1>1, <1>2, <1>3, LinkInit DEF SerialInv

LEMMA SerialInvariant == ASSUME OneSlot PROVE Spec => []SerialInv
BY SerialInit, SerialStep, PTL DEF Spec

(* Requests one after the other, listeners and crashes at any time: every   *)
(* survey link ever mailed is still the link of its demand.                 *)
THEOREM MailedLinksWork == ASSUME OneSlot PROVE Spec => []MailedLinkWorks
<1>1. SerialInv => MailedLinkWorks
  BY DEF SerialInv
<1>. QED
  BY <1>1, SerialInvariant, PTL

-----------------------------------------------------------------------------
(* The refinement.  An entry of the service's book is made from one row. *)

Entry(p) ==
  [row |-> p.row, cabinet |-> p.cabinet, assignee |-> p.assignee, status |-> p.status,
   surveyed |-> p.token # 0, rating |-> p.rating]

EntryRecord ==
  [row : Row, cabinet : Cabinets \cup {NONE}, assignee : Members \cup {NONE},
   status : Statuses, surveyed : BOOLEAN, rating : Nat]

LEMMA EntryFields ==
  ASSUME NEW p \in DemandRow
  PROVE  /\ Entry(p) \in EntryRecord
         /\ Entry(p).row = p.row /\ Entry(p).cabinet = p.cabinet
         /\ Entry(p).assignee = p.assignee /\ Entry(p).status = p.status
         /\ Entry(p).rating = p.rating
         /\ (Entry(p).surveyed <=> p.token # 0)
<1>. DEFINE open == p.token # 0
<1>1. open \in BOOLEAN
  OBVIOUS
<1>2. Entry(p) = [row |-> p.row, cabinet |-> p.cabinet, assignee |-> p.assignee,
                  status |-> p.status, surveyed |-> open, rating |-> p.rating]
  BY DEF Entry
<1>. HIDE DEF open
<1>3. Entry(p) \in EntryRecord
  BY <1>1, <1>2 DEF EntryRecord, DemandRow
<1>4. /\ Entry(p).row = p.row /\ Entry(p).cabinet = p.cabinet
      /\ Entry(p).assignee = p.assignee /\ Entry(p).status = p.status
      /\ Entry(p).rating = p.rating
      /\ Entry(p).surveyed = open
  BY <1>2
<1> QED
  BY <1>3, <1>4 DEF open

LEMMA BookEntries ==
  ASSUME demand \in [Demands -> DemandRow], demand' \in [Demands -> DemandRow]
  PROVE  /\ Book = [d \in Demands |-> Entry(demand[d])]
         /\ Book' = [d \in Demands |-> Entry(demand'[d])]
         /\ \A d \in Demands :
              (\A e \in Demands \ {d} : demand'[e] = demand[e])
              => Book' = [Book EXCEPT ![d] = Entry(demand'[d])]
<1>1. Book = [d \in Demands |-> Entry(demand[d])]
  BY DEF Book, Entry
<1>2. Book' = [d \in Demands |-> Entry(demand'[d])]
  BY DEF Book, Entry
<1>3. ASSUME NEW d \in Demands, \A e \in Demands \ {d} : demand'[e] = demand[e]
      PROVE  Book' = [Book EXCEPT ![d] = Entry(demand'[d])]
  BY <1>1, <1>2, <1>3
<1> QED
  BY <1>1, <1>2, <1>3

(* Each operation of the service, from the rows before and after it. *)
LEMMA ServiceOperations ==
  ASSUME demand \in [Demands -> DemandRow], demand' \in [Demands -> DemandRow],
         NEW d \in Demands, \A e \in Demands \ {d} : demand'[e] = demand[e],
         NEW p, p = demand[d], NEW n, n = demand'[d], n.row = p.row \/ n.row = "disabled"
  PROVE  /\ (/\ p.row = "enabled" /\ p.cabinet = NONE /\ n.cabinet \in Cabinets
             /\ n = [p EXCEPT !.cabinet = n.cabinet])
              => Service!Claim(d, n.cabinet)
         /\ (/\ p.row = "enabled" /\ p.cabinet # NONE
             /\ n = [p EXCEPT !.cabinet = NONE, !.assignee = NONE])
              => Service!Unlink(d)
         /\ (/\ p.row = "enabled" /\ (n.assignee \in Members => p.cabinet # NONE)
             /\ n = [p EXCEPT !.status = n.status, !.assignee = n.assignee])
              => Service!Work(d, n.status, n.assignee)
         /\ (/\ p.row = "enabled" /\ p.cabinet # NONE /\ n.token # 0
             /\ n = [p EXCEPT !.status = "RESOLVED", !.token = n.token])
              => Service!Resolve(d)
         /\ (/\ p.row # "absent" /\ n = [p EXCEPT !.status = "IN_PROGRESS"])
              => Service!Reopen(d)
         /\ (/\ p.token # 0 /\ p.rating = 0 /\ n = [p EXCEPT !.rating = n.rating])
              => Service!Answer(d, n.rating)
         /\ (/\ p.row = "enabled" /\ n = [p EXCEPT !.row = "disabled"])
              => Service!Delete(d)
<1>. DEFINE a == Entry(p)
            b == Entry(n)
<1>1. /\ a \in EntryRecord /\ b \in EntryRecord
      /\ p \in DemandRow /\ n \in DemandRow
      /\ a.row = p.row /\ a.cabinet = p.cabinet /\ a.assignee = p.assignee
      /\ a.status = p.status /\ a.rating = p.rating /\ (a.surveyed <=> p.token # 0)
      /\ b.row = n.row /\ b.cabinet = n.cabinet /\ b.assignee = n.assignee
      /\ b.status = n.status /\ b.rating = n.rating /\ (b.surveyed <=> n.token # 0)
  BY EntryFields
<1>2. Book[d] = a
  BY BookEntries
<1>3. Book' = [Book EXCEPT ![d] = b]
  BY BookEntries
<1>. HIDE DEF a, b
<1>4. n.token = p.token => b.surveyed = a.surveyed
  BY <1>1 DEF EntryRecord
<1>5. ASSUME p.row = "enabled", p.cabinet = NONE, n = [p EXCEPT !.cabinet = n.cabinet]
      PROVE  Service!Claim(d, n.cabinet)
  <2>1. n.row = p.row /\ n.assignee = p.assignee /\ n.status = p.status
        /\ n.token = p.token /\ n.rating = p.rating
    BY <1>1, <1>5 DEF DemandRow
  <2>2. b = [a EXCEPT !.cabinet = n.cabinet]
    BY <1>1, <1>4, <2>1 DEF EntryRecord
  <2>. QED
    BY <1>1, <1>2, <1>3, <1>5, <2>2 DEF Service!Claim, Service!Open
<1>6. ASSUME p.row = "enabled", p.cabinet # NONE,
             n = [p EXCEPT !.cabinet = NONE, !.assignee = NONE]
      PROVE  Service!Unlink(d)
  <2>1. n.row = p.row /\ n.cabinet = NONE /\ n.assignee = NONE /\ n.status = p.status
        /\ n.token = p.token /\ n.rating = p.rating
    BY <1>1, <1>6 DEF DemandRow
  <2>2. b = [a EXCEPT !.cabinet = NONE, !.assignee = NONE]
    BY <1>1, <1>4, <2>1 DEF EntryRecord
  <2>. QED
    BY <1>1, <1>2, <1>3, <1>6, <2>2 DEF Service!Unlink, Service!Open
<1>7. ASSUME p.row = "enabled", n.assignee \in Members => p.cabinet # NONE,
             n = [p EXCEPT !.status = n.status, !.assignee = n.assignee]
      PROVE  Service!Work(d, n.status, n.assignee)
  <2>1. n.row = p.row /\ n.cabinet = p.cabinet /\ n.token = p.token /\ n.rating = p.rating
    BY <1>1, <1>7 DEF DemandRow
  <2>2. b = [a EXCEPT !.status = n.status, !.assignee = n.assignee]
    <3>1. /\ b.row = a.row /\ b.cabinet = a.cabinet /\ b.status = n.status
          /\ b.assignee = n.assignee /\ b.surveyed = a.surveyed /\ b.rating = a.rating
      BY <1>1, <1>4, <2>1
    <3>2. a \in EntryRecord /\ b \in EntryRecord
      BY <1>1
    <3>. QED
      BY <3>1, <3>2 DEF EntryRecord
  <2>. QED
    BY <1>1, <1>2, <1>3, <1>7, <2>2 DEF Service!Work, Service!Open
<1>8. ASSUME p.row = "enabled", p.cabinet # NONE, n.token # 0,
             n = [p EXCEPT !.status = "RESOLVED", !.token = n.token]
      PROVE  Service!Resolve(d)
  <2>1. n.row = p.row /\ n.cabinet = p.cabinet /\ n.assignee = p.assignee
        /\ n.status = "RESOLVED" /\ n.rating = p.rating
    BY <1>1, <1>8, ScoringAssumption DEF DemandRow
  <2>2. b.surveyed = TRUE
    BY <1>1, <1>8 DEF EntryRecord
  <2>3. b = [a EXCEPT !.status = "RESOLVED", !.surveyed = TRUE]
    <3>1. /\ b.row = a.row /\ b.cabinet = a.cabinet /\ b.status = "RESOLVED"
          /\ b.assignee = a.assignee /\ b.rating = a.rating
      BY <1>1, <2>1
    <3>2. a \in EntryRecord /\ b \in EntryRecord
      BY <1>1
    <3>. QED
      BY <2>2, <3>1, <3>2 DEF EntryRecord
  <2>. QED
    BY <1>1, <1>2, <1>3, <1>8, <2>3 DEF Service!Resolve, Service!Open
<1>9. ASSUME p.row # "absent", n = [p EXCEPT !.status = "IN_PROGRESS"]
      PROVE  Service!Reopen(d)
  <2>1. n.row = p.row /\ n.cabinet = p.cabinet /\ n.assignee = p.assignee
        /\ n.status = "IN_PROGRESS" /\ n.token = p.token /\ n.rating = p.rating
    BY <1>1, <1>9 DEF DemandRow
  <2>2. b = [a EXCEPT !.status = "IN_PROGRESS"]
    BY <1>1, <1>4, <2>1 DEF EntryRecord
  <2>. QED
    BY <1>1, <1>2, <1>3, <1>9, <2>2 DEF Service!Reopen
<1>10. ASSUME p.token # 0, p.rating = 0, n = [p EXCEPT !.rating = n.rating]
       PROVE  Service!Answer(d, n.rating)
  <2>1. n.row = p.row /\ n.cabinet = p.cabinet /\ n.assignee = p.assignee
        /\ n.status = p.status /\ n.token = p.token
    BY <1>1, <1>10 DEF DemandRow
  <2>2. b = [a EXCEPT !.rating = n.rating]
    BY <1>1, <1>4, <2>1 DEF EntryRecord
  <2>. QED
    BY <1>1, <1>2, <1>3, <1>10, <2>2 DEF Service!Answer
<1>11. ASSUME p.row = "enabled", n = [p EXCEPT !.row = "disabled"]
       PROVE  Service!Delete(d)
  <2>1. n.row = "disabled" /\ n.cabinet = p.cabinet /\ n.assignee = p.assignee
        /\ n.status = p.status /\ n.token = p.token /\ n.rating = p.rating
    BY <1>1, <1>11 DEF DemandRow
  <2>2. b = [a EXCEPT !.row = "disabled"]
    BY <1>1, <1>4, <2>1 DEF EntryRecord
  <2>. QED
    BY <1>1, <1>2, <1>3, <1>11, <2>2 DEF Service!Delete, Service!Open
<1> QED
  BY <1>5, <1>6, <1>7, <1>8, <1>9, <1>10, <1>11

LEMMA RequestWriteServes ==
  ASSUME SerialInv, SerialInv', NEW r \in Requests,
         \/ ClaimWrite(r) \/ AssignWrite(r) \/ UnlinkWrite(r) \/ ProgressWrite(r)
         \/ PatchWrite(r) \/ DeleteWrite(r) \/ SurveyWrite(r)
  PROVE  Service!Next
<1>. USE DEF SerialInv, LinkInv, RowInv
<1>0. /\ req[r] \in Request /\ req[r] \in RequestRecord
      /\ demand \in [Demands -> DemandRow] /\ demand' \in [Demands -> DemandRow]
  BY RequestFields DEF TypeOK
<1>. DEFINE q == req[r]
            d == q.demand
            p == demand[d]
            n == demand'[d]
<1>1. d \in Demands /\ p \in DemandRow /\ n \in DemandRow
  <2>1. q.op \in OnDemand
    BY DEF ClaimWrite, AssignWrite, UnlinkWrite, ProgressWrite, PatchWrite, DeleteWrite,
           SurveyWrite, AtStep, OnDemand
  <2>. QED
    BY <1>0, <2>1 DEF LoadedExist, Exists
<1>2. \A e \in Demands \ {d} : demand'[e] = demand[e]
  BY <1>0 DEF ClaimWrite, AssignWrite, UnlinkWrite, ProgressWrite, PatchWrite, DeleteWrite,
              SurveyWrite
<1>3. /\ Entitled(q) /\ Minting(q) /\ LinkIsReal(q)
      /\ q.op # "survey" =>
           /\ p.row = "enabled" /\ p.cabinet = q.seen.cabinet /\ p.token = q.seen.token
  BY DEF ClaimWrite, AssignWrite, UnlinkWrite, ProgressWrite, PatchWrite, DeleteWrite,
         SurveyWrite, AtStep, StillLoaded, OnDemand
<1>4. /\ p.assignee # NONE => p.cabinet # NONE
      /\ n.assignee # NONE => n.cabinet # NONE
      /\ NONE \notin Members \cup Cabinets
  BY <1>1, LifecycleAssumption DEF AssigneesAreOwned
<1>5. CASE ClaimWrite(r)
  <2>1. /\ p.cabinet = NONE /\ p.row = "enabled" /\ q.cabinet \in Cabinets
        /\ n = [p EXCEPT !.cabinet = q.cabinet]
    BY <1>0, <1>1, <1>3, <1>5 DEF ClaimWrite, AtStep, Entitled
  <2>2. n.cabinet = q.cabinet /\ n.row = p.row
    BY <1>1, <2>1 DEF DemandRow
  <2>3. Service!Claim(d, q.cabinet)
    BY <1>0, <1>1, <1>2, <2>1, <2>2, ServiceOperations
  <2>. QED
    BY <1>1, <2>1, <2>3 DEF Service!Next
<1>6. CASE AssignWrite(r)
  <2>1. /\ p.cabinet # NONE /\ p.row = "enabled" /\ q.member \in Members \cup {NONE}
        /\ n = [p EXCEPT !.assignee = q.member]
    BY <1>0, <1>1, <1>3, <1>6 DEF AssignWrite, AtStep, Entitled, Request
  <2>2. n.status = p.status /\ n.assignee = q.member /\ n.row = p.row
        /\ n = [p EXCEPT !.status = n.status, !.assignee = n.assignee]
    BY <1>1, <2>1 DEF DemandRow
  <2>3. Service!Work(d, n.status, n.assignee)
    BY <1>0, <1>1, <1>2, <2>1, <2>2, ServiceOperations
  <2>. QED
    BY <1>1, <2>3 DEF Service!Next, DemandRow
<1>7. CASE UnlinkWrite(r)
  <2>1. /\ p.cabinet # NONE /\ p.row = "enabled"
        /\ n = [p EXCEPT !.cabinet = NONE, !.assignee = NONE]
    BY <1>0, <1>1, <1>3, <1>7 DEF UnlinkWrite, AtStep, Entitled
  <2>2. n.row = p.row
    BY <1>1, <2>1 DEF DemandRow
  <2>3. Service!Unlink(d)
    BY <1>0, <1>1, <1>2, <2>1, <2>2, ServiceOperations
  <2>. QED
    BY <1>1, <2>3 DEF Service!Next
<1>8. CASE ProgressWrite(r)
  <2>1. /\ p.cabinet # NONE /\ p.row = "enabled" /\ q.status \in Statuses
        /\ q.op = "progress" /\ q.step = "checked"
    BY <1>0, <1>3, <1>8 DEF ProgressWrite, AtStep, Entitled, Request
  <2>2. /\ n.row = p.row /\ n.cabinet = p.cabinet /\ n.assignee = p.assignee
        /\ n.status = q.status /\ n.rating = p.rating
        /\ n.token = IF q.token = 0 THEN p.token ELSE q.token
    BY <1>0, <1>1, <1>8, <2>1 DEF ProgressWrite, DemandRow
  <2>3. CASE q.status = "RESOLVED"
    <3>1. n.token # 0
      BY <1>3, <2>1, <2>2, <2>3 DEF LinkIsReal
    <3>2. n = [p EXCEPT !.status = "RESOLVED", !.token = n.token]
      BY <1>1, <2>2, <2>3 DEF DemandRow
    <3>3. Service!Resolve(d)
      BY <1>0, <1>1, <1>2, <2>1, <2>2, <3>1, <3>2, ServiceOperations
    <3>. QED
      BY <1>1, <3>3 DEF Service!Next
  <2>4. CASE q.status # "RESOLVED"
    <3>1. n.token = p.token
      BY <1>3, <2>1, <2>2, <2>4 DEF Minting
    <3>2. n = [p EXCEPT !.status = n.status, !.assignee = n.assignee]
      BY <1>1, <2>2, <3>1 DEF DemandRow
    <3>3. Service!Work(d, n.status, n.assignee)
      BY <1>0, <1>1, <1>2, <2>1, <2>2, <3>2, ServiceOperations
    <3>. QED
      BY <1>1, <3>3 DEF Service!Next, DemandRow
  <2>. QED
    BY <2>3, <2>4
<1>9. CASE PatchWrite(r)
  <2>1. p.row = "enabled"
    BY <1>3, <1>9 DEF PatchWrite, AtStep
  <2>2. /\ n.row = p.row /\ n.cabinet = p.cabinet /\ n.token = p.token /\ n.rating = p.rating
    BY <1>0, <1>1, <1>9 DEF PatchWrite, DemandRow
  <2>3. n = [p EXCEPT !.status = n.status, !.assignee = n.assignee]
    BY <1>1, <2>2 DEF DemandRow
  <2>4. n.assignee \in Members => p.cabinet # NONE
    BY <1>4, <2>2
  <2>5. Service!Work(d, n.status, n.assignee)
    BY <1>0, <1>1, <1>2, <2>1, <2>2, <2>3, <2>4, ServiceOperations
  <2>. QED
    BY <1>1, <2>5 DEF Service!Next, DemandRow
<1>10. CASE DeleteWrite(r)
  <2>1. p.row = "enabled" /\ n = [p EXCEPT !.row = "disabled"]
    BY <1>0, <1>1, <1>3, <1>10 DEF DeleteWrite, AtStep
  <2>2. n.row = "disabled"
    BY <1>1, <2>1 DEF DemandRow
  <2>3. Service!Delete(d)
    BY <1>0, <1>1, <1>2, <2>1, <2>2, ServiceOperations
  <2>. QED
    BY <1>1, <2>3 DEF Service!Next
<1>11. CASE SurveyWrite(r)
  <2>1. /\ p.token # 0 /\ p.rating = 0 /\ q.rating \in Ratings
        /\ n = [p EXCEPT !.rating = q.rating]
    BY <1>0, <1>1, <1>3, <1>11 DEF SurveyWrite, AtStep, Entitled, AnswersHaveLinks
  <2>2. n.rating = q.rating /\ n.row = p.row
    BY <1>1, <2>1 DEF DemandRow
  <2>3. n = [p EXCEPT !.rating = n.rating]
    BY <2>1, <2>2
  <2>4. Service!Answer(d, n.rating)
    BY <1>0, <1>1, <1>2, <2>1, <2>2, <2>3, ServiceOperations
  <2>. QED
    BY <1>1, <2>1, <2>2, <2>4 DEF Service!Next
<1> QED
  BY <1>5, <1>6, <1>7, <1>8, <1>9, <1>10, <1>11

LEMMA CreateServes ==
  ASSUME RowInv, TypeOK', NEW d \in Demands, NEW c \in Cabinets \cup {NONE}, CreateDemand(d, c)
  PROVE  Service!Next
<1>1. /\ demand \in [Demands -> DemandRow] /\ demand' \in [Demands -> DemandRow]
      /\ demand[d] = NoDemand
  BY DEF RowInv, TypeOK, BlankRows, CreateDemand
<1>2. /\ \A e \in Demands \ {d} : demand'[e] = demand[e]
      /\ demand'[d] = [NoDemand EXCEPT !.row = "enabled", !.cabinet = c]
  BY <1>1 DEF CreateDemand
<1>. DEFINE a == Entry(demand[d])
            b == Entry(demand'[d])
<1>3. a \in EntryRecord /\ b \in EntryRecord
  BY <1>1, EntryFields
<1>4. a = Service!Blank
  <2>1. Service!Blank \in EntryRecord
    BY ScoringAssumption DEF Service!Blank, EntryRecord, Row
  <2>2. /\ a.row = "absent" /\ a.cabinet = NONE /\ a.assignee = NONE /\ a.status = "SUBMITTED"
        /\ a.surveyed = FALSE /\ a.rating = 0
    <3>1. demand[d].token = 0
      BY <1>1 DEF NoDemand
    <3>2. a.surveyed = FALSE
      BY <1>1, <1>3, <3>1, EntryFields DEF EntryRecord
    <3>. QED
      BY <1>1, <3>2, EntryFields DEF NoDemand
  <2>. HIDE DEF a
  <2>3. a = [row |-> "absent", cabinet |-> NONE, assignee |-> NONE, status |-> "SUBMITTED",
             surveyed |-> FALSE, rating |-> 0]
    BY <1>3, <2>2 DEF EntryRecord
  <2>. QED
    BY <2>3 DEF Service!Blank
<1>5. b = [a EXCEPT !.row = "enabled", !.cabinet = c]
  <2>1. /\ b.row = "enabled" /\ b.cabinet = c /\ b.assignee = a.assignee
        /\ b.status = a.status /\ b.rating = a.rating /\ (b.surveyed <=> a.surveyed)
    <3>1. demand[d] \in DemandRow /\ demand'[d] \in DemandRow
      BY <1>1
    <3>2. /\ demand'[d].row = "enabled" /\ demand'[d].cabinet = c
          /\ demand'[d].assignee = demand[d].assignee /\ demand'[d].status = demand[d].status
          /\ demand'[d].rating = demand[d].rating /\ demand'[d].token = demand[d].token
      BY <1>1, <1>2 DEF NoDemand
    <3>. QED
      BY <3>1, <3>2, EntryFields
  <2>. HIDE DEF a, b
  <2>2. b.surveyed = a.surveyed
    BY <1>3, <2>1 DEF EntryRecord
  <2>. QED
    BY <1>3, <2>1, <2>2 DEF EntryRecord
<1>6. Book[d] = a /\ Book' = [Book EXCEPT ![d] = b]
  BY <1>1, <1>2, BookEntries
<1>. HIDE DEF a, b
<1>7. Service!Submit(d, c)
  BY <1>4, <1>5, <1>6 DEF Service!Submit
<1> QED
  BY <1>7 DEF Service!Next

LEMMA ReopenServes ==
  ASSUME RowInv, TypeOK', NEW d \in Demands, ReopenWrite(d)
  PROVE  Service!Next
<1>1. /\ demand \in [Demands -> DemandRow] /\ demand' \in [Demands -> DemandRow]
      /\ demand[d] \in DemandRow
  BY DEF RowInv, TypeOK
<1>2. demand[d].row # "absent"
  BY DEF RowInv, TasksExist, ReopenWrite, BagIn, BagToSet, Task, Exists
<1>3. /\ \A e \in Demands \ {d} : demand'[e] = demand[e]
      /\ demand'[d] = [demand[d] EXCEPT !.status = "IN_PROGRESS"]
  BY <1>1 DEF ReopenWrite
<1>4. demand'[d].row = demand[d].row
  BY <1>1, <1>3 DEF DemandRow
<1>5. Service!Reopen(d)
  BY <1>1, <1>2, <1>3, <1>4, ServiceOperations
<1> QED
  BY <1>5 DEF Service!Next

LEMMA LeaveServes ==
  ASSUME TypeOK, TypeOK', NEW m \in Members, RemoveMember(m)
  PROVE  Service!Next
<1>1. /\ demand \in [Demands -> DemandRow] /\ demand' \in [Demands -> DemandRow]
  BY DEF TypeOK
<1>2. ASSUME NEW d \in Demands
      PROVE  Entry(demand'[d]) = IF Entry(demand[d]).assignee = m
                                 THEN [Entry(demand[d]) EXCEPT !.assignee = NONE]
                                 ELSE Entry(demand[d])
  <2>. DEFINE a == Entry(demand[d])
              b == Entry(demand'[d])
  <2>0. /\ demand[d] \in DemandRow /\ demand'[d] \in DemandRow
        /\ a \in EntryRecord /\ b \in EntryRecord /\ a.assignee = demand[d].assignee
    BY <1>1, EntryFields
  <2>1. CASE demand[d].assignee = m
    <3>1. /\ demand'[d].row = demand[d].row /\ demand'[d].cabinet = demand[d].cabinet
          /\ demand'[d].assignee = NONE /\ demand'[d].status = demand[d].status
          /\ demand'[d].token = demand[d].token /\ demand'[d].rating = demand[d].rating
      BY <2>0, <2>1 DEF RemoveMember, DemandRow
    <3>2. /\ b.row = a.row /\ b.cabinet = a.cabinet /\ b.assignee = NONE
          /\ b.status = a.status /\ b.rating = a.rating /\ (b.surveyed <=> a.surveyed)
      BY <2>0, <3>1, EntryFields
    <3>. HIDE DEF a, b
    <3>3. b.surveyed = a.surveyed
      BY <2>0, <3>2 DEF EntryRecord
    <3>4. b = [a EXCEPT !.assignee = NONE]
      BY <2>0, <3>2, <3>3 DEF EntryRecord
    <3>. QED
      BY <2>0, <2>1, <3>4 DEF a, b
  <2>2. CASE demand[d].assignee # m
    <3>1. demand'[d] = demand[d]
      BY <2>2 DEF RemoveMember
    <3>. QED
      BY <2>0, <2>2, <3>1
  <2>. QED
    BY <2>1, <2>2
<1>3. Service!Leave(m)
  BY <1>1, <1>2, BookEntries DEF Service!Leave
<1> QED
  BY <1>3 DEF Service!Next

LEMMA ServiceStep ==
  ASSUME SerialInv, SerialInv', [Next]_vars
  PROVE  [Service!Next]_Book
<1>1. RowInv /\ TypeOK /\ TypeOK'
  BY DEF SerialInv, LinkInv, RowInv
<1>2. CASE UNCHANGED demand
  BY <1>1, <1>2, BookEntries DEF TypeOK
<1>3. CASE \E d \in Demands, c \in Cabinets \cup {NONE} : CreateDemand(d, c)
  BY <1>1, <1>3, CreateServes
<1>4. CASE \E r \in Requests : \/ ClaimWrite(r) \/ AssignWrite(r) \/ UnlinkWrite(r)
                               \/ ProgressWrite(r) \/ PatchWrite(r) \/ DeleteWrite(r)
                               \/ SurveyWrite(r)
  BY <1>4, RequestWriteServes
<1>5. CASE \E d \in Demands : ReopenWrite(d)
  BY <1>1, <1>5, ReopenServes
<1>6. CASE \E m \in Members : JoinMember(m) \/ RemoveMember(m)
  <2>1. \A m \in Members : JoinMember(m) => UNCHANGED demand
    BY DEF JoinMember
  <2>. QED
    BY <1>1, <1>2, <1>6, <2>1, LeaveServes
<1> QED
  BY <1>2, <1>3, <1>4, <1>5, <1>6, DemandWriters

LEMMA ServiceInit == Init => Service!Init
<1> SUFFICES ASSUME Init PROVE Service!Init
  OBVIOUS
<1>1. TypeOK /\ demand \in [Demands -> DemandRow] /\ demand \in [Demands -> StartRow]
  BY InitType DEF TypeOK, Init
<1>2. Book = [d \in Demands |-> Entry(demand[d])]
  BY DEF Book, Entry
<1>3. ASSUME NEW d \in Demands
      PROVE  Entry(demand[d]) \in Service!OpenStates \cup {Service!Blank}
  <2>. DEFINE a == Entry(demand[d])
  <2>1. demand[d] \in DemandRow /\ demand[d] \in StartRow
    BY <1>1
  <2>2. /\ a \in EntryRecord
        /\ a.row = demand[d].row /\ a.cabinet = demand[d].cabinet
        /\ a.assignee = demand[d].assignee /\ a.status = demand[d].status
        /\ a.rating = demand[d].rating /\ (a.surveyed <=> demand[d].token # 0)
    BY <2>1, EntryFields
  <2>. HIDE DEF a
  <2>3. a.rating = 0 /\ demand[d].token = 0
    BY <2>1, <2>2 DEF StartRow, NoDemand
  <2>4. a.surveyed = FALSE
    BY <2>2, <2>3 DEF EntryRecord
  <2>5. CASE demand[d] = NoDemand
    <3>1. a.row = "absent" /\ a.cabinet = NONE /\ a.assignee = NONE /\ a.status = "SUBMITTED"
      BY <2>2, <2>5 DEF NoDemand
    <3>2. a = [row |-> "absent", cabinet |-> NONE, assignee |-> NONE, status |-> "SUBMITTED",
               surveyed |-> FALSE, rating |-> 0]
      BY <2>2, <2>3, <2>4, <3>1 DEF EntryRecord
    <3>. QED
      BY <3>2 DEF Service!Blank, a
  <2>6. CASE demand[d] # NoDemand
    <3>1. a.row = "enabled"
      BY <2>1, <2>2, <2>6 DEF StartRow
    <3>2. a \in Service!OpenStates
      BY <2>2, <2>3, <2>4, <3>1 DEF EntryRecord, Service!OpenStates
    <3>. QED
      BY <3>2 DEF a
  <2>. QED
    BY <2>5, <2>6
<1>4. ASSUME NEW d \in Demands, Book[d].cabinet = NONE
      PROVE  Book[d].assignee = NONE
  <2>1. Book[d].cabinet = demand[d].cabinet /\ Book[d].assignee = demand[d].assignee
    BY <1>1, <1>2, EntryFields
  <2>. QED
    BY <1>4, <2>1, SerialInit DEF SerialInv, AssigneesAreOwned
<1>5. ASSUME NEW d \in Demands, Service!Open(d)
      PROVE  Book[d].status = StartStatus[d]
  <2>1. Book[d].row = demand[d].row /\ Book[d].status = demand[d].status
    BY <1>1, <1>2, EntryFields
  <2>. QED
    BY <1>5, <2>1 DEF Init, Service!Open
<1> QED
  BY <1>2, <1>3, <1>4, <1>5 DEF Service!Init

(* Served one after the other, with listeners, members who leave and        *)
(* crashes in between, requests do to the table demands exactly what        *)
(* DemandService allows: every step is one of its operations, or no step.   *)
THEOREM ServiceImplemented == ASSUME OneSlot PROVE Spec => ImplementsService
<1>1. SerialInv /\ SerialInv' /\ [Next]_vars => [Service!Next]_Book
  BY ServiceStep
<1>. QED
  BY <1>1, ServiceInit, SerialInvariant, PTL DEF Spec, ImplementsService, Service!Spec
=============================================================================
