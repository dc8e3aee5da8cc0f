-------------------------- MODULE DemandLifecycle ---------------------------
(***************************************************************************)
(* A demand from its creation to its resolution: who owns it (cabinetId),  *)
(* who answers for it (assigneeMemberId), its status, its satisfaction     *)
(* survey, the results published for it, and the listeners that react to   *)
(* the events its handlers emit.                                           *)
(*                                                                         *)
(* No handler of modules/demands or modules/results opens a transaction:   *)
(* each reads rows, decides, and writes later by id.  A request in         *)
(* progress is a record in one of the slots Requests; every database       *)
(* round trip that matters is an action of its own, so the steps of two    *)
(* requests, of the listeners and of a crash interleave.  With one slot    *)
(* requests are served one after the other (listeners still overlap them). *)
(*                                                                         *)
(* A check that refuses a request, an exception of the database and a      *)
(* check on state kept by other modules (plan limits, subscription) all    *)
(* end the request without a further write: that is action Fail.           *)
(***************************************************************************)
EXTENDS CabinetScoring, FiniteSets

CONSTANTS
  Demands,      \* ids of demand rows
  Users,        \* users who send requests
  Admins,       \* those of them with role ADMIN
  Members,      \* ids of cabinet_members rows
  UserOf,       \* column user_id of each membership
  CabinetOf,    \* column cabinet_id of each membership
  Results,      \* ids of result rows
  Ratings,      \* ratings a survey accepts (1..5 in the code)
  Requests,     \* slots of requests served at the same time
  KEEP,         \* a field the request leaves undefined
  StartStatus,  \* the status each demand starts with, if it is there
  MaxRequests,  \* bound: requests accepted in a behaviour
  MayCrash      \* whether the process may crash and restart

ASSUME LifecycleAssumption ==
  /\ Admins \subseteq Users
  /\ UserOf \in [Members -> Users]
  /\ CabinetOf \in [Members -> Cabinets]
  /\ NONE \notin Members \cup Cabinets
  /\ Ratings \subseteq Nat \ {0}
  /\ StartStatus \in [Demands -> Statuses]
  /\ MaxRequests \in Nat
  /\ MayCrash \in BOOLEAN

VARIABLES
  demand,       \* table demands
  result,       \* table results
  memberRow,    \* table cabinet_members: is the row there
  req,          \* the request in each slot
  reopenTasks,  \* bag of running result.deleted listeners
  mailed,       \* <<demand, token>>: survey links handed to the mailer
  minted,       \* survey tokens generated so far (randomUUID never repeats)
  issued        \* requests accepted so far

vars == <<demand, result, memberRow, req, reopenTasks, mailed, minted, issued,
          counters, scoreTasks>>

-----------------------------------------------------------------------------
(* Rows. Token 0 and rating 0 stand for null. *)

Row == {"absent", "enabled", "disabled"}

DemandRow == [row : Row, cabinet : Cabinets \cup {NONE},
              assignee : Members \cup {NONE}, status : Statuses,
              token : Nat, rating : Nat]

ResultRow == [row : Row, cabinet : Cabinets \cup {NONE}, demand : Demands \cup {NONE}]

RequestRecord ==
  [op : {"none", "claim", "assign", "unlink", "progress", "patch", "delete",
         "createResult", "updateResult", "deleteResult", "survey"},
   step : {"idle", "read", "checked", "written"},
   user : Users \cup {NONE},
   demand : Demands \cup {NONE},
   result : Results \cup {NONE},
   seen : DemandRow,                  \* the row findById returned
   cabinet : Cabinets \cup {NONE},
   status : Statuses \cup {NONE},
   member : Members \cup {NONE, KEEP},
   token : Nat,
   rating : Nat]

Request ==
  {q \in RequestRecord :
     /\ q.op = "assign" => q.member \in Members \cup {NONE}
     /\ q.op = "progress" => q.status \in Statuses /\ q.demand \in Demands}

ReopenTask == [demand : Demands, step : {"queued", "resolved", "empty"}]

TypeOK ==
  /\ ScoringTypeOK
  /\ demand \in [Demands -> DemandRow]
  /\ result \in [Results -> ResultRow]
  /\ memberRow \in [Members -> {"unused", "active", "removed"}]
  /\ req \in [Requests -> Request]
  /\ IsABag(reopenTasks) /\ DOMAIN reopenTasks \subseteq ReopenTask
  /\ mailed \subseteq Demands \X Nat
  /\ minted \in Nat
  /\ issued \in Nat

NoDemand == [row |-> "absent", cabinet |-> NONE, assignee |-> NONE,
             status |-> "SUBMITTED", token |-> 0, rating |-> 0]

NoResult == [row |-> "absent", cabinet |-> NONE, demand |-> NONE]

NoRequest == [op |-> "none", step |-> "idle", user |-> NONE, demand |-> NONE,
              result |-> NONE, seen |-> NoDemand, cabinet |-> NONE,
              status |-> NONE, member |-> KEEP, token |-> 0, rating |-> 0]

Active(m) == memberRow[m] = "active"

(* findMembership: user_id and cabinet_id are unique together. *)
MembershipOf(u, c) == {m \in Members : Active(m) /\ UserOf[m] = u /\ CabinetOf[m] = c}

(* DemandAccessGuard, in front of assign, update and delete. *)
MayManage(u, d) ==
  \/ u \in Admins
  \/ demand[d].cabinet # NONE /\ MembershipOf(u, demand[d].cabinet) # {}

ResultsOf(d) == {x \in Results : result[x].row = "enabled" /\ result[x].demand = d}

(* Rows as creation, claim, assignment and PATCH leave them: no survey yet. *)
StartRow ==
  {NoDemand} \cup
  [row : {"enabled"}, cabinet : Cabinets \cup {NONE}, assignee : Members \cup {NONE},
   status : Statuses, token : {0}, rating : {0}]

(* A result a cabinet has published for a demand it owns. *)
StartResult ==
  {NoResult} \cup [row : {"enabled"}, cabinet : Cabinets, demand : Demands]

Init ==
  /\ ScoringInit
  /\ memberRow \in [Members -> {"unused", "active"}]
  /\ \A m, n \in Members : Active(m) /\ Active(n) /\ UserOf[m] = UserOf[n]
                             /\ CabinetOf[m] = CabinetOf[n] => m = n
  /\ demand \in [Demands -> StartRow]
  /\ \A d \in Demands : demand[d].row = "enabled" => demand[d].status = StartStatus[d]
  /\ \A d \in Demands : demand[d].assignee # NONE =>
       Active(demand[d].assignee) /\ CabinetOf[demand[d].assignee] = demand[d].cabinet
  /\ result \in [Results -> StartResult]
  /\ \A x \in Results : result[x].row = "enabled" =>
       /\ demand[result[x].demand].row = "enabled"
       /\ demand[result[x].demand].cabinet = result[x].cabinet
  /\ req = [r \in Requests |-> NoRequest]
  /\ reopenTasks = EmptyBag
  /\ mailed = {} /\ minted = 0 /\ issued = 0

-----------------------------------------------------------------------------
(* The steps every request is made of. *)

Accept(r, request) ==
  /\ req[r] = NoRequest
  /\ issued < MaxRequests
  /\ issued' = issued + 1
  /\ req' = [req EXCEPT ![r] = request]

AtStep(r, op, step) == req[r].op = op /\ req[r].step = step

Checked(r) == req' = [req EXCEPT ![r].step = "checked"]

Written(r) == req' = [req EXCEPT ![r].step = "written"]

Finish(r) == req' = [req EXCEPT ![r] = NoRequest]

(* A request that starts by loading an enabled demand (findById). *)
Loading(op, u, d) == [NoRequest EXCEPT !.op = op, !.step = "read", !.user = u,
                                       !.demand = d, !.seen = demand[d]]

(* A foreign key to cabinet_members: null, or a row that exists.         *)
References(m) == m \in Members => Active(m)

tables == <<demand, result, memberRow>>
events == <<counters, scoreTasks, reopenTasks, mailed>>

Fail(r) ==
  /\ req[r] # NoRequest
  /\ Finish(r)
  /\ UNCHANGED <<tables, events, minted, issued>>

-----------------------------------------------------------------------------
(* POST /demands.  Only the insert touches this module's state. *)
CreateDemand(d, c) ==
  /\ issued < MaxRequests
  /\ demand[d].row = "absent"
  /\ demand' = [demand EXCEPT ![d] = [NoDemand EXCEPT !.row = "enabled", !.cabinet = c]]
  /\ issued' = issued + 1
  /\ UNCHANGED <<result, memberRow, req, events, minted>>

(* POST /demands/:id/claim *)
ClaimReadAnyDemand(r, u, d) ==     \* variant: the owner is not looked at
  /\ demand[d].row = "enabled"
  /\ Accept(r, Loading("claim", u, d))
  /\ UNCHANGED <<tables, events, minted>>

ClaimRead(r, u, d) ==
  /\ demand[d].row = "enabled"
  /\ demand[d].cabinet = NONE
  /\ Accept(r, Loading("claim", u, d))
  /\ UNCHANGED <<tables, events, minted>>

(* memberships[0] of an unordered list: any cabinet of the user. *)
ClaimCheck(r) ==
  /\ AtStep(r, "claim", "read")
  /\ \E m \in Members :
       /\ Active(m) /\ UserOf[m] = req[r].user
       /\ req' = [req EXCEPT ![r].step = "checked", ![r].cabinet = CabinetOf[m]]
  /\ UNCHANGED <<tables, events, minted, issued>>

(* claimDemandAtomic updates by id alone. *)
ClaimWrite(r) ==
  /\ AtStep(r, "claim", "checked")
  /\ demand' = [demand EXCEPT ![req[r].demand].cabinet = req[r].cabinet]
  /\ Finish(r)
  /\ UNCHANGED <<result, memberRow, events, minted, issued>>

(* PATCH /demands/:id/assign, m = NONE unassigns. *)
AssignRead(r, u, d, m) ==
  /\ demand[d].row = "enabled"
  /\ demand[d].cabinet # NONE
  /\ MayManage(u, d)
  /\ Accept(r, [Loading("assign", u, d) EXCEPT !.member = m])
  /\ UNCHANGED <<tables, events, minted>>

AssignCheck(r) ==
  /\ AtStep(r, "assign", "read")
  /\ MembershipOf(req[r].user, req[r].seen.cabinet) # {}
  /\ req[r].member # NONE =>
       Active(req[r].member) /\ CabinetOf[req[r].member] = req[r].seen.cabinet
  /\ Checked(r)
  /\ UNCHANGED <<tables, events, minted, issued>>

AssignWrite(r) ==
  /\ AtStep(r, "assign", "checked")
  /\ References(req[r].member)
  /\ demand' = [demand EXCEPT ![req[r].demand].assignee = req[r].member]
  /\ Finish(r)
  /\ UNCHANGED <<result, memberRow, events, minted, issued>>

(* PATCH /demands/:id/unlink *)
UnlinkRead(r, u, d) ==
  /\ demand[d].row = "enabled"
  /\ demand[d].cabinet # NONE
  /\ Accept(r, Loading("unlink", u, d))
  /\ UNCHANGED <<tables, events, minted>>

UnlinkCheck(r) ==
  /\ AtStep(r, "unlink", "read")
  /\ MembershipOf(req[r].user, req[r].seen.cabinet) # {}
  /\ Checked(r)
  /\ UNCHANGED <<tables, events, minted, issued>>

UnlinkWrite(r) ==
  /\ AtStep(r, "unlink", "checked")
  /\ demand' = [demand EXCEPT ![req[r].demand].cabinet = NONE,
                              ![req[r].demand].assignee = NONE]
  /\ Finish(r)
  /\ UNCHANGED <<result, memberRow, events, minted, issued>>

-----------------------------------------------------------------------------
(* PATCH /demands/:id/progress, by the demand's assignee. *)
ProgressRead(r, u, d, s) ==
  /\ demand[d].row = "enabled"
  /\ demand[d].cabinet # NONE
  /\ Accept(r, [Loading("progress", u, d) EXCEPT !.status = s])
  /\ UNCHANGED <<tables, events, minted>>

ProgressCheckAlwaysMints(r) ==     \* variant: each resolution makes a new token
  /\ AtStep(r, "progress", "read")
  /\ req[r].seen.assignee \in MembershipOf(req[r].user, req[r].seen.cabinet)
  /\ req[r].status = "RESOLVED" => ResultsOf(req[r].demand) # {}
  /\ IF req[r].status = "RESOLVED"
     THEN /\ minted' = minted + 1
          /\ req' = [req EXCEPT ![r].step = "checked", ![r].token = minted + 1]
     ELSE Checked(r) /\ UNCHANGED minted
  /\ UNCHANGED <<tables, events, issued>>

ProgressCheckReusesToken(r) ==     \* variant: the same token is generated again
  /\ AtStep(r, "progress", "read")
  /\ req[r].seen.assignee \in MembershipOf(req[r].user, req[r].seen.cabinet)
  /\ req[r].status = "RESOLVED" => ResultsOf(req[r].demand) # {}
  /\ IF req[r].status = "RESOLVED" /\ req[r].seen.token = 0
     THEN req' = [req EXCEPT ![r].step = "checked", ![r].token = minted + 1]
     ELSE Checked(r)
  /\ UNCHANGED <<tables, events, minted, issued>>

ProgressCheck(r) ==
  /\ AtStep(r, "progress", "read")
  /\ req[r].seen.assignee \in MembershipOf(req[r].user, req[r].seen.cabinet)
  /\ req[r].status = "RESOLVED" => ResultsOf(req[r].demand) # {}
  /\ IF req[r].status = "RESOLVED" /\ req[r].seen.token = 0
     THEN /\ minted' = minted + 1
          /\ req' = [req EXCEPT ![r].step = "checked", ![r].token = minted + 1]
     ELSE Checked(r) /\ UNCHANGED minted
  /\ UNCHANGED <<tables, events, issued>>

(* Without a new token the column is left out of the update. *)
ProgressWrite(r) ==
  /\ AtStep(r, "progress", "checked")
  /\ LET d == req[r].demand IN
       demand' = [demand EXCEPT ![d].status = req[r].status,
                                ![d].token = IF req[r].token = 0 THEN @ ELSE req[r].token]
  /\ Written(r)
  /\ UNCHANGED <<result, memberRow, events, minted, issued>>

(* DemandEmailListener mails the link of the payload. *)
SendSurveyLink(d, link) == mailed' = mailed \cup {<<d, link>>}

(* After the comment is stored: the events, if the status seen differs. *)
ProgressPublish(r) ==
  LET q == req[r]
      link == IF q.token # 0 THEN q.token ELSE q.seen.token
  IN
  /\ AtStep(r, "progress", "written")
  /\ Finish(r)
  /\ IF q.status = q.seen.status
     THEN UNCHANGED <<scoreTasks, mailed>>
     ELSE /\ EmitStatusChanged(q.seen.cabinet, q.seen.status, q.status)
          /\ IF q.status = "RESOLVED" THEN SendSurveyLink(q.demand, link)
                                      ELSE UNCHANGED mailed
  /\ UNCHANGED <<tables, counters, reopenTasks, minted, issued>>

(* PATCH /demands/:id with a status (s # NONE), an assignee (m # KEEP) or both. *)
PatchRead(r, u, d, s, m) ==
  /\ demand[d].row = "enabled"
  /\ MayManage(u, d)
  /\ Accept(r, [Loading("patch", u, d) EXCEPT !.status = s, !.member = m])
  /\ UNCHANGED <<tables, events, minted>>

(* Who is not a member of the demand's cabinet has both fields dropped; a  *)
(* request that only unassigns is not looked at.                           *)
PatchCheck(r) ==
  LET q == req[r]
      authorized == q.seen.cabinet # NONE /\ MembershipOf(q.user, q.seen.cabinet) # {}
      unassignsOnly == q.status = NONE /\ q.member = NONE
  IN
  /\ AtStep(r, "patch", "read")
  /\ IF authorized \/ unassignsOnly
     THEN Checked(r)
     ELSE req' = [req EXCEPT ![r].step = "checked", ![r].status = NONE, ![r].member = KEEP]
  /\ UNCHANGED <<tables, events, minted, issued>>

PatchWriteNullsStatus(r) ==     \* variant: a missing status is written as null
  LET q == req[r] IN
  /\ AtStep(r, "patch", "checked")
  /\ References(q.member)
  /\ demand' = [demand EXCEPT ![q.demand].status = q.status,
                              ![q.demand].assignee = IF q.member = KEEP THEN @ ELSE q.member]
  /\ Written(r)
  /\ UNCHANGED <<result, memberRow, events, minted, issued>>

PatchWriteWholeRow(r) ==     \* variant: the row that was loaded is saved back
  LET q == req[r]
      seen == [q.seen EXCEPT !.status = IF q.status = NONE THEN @ ELSE q.status,
                             !.assignee = IF q.member = KEEP THEN @ ELSE q.member]
  IN
  /\ AtStep(r, "patch", "checked")
  /\ References(seen.assignee)
  /\ demand' = [demand EXCEPT ![q.demand] = seen]
  /\ Written(r)
  /\ UNCHANGED <<result, memberRow, events, minted, issued>>

PatchWrite(r) ==
  LET q == req[r] IN
  /\ AtStep(r, "patch", "checked")
  /\ References(q.member)
  /\ demand' = [demand EXCEPT ![q.demand].status = IF q.status = NONE THEN @ ELSE q.status,
                              ![q.demand].assignee = IF q.member = KEEP THEN @ ELSE q.member]
  /\ Written(r)
  /\ UNCHANGED <<result, memberRow, events, minted, issued>>

PatchPublish(r) ==
  LET q == req[r] IN
  /\ AtStep(r, "patch", "written")
  /\ Finish(r)
  /\ IF q.status \in {NONE, q.seen.status}
     THEN UNCHANGED scoreTasks
     ELSE EmitStatusChanged(q.seen.cabinet, q.seen.status, q.status)
  /\ UNCHANGED <<tables, counters, reopenTasks, mailed, minted, issued>>

(* DELETE /demands/:id, for managers and administrators. *)
DeleteRead(r, u, d) ==
  /\ demand[d].row = "enabled"
  /\ MayManage(u, d)
  /\ Accept(r, Loading("delete", u, d))
  /\ UNCHANGED <<tables, events, minted>>

DeleteWrite(r) ==
  /\ AtStep(r, "delete", "read")
  /\ demand' = [demand EXCEPT ![req[r].demand].row = "disabled"]
  /\ Finish(r)
  /\ UNCHANGED <<result, memberRow, events, minted, issued>>

-----------------------------------------------------------------------------
(* POST /results: any member of cabinet c, for any demand. *)
CreateResultCheck(r, u, c, d) ==
  /\ MembershipOf(u, c) # {}
  /\ Accept(r, [NoRequest EXCEPT !.op = "createResult", !.step = "checked", !.user = u,
                                 !.cabinet = c, !.demand = d])
  /\ UNCHANGED <<tables, events, minted>>

CreateResultWrite(r) ==
  LET q == req[r] IN
  /\ AtStep(r, "createResult", "checked")
  /\ q.demand # NONE => demand[q.demand].row # "absent"
  /\ \E x \in Results :
       /\ result[x].row = "absent"
       /\ result' = [result EXCEPT ![x] =
                       [row |-> "enabled", cabinet |-> q.cabinet, demand |-> q.demand]]
  /\ Finish(r)
  /\ UNCHANGED <<demand, memberRow, events, minted, issued>>

(* ResultAccessGuard and findById, in front of PATCH and DELETE /results/:id *)
LoadResult(r, op, u, x, d) ==
  /\ result[x].row = "enabled"
  /\ MembershipOf(u, result[x].cabinet) # {}
  /\ Accept(r, [NoRequest EXCEPT !.op = op, !.step = "checked", !.user = u,
                                 !.result = x, !.demand = d])
  /\ UNCHANGED <<tables, events, minted>>

UpdateResultRead(r, u, x, d) == LoadResult(r, "updateResult", u, x, d)

UpdateResultWrite(r) ==
  LET q == req[r] IN
  /\ AtStep(r, "updateResult", "checked")
  /\ q.demand # NONE => demand[q.demand].row # "absent"
  /\ result' = [result EXCEPT ![q.result].demand = q.demand]
  /\ Finish(r)
  /\ UNCHANGED <<demand, memberRow, events, minted, issued>>

DeleteResultRead(r, u, x) == LoadResult(r, "deleteResult", u, x, result[x].demand)

DeleteResultWrite(r) ==
  /\ AtStep(r, "deleteResult", "checked")
  /\ result' = [result EXCEPT ![req[r].result].row = "disabled"]
  /\ Written(r)
  /\ UNCHANGED <<demand, memberRow, events, minted, issued>>

DeleteResultPublish(r) ==
  /\ AtStep(r, "deleteResult", "written")
  /\ Finish(r)
  /\ reopenTasks' = IF req[r].demand = NONE
                    THEN reopenTasks
                    ELSE reopenTasks (+)
                           SetToBag({[demand |-> req[r].demand, step |-> "queued"]})
  /\ UNCHANGED <<tables, counters, scoreTasks, mailed, minted, issued>>

-----------------------------------------------------------------------------
(* ResultDeletedListener: load the demand, count its results, reopen it.   *)
(* The update it ends in emits no event.                                   *)
Task(d, step) == [demand |-> d, step |-> step]

EndTask(t) == reopenTasks' = reopenTasks (-) SetToBag({t})

Advance(t, step) ==
  reopenTasks' = (reopenTasks (-) SetToBag({t})) (+) SetToBag({Task(t.demand, step)})

ReopenRead(d) ==
  LET t == Task(d, "queued") IN
  /\ BagIn(t, reopenTasks)
  /\ IF demand[d].row = "enabled" /\ demand[d].status = "RESOLVED"
     THEN Advance(t, "resolved")
     ELSE EndTask(t)
  /\ UNCHANGED <<tables, req, counters, scoreTasks, mailed, minted, issued>>

ReopenCountInverted(d) ==     \* variant: reopens demands that keep a result
  LET t == Task(d, "resolved") IN
  /\ BagIn(t, reopenTasks)
  /\ IF ResultsOf(d) # {} THEN Advance(t, "empty") ELSE EndTask(t)
  /\ UNCHANGED <<tables, req, counters, scoreTasks, mailed, minted, issued>>

ReopenCount(d) ==
  LET t == Task(d, "resolved") IN
  /\ BagIn(t, reopenTasks)
  /\ IF ResultsOf(d) = {} THEN Advance(t, "empty") ELSE EndTask(t)
  /\ UNCHANGED <<tables, req, counters, scoreTasks, mailed, minted, issued>>

ReopenWrite(d) ==
  LET t == Task(d, "empty") IN
  /\ BagIn(t, reopenTasks)
  /\ demand' = [demand EXCEPT ![d].status = "IN_PROGRESS"]
  /\ EndTask(t)
  /\ UNCHANGED <<result, memberRow, req, counters, scoreTasks, mailed, minted, issued>>

ReopenStep(d) == ReopenRead(d) \/ ReopenCount(d) \/ ReopenWrite(d)

-----------------------------------------------------------------------------
(* POST /demands/survey/:token.  The demand is found by its token, enabled *)
(* or not, and updated by its id.                                          *)
SurveyRead(r, d, n) ==
  /\ demand[d].token # 0
  /\ demand[d].rating = 0
  /\ Accept(r, [NoRequest EXCEPT !.op = "survey", !.step = "read",
                                 !.demand = d, !.rating = n])
  /\ UNCHANGED <<tables, events, minted>>

SurveyWrite(r) ==
  /\ AtStep(r, "survey", "read")
  /\ demand' = [demand EXCEPT ![req[r].demand].rating = req[r].rating]
  /\ Finish(r)
  /\ UNCHANGED <<result, memberRow, events, minted, issued>>

-----------------------------------------------------------------------------
(* The members table as this module sees it: a row appears under a new id, *)
(* and its deletion sets the column assignee_member_id of demands to null. *)
JoinMember(m) ==
  /\ memberRow[m] = "unused"
  /\ MembershipOf(UserOf[m], CabinetOf[m]) = {}
  /\ memberRow' = [memberRow EXCEPT ![m] = "active"]
  /\ UNCHANGED <<demand, result, req, events, minted, issued>>

RemoveMember(m) ==
  /\ Active(m)
  /\ memberRow' = [memberRow EXCEPT ![m] = "removed"]
  /\ demand' = [d \in Demands |-> IF demand[d].assignee = m
                                  THEN [demand[d] EXCEPT !.assignee = NONE]
                                  ELSE demand[d]]
  /\ UNCHANGED <<result, req, events, minted, issued>>

(* Requests and listeners live in memory; the tables and sent mail remain. *)
Crash ==
  /\ MayCrash
  /\ req' = [r \in Requests |-> NoRequest]
  /\ scoreTasks' = EmptyBag
  /\ reopenTasks' = EmptyBag
  /\ UNCHANGED <<tables, counters, mailed, minted, issued>>

ScoreStep(t) ==
  /\ HandleStatusChanged(t)
  /\ UNCHANGED <<tables, req, reopenTasks, mailed, minted, issued>>

-----------------------------------------------------------------------------
(* The routes of DemandsController and ResultsController. *)
DemandRequest(r, u, d) ==
  \/ ClaimRead(r, u, d)
  \/ \E m \in Members \cup {NONE} : AssignRead(r, u, d, m)
  \/ UnlinkRead(r, u, d)
  \/ \E s \in Statuses : ProgressRead(r, u, d, s)
  \/ \E s \in Statuses \cup {NONE}, m \in Members \cup {NONE, KEEP} :
       <<s, m>> # <<NONE, KEEP>> /\ PatchRead(r, u, d, s, m)
  \/ DeleteRead(r, u, d)

ResultRequest(r, u) ==
  \/ \E d \in Demands \cup {NONE} :
       \/ \E c \in Cabinets : CreateResultCheck(r, u, c, d)
       \/ \E x \in Results : UpdateResultRead(r, u, x, d)
  \/ \E x \in Results : DeleteResultRead(r, u, x)

Arrival(r) ==
  \/ \E u \in Users : (\E d \in Demands : DemandRequest(r, u, d)) \/ ResultRequest(r, u)
  \/ \E d \in Demands, n \in Ratings : SurveyRead(r, d, n)

Continuation(r) ==
  \/ ClaimCheck(r) \/ ClaimWrite(r)
  \/ AssignCheck(r) \/ AssignWrite(r)
  \/ UnlinkCheck(r) \/ UnlinkWrite(r)
  \/ ProgressCheck(r) \/ ProgressWrite(r) \/ ProgressPublish(r)
  \/ PatchCheck(r) \/ PatchWrite(r) \/ PatchPublish(r)
  \/ DeleteWrite(r)
  \/ CreateResultWrite(r)
  \/ UpdateResultWrite(r)
  \/ DeleteResultWrite(r) \/ DeleteResultPublish(r)
  \/ SurveyWrite(r)

Next ==
  \/ \E d \in Demands, c \in Cabinets \cup {NONE} : CreateDemand(d, c)
  \/ \E r \in Requests : Arrival(r) \/ Continuation(r) \/ Fail(r)
  \/ \E d \in Demands : ReopenStep(d)
  \/ \E t \in BagToSet(scoreTasks) : ScoreStep(t)
  \/ \E m \in Members : JoinMember(m) \/ RemoveMember(m)
  \/ Crash

Spec == Init /\ [][Next]_vars

(* A listener that was started runs to its end: nothing awaits a user. *)
FairSpec == Spec /\ \A d \in Demands : WF_vars(ReopenStep(d))

-----------------------------------------------------------------------------
(* Properties that hold however requests, listeners and crashes interleave. *)

(* The score and the two counts of a cabinet are written by one statement,  *)
(* so whatever events are lost, reordered or built from stale reads, the    *)
(* score is worth its resolved and in-progress demands, plus two points for *)
(* each time a demand went straight from in progress to resolved.           *)
ScoreCoversCounts == \A c \in Cabinets : Excess(c) >= 0 /\ Excess(c) % 2 = 0

(* A demand's assignee is a membership that still exists, although assign   *)
(* and patch look the member up long before they write and members leave    *)
(* in between (the foreign key refuses or nulls the column).                *)
AssigneeExists ==
  \A d \in Demands : demand[d].assignee # NONE => Active(demand[d].assignee)

(* A soft-deleted demand stays deleted: handlers and listeners that loaded  *)
(* it before the deletion still write to it, but never disabledAt.          *)
DeletionIsFinal ==
  [][\A d \in Demands : demand[d].row = "disabled" => demand'[d].row = "disabled"]_vars

(* A survey link sent for one demand never opens the survey of another, and *)
(* only a demand that has a link has an answer.                             *)
LinksAreOwn ==
  /\ \A link \in mailed, d \in Demands : demand[d].token = link[2] => d = link[1]
  /\ \A d \in Demands : demand[d].rating # 0 => demand[d].token # 0

-----------------------------------------------------------------------------
(* Properties of requests served one after the other.  They are what the    *)
(* handlers' checks are for; two overlapping requests can break each.       *)

(* Each operation happens as if at once and only to a demand that allows    *)
(* it (DemandService): free demands are claimed, unlinking clears cabinet   *)
(* and assignee together, a survey is opened once and answered once, what   *)
(* was deleted stays deleted, whatever members and listeners do meanwhile.  *)
Book ==
  [d \in Demands |->
     [row |-> demand[d].row, cabinet |-> demand[d].cabinet, assignee |-> demand[d].assignee,
      status |-> demand[d].status, surveyed |-> demand[d].token # 0,
      rating |-> demand[d].rating]]

Service == INSTANCE DemandService WITH book <- Book

ImplementsService == Service!Spec

(* Every survey link ever mailed is still the demand's link, through any    *)
(* number of reopenings and further resolutions.                            *)
MailedLinkWorks == \A link \in mailed : demand[link[1]].token = link[2]

-----------------------------------------------------------------------------
(* A statement of the code that two overlapping requests break.             *)

(* A demand leaves a cabinet only by being unlinked: claiming a demand does *)
(* not take it away from the cabinet that has it.                           *)
ClaimNeverSteals ==
  [][\A d \in Demands : demand[d].cabinet # NONE =>
       demand'[d].cabinet \in {demand[d].cabinet, NONE}]_vars

-----------------------------------------------------------------------------
(* Liveness: after a result of a demand is deleted, the demand does not     *)
(* stay resolved with no result: the listener reopens it unless a result    *)
(* is left, another request moved it, or it was deleted.                    *)
ResolvedWithoutResult(d) ==
  demand[d].row = "enabled" /\ demand[d].status = "RESOLVED" /\ ResultsOf(d) = {}

ReopenPending(d) == \E t \in BagToSet(reopenTasks) : t.demand = d

DeletedResultReopens ==
  \A d \in Demands : ReopenPending(d) ~> ~ResolvedWithoutResult(d)
=============================================================================
