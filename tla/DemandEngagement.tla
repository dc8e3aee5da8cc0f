-------------------------- MODULE DemandEngagement --------------------------
(***************************************************************************)
(* What people do to a demand besides handling it: likes, comments, and    *)
(* the reports that administrators dismiss or settle by deleting the       *)
(* demand.                                                                 *)
(*                                                                         *)
(* Each handler reads, decides and writes in separate statements, so the   *)
(* requests in the slots Requests interleave at every database round trip, *)
(* and so do the writes by which other handlers change who owns a demand   *)
(* and who belongs to a cabinet.  A failed check, a unique index that      *)
(* refuses an insert and a row that is gone all end a request: Fail.       *)
(***************************************************************************)
EXTENDS Naturals, FiniteSets

CONSTANTS
  Demands,      \* ids of demand rows
  Users,        \* users with an account
  Cabinets,     \* ids of cabinet rows
  Requests,     \* slots of requests served at the same time
  NONE,         \* null
  MaxRequests,  \* bound: requests accepted in a behaviour
  MaxSteps,     \* bound: requests and changes of owners and members together
  MayCrash      \* whether the process may crash and restart

ASSUME EngagementAssumption ==
  /\ NONE \notin Cabinets
  /\ IsFiniteSet(Requests)
  /\ MaxRequests \in Nat /\ MaxSteps \in Nat
  /\ MayCrash \in BOOLEAN

VARIABLES
  deleted,    \* demands with disabled_at set
  owner,      \* column cabinet_id of each demand
  members,    \* <<user, cabinet>>: table cabinet_members
  likes,      \* id of the demand_likes row of <<user, demand>>, 0 for none
  reports,    \* status of the demand_reports row of <<user, demand>>
  comments,   \* table demand_comments
  req,        \* the request in each slot
  issued,     \* requests accepted so far
  moves,      \* changes of owners and memberships so far
  toggles,    \* history: toggles of <<user, demand>> that were answered
  untold,     \* history: <<user, demand>> with a toggle that never was
  late,       \* history: reports past their check when the demand was decided
  unsettled,  \* history: deleted demands whose deletion stopped half way
  owned,      \* history: <<demand, cabinet>> ever true
  belonged    \* history: <<user, cabinet>> ever true

tables == <<deleted, owner, members, likes, reports, comments>>
history == <<toggles, untold, late, unsettled, owned, belonged>>
vars == <<tables, req, issued, moves, history>>

Pair == Users \X Demands
ReportStatus == {"none", "PENDING", "DISMISSED", "RESOLVED"}
Comment == [demand : Demands, author : Users, isCabinetResponse : BOOLEAN]

Request == [op : {"none", "like", "comment", "progress", "report", "dismiss", "delete"},
            step : {"idle", "found", "checked", "toggled", "disabled"},
            user : Users \cup {NONE}, demand : Demands \cup {NONE},
            cabinet : Cabinets \cup {NONE},    \* the owner findById returned
            existing : Nat,                    \* the like row findUnique returned
            isCabinetResponse : BOOLEAN]

NoRequest == [op |-> "none", step |-> "idle", user |-> NONE, demand |-> NONE,
              cabinet |-> NONE, existing |-> 0, isCabinetResponse |-> FALSE]

TypeOK ==
  /\ deleted \subseteq Demands
  /\ owner \in [Demands -> Cabinets \cup {NONE}]
  /\ members \subseteq Users \X Cabinets
  /\ likes \in [Pair -> Nat]
  /\ reports \in [Pair -> ReportStatus]
  /\ comments \subseteq Comment
  /\ req \in [Requests -> Request]
  /\ issued \in Nat /\ moves \in Nat
  /\ toggles \in [Pair -> Nat]
  /\ untold \subseteq Pair /\ late \subseteq Pair /\ unsettled \subseteq Demands
  /\ owned \subseteq Demands \X Cabinets /\ belonged \subseteq Users \X Cabinets

Init ==
  /\ deleted = {}
  /\ owner \in [Demands -> Cabinets \cup {NONE}]
  /\ members \in SUBSET (Users \X Cabinets)
  /\ likes = [p \in Pair |-> 0]
  /\ reports = [p \in Pair |-> "none"]
  /\ comments = {}
  /\ req = [r \in Requests |-> NoRequest]
  /\ issued = 0 /\ moves = 0
  /\ toggles = [p \in Pair |-> 0]
  /\ untold = {} /\ late = {} /\ unsettled = {}
  /\ owned = {p \in Demands \X Cabinets : owner[p[1]] = p[2]}
  /\ belonged = members

-----------------------------------------------------------------------------
AtStep(r, op, step) == req[r].op = op /\ req[r].step = step

Who(r) == <<req[r].user, req[r].demand>>

Finish(r) == req' = [req EXCEPT ![r] = NoRequest]

(* Every handler starts with findById, which skips deleted demands. *)
FindDemand(r, op, u, d) ==
  /\ req[r] = NoRequest
  /\ issued < MaxRequests /\ issued + moves < MaxSteps
  /\ d \notin deleted
  /\ issued' = issued + 1
  /\ req' = [req EXCEPT ![r] = [NoRequest EXCEPT !.op = op, !.step = "found", !.user = u,
                                                 !.demand = d, !.cabinet = owner[d]]]
  /\ UNCHANGED <<tables, moves, history>>

(* Deletions that stop here leave the demand disabled, its reports as they are. *)
HalfDeleted(slots) ==
  {req[r].demand : r \in {s \in slots : AtStep(s, "delete", "disabled")}}

(* Toggles that were written, and whose user is not told if they stop here. *)
Untold(slots) == {Who(r) : r \in {s \in slots : AtStep(s, "like", "toggled")}}

Fail(r) ==
  /\ req[r] # NoRequest
  /\ unsettled' = unsettled \cup HalfDeleted({r})
  /\ untold' = untold \cup Untold({r})
  /\ Finish(r)
  /\ UNCHANGED <<tables, issued, moves, toggles, late, owned, belonged>>

-----------------------------------------------------------------------------
(* POST /demands/:id/like *)
ReadLike(r) ==
  /\ AtStep(r, "like", "found")
  /\ req' = [req EXCEPT ![r].step = "checked", ![r].existing = likes[Who(r)]]
  /\ UNCHANGED <<tables, issued, moves, history>>

ToggleLikeUnchecked(r) ==          \* variant: deleteMany and upsert, which never fail
  /\ AtStep(r, "like", "checked")
  /\ likes' = [likes EXCEPT ![Who(r)] = IF req[r].existing # 0 THEN 0 ELSE issued]
  /\ req' = [req EXCEPT ![r].step = "toggled"]
  /\ UNCHANGED <<deleted, owner, members, reports, comments, issued, moves, history>>

(* The row read is deleted by its id, or a row is inserted; the delete     *)
(* needs the row to be there still, the insert needs the pair to be free.  *)
ToggleLike(r) ==
  /\ AtStep(r, "like", "checked")
  /\ likes[Who(r)] = req[r].existing
  /\ likes' = [likes EXCEPT ![Who(r)] = IF req[r].existing # 0 THEN 0 ELSE issued]
  /\ req' = [req EXCEPT ![r].step = "toggled"]
  /\ UNCHANGED <<deleted, owner, members, reports, comments, issued, moves, history>>

(* After an insert the account of the user is read for the event; a reply  *)
(* of the database that does not arrive also leaves the toggle untold.     *)
AnswerLike(r) ==
  /\ AtStep(r, "like", "toggled")
  /\ toggles' = [toggles EXCEPT ![Who(r)] = @ + 1]
  /\ Finish(r)
  /\ UNCHANGED <<tables, issued, moves, untold, late, unsettled, owned, belonged>>

(* POST /demands/:id/comments *)
FindMembershipAnywhere(r) ==       \* variant: any membership of the author counts
  /\ AtStep(r, "comment", "found")
  /\ req' = [req EXCEPT ![r].step = "checked",
                        ![r].isCabinetResponse =
                          \E c \in Cabinets : <<req[r].user, c>> \in members]
  /\ UNCHANGED <<tables, issued, moves, history>>

FindMembership(r) ==
  /\ AtStep(r, "comment", "found")
  /\ req' = [req EXCEPT ![r].step = "checked",
                        ![r].isCabinetResponse = <<req[r].user, req[r].cabinet>> \in members]
  /\ UNCHANGED <<tables, issued, moves, history>>

(* PATCH /demands/:id/progress goes on only for a member of the demand's    *)
(* cabinet; its comment is an answer of the cabinet whatever changed since. *)
CheckAssignee(r) ==
  /\ AtStep(r, "progress", "found")
  /\ <<req[r].user, req[r].cabinet>> \in members
  /\ req' = [req EXCEPT ![r].step = "checked", ![r].isCabinetResponse = TRUE]
  /\ UNCHANGED <<tables, issued, moves, history>>

AddCommentOfCabinet(r) ==          \* variant: the cabinet is stored as the author
  /\ AtStep(r, "comment", "checked") \/ AtStep(r, "progress", "checked")
  /\ comments' = comments \cup {[demand |-> req[r].demand, author |-> req[r].cabinet,
                                 isCabinetResponse |-> req[r].isCabinetResponse]}
  /\ Finish(r)
  /\ UNCHANGED <<deleted, owner, members, likes, reports, issued, moves, history>>

AddComment(r) ==
  /\ AtStep(r, "comment", "checked") \/ AtStep(r, "progress", "checked")
  /\ comments' = comments \cup {[demand |-> req[r].demand, author |-> req[r].user,
                                 isCabinetResponse |-> req[r].isCabinetResponse]}
  /\ Finish(r)
  /\ UNCHANGED <<deleted, owner, members, likes, reports, issued, moves, history>>

-----------------------------------------------------------------------------
(* POST /demands/:id/report *)
HasDismissedReports(d) == \E u \in Users : reports[<<u, d>>] = "DISMISSED"

CheckDismissedOfCaller(r) ==       \* variant: only the caller's own report is looked at
  /\ AtStep(r, "report", "found")
  /\ reports[Who(r)] # "DISMISSED"
  /\ req' = [req EXCEPT ![r].step = "checked"]
  /\ UNCHANGED <<tables, issued, moves, history>>

CheckDismissed(r) ==
  /\ AtStep(r, "report", "found")
  /\ ~HasDismissedReports(req[r].demand)
  /\ req' = [req EXCEPT ![r].step = "checked"]
  /\ UNCHANGED <<tables, issued, moves, history>>

(* One report per user and demand, whatever its status (unique index). *)
CreateReport(r) ==
  /\ AtStep(r, "report", "checked")
  /\ reports[Who(r)] = "none"
  /\ reports' = [reports EXCEPT ![Who(r)] = "PENDING"]
  /\ Finish(r)
  /\ UNCHANGED <<deleted, owner, members, likes, comments, issued, moves, history>>

(* updateMany: every report of the demand, whatever its status. *)
Decide(d, status) ==
  reports' = [p \in Pair |-> IF p[2] = d /\ reports[p] # "none" THEN status ELSE reports[p]]

(* Report requests on d that have got as far as one of the steps. *)
ReportsInFlight(d, steps) ==
  {Who(r) : r \in {s \in Requests : /\ req[s].op = "report" /\ req[s].demand = d
                                     /\ req[s].step \in steps}}

(* PATCH /admin/reports/:demandId/dismiss *)
DismissReports(r) ==
  /\ AtStep(r, "dismiss", "found")
  /\ Decide(req[r].demand, "DISMISSED")
  /\ late' = late \cup ReportsInFlight(req[r].demand, {"checked"})
  /\ Finish(r)
  /\ UNCHANGED <<deleted, owner, members, likes, comments, issued, moves,
                 toggles, untold, unsettled, owned, belonged>>

(* DELETE /demands/:id and DELETE /admin/demands/:demandId: the evidence   *)
(* files go first, then the row is disabled, then its reports settled.     *)
DisableDemandOnly(r) ==            \* variant: the reports are left as they are
  /\ AtStep(r, "delete", "found")
  /\ deleted' = deleted \cup {req[r].demand}
  /\ late' = late \cup ReportsInFlight(req[r].demand, {"found", "checked"})
  /\ Finish(r)
  /\ UNCHANGED <<owner, members, likes, reports, comments, issued, moves,
                 toggles, untold, unsettled, owned, belonged>>

DisableDemand(r) ==
  /\ AtStep(r, "delete", "found")
  /\ deleted' = deleted \cup {req[r].demand}
  /\ late' = late \cup ReportsInFlight(req[r].demand, {"found", "checked"})
  /\ req' = [req EXCEPT ![r].step = "disabled"]
  /\ UNCHANGED <<owner, members, likes, reports, comments, issued, moves,
                 toggles, untold, unsettled, owned, belonged>>

ResolveReports(r) ==
  /\ AtStep(r, "delete", "disabled")
  /\ Decide(req[r].demand, "RESOLVED")
  /\ Finish(r)
  /\ UNCHANGED <<deleted, owner, members, likes, comments, issued, moves, history>>

-----------------------------------------------------------------------------
(* Writes of other handlers that comments depend on: claim and unlink move *)
(* a demand, invitations and removals change a membership.                 *)
MoveDemand(d, c) ==
  /\ issued + moves < MaxSteps /\ owner[d] # c
  /\ owner' = [owner EXCEPT ![d] = c]
  /\ owned' = IF c = NONE THEN owned ELSE owned \cup {<<d, c>>}
  /\ moves' = moves + 1
  /\ UNCHANGED <<deleted, members, likes, reports, comments, req, issued,
                 toggles, untold, late, unsettled, belonged>>

JoinCabinet(u, c) ==
  /\ issued + moves < MaxSteps /\ <<u, c>> \notin members
  /\ members' = members \cup {<<u, c>>}
  /\ belonged' = belonged \cup {<<u, c>>}
  /\ moves' = moves + 1
  /\ UNCHANGED <<deleted, owner, likes, reports, comments, req, issued,
                 toggles, untold, late, unsettled, owned>>

LeaveCabinet(u, c) ==
  /\ issued + moves < MaxSteps /\ <<u, c>> \in members
  /\ members' = members \ {<<u, c>>}
  /\ moves' = moves + 1
  /\ UNCHANGED <<deleted, owner, likes, reports, comments, req, issued, history>>

(* The process dies with whatever it was doing; nothing resumes it. *)
Crash ==
  /\ MayCrash
  /\ \E r \in Requests : req[r] # NoRequest
  /\ unsettled' = unsettled \cup HalfDeleted(Requests)
  /\ untold' = untold \cup Untold(Requests)
  /\ req' = [r \in Requests |-> NoRequest]
  /\ UNCHANGED <<tables, issued, moves, toggles, late, owned, belonged>>

Arrive(r) ==
  \E u \in Users, d \in Demands :
    \/ \E op \in {"like", "comment", "report", "dismiss", "delete"} : FindDemand(r, op, u, d)
    \/ owner[d] # NONE /\ FindDemand(r, "progress", u, d)

Step(r) ==
  \/ ReadLike(r)       \/ ToggleLike(r)    \/ AnswerLike(r)
  \/ FindMembership(r) \/ CheckAssignee(r) \/ AddComment(r)
  \/ CheckDismissed(r) \/ CreateReport(r)
  \/ DismissReports(r)
  \/ DisableDemand(r)  \/ ResolveReports(r)
  \/ Fail(r)

Elsewhere ==
  \/ \E d \in Demands, c \in Cabinets \cup {NONE} : MoveDemand(d, c)
  \/ \E u \in Users, c \in Cabinets : JoinCabinet(u, c) \/ LeaveCabinet(u, c)

Next ==
  \/ \E r \in Requests : Arrive(r) \/ Step(r)
  \/ Elsewhere
  \/ Crash

Spec == Init /\ [][Next]_vars

-----------------------------------------------------------------------------
(* A like is there exactly when its user was told, or is about to be, of   *)
(* an odd number of toggles: of two toggles that read the same row one     *)
(* succeeds and the other is refused, by the unique index or because the   *)
(* row is gone.  Only a toggle that is written and dies before its answer  *)
(* leaves its user in the dark.                                            *)
BeingTold(p) == {r \in Requests : AtStep(r, "like", "toggled") /\ Who(r) = p}

LikesFollowAnswers ==
  \A p \in Pair \ untold :
    likes[p] # 0 <=> (toggles[p] + Cardinality(BeingTold(p))) % 2 = 1

(* A demand whose reports were dismissed is reported again only by a       *)
(* request that had passed its check at the time of the dismissal.         *)
ReviewIsHeeded ==
  \A u \in Users, d \in Demands :
    reports[<<u, d>>] = "PENDING" /\ HasDismissedReports(d) => <<u, d>> \in late

(* A deleted demand keeps a pending report for one of three reasons only:  *)
(* its deletion has yet to settle them, it failed or crashed before it     *)
(* did, or the report's request had found the demand before the deletion.  *)
DeletionSettlesReports ==
  \A u \in Users, d \in Demands :
    reports[<<u, d>>] = "PENDING" /\ d \in deleted =>
      \/ \E r \in Requests : AtStep(r, "delete", "disabled") /\ req[r].demand = d
      \/ d \in unsettled
      \/ <<u, d>> \in late

(* A comment is shown as an answer of the cabinet only if some cabinet     *)
(* that has owned the demand has had its author for a member, however      *)
(* owners and members changed while the comment was being posted.          *)
AnswersComeFromTheCabinet ==
  \A k \in comments : k.isCabinetResponse =>
    \E c \in Cabinets : <<k.demand, c>> \in owned /\ <<k.author, c>> \in belonged
=============================================================================
