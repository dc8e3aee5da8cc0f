----------------------- MODULE DemandEngagementProofs -----------------------
(***************************************************************************)
(* Theorems about DemandEngagement, for any demands, users, cabinets,      *)
(* number of overlapping requests and bounds, with or without crashes.     *)
(***************************************************************************)
EXTENDS MCDemandEngagement, CabinetReportsProofs, TLAPS

(* A request in progress names a user and a demand, and was counted. *)
Named(q) ==
  q.op # "none" =>
    /\ q.user \in Users /\ q.demand \in Demands /\ issued # 0
    /\ q.op \notin {"like", "delete"} => q.step \in {"found", "checked"}

TypeInv == TypeOK /\ \A r \in Requests : Named(req[r])

-----------------------------------------------------------------------------
(* Types *)

LEMMA NoRequestType == NoRequest \in Request /\ NoRequest.op = "none" /\ NoRequest.step = "idle"
  BY DEF NoRequest, Request

LEMMA InitType == Init => TypeInv
<1> SUFFICES ASSUME Init PROVE TypeInv
  OBVIOUS
<1>1. TypeOK
  BY NoRequestType DEF Init, TypeOK, ReportStatus
<1>2. \A r \in Requests : Named(req[r])
  BY NoRequestType DEF Init, Named
<1> QED
  BY <1>1, <1>2 DEF TypeInv

(* A request that arrives has found its demand, and writes nothing. *)
LEMMA Arrival ==
  ASSUME TypeInv, NEW r \in Requests, Arrive(r)
  PROVE  /\ UNCHANGED <<tables, moves, history>>
         /\ issued' \in Nat /\ issued' # 0
         /\ req' \in [Requests -> Request]
         /\ \A s \in Requests : s # r => req'[s] = req[s]
         /\ req[r] = NoRequest
         /\ req'[r].op \in {"like", "comment", "progress", "report", "dismiss", "delete"}
         /\ req'[r].step = "found" /\ req'[r].user \in Users
         /\ req'[r].demand \in Demands \ deleted
         /\ req'[r].cabinet = owner[req'[r].demand]
<1>1. PICK u \in Users, d \in Demands,
           op \in {"like", "comment", "progress", "report", "dismiss", "delete"} :
        FindDemand(r, op, u, d)
  BY DEF Arrive
<1>. DEFINE q == [NoRequest EXCEPT !.op = op, !.step = "found", !.user = u,
                                   !.demand = d, !.cabinet = owner[d]]
<1>2. owner[d] \in Cabinets \cup {NONE}
  BY DEF TypeInv, TypeOK
<1>3. /\ q \in Request /\ q.op = op /\ q.step = "found" /\ q.user = u
      /\ q.demand = d /\ q.cabinet = owner[d]
  BY <1>2 DEF NoRequest, Request
<1>4. /\ req' = [req EXCEPT ![r] = q] /\ req \in [Requests -> Request]
      /\ issued' = issued + 1 /\ issued \in Nat /\ d \notin deleted /\ req[r] = NoRequest
      /\ UNCHANGED <<tables, moves, history>>
  BY <1>1 DEF FindDemand, TypeInv, TypeOK
<1>. HIDE DEF q
<1> QED
  BY <1>3, <1>4

(* A step of a handler moves its own slot on, or empties it. *)
LEMMA Slots ==
  ASSUME TypeInv, NEW r \in Requests, Step(r)
  PROVE  /\ req' \in [Requests -> Request]
         /\ \A s \in Requests : s # r => req'[s] = req[s]
         /\ \/ req'[r] = NoRequest
            \/ /\ req'[r].op = req[r].op /\ req'[r].user = req[r].user
               /\ req'[r].demand = req[r].demand /\ req'[r].cabinet = req[r].cabinet
               /\ \/ /\ req[r].step = "found" /\ req[r].op \notin {"none", "delete"}
                     /\ req'[r].step = "checked"
                  \/ /\ req[r].step = "found" /\ req[r].op = "delete"
                     /\ req'[r].step = "disabled"
                  \/ /\ req[r].step = "checked" /\ req[r].op = "like"
                     /\ req'[r].step = "toggled"
<1>1. req \in [Requests -> Request] /\ req[r] \in Request /\ Named(req[r])
  BY DEF TypeInv, TypeOK
<1>2. CASE Finish(r)
  BY <1>1, <1>2, NoRequestType DEF Finish
<1>3. CASE ReadLike(r)
  <2>1. likes[Who(r)] \in Nat
    BY <1>1, <1>3 DEF ReadLike, AtStep, TypeInv, TypeOK, Who, Pair, Named
  <2>. QED
    BY <1>1, <1>3, <2>1 DEF ReadLike, AtStep, Request
<1>4. CASE FindMembership(r)
  <2>1. (<<req[r].user, req[r].cabinet>> \in members) \in BOOLEAN
    OBVIOUS
  <2>. QED
    BY <1>1, <1>4, <2>1 DEF FindMembership, AtStep, Request
<1>5. CASE CheckDismissed(r)
  BY <1>1, <1>5 DEF CheckDismissed, AtStep, Request
<1>6. CASE DisableDemand(r)
  BY <1>1, <1>6 DEF DisableDemand, AtStep, Request
<1>7. CASE CheckAssignee(r)
  BY <1>1, <1>7 DEF CheckAssignee, AtStep, Request
<1>8. CASE ToggleLike(r)
  BY <1>1, <1>8 DEF ToggleLike, AtStep, Request
<1> QED
  BY <1>2, <1>3, <1>4, <1>5, <1>6, <1>7, <1>8
     DEF Step, AnswerLike, AddComment, CreateReport, DismissReports, ResolveReports, Fail

LEMMA HandlerType ==
  ASSUME TypeInv, NEW r \in Requests, Step(r)
  PROVE  TypeInv'
<1>1. /\ req[r] \in Request /\ Named(req[r]) /\ TypeOK
      /\ issued' = issued /\ moves' = moves
  BY DEF TypeInv, TypeOK, Step, ReadLike, ToggleLike, AnswerLike, FindMembership, CheckAssignee,
         AddComment, CheckDismissed, CreateReport, DismissReports, DisableDemand, ResolveReports,
         Fail
<1>2. req' \in [Requests -> Request] /\ \A s \in Requests : Named(req[s])'
  BY <1>1, Slots, NoRequestType DEF TypeInv, Named
<1>3. /\ req[r].op # "none" => Who(r) \in Pair
      /\ ReportsInFlight(req[r].demand, {"checked"}) \subseteq Pair
      /\ ReportsInFlight(req[r].demand, {"found", "checked"}) \subseteq Pair
  BY DEF TypeInv, Named, Who, Pair, ReportsInFlight
<1>4. HalfDeleted({r}) \subseteq Demands /\ Untold({r}) \subseteq Pair
  BY <1>1, <1>3 DEF HalfDeleted, Untold, AtStep, Named
<1>5. CASE UNCHANGED <<tables, history>>
  BY <1>1, <1>2, <1>5 DEF tables, history, TypeInv, TypeOK
<1>6. CASE ToggleLike(r)
  <2>1. likes' \in [Pair -> Nat]
    BY <1>1, <1>3, <1>6 DEF ToggleLike, AtStep, TypeOK
  <2>. QED
    BY <1>1, <1>2, <1>6, <2>1 DEF ToggleLike, TypeInv, TypeOK, history
<1>7. CASE AddComment(r)
  <2>1. comments' \subseteq Comment
    BY <1>1, <1>7 DEF AddComment, AtStep, TypeOK, Comment, Request, Named
  <2>. QED
    BY <1>1, <1>2, <1>7, <2>1 DEF AddComment, TypeInv, TypeOK, history
<1>8. CASE CreateReport(r)
  <2>1. reports' \in [Pair -> ReportStatus]
    BY <1>1, <1>3, <1>8 DEF CreateReport, AtStep, TypeOK, ReportStatus
  <2>. QED
    BY <1>1, <1>2, <1>8, <2>1 DEF CreateReport, TypeInv, TypeOK, history
<1>9. CASE DismissReports(r) \/ ResolveReports(r)
  <2>1. reports' \in [Pair -> ReportStatus]
    BY <1>1, <1>9 DEF DismissReports, ResolveReports, Decide, TypeOK, ReportStatus
  <2>2. late' \subseteq Pair
    BY <1>1, <1>3, <1>9 DEF DismissReports, ResolveReports, TypeOK, history
  <2>. QED
    BY <1>1, <1>2, <1>9, <2>1, <2>2 DEF DismissReports, ResolveReports, TypeInv, TypeOK, history
<1>10. CASE DisableDemand(r)
  <2>1. deleted' \subseteq Demands /\ late' \subseteq Pair
    BY <1>1, <1>3, <1>10 DEF DisableDemand, AtStep, Named, TypeOK
  <2>. QED
    BY <1>1, <1>2, <1>10, <2>1 DEF DisableDemand, TypeInv, TypeOK
<1>11. CASE Fail(r)
  BY <1>1, <1>2, <1>4, <1>11 DEF Fail, tables, TypeInv, TypeOK
<1>12. CASE AnswerLike(r)
  <2>1. toggles' \in [Pair -> Nat]
    BY <1>1, <1>3, <1>12 DEF AnswerLike, AtStep, TypeOK
  <2>. QED
    BY <1>1, <1>2, <1>12, <2>1 DEF AnswerLike, TypeInv, TypeOK, tables
<1> QED
  BY <1>5, <1>6, <1>7, <1>8, <1>9, <1>10, <1>11, <1>12
     DEF Step, ReadLike, FindMembership, CheckAssignee, CheckDismissed

LEMMA NextType == TypeInv /\ [Next]_vars => TypeInv'
<1> SUFFICES ASSUME TypeInv, [Next]_vars PROVE TypeInv'
  OBVIOUS
<1>1. ASSUME NEW r \in Requests, Arrive(r) PROVE TypeInv'
  BY <1>1, Arrival DEF TypeInv, TypeOK, Named, tables, history
<1>2. ASSUME NEW r \in Requests, Step(r) PROVE TypeInv'
  BY <1>2, HandlerType
<1>3. CASE Elsewhere
  <2>1. /\ owner' \in [Demands -> Cabinets \cup {NONE}] /\ moves' \in Nat
        /\ members' \subseteq Users \X Cabinets /\ belonged' \subseteq Users \X Cabinets
        /\ owned' \subseteq Demands \X Cabinets
        /\ UNCHANGED <<deleted, likes, reports, comments, req, issued, toggles, untold, late,
                       unsettled>>
    <3>1. ASSUME NEW d \in Demands, NEW c \in Cabinets \cup {NONE}, MoveDemand(d, c)
          PROVE  /\ owner' \in [Demands -> Cabinets \cup {NONE}]
                 /\ owned' \subseteq Demands \X Cabinets
                 /\ members' = members /\ belonged' = belonged /\ moves' \in Nat
      BY <3>1 DEF MoveDemand, TypeInv, TypeOK
    <3>2. ASSUME NEW u \in Users, NEW c \in Cabinets, JoinCabinet(u, c) \/ LeaveCabinet(u, c)
          PROVE  /\ members' \subseteq Users \X Cabinets /\ belonged' \subseteq Users \X Cabinets
                 /\ owner' = owner /\ owned' = owned /\ moves' \in Nat
      BY <3>2 DEF JoinCabinet, LeaveCabinet, TypeInv, TypeOK, history
    <3>3. UNCHANGED <<deleted, likes, reports, comments, req, issued, toggles, untold, late,
                      unsettled>>
      BY <1>3 DEF Elsewhere, MoveDemand, JoinCabinet, LeaveCabinet, history
    <3>. QED
      BY <1>3, <3>1, <3>2, <3>3 DEF Elsewhere, TypeInv, TypeOK
  <2>. QED
    BY <2>1 DEF TypeInv, TypeOK, Named
<1>4. CASE Crash
  <2>1. HalfDeleted(Requests) \subseteq Demands /\ Untold(Requests) \subseteq Pair
    BY DEF HalfDeleted, Untold, Who, Pair, AtStep, TypeInv, Named
  <2>2. /\ req' = [r \in Requests |-> NoRequest]
        /\ unsettled' = unsettled \cup HalfDeleted(Requests)
        /\ untold' = untold \cup Untold(Requests)
        /\ UNCHANGED <<deleted, owner, members, likes, reports, comments, issued, moves, toggles,
                       late, owned, belonged>>
    BY <1>4 DEF Crash, tables
  <2>. QED
    BY <2>1, <2>2, NoRequestType DEF TypeInv, TypeOK, Named
<1>5. CASE UNCHANGED vars
  BY <1>5 DEF vars, tables, history, TypeInv, TypeOK, Named
<1> QED
  BY <1>1, <1>2, <1>3, <1>4, <1>5 DEF Next

LEMMA TypeInvariant == Spec => []TypeInv
  BY InitType, NextType, PTL DEF Spec

(* Every column, every request in progress and every record of the past    *)
(* has its type, however requests overlap, fail and crash.                 *)
THEOREM TypeCorrect == Spec => []TypeOK
<1>1. TypeInv => TypeOK
  BY DEF TypeInv
<1> QED
  BY <1>1, TypeInvariant, PTL

-----------------------------------------------------------------------------
(* Likes *)

(* Requests being told are finitely many: there are finitely many slots. *)
LEMMA ToldFinite == \A p : IsFiniteSet(BeingTold(p)) /\ Cardinality(BeingTold(p)) \in Nat
<1>1. \A p : BeingTold(p) \subseteq Requests
  BY DEF BeingTold
<1> QED
  BY <1>1, EngagementAssumption, FS_Subset, FS_CardinalityType

(* Toggles that are not written, answered or lost leave the likes alone.   *)
LEMMA LikesQuiet ==
  ASSUME LikesFollowAnswers, UNCHANGED <<likes, toggles>>, untold \subseteq untold',
         \A p \in Pair \ untold' : BeingTold(p)' = BeingTold(p)
  PROVE  LikesFollowAnswers'
BY DEF LikesFollowAnswers

(* A slot that is not being told before or after a step changes nobody's.  *)
LEMMA ToldKept ==
  ASSUME NEW r \in Requests, NEW p,
         \A s \in Requests : s # r => req'[s] = req[s],
         r \in BeingTold(p)' <=> r \in BeingTold(p)
  PROVE  BeingTold(p)' = BeingTold(p)
BY DEF BeingTold, AtStep, Who

(* A like inserted by a request has the number of a request for its id;    *)
(* its request joins those being told.                                     *)
LEMMA LikesWritten ==
  ASSUME TypeInv, LikesFollowAnswers, NEW r \in Requests, ToggleLike(r)
  PROVE  LikesFollowAnswers'
<1>0. /\ likes \in [Pair -> Nat] /\ toggles \in [Pair -> Nat]
      /\ Who(r) \in Pair /\ issued \in Nat \ {0} /\ req[r].existing \in Nat
  BY DEF ToggleLike, AtStep, TypeInv, TypeOK, Request, Named, Who, Pair
<1>1. PICK w \in Pair : w = Who(r)
  BY <1>0
<1>2. /\ likes[w] = req[r].existing /\ toggles' = toggles /\ untold' = untold
      /\ likes'[w] = IF req[r].existing # 0 THEN 0 ELSE issued
      /\ \A p \in Pair : p # w => likes'[p] = likes[p]
  BY <1>0, <1>1 DEF ToggleLike, history
<1>3. /\ \A s \in Requests : s # r => req'[s] = req[s]
      /\ req[r].step # "toggled"
      /\ AtStep(r, "like", "toggled")' /\ Who(r)' = w
  BY <1>1 DEF ToggleLike, AtStep, Who, TypeInv, TypeOK, Request
<1>4. BeingTold(w)' = BeingTold(w) \cup {r} /\ r \notin BeingTold(w)
  BY <1>1, <1>3 DEF BeingTold, AtStep, Who
<1>5. Cardinality(BeingTold(w)') = Cardinality(BeingTold(w)) + 1
  BY <1>4, ToldFinite, FS_AddElement
<1>6. \A p \in Pair : p # w => BeingTold(p)' = BeingTold(p)
  BY <1>1, <1>3 DEF BeingTold, AtStep, Who
<1>7. w \notin untold =>
        (likes'[w] # 0 <=> (toggles[w] + (Cardinality(BeingTold(w)) + 1)) % 2 = 1)
  <2>. DEFINE n == Cardinality(BeingTold(w))
  <2>1. n \in Nat /\ toggles[w] \in Nat
    BY <1>0, ToldFinite
  <2>2. w \notin untold => (likes[w] # 0 <=> (toggles[w] + n) % 2 = 1)
    BY <1>1 DEF LikesFollowAnswers
  <2>3. likes'[w] # 0 <=> likes[w] = 0
    BY <1>0, <1>2
  <2>. HIDE DEF n
  <2>4. (toggles[w] + (n + 1)) % 2 = 1 <=> ~((toggles[w] + n) % 2 = 1)
    BY <2>1
  <2>. QED
    BY <2>2, <2>3, <2>4 DEF n
<1>8. ASSUME NEW p \in Pair \ untold'
      PROVE  likes'[p] # 0 <=> (toggles'[p] + Cardinality(BeingTold(p)')) % 2 = 1
  <2>1. CASE p = w
    BY <1>2, <1>5, <1>7, <1>8, <2>1
  <2>2. CASE p # w
    BY <1>2, <1>6, <1>8, <2>2 DEF LikesFollowAnswers
  <2>. QED
    BY <2>1, <2>2
<1> QED
  BY <1>8 DEF LikesFollowAnswers

(* An answer moves one toggle from those being told to those told.         *)
LEMMA LikesAnswered ==
  ASSUME TypeInv, LikesFollowAnswers, NEW r \in Requests, AnswerLike(r)
  PROVE  LikesFollowAnswers'
<1>0. Who(r) \in Pair /\ toggles \in [Pair -> Nat]
  BY DEF AnswerLike, AtStep, TypeInv, TypeOK, Named, Who, Pair
<1>1. PICK w \in Pair : w = Who(r)
  BY <1>0
<1>2. /\ likes' = likes /\ untold' = untold /\ toggles'[w] = toggles[w] + 1
      /\ \A p \in Pair : p # w => toggles'[p] = toggles[p]
  BY <1>0, <1>1 DEF AnswerLike, tables
<1>3. /\ \A s \in Requests : s # r => req'[s] = req[s]
      /\ AtStep(r, "like", "toggled") /\ ~AtStep(r, "like", "toggled")'
  <2>1. req' = [req EXCEPT ![r] = NoRequest] /\ req \in [Requests -> Request]
    BY DEF AnswerLike, Finish, TypeInv, TypeOK
  <2>2. req'[r] = NoRequest
    BY <2>1
  <2>3. ~AtStep(r, "like", "toggled")'
    BY <2>2, NoRequestType DEF AtStep
  <2>. QED
    BY <2>1, <2>3 DEF AnswerLike
<1>4. BeingTold(w)' = BeingTold(w) \ {r} /\ r \in BeingTold(w)
  BY <1>1, <1>3 DEF BeingTold, AtStep, Who
<1>5. Cardinality(BeingTold(w)') = Cardinality(BeingTold(w)) - 1
  BY <1>4, ToldFinite, FS_RemoveElement
<1>6. \A p \in Pair : p # w => BeingTold(p)' = BeingTold(p)
  BY <1>1, <1>3 DEF BeingTold, AtStep, Who
<1>7. toggles'[w] + Cardinality(BeingTold(w)') = toggles[w] + Cardinality(BeingTold(w))
  BY <1>0, <1>2, <1>5, ToldFinite
<1>8. ASSUME NEW p \in Pair \ untold'
      PROVE  likes'[p] # 0 <=> (toggles'[p] + Cardinality(BeingTold(p)')) % 2 = 1
  <2>1. CASE p = w
    BY <1>2, <1>7, <1>8, <2>1 DEF LikesFollowAnswers
  <2>2. CASE p # w
    BY <1>2, <1>6, <1>8, <2>2 DEF LikesFollowAnswers
  <2>. QED
    BY <2>1, <2>2
<1> QED
  BY <1>8 DEF LikesFollowAnswers

LEMMA LikesStep == TypeInv /\ LikesFollowAnswers /\ [Next]_vars => LikesFollowAnswers'
<1> SUFFICES ASSUME TypeInv, LikesFollowAnswers, [Next]_vars PROVE LikesFollowAnswers'
  OBVIOUS
<1>1. ASSUME NEW r \in Requests, Arrive(r) PROVE LikesFollowAnswers'
  <2>1. /\ UNCHANGED <<likes, toggles, untold>>
        /\ \A s \in Requests : s # r => req'[s] = req[s]
        /\ req[r].step # "toggled" /\ req'[r].step # "toggled"
    BY <1>1, Arrival, NoRequestType DEF tables, history
  <2>2. \A p : BeingTold(p)' = BeingTold(p)
    BY <2>1, ToldKept DEF BeingTold, AtStep
  <2>. QED
    BY <2>1, <2>2, LikesQuiet
<1>2. ASSUME NEW r \in Requests, Fail(r) PROVE LikesFollowAnswers'
  <2>1. /\ UNCHANGED <<likes, toggles>> /\ untold' = untold \cup Untold({r})
        /\ \A s \in Requests : s # r => req'[s] = req[s]
        /\ ~AtStep(r, "like", "toggled")'
    BY <1>2, NoRequestType DEF Fail, Finish, tables, AtStep, TypeInv, TypeOK
  <2>2. AtStep(r, "like", "toggled") => Who(r) \in untold'
    BY <2>1 DEF Untold
  <2>3. \A p \in Pair \ untold' : BeingTold(p)' = BeingTold(p)
    BY <2>1, <2>2, ToldKept DEF BeingTold
  <2>. QED
    BY <2>1, <2>3, LikesQuiet
<1>3. ASSUME NEW r \in Requests, Step(r), ~ToggleLike(r), ~AnswerLike(r), ~Fail(r)
      PROVE  LikesFollowAnswers'
  <2>1. UNCHANGED <<likes, toggles, untold>>
    BY <1>3 DEF Step, ReadLike, FindMembership, CheckAssignee, AddComment, CheckDismissed,
                CreateReport, DismissReports, DisableDemand, ResolveReports, tables, history
  <2>2. ~AtStep(r, "like", "toggled")
    BY <1>3 DEF Step, ReadLike, FindMembership, CheckAssignee, AddComment, CheckDismissed,
                CreateReport, DismissReports, DisableDemand, ResolveReports, AtStep
  <2>3. /\ \A s \in Requests : s # r => req'[s] = req[s]
        /\ ~AtStep(r, "like", "toggled")'
    <3>1. req[r].step = "checked" /\ req[r].op = "like" => req'[r].step # "toggled"
      BY <1>3, NoRequestType
         DEF Step, ReadLike, FindMembership, CheckAssignee, AddComment, CheckDismissed,
             CreateReport, DismissReports, DisableDemand, ResolveReports, AtStep
    <3>. QED
      BY <1>3, <3>1, Slots, NoRequestType DEF AtStep
  <2>4. \A p : BeingTold(p)' = BeingTold(p)
    BY <2>2, <2>3, ToldKept DEF BeingTold
  <2>. QED
    BY <2>1, <2>4, LikesQuiet
<1>4. CASE Elsewhere \/ UNCHANGED vars
  <2>1. UNCHANGED <<likes, toggles, untold, req>>
    BY <1>4 DEF Elsewhere, MoveDemand, JoinCabinet, LeaveCabinet, vars, tables, history
  <2>2. \A p : BeingTold(p)' = BeingTold(p)
    BY <2>1 DEF BeingTold, AtStep, Who
  <2>. QED
    BY <2>1, <2>2, LikesQuiet
<1>5. CASE Crash
  <2>1. /\ UNCHANGED <<likes, toggles>> /\ untold' = untold \cup Untold(Requests)
        /\ \A s \in Requests : req'[s] = NoRequest
    BY <1>5 DEF Crash, tables
  <2>2. \A p \in Pair \ untold' : BeingTold(p)' = {} /\ BeingTold(p) = {}
    BY <2>1, NoRequestType DEF BeingTold, Untold, AtStep
  <2>. QED
    BY <2>1, <2>2, LikesQuiet
<1> QED
  BY <1>1, <1>2, <1>3, <1>4, <1>5, LikesWritten, LikesAnswered DEF Next

(* However toggles of one user overlap, the demand is liked exactly when   *)
(* that user was or is being told of an odd number of them: the delete     *)
(* needs the row that was read, the insert needs the pair free (toggleLike *)
(* in demands.repository.ts).  Failures and crashes matter only after the  *)
(* write, before the answer.                                               *)
THEOREM LikesFollow == Spec => []LikesFollowAnswers
<1>1. Init => LikesFollowAnswers
  <2> SUFFICES ASSUME Init PROVE LikesFollowAnswers
    OBVIOUS
  <2>1. \A p : BeingTold(p) = {}
    BY NoRequestType DEF Init, BeingTold, AtStep
  <2>2. Cardinality({}) = 0
    BY FS_EmptySet
  <2>3. \A p \in Pair : likes[p] = 0 /\ toggles[p] = 0
    BY DEF Init
  <2>4. (0 + 0) % 2 # 1
    OBVIOUS
  <2>. QED
    BY <2>1, <2>2, <2>3, <2>4 DEF LikesFollowAnswers
<1> QED
  BY <1>1, TypeInvariant, LikesStep, PTL DEF Spec

-----------------------------------------------------------------------------
(* Reports after a dismissal *)

(* A report request past its check is late, or its demand has no dismissal. *)
Reviewed(q) ==
  q.op = "report" /\ q.step = "checked" /\ HasDismissedReports(q.demand)
    => <<q.user, q.demand>> \in late

ReviewInv == TypeInv /\ ReviewIsHeeded /\ \A r \in Requests : Reviewed(req[r])

(* Steps that decide nothing leave every report as it is, or add one.      *)
LEMMA ReviewQuiet ==
  ASSUME ReviewInv, TypeInv', UNCHANGED <<reports, late>>,
         \A r \in Requests : \/ req'[r] = req[r]
                             \/ ~(req'[r].op = "report" /\ req'[r].step = "checked")
                             \/ ~HasDismissedReports(req'[r].demand)
  PROVE  ReviewInv'
<1>1. ReviewIsHeeded'
  BY DEF ReviewInv, ReviewIsHeeded, HasDismissedReports
<1>2. \A r \in Requests : Reviewed(req[r])'
  BY DEF ReviewInv, Reviewed, HasDismissedReports
<1> QED
  BY <1>1, <1>2 DEF ReviewInv

LEMMA ReviewCreate ==
  ASSUME ReviewInv, TypeInv', NEW r \in Requests, CreateReport(r)
  PROVE  ReviewInv'
<1>. DEFINE u == req[r].user
            d == req[r].demand
<1>1. /\ TypeInv /\ u \in Users /\ d \in Demands /\ late' = late
      /\ reports \in [Users \X Demands -> ReportStatus] /\ reports[<<u, d>>] = "none"
      /\ reports' = [reports EXCEPT ![<<u, d>>] = "PENDING"]
      /\ req[r].op = "report" /\ req[r].step = "checked" /\ Finish(r)
  BY DEF CreateReport, AtStep, ReviewInv, TypeInv, TypeOK, Named, Who, Pair, history
<1>2. /\ reports'[<<u, d>>] = "PENDING"
      /\ \A v \in Users, e \in Demands : <<v, e>> # <<u, d>> => reports'[<<v, e>>] = reports[<<v, e>>]
  BY <1>1
<1>3. \A e \in Demands, v \in Users : reports'[<<v, e>>] = "DISMISSED" => HasDismissedReports(e)
  BY <1>1, <1>2 DEF HasDismissedReports
<1>4. HasDismissedReports(d) => <<u, d>> \in late
  BY <1>1 DEF ReviewInv, Reviewed
<1>5. ReviewIsHeeded'
  BY <1>1, <1>2, <1>3, <1>4 DEF ReviewInv, ReviewIsHeeded, HasDismissedReports
<1>6. ASSUME NEW s \in Requests PROVE Reviewed(req[s])'
  <2>1. Named(req[s]) /\ (req'[s] = req[s] \/ req'[s] = NoRequest)
    BY <1>1 DEF Finish, TypeInv, TypeOK
  <2>2. CASE req'[s] = NoRequest
    BY <2>2, NoRequestType DEF Reviewed
  <2>3. CASE req'[s] = req[s] /\ req[s].op = "report" /\ req[s].step = "checked"
    <3>1. req[s].demand \in Demands /\ Reviewed(req[s])
      BY <2>1, <2>3 DEF Named, ReviewInv
    <3>2. (\E v \in Users : reports'[<<v, req[s].demand>>] = "DISMISSED")
            => <<req[s].user, req[s].demand>> \in late
      BY <1>3, <2>3, <3>1 DEF Reviewed
    <3>. QED
      BY <1>1, <2>3, <3>2 DEF Reviewed, HasDismissedReports
  <2>. QED
    BY <2>1, <2>2, <2>3 DEF Reviewed
<1> QED
  BY <1>5, <1>6 DEF ReviewInv

(* Both decisions overwrite every report of one demand. *)
LEMMA Decided ==
  ASSUME TypeInv, NEW d \in Demands, NEW status, Decide(d, status)
  PROVE  \A u \in Users, e \in Demands :
           reports'[<<u, e>>] = IF e = d /\ reports[<<u, e>>] # "none" THEN status ELSE reports[<<u, e>>]
BY DEF Decide, Pair

LEMMA ReviewDismiss ==
  ASSUME ReviewInv, TypeInv', NEW r \in Requests, DismissReports(r)
  PROVE  ReviewInv'
<1>. DEFINE d == req[r].demand
<1>1. /\ TypeInv /\ d \in Demands /\ Decide(d, "DISMISSED") /\ Finish(r)
      /\ late' = late \cup ReportsInFlight(d, {"checked"})
  BY DEF DismissReports, AtStep, ReviewInv, TypeInv, Named
<1>2. \A u \in Users, e \in Demands :
        /\ reports'[<<u, d>>] # "PENDING"
        /\ e # d => reports'[<<u, e>>] = reports[<<u, e>>]
  <2>1. \A u \in Users, e \in Demands :
          reports'[<<u, e>>] = IF e = d /\ reports[<<u, e>>] # "none"
                               THEN "DISMISSED" ELSE reports[<<u, e>>]
    BY <1>1, Decided
  <2>. QED
    BY <1>1, <2>1
<1>3. ReviewIsHeeded'
  BY <1>1, <1>2 DEF ReviewInv, ReviewIsHeeded, HasDismissedReports
<1>4. ASSUME NEW s \in Requests PROVE Reviewed(req[s])'
  <2>1. Named(req[s]) /\ Reviewed(req[s]) /\ (req'[s] = req[s] \/ req'[s] = NoRequest)
    BY <1>1 DEF Finish, TypeInv, TypeOK, ReviewInv
  <2>2. req[s].op = "report" /\ req[s].demand = d /\ req[s].step = "checked"
          => <<req[s].user, req[s].demand>> \in late'
    BY <1>1 DEF ReportsInFlight, Who
  <2>. QED
    BY <1>1, <1>2, <2>1, <2>2, NoRequestType DEF Reviewed, HasDismissedReports, Named
<1> QED
  BY <1>3, <1>4 DEF ReviewInv

LEMMA ReviewResolve ==
  ASSUME ReviewInv, TypeInv', NEW r \in Requests, ResolveReports(r)
  PROVE  ReviewInv'
<1>. DEFINE d == req[r].demand
<1>1. /\ TypeInv /\ d \in Demands /\ Decide(d, "RESOLVED") /\ Finish(r) /\ late' = late
  BY DEF ResolveReports, AtStep, ReviewInv, TypeInv, Named, history
<1>2. \A u \in Users, e \in Demands :
        \/ reports'[<<u, e>>] = reports[<<u, e>>]
        \/ reports'[<<u, e>>] = "RESOLVED"
  BY <1>1, Decided
<1>3. ReviewIsHeeded'
  BY <1>1, <1>2 DEF ReviewInv, ReviewIsHeeded, HasDismissedReports
<1>4. ASSUME NEW s \in Requests PROVE Reviewed(req[s])'
  <2>1. Named(req[s]) /\ Reviewed(req[s]) /\ (req'[s] = req[s] \/ req'[s] = NoRequest)
    BY <1>1 DEF Finish, TypeInv, TypeOK, ReviewInv
  <2>. QED
    BY <1>1, <1>2, <2>1, NoRequestType DEF Reviewed, HasDismissedReports, Named
<1> QED
  BY <1>3, <1>4 DEF ReviewInv

LEMMA ReviewStep == ReviewInv /\ [Next]_vars => ReviewInv'
<1> SUFFICES ASSUME ReviewInv, [Next]_vars PROVE ReviewInv'
  OBVIOUS
<1>0. TypeInv /\ TypeInv'
  BY NextType DEF ReviewInv
<1>1. ASSUME NEW r \in Requests, Arrive(r) PROVE ReviewInv'
  <2>1. /\ reports' = reports /\ late' = late /\ req'[r].step = "found"
        /\ \A s \in Requests : s # r => req'[s] = req[s]
    BY <1>0, <1>1, Arrival DEF tables, history
  <2>. QED
    BY <1>0, <2>1, ReviewQuiet
<1>2. ASSUME NEW r \in Requests, Step(r) PROVE ReviewInv'
  <2>1. CASE CheckDismissed(r)
    <3>1. /\ reports' = reports /\ late' = late /\ ~HasDismissedReports(req[r].demand)
          /\ req[r].op = "report"
      BY <2>1 DEF CheckDismissed, tables, history, AtStep
    <3>2. req'[r].demand = req[r].demand /\ \A s \in Requests : s # r => req'[s] = req[s]
      BY <1>0, <2>1 DEF CheckDismissed, TypeInv, TypeOK, Request
    <3>. QED
      BY <1>0, <3>1, <3>2, ReviewQuiet
  <2>2. CASE DisableDemand(r)
    <3>1. /\ reports' = reports /\ late \subseteq late' /\ TypeInv
          /\ \A s \in Requests : s # r => req'[s] = req[s]
          /\ req'[r].op # "report" \/ req'[r].step # "checked"
      BY <1>0, <1>2, <2>2, Slots, NoRequestType DEF DisableDemand, AtStep
    <3>2. ReviewIsHeeded'
      BY <3>1 DEF ReviewInv, ReviewIsHeeded, HasDismissedReports
    <3>3. \A s \in Requests : Reviewed(req[s])'
      BY <3>1 DEF ReviewInv, Reviewed, HasDismissedReports
    <3>. QED
      BY <1>0, <3>2, <3>3 DEF ReviewInv
  <2>3. CASE ReadLike(r) \/ ToggleLike(r) \/ AnswerLike(r) \/ FindMembership(r)
             \/ CheckAssignee(r) \/ AddComment(r) \/ Fail(r)
    <3>1. reports' = reports /\ late' = late
      BY <2>3 DEF ReadLike, ToggleLike, AnswerLike, FindMembership, CheckAssignee, AddComment, Fail, tables, history
    <3>2. /\ \A s \in Requests : s # r => req'[s] = req[s]
          /\ req'[r].op # "report" \/ req'[r].step # "checked"
      BY <1>0, <1>2, <2>3, Slots, NoRequestType
         DEF ReadLike, ToggleLike, AnswerLike, FindMembership, CheckAssignee, AddComment, Fail, Finish, AtStep,
             TypeInv, TypeOK
    <3>. QED
      BY <1>0, <3>1, <3>2, ReviewQuiet
  <2>. QED
    BY <1>0, <1>2, <2>1, <2>2, <2>3, ReviewCreate, ReviewDismiss, ReviewResolve DEF Step
<1>3. CASE Elsewhere \/ UNCHANGED vars
  <2>1. UNCHANGED <<reports, late, req>>
    BY <1>3 DEF Elsewhere, MoveDemand, JoinCabinet, LeaveCabinet, vars, tables, history
  <2>. QED
    BY <1>0, <2>1, ReviewQuiet
<1>4. CASE Crash
  <2>1. reports' = reports /\ late' = late /\ \A r \in Requests : req'[r] = NoRequest
    BY <1>4 DEF Crash, tables
  <2>. QED
    BY <1>0, <2>1, ReviewQuiet, NoRequestType
<1> QED
  BY <1>1, <1>2, <1>3, <1>4 DEF Next

(* Once the reports of a demand were dismissed it is reported again only   *)
(* by requests that had passed their check by then: a report looks for     *)
(* dismissals of anybody's reports (create-demand-report.use-case.ts).     *)
THEOREM ReviewHeeded == Spec => []ReviewIsHeeded
<1>1. Init => ReviewInv
  <2> SUFFICES ASSUME Init PROVE ReviewInv
    OBVIOUS
  <2>1. \A p \in Pair : reports[p] = "none"
    BY DEF Init
  <2>2. ReviewIsHeeded
    BY <2>1 DEF ReviewIsHeeded, Pair
  <2>3. \A r \in Requests : Reviewed(req[r])
    BY NoRequestType DEF Init, Reviewed
  <2>. QED
    BY <2>2, <2>3, InitType DEF ReviewInv
<1>2. ReviewInv => ReviewIsHeeded
  BY DEF ReviewInv
<1> QED
  BY <1>1, <1>2, ReviewStep, PTL DEF Spec

-----------------------------------------------------------------------------
(* Reports of deleted demands *)

(* A report request on a deleted demand had found it before.               *)
FoundBefore(q) ==
  q.op = "report" /\ q.demand \in deleted => <<q.user, q.demand>> \in late

DeletionInv == TypeInv /\ DeletionSettlesReports /\ \A r \in Requests : FoundBefore(req[r])

Settling(q, d) == q.op = "delete" /\ q.step = "disabled" /\ q.demand = d

(* Steps that delete no demand and file no report.                         *)
LEMMA DeletionQuiet ==
  ASSUME DeletionInv, TypeInv', UNCHANGED <<deleted, late>>, unsettled \subseteq unsettled',
         \A u \in Users, d \in Demands :
           reports'[<<u, d>>] = "PENDING" => reports[<<u, d>>] = "PENDING",
         \A r \in Requests :
           \/ req'[r].op # "report"
           \/ req'[r].demand \notin deleted
           \/ /\ req'[r].op = req[r].op /\ req'[r].user = req[r].user
              /\ req'[r].demand = req[r].demand,
         \A r \in Requests, d \in Demands : Settling(req[r], d) =>
           \/ Settling(req'[r], d)
           \/ d \in unsettled'
           \/ \A u \in Users : reports'[<<u, d>>] # "PENDING"
  PROVE  DeletionInv'
<1>1. DeletionSettlesReports'
  <2> SUFFICES ASSUME NEW u \in Users, NEW d \in Demands,
                      reports'[<<u, d>>] = "PENDING", d \in deleted
               PROVE  \/ \E r \in Requests : Settling(req'[r], d)
                      \/ d \in unsettled'
                      \/ <<u, d>> \in late
    BY DEF DeletionSettlesReports, AtStep, Settling
  <2>1. \/ \E r \in Requests : Settling(req[r], d)
        \/ d \in unsettled
        \/ <<u, d>> \in late
    BY DEF DeletionInv, DeletionSettlesReports, AtStep, Settling
  <2>. QED
    BY <2>1
<1>2. \A r \in Requests : FoundBefore(req[r])'
  BY DEF DeletionInv, FoundBefore
<1> QED
  BY <1>1, <1>2 DEF DeletionInv

LEMMA DeletionFile ==
  ASSUME DeletionInv, TypeInv', NEW r \in Requests, CreateReport(r)
  PROVE  DeletionInv'
<1>. DEFINE u == req[r].user
            d == req[r].demand
<1>1. /\ TypeInv /\ u \in Users /\ d \in Demands /\ UNCHANGED <<deleted, late, unsettled>>
      /\ reports \in [Users \X Demands -> ReportStatus]
      /\ reports' = [reports EXCEPT ![<<u, d>>] = "PENDING"]
      /\ req[r].op = "report" /\ Finish(r)
  BY DEF CreateReport, AtStep, DeletionInv, TypeInv, TypeOK, Named, Who, Pair, history
<1>2. \A v \in Users, e \in Demands :
        <<v, e>> # <<u, d>> => reports'[<<v, e>>] = reports[<<v, e>>]
  BY <1>1
<1>3. \A s \in Requests : req'[s] = req[s] \/ (s = r /\ req'[s] = NoRequest)
  BY <1>1 DEF Finish, TypeInv, TypeOK
<1>4. d \in deleted => <<u, d>> \in late
  BY <1>1 DEF DeletionInv, FoundBefore
<1>5. DeletionSettlesReports'
  <2> SUFFICES ASSUME NEW v \in Users, NEW e \in Demands,
                      reports'[<<v, e>>] = "PENDING", e \in deleted, <<v, e>> # <<u, d>>
               PROVE  \/ \E s \in Requests : Settling(req'[s], e)
                      \/ e \in unsettled
                      \/ <<v, e>> \in late
    BY <1>1, <1>4 DEF DeletionSettlesReports, AtStep, Settling
  <2>1. \/ \E s \in Requests : Settling(req[s], e)
        \/ e \in unsettled
        \/ <<v, e>> \in late
    BY <1>2 DEF DeletionInv, DeletionSettlesReports, AtStep, Settling
  <2>. QED
    BY <1>1, <1>3, <2>1 DEF Settling
<1>6. \A s \in Requests : FoundBefore(req[s])'
  BY <1>1, <1>3, NoRequestType DEF DeletionInv, FoundBefore
<1> QED
  BY <1>5, <1>6 DEF DeletionInv

LEMMA DeletionDismiss ==
  ASSUME DeletionInv, TypeInv', NEW r \in Requests, DismissReports(r)
  PROVE  DeletionInv'
<1>. DEFINE d == req[r].demand
<1>1. /\ TypeInv /\ d \in Demands /\ Decide(d, "DISMISSED") /\ Finish(r)
      /\ late \subseteq late' /\ UNCHANGED <<deleted, unsettled>> /\ req[r].op = "dismiss"
  BY DEF DismissReports, AtStep, DeletionInv, TypeInv, Named
<1>2. \A u \in Users, e \in Demands :
        reports'[<<u, e>>] = "PENDING" => reports[<<u, e>>] = "PENDING"
  BY <1>1, Decided
<1>3. \A s \in Requests : req'[s] = req[s] \/ (s = r /\ req'[s] = NoRequest)
  BY <1>1 DEF Finish, TypeInv, TypeOK
<1>4. DeletionSettlesReports'
  <2> SUFFICES ASSUME NEW v \in Users, NEW e \in Demands,
                      reports'[<<v, e>>] = "PENDING", e \in deleted
               PROVE  \/ \E s \in Requests : Settling(req'[s], e)
                      \/ e \in unsettled
                      \/ <<v, e>> \in late'
    BY <1>1 DEF DeletionSettlesReports, AtStep, Settling
  <2>1. \/ \E s \in Requests : Settling(req[s], e)
        \/ e \in unsettled
        \/ <<v, e>> \in late
    BY <1>2 DEF DeletionInv, DeletionSettlesReports, AtStep, Settling
  <2>. QED
    BY <1>1, <1>3, <2>1 DEF Settling
<1>5. \A s \in Requests : FoundBefore(req[s])'
  BY <1>1, <1>3, NoRequestType DEF DeletionInv, FoundBefore
<1> QED
  BY <1>4, <1>5 DEF DeletionInv

(* Deleting makes late every report request that has found the demand.     *)
LEMMA DeletionDisable ==
  ASSUME DeletionInv, TypeInv', NEW r \in Requests, DisableDemand(r)
  PROVE  DeletionInv'
<1>. DEFINE d == req[r].demand
<1>1. /\ TypeInv /\ d \in Demands /\ deleted' = deleted \cup {d}
      /\ late' = late \cup ReportsInFlight(d, {"found", "checked"})
      /\ UNCHANGED <<reports, unsettled>> /\ req[r].op = "delete"
  BY DEF DisableDemand, AtStep, DeletionInv, TypeInv, Named
<1>2. /\ Settling(req'[r], d) /\ req[r].step = "found"
      /\ \A s \in Requests : s # r => req'[s] = req[s]
  BY <1>1 DEF DisableDemand, AtStep, TypeInv, TypeOK, Request, Settling
<1>3. DeletionSettlesReports'
  <2> SUFFICES ASSUME NEW v \in Users, NEW e \in Demands,
                      reports[<<v, e>>] = "PENDING", e \in deleted
               PROVE  \/ \E s \in Requests : Settling(req'[s], e)
                      \/ e \in unsettled
                      \/ <<v, e>> \in late'
    BY <1>1, <1>2 DEF DeletionSettlesReports, AtStep, Settling
  <2>1. \/ \E s \in Requests : Settling(req[s], e)
        \/ e \in unsettled
        \/ <<v, e>> \in late
    BY DEF DeletionInv, DeletionSettlesReports, AtStep, Settling
  <2>. QED
    BY <1>1, <1>2, <2>1 DEF Settling
<1>4. ASSUME NEW s \in Requests PROVE FoundBefore(req[s])'
  <2>1. CASE s = r
    BY <1>2, <2>1 DEF FoundBefore, Settling
  <2>2. CASE s # r
    <3>1. req'[s] = req[s] /\ FoundBefore(req[s]) /\ req[s] \in Request
      BY <1>1, <1>2, <2>2 DEF DeletionInv, TypeInv, TypeOK
    <3>2. req[s].op = "report" /\ req[s].demand = d /\ req[s].step \in {"found", "checked"}
            => <<req[s].user, req[s].demand>> \in late'
      BY <1>1 DEF ReportsInFlight, Who
    <3>3. req[s].op = "report" => req[s].step \in {"found", "checked"}
      BY DEF DeletionInv, TypeInv, Named
    <3>. QED
      BY <1>1, <3>1, <3>2, <3>3 DEF FoundBefore
  <2>. QED
    BY <2>1, <2>2
<1> QED
  BY <1>3, <1>4 DEF DeletionInv

LEMMA DeletionResolve ==
  ASSUME DeletionInv, TypeInv', NEW r \in Requests, ResolveReports(r)
  PROVE  DeletionInv'
<1>. DEFINE d == req[r].demand
<1>1. /\ TypeInv /\ d \in Demands /\ Decide(d, "RESOLVED") /\ Finish(r)
      /\ UNCHANGED <<deleted, late, unsettled>>
  BY DEF ResolveReports, AtStep, DeletionInv, TypeInv, Named, history
<1>2. \A u \in Users, e \in Demands :
        reports'[<<u, e>>] = "PENDING" => reports[<<u, e>>] = "PENDING" /\ e # d
  BY <1>1, Decided
<1>3. \A s \in Requests : req'[s] = req[s] \/ (s = r /\ req'[s] = NoRequest)
  BY <1>1 DEF Finish, TypeInv, TypeOK
<1>4. \A s \in Requests : \/ req'[s].op # "report"
                          \/ /\ req'[s].op = req[s].op /\ req'[s].user = req[s].user
                             /\ req'[s].demand = req[s].demand
  BY <1>3, NoRequestType
<1>5. ASSUME NEW s \in Requests, NEW e \in Demands, Settling(req[s], e)
      PROVE  Settling(req'[s], e) \/ \A u \in Users : reports'[<<u, e>>] # "PENDING"
  BY <1>2, <1>3, <1>5 DEF Settling
<1> QED
  BY <1>1, <1>2, <1>4, <1>5, DeletionQuiet

LEMMA DeletionFail ==
  ASSUME DeletionInv, TypeInv', NEW r \in Requests, Fail(r)
  PROVE  DeletionInv'
<1>1. /\ TypeInv /\ Finish(r) /\ UNCHANGED <<deleted, late, reports>>
      /\ unsettled' = unsettled \cup HalfDeleted({r})
  BY DEF Fail, tables, DeletionInv
<1>2. \A s \in Requests : req'[s] = req[s] \/ (s = r /\ req'[s] = NoRequest)
  BY <1>1 DEF Finish, TypeInv, TypeOK
<1>3. \A s \in Requests : \/ req'[s].op # "report"
                          \/ /\ req'[s].op = req[s].op /\ req'[s].user = req[s].user
                             /\ req'[s].demand = req[s].demand
  BY <1>2, NoRequestType
<1>4. ASSUME NEW s \in Requests, NEW e \in Demands, Settling(req[s], e)
      PROVE  Settling(req'[s], e) \/ e \in unsettled'
  BY <1>1, <1>2, <1>4 DEF Settling, HalfDeleted, AtStep
<1> QED
  BY <1>1, <1>3, <1>4, DeletionQuiet

LEMMA DeletionStep == DeletionInv /\ [Next]_vars => DeletionInv'
<1> SUFFICES ASSUME DeletionInv, [Next]_vars PROVE DeletionInv'
  OBVIOUS
<1>0. TypeInv /\ TypeInv'
  BY NextType DEF DeletionInv
<1>1. ASSUME NEW r \in Requests, Arrive(r) PROVE DeletionInv'
  <2>1. /\ UNCHANGED <<deleted, late, unsettled, reports>>
        /\ \A s \in Requests : s # r => req'[s] = req[s]
        /\ req'[r].demand \notin deleted
        /\ \A d \in Demands : ~Settling(req[r], d)
    BY <1>0, <1>1, Arrival, NoRequestType DEF tables, history, Settling
  <2>. QED
    BY <1>0, <2>1, DeletionQuiet
<1>2. ASSUME NEW r \in Requests, Step(r) PROVE DeletionInv'
  <2>1. CASE \/ ReadLike(r) \/ ToggleLike(r) \/ AnswerLike(r) \/ FindMembership(r)
             \/ CheckAssignee(r) \/ AddComment(r) \/ CheckDismissed(r)
    <3>1. UNCHANGED <<deleted, late, unsettled, reports>> /\ req[r].op # "delete"
      BY <2>1 DEF ReadLike, ToggleLike, AnswerLike, FindMembership, CheckAssignee, AddComment,
                  CheckDismissed, tables, history, AtStep
    <3>2. /\ \A s \in Requests : s # r => req'[s] = req[s]
          /\ \/ req'[r].op # "report"
             \/ /\ req'[r].op = req[r].op /\ req'[r].user = req[r].user
                /\ req'[r].demand = req[r].demand
      BY <1>0, <1>2, Slots, NoRequestType
    <3>3. \A d \in Demands : ~Settling(req[r], d)
      BY <3>1 DEF Settling
    <3>. QED
      BY <1>0, <3>1, <3>2, <3>3, DeletionQuiet
  <2>. QED
    BY <1>0, <1>2, <2>1, DeletionFile, DeletionDismiss, DeletionDisable, DeletionResolve,
       DeletionFail DEF Step
<1>3. CASE Elsewhere \/ UNCHANGED vars
  <2>1. UNCHANGED <<deleted, late, unsettled, reports, req>>
    BY <1>3 DEF Elsewhere, MoveDemand, JoinCabinet, LeaveCabinet, vars, tables, history
  <2>. QED
    BY <1>0, <2>1, DeletionQuiet
<1>4. CASE Crash
  <2>1. /\ UNCHANGED <<deleted, late, reports>> /\ unsettled \subseteq unsettled'
        /\ \A s \in Requests : req'[s].op # "report"
    BY <1>4, NoRequestType DEF Crash, tables
  <2>2. \A s \in Requests, d \in Demands : Settling(req[s], d) => d \in unsettled'
    BY <1>4 DEF Crash, HalfDeleted, AtStep, Settling
  <2>. QED
    BY <1>0, <2>1, <2>2, DeletionQuiet
<1> QED
  BY <1>1, <1>2, <1>3, <1>4 DEF Next

(* A report stays pending on a deleted demand only where the deletion has  *)
(* yet to settle it or died before it could, or where the report had found *)
(* the demand before it was disabled: the row is disabled first and its    *)
(* reports are settled by a second statement (demands.repository.ts).      *)
THEOREM DeletionSettles == Spec => []DeletionSettlesReports
<1>1. Init => DeletionInv
  <2> SUFFICES ASSUME Init PROVE DeletionInv
    OBVIOUS
  <2>1. DeletionSettlesReports
    BY DEF Init, DeletionSettlesReports
  <2>2. \A r \in Requests : FoundBefore(req[r])
    BY NoRequestType DEF Init, FoundBefore
  <2>. QED
    BY <2>1, <2>2, InitType DEF DeletionInv
<1>2. DeletionInv => DeletionSettlesReports
  BY DEF DeletionInv
<1> QED
  BY <1>1, <1>2, DeletionStep, PTL DEF Spec

-----------------------------------------------------------------------------
(* Answers of a cabinet *)

(* What a request read of owners and members was true when it read it.     *)
Witnessed(q) ==
  /\ q.op # "none" /\ q.cabinet # NONE => <<q.demand, q.cabinet>> \in owned
  /\ q.op \in {"comment", "progress"} /\ q.step = "checked" /\ q.isCabinetResponse =>
       q.cabinet \in Cabinets /\ <<q.user, q.cabinet>> \in belonged

AnswerInv ==
  /\ TypeInv
  /\ \A d \in Demands : owner[d] # NONE => <<d, owner[d]>> \in owned
  /\ members \subseteq belonged
  /\ AnswersComeFromTheCabinet
  /\ \A r \in Requests : Witnessed(req[r])

LEMMA AnswerQuiet ==
  ASSUME AnswerInv, TypeInv', UNCHANGED <<owner, members, comments, owned, belonged>>,
         \A r \in Requests : Witnessed(req'[r])
  PROVE  AnswerInv'
<1>1. \A r \in Requests : Witnessed(req[r])'
  BY DEF Witnessed
<1>2. AnswersComeFromTheCabinet'
  BY DEF AnswerInv, AnswersComeFromTheCabinet
<1> QED
  BY <1>1, <1>2 DEF AnswerInv

LEMMA AnswerHandler ==
  ASSUME AnswerInv, TypeInv', NEW r \in Requests, Step(r)
  PROVE  AnswerInv'
<1>0. /\ TypeInv /\ Witnessed(req[r]) /\ req[r] \in Request /\ Named(req[r])
      /\ UNCHANGED <<owner, members, owned, belonged>>
  BY DEF AnswerInv, TypeInv, TypeOK, Step, ReadLike, ToggleLike, AnswerLike, FindMembership,
         CheckAssignee, AddComment, CheckDismissed, CreateReport, DismissReports, DisableDemand, ResolveReports, Fail,
         tables, history
<1>1. Witnessed(req'[r])
  <2>1. CASE FindMembership(r)
    <3>1. /\ req'[r].op = req[r].op /\ req'[r].user = req[r].user
          /\ req'[r].demand = req[r].demand /\ req'[r].cabinet = req[r].cabinet
          /\ req[r].op # "none"
          /\ req'[r].isCabinetResponse = (<<req[r].user, req[r].cabinet>> \in members)
      BY <1>0, <2>1 DEF FindMembership, AtStep, TypeInv, TypeOK, Request
    <3>2. members \subseteq belonged /\ members \subseteq Users \X Cabinets
      BY DEF AnswerInv, TypeInv, TypeOK
    <3>3. req'[r].isCabinetResponse =>
            req[r].cabinet \in Cabinets /\ <<req[r].user, req[r].cabinet>> \in belonged
      BY <3>1, <3>2
    <3>. QED
      BY <1>0, <3>1, <3>3 DEF Witnessed
  <2>2. CASE CheckAssignee(r)
    <3>1. /\ req'[r].op = req[r].op /\ req'[r].user = req[r].user
          /\ req'[r].demand = req[r].demand /\ req'[r].cabinet = req[r].cabinet
          /\ req[r].op # "none" /\ <<req[r].user, req[r].cabinet>> \in members
      BY <1>0, <2>2 DEF CheckAssignee, AtStep, TypeInv, TypeOK, Request
    <3>2. members \subseteq belonged /\ members \subseteq Users \X Cabinets
      BY DEF AnswerInv, TypeInv, TypeOK
    <3>. QED
      BY <1>0, <3>1, <3>2 DEF Witnessed
  <2>3. CASE req'[r].op \notin {"comment", "progress"}
    BY <1>0, <2>3, Slots, NoRequestType DEF Witnessed
  <2>4. ~FindMembership(r) /\ ~CheckAssignee(r) => req'[r].op \notin {"comment", "progress"}
    BY <1>0, Slots, NoRequestType
       DEF Step, ReadLike, ToggleLike, AnswerLike, AddComment, CheckDismissed, CreateReport,
           DismissReports, DisableDemand, ResolveReports, Fail, Finish, AtStep, TypeInv, TypeOK
  <2>. QED
    BY <2>1, <2>2, <2>3, <2>4
<1>2. \A s \in Requests : Witnessed(req'[s])
  BY <1>0, <1>1, Slots DEF AnswerInv, Witnessed
<1>3. CASE ~AddComment(r)
  <2>1. comments' = comments
    BY <1>3 DEF Step, ReadLike, ToggleLike, AnswerLike, FindMembership, CheckAssignee,
                CheckDismissed, CreateReport, DismissReports, DisableDemand, ResolveReports,
                Fail, tables
  <2>. QED
    BY <1>0, <1>2, <2>1, AnswerQuiet
<1>4. CASE AddComment(r)
  <2>. DEFINE new == [demand |-> req[r].demand, author |-> req[r].user,
                      isCabinetResponse |-> req[r].isCabinetResponse]
  <2>1. comments' = comments \cup {new} /\ req[r].step = "checked"
                                /\ req[r].op \in {"comment", "progress"}
    BY <1>4 DEF AddComment, AtStep
  <2>2. new.isCabinetResponse =>
          /\ req[r].cabinet \in Cabinets
          /\ <<new.demand, req[r].cabinet>> \in owned /\ <<new.author, req[r].cabinet>> \in belonged
    BY <1>0, <2>1, EngagementAssumption DEF Witnessed
  <2>3. AnswersComeFromTheCabinet'
    BY <1>0, <2>1, <2>2 DEF AnswerInv, AnswersComeFromTheCabinet
  <2>4. \A s \in Requests : Witnessed(req[s])'
    BY <1>0, <1>2 DEF Witnessed
  <2>. QED
    BY <1>0, <2>3, <2>4 DEF AnswerInv
<1> QED
  BY <1>3, <1>4

LEMMA AnswerStep == AnswerInv /\ [Next]_vars => AnswerInv'
<1> SUFFICES ASSUME AnswerInv, [Next]_vars PROVE AnswerInv'
  OBVIOUS
<1>0. TypeInv /\ TypeInv' /\ \A r \in Requests : Witnessed(req[r])
  BY NextType DEF AnswerInv
<1>1. ASSUME NEW r \in Requests, Arrive(r) PROVE AnswerInv'
  <2>1. UNCHANGED <<owner, members, comments, owned, belonged>>
    BY <1>0, <1>1, Arrival DEF tables, history
  <2>2. Witnessed(req'[r])
    BY <1>0, <1>1, Arrival DEF AnswerInv, Witnessed
  <2>3. \A s \in Requests : Witnessed(req'[s])
    BY <1>0, <1>1, <2>2, Arrival
  <2>. QED
    BY <1>0, <2>1, <2>3, AnswerQuiet
<1>2. ASSUME NEW r \in Requests, Step(r) PROVE AnswerInv'
  BY <1>0, <1>2, AnswerHandler
<1>3. ASSUME NEW d \in Demands, NEW c \in Cabinets \cup {NONE}, MoveDemand(d, c) PROVE AnswerInv'
  <2>1. /\ UNCHANGED <<members, comments, belonged, req>> /\ owned \subseteq owned'
        /\ \A e \in Demands : owner'[e] # NONE => <<e, owner'[e]>> \in owned'
    BY <1>0, <1>3 DEF MoveDemand, AnswerInv, TypeInv, TypeOK
  <2>2. AnswersComeFromTheCabinet' /\ \A r \in Requests : Witnessed(req[r])'
    BY <1>0, <2>1 DEF AnswerInv, AnswersComeFromTheCabinet, Witnessed
  <2>. QED
    BY <1>0, <2>1, <2>2 DEF AnswerInv
<1>4. ASSUME NEW u \in Users, NEW c \in Cabinets, JoinCabinet(u, c) \/ LeaveCabinet(u, c)
      PROVE  AnswerInv'
  <2>1. /\ UNCHANGED <<owner, comments, owned, req>> /\ belonged \subseteq belonged'
        /\ members' \subseteq belonged'
    BY <1>4 DEF JoinCabinet, LeaveCabinet, AnswerInv, history
  <2>2. AnswersComeFromTheCabinet' /\ \A r \in Requests : Witnessed(req[r])'
    BY <1>0, <2>1 DEF AnswerInv, AnswersComeFromTheCabinet, Witnessed
  <2>. QED
    BY <1>0, <2>1, <2>2 DEF AnswerInv
<1>5. CASE Crash \/ UNCHANGED vars
  <2>1. UNCHANGED <<owner, members, comments, owned, belonged>>
    BY <1>5 DEF Crash, vars, tables, history
  <2>2. \A r \in Requests : Witnessed(req'[r])
    BY <1>0, <1>5, NoRequestType DEF Crash, vars, Witnessed
  <2>. QED
    BY <1>0, <2>1, <2>2, AnswerQuiet
<1> QED
  BY <1>1, <1>2, <1>3, <1>4, <1>5 DEF Next, Elsewhere

(* A comment is shown as the cabinet's answer only if some cabinet that    *)
(* owned the demand at some time had its author for a member at some time, *)
(* whatever moves between the reads of create-demand-comment.use-case.ts.  *)
THEOREM AnswersFromTheCabinet == Spec => []AnswersComeFromTheCabinet
<1>1. Init => AnswerInv
  <2> SUFFICES ASSUME Init PROVE AnswerInv
    OBVIOUS
  <2>1. \A d \in Demands : owner[d] # NONE => <<d, owner[d]>> \in owned
    BY DEF Init
  <2>2. \A r \in Requests : Witnessed(req[r])
    BY NoRequestType DEF Init, Witnessed
  <2>3. members \subseteq belonged /\ AnswersComeFromTheCabinet
    BY DEF Init, AnswersComeFromTheCabinet
  <2>. QED
    BY <2>1, <2>2, <2>3, InitType DEF AnswerInv
<1>2. AnswerInv => AnswersComeFromTheCabinet
  BY DEF AnswerInv
<1> QED
  BY <1>1, <1>2, AnswerStep, PTL DEF Spec

-----------------------------------------------------------------------------
(* The instance that is model-checked explores one part and leaves the     *)
(* other alone: what each part promises holds of every behaviour of both.  *)
LEMMA PartsRun == MCSpec => Spec /\ ReportsSpec
<1>1. MCInit => Init /\ ReportsInit
  BY DEF MCInit
<1>2. [MCNext]_<<vars, reportVars, part>> => [Next]_vars /\ [PublishFigures]_reportVars
  BY DEF MCNext
<1> QED
  BY <1>1, <1>2, PTL DEF MCSpec, Spec, ReportsSpec

(* Demands, requests, comments, reports and figures have their types       *)
(* together.                                                               *)
THEOREM MCTypeCorrect == MCSpec => []MCTypeOK
BY PartsRun, TypeCorrect, ReportsTypeCorrect, PTL DEF MCTypeOK
=============================================================================
