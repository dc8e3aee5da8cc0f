---------------------- MODULE CabinetMembershipProofs -----------------------
(***************************************************************************)
(* Theorems about CabinetMembership, for any users, cabinets, addresses,   *)
(* plan, number of overlapping requests and bound, with or without         *)
(* requests that die halfway.                                              *)
(***************************************************************************)
EXTENDS CabinetMembership, FiniteSetTheorems, TLAPS

(* What a request in progress names, by the route it came on. *)
Named(q) ==
  q.op # "none" =>
    /\ q.cabinet \in Cabinets
    /\ q.op \in {"invite", "accept", "cancel"} => q.email \in Emails
    /\ q.op \notin {"invite", "cancel"} => q.target \in Users

TypeInv == TypeOK /\ \A r \in Requests : Named(req[r])

-----------------------------------------------------------------------------
(* Types *)

LEMMA NoRequestType == NoRequest \in Request /\ Named(NoRequest)
  BY DEF NoRequest, Request, NoInvitation, Invitation, CabinetRoles, Named

LEMMA InitType == Init => TypeInv
<1> SUFFICES ASSUME Init PROVE TypeInv
  OBVIOUS
<1>1. invitation \in [Emails -> [Cabinets -> Invitation]]
  BY DEF Init, NoInvitation, Invitation, CabinetRoles
<1>2. req \in [Requests -> Request] /\ \A r \in Requests : Named(req[r])
  BY NoRequestType DEF Init
<1> QED
  BY <1>1, <1>2 DEF Init, TypeInv, TypeOK

LEMMA AcceptType ==
  ASSUME TypeInv, NEW r \in Requests, NEW q \in Request, Named(q), Accept(r, q)
  PROVE  TypeInv'
<1>1. req' \in [Requests -> Request] /\ \A s \in Requests : Named(req'[s])
  BY DEF TypeInv, TypeOK, Accept
<1>2. issued' \in Nat
  BY DEF TypeInv, TypeOK, Accept
<1> QED
  BY <1>1, <1>2 DEF TypeInv, TypeOK, Accept, rows, past, Named

LEMMA SlotType ==
  ASSUME TypeInv, NEW r \in Requests,
         Finish(r) \/ \E step \in {"checked", "created", "joined", "clearing", "promoted"} :
                        GoTo(r, step)
  PROVE  req' \in [Requests -> Request] /\ \A s \in Requests : Named(req'[s])
<1>1. CASE Finish(r)
  BY <1>1, NoRequestType DEF TypeInv, TypeOK, Finish
<1>2. ASSUME NEW step \in {"checked", "created", "joined", "clearing", "promoted"},
             GoTo(r, step)
      PROVE  req' \in [Requests -> Request] /\ \A s \in Requests : Named(req'[s])
  <2>1. req[r] \in Request /\ Named(req[r])
    BY DEF TypeInv, TypeOK
  <2>2. /\ [req[r] EXCEPT !.step = step] \in Request
        /\ Named([req[r] EXCEPT !.step = step])
    BY <2>1 DEF Request, Named
  <2> QED
    BY <1>2, <2>2 DEF GoTo, TypeInv, TypeOK
<1> QED
  BY <1>1, <1>2

(* A membership written with a role, or with none, keeps the type. *)
LEMMA MemberType ==
  ASSUME TypeInv, NEW u, NEW c, NEW v \in CabinetRoles \cup {NONE}, SetMember(u, c, v)
  PROVE  member' \in [Users -> [Cabinets -> CabinetRoles \cup {NONE}]]
BY DEF TypeInv, TypeOK, SetMember

LEMMA ArrivalType ==
  ASSUME TypeInv, NEW r \in Requests, Arrival(r)
  PROVE  TypeInv'
<1>0. MembershipAssumption /\ NoRequest \in Request
  BY MembershipAssumption, NoRequestType
<1>1. ASSUME NEW c \in Cabinets, NEW u \in Users,
             CreateRead(r, u, c) \/ LeaveRead(r, u, c)
      PROVE  TypeInv'
  <2> DEFINE q1 == [NoRequest EXCEPT !.op = "create", !.step = "read",
                                     !.target = u, !.cabinet = c]
             q2 == [NoRequest EXCEPT !.op = "leave", !.step = "checked", !.user = u,
                                     !.target = u, !.cabinet = c]
  <2>1. q1 \in Request /\ q2 \in Request /\ Named(q1) /\ Named(q2)
    BY NoRequestType DEF NoRequest, Request, Named
  <2>2. Accept(r, q1) \/ Accept(r, q2)
    BY <1>1 DEF CreateRead, LeaveRead
  <2> QED
    BY <2>1, <2>2, AcceptType
<1>2. ASSUME NEW c \in Cabinets, NEW u \in Users, TransferRead(r, u, c)
      PROVE  TypeInv'
  <2>1. PICK o \in Users \cup {NONE} :
          Accept(r, [NoRequest EXCEPT !.op = "transfer", !.step = "checked",
                                      !.target = u, !.cabinet = c, !.owner = o,
                                      !.seen = member[u][c] # NONE])
    BY <1>2 DEF TransferRead, OwnersOf
  <2> DEFINE q == [NoRequest EXCEPT !.op = "transfer", !.step = "checked",
                                    !.target = u, !.cabinet = c, !.owner = o,
                                    !.seen = member[u][c] # NONE]
  <2>2. q \in Request /\ Named(q)
    BY NoRequestType DEF NoRequest, Request, Named
  <2> QED
    BY <2>1, <2>2, AcceptType
<1>3. ASSUME NEW c \in Cabinets, NEW u \in Users, NEW e \in Emails,
             AcceptRead(r, u, e, c) \/ CancelRead(r, u, e, c)
      PROVE  TypeInv'
  <2> DEFINE q1 == [NoRequest EXCEPT !.op = "accept", !.step = "read", !.user = u,
                                     !.target = u, !.email = e, !.cabinet = c,
                                     !.invite = invitation[e][c],
                                     !.seen = role[u] = "CITIZEN"]
             q2 == [NoRequest EXCEPT !.op = "cancel", !.step = "checked", !.user = u,
                                     !.email = e, !.cabinet = c,
                                     !.invite = invitation[e][c]]
  <2>1. invitation[e][c] \in Invitation
    BY DEF TypeInv, TypeOK
  <2>2. q1 \in Request /\ q2 \in Request /\ Named(q1) /\ Named(q2)
    BY <2>1, NoRequestType DEF NoRequest, Request, Named
  <2>3. Accept(r, q1) \/ Accept(r, q2)
    BY <1>3 DEF AcceptRead, CancelRead
  <2> QED
    BY <2>2, <2>3, AcceptType
<1>4. ASSUME NEW c \in Cabinets, NEW u \in Users, NEW e \in Emails, NEW new \in CabinetRoles,
             InviteRead(r, u, e, c, new)
      PROVE  TypeInv'
  <2> DEFINE q == [NoRequest EXCEPT !.op = "invite", !.step = "read", !.user = u,
                                    !.email = e, !.cabinet = c, !.role = new]
  <2>1. q \in Request /\ Named(q)
    BY NoRequestType DEF NoRequest, Request, Named
  <2> QED
    BY <1>4, <2>1, AcceptType DEF InviteRead
<1>5. ASSUME NEW c \in Cabinets, NEW u \in Users, NEW t \in Users, NEW new \in CabinetRoles,
             RemoveRead(r, u, t, c) \/ RoleRead(r, u, t, c, new)
      PROVE  TypeInv'
  <2> DEFINE q1 == [NoRequest EXCEPT !.op = "remove", !.step = "checked", !.user = u,
                                     !.target = t, !.cabinet = c]
             q2 == [NoRequest EXCEPT !.op = "role", !.step = "checked", !.user = u,
                                     !.target = t, !.cabinet = c, !.role = new]
  <2>1. q1 \in Request /\ q2 \in Request /\ Named(q1) /\ Named(q2)
    BY NoRequestType DEF NoRequest, Request, Named
  <2>2. Accept(r, q1) \/ Accept(r, q2)
    BY <1>5 DEF RemoveRead, RoleRead
  <2> QED
    BY <2>1, <2>2, AcceptType
<1>6. "STAFF" \in CabinetRoles
  BY DEF CabinetRoles
<1> QED
  BY <1>1, <1>2, <1>3, <1>4, <1>5, <1>6 DEF Arrival

LEMMA JoiningType ==
  ASSUME TypeInv, NEW r \in Requests, Joining(r)
  PROVE  TypeInv'
<1>0. /\ req[r] \in Request /\ Named(req[r]) /\ MembershipAssumption
      /\ member \in [Users -> [Cabinets -> CabinetRoles \cup {NONE}]]
      /\ role \in [Users -> UserRoles]
      /\ invitation \in [Emails -> [Cabinets -> Invitation]]
      /\ minted \in Nat /\ issued \in Nat
  BY MembershipAssumption DEF TypeInv, TypeOK
<1>a. req' \in [Requests -> Request] /\ \A s \in Requests : Named(req'[s])
  BY SlotType DEF Joining, InviteCheck, InviteWrite, CancelWrite, AcceptAsMember, AcceptCheck,
                  AcceptAdd, AcceptPromote, AcceptClear
<1>1. CASE InviteCheck(r) \/ AcceptAsMember(r) \/ AcceptCheck(r)
  BY <1>1, <1>a DEF InviteCheck, AcceptAsMember, AcceptCheck, rows, past, TypeInv, TypeOK, Named
<1>2. CASE InviteWrite(r)
  <2> DEFINE e == req[r].email
             c == req[r].cabinet
             new == [id |-> IF invitation[e][c].id = 0 THEN minted + 1 ELSE invitation[e][c].id,
                     token |-> minted + 1, role |-> req[r].role, live |-> TRUE]
  <2>1. e \in Emails /\ c \in Cabinets /\ req[r].role \in CabinetRoles
    BY <1>0, <1>2 DEF InviteWrite, AtStep, Named, Request
  <2>2. invitation[e][c] \in Invitation /\ AddressOf[e] \in Users
    BY <1>0, <2>1 DEF MembershipAssumption
  <2>3. new \in Invitation /\ invitation[e][c].token \in Nat
    BY <1>0, <2>1, <2>2 DEF Invitation
  <2>4. /\ invitation' = [invitation EXCEPT ![e][c] = new]
        /\ offered' = offered \cup {<<AddressOf[e], c, req[r].role>>}
        /\ withdrawn' = withdrawn \cup {invitation[e][c].token}
        /\ minted' = minted + 1
        /\ UNCHANGED <<member, cabinet, role, issued, admitted>>
    BY <1>2 DEF InviteWrite
  <2>5. invitation' \in [Emails -> [Cabinets -> Invitation]]
    <3> HIDE DEF new
    <3> QED
      BY <1>0, <2>3, <2>4
  <2>6. offered' \subseteq Users \X Cabinets \X CabinetRoles /\ withdrawn' \subseteq Nat
    <3>1. <<AddressOf[e], c, req[r].role>> \in Users \X Cabinets \X CabinetRoles
      BY <2>1, <2>2
    <3>2. offered \subseteq Users \X Cabinets \X CabinetRoles /\ withdrawn \subseteq Nat
      BY DEF TypeInv, TypeOK
    <3> HIDE DEF e, c
    <3> QED
      BY <3>1, <3>2, <2>3, <2>4
  <2>7. /\ minted' \in Nat /\ issued' \in Nat
        /\ UNCHANGED <<member, cabinet, role, admitted>>
    BY <1>0, <2>4
  <2> HIDE DEF e, c, new
  <2> QED
    BY <1>a, <2>5, <2>6, <2>7 DEF TypeInv, TypeOK
<1>3. CASE CancelWrite(r)
  <2>1. req[r].email \in Emails /\ req[r].cabinet \in Cabinets
    BY <1>0, <1>3 DEF CancelWrite, AtStep, Named
  <2>2. invitation[req[r].email][req[r].cabinet].token \in Nat /\ NoInvitation \in Invitation
    BY <1>0, <2>1 DEF Invitation, NoInvitation, CabinetRoles
  <2>3. /\ invitation' \in [Emails -> [Cabinets -> Invitation]]
        /\ withdrawn' \subseteq Nat
    BY <1>0, <1>3, <2>2 DEF CancelWrite, TypeInv, TypeOK
  <2> QED
    BY <1>3, <1>a, <2>3 DEF CancelWrite, TypeInv, TypeOK, Named
<1>4. CASE AcceptAdd(r)
  <2>1. req[r].invite.role \in CabinetRoles /\ req[r].invite.token \in Nat
    BY <1>0 DEF Request, Invitation
  <2>2. member' \in [Users -> [Cabinets -> CabinetRoles \cup {NONE}]]
    BY <1>4, <2>1, MemberType DEF AcceptAdd
  <2> QED
    BY <1>4, <1>a, <2>1, <2>2 DEF AcceptAdd, TypeInv, TypeOK, Named
<1>5. CASE AcceptPromote(r)
  <2>1. role' \in [Users -> UserRoles]
    BY <1>0, <1>5 DEF AcceptPromote, UserRoles
  <2> QED
    BY <1>5, <1>a, <2>1 DEF AcceptPromote, past, TypeInv, TypeOK, Named
<1>6. CASE AcceptClear(r)
  <2>1. invitation' \in [Emails -> [Cabinets -> Invitation]]
    <3>1. NoInvitation \in Invitation
      BY DEF Invitation, NoInvitation, CabinetRoles
    <3> QED
      BY <1>0, <1>6, <3>1 DEF AcceptClear
  <2> QED
    BY <1>6, <1>a, <2>1 DEF AcceptClear, past, TypeInv, TypeOK, Named
<1> QED
  BY <1>1, <1>2, <1>3, <1>4, <1>5, <1>6 DEF Joining

LEMMA ChangingType ==
  ASSUME TypeInv, NEW r \in Requests, Changing(r)
  PROVE  TypeInv'
<1>0. req[r] \in Request
  BY DEF TypeInv, TypeOK
<1>a. req' \in [Requests -> Request] /\ \A s \in Requests : Named(req'[s])
  BY SlotType DEF Changing, CreateInsert, CreateOwner, RemoveWrite, LeaveWrite, RoleWrite,
                  TransferPromote, TransferDemote
<1>b. {"OWNER", "STAFF"} = CabinetRoles /\ req[r].role \in CabinetRoles
  BY <1>0 DEF CabinetRoles, Request
<1>1. CASE CreateInsert(r)
  BY <1>1, <1>a DEF CreateInsert, past, TypeInv, TypeOK, Named
<1>2. ASSUME CreateOwner(r) \/ RemoveWrite(r) \/ LeaveWrite(r) \/ RoleWrite(r) \/ TransferPromote(r)
      PROVE  TypeInv'
  <2>1. PICK v \in CabinetRoles \cup {NONE} : SetMember(req[r].target, req[r].cabinet, v)
    BY <1>2, <1>b DEF CreateOwner, RemoveWrite, LeaveWrite, RoleWrite, TransferPromote
  <2>2. member' \in [Users -> [Cabinets -> CabinetRoles \cup {NONE}]]
    BY <2>1, MemberType
  <2>3. UNCHANGED <<cabinet, role, invitation, minted, issued, past>>
    BY <1>2 DEF CreateOwner, RemoveWrite, LeaveWrite, RoleWrite, TransferPromote
  <2> QED
    BY <1>a, <2>2, <2>3 DEF past, TypeInv, TypeOK, Named
<1>3. CASE TransferDemote(r)
  <2>1. member' \in [Users -> [Cabinets -> CabinetRoles \cup {NONE}]]
    BY <1>3, <1>b DEF TransferDemote, TypeInv, TypeOK
  <2> QED
    BY <1>3, <1>a, <2>1 DEF TransferDemote, past, TypeInv, TypeOK, Named
<1> QED
  BY <1>1, <1>2, <1>3 DEF Changing

LEMMA NextType == TypeInv /\ [Next]_vars => TypeInv'
<1> SUFFICES ASSUME TypeInv, [Next]_vars PROVE TypeInv'
  OBVIOUS
<1>1. ASSUME NEW r \in Requests, Arrival(r) \/ Joining(r) \/ Changing(r)
      PROVE  TypeInv'
  BY <1>1, ArrivalType, JoiningType, ChangingType
<1>2. ASSUME NEW r \in Requests, Refuse(r) \/ Abort(r)
      PROVE  TypeInv'
  <2>1. /\ Finish(r) /\ UNCHANGED <<rows, minted, issued, offered, withdrawn>>
        /\ admitted' \subseteq admitted
    BY <1>2 DEF Refuse, Abort, past
  <2>2. req' \in [Requests -> Request] /\ \A s \in Requests : Named(req'[s])
    BY <2>1, SlotType
  <2> QED
    BY <2>1, <2>2 DEF rows, past, TypeInv, TypeOK, Named
<1>3. ASSUME NEW e \in Emails, NEW c \in Cabinets, Expire(e, c)
      PROVE  TypeInv'
  <2>1. invitation[e][c] \in Invitation
    BY DEF TypeInv, TypeOK
  <2>2. [invitation[e][c] EXCEPT !.live = FALSE] \in Invitation
    BY <2>1 DEF Invitation
  <2>3. invitation' \in [Emails -> [Cabinets -> Invitation]]
    BY <1>3, <2>2 DEF Expire, TypeInv, TypeOK
  <2> QED
    BY <1>3, <2>3 DEF Expire, past, TypeInv, TypeOK, Named
<1>4. ASSUME NEW u \in Users, NEW c \in Cabinets, DeleteCabinet(u, c)
      PROVE  TypeInv'
  BY <1>4 DEF DeleteCabinet, Served, past, TypeInv, TypeOK, Named
<1>5. ASSUME NEW c \in Cabinets, EnableCabinet(c)
      PROVE  TypeInv'
  BY <1>5 DEF EnableCabinet, Served, past, TypeInv, TypeOK, Named
<1>6. ASSUME NEW u \in Users, NEW new \in UserRoles, SetUserRole(u, new)
      PROVE  TypeInv'
  BY <1>6 DEF SetUserRole, Served, past, TypeInv, TypeOK, Named
<1>7. CASE UNCHANGED vars
  BY <1>7 DEF vars, TypeInv, TypeOK, Named
<1> QED
  BY <1>1, <1>2, <1>3, <1>4, <1>5, <1>6, <1>7 DEF Next

(* Every reachable state of memberships, invitations and requests has the  *)
(* declared type: a membership never holds anything but a cabinet role.    *)
THEOREM TypeCorrect == Spec => []TypeOK
<1>1. Spec => []TypeInv
  BY InitType, NextType, PTL DEF Spec
<1>2. TypeInv => TypeOK
  BY DEF TypeInv
<1> QED
  BY <1>1, <1>2, PTL

-----------------------------------------------------------------------------
(* Joining *)

(* What an acceptance will write was offered to the one who accepts, since *)
(* the moment the invitation was loaded; later cancellations and           *)
(* replacements do not take the offer back.                                *)
Offered(q) == q.op = "accept" => <<q.target, q.cabinet, q.invite.role>> \in offered

OfferInv ==
  /\ TypeInv
  /\ \A e \in Emails, c \in Cabinets :
       invitation[e][c].live => <<AddressOf[e], c, invitation[e][c].role>> \in offered
  /\ \A r \in Requests : Offered(req[r])

(* A step either takes a request, or moves one slot along with its fields  *)
(* unchanged, or empties it, or leaves the slots alone.                    *)
LEMMA SlotSteps ==
  ASSUME Next
  PROVE  \/ \E r \in Requests : Arrival(r)
         \/ \E r \in Requests : Finish(r)
         \/ \E r \in Requests : \E step : GoTo(r, step)
         \/ UNCHANGED req
<1>2. ASSUME NEW r \in Requests, Joining(r)
      PROVE  Finish(r) \/ \E step : GoTo(r, step)
  BY <1>2 DEF Joining, InviteCheck, InviteWrite, CancelWrite, AcceptAsMember, AcceptCheck,
              AcceptAdd, AcceptPromote, AcceptClear
<1>3. ASSUME NEW r \in Requests, Changing(r)
      PROVE  Finish(r) \/ \E step : GoTo(r, step)
  BY <1>3 DEF Changing, CreateInsert, CreateOwner, RemoveWrite, LeaveWrite, RoleWrite,
              TransferPromote, TransferDemote
<1>4. ASSUME NEW r \in Requests, Refuse(r) \/ Abort(r)
      PROVE  Finish(r)
  BY <1>4 DEF Refuse, Abort
<1> QED
  BY <1>2, <1>3, <1>4 DEF Next, Expire, DeleteCabinet, EnableCabinet, SetUserRole

(* The writers of invitations. *)
LEMMA InvitationSteps ==
  ASSUME [Next]_vars
  PROVE  \/ \E r \in Requests : InviteWrite(r) \/ CancelWrite(r) \/ AcceptClear(r)
         \/ \E e \in Emails, c \in Cabinets : Expire(e, c)
         \/ UNCHANGED <<invitation, offered>>
<1>1. ASSUME NEW r \in Requests, Arrival(r)
      PROVE  UNCHANGED <<invitation, offered>>
  BY <1>1 DEF Arrival, CreateRead, LeaveRead, TransferRead, AcceptRead, CancelRead, InviteRead,
              RemoveRead, RoleRead, Accept, rows, past
<1>2. ASSUME NEW r \in Requests,
             InviteCheck(r) \/ AcceptAsMember(r) \/ AcceptCheck(r) \/ AcceptAdd(r)
               \/ AcceptPromote(r)
      PROVE  UNCHANGED <<invitation, offered>>
  BY <1>2 DEF InviteCheck, AcceptAsMember, AcceptCheck, AcceptAdd, AcceptPromote, rows, past
<1>3. ASSUME NEW r \in Requests, Changing(r) \/ Refuse(r) \/ Abort(r)
      PROVE  UNCHANGED <<invitation, offered>>
  BY <1>3 DEF Changing, CreateInsert, CreateOwner, RemoveWrite, LeaveWrite, RoleWrite,
              TransferPromote, TransferDemote, Refuse, Abort, rows, past
<1>4. CASE UNCHANGED vars
  BY <1>4 DEF vars
<1> QED
  BY <1>1, <1>2, <1>3, <1>4
     DEF Next, Joining, DeleteCabinet, EnableCabinet, SetUserRole, past

LEMMA OffersGrow ==
  ASSUME [Next]_vars
  PROVE  offered \subseteq offered'
BY InvitationSteps DEF InviteWrite, CancelWrite, AcceptClear, Expire, past

LEMMA InvitationsOffered ==
  ASSUME OfferInv, [Next]_vars, NEW e \in Emails, NEW c \in Cabinets, invitation'[e][c].live
  PROVE  <<AddressOf[e], c, invitation'[e][c].role>> \in offered'
<1>0. /\ offered \subseteq offered'
      /\ invitation \in [Emails -> [Cabinets -> Invitation]]
      /\ invitation[e][c].live => <<AddressOf[e], c, invitation[e][c].role>> \in offered
  BY OffersGrow DEF OfferInv, TypeInv, TypeOK
<1>1. ASSUME NEW r \in Requests, InviteWrite(r)
      PROVE  <<AddressOf[e], c, invitation'[e][c].role>> \in offered'
  <2>1. CASE e = req[r].email /\ c = req[r].cabinet
    <3>1. /\ invitation'[e][c].role = req[r].role
          /\ offered' = offered \cup {<<AddressOf[e], c, req[r].role>>}
      BY <1>0, <1>1, <2>1 DEF InviteWrite
    <3> QED
      BY <3>1
  <2>2. CASE ~(e = req[r].email /\ c = req[r].cabinet)
    <3>1. invitation'[e][c] = invitation[e][c]
      BY <1>0, <1>1, <2>2 DEF InviteWrite
    <3> QED
      BY <1>0, <3>1
  <2> QED
    BY <2>1, <2>2
<1>2. ASSUME NEW r \in Requests, CancelWrite(r) \/ AcceptClear(r)
      PROVE  invitation'[e][c] = invitation[e][c]
  <2>1. ~NoInvitation.live
    BY DEF NoInvitation
  <2>2. invitation'[e][c] \in {invitation[e][c], NoInvitation}
    BY <1>0, <1>2 DEF CancelWrite, AcceptClear
  <2> QED
    BY <2>1, <2>2
<1>3. ASSUME NEW f \in Emails, NEW d \in Cabinets, Expire(f, d)
      PROVE  invitation'[e][c] = invitation[e][c]
  <2>1. CASE e = f /\ c = d
    <3>1. invitation'[e][c] = [invitation[e][c] EXCEPT !.live = FALSE]
      BY <1>0, <1>3, <2>1 DEF Expire
    <3>2. ~[invitation[e][c] EXCEPT !.live = FALSE].live
      BY <1>0 DEF Invitation
    <3> QED
      BY <3>1, <3>2
  <2>2. CASE ~(e = f /\ c = d)
    BY <1>0, <1>3, <2>2 DEF Expire
  <2> QED
    BY <2>1, <2>2
<1> QED
  BY <1>0, <1>1, <1>2, <1>3, InvitationSteps

(* A request that arrives with an acceptance has loaded a live invitation  *)
(* of the sender.                                                          *)
LEMMA ArrivalOffered ==
  ASSUME OfferInv, NEW r \in Requests, Arrival(r)
  PROVE  \A s \in Requests : req'[s].op = "accept" =>
           <<req'[s].target, req'[s].cabinet, req'[s].invite.role>> \in offered
<1>0. /\ req \in [Requests -> Request]
      /\ \A s \in Requests : Offered(req[s])
      /\ \A e \in Emails, c \in Cabinets :
           invitation[e][c].live => <<AddressOf[e], c, invitation[e][c].role>> \in offered
  BY DEF OfferInv, TypeInv, TypeOK
<1>1. ASSUME NEW u \in Users, NEW e \in Emails, NEW c \in Cabinets, AcceptRead(r, u, e, c)
      PROVE  \A s \in Requests : req'[s].op = "accept" =>
               <<req'[s].target, req'[s].cabinet, req'[s].invite.role>> \in offered
  <2>1. /\ req'[r].target = u /\ req'[r].cabinet = c
        /\ req'[r].invite = invitation[e][c]
        /\ \A s \in Requests \ {r} : req'[s] = req[s]
    BY <1>0, <1>1 DEF AcceptRead, Accept, NoRequest
  <2>2. <<u, c, invitation[e][c].role>> \in offered
    BY <1>0, <1>1 DEF AcceptRead
  <2> QED
    BY <1>0, <2>1, <2>2 DEF Offered
<1>2. ASSUME NEW u \in Users, NEW t \in Users, NEW e, NEW c \in Cabinets, NEW new,
             \/ CreateRead(r, u, c) \/ LeaveRead(r, u, c) \/ TransferRead(r, u, c)
             \/ CancelRead(r, u, e, c) \/ InviteRead(r, u, e, c, new)
             \/ RemoveRead(r, u, t, c) \/ RoleRead(r, u, t, c, new)
      PROVE  \A s \in Requests : req'[s].op = "accept" =>
               <<req'[s].target, req'[s].cabinet, req'[s].invite.role>> \in offered
  <2>1. /\ req'[r].op # "accept"
        /\ \A s \in Requests \ {r} : req'[s] = req[s]
    BY <1>0, <1>2 DEF CreateRead, LeaveRead, TransferRead, CancelRead, InviteRead, RemoveRead,
                      RoleRead, Accept, NoRequest
  <2> QED
    BY <1>0, <2>1 DEF Offered
<1> QED
  BY <1>1, <1>2 DEF Arrival

LEMMA OfferStep == OfferInv /\ [Next]_vars => OfferInv'
<1> SUFFICES ASSUME OfferInv, [Next]_vars PROVE OfferInv'
  OBVIOUS
<1>1. TypeInv'
  BY NextType DEF OfferInv
<1>2. \A e \in Emails, c \in Cabinets : invitation'[e][c].live =>
         <<AddressOf[e], c, invitation'[e][c].role>> \in offered'
  BY InvitationsOffered
<1>3. ASSUME NEW s \in Requests, req'[s].op = "accept"
      PROVE  <<req'[s].target, req'[s].cabinet, req'[s].invite.role>> \in offered'
  <2>0. /\ offered \subseteq offered' /\ req \in [Requests -> Request]
        /\ Offered(req[s])
    BY OffersGrow DEF OfferInv, TypeInv, TypeOK
  <2>1. ASSUME NEW r \in Requests, Arrival(r)
        PROVE  <<req'[s].target, req'[s].cabinet, req'[s].invite.role>> \in offered'
    BY <1>3, <2>0, <2>1, ArrivalOffered
  <2>2. ASSUME NEW r \in Requests, Finish(r)
        PROVE  req'[s] = req[s]
    BY <1>3, <2>0, <2>2 DEF Finish, NoRequest
  <2>3. ASSUME NEW r \in Requests, NEW step, GoTo(r, step)
        PROVE  /\ req'[s].op = req[s].op /\ req'[s].target = req[s].target
               /\ req'[s].cabinet = req[s].cabinet /\ req'[s].invite = req[s].invite
    BY <2>0, <2>3 DEF GoTo, Request
  <2>4. CASE UNCHANGED vars
    BY <1>3, <2>0, <2>4 DEF vars, Offered
  <2> QED
    BY <1>3, <2>0, <2>1, <2>2, <2>3, <2>4, SlotSteps DEF Offered
<1> QED
  BY <1>1, <1>2, <1>3 DEF OfferInv, Offered

LEMMA OfferInit == Init => OfferInv
BY InitType DEF Init, OfferInv, Offered, NoInvitation, NoRequest

(* The writers of memberships. *)
LEMMA MemberSteps ==
  ASSUME [Next]_vars
  PROVE  \/ \E r \in Requests :
              \/ AcceptAdd(r) \/ CreateOwner(r) \/ RemoveWrite(r) \/ LeaveWrite(r)
              \/ RoleWrite(r) \/ TransferPromote(r) \/ TransferDemote(r)
         \/ UNCHANGED member
<1>1. ASSUME NEW r \in Requests, Arrival(r)
      PROVE  UNCHANGED member
  BY <1>1 DEF Arrival, CreateRead, LeaveRead, TransferRead, AcceptRead, CancelRead, InviteRead,
              RemoveRead, RoleRead, Accept, rows
<1>2. ASSUME NEW r \in Requests,
             \/ InviteCheck(r) \/ InviteWrite(r) \/ CancelWrite(r)
             \/ AcceptAsMember(r) \/ AcceptCheck(r) \/ AcceptPromote(r) \/ AcceptClear(r)
             \/ CreateInsert(r) \/ Refuse(r) \/ Abort(r)
      PROVE  UNCHANGED member
  BY <1>2 DEF InviteCheck, InviteWrite, CancelWrite, AcceptAsMember, AcceptCheck,
              AcceptPromote, AcceptClear, CreateInsert, Refuse, Abort, rows
<1>3. CASE UNCHANGED vars
  BY <1>3 DEF vars
<1> QED
  BY <1>1, <1>2, <1>3
     DEF Next, Joining, Changing, Expire, DeleteCabinet, EnableCabinet, SetUserRole

LEMMA JoinStep ==
  ASSUME OfferInv, [Next]_vars, NEW u \in Users, NEW c \in Cabinets, Joins(u, c)
  PROVE  \/ <<u, c, member'[u][c]>> \in offered
         \/ /\ member'[u][c] = "OWNER"
            /\ \E r \in Requests : /\ req[r].op \in {"create", "transfer"}
                                   /\ req[r].target = u /\ req[r].cabinet = c
<1>0. /\ member \in [Users -> [Cabinets -> CabinetRoles \cup {NONE}]]
      /\ member[u][c] = NONE /\ member'[u][c] # NONE
      /\ \A r \in Requests : Offered(req[r])
  BY DEF OfferInv, TypeInv, TypeOK, Joins
<1>1. ASSUME NEW r \in Requests, AcceptAdd(r)
      PROVE  <<u, c, member'[u][c]>> \in offered
  <2>1. req[r].target = u /\ req[r].cabinet = c /\ member'[u][c] = req[r].invite.role
    BY <1>0, <1>1 DEF AcceptAdd, SetMember
  <2> QED
    BY <1>0, <1>1, <2>1 DEF AcceptAdd, AtStep, Offered
<1>2. ASSUME NEW r \in Requests, CreateOwner(r) \/ TransferPromote(r)
      PROVE  /\ member'[u][c] = "OWNER"
             /\ req[r].op \in {"create", "transfer"}
             /\ req[r].target = u /\ req[r].cabinet = c
  BY <1>0, <1>2 DEF CreateOwner, TransferPromote, SetMember, AtStep
<1>3. ASSUME NEW r \in Requests,
             RemoveWrite(r) \/ LeaveWrite(r) \/ RoleWrite(r) \/ TransferDemote(r)
      PROVE  member'[u][c] = NONE
  BY <1>0, <1>3 DEF RemoveWrite, LeaveWrite, RoleWrite, TransferDemote, SetMember
<1> QED
  BY <1>0, <1>1, <1>2, <1>3, MemberSteps

(* However requests overlap, die or repeat, nobody joins a cabinet with a  *)
(* role that was not offered to that person, other than the owner named by *)
(* a creation or by an administrator.                                      *)
THEOREM JoinsOffered == Spec => JoinsAreOffered
<1>1. Spec => []OfferInv
  BY OfferInit, OfferStep, PTL DEF Spec
<1>2. OfferInv /\ [Next]_vars =>
        [\A u \in Users, c \in Cabinets : Joins(u, c) =>
           \/ <<u, c, member'[u][c]>> \in offered
           \/ /\ member'[u][c] = "OWNER"
              /\ \E r \in Requests : /\ req[r].op \in {"create", "transfer"}
                                     /\ req[r].target = u /\ req[r].cabinet = c]_vars
  BY JoinStep
<1> QED
  BY <1>1, <1>2, PTL DEF Spec, JoinsAreOffered

-----------------------------------------------------------------------------
(* Owners, when requests are served one after the other *)

OneSlot == \A r, s \in Requests : r = s

(* What a request has established about the memberships still holds when   *)
(* it writes.                                                              *)
Standing(q, table) ==
  /\ q.op \in {"remove", "role"} /\ q.step = "checked" =>
       q.user \in Users /\ table[q.user][q.cabinet] = "OWNER" /\ q.user # q.target
  /\ q.op = "leave" /\ q.step = "checked" => table[q.target][q.cabinet] = "STAFF"
  /\ q.op = "transfer" /\ q.step = "promoted" =>
       table[q.target][q.cabinet] = "OWNER" /\ q.target # q.owner

OwnerInv == TypeInv /\ \A r \in Requests : Standing(req[r], member)

(* A request that arrives has established what it stands on. *)
LEMMA ArrivalStanding ==
  ASSUME OwnerInv, OneSlot, NEW r \in Requests, Arrival(r)
  PROVE  \A s \in Requests : Standing(req'[s], member')
<1>0. req \in [Requests -> Request] /\ \A s \in Requests : s = r
  BY DEF OwnerInv, TypeInv, TypeOK, OneSlot
<1>1. member' = member
  BY DEF Arrival, CreateRead, LeaveRead, TransferRead, AcceptRead, CancelRead, InviteRead,
         RemoveRead, RoleRead, Accept, rows
<1>2. ASSUME NEW q, Accept(r, q)
      PROVE  req'[r] = q
  BY <1>0, <1>2 DEF Accept
<1>3. ASSUME NEW u \in Users, NEW t \in Users, NEW c \in Cabinets, RemoveRead(r, u, t, c)
      PROVE  Standing(req'[r], member)
  <2>1. req'[r] = [NoRequest EXCEPT !.op = "remove", !.step = "checked", !.user = u,
                                    !.target = t, !.cabinet = c]
    BY <1>2, <1>3 DEF RemoveRead
  <2>2. /\ req'[r].op = "remove" /\ req'[r].user = u
        /\ req'[r].target = t /\ req'[r].cabinet = c
    BY <2>1 DEF NoRequest
  <2> QED
    BY <1>3, <2>2 DEF Standing, RemoveRead
<1>4. ASSUME NEW u \in Users, NEW t \in Users, NEW c \in Cabinets, NEW new,
             RoleRead(r, u, t, c, new)
      PROVE  Standing(req'[r], member)
  <2>1. req'[r] = [NoRequest EXCEPT !.op = "role", !.step = "checked", !.user = u,
                                    !.target = t, !.cabinet = c, !.role = new]
    BY <1>2, <1>4 DEF RoleRead
  <2>2. /\ req'[r].op = "role" /\ req'[r].user = u
        /\ req'[r].target = t /\ req'[r].cabinet = c
    BY <2>1 DEF NoRequest
  <2> QED
    BY <1>4, <2>2 DEF Standing, RoleRead
<1>5. ASSUME NEW u \in Users, NEW c \in Cabinets, LeaveRead(r, u, c)
      PROVE  Standing(req'[r], member)
  <2>1. req'[r] = [NoRequest EXCEPT !.op = "leave", !.step = "checked", !.user = u,
                                    !.target = u, !.cabinet = c]
    BY <1>2, <1>5 DEF LeaveRead
  <2>2. req'[r].op = "leave" /\ req'[r].target = u /\ req'[r].cabinet = c
    BY <2>1 DEF NoRequest
  <2> QED
    BY <1>5, <2>2 DEF Standing, LeaveRead
<1>6. ASSUME NEW u \in Users, NEW c \in Cabinets, TransferRead(r, u, c)
      PROVE  Standing(req'[r], member)
  <2>1. PICK o :
          Accept(r, [NoRequest EXCEPT !.op = "transfer", !.step = "checked",
                                      !.target = u, !.cabinet = c, !.owner = o,
                                      !.seen = member[u][c] # NONE])
    BY <1>6 DEF TransferRead
  <2>2. req'[r].op = "transfer" /\ req'[r].step = "checked"
    BY <1>2, <2>1 DEF NoRequest
  <2> QED
    BY <2>2 DEF Standing
<1>7. ASSUME NEW u \in Users, NEW c \in Cabinets, CreateRead(r, u, c)
      PROVE  Standing(req'[r], member)
  <2>1. req'[r].op = "create"
    BY <1>2, <1>7 DEF CreateRead, NoRequest
  <2> QED
    BY <2>1 DEF Standing
<1>8. ASSUME NEW u \in Users, NEW e \in Emails, NEW c \in Cabinets, NEW new,
             InviteRead(r, u, e, c, new)
      PROVE  Standing(req'[r], member)
  <2>1. req'[r].op = "invite"
    BY <1>2, <1>8 DEF InviteRead, NoRequest
  <2> QED
    BY <2>1 DEF Standing
<1>9. ASSUME NEW u \in Users, NEW e \in Emails, NEW c \in Cabinets,
             AcceptRead(r, u, e, c) \/ CancelRead(r, u, e, c)
      PROVE  Standing(req'[r], member)
  <2>1. CASE AcceptRead(r, u, e, c)
    <3> DEFINE q == [NoRequest EXCEPT !.op = "accept", !.step = "read", !.user = u,
                                      !.target = u, !.email = e, !.cabinet = c,
                                      !.invite = invitation[e][c],
                                      !.seen = role[u] = "CITIZEN"]
    <3>1. Accept(r, q) /\ q.op = "accept"
      BY <2>1 DEF AcceptRead, NoRequest
    <3>2. req'[r].op = "accept"
      <4> HIDE DEF q
      <4> QED
        BY <1>2, <3>1
    <3> QED
      BY <3>2 DEF Standing
  <2>2. CASE CancelRead(r, u, e, c)
    <3>1. req'[r].op = "cancel"
      BY <1>2, <2>2 DEF CancelRead, NoRequest
    <3> QED
      BY <3>1 DEF Standing
  <2> QED
    BY <1>9, <2>1, <2>2
<1> QED
  BY <1>0, <1>1, <1>3, <1>4, <1>5, <1>6, <1>7, <1>8, <1>9 DEF Arrival

(* An empty slot stands on nothing, nor does an acceptance, an invitation  *)
(* or a creation; a transfer has just appointed the new owner.             *)
LEMMA ContinuationStanding ==
  ASSUME OwnerInv, OneSlot, NEW r \in Requests,
         Joining(r) \/ Changing(r) \/ Refuse(r) \/ Abort(r)
  PROVE  \A s \in Requests : Standing(req'[s], member')
<1>0. /\ req \in [Requests -> Request] /\ \A s \in Requests : s = r
      /\ member \in [Users -> [Cabinets -> CabinetRoles \cup {NONE}]]
      /\ req[r] \in Request /\ Named(req[r])
  BY DEF OwnerInv, TypeInv, TypeOK, OneSlot
<1>1. CASE Finish(r)
  <2>1. req'[r] = NoRequest
    BY <1>0, <1>1 DEF Finish
  <2> QED
    BY <1>0, <2>1 DEF Standing, NoRequest
<1>2. ASSUME NEW step, GoTo(r, step), req[r].op \in {"create", "invite", "accept"}
      PROVE  Standing(req'[r], member')
  <2>1. req'[r].op \in {"create", "invite", "accept"}
    BY <1>0, <1>2 DEF GoTo, Request
  <2> QED
    BY <2>1 DEF Standing
<1>3. ASSUME TransferPromote(r), ~Finish(r)
      PROVE  Standing(req'[r], member')
  <2>1. /\ GoTo(r, "promoted")
        /\ req[r].owner # req[r].target /\ req[r].op = "transfer"
        /\ SetMember(req[r].target, req[r].cabinet, "OWNER")
    BY <1>3 DEF TransferPromote, AtStep
  <2>2. req[r].target \in Users /\ req[r].cabinet \in Cabinets
    BY <1>0, <2>1 DEF Named
  <2>3. /\ req'[r].op = "transfer" /\ req'[r].target = req[r].target
        /\ req'[r].cabinet = req[r].cabinet /\ req'[r].owner = req[r].owner
    BY <1>0, <2>1 DEF Request, GoTo
  <2>4. member'[req[r].target][req[r].cabinet] = "OWNER"
    BY <1>0, <2>1, <2>2 DEF SetMember
  <2> QED
    BY <2>1, <2>3, <2>4 DEF Standing
<1> QED
  BY <1>0, <1>1, <1>2, <1>3
     DEF Joining, Changing, Refuse, Abort, InviteCheck, InviteWrite, CancelWrite,
         AcceptAsMember, AcceptCheck, AcceptAdd, AcceptPromote, AcceptClear, CreateInsert,
         CreateOwner, RemoveWrite, LeaveWrite, RoleWrite, TransferPromote, TransferDemote, AtStep

LEMMA OwnerStep == OneSlot /\ OwnerInv /\ [Next]_vars => OwnerInv'
<1> SUFFICES ASSUME OneSlot, OwnerInv, [Next]_vars PROVE OwnerInv'
  OBVIOUS
<1>1. TypeInv'
  BY NextType DEF OwnerInv
<1>2. ASSUME NEW r \in Requests,
             Arrival(r) \/ Joining(r) \/ Changing(r) \/ Refuse(r) \/ Abort(r)
      PROVE  \A s \in Requests : Standing(req'[s], member')
  BY <1>2, ArrivalStanding, ContinuationStanding
<1>3. CASE UNCHANGED <<member, req>>
  BY <1>1, <1>3 DEF OwnerInv
<1>4. \/ \E r \in Requests : Arrival(r) \/ Joining(r) \/ Changing(r) \/ Refuse(r) \/ Abort(r)
      \/ UNCHANGED <<member, req>>
  BY DEF Next, Expire, DeleteCabinet, EnableCabinet, SetUserRole, vars
<1> QED
  BY <1>1, <1>2, <1>3, <1>4 DEF OwnerInv

LEMMA OwnerInit == Init => OwnerInv
BY InitType DEF Init, OwnerInv, Standing, NoRequest

LEMMA OwnerKeptByStep ==
  ASSUME OwnerInv, [Next]_vars, NEW c \in Cabinets, OwnersOf(c) # {}
  PROVE  OwnersOf(c)' # {}
<1>0. /\ member \in [Users -> [Cabinets -> CabinetRoles \cup {NONE}]]
      /\ "OWNER" # NONE /\ "STAFF" # NONE
      /\ \A r \in Requests : Standing(req[r], member) /\ Named(req[r])
  BY MembershipAssumption DEF OwnerInv, TypeInv, TypeOK, MembershipAssumption
<1>1. PICK o \in Users : member[o][c] = "OWNER"
  BY DEF OwnersOf
<1>2. SUFFICES \E u \in Users : member'[u][c] = "OWNER"
  BY DEF OwnersOf
<1>3. ASSUME NEW r \in Requests, AcceptAdd(r) \/ CreateOwner(r) \/ TransferPromote(r)
      PROVE  member'[o][c] = "OWNER"
  BY <1>0, <1>1, <1>3 DEF AcceptAdd, CreateOwner, TransferPromote, SetMember
<1>4. ASSUME NEW r \in Requests, RemoveWrite(r) \/ RoleWrite(r)
      PROVE  \E u \in Users : member'[u][c] = "OWNER"
  <2>1. /\ req[r].user \in Users /\ req[r].user # req[r].target
        /\ member[req[r].user][req[r].cabinet] = "OWNER"
    BY <1>0, <1>4 DEF RemoveWrite, RoleWrite, AtStep, Standing
  <2>2. PICK v : member' = [member EXCEPT ![req[r].target][req[r].cabinet] = v]
    BY <1>4 DEF RemoveWrite, RoleWrite, SetMember
  <2>3. CASE req[r].cabinet = c
    BY <1>0, <2>1, <2>2, <2>3
  <2>4. CASE req[r].cabinet # c
    BY <1>0, <1>1, <2>2, <2>4
  <2> QED
    BY <2>3, <2>4
<1>5. ASSUME NEW r \in Requests, LeaveWrite(r)
      PROVE  member'[o][c] = "OWNER"
  <2>1. member[req[r].target][req[r].cabinet] = "STAFF"
    BY <1>0, <1>5 DEF LeaveWrite, AtStep, Standing
  <2> QED
    BY <1>0, <1>1, <1>5, <2>1 DEF LeaveWrite, SetMember
<1>6. ASSUME NEW r \in Requests, TransferDemote(r)
      PROVE  \E u \in Users : member'[u][c] = "OWNER"
  <2>1. /\ req[r].target \in Users /\ req[r].target # req[r].owner
        /\ member[req[r].target][req[r].cabinet] = "OWNER"
    BY <1>0, <1>6 DEF TransferDemote, AtStep, Standing, Named
  <2>2. CASE req[r].cabinet = c
    BY <1>0, <1>6, <2>1, <2>2 DEF TransferDemote
  <2>3. CASE req[r].cabinet # c
    BY <1>0, <1>1, <1>6, <2>3 DEF TransferDemote
  <2> QED
    BY <2>2, <2>3
<1> QED
  BY <1>1, <1>3, <1>4, <1>5, <1>6, MemberSteps

(* With one request at a time, and however requests die halfway, a cabinet *)
(* that has an owner keeps one.                                            *)
THEOREM OwnerKept ==
  ASSUME OneSlot
  PROVE  Spec => OwnerStays
<1>1. OwnerInv /\ [Next]_vars => OwnerInv'
  BY OwnerStep
<1>2. Spec => []OwnerInv
  BY OwnerInit, <1>1, PTL DEF Spec
<1>3. OwnerInv /\ [Next]_vars =>
        [\A c \in Cabinets : OwnersOf(c) # {} => OwnersOf(c)' # {}]_vars
  BY OwnerKeptByStep
<1> QED
  BY <1>2, <1>3, PTL DEF Spec, OwnerStays

-----------------------------------------------------------------------------
(* Acceptances, when requests are served one after the other *)

(* An acceptance between its insert and the deletion of the invitation. *)
Clearing(q, e, c) ==
  /\ q.op = "accept" /\ q.step \in {"joined", "clearing"}
  /\ q.email = e /\ q.cabinet = c

(* An invitation that still lets somebody in carries a token of its own,   *)
(* neither withdrawn nor used, except by the acceptance about to clear it. *)
FreshTokens ==
  \A e \in Emails, c \in Cabinets :
    /\ invitation[e][c].token <= minted
    /\ invitation[e][c].live =>
         invitation[e][c].token # 0 /\ invitation[e][c].token \notin withdrawn
    /\ invitation[e][c].live /\ invitation[e][c].token \in admitted =>
         \E r \in Requests : Clearing(req[r], e, c)

DistinctTokens ==
  \A e, f \in Emails, c, d \in Cabinets :
    invitation[e][c].token = invitation[f][d].token /\ invitation[e][c].token # 0
      => e = f /\ c = d

PastTokens == \A n \in withdrawn \cup admitted : n <= minted

(* What an acceptance loaded and checked still holds. *)
Holds(q) ==
  q.op = "accept" =>
    /\ invitation[q.email][q.cabinet].id = q.invite.id
    /\ invitation[q.email][q.cabinet].token = q.invite.token
    /\ q.invite.token # 0
    /\ q.step \in {"read", "checked"} => q.invite.token \notin withdrawn \cup admitted
    /\ q.step = "checked" => Cardinality(MembersOf(q.cabinet)) < MaxMembers

SpentInv ==
  /\ TypeInv
  /\ FreshTokens /\ DistinctTokens /\ PastTokens
  /\ \A r \in Requests : Holds(req[r])

(* A request that arrives writes nothing; an acceptance has loaded a row.  *)
LEMMA ArrivalLoads ==
  ASSUME TypeInv, NEW r \in Requests, Arrival(r)
  PROVE  /\ req[r] = NoRequest /\ UNCHANGED <<rows, minted, past>>
         /\ \/ req'[r].op # "accept"
            \/ \E e \in Emails, c \in Cabinets :
                 /\ invitation[e][c].live
                 /\ req'[r].op = "accept" /\ req'[r].step = "read"
                 /\ req'[r].email = e /\ req'[r].cabinet = c
                 /\ req'[r].invite = invitation[e][c]
<1>0. req \in [Requests -> Request]
  BY DEF TypeInv, TypeOK
<1>1. req[r] = NoRequest /\ UNCHANGED <<rows, minted, past>>
  BY DEF Arrival, CreateRead, LeaveRead, TransferRead, AcceptRead, CancelRead, InviteRead,
         RemoveRead, RoleRead, Accept
<1>2. ASSUME NEW u \in Users, NEW e \in Emails, NEW c \in Cabinets, AcceptRead(r, u, e, c)
      PROVE  /\ invitation[e][c].live
             /\ req'[r].op = "accept" /\ req'[r].step = "read"
             /\ req'[r].email = e /\ req'[r].cabinet = c
             /\ req'[r].invite = invitation[e][c]
  BY <1>0, <1>2 DEF AcceptRead, Accept, NoRequest
<1>3. ASSUME NEW u \in Users, NEW t \in Users, NEW e, NEW c \in Cabinets, NEW new,
             \/ CreateRead(r, u, c) \/ LeaveRead(r, u, c) \/ TransferRead(r, u, c)
             \/ CancelRead(r, u, e, c) \/ InviteRead(r, u, e, c, new)
             \/ RemoveRead(r, u, t, c) \/ RoleRead(r, u, t, c, new)
      PROVE  req'[r].op # "accept"
  BY <1>0, <1>3 DEF CreateRead, LeaveRead, TransferRead, CancelRead, InviteRead, RemoveRead,
                    RoleRead, Accept, NoRequest
<1>4. CASE \E u \in Users, e \in Emails, c \in Cabinets : AcceptRead(r, u, e, c)
  BY <1>1, <1>2, <1>4
<1>5. CASE ~\E u \in Users, e \in Emails, c \in Cabinets : AcceptRead(r, u, e, c)
  BY <1>1, <1>3, <1>5 DEF Arrival
<1> QED
  BY <1>4, <1>5

LEMMA GoToFields ==
  ASSUME TypeInv, NEW r \in Requests, NEW step, GoTo(r, step)
  PROVE  /\ req'[r].op = req[r].op /\ req'[r].step = step
         /\ req'[r].email = req[r].email /\ req'[r].cabinet = req[r].cabinet
         /\ req'[r].invite = req[r].invite /\ req'[r].target = req[r].target
BY DEF TypeInv, TypeOK, GoTo, Request

(* Steps that touch no invitation and no history of tokens. *)
LEMMA QuietStep ==
  ASSUME SpentInv, OneSlot, TypeInv', NEW r \in Requests,
         UNCHANGED <<invitation, minted, withdrawn, admitted>>,
         Holds(req[r])',
         \A e \in Emails, c \in Cabinets : Clearing(req[r], e, c) => Clearing(req'[r], e, c)
  PROVE  SpentInv'
<1>1. FreshTokens'
  BY DEF SpentInv, FreshTokens, OneSlot
<1>2. DistinctTokens' /\ PastTokens'
  BY DEF SpentInv, DistinctTokens, PastTokens
<1> QED
  BY <1>1, <1>2 DEF SpentInv, OneSlot

LEMMA NothingHeld ==
  ASSUME NEW r \in Requests, req'[r].op # "accept"
  PROVE  Holds(req[r])'
BY DEF Holds

LEMMA FinishEmpties ==
  ASSUME TypeInv, NEW r \in Requests, Finish(r)
  PROVE  req'[r] = NoRequest /\ req'[r].op = "none"
BY DEF TypeInv, TypeOK, Finish, NoRequest

LEMMA SpentArrival ==
  ASSUME SpentInv, OneSlot, TypeInv', NEW r \in Requests, Arrival(r)
  PROVE  SpentInv'
<1>1. /\ req[r] = NoRequest /\ UNCHANGED <<member, invitation, minted, withdrawn, admitted>>
      /\ \/ req'[r].op # "accept"
         \/ \E e \in Emails, c \in Cabinets :
              /\ invitation[e][c].live
              /\ req'[r].op = "accept" /\ req'[r].step = "read"
              /\ req'[r].email = e /\ req'[r].cabinet = c
              /\ req'[r].invite = invitation[e][c]
  BY ArrivalLoads DEF SpentInv, rows, past
<1>2. \A e \in Emails, c \in Cabinets : ~Clearing(req[r], e, c)
  BY <1>1 DEF Clearing, NoRequest
<1>3. Holds(req[r])'
  <2>1. CASE req'[r].op # "accept"
    BY <2>1, NothingHeld
  <2>2. ASSUME NEW e \in Emails, NEW c \in Cabinets, invitation[e][c].live,
               req'[r].op = "accept", req'[r].step = "read", req'[r].email = e,
               req'[r].cabinet = c, req'[r].invite = invitation[e][c]
        PROVE  Holds(req[r])'
    <3>1. /\ invitation[e][c].token # 0 /\ invitation[e][c].token \notin withdrawn
          /\ invitation[e][c].token \notin admitted
      BY <1>2, <2>2 DEF SpentInv, FreshTokens, OneSlot
    <3>. QED
      BY <1>1, <2>2, <3>1 DEF Holds
  <2>. QED
    BY <1>1, <2>1, <2>2
<1> QED
  BY <1>1, <1>2, <1>3, QuietStep

(* Joining: the invitation, its withdrawal, its acceptance. *)
LEMMA SpentInvite ==
  ASSUME SpentInv, OneSlot, TypeInv', NEW r \in Requests, InviteWrite(r) \/ CancelWrite(r)
  PROVE  SpentInv'
<1>. DEFINE e == req[r].email
            c == req[r].cabinet
            old == invitation[e][c]
<1>0. /\ req[r].op \in {"invite", "cancel"} /\ e \in Emails /\ c \in Cabinets
      /\ invitation \in [Emails -> [Cabinets -> Invitation]]
      /\ old \in Invitation /\ minted \in Nat
      /\ withdrawn \subseteq Nat /\ admitted \subseteq Nat
  BY DEF SpentInv, TypeInv, TypeOK, InviteWrite, CancelWrite, AtStep, Named
<1>1. /\ admitted' = admitted /\ withdrawn' = withdrawn \cup {old.token}
      /\ minted' \in Nat /\ minted <= minted'
      /\ \A f \in Emails, d \in Cabinets : (f = e /\ d = c) \/ invitation'[f][d] = invitation[f][d]
      /\ \/ invitation'[e][c].token = minted + 1 /\ minted' = minted + 1
         \/ invitation'[e][c] = NoInvitation
  <2>1. CASE InviteWrite(r)
    <3>. DEFINE new == [id |-> IF old.id = 0 THEN minted + 1 ELSE old.id,
                        token |-> minted + 1, role |-> req[r].role, live |-> TRUE]
    <3>1. /\ admitted' = admitted /\ withdrawn' = withdrawn \cup {old.token}
          /\ minted' = minted + 1 /\ new.token = minted + 1
          /\ invitation' = [invitation EXCEPT ![e][c] = new]
      BY <2>1 DEF InviteWrite
    <3>. HIDE DEF e, c, old, new
    <3>. QED
      BY <1>0, <3>1
  <2>2. CASE CancelWrite(r)
    <3>1. /\ admitted' = admitted /\ withdrawn' = withdrawn \cup {old.token}
          /\ minted' = minted
          /\ invitation' = [invitation EXCEPT ![e][c] = NoInvitation]
      BY <2>2 DEF CancelWrite
    <3>. HIDE DEF e, c, old
    <3>. QED
      BY <1>0, <3>1
  <2>. QED
    BY <2>1, <2>2
<1>2. \A f \in Emails, d \in Cabinets : ~Clearing(req[r], f, d)
  BY <1>0 DEF Clearing
<1>3. \A f \in Emails, d \in Cabinets :
        /\ invitation[f][d] \in Invitation /\ invitation[f][d].token \in Nat
        /\ invitation[f][d].token <= minted
        /\ invitation[f][d].live => /\ invitation[f][d].token # 0
                                    /\ invitation[f][d].token \notin withdrawn \cup admitted
  BY <1>0, <1>2 DEF SpentInv, FreshTokens, OneSlot, Invitation
<1>4. \A n \in withdrawn \cup admitted \cup {old.token} : n \in Nat /\ n <= minted
  BY <1>0, <1>3 DEF SpentInv, PastTokens
<1>5. ASSUME NEW f \in Emails, NEW d \in Cabinets
      PROVE  /\ invitation'[f][d].token <= minted'
             /\ invitation'[f][d].live =>
                  /\ invitation'[f][d].token # 0
                  /\ invitation'[f][d].token \notin withdrawn' \cup admitted'
  <2>1. CASE f = e /\ d = c
    <3>1. CASE invitation'[e][c].token = minted + 1 /\ minted' = minted + 1
      <4>1. minted + 1 \notin withdrawn \cup admitted \cup {old.token} /\ minted + 1 # 0
        BY <1>0, <1>4
      <4>. QED
        BY <1>0, <1>1, <2>1, <3>1, <4>1
    <3>2. CASE invitation'[e][c] = NoInvitation
      BY <1>0, <1>1, <2>1, <3>2 DEF NoInvitation
    <3>. QED
      BY <1>1, <3>1, <3>2
  <2>2. CASE ~(f = e /\ d = c)
    <3>1. invitation'[f][d] = invitation[f][d]
      BY <1>1, <2>2
    <3>2. invitation[f][d].token <= minted'
      BY <1>0, <1>1, <1>3
    <3>3. invitation[f][d].token # 0 => invitation[f][d].token # old.token
      BY <1>0, <2>2 DEF SpentInv, DistinctTokens
    <3>. QED
      BY <1>1, <1>3, <3>1, <3>2, <3>3
  <2>. QED
    BY <2>1, <2>2
<1>6. FreshTokens'
  BY <1>5 DEF FreshTokens
<1>7. DistinctTokens'
  <2> SUFFICES ASSUME NEW f \in Emails, NEW g \in Emails, NEW d \in Cabinets, NEW h \in Cabinets,
                      invitation'[f][d].token = invitation'[g][h].token,
                      invitation'[f][d].token # 0
               PROVE  f = g /\ d = h
    BY DEF DistinctTokens
  <2>1. \A x \in Emails, y \in Cabinets :
          invitation'[x][y].token # 0 =>
             \/ invitation'[x][y] = invitation[x][y] /\ invitation[x][y].token # minted + 1
             \/ x = e /\ y = c /\ invitation'[x][y].token = minted + 1
    BY <1>0, <1>1, <1>3 DEF NoInvitation
  <2>. QED
    BY <2>1 DEF SpentInv, DistinctTokens
<1>8. PastTokens'
  BY <1>0, <1>1, <1>4 DEF PastTokens
<1>9. Holds(req[r])'
  BY FinishEmpties, NothingHeld DEF InviteWrite, CancelWrite, SpentInv
<1> QED
  BY <1>6, <1>7, <1>8, <1>9 DEF SpentInv, OneSlot

LEMMA SpentAccept ==
  ASSUME SpentInv, OneSlot, TypeInv', NEW r \in Requests,
         AcceptAsMember(r) \/ AcceptCheck(r) \/ AcceptPromote(r)
  PROVE  SpentInv'
<1>1. /\ UNCHANGED <<invitation, minted, withdrawn, admitted>>
      /\ req[r].op = "accept" /\ Holds(req[r]) /\ TypeInv
  BY DEF AcceptAsMember, AcceptCheck, AcceptPromote, AtStep, rows, past, SpentInv
<1>2. CASE AcceptAsMember(r) \/ AcceptPromote(r)
  <2>1. GoTo(r, "clearing")
    BY <1>2 DEF AcceptAsMember, AcceptPromote
  <2>2. Holds(req[r])'
    BY <1>1, <2>1, GoToFields DEF Holds
  <2>3. \A e \in Emails, c \in Cabinets : Clearing(req[r], e, c) => Clearing(req'[r], e, c)
    BY <1>1, <2>1, GoToFields DEF Clearing
  <2>. QED
    BY <1>1, <2>2, <2>3, QuietStep
<1>3. CASE AcceptCheck(r)
  <2>1. /\ GoTo(r, "checked") /\ member' = member /\ req[r].step = "read"
        /\ Cardinality(MembersOf(req[r].cabinet)) < MaxMembers
    BY <1>3 DEF AcceptCheck, rows, AtStep
  <2>2. {u \in Users : member'[u][req'[r].cabinet] # NONE} = MembersOf(req[r].cabinet)
    BY <1>1, <2>1, GoToFields DEF MembersOf
  <2>3. Holds(req[r])'
    BY <1>1, <2>1, <2>2, GoToFields DEF Holds, MembersOf
  <2>4. \A e \in Emails, c \in Cabinets : Clearing(req[r], e, c) => Clearing(req'[r], e, c)
    BY <2>1 DEF Clearing
  <2>. QED
    BY <1>1, <2>3, <2>4, QuietStep
<1> QED
  BY <1>2, <1>3

LEMMA SpentAdd ==
  ASSUME SpentInv, OneSlot, TypeInv', NEW r \in Requests, AcceptAdd(r)
  PROVE  SpentInv'
<1>. DEFINE t == req[r].invite.token
            e == req[r].email
            c == req[r].cabinet
<1>1. /\ UNCHANGED <<invitation, minted, withdrawn>> /\ admitted' = admitted \cup {t}
      /\ GoTo(r, "joined") /\ req[r].op = "accept" /\ Holds(req[r]) /\ TypeInv
      /\ e \in Emails /\ c \in Cabinets
  BY DEF AcceptAdd, AtStep, SpentInv, TypeInv, Named
<1>2. invitation[e][c].token = t /\ t # 0 /\ t <= minted
  BY <1>1 DEF Holds, SpentInv, FreshTokens
<1>3. Clearing(req'[r], e, c)
  BY <1>1, GoToFields DEF Clearing
<1>4. FreshTokens'
  <2> SUFFICES ASSUME NEW f \in Emails, NEW d \in Cabinets
               PROVE  /\ invitation[f][d].token <= minted
                      /\ invitation[f][d].live =>
                           invitation[f][d].token # 0 /\ invitation[f][d].token \notin withdrawn
                      /\ invitation[f][d].live /\ invitation[f][d].token \in admitted \cup {t} =>
                           \E s \in Requests : Clearing(req'[s], f, d)
    BY <1>1 DEF FreshTokens
  <2>1. ~Clearing(req[r], f, d)
    BY DEF Clearing, AcceptAdd, AtStep
  <2>2. invitation[f][d].live => invitation[f][d].token \notin admitted
    BY <2>1 DEF SpentInv, FreshTokens, OneSlot
  <2>3. invitation[f][d].token = t => f = e /\ d = c
    BY <1>1, <1>2 DEF SpentInv, DistinctTokens
  <2>. QED
    BY <1>3, <2>2, <2>3 DEF SpentInv, FreshTokens
<1>5. DistinctTokens' /\ PastTokens'
  BY <1>1, <1>2 DEF SpentInv, DistinctTokens, PastTokens
<1>6. Holds(req[r])'
  BY <1>1, GoToFields DEF Holds
<1> QED
  BY <1>4, <1>5, <1>6 DEF SpentInv, OneSlot

LEMMA SpentClear ==
  ASSUME SpentInv, OneSlot, TypeInv', NEW r \in Requests, AcceptClear(r)
  PROVE  SpentInv'
<1>. DEFINE e == req[r].email
            c == req[r].cabinet
<1>1. /\ UNCHANGED <<minted, withdrawn, admitted>> /\ Finish(r) /\ req[r].op = "accept"
      /\ Holds(req[r]) /\ TypeInv /\ e \in Emails /\ c \in Cabinets
      /\ invitation \in [Emails -> [Cabinets -> Invitation]]
  BY DEF AcceptClear, AtStep, past, SpentInv, TypeInv, TypeOK, Named
<1>2. /\ invitation'[e][c] = NoInvitation
      /\ \A f \in Emails, d \in Cabinets : (f = e /\ d = c) \/ invitation'[f][d] = invitation[f][d]
  BY <1>1 DEF AcceptClear, Holds
<1>3. \A f \in Emails, d \in Cabinets : (f = e /\ d = c) \/ ~Clearing(req[r], f, d)
  BY DEF Clearing
<1>4. FreshTokens'
  <2> SUFFICES ASSUME NEW f \in Emails, NEW d \in Cabinets
               PROVE  /\ invitation'[f][d].token <= minted
                      /\ invitation'[f][d].live =>
                           /\ invitation'[f][d].token # 0
                           /\ invitation'[f][d].token \notin withdrawn \cup admitted
    BY <1>1 DEF FreshTokens
  <2>1. CASE f = e /\ d = c
    BY <1>2, <2>1 DEF NoInvitation, SpentInv, TypeInv, TypeOK
  <2>2. CASE ~(f = e /\ d = c)
    BY <1>2, <1>3, <2>2 DEF SpentInv, FreshTokens, OneSlot
  <2>. QED
    BY <2>1, <2>2
<1>5. DistinctTokens'
  <2>1. \A f \in Emails, d \in Cabinets :
          invitation'[f][d].token # 0 => invitation'[f][d] = invitation[f][d]
    BY <1>2 DEF NoInvitation
  <2>. QED
    BY <2>1 DEF SpentInv, DistinctTokens
<1>6. PastTokens'
  BY <1>1 DEF SpentInv, PastTokens
<1>7. Holds(req[r])'
  BY <1>1, FinishEmpties, NothingHeld
<1> QED
  BY <1>4, <1>5, <1>6, <1>7 DEF SpentInv, OneSlot

LEMMA SpentRest ==
  ASSUME SpentInv, OneSlot, TypeInv', NEW r \in Requests,
         InviteCheck(r) \/ Changing(r) \/ Refuse(r)
  PROVE  SpentInv'
<1>1. UNCHANGED <<invitation, minted, withdrawn, admitted>>
  BY DEF InviteCheck, Changing, Refuse, CreateInsert, CreateOwner, RemoveWrite, LeaveWrite,
         RoleWrite, TransferPromote, TransferDemote, rows, past
<1>2. /\ \/ Finish(r)
         \/ req[r].op # "accept" /\ \E step : GoTo(r, step)
      /\ req[r].op = "accept" => req[r].step \in {"read", "checked"}
  BY DEF InviteCheck, Changing, Refuse, CreateInsert, CreateOwner, RemoveWrite, LeaveWrite,
         RoleWrite, TransferPromote, TransferDemote, AtStep
<1>3. TypeInv /\ \A e \in Emails, c \in Cabinets : ~Clearing(req[r], e, c)
  BY <1>2 DEF Clearing, SpentInv
<1>4. Holds(req[r])'
  BY <1>2, <1>3, FinishEmpties, GoToFields, NothingHeld
<1> QED
  BY <1>1, <1>3, <1>4, QuietStep

(* A request that dies frees its token, and its slot. *)
LEMMA SpentAbort ==
  ASSUME SpentInv, OneSlot, TypeInv', NEW r \in Requests, Abort(r)
  PROVE  SpentInv'
<1>1. /\ UNCHANGED <<invitation, minted, withdrawn>>
      /\ admitted' = admitted \ {req[r].invite.token}
      /\ Finish(r) /\ TypeInv /\ Holds(req[r])
  BY DEF Abort, rows, SpentInv
<1>2. FreshTokens'
  <2> SUFFICES ASSUME NEW e \in Emails, NEW c \in Cabinets
               PROVE  /\ invitation[e][c].token <= minted
                      /\ invitation[e][c].live =>
                           /\ invitation[e][c].token # 0
                           /\ invitation[e][c].token \notin withdrawn
                           /\ invitation[e][c].token \notin admitted \ {req[r].invite.token}
    BY <1>1 DEF FreshTokens
  <2>1. invitation[e][c].live /\ invitation[e][c].token \in admitted
          => Clearing(req[r], e, c)
    BY DEF SpentInv, FreshTokens, OneSlot
  <2>2. Clearing(req[r], e, c) => invitation[e][c].token = req[r].invite.token
    BY <1>1 DEF Clearing, Holds
  <2>. QED
    BY <2>1, <2>2 DEF SpentInv, FreshTokens
<1>3. DistinctTokens' /\ PastTokens'
  BY <1>1 DEF SpentInv, DistinctTokens, PastTokens
<1>4. Holds(req[r])'
  BY <1>1, FinishEmpties, NothingHeld
<1> QED
  BY <1>2, <1>3, <1>4 DEF SpentInv, OneSlot

LEMMA SpentExpire ==
  ASSUME SpentInv, TypeInv', NEW e \in Emails, NEW c \in Cabinets, Expire(e, c)
  PROVE  SpentInv'
<1>1. /\ UNCHANGED <<member, req, minted, withdrawn, admitted>>
      /\ \A f \in Emails, d \in Cabinets :
           /\ invitation'[f][d].token = invitation[f][d].token
           /\ invitation'[f][d].id = invitation[f][d].id
           /\ invitation'[f][d].live => invitation[f][d].live
  <2>1. invitation \in [Emails -> [Cabinets -> Invitation]]
    BY DEF SpentInv, TypeInv, TypeOK
  <2>2. invitation[e][c] \in Invitation
    BY <2>1
  <2>3. /\ [invitation[e][c] EXCEPT !.live = FALSE].token = invitation[e][c].token
        /\ [invitation[e][c] EXCEPT !.live = FALSE].id = invitation[e][c].id
        /\ ~[invitation[e][c] EXCEPT !.live = FALSE].live
    BY <2>2 DEF Invitation
  <2>4. /\ invitation'[e][c] = [invitation[e][c] EXCEPT !.live = FALSE]
        /\ \A f \in Emails, d \in Cabinets : (f = e /\ d = c) \/ invitation'[f][d] = invitation[f][d]
    BY <2>1 DEF Expire
  <2>. QED
    BY <2>3, <2>4 DEF Expire, past
<1>2. FreshTokens' /\ DistinctTokens' /\ PastTokens'
  BY <1>1 DEF SpentInv, FreshTokens, DistinctTokens, PastTokens
<1>3. ASSUME NEW r \in Requests PROVE Holds(req[r])'
  <2>1. Holds(req[r]) /\ Named(req[r])
    BY DEF SpentInv, TypeInv
  <2>. QED
    BY <1>1, <2>1 DEF Holds, Named, MembersOf
<1> QED
  BY <1>2, <1>3 DEF SpentInv

LEMMA SpentStill ==
  ASSUME SpentInv, TypeInv', UNCHANGED <<member, invitation, req, minted, withdrawn, admitted>>
  PROVE  SpentInv'
<1>1. FreshTokens' /\ DistinctTokens' /\ PastTokens'
  BY DEF SpentInv, FreshTokens, DistinctTokens, PastTokens
<1>2. ASSUME NEW r \in Requests PROVE Holds(req[r])'
  BY DEF SpentInv, Holds, MembersOf
<1> QED
  BY <1>1, <1>2 DEF SpentInv

LEMMA SpentStep == OneSlot /\ SpentInv /\ [Next]_vars => SpentInv'
<1> SUFFICES ASSUME OneSlot, SpentInv, [Next]_vars PROVE SpentInv'
  OBVIOUS
<1>0. TypeInv'
  BY NextType DEF SpentInv
<1>1. ASSUME NEW r \in Requests, Arrival(r) PROVE SpentInv'
  BY <1>0, <1>1, SpentArrival
<1>2. ASSUME NEW r \in Requests, Joining(r) PROVE SpentInv'
  BY <1>0, <1>2, SpentInvite, SpentAccept, SpentAdd, SpentClear, SpentRest DEF Joining
<1>3. ASSUME NEW r \in Requests, Changing(r) \/ Refuse(r) PROVE SpentInv'
  BY <1>0, <1>3, SpentRest
<1>4. ASSUME NEW r \in Requests, Abort(r) PROVE SpentInv'
  BY <1>0, <1>4, SpentAbort
<1>5. ASSUME NEW e \in Emails, NEW c \in Cabinets, Expire(e, c) PROVE SpentInv'
  BY <1>0, <1>5, SpentExpire
<1>6. CASE \/ \E u \in Users, c \in Cabinets : DeleteCabinet(u, c)
           \/ \E c \in Cabinets : EnableCabinet(c)
           \/ \E u \in Users, new \in UserRoles : SetUserRole(u, new)
           \/ UNCHANGED vars
  <2>1. UNCHANGED <<member, invitation, req, minted, withdrawn, admitted>>
    BY <1>6 DEF DeleteCabinet, EnableCabinet, SetUserRole, past, vars
  <2>. QED
    BY <1>0, <2>1, SpentStill
<1> QED
  BY <1>1, <1>2, <1>3, <1>4, <1>5, <1>6 DEF Next

LEMMA SpentInit == Init => SpentInv
<1> SUFFICES ASSUME Init PROVE SpentInv
  OBVIOUS
<1>1. \A e \in Emails, c \in Cabinets : invitation[e][c] = NoInvitation
  BY DEF Init
<1>2. FreshTokens /\ DistinctTokens /\ PastTokens
  BY <1>1 DEF Init, NoInvitation, FreshTokens, DistinctTokens, PastTokens
<1>3. \A r \in Requests : Holds(req[r])
  BY DEF Init, NoRequest, Holds
<1> QED
  BY <1>2, <1>3, InitType DEF SpentInv

LEMMA SpentInvariant ==
  ASSUME OneSlot
  PROVE  Spec => []SpentInv
<1>1. SpentInv /\ [Next]_vars => SpentInv'
  BY SpentStep
<1> QED
  BY <1>1, SpentInit, PTL DEF Spec

LEMMA AdmitsIsAdd ==
  ASSUME SpentInv, [Next]_vars, OneSlot, NEW r \in Requests, Admits(r)
  PROVE  AcceptAdd(r)
<1>1. /\ req[r].op = "accept" /\ req[r].step = "checked" /\ req'[r].step = "joined" /\ TypeInv
  BY DEF Admits, AtStep, SpentInv
<1>2. ASSUME NEW s \in Requests, NEW step, GoTo(s, step) PROVE s = r /\ step = "joined"
  BY <1>1, <1>2, GoToFields DEF OneSlot
<1>3. ASSUME NEW s \in Requests, Finish(s) PROVE FALSE
  BY <1>1, <1>3, FinishEmpties DEF OneSlot, NoRequest
<1>4. ASSUME NEW s \in Requests, Arrival(s) PROVE FALSE
  BY <1>1, <1>4, ArrivalLoads DEF OneSlot, NoRequest
<1>5. ASSUME NEW s \in Requests, Joining(s) PROVE AcceptAdd(r)
  BY <1>2, <1>3, <1>5
     DEF OneSlot, Joining, InviteCheck, InviteWrite, CancelWrite, AcceptAsMember, AcceptCheck,
         AcceptPromote, AcceptClear
<1>6. ASSUME NEW s \in Requests, Changing(s) PROVE FALSE
  BY <1>1, <1>6 DEF OneSlot, Changing, CreateInsert, CreateOwner, RemoveWrite, LeaveWrite,
                    RoleWrite, TransferPromote, TransferDemote, AtStep
<1>7. ASSUME NEW s \in Requests, Refuse(s) \/ Abort(s) PROVE FALSE
  BY <1>3, <1>7 DEF Refuse, Abort
<1>8. req' # req
  BY <1>1
<1> QED
  BY <1>4, <1>5, <1>6, <1>7, <1>8
     DEF Next, Expire, DeleteCabinet, EnableCabinet, SetUserRole, vars

(* While requests are served one after the other, a token that was         *)
(* cancelled, replaced or used lets nobody in: the acceptance deletes its  *)
(* own invitation before the next request can load it                      *)
(* (accept-invite.use-case.ts), and a cancelled row is gone.               *)
THEOREM TokensSpent ==
  ASSUME OneSlot
  PROVE  Spec => TokensAreSpent
<1>1. SpentInv /\ [Next]_vars =>
        \A r \in Requests : Admits(r) => req[r].invite.token \notin withdrawn \cup admitted
  BY DEF SpentInv, Holds, Admits, AtStep
<1>2. SpentInv /\ [Next]_vars =>
        [\A r \in Requests : Admits(r) =>
           req[r].invite.token \notin withdrawn \cup admitted]_vars
  BY <1>1
<1> QED
  BY <1>2, SpentInvariant, PTL DEF Spec, TokensAreSpent

(* While requests are served one after the other, accepting never takes a  *)
(* cabinet past the members of its plan: the count it was checked against  *)
(* is still the count when the row is inserted.                            *)
THEOREM AcceptKeepsThePlan ==
  ASSUME OneSlot
  PROVE  Spec => AcceptKeepsPlan
<1>1. ASSUME SpentInv, [Next]_vars, NEW r \in Requests, Admits(r)
      PROVE  Cardinality(MembersOf(req[r].cabinet)') <= MaxMembers
  <2>. DEFINE c == req[r].cabinet
              t == req[r].target
              old == MembersOf(req[r].cabinet)
              new == {u \in Users : member'[u][req'[r].cabinet] # NONE}
  <2>0. AcceptAdd(r)
    BY <1>1, AdmitsIsAdd
  <2>1. /\ member \in [Users -> [Cabinets -> CabinetRoles \cup {NONE}]]
        /\ c \in Cabinets /\ t \in Users /\ req'[r].cabinet = c
        /\ Cardinality(old) < MaxMembers
    BY <1>1, <2>0, GoToFields DEF AcceptAdd, AtStep, SpentInv, TypeInv, TypeOK, Named, Holds
  <2>2. \A u \in Users : u # t => member'[u] = member[u]
    BY <2>0, <2>1 DEF AcceptAdd, SetMember
  <2>3. new \subseteq old \cup {t}
    BY <2>1, <2>2 DEF MembersOf
  <2>4. IsFiniteSet(old)
    BY FS_Subset, MembershipAssumption DEF MembersOf
  <2>5. /\ IsFiniteSet(old \cup {t})
        /\ Cardinality(old \cup {t}) \in Nat /\ Cardinality(old) \in Nat
        /\ Cardinality(old \cup {t}) <= Cardinality(old) + 1
    <3>1. /\ IsFiniteSet(old \cup {t})
          /\ Cardinality(old \cup {t}) = IF t \in old THEN Cardinality(old)
                                                      ELSE Cardinality(old) + 1
      BY <2>4, FS_AddElement, Zenon
    <3>2. Cardinality(old \cup {t}) \in Nat /\ Cardinality(old) \in Nat
      BY <2>4, <3>1, FS_CardinalityType, Zenon
    <3>. QED
      BY <3>1, <3>2
  <2>6. Cardinality(new) \in Nat /\ Cardinality(new) <= Cardinality(old \cup {t})
    BY <2>3, <2>5, FS_Subset, FS_CardinalityType
  <2>7. Cardinality(new) <= MaxMembers
    BY <2>1, <2>5, <2>6, MembershipAssumption
  <2>. QED
    BY <2>7 DEF MembersOf
<1>2. SpentInv /\ [Next]_vars =>
        [\A r \in Requests : Admits(r) =>
           Cardinality(MembersOf(req[r].cabinet)') <= MaxMembers]_vars
  BY <1>1
<1> QED
  BY <1>2, SpentInvariant, PTL DEF Spec, AcceptKeepsPlan
=============================================================================
