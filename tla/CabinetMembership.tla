------------------------- MODULE CabinetMembership --------------------------
(***************************************************************************)
(* Who belongs to a cabinet, with which role, and how one joins: creation  *)
(* of the cabinet, invitation and acceptance, change of role, transfer of  *)
(* ownership by an administrator, removal and leaving.                     *)
(*                                                                         *)
(* As in DemandLifecycle a request occupies a slot and its handler is cut  *)
(* at the awaits between what it decides on and what it writes.  Reads     *)
(* that follow each other and only refuse the request are one step.        *)
(***************************************************************************)
EXTENDS Naturals, FiniteSets

CONSTANTS
  Users,        \* rows of users
  Cabinets,     \* ids of cabinets, created or not
  Emails,       \* addresses as people spell them
  AddressOf,    \* whose address it is, letter case aside
  Exact,        \* the addresses spelled as in users.email
  MaxMembers,   \* maxMembers of the subscribed plan
  Requests,     \* slots of requests served at the same time
  NONE,
  MaxRequests,  \* bound: requests accepted in a behaviour
  MayAbort      \* whether a request may die between two of its writes

ASSUME MembershipAssumption ==
  /\ AddressOf \in [Emails -> Users]
  /\ Exact \subseteq Emails
  /\ MaxMembers \in Nat
  /\ IsFiniteSet(Users)
  /\ MaxRequests \in Nat
  /\ MayAbort \in BOOLEAN
  /\ NONE \notin Users \cup {"OWNER", "STAFF"}

VARIABLES
  member,       \* table cabinet_members: the role of a user in a cabinet, or NONE
  cabinet,      \* table cabinets
  role,         \* column role of users
  invitation,   \* table cabinet_invitations, unique by email and cabinet
  req,          \* the request in each slot
  minted,       \* ids and tokens generated so far (random, never repeated)
  issued,       \* requests accepted so far
  offered,      \* history: <<user, cabinet, role>> of every invitation
  withdrawn,    \* history: tokens that were cancelled or replaced
  admitted      \* history: tokens somebody joined with, in a request that
                \* did not die since

vars == <<member, cabinet, role, invitation, req, minted, issued,
          offered, withdrawn, admitted>>

-----------------------------------------------------------------------------

CabinetRoles == {"OWNER", "STAFF"}

UserRoles == {"CITIZEN", "MEMBER", "ADMIN"}

(* live: expiresAt has not passed.  Id 0 is no row. *)
Invitation == [id : Nat, token : Nat, role : CabinetRoles, live : BOOLEAN]

NoInvitation == [id |-> 0, token |-> 0, role |-> "STAFF", live |-> FALSE]

Request ==
  [op : {"none", "create", "invite", "accept", "cancel", "remove", "leave",
         "role", "transfer"},
   step : {"idle", "read", "checked", "created", "joined", "clearing", "promoted"},
   user : Users \cup {NONE},          \* who sends it
   target : Users \cup {NONE},        \* whose membership it is about
   cabinet : Cabinets \cup {NONE},
   email : Emails \cup {NONE},
   role : CabinetRoles,
   invite : Invitation,               \* the row that was loaded
   owner : Users \cup {NONE},         \* currentOwner of a transfer
   seen : BOOLEAN]                    \* accept: the user was a citizen;
                                      \* transfer: the new owner was a member
NoRequest ==
  [op |-> "none", step |-> "idle", user |-> NONE, target |-> NONE,
   cabinet |-> NONE, email |-> NONE, role |-> "STAFF", invite |-> NoInvitation,
   owner |-> NONE, seen |-> FALSE]

TypeOK ==
  /\ member \in [Users -> [Cabinets -> CabinetRoles \cup {NONE}]]
  /\ cabinet \in [Cabinets -> {"absent", "enabled", "disabled"}]
  /\ role \in [Users -> UserRoles]
  /\ invitation \in [Emails -> [Cabinets -> Invitation]]
  /\ req \in [Requests -> Request]
  /\ minted \in Nat
  /\ issued \in Nat
  /\ offered \subseteq Users \X Cabinets \X CabinetRoles
  /\ withdrawn \subseteq Nat
  /\ admitted \subseteq Nat

MembersOf(c) == {u \in Users : member[u][c] # NONE}

OwnersOf(c) == {u \in Users : member[u][c] = "OWNER"}

PendingOf(c) == {e \in Emails : invitation[e][c].live}

(* invite: CITIZEN and in no cabinet (isCabinetMember). *)
Invitable(u) == role[u] = "CITIZEN" /\ \A c \in Cabinets : member[u][c] = NONE

(* Cabinets as creation, acceptance and removal leave them. *)
Init ==
  /\ cabinet \in [Cabinets -> {"absent", "enabled"}]
  /\ role \in [Users -> UserRoles]
  /\ member \in [Users -> [Cabinets -> CabinetRoles \cup {NONE}]]
  /\ \A c \in Cabinets : IF cabinet[c] = "enabled"
                         THEN OwnersOf(c) # {} /\ Cardinality(MembersOf(c)) <= MaxMembers
                         ELSE MembersOf(c) = {}
  /\ \A u \in Users, c \in Cabinets : member[u][c] # NONE => role[u] # "CITIZEN"
  /\ invitation = [e \in Emails |-> [c \in Cabinets |-> NoInvitation]]
  /\ req = [r \in Requests |-> NoRequest]
  /\ minted = 0 /\ issued = 0
  /\ offered = {} /\ withdrawn = {} /\ admitted = {}

-----------------------------------------------------------------------------
(* The steps every request is made of. *)

rows == <<member, cabinet, role, invitation>>
past == <<offered, withdrawn, admitted>>

Accept(r, request) ==
  /\ req[r] = NoRequest
  /\ issued < MaxRequests
  /\ issued' = issued + 1
  /\ req' = [req EXCEPT ![r] = request]
  /\ UNCHANGED <<rows, minted, past>>

AtStep(r, op, step) == req[r].op = op /\ req[r].step = step

GoTo(r, step) == req' = [req EXCEPT ![r].step = step]

Finish(r) == req' = [req EXCEPT ![r] = NoRequest]

SetMember(u, c, value) == member' = [member EXCEPT ![u][c] = value]

(* A check refuses, here or in another module, or the first write throws. *)
Refuse(r) ==
  /\ req[r].step \in {"read", "checked"}
  /\ Finish(r)
  /\ UNCHANGED <<rows, minted, issued, past>>

(* The database is lost, or the process stops, between two writes. *)
Abort(r) ==
  /\ MayAbort
  /\ req[r] # NoRequest
  /\ admitted' = admitted \ {req[r].invite.token}
  /\ Finish(r)
  /\ UNCHANGED <<rows, minted, issued, offered, withdrawn>>

-----------------------------------------------------------------------------
(* POST /cabinets, by a MEMBER or an ADMIN for themselves, and             *)
(* POST /admin/cabinets, for a MEMBER: two inserts.                        *)

CreateRead(r, u, c) ==
  /\ role[u] # "CITIZEN"
  /\ cabinet[c] = "absent"
  /\ Accept(r, [NoRequest EXCEPT !.op = "create", !.step = "read",
                                 !.target = u, !.cabinet = c])

CreateInsert(r) ==
  /\ AtStep(r, "create", "read")
  /\ cabinet[req[r].cabinet] = "absent"
  /\ cabinet' = [cabinet EXCEPT ![req[r].cabinet] = "enabled"]
  /\ GoTo(r, "created")
  /\ UNCHANGED <<member, role, invitation, minted, issued, past>>

CreateOwner(r) ==
  /\ AtStep(r, "create", "created")
  /\ SetMember(req[r].target, req[r].cabinet, "OWNER")
  /\ Finish(r)
  /\ UNCHANGED <<cabinet, role, invitation, minted, issued, past>>

(* POST /cabinets/:slug/invites *)
InviteRead(r, u, e, c, new) ==
  /\ cabinet[c] = "enabled"
  /\ member[u][c] = "OWNER"
  /\ Accept(r, [NoRequest EXCEPT !.op = "invite", !.step = "read", !.user = u,
                                 !.email = e, !.cabinet = c, !.role = new])

(* The limit, then the user of that address: findByEmail compares exactly. *)
InviteCheck(r) ==
  /\ AtStep(r, "invite", "read")
  /\ Cardinality(MembersOf(req[r].cabinet)) + Cardinality(PendingOf(req[r].cabinet))
       < MaxMembers
  /\ req[r].email \in Exact => Invitable(AddressOf[req[r].email])
  /\ GoTo(r, "checked")
  /\ UNCHANGED <<rows, minted, issued, past>>

(* An upsert: a second invitation replaces the token and keeps the id. *)
InviteWrite(r) ==
  /\ AtStep(r, "invite", "checked")
  /\ LET e == req[r].email
         c == req[r].cabinet
         old == invitation[e][c]
     IN /\ invitation' = [invitation EXCEPT ![e][c] =
             [id |-> IF old.id = 0 THEN minted + 1 ELSE old.id,
              token |-> minted + 1, role |-> req[r].role, live |-> TRUE]]
        /\ offered' = offered \cup {<<AddressOf[e], c, req[r].role>>}
        /\ withdrawn' = withdrawn \cup {old.token}
  /\ minted' = minted + 1
  /\ Finish(r)
  /\ UNCHANGED <<member, cabinet, role, issued, admitted>>

(* Seven days have passed. *)
Expire(e, c) ==
  /\ invitation[e][c].live
  /\ invitation' = [invitation EXCEPT ![e][c].live = FALSE]
  /\ UNCHANGED <<member, cabinet, role, req, minted, issued, past>>

-----------------------------------------------------------------------------
(* POST /cabinets/invites/:token/accept *)

AcceptReadAnyAddress(r, u, e, c) ==     \* variant: the address is not compared
  /\ invitation[e][c].live
  /\ Accept(r, [NoRequest EXCEPT !.op = "accept", !.step = "read", !.user = u,
                                 !.target = u, !.email = e, !.cabinet = c,
                                 !.invite = invitation[e][c],
                                 !.seen = role[u] = "CITIZEN"])

AcceptRead(r, u, e, c) ==
  /\ invitation[e][c].live
  /\ AddressOf[e] = u
  /\ Accept(r, [NoRequest EXCEPT !.op = "accept", !.step = "read", !.user = u,
                                 !.target = u, !.email = e, !.cabinet = c,
                                 !.invite = invitation[e][c],
                                 !.seen = role[u] = "CITIZEN"])

AcceptAsMember(r) ==
  /\ AtStep(r, "accept", "read")
  /\ member[req[r].target][req[r].cabinet] # NONE
  /\ GoTo(r, "clearing")
  /\ UNCHANGED <<rows, minted, issued, past>>

AcceptCheckOffByOne(r) ==     \* variant: a full cabinet takes one more
  /\ AtStep(r, "accept", "read")
  /\ member[req[r].target][req[r].cabinet] = NONE
  /\ Cardinality(MembersOf(req[r].cabinet)) <= MaxMembers
  /\ GoTo(r, "checked")
  /\ UNCHANGED <<rows, minted, issued, past>>

AcceptCheck(r) ==
  /\ AtStep(r, "accept", "read")
  /\ member[req[r].target][req[r].cabinet] = NONE
  /\ Cardinality(MembersOf(req[r].cabinet)) < MaxMembers
  /\ GoTo(r, "checked")
  /\ UNCHANGED <<rows, minted, issued, past>>

AcceptAddUserRole(r) ==     \* variant: the global role of the user is stored
  /\ AtStep(r, "accept", "checked")
  /\ member[req[r].target][req[r].cabinet] = NONE
  /\ SetMember(req[r].target, req[r].cabinet, role[req[r].target])
  /\ admitted' = admitted \cup {req[r].invite.token}
  /\ GoTo(r, "joined")
  /\ UNCHANGED <<cabinet, role, invitation, minted, issued, offered, withdrawn>>

(* The insert fails on the unique index if the row is there by now. *)
AcceptAdd(r) ==
  /\ AtStep(r, "accept", "checked")
  /\ member[req[r].target][req[r].cabinet] = NONE
  /\ SetMember(req[r].target, req[r].cabinet, req[r].invite.role)
  /\ admitted' = admitted \cup {req[r].invite.token}
  /\ GoTo(r, "joined")
  /\ UNCHANGED <<cabinet, role, invitation, minted, issued, offered, withdrawn>>

(* By the role that was read with the user. *)
AcceptPromote(r) ==
  /\ AtStep(r, "accept", "joined")
  /\ role' = [role EXCEPT ![req[r].target] = IF req[r].seen THEN "MEMBER" ELSE @]
  /\ GoTo(r, "clearing")
  /\ UNCHANGED <<member, cabinet, invitation, minted, issued, past>>

(* delete throws when the row is gone; nothing follows that writes. *)
AcceptClear(r) ==
  /\ AtStep(r, "accept", "clearing")
  /\ invitation' = [invitation EXCEPT ![req[r].email][req[r].cabinet] =
                      IF @.id = req[r].invite.id THEN NoInvitation ELSE @]
  /\ Finish(r)
  /\ UNCHANGED <<member, cabinet, role, minted, issued, past>>

(* DELETE /cabinets/invites/:id *)
CancelRead(r, u, e, c) ==
  /\ invitation[e][c].id # 0
  /\ member[u][c] = "OWNER"
  /\ Accept(r, [NoRequest EXCEPT !.op = "cancel", !.step = "checked", !.user = u,
                                 !.email = e, !.cabinet = c,
                                 !.invite = invitation[e][c]])

CancelWriteExpires(r) ==     \* variant: the row stays and only listings omit it
  /\ AtStep(r, "cancel", "checked")
  /\ invitation[req[r].email][req[r].cabinet].id = req[r].invite.id
  /\ withdrawn' = withdrawn \cup {invitation[req[r].email][req[r].cabinet].token}
  /\ Finish(r)
  /\ UNCHANGED <<rows, minted, issued, offered, admitted>>

CancelWrite(r) ==
  /\ AtStep(r, "cancel", "checked")
  /\ invitation[req[r].email][req[r].cabinet].id = req[r].invite.id
  /\ withdrawn' = withdrawn \cup {invitation[req[r].email][req[r].cabinet].token}
  /\ invitation' = [invitation EXCEPT ![req[r].email][req[r].cabinet] = NoInvitation]
  /\ Finish(r)
  /\ UNCHANGED <<member, cabinet, role, minted, issued, offered, admitted>>

-----------------------------------------------------------------------------
(* DELETE /cabinets/:slug/members/:userId *)
RemoveRead(r, u, t, c) ==
  /\ cabinet[c] = "enabled"
  /\ member[u][c] = "OWNER"
  /\ member[t][c] # NONE
  /\ t # u
  /\ Accept(r, [NoRequest EXCEPT !.op = "remove", !.step = "checked", !.user = u,
                                 !.target = t, !.cabinet = c])

(* deleteMany: no error when the row is gone. *)
RemoveWrite(r) ==
  /\ AtStep(r, "remove", "checked")
  /\ SetMember(req[r].target, req[r].cabinet, NONE)
  /\ Finish(r)
  /\ UNCHANGED <<cabinet, role, invitation, minted, issued, past>>

(* POST /cabinets/:slug/leave *)
LeaveRead(r, u, c) ==
  /\ cabinet[c] = "enabled"
  /\ member[u][c] = "STAFF"
  /\ Accept(r, [NoRequest EXCEPT !.op = "leave", !.step = "checked", !.user = u,
                                 !.target = u, !.cabinet = c])

LeaveWrite(r) ==
  /\ AtStep(r, "leave", "checked")
  /\ SetMember(req[r].target, req[r].cabinet, NONE)
  /\ Finish(r)
  /\ UNCHANGED <<cabinet, role, invitation, minted, issued, past>>

(* PATCH /cabinets/:slug/members/:userId *)
RoleRead(r, u, t, c, new) ==
  /\ cabinet[c] = "enabled"
  /\ member[u][c] = "OWNER"
  /\ t # u
  /\ member[t][c] # NONE
  /\ Accept(r, [NoRequest EXCEPT !.op = "role", !.step = "checked", !.user = u,
                                 !.target = t, !.cabinet = c, !.role = new])

RoleWrite(r) ==
  /\ AtStep(r, "role", "checked")
  /\ member[req[r].target][req[r].cabinet] # NONE
  /\ SetMember(req[r].target, req[r].cabinet, req[r].role)
  /\ Finish(r)
  /\ UNCHANGED <<cabinet, role, invitation, minted, issued, past>>

-----------------------------------------------------------------------------
(* PATCH /admin/cabinets/:id with an ownerUserId: the current owner is the *)
(* first owner of an unordered list, if there is one.                      *)

TransferRead(r, t, c) ==
  /\ cabinet[c] = "enabled"
  /\ role[t] = "MEMBER"
  /\ \E o \in IF OwnersOf(c) = {} THEN {NONE} ELSE OwnersOf(c) :
       Accept(r, [NoRequest EXCEPT !.op = "transfer", !.step = "checked",
                                   !.target = t, !.cabinet = c, !.owner = o,
                                   !.seen = member[t][c] # NONE])

TransferDemoteFirst(r) ==     \* variant: the old owner is demoted first
  /\ AtStep(r, "transfer", "checked")
  /\ IF req[r].owner \in {NONE, req[r].target}
     THEN SetMember(req[r].target, req[r].cabinet, "OWNER") /\ Finish(r)
     ELSE SetMember(req[r].owner, req[r].cabinet, "STAFF") /\ GoTo(r, "promoted")
  /\ UNCHANGED <<cabinet, role, invitation, minted, issued, past>>

(* Update or insert, whichever the members that were read call for. *)
TransferPromote(r) ==
  /\ AtStep(r, "transfer", "checked")
  /\ req[r].seen = (member[req[r].target][req[r].cabinet] # NONE)
  /\ SetMember(req[r].target, req[r].cabinet, "OWNER")
  /\ IF req[r].owner \in {NONE, req[r].target} THEN Finish(r) ELSE GoTo(r, "promoted")
  /\ UNCHANGED <<cabinet, role, invitation, minted, issued, past>>

(* update throws when the row is gone. *)
TransferDemote(r) ==
  /\ AtStep(r, "transfer", "promoted")
  /\ member' = [member EXCEPT ![req[r].owner][req[r].cabinet] =
                  IF @ = NONE THEN NONE ELSE "STAFF"]
  /\ Finish(r)
  /\ UNCHANGED <<cabinet, role, invitation, minted, issued, past>>

(* Requests of one write, with no state of theirs to go stale: the soft    *)
(* deletion of a cabinet, its return, the role an administrator sets.      *)

Served ==
  /\ \E r \in Requests : req[r] = NoRequest
  /\ issued < MaxRequests
  /\ issued' = issued + 1

DeleteCabinet(u, c) ==
  /\ Served
  /\ cabinet[c] = "enabled"
  /\ role[u] = "ADMIN" \/ member[u][c] = "OWNER"
  /\ cabinet' = [cabinet EXCEPT ![c] = "disabled"]
  /\ UNCHANGED <<member, role, invitation, req, minted, past>>

EnableCabinet(c) ==
  /\ Served
  /\ cabinet[c] = "disabled"
  /\ cabinet' = [cabinet EXCEPT ![c] = "enabled"]
  /\ UNCHANGED <<member, role, invitation, req, minted, past>>

SetUserRole(u, new) ==
  /\ Served
  /\ role[u] # new
  /\ role' = [role EXCEPT ![u] = new]
  /\ UNCHANGED <<member, cabinet, invitation, req, minted, past>>

-----------------------------------------------------------------------------

Arrival(r) ==
  \E c \in Cabinets :
    \/ \E u \in Users : CreateRead(r, u, c) \/ LeaveRead(r, u, c) \/ TransferRead(r, u, c)
    \/ \E u \in Users, e \in Emails : AcceptRead(r, u, e, c) \/ CancelRead(r, u, e, c)
    \/ \E u \in Users, e \in Emails, new \in CabinetRoles : InviteRead(r, u, e, c, new)
    \/ \E u, t \in Users : RemoveRead(r, u, t, c)
    \/ \E u, t \in Users, new \in CabinetRoles : RoleRead(r, u, t, c, new)

Joining(r) ==
  \/ InviteCheck(r) \/ InviteWrite(r) \/ CancelWrite(r)
  \/ AcceptAsMember(r) \/ AcceptCheck(r) \/ AcceptAdd(r) \/ AcceptPromote(r) \/ AcceptClear(r)

Changing(r) ==
  \/ CreateInsert(r) \/ CreateOwner(r)
  \/ RemoveWrite(r) \/ LeaveWrite(r) \/ RoleWrite(r)
  \/ TransferPromote(r) \/ TransferDemote(r)

Next ==
  \/ \E r \in Requests : Arrival(r) \/ Joining(r) \/ Changing(r) \/ Refuse(r) \/ Abort(r)
  \/ \E e \in Emails, c \in Cabinets : Expire(e, c)
  \/ \E u \in Users, c \in Cabinets : DeleteCabinet(u, c)
  \/ \E c \in Cabinets : EnableCabinet(c)
  \/ \E u \in Users, new \in UserRoles : SetUserRole(u, new)

Spec == Init /\ [][Next]_vars

-----------------------------------------------------------------------------
(* Properties that hold however requests overlap. *)

Joins(u, c) == member[u][c] = NONE /\ member'[u][c] # NONE

(* Nobody comes into a cabinet with a role an owner did not offer to that  *)
(* very person, except the owner of a cabinet being created or the one an  *)
(* administrator names: acceptances use the address of the account and the *)
(* role of the invitation, whatever is cancelled, replaced or repeated     *)
(* meanwhile.                                                              *)
JoinsAreOffered ==
  [][\A u \in Users, c \in Cabinets : Joins(u, c) =>
       \/ <<u, c, member'[u][c]>> \in offered
       \/ /\ member'[u][c] = "OWNER"
          /\ \E r \in Requests : /\ req[r].op \in {"create", "transfer"}
                                 /\ req[r].target = u /\ req[r].cabinet = c]_vars

(* Properties of requests served one after the other. *)

(* A cabinet that has an owner keeps one: an owner may not leave, remove   *)
(* or demote themselves, and a transfer appoints the new owner before it   *)
(* demotes the old one, so that dying in between leaves two.               *)
OwnerStays == [][\A c \in Cabinets : OwnersOf(c) # {} => OwnersOf(c)' # {}]_vars

Admits(r) == AtStep(r, "accept", "checked") /\ req'[r].step = "joined"

(* Accepting never takes a cabinet past the members of its plan. *)
AcceptKeepsPlan ==
  [][\A r \in Requests : Admits(r) =>
       Cardinality(MembersOf(req[r].cabinet)') <= MaxMembers]_vars

(* A token that was cancelled, replaced by a second invitation, or used by *)
(* an acceptance that did not die halfway, admits nobody: who was removed  *)
(* cannot come back with the invitation they had used.                     *)
TokensAreSpent ==
  [][\A r \in Requests : Admits(r) =>
       req[r].invite.token \notin withdrawn \cup admitted]_vars
=============================================================================
