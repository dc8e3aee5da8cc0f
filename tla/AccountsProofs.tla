---------------------------- MODULE AccountsProofs --------------------------
(***************************************************************************)
(* Proofs about accounts, their tokens and the demands that guests have    *)
(* reported, and about the neighborhoods users save, for any number of     *)
(* users, requests at a time and links.                                    *)
(***************************************************************************)
EXTENDS MCAccounts, FiniteSetTheorems, WellFoundedInduction, TLAPS

(* A request that has reached a step carries what that step uses.          *)
Formed(q) ==
  /\ q \in Request
  /\ q.step = "idle" => q = NoRequest
  /\ q.step = "create" => q.user = NONE
  /\ q.step \notin {"idle", "create"} => q.user \in Users
  /\ q.step \in {"create", "claim"} =>
       q.op \in {"register", "createAdminUser", "google"} /\ q.email \in Emails
  /\ q.step = "link" => q.op = "google" /\ q.email \in Emails
  /\ q.step = "user" => q.op = "refresh"
  /\ q.step = "mail" \/ (q.step = "token" /\ q.jwt = NONE) =>
       q.op \in {"register", "forgot", "requestChange"}
  /\ q.step \in {"apply", "delete"} => q.op \in {"verify", "reset", "confirm"}
  /\ q.jwt # NONE => q.step = "token"

(* Who has verified an address or come through Google. *)
Entered(u) == user[u].isVerified \/ user[u].google # NONE

UsersInv ==
  /\ user \in [Users -> User] /\ request \in [Slots -> Request]
  /\ \A u \in Users : user[u].row = "absent" => user[u] = NoUser
  /\ \A s \in Slots :
       /\ Formed(request[s])
       /\ request[s].user # NONE => user[request[s].user].row # "absent"
       /\ \/ request[s].jwt # NONE \/ request[s].op = "refresh"
          \/ request[s].op = "google" /\ request[s].step = "claim"
          => Entered(request[s].user)
  /\ \A u \in Users : token[<<u, "REFRESH_TOKEN">>].id # 0 => Entered(u)
  /\ \A ut \in Users \X Types : token[ut].id # 0 => user[ut[1]].row # "absent"

(* The id of a token is its own, and a request that has one has that of a  *)
(* link of its user.                                                       *)
TokensInv ==
  /\ token \in [Users \X Types -> Token]
  /\ ids \in Nat /\ uses \in Seq(Nat) /\ Len(uses) = ids
  /\ \A u \in Users : \A type \in Links : token[<<u, type>>].payload \in Passwords \cup {NONE}
  /\ \A ut \in Users \X Types : token[ut].id <= ids
  /\ \A ut \in Users \X Types : \A vt \in Users \X Types :
       token[ut].id # 0 /\ token[ut].id = token[vt].id => ut = vt
  /\ \A s \in Slots : request[s].step \in {"mail", "apply", "delete"} =>
       /\ request[s].id \in 1..ids
       /\ \A ut \in Users \X Types :
            token[ut].id = request[s].id => ut = <<request[s].user, LinkOf(request[s].op)>>

SessionInv ==
  /\ now \in 0..MaxTime /\ started \in 0..MaxRequests
  /\ signed \subseteq Jwt /\ held \in [Users -> Jwt \cup {NONE}]
  /\ \A u \in Users : held[u] # NONE => token[<<u, "REFRESH_TOKEN">>].payload = held[u]

(* Requests about a user that is not in crossed come one at a time. *)
SoloInv ==
  /\ crossed \subseteq Users
  /\ \A u \in Users \ crossed : \A s \in Slots : \A t \in Slots :
       request[s].user = u /\ request[t].user = u => s = t

LinkInv ==
  /\ link \in [Users \X Links -> Nat]
  /\ \A u \in Users \ crossed : \A type \in Links :
       link[<<u, type>>] # 0 => token[<<u, type>>].id = link[<<u, type>>]
  /\ \A s \in Slots : request[s].user \notin crossed =>
       /\ request[s].step = "mail" =>
            token[<<request[s].user, LinkOf(request[s].op)>>].id = request[s].id
       /\ request[s].step \in {"apply", "delete"} =>
            link[<<request[s].user, LinkOf(request[s].op)>>] = 0

UsedInv ==
  \A u \in Users \ crossed : \A type \in Links :
    token[<<u, type>>].id # 0 /\ uses[token[<<u, type>>].id] > 0 =>
      \E s \in Slots : request[s].step = "delete" /\ request[s].id = token[<<u, type>>].id

(* What a claim is to bring home is still there or already claimed.        *)
ClaimInv ==
  /\ demand \in [Demands -> [guestEmail : Emails \cup {NONE}, reporter : Users \cup {NONE}]]
  /\ before \in [Users -> SUBSET Demands] /\ unclaimed \subseteq Users
  /\ \A s \in Slots : request[s].step = "claim" =>
       \A d \in before[request[s].user] :
         demand[d].reporter # NONE \/ d \in Claimable(request[s].email)

AccountsInv ==
  UsersInv /\ TokensInv /\ SessionInv /\ SoloInv /\ LinkInv /\ UsedInv /\ ClaimInv

-----------------------------------------------------------------------------
LEMMA NoRequestFields ==
  /\ NoRequest \in Request /\ Formed(NoRequest)
  /\ NoRequest.op = "none" /\ NoRequest.step = "idle" /\ NoRequest.user = NONE
  /\ NoRequest.jwt = NONE /\ NoRequest.id = 0
  BY DEF NoRequest, Request, Formed

LEMMA AccountsInitial == AccountsInit => AccountsInv /\ GuestDemandsComeHome
<1> SUFFICES ASSUME AccountsInit PROVE AccountsInv /\ GuestDemandsComeHome
  OBVIOUS
<1>. USE AccountsAssumption
<1>1. /\ \A u \in Users : user[u] = NoUser
      /\ \A ut \in Users \X Types : token[ut] = NoToken
      /\ \A s \in Slots : request[s] = NoRequest
      /\ \A ut \in Users \X Links : link[ut] = 0
  BY DEF AccountsInit
<1>2. UsersInv
  <2>1. NoUser \in User
    BY DEF NoUser, User
  <2>2. \A u \in Users : <<u, "REFRESH_TOKEN">> \in Users \X Types
    BY DEF Types
  <2>. QED
    BY <1>1, <2>1, <2>2, NoRequestFields DEF AccountsInit, UsersInv, NoToken
<1>3. TokensInv
  <2>1. \A u \in Users : \A type \in Links : token[<<u, type>>] = NoToken
    BY <1>1 DEF Types
  <2>. QED
    BY <1>1, <2>1, NoRequestFields DEF AccountsInit, TokensInv, NoToken, Token
<1>4. SessionInv
  BY DEF AccountsInit, SessionInv
<1>5. SoloInv
  BY <1>1, NoRequestFields DEF AccountsInit, SoloInv
<1>6. LinkInv
  BY <1>1, NoRequestFields DEF AccountsInit, LinkInv
<1>7. UsedInv
  <2>1. \A u \in Users : \A type \in Links : token[<<u, type>>] = NoToken
    BY <1>1 DEF Types
  <2>. QED
    BY <2>1 DEF UsedInv, NoToken
<1>8. ClaimInv
  BY <1>1, NoRequestFields DEF AccountsInit, ClaimInv
<1>9. GuestDemandsComeHome
  BY <1>1 DEF AccountsInit, GuestDemandsComeHome
<1> QED
  BY <1>2, <1>3, <1>4, <1>5, <1>6, <1>7, <1>8, <1>9 DEF AccountsInv

-----------------------------------------------------------------------------
(* A request that begins, about the user it has found if any. *)
Begun(s, r) ==
  /\ request[s] = NoRequest /\ request' = [request EXCEPT ![s] = r]
  /\ Formed(r) /\ r.step \in {"create", "token", "link", "user", "apply"}
  /\ r.user # NONE => user[r.user].row # "absent"
  /\ r.jwt # NONE \/ r.op = "refresh" => Entered(r.user)
  /\ r.step = "apply" => r.id # 0 /\ token[<<r.user, LinkOf(r.op)>>].id = r.id
  /\ link' = IF r.step = "apply" THEN [link EXCEPT ![<<r.user, LinkOf(r.op)>>] = 0] ELSE link
  /\ crossed' = IF r.user # NONE /\ \E o \in Slots \ {s} : request[o].user = r.user
                THEN crossed \cup {r.user} ELSE crossed
  /\ started' \in 0..MaxRequests
  /\ UNCHANGED <<now, user, token, ids, uses, demand, signed, held, before, unclaimed>>

LEMMA SignType ==
  ASSUME SessionInv, NEW u \in Users
  PROVE  Sign(u) \in Jwt /\ Sign(u) # NONE
BY AccountsAssumption DEF SessionInv, Sign, Jwt

(* A user that a request finds with a link or a session is there. *)
LEMMA HoldersExist ==
  ASSUME UsersInv, NEW u \in Users, Entered(u)
  PROVE  user[u].row # "absent"
BY DEF UsersInv, Entered, NoUser

LEMMA CreateBegins ==
  ASSUME UsersInv, SessionInv, NEW s \in Slots, NEW op \in {"register", "createAdminUser", "google"},
         NEW e \in Emails, NEW p \in Passwords, StartCreate(s, op, e, p)
  PROVE  \E r : Begun(s, r)
<1>. DEFINE r == [NoRequest EXCEPT !.op = op, !.step = "create", !.email = e, !.password = p]
<1>1. /\ r \in Request /\ r.op = op /\ r.step = "create" /\ r.user = NONE /\ r.jwt = NONE
      /\ r.email = e
  BY DEF NoRequest, Request
<1>2. /\ request[s] = NoRequest /\ request' = [request EXCEPT ![s] = r]
      /\ started < MaxRequests /\ started' = started + 1
      /\ UNCHANGED <<now, user, demand, crossed, token, ids, uses, signed, held, link, before,
                     unclaimed>>
  BY DEF StartCreate, Begin, Counted, TokensKept, HistoryKept
<1>3. started' \in 0..MaxRequests
  BY <1>2, AccountsAssumption DEF SessionInv
<1>. HIDE DEF r
<1>4. Formed(r)
  BY <1>1 DEF Formed
<1>5. Begun(s, r)
  BY <1>1, <1>2, <1>3, <1>4 DEF Begun
<1> QED
  BY <1>5

(* A request about a user that starts with a look at its row. *)
LEMMA UserBegins ==
  ASSUME SessionInv, NEW s \in Slots, NEW u \in Users, NEW r \in Request, r.user = u, Formed(r),
         r.step \in {"token", "link", "user"}, r.jwt # NONE \/ r.op = "refresh" => Entered(u),
         user[u].row # "absent", Begin(s, r), About(s, u),
         UNCHANGED <<now, user, demand>>, TokensKept, HistoryKept
  PROVE  Begun(s, r)
<1>1. started' \in 0..MaxRequests
  BY AccountsAssumption DEF Begin, Counted, SessionInv
<1>2. u # NONE
  BY AccountsAssumption
<1>3. crossed' = IF r.user # NONE /\ \E o \in Slots \ {s} : request[o].user = r.user
                 THEN crossed \cup {r.user} ELSE crossed
  BY <1>2 DEF About
<1> QED
  BY <1>1, <1>3 DEF Begun, Begin, TokensKept, HistoryKept

LEMMA LoginBegins ==
  ASSUME UsersInv, SessionInv, NEW s \in Slots, NEW e \in Emails, NEW p \in Passwords,
         Login(s, e, p)
  PROVE  \E r : Begun(s, r)
<1>1. PICK u \in WithEmail(e) :
        /\ user[u].isVerified
        /\ Begin(s, [NoRequest EXCEPT !.op = "login", !.step = "token", !.user = u, !.jwt = Sign(u)])
        /\ About(s, u) /\ UNCHANGED <<now, user, demand>> /\ TokensKept /\ HistoryKept
  BY DEF Login
<1>. DEFINE r == [NoRequest EXCEPT !.op = "login", !.step = "token", !.user = u, !.jwt = Sign(u)]
<1>2. u \in Users /\ user[u].row = "enabled" /\ Entered(u)
  BY <1>1 DEF WithEmail, Entered
<1>3. /\ r \in Request /\ r.op = "login" /\ r.step = "token" /\ r.user = u /\ r.jwt = Sign(u)
      /\ Sign(u) # NONE
  BY <1>2, SignType DEF NoRequest, Request
<1>. HIDE DEF r
<1>4. Formed(r)
  BY <1>2, <1>3 DEF Formed
<1>5. Begin(s, r)
  BY <1>1 DEF r
<1>6. Begun(s, r)
  BY <1>1, <1>2, <1>3, <1>4, <1>5, UserBegins
<1> QED
  BY <1>6

LEMMA GoogleBegins ==
  ASSUME UsersInv, SessionInv, NEW s \in Slots, NEW e \in Emails, GoogleLogin(s, e)
  PROVE  \E r : Begun(s, r)
<1>1. CASE \E u \in WithGoogle(e) :
             /\ Begin(s, [NoRequest EXCEPT !.op = "google", !.step = "token", !.user = u,
                                           !.jwt = Sign(u)])
             /\ About(s, u) /\ UNCHANGED <<now, user, demand>> /\ TokensKept /\ HistoryKept
  <2>1. PICK u \in WithGoogle(e) :
             /\ Begin(s, [NoRequest EXCEPT !.op = "google", !.step = "token", !.user = u,
                                           !.jwt = Sign(u)])
             /\ About(s, u) /\ UNCHANGED <<now, user, demand>> /\ TokensKept /\ HistoryKept
    BY <1>1
  <2>. DEFINE r == [NoRequest EXCEPT !.op = "google", !.step = "token", !.user = u, !.jwt = Sign(u)]
  <2>2. u \in Users /\ user[u].row # "absent" /\ Entered(u)
    BY <2>1, AccountsAssumption DEF WithGoogle, Entered
  <2>3. /\ r \in Request /\ r.op = "google" /\ r.step = "token" /\ r.user = u /\ r.jwt = Sign(u)
        /\ Sign(u) # NONE
    BY <2>2, SignType DEF NoRequest, Request
  <2>. HIDE DEF r
  <2>4. Formed(r)
    BY <2>2, <2>3 DEF Formed
  <2>5. Begin(s, r)
    BY <2>1 DEF r
  <2>6. Begun(s, r)
    BY <2>1, <2>2, <2>3, <2>4, <2>5, UserBegins
  <2>. QED
    BY <2>6
<1>2. CASE \E u \in WithEmail(e) :
             /\ Begin(s, [NoRequest EXCEPT !.op = "google", !.step = "link", !.user = u, !.email = e])
             /\ About(s, u) /\ UNCHANGED <<now, user, demand>> /\ TokensKept /\ HistoryKept
  <2>1. PICK u \in WithEmail(e) :
             /\ Begin(s, [NoRequest EXCEPT !.op = "google", !.step = "link", !.user = u, !.email = e])
             /\ About(s, u) /\ UNCHANGED <<now, user, demand>> /\ TokensKept /\ HistoryKept
    BY <1>2
  <2>. DEFINE r == [NoRequest EXCEPT !.op = "google", !.step = "link", !.user = u, !.email = e]
  <2>2. u \in Users /\ user[u].row # "absent"
    BY <2>1 DEF WithEmail
  <2>3. /\ r \in Request /\ r.op = "google" /\ r.step = "link" /\ r.user = u /\ r.jwt = NONE
        /\ r.email = e
    BY <2>2 DEF NoRequest, Request
  <2>. HIDE DEF r
  <2>4. Formed(r)
    BY <2>2, <2>3 DEF Formed
  <2>5. Begin(s, r)
    BY <2>1 DEF r
  <2>6. Begun(s, r)
    BY <2>1, <2>2, <2>3, <2>4, <2>5, UserBegins
  <2>. QED
    BY <2>6
<1>3. CASE \E p \in Passwords : StartCreate(s, "google", e, p)
  BY <1>3, CreateBegins
<1> QED
  BY <1>1, <1>2, <1>3 DEF GoogleLogin

LEMMA RefreshBegins ==
  ASSUME UsersInv, SessionInv, NEW s \in Slots, NEW jwt \in signed, Refresh(s, jwt)
  PROVE  \E r : Begun(s, r)
<1>. DEFINE u == jwt.sub
            r == [NoRequest EXCEPT !.op = "refresh", !.step = "user", !.user = u]
<1>1. u \in Users
  BY DEF SessionInv, Jwt
<1>2. token[<<u, "REFRESH_TOKEN">>].id # 0
  BY DEF Refresh, Valid
<1>3. Entered(u)
  BY <1>1, <1>2 DEF UsersInv
<1>4. user[u].row # "absent"
  BY <1>1, <1>3, HoldersExist
<1>5. r \in Request /\ r.op = "refresh" /\ r.step = "user" /\ r.user = u /\ r.jwt = NONE
  BY <1>1 DEF NoRequest, Request
<1>6. /\ Begin(s, r) /\ About(s, u) /\ UNCHANGED <<now, user, demand>> /\ TokensKept /\ HistoryKept
  BY DEF Refresh
<1>. HIDE DEF r, u
<1>7. Formed(r)
  BY <1>1, <1>5 DEF Formed
<1>8. Begun(s, r)
  BY <1>1, <1>3, <1>4, <1>5, <1>6, <1>7, UserBegins
<1> QED
  BY <1>8

LEMMA AskingBegins ==
  ASSUME UsersInv, SessionInv, NEW s \in Slots,
         \/ \E e \in Emails : ForgotPassword(s, e)
         \/ \E u \in Users : \E current \in Passwords : \E new \in Passwords :
              RequestPasswordChange(s, u, current, new)
  PROVE  \E r : Begun(s, r)
<1>1. ASSUME NEW u \in Users, user[u].row = "enabled", NEW r \in Request,
             r.op \in {"forgot", "requestChange"}, r.step = "token", r.user = u, r.jwt = NONE,
             Begin(s, r), About(s, u), UNCHANGED <<now, user, demand>>, TokensKept, HistoryKept
      PROVE  \E q : Begun(s, q)
  <2>1. Formed(r) /\ user[u].row # "absent"
    BY <1>1 DEF Formed
  <2>2. Begun(s, r)
    BY <1>1, <2>1, UserBegins
  <2>. QED
    BY <2>2
<1>2. ASSUME NEW e \in Emails, ForgotPassword(s, e) PROVE \E r : Begun(s, r)
  <2>1. PICK u \in WithEmail(e) :
          /\ Begin(s, [NoRequest EXCEPT !.op = "forgot", !.step = "token", !.user = u])
          /\ About(s, u) /\ UNCHANGED <<now, user, demand>> /\ TokensKept /\ HistoryKept
    BY <1>2 DEF ForgotPassword
  <2>. DEFINE r == [NoRequest EXCEPT !.op = "forgot", !.step = "token", !.user = u]
  <2>2. u \in Users /\ user[u].row = "enabled"
    BY <2>1 DEF WithEmail
  <2>3. r \in Request /\ r.op = "forgot" /\ r.step = "token" /\ r.user = u /\ r.jwt = NONE
    BY <2>2 DEF NoRequest, Request
  <2>4. Begin(s, r)
    BY <2>1
  <2>. HIDE DEF r
  <2>. QED
    BY <1>1, <2>1, <2>2, <2>3, <2>4
<1>3. ASSUME NEW u \in Users, NEW current \in Passwords, NEW new \in Passwords,
             RequestPasswordChange(s, u, current, new)
      PROVE  \E r : Begun(s, r)
  <2>. DEFINE r == [NoRequest EXCEPT !.op = "requestChange", !.step = "token", !.user = u,
                                     !.password = new]
  <2>1. /\ Begin(s, r) /\ About(s, u) /\ UNCHANGED <<now, user, demand>>
        /\ TokensKept /\ HistoryKept /\ user[u].row = "enabled"
    BY <1>3 DEF RequestPasswordChange, Enabled
  <2>2. r \in Request /\ r.op = "requestChange" /\ r.step = "token" /\ r.user = u /\ r.jwt = NONE
    BY DEF NoRequest, Request
  <2>. HIDE DEF r
  <2>. QED
    BY <1>1, <2>1, <2>2
<1> QED
  BY <1>2, <1>3

LEMMA FollowBegins ==
  ASSUME UsersInv, TokensInv, SessionInv, NEW s \in Slots, NEW op \in {"verify", "reset", "confirm"},
         NEW u \in Users, NEW p \in Passwords, FollowLink(s, op, u, p)
  PROVE  \E r : Begun(s, r)
<1>. DEFINE password == CASE op = "verify" -> NONE
                          [] op = "reset" -> p
                          [] op = "confirm" -> token[<<u, LinkOf(op)>>].payload
            r == [NoRequest EXCEPT !.op = op, !.step = "apply", !.user = u,
                                   !.id = token[<<u, LinkOf(op)>>].id, !.password = password]
<1>1. LinkOf(op) \in Links
  BY DEF LinkOf, Links
<1>2. <<u, LinkOf(op)>> \in Users \X Types /\ token[<<u, LinkOf(op)>>] \in Token
  BY <1>1 DEF TokensInv, Types
<1>3. token[<<u, LinkOf(op)>>].id \in Nat /\ token[<<u, LinkOf(op)>>].id # 0
  BY <1>2 DEF FollowLink, Valid, Token
<1>4. password \in Passwords \cup {NONE}
  BY <1>1 DEF TokensInv
<1>5. /\ request[s] = NoRequest /\ request' = [request EXCEPT ![s] = r]
      /\ started < MaxRequests /\ started' = started + 1 /\ About(s, u)
      /\ link' = [link EXCEPT ![<<u, LinkOf(op)>>] = 0]
      /\ UNCHANGED <<now, user, demand, signed, held, before, unclaimed, token, ids, uses>>
  BY DEF FollowLink, Begin, Counted, TokensKept
<1>. HIDE DEF password
<1>6. /\ r \in Request /\ r.op = op /\ r.step = "apply" /\ r.user = u /\ r.jwt = NONE
      /\ r.id = token[<<u, LinkOf(op)>>].id
  BY <1>3, <1>4 DEF NoRequest, Request
<1>. HIDE DEF r
<1>7. Formed(r)
  BY <1>6 DEF Formed
<1>8. user[u].row # "absent"
  BY <1>2, <1>3 DEF UsersInv
<1>9. started' \in 0..MaxRequests /\ u # NONE
  BY <1>5, AccountsAssumption DEF SessionInv
<1>10. Begun(s, r)
  BY <1>3, <1>5, <1>6, <1>7, <1>8, <1>9 DEF Begun, About
<1> QED
  BY <1>10

Begins ==
  \/ \E s \in Slots, e \in Emails, p \in Passwords :
       \/ StartCreate(s, "register", e, p) \/ StartCreate(s, "createAdminUser", e, p)
       \/ Login(s, e, p)
  \/ \E s \in Slots, e \in Emails : GoogleLogin(s, e) \/ ForgotPassword(s, e)
  \/ \E s \in Slots, jwt \in signed : Refresh(s, jwt)
  \/ \E s \in Slots, u \in Users, current, new \in Passwords :
       RequestPasswordChange(s, u, current, new)
  \/ \E s \in Slots, op \in {"verify", "reset", "confirm"}, u \in Users, p \in Passwords :
       FollowLink(s, op, u, p)

LEMMA Beginnings ==
  ASSUME UsersInv, TokensInv, SessionInv, Begins
  PROVE  \E s \in Slots : \E r : Begun(s, r)
<1>1. ASSUME NEW s \in Slots, NEW e \in Emails, NEW p \in Passwords,
             \/ StartCreate(s, "register", e, p) \/ StartCreate(s, "createAdminUser", e, p)
             \/ Login(s, e, p)
      PROVE  \E r : Begun(s, r)
  BY <1>1, CreateBegins, LoginBegins
<1>2. ASSUME NEW s \in Slots, NEW e \in Emails, GoogleLogin(s, e) \/ ForgotPassword(s, e)
      PROVE  \E r : Begun(s, r)
  BY <1>2, GoogleBegins, AskingBegins
<1>3. ASSUME NEW s \in Slots, NEW jwt \in signed, Refresh(s, jwt) PROVE \E r : Begun(s, r)
  BY <1>3, RefreshBegins
<1>4. ASSUME NEW s \in Slots, NEW u \in Users, NEW current \in Passwords, NEW new \in Passwords,
             RequestPasswordChange(s, u, current, new)
      PROVE  \E r : Begun(s, r)
  BY <1>4, AskingBegins
<1>5. ASSUME NEW s \in Slots, NEW op \in {"verify", "reset", "confirm"}, NEW u \in Users,
             NEW p \in Passwords, FollowLink(s, op, u, p)
      PROVE  \E r : Begun(s, r)
  BY <1>5, FollowBegins
<1> QED
  BY <1>1, <1>2, <1>3, <1>4, <1>5 DEF Begins

LEMMA LinkTypes ==
  ASSUME NEW q, Formed(q),
         q.step \in {"mail", "apply", "delete"} \/ (q.step = "token" /\ q.jwt = NONE)
  PROVE  LinkOf(q.op) \in Links
BY DEF Formed, LinkOf, Links

LEMMA BegunKeeps ==
  ASSUME AccountsInv, NEW s \in Slots, NEW r, Begun(s, r)
  PROVE  AccountsInv' /\ (GuestDemandsComeHome => GuestDemandsComeHome')
<1>. USE AccountsAssumption
<1>1. /\ request[s] = NoRequest /\ request' = [request EXCEPT ![s] = r] /\ Formed(r)
      /\ r.step \in {"create", "token", "link", "user", "apply"}
      /\ request \in [Slots -> Request]
      /\ UNCHANGED <<now, user, token, ids, uses, demand, signed, held, before, unclaimed>>
  BY DEF Begun, AccountsInv, UsersInv
<1>2. /\ request'[s] = r /\ \A t \in Slots : t # s => request'[t] = request[t]
      /\ request' \in [Slots -> Request]
  BY <1>1 DEF Formed
<1>3. request[s].step = "idle" /\ request[s].user = NONE
  BY <1>1, NoRequestFields
<1>4. /\ crossed \subseteq crossed' /\ crossed' \subseteq Users
      /\ r.user # NONE => r.user \in Users
  BY <1>1 DEF Begun, AccountsInv, SoloInv, Formed, Request
<1>5. UsersInv'
  <2>1. \A t \in Slots : Formed(request'[t])
    BY <1>1, <1>2 DEF AccountsInv, UsersInv
  <2>2. \A t \in Slots :
          /\ request'[t].user # NONE => user'[request'[t].user].row # "absent"
          /\ \/ request'[t].jwt # NONE \/ request'[t].op = "refresh"
             \/ request'[t].op = "google" /\ request'[t].step = "claim"
             => user'[request'[t].user].isVerified \/ user'[request'[t].user].google # NONE
    BY <1>1, <1>2 DEF AccountsInv, UsersInv, Entered, Begun
  <2>. QED
    BY <1>1, <1>2, <2>1, <2>2 DEF AccountsInv, UsersInv, Entered
<1>6. TokensInv'
  <2>1. r.step = "apply" => LinkOf(r.op) \in Links
    BY <1>1, LinkTypes
  <2>2. ASSUME r.step = "apply"
        PROVE  /\ r.id \in 1..ids
               /\ \A ut \in Users \X Types : token[ut].id = r.id => ut = <<r.user, LinkOf(r.op)>>
    <3>1. <<r.user, LinkOf(r.op)>> \in Users \X Types
      BY <1>1, <2>1, <2>2 DEF Formed, Types
    <3>2. token[<<r.user, LinkOf(r.op)>>].id = r.id /\ r.id # 0
      BY <2>2 DEF Begun
    <3>3. token[<<r.user, LinkOf(r.op)>>] \in Token
      BY <3>1 DEF AccountsInv, TokensInv
    <3>. QED
      BY <3>1, <3>2, <3>3 DEF AccountsInv, TokensInv, Token
  <2>. QED
    BY <1>1, <1>2, <2>2 DEF AccountsInv, TokensInv
<1>7. SessionInv'
  BY <1>1 DEF Begun, AccountsInv, SessionInv
<1>8. SoloInv'
  <2> SUFFICES ASSUME NEW u \in Users, u \notin crossed', NEW t1 \in Slots, NEW t2 \in Slots,
                      request'[t1].user = u, request'[t2].user = u
               PROVE  t1 = t2
    BY <1>4 DEF SoloInv
  <2>1. u \notin crossed
    BY <1>4
  <2>2. CASE t1 # s /\ t2 # s
    BY <1>2, <2>1, <2>2 DEF AccountsInv, SoloInv
  <2>3. ASSUME r.user = u, NEW o \in Slots, o # s, request[o].user = u PROVE FALSE
    BY <2>3 DEF Begun
  <2>. QED
    BY <1>2, <2>2, <2>3
<1>9. LinkInv'
  <2>1. r.step = "apply" => /\ <<r.user, LinkOf(r.op)>> \in Users \X Links
                            /\ link' = [link EXCEPT ![<<r.user, LinkOf(r.op)>>] = 0]
    BY <1>1, LinkTypes DEF Begun, Formed
  <2>2. r.step # "apply" => link' = link
    BY DEF Begun
  <2>3. link \in [Users \X Links -> Nat]
    BY DEF AccountsInv, LinkInv
  <2>4. link' \in [Users \X Links -> Nat] /\ \A ul \in Users \X Links : link'[ul] \in {0, link[ul]}
    BY <2>1, <2>2, <2>3
  <2>5. r.step = "apply" => link'[<<r.user, LinkOf(r.op)>>] = 0
    BY <2>1, <2>3
  <2>6. \A u \in Users \ crossed' : \A type \in Links :
          link'[<<u, type>>] # 0 => token'[<<u, type>>].id = link'[<<u, type>>]
    BY <1>1, <1>4, <2>4 DEF AccountsInv, LinkInv
  <2>7. ASSUME NEW t \in Slots, request'[t].user \notin crossed'
        PROVE  /\ request'[t].step = "mail" =>
                    token'[<<request'[t].user, LinkOf(request'[t].op)>>].id = request'[t].id
               /\ request'[t].step \in {"apply", "delete"} =>
                    link'[<<request'[t].user, LinkOf(request'[t].op)>>] = 0
    <3>1. CASE t = s
      BY <1>1, <1>2, <2>5, <3>1
    <3>2. CASE t # s
      <4>1. request'[t] = request[t] /\ request[t].user \notin crossed /\ Formed(request[t])
        BY <1>2, <1>4, <2>7, <3>2 DEF AccountsInv, UsersInv
      <4>2. request[t].step \in {"apply", "delete"} =>
              <<request[t].user, LinkOf(request[t].op)>> \in Users \X Links
        BY <4>1, LinkTypes DEF Formed
      <4>. QED
        BY <1>1, <2>4, <4>1, <4>2 DEF AccountsInv, LinkInv
    <3>. QED
      BY <3>1, <3>2
  <2>. QED
    BY <2>4, <2>6, <2>7 DEF LinkInv
<1>10. UsedInv'
  BY <1>1, <1>2, <1>3, <1>4 DEF AccountsInv, UsedInv
<1>11. ClaimInv'
  BY <1>1, <1>2 DEF AccountsInv, ClaimInv, Claimable
<1>12. GuestDemandsComeHome => GuestDemandsComeHome'
  BY <1>1, <1>2, <1>3 DEF GuestDemandsComeHome
<1> QED
  BY <1>5, <1>6, <1>7, <1>8, <1>9, <1>10, <1>11, <1>12 DEF AccountsInv

-----------------------------------------------------------------------------
(* A request that goes on to the token of its user, or ends. *)
Passed(s, q) ==
  /\ request' \in [Slots -> Request] /\ request'[s] = q
  /\ \A t \in Slots : t # s => request'[t] = request[t]
  /\ Formed(q) /\ q.step \in {"idle", "token"} /\ q.user \in {request[s].user, NONE}

LEMMA PassedKeeps ==
  ASSUME AccountsInv, NEW s \in Slots, NEW q, Passed(s, q), request[s].step # "delete",
         UNCHANGED <<now, token, ids, uses, link, crossed, held, signed, started>>
  PROVE  TokensInv' /\ SessionInv' /\ SoloInv' /\ LinkInv' /\ UsedInv'
<1>1. TokensInv'
  BY DEF AccountsInv, TokensInv, Passed
<1>2. SessionInv'
  BY DEF AccountsInv, SessionInv
<1>3. SoloInv'
  BY AccountsAssumption DEF AccountsInv, SoloInv, Passed
<1>4. LinkInv'
  BY DEF AccountsInv, LinkInv, Passed
<1>5. UsedInv'
  BY DEF AccountsInv, UsedInv, Passed
<1> QED
  BY <1>1, <1>2, <1>3, <1>4, <1>5

(* Whose token of a type there may be. *)
MayHave(ut) == user[ut[1]].row # "absent" /\ (ut[2] = "REFRESH_TOKEN" => Entered(ut[1]))

(* The rows of users when nobody is created. *)
LEMMA UsersKept ==
  ASSUME AccountsInv, user' \in [Users -> User], request' \in [Slots -> Request],
         \A u \in Users : /\ user'[u].row = "absent" <=> user[u].row = "absent"
                          /\ user'[u].row = "absent" => user'[u] = user[u],
         \A u \in Users : Entered(u) => user'[u].isVerified \/ user'[u].google # NONE,
         \A t \in Slots :
           request'[t] # request[t] =>
             /\ Formed(request'[t]) /\ request'[t].user \in {request[t].user, NONE}
             /\ \/ request'[t].jwt # NONE \/ request'[t].op = "refresh"
                \/ request'[t].op = "google" /\ request'[t].step = "claim"
                => user'[request'[t].user].isVerified \/ user'[request'[t].user].google # NONE,
         \A ut \in Users \X Types : token'[ut].id # 0 => token[ut].id # 0 \/ MayHave(ut)
  PROVE  UsersInv'
<1>. USE AccountsAssumption
<1>0. UsersInv
  BY DEF AccountsInv
<1>1. ASSUME NEW t \in Slots
      PROVE  /\ Formed(request'[t])
             /\ request'[t].user # NONE => user'[request'[t].user].row # "absent"
             /\ \/ request'[t].jwt # NONE \/ request'[t].op = "refresh"
                \/ request'[t].op = "google" /\ request'[t].step = "claim"
                => user'[request'[t].user].isVerified \/ user'[request'[t].user].google # NONE
  <2>1. /\ Formed(request[t]) /\ request[t] \in Request
        /\ request[t].user # NONE => user[request[t].user].row # "absent"
        /\ \/ request[t].jwt # NONE \/ request[t].op = "refresh"
           \/ request[t].op = "google" /\ request[t].step = "claim"
           => Entered(request[t].user)
    BY <1>0 DEF UsersInv
  <2>2. request[t].user \in Users \cup {NONE}
    BY <2>1 DEF Request
  <2>3. request'[t].user # NONE => user'[request'[t].user].row # "absent"
    BY <2>1, <2>2
  <2>4. CASE request'[t] = request[t]
    <3>1. \/ request[t].jwt # NONE \/ request[t].op = "refresh"
          \/ request[t].op = "google" /\ request[t].step = "claim"
          => request[t].user \in Users
      BY <2>1 DEF Formed, NoRequest
    <3>. QED
      BY <2>1, <2>3, <2>4, <3>1
  <2>5. CASE request'[t] # request[t]
    BY <2>3, <2>5
  <2>. QED
    BY <2>4, <2>5
<1>2. \A u \in Users : user'[u].row = "absent" => user'[u] = NoUser
  BY <1>0 DEF UsersInv
<1>3. ASSUME NEW u \in Users, token'[<<u, "REFRESH_TOKEN">>].id # 0
      PROVE  user'[u].isVerified \/ user'[u].google # NONE
  <2>1. <<u, "REFRESH_TOKEN">> \in Users \X Types
    BY DEF Types
  <2>2. token[<<u, "REFRESH_TOKEN">>].id # 0 \/ Entered(u)
    BY <1>3, <2>1 DEF MayHave
  <2>. QED
    BY <1>0, <2>2 DEF UsersInv
<1>4. ASSUME NEW ut \in Users \X Types, token'[ut].id # 0
      PROVE  user'[ut[1]].row # "absent"
  <2>1. ut[1] \in Users
    OBVIOUS
  <2>2. token[ut].id # 0 \/ MayHave(ut)
    BY <1>4
  <2>3. user[ut[1]].row # "absent"
    BY <1>0, <2>1, <2>2 DEF UsersInv, MayHave
  <2>. QED
    BY <2>1, <2>3
<1> QED
  BY <1>1, <1>2, <1>3, <1>4 DEF UsersInv, Entered

(* What follows a claim. *)
LEMMA AfterClaims ==
  ASSUME AccountsInv, NEW s \in Slots, request[s].step = "claim", request' = AfterClaim(s)
  PROVE  \E q : /\ Passed(s, q)
                /\ q.jwt # NONE => request[s].op = "google"
                /\ q.op \in {"register", "google", "none"} /\ q.step # "claim"
<1>. DEFINE u == request[s].user
<1>1. /\ Formed(request[s]) /\ request[s] \in Request /\ request \in [Slots -> Request]
      /\ request[s].op \in {"register", "createAdminUser", "google"} /\ u \in Users
      /\ request[s].jwt = NONE
  BY DEF AccountsInv, UsersInv, Formed
<1>2. CASE request[s].op = "register"
  <2>. DEFINE q == [request[s] EXCEPT !.step = "token"]
  <2>1. request' = [request EXCEPT ![s] = q]
    BY <1>2 DEF AfterClaim
  <2>2. q \in Request /\ q.step = "token" /\ q.user = u /\ q.jwt = NONE /\ q.op = "register"
    BY <1>1, <1>2 DEF Request
  <2>. HIDE DEF q
  <2>3. Formed(q)
    BY <1>1, <2>2 DEF Formed
  <2>4. Passed(s, q)
    BY <1>1, <2>1, <2>2, <2>3 DEF Passed
  <2>. QED
    BY <2>2, <2>4
<1>3. CASE request[s].op = "google"
  <2>. DEFINE q == [request[s] EXCEPT !.step = "token", !.jwt = Sign(u)]
  <2>1. request' = [request EXCEPT ![s] = q]
    BY <1>3 DEF AfterClaim
  <2>2. Sign(u) \in Jwt /\ Sign(u) # NONE
    BY <1>1, SignType DEF AccountsInv
  <2>3. q \in Request /\ q.step = "token" /\ q.user = u /\ q.jwt = Sign(u) /\ q.op = "google"
    BY <1>1, <1>3, <2>2 DEF Request
  <2>. HIDE DEF q
  <2>4. Formed(q)
    BY <1>1, <2>2, <2>3 DEF Formed
  <2>5. Passed(s, q)
    BY <1>1, <2>1, <2>3, <2>4 DEF Passed
  <2>. QED
    BY <1>3, <2>3, <2>5
<1>4. CASE request[s].op = "createAdminUser"
  <2>1. request' = [request EXCEPT ![s] = NoRequest]
    BY <1>4 DEF AfterClaim
  <2>2. Passed(s, NoRequest)
    BY <1>1, <2>1, NoRequestFields DEF Passed
  <2>. QED
    BY <2>2, NoRequestFields
<1> QED
  BY <1>1, <1>2, <1>3, <1>4

(* For an administrator the new user becomes verified. *)
LEMMA VerifiedUsers ==
  ASSUME AccountsInv, NEW s \in Slots, request[s].step = "claim", Verified(s)
  PROVE  /\ user' \in [Users -> User]
         /\ \A u \in Users : /\ user'[u].row = "absent" <=> user[u].row = "absent"
                             /\ user'[u].row = "absent" => user'[u] = user[u]
         /\ \A u \in Users : Entered(u) => user'[u].isVerified \/ user'[u].google # NONE
<1>1. /\ user \in [Users -> User] /\ request[s].user \in Users
      /\ request[s].user # NONE /\ user[request[s].user].row # "absent"
  BY AccountsAssumption DEF AccountsInv, UsersInv, Formed
<1>2. CASE request[s].op = "createAdminUser"
  <2>1. user' = [user EXCEPT ![request[s].user].isVerified = TRUE]
    BY <1>2 DEF Verified
  <2>. DEFINE row == user[request[s].user]
  <2>4. row \in User
    BY <1>1
  <2>2. [row EXCEPT !.isVerified = TRUE] \in User
    BY <2>4 DEF User
  <2>3. /\ user'[request[s].user].isVerified
        /\ user'[request[s].user].row = user[request[s].user].row
        /\ \A u \in Users : u # request[s].user => user'[u] = user[u]
        /\ user' \in [Users -> User]
    BY <1>1, <2>1, <2>2 DEF User
  <2>. QED
    BY <1>1, <2>3 DEF Entered
<1>3. CASE request[s].op # "createAdminUser"
  BY <1>1, <1>3 DEF Verified, Entered
<1> QED
  BY <1>2, <1>3

LEMMA ClaimStep ==
  ASSUME AccountsInv, NEW s \in Slots, ClaimGuestDemands(s) \/ ClaimFails(s)
  PROVE  AccountsInv' /\ (GuestDemandsComeHome => GuestDemandsComeHome')
<1>. USE AccountsAssumption
<1>1. /\ request[s].step = "claim" /\ Verified(s) /\ request' = AfterClaim(s)
      /\ UNCHANGED <<now, token, ids, uses, link, crossed, held, signed, started, before>>
  BY DEF ClaimGuestDemands, ClaimFails, TokensKept, HistoryKept
<1>2. PICK q : /\ Passed(s, q) /\ (q.jwt # NONE => request[s].op = "google")
               /\ q.op \in {"register", "google", "none"} /\ q.step # "claim"
  BY <1>1, AfterClaims
<1>3. /\ request' \in [Slots -> Request] /\ request'[s] = q
      /\ \A t \in Slots : t # s => request'[t] = request[t]
      /\ Formed(q) /\ q.user \in {request[s].user, NONE} /\ q.step # "claim"
  BY <1>2 DEF Passed
<1>4. /\ request[s].user \in Users /\ Formed(request[s]) /\ user[request[s].user].row # "absent"
      /\ request[s].op = "google" => Entered(request[s].user)
  BY <1>1 DEF AccountsInv, UsersInv, Formed
<1>5. UsersInv'
  <2>1. /\ user' \in [Users -> User]
        /\ \A u \in Users : /\ user'[u].row = "absent" <=> user[u].row = "absent"
                            /\ user'[u].row = "absent" => user'[u] = user[u]
        /\ \A u \in Users : Entered(u) => user'[u].isVerified \/ user'[u].google # NONE
    BY <1>1, VerifiedUsers
  <2>2. q.jwt # NONE => user'[q.user].isVerified \/ user'[q.user].google # NONE
    <3> SUFFICES ASSUME q.jwt # NONE PROVE user'[q.user].isVerified \/ user'[q.user].google # NONE
      OBVIOUS
    <3>1. q.step = "token" /\ q.user \in Users
      BY <1>3 DEF Formed
    <3>2. q.user = request[s].user
      BY <1>3, <3>1
    <3>. QED
      BY <1>2, <1>4, <2>1, <3>2
  <2>3. \A t \in Slots :
          request'[t] # request[t] =>
            /\ Formed(request'[t]) /\ request'[t].user \in {request[t].user, NONE}
            /\ \/ request'[t].jwt # NONE \/ request'[t].op = "refresh"
               \/ request'[t].op = "google" /\ request'[t].step = "claim"
               => user'[request'[t].user].isVerified \/ user'[request'[t].user].google # NONE
    BY <1>2, <1>3, <2>2
  <2>4. \A ut \in Users \X Types : token'[ut].id # 0 => token[ut].id # 0 \/ MayHave(ut)
    BY <1>1
  <2>. QED
    BY <1>3, <2>1, <2>3, <2>4, UsersKept
<1>6. TokensInv' /\ SessionInv' /\ SoloInv' /\ LinkInv' /\ UsedInv'
  BY <1>1, <1>2, PassedKeeps
<1>7. /\ demand' \in [Demands -> [guestEmail : Emails \cup {NONE}, reporter : Users \cup {NONE}]]
      /\ \A d \in Demands : demand'[d] # demand[d] => demand'[d].reporter # NONE
      /\ \/ /\ unclaimed' = unclaimed
            /\ \A d \in Claimable(request[s].email) : demand'[d].reporter # NONE
         \/ unclaimed' = unclaimed \cup {request[s].user}
  <2>1. CASE ClaimGuestDemands(s)
    <3>1. demand' = [d \in Demands |-> IF d \in Claimable(request[s].email)
                                       THEN [guestEmail |-> NONE, reporter |-> request[s].user]
                                       ELSE demand[d]]
      BY <2>1 DEF ClaimGuestDemands
    <3>2. unclaimed' = unclaimed
      BY <2>1 DEF ClaimGuestDemands, HistoryKept
    <3>3. demand \in [Demands -> [guestEmail : Emails \cup {NONE}, reporter : Users \cup {NONE}]]
      BY DEF AccountsInv, ClaimInv
    <3>4. Claimable(request[s].email) \subseteq Demands
      BY DEF Claimable
    <3>5. \A d \in Claimable(request[s].email) : demand'[d].reporter = request[s].user
      BY <3>1, <3>4
    <3>. QED
      BY <1>4, <3>1, <3>2, <3>3, <3>5
  <2>2. CASE ClaimFails(s)
    BY <2>2 DEF ClaimFails, AccountsInv, ClaimInv
  <2>. QED
    BY <2>1, <2>2
<1>8. ClaimInv'
  <2>1. \A t \in Slots : request'[t].step = "claim" => t # s /\ request'[t] = request[t]
    BY <1>3
  <2>2. \A t \in Slots : request[t].step = "claim" => request[t].user \in Users
    BY DEF AccountsInv, UsersInv, Formed
  <2>3. ASSUME NEW t \in Slots, request'[t].step = "claim", NEW d \in before[request[t].user],
               demand'[d].reporter = NONE
        PROVE  /\ demand'[d].guestEmail # NONE /\ d \in Demands
               /\ Mailbox[demand'[d].guestEmail] = Mailbox[request[t].email]
    BY <1>7, <2>1, <2>2, <2>3 DEF AccountsInv, ClaimInv, Claimable
  <2>. QED
    BY <1>1, <1>4, <1>7, <2>1, <2>3 DEF AccountsInv, ClaimInv, Claimable
<1>9. GuestDemandsComeHome => GuestDemandsComeHome'
  <2> SUFFICES ASSUME GuestDemandsComeHome, NEW u \in Users,
                      user'[u].row # "absent", u \notin unclaimed',
                      ~\E t \in Slots : request'[t].step = "claim" /\ request'[t].user = u,
                      NEW d \in before[u]
               PROVE  demand'[d].reporter # NONE
    BY <1>1 DEF GuestDemandsComeHome
  <2>1. user[u].row # "absent" /\ u \notin unclaimed /\ d \in Demands
    BY <1>1, <1>7, VerifiedUsers DEF AccountsInv, ClaimInv
  <2>2. CASE request[s].user = u
    <3>1. \A x \in Claimable(request[s].email) : demand'[x].reporter # NONE
      BY <1>7, <2>2
    <3>2. demand[d].reporter # NONE \/ d \in Claimable(request[s].email)
      BY <1>1, <2>2 DEF AccountsInv, ClaimInv
    <3>. QED
      BY <1>7, <2>1, <3>1, <3>2
  <2>3. CASE request[s].user # u
    <3>1. ~\E t \in Slots : request[t].step = "claim" /\ request[t].user = u
      BY <1>3, <2>3
    <3>2. demand[d].reporter # NONE
      BY <2>1, <3>1 DEF GuestDemandsComeHome
    <3>. QED
      BY <1>7, <2>1, <3>2
  <2>. QED
    BY <2>2, <2>3
<1> QED
  BY <1>5, <1>6, <1>8, <1>9 DEF AccountsInv

(* What is left of a claim when no demand changes. *)
LEMMA ClaimKept ==
  ASSUME AccountsInv, NEW s \in Slots, \A t \in Slots : t # s => request'[t] = request[t],
         request'[s].step # "claim", request[s].step = "claim" => request[s].user \in unclaimed',
         unclaimed' \subseteq Users, unclaimed \subseteq unclaimed', UNCHANGED <<demand, before>>,
         \A u \in Users : user'[u].row # "absent" => user[u].row # "absent"
  PROVE  ClaimInv' /\ (GuestDemandsComeHome => GuestDemandsComeHome')
<1>1. ClaimInv'
  <2>1. \A t \in Slots : request'[t].step = "claim" => t # s /\ request'[t] = request[t]
    OBVIOUS
  <2>2. \A t \in Slots : request'[t].step = "claim" =>
          /\ request[t].step = "claim"
          /\ \A d \in before[request[t].user] :
               demand[d].reporter # NONE \/ d \in Claimable(request[t].email)
    BY <2>1 DEF AccountsInv, ClaimInv
  <2>. QED
    BY <2>1, <2>2 DEF AccountsInv, ClaimInv, Claimable
<1>2. GuestDemandsComeHome => GuestDemandsComeHome'
  <2> SUFFICES ASSUME GuestDemandsComeHome, NEW u \in Users,
                      user'[u].row # "absent", u \notin unclaimed',
                      ~\E t \in Slots : request'[t].step = "claim" /\ request'[t].user = u,
                      NEW d \in before[u]
               PROVE  demand[d].reporter # NONE
    BY DEF GuestDemandsComeHome
  <2>1. ~\E t \in Slots : request[t].step = "claim" /\ request[t].user = u
    OBVIOUS
  <2>. QED
    BY <2>1 DEF GuestDemandsComeHome
<1> QED
  BY <1>1, <1>2

LEMMA PassStep ==
  ASSUME AccountsInv, NEW s \in Slots, LinkAccount(s) \/ SignAgain(s)
  PROVE  AccountsInv' /\ (GuestDemandsComeHome => GuestDemandsComeHome')
<1>. USE AccountsAssumption
<1>. DEFINE u == request[s].user
            old == request[s]
            q == [old EXCEPT !.step = "token", !.jwt = Sign(u)]
<1>1. /\ request' = [request EXCEPT ![s] = q]
      /\ \/ old.op = "google" /\ old.step = "link"
         \/ old.op = "refresh" /\ old.step = "user"
      /\ UNCHANGED <<now, token, ids, uses, link, crossed, held, signed, started, demand, before,
                     unclaimed>>
  <2>1. CASE LinkAccount(s)
    <3>1. request' = [request EXCEPT ![s] = q]
      BY <2>1 DEF LinkAccount
    <3>2. /\ old.op = "google" /\ old.step = "link"
          /\ UNCHANGED <<now, token, ids, uses, link, crossed, held, signed, started, demand,
                         before, unclaimed>>
      BY <2>1 DEF LinkAccount, Is, TokensKept, HistoryKept
    <3>. QED
      BY <3>1, <3>2
  <2>2. CASE SignAgain(s)
    BY <2>2 DEF SignAgain, Is, TokensKept, HistoryKept
  <2>. QED
    BY <2>1, <2>2
<1>2. /\ Formed(old) /\ old \in Request /\ u \in Users /\ user[u].row # "absent"
      /\ user \in [Users -> User] /\ request \in [Slots -> Request]
      /\ old.op = "refresh" => Entered(u)
  BY <1>1 DEF AccountsInv, UsersInv, Formed
<1>3. Sign(u) \in Jwt /\ Sign(u) # NONE
  BY <1>2, SignType DEF AccountsInv
<1>4. q \in Request /\ q.op = old.op /\ q.step = "token" /\ q.user = u /\ q.jwt = Sign(u)
  BY <1>2, <1>3 DEF Request
<1>5. /\ user' \in [Users -> User]
      /\ \A v \in Users : /\ user'[v].row = "absent" <=> user[v].row = "absent"
                          /\ user'[v].row = "absent" => user'[v] = user[v]
      /\ \A v \in Users : Entered(v) => user'[v].isVerified \/ user'[v].google # NONE
      /\ user'[u].isVerified \/ user'[u].google # NONE
  <2>1. CASE LinkAccount(s)
    <3>1. user' = [user EXCEPT ![u].google = old.email] /\ old.email \in Emails
      BY <1>2, <2>1 DEF LinkAccount, Is, Formed
    <3>. DEFINE row == user[u]
    <3>2. row \in User
      BY <1>2
    <3>3. [row EXCEPT !.google = old.email] \in User
      BY <3>1, <3>2 DEF User
    <3>4. /\ user'[u].google = old.email /\ user'[u].row = user[u].row
          /\ \A v \in Users : v # u => user'[v] = user[v]
          /\ user' \in [Users -> User]
      BY <1>2, <3>1, <3>3 DEF User
    <3>. QED
      BY <1>2, <3>1, <3>4 DEF Entered
  <2>2. CASE SignAgain(s)
    BY <1>2, <2>2 DEF SignAgain, Is, Entered
  <2>. QED
    BY <2>1, <2>2
<1>. HIDE DEF q
<1>6. Formed(q)
  BY <1>1, <1>2, <1>3, <1>4 DEF Formed
<1>7. Passed(s, q)
  BY <1>1, <1>2, <1>4, <1>6 DEF Passed
<1>8. UsersInv'
  <2>1. \A t \in Slots :
          request'[t] # request[t] =>
            /\ Formed(request'[t]) /\ request'[t].user \in {request[t].user, NONE}
            /\ \/ request'[t].jwt # NONE \/ request'[t].op = "refresh"
               \/ request'[t].op = "google" /\ request'[t].step = "claim"
               => user'[request'[t].user].isVerified \/ user'[request'[t].user].google # NONE
    BY <1>4, <1>5, <1>7 DEF Passed
  <2>2. \A ut \in Users \X Types : token'[ut].id # 0 => token[ut].id # 0 \/ MayHave(ut)
    BY <1>1
  <2>. QED
    BY <1>5, <1>7, <2>1, <2>2, UsersKept DEF Passed
<1>9. TokensInv' /\ SessionInv' /\ SoloInv' /\ LinkInv' /\ UsedInv'
  BY <1>1, <1>7, PassedKeeps
<1>10. ClaimInv' /\ (GuestDemandsComeHome => GuestDemandsComeHome')
  <2>1. /\ \A t \in Slots : t # s => request'[t] = request[t]
        /\ request'[s].step # "claim" /\ request[s].step # "claim"
    BY <1>1, <1>4, <1>7 DEF Passed
  <2>2. unclaimed' \subseteq Users /\ unclaimed \subseteq unclaimed'
    BY <1>1 DEF AccountsInv, ClaimInv
  <2>. QED
    BY <1>1, <1>5, <2>1, <2>2, ClaimKept
<1> QED
  BY <1>8, <1>9, <1>10 DEF AccountsInv

-----------------------------------------------------------------------------
(* Steps that no request takes. *)
LEMMA RequestsKept ==
  ASSUME AccountsInv, UNCHANGED <<token, ids, uses, request, link, crossed, held, signed>>,
         now' \in 0..MaxTime, started' \in 0..MaxRequests
  PROVE  TokensInv' /\ SessionInv' /\ SoloInv' /\ LinkInv' /\ UsedInv'
<1>1. TokensInv'
  BY DEF AccountsInv, TokensInv
<1>2. SessionInv'
  BY DEF AccountsInv, SessionInv
<1>3. SoloInv'
  BY DEF AccountsInv, SoloInv
<1>4. LinkInv'
  BY DEF AccountsInv, LinkInv
<1>5. UsedInv'
  BY DEF AccountsInv, UsedInv
<1> QED
  BY <1>1, <1>2, <1>3, <1>4, <1>5

LEMMA AdminStep ==
  ASSUME AccountsInv, NEW u \in Users,
         \/ DisableUser(u) \/ EnableUser(u)
         \/ \E e \in Emails : \E p \in Passwords : UpdateAdminUser(u, e, p)
  PROVE  AccountsInv' /\ (GuestDemandsComeHome => GuestDemandsComeHome')
<1>. USE AccountsAssumption
<1>. DEFINE row == user[u]
<1>1. user \in [Users -> User] /\ row \in User
  BY DEF AccountsInv, UsersInv
<1>2. ASSUME NEW r \in User, user' = [user EXCEPT ![u] = r], user[u].row # "absent",
             r.row # "absent", r.isVerified = row.isVerified, r.google = row.google, Counted,
             UNCHANGED <<now, demand, request, crossed>>, TokensKept, HistoryKept
      PROVE  AccountsInv' /\ (GuestDemandsComeHome => GuestDemandsComeHome')
  <2>1. /\ user' \in [Users -> User] /\ user'[u] = r
        /\ \A v \in Users : v # u => user'[v] = user[v]
    BY <1>1, <1>2
  <2>2. /\ UNCHANGED <<now, token, ids, uses, link, crossed, held, signed, request, demand, before,
                       unclaimed>>
        /\ started' \in 0..MaxRequests /\ now' \in 0..MaxTime
    BY <1>2 DEF Counted, TokensKept, HistoryKept, AccountsInv, SessionInv
  <2>3. /\ \A v \in Users : /\ user'[v].row = "absent" <=> user[v].row = "absent"
                            /\ user'[v].row = "absent" => user'[v] = user[v]
        /\ \A v \in Users : Entered(v) => user'[v].isVerified \/ user'[v].google # NONE
    BY <1>2, <2>1 DEF Entered
  <2>4. UsersInv'
    <3>1. request' \in [Slots -> Request] /\ \A t \in Slots : request'[t] = request[t]
      BY <2>2 DEF AccountsInv, UsersInv
    <3>2. \A ut \in Users \X Types : token'[ut].id # 0 => token[ut].id # 0 \/ MayHave(ut)
      BY <2>2
    <3>. QED
      BY <2>1, <2>3, <3>1, <3>2, UsersKept
  <2>5. TokensInv' /\ SessionInv' /\ SoloInv' /\ LinkInv' /\ UsedInv'
    BY <2>2, RequestsKept
  <2>6. ClaimInv'
    BY <2>2 DEF AccountsInv, ClaimInv, Claimable
  <2>7. GuestDemandsComeHome => GuestDemandsComeHome'
    BY <2>2, <2>3 DEF GuestDemandsComeHome
  <2>. QED
    BY <2>4, <2>5, <2>6, <2>7 DEF AccountsInv
<1>3. CASE DisableUser(u)
  <2>. DEFINE r == [row EXCEPT !.row = "disabled"]
  <2>1. /\ r \in User /\ r.row = "disabled" /\ r.isVerified = row.isVerified
        /\ r.google = row.google
    BY <1>1 DEF User
  <2>2. /\ user' = [user EXCEPT ![u] = r] /\ user[u].row # "absent" /\ Counted
        /\ UNCHANGED <<now, demand, request, crossed>> /\ TokensKept /\ HistoryKept
    BY <1>1, <1>3 DEF DisableUser, Enabled
  <2>. HIDE DEF r
  <2>. QED
    BY <1>2, <2>1, <2>2
<1>4. CASE EnableUser(u)
  <2>. DEFINE r == [row EXCEPT !.row = "enabled"]
  <2>1. /\ r \in User /\ r.row = "enabled" /\ r.isVerified = row.isVerified
        /\ r.google = row.google
    BY <1>1 DEF User
  <2>2. /\ user' = [user EXCEPT ![u] = r] /\ user[u].row # "absent" /\ Counted
        /\ UNCHANGED <<now, demand, request, crossed>> /\ TokensKept /\ HistoryKept
    BY <1>1, <1>4 DEF EnableUser
  <2>. HIDE DEF r
  <2>. QED
    BY <1>2, <2>1, <2>2
<1>5. ASSUME NEW e \in Emails, NEW p \in Passwords, UpdateAdminUser(u, e, p)
      PROVE  AccountsInv' /\ (GuestDemandsComeHome => GuestDemandsComeHome')
  <2>. DEFINE r == [row EXCEPT !.email = e, !.password = p, !.hasSetPassword = TRUE]
  <2>1. /\ r \in User /\ r.row = row.row /\ r.isVerified = row.isVerified
        /\ r.google = row.google
    BY <1>1 DEF User
  <2>2. /\ user' = [user EXCEPT ![u] = r] /\ user[u].row # "absent" /\ Counted
        /\ UNCHANGED <<now, demand, request, crossed>> /\ TokensKept /\ HistoryKept
    BY <1>1, <1>5 DEF UpdateAdminUser, Enabled
  <2>. HIDE DEF r
  <2>. QED
    BY <1>2, <2>1, <2>2
<1> QED
  BY <1>3, <1>4, <1>5

LEMMA GuestStep ==
  ASSUME AccountsInv, NEW d \in Demands, NEW e \in Emails, ReportAsGuest(d, e)
  PROVE  AccountsInv' /\ (GuestDemandsComeHome => GuestDemandsComeHome')
<1>. USE AccountsAssumption
<1>1. /\ demand[d] = [guestEmail |-> NONE, reporter |-> NONE]
      /\ demand' = [demand EXCEPT ![d].guestEmail = e]
      /\ UNCHANGED <<now, user, token, ids, uses, link, crossed, held, signed, request, started,
                     before, unclaimed>>
  BY DEF ReportAsGuest, TokensKept, HistoryKept
<1>2. demand \in [Demands -> [guestEmail : Emails \cup {NONE}, reporter : Users \cup {NONE}]]
  BY DEF AccountsInv, ClaimInv
<1>3. /\ demand' \in [Demands -> [guestEmail : Emails \cup {NONE}, reporter : Users \cup {NONE}]]
      /\ \A c \in Demands : c # d => demand'[c] = demand[c]
      /\ demand[d].reporter = NONE /\ demand[d].guestEmail = NONE
  BY <1>1, <1>2
<1>4. UsersInv'
  BY <1>1 DEF AccountsInv, UsersInv, Entered
<1>5. TokensInv' /\ SessionInv' /\ SoloInv' /\ LinkInv' /\ UsedInv'
  BY <1>1, RequestsKept DEF AccountsInv, SessionInv
<1>6. ClaimInv'
  <2>1. ASSUME NEW t \in Slots, request[t].step = "claim", NEW c \in before[request[t].user]
        PROVE  c \in Demands /\ c # d
    <3>1. request[t].user \in Users /\ before \in [Users -> SUBSET Demands]
      BY <2>1 DEF AccountsInv, UsersInv, ClaimInv, Formed
    <3>2. demand[c].reporter # NONE \/ c \in Claimable(request[t].email)
      BY <2>1 DEF AccountsInv, ClaimInv
    <3>. QED
      BY <1>3, <2>1, <3>1, <3>2 DEF Claimable
  <2>. QED
    BY <1>1, <1>3, <2>1 DEF AccountsInv, ClaimInv, Claimable
<1>7. GuestDemandsComeHome => GuestDemandsComeHome'
  <2>1. \A u \in Users : \A c \in before[u] : c \in Demands
    BY DEF AccountsInv, ClaimInv
  <2>. QED
    BY <1>1, <1>3, <2>1 DEF GuestDemandsComeHome
<1> QED
  BY <1>4, <1>5, <1>6, <1>7 DEF AccountsInv

LEMMA TickStep ==
  ASSUME AccountsInv, Tick \/ UNCHANGED accountVars
  PROVE  AccountsInv' /\ (GuestDemandsComeHome => GuestDemandsComeHome')
<1>1. /\ UNCHANGED <<user, token, ids, uses, link, crossed, held, signed, request, started, demand,
                     before, unclaimed>>
      /\ now' \in 0..MaxTime /\ started' \in 0..MaxRequests
  BY AccountsAssumption
  DEF Tick, accountVars, TokensKept, HistoryKept, AccountsInv, SessionInv
<1>2. TokensInv' /\ SessionInv' /\ SoloInv' /\ LinkInv' /\ UsedInv'
  BY <1>1, RequestsKept
<1>3. UsersInv' /\ ClaimInv'
  BY <1>1 DEF AccountsInv, UsersInv, Entered, ClaimInv, Claimable
<1>4. GuestDemandsComeHome => GuestDemandsComeHome'
  BY <1>1 DEF GuestDemandsComeHome
<1> QED
  BY <1>2, <1>3, <1>4 DEF AccountsInv

-----------------------------------------------------------------------------
(* A user is created; nothing was about it before. *)
LEMMA InsertStep ==
  ASSUME AccountsInv, NEW s \in Slots, InsertUser(s)
  PROVE  AccountsInv' /\ (GuestDemandsComeHome => GuestDemandsComeHome')
<1>. USE AccountsAssumption
<1>. DEFINE old == request[s]
            reported == {d \in Demands : /\ demand[d].guestEmail # NONE
                                         /\ Mailbox[demand[d].guestEmail] = Mailbox[old.email]}
<1>1. /\ old.step = "create"
      /\ UNCHANGED <<now, demand, crossed, started, signed, held, link, unclaimed, token, ids, uses>>
  BY DEF InsertUser, TokensKept
<1>. DEFINE row == [NoUser EXCEPT !.row = "enabled", !.email = old.email,
                           !.password = old.password,
                           !.isVerified = old.op = "google",
                           !.hasSetPassword = old.op # "google",
                           !.google = IF old.op = "google" THEN old.email ELSE NONE]
<1>2. PICK u \in Users :
        /\ user[u].row = "absent"
        /\ user' = [user EXCEPT ![u] = row]
        /\ request' = [request EXCEPT ![s].step = "claim", ![s].user = u]
        /\ before' = [before EXCEPT ![u] = reported]
  BY DEF InsertUser
<1>. DEFINE q == [old EXCEPT !.step = "claim", !.user = u]
<1>3. /\ Formed(old) /\ old \in Request /\ request \in [Slots -> Request]
      /\ user \in [Users -> User] /\ old.step = "create"
  BY DEF AccountsInv, UsersInv, InsertUser
<1>4. /\ old.user = NONE /\ old.op \in {"register", "createAdminUser", "google"}
      /\ old.email \in Emails /\ old.jwt = NONE
  BY <1>3 DEF Formed
<1>5. /\ row \in User /\ row.row = "enabled"
      /\ old.op = "google" => row.google = old.email
  <2>1. old.password \in Passwords \cup {NONE}
    BY <1>3 DEF Request
  <2>2. (IF old.op = "google" THEN old.email ELSE NONE) \in Emails \cup {NONE}
    BY <1>4
  <2>3. (old.op = "google") \in BOOLEAN /\ (old.op # "google") \in BOOLEAN
    OBVIOUS
  <2>. QED
    BY <1>4, <2>1, <2>2, <2>3 DEF NoUser, User
<1>6. /\ q \in Request /\ q.step = "claim" /\ q.user = u /\ q.op = old.op /\ q.email = old.email
      /\ q.jwt = NONE
  BY <1>3, <1>4 DEF Request
<1>7. request' = [request EXCEPT ![s] = q]
  BY <1>2
<1>. HIDE DEF q, row, reported
<1>8. /\ request' \in [Slots -> Request] /\ request'[s] = q
      /\ \A t \in Slots : t # s => request'[t] = request[t]
  BY <1>3, <1>6, <1>7
<1>9. /\ user' \in [Users -> User] /\ user'[u] = row
      /\ \A v \in Users : v # u => user'[v] = user[v]
  BY <1>2, <1>3, <1>5
<1>10. Formed(q)
  BY <1>4, <1>6 DEF Formed
<1>11. \A t \in Slots : request[t].user # u
  BY <1>2 DEF AccountsInv, UsersInv
<1>12. \A type \in Types : token[<<u, type>>].id = 0
  <2>1. \A type \in Types : <<u, type>> \in Users \X Types /\ <<u, type>>[1] = u
    OBVIOUS
  <2>. QED
    BY <1>2, <2>1 DEF AccountsInv, UsersInv
<1>13. UsersInv'
  <2>1. \A v \in Users : user'[v].row = "absent" => user'[v] = NoUser
    BY <1>5, <1>9 DEF AccountsInv, UsersInv
  <2>2. ASSUME NEW t \in Slots
        PROVE  /\ Formed(request'[t])
               /\ request'[t].user # NONE => user'[request'[t].user].row # "absent"
               /\ \/ request'[t].jwt # NONE \/ request'[t].op = "refresh"
                  \/ request'[t].op = "google" /\ request'[t].step = "claim"
                  => user'[request'[t].user].isVerified \/ user'[request'[t].user].google # NONE
    <3>1. CASE t = s
      BY <1>4, <1>5, <1>6, <1>8, <1>9, <1>10, <3>1
    <3>2. CASE t # s
      <4>1. /\ request'[t] = request[t] /\ Formed(request[t]) /\ request[t] \in Request
            /\ request[t].user # NONE => user[request[t].user].row # "absent"
            /\ \/ request[t].jwt # NONE \/ request[t].op = "refresh"
               \/ request[t].op = "google" /\ request[t].step = "claim"
               => Entered(request[t].user)
        BY <1>8, <3>2 DEF AccountsInv, UsersInv
      <4>2. \/ request[t].jwt # NONE \/ request[t].op = "refresh"
            \/ request[t].op = "google" /\ request[t].step = "claim"
            => request[t].user \in Users
        BY <4>1 DEF Formed, NoRequest
      <4>3. request[t].user \in Users => user'[request[t].user] = user[request[t].user]
        BY <1>9, <1>11
      <4>4. request[t].user # NONE => request[t].user \in Users
        BY <4>1 DEF Request
      <4>. QED
        BY <4>1, <4>2, <4>3, <4>4 DEF Entered
    <3>. QED
      BY <3>1, <3>2
  <2>3. ASSUME NEW v \in Users, token[<<v, "REFRESH_TOKEN">>].id # 0
        PROVE  user'[v].isVerified \/ user'[v].google # NONE
    <3>1. v # u
      BY <1>12, <2>3 DEF Types
    <3>. QED
      BY <1>9, <2>3, <3>1 DEF AccountsInv, UsersInv, Entered
  <2>4. ASSUME NEW ut \in Users \X Types, token[ut].id # 0
        PROVE  user'[ut[1]].row # "absent"
    <3>1. ut[1] \in Users /\ user[ut[1]].row # "absent"
      BY <2>4 DEF AccountsInv, UsersInv
    <3>. QED
      BY <1>2, <1>9, <3>1
  <2>. QED
    BY <1>1, <1>8, <1>9, <2>1, <2>2, <2>3, <2>4 DEF UsersInv, Entered
<1>14. TokensInv'
  BY <1>1, <1>6, <1>8 DEF AccountsInv, TokensInv
<1>15. SessionInv'
  BY <1>1 DEF AccountsInv, SessionInv
<1>16. SoloInv'
  BY <1>1, <1>6, <1>8, <1>11 DEF AccountsInv, SoloInv
<1>17. LinkInv'
  BY <1>1, <1>6, <1>8 DEF AccountsInv, LinkInv
<1>18. UsedInv'
  BY <1>1, <1>3, <1>8 DEF AccountsInv, UsedInv
<1>19. /\ before' \in [Users -> SUBSET Demands] /\ before'[u] = reported
       /\ \A v \in Users : v # u => before'[v] = before[v]
  BY <1>2 DEF AccountsInv, ClaimInv, reported
<1>20. ClaimInv'
  <2>1. \A d \in reported : demand[d].reporter # NONE \/ d \in Claimable(old.email)
    BY DEF reported, Claimable
  <2>2. ASSUME NEW t \in Slots, request'[t].step = "claim", NEW d \in before'[request'[t].user]
        PROVE  demand[d].reporter # NONE \/ d \in Claimable(request'[t].email)
    <3>1. CASE t = s
      BY <1>6, <1>8, <1>19, <2>1, <2>2, <3>1
    <3>2. CASE t # s
      <4>1. request'[t] = request[t] /\ request[t].user \in Users /\ request[t].user # u
        BY <1>8, <1>11, <2>2, <3>2 DEF AccountsInv, UsersInv, Formed
      <4>. QED
        BY <1>19, <2>2, <4>1 DEF AccountsInv, ClaimInv
    <3>. QED
      BY <3>1, <3>2
  <2>. QED
    BY <1>1, <1>19, <2>2 DEF AccountsInv, ClaimInv, Claimable
<1>21. GuestDemandsComeHome => GuestDemandsComeHome'
  <2> SUFFICES ASSUME GuestDemandsComeHome, NEW v \in Users,
                      user'[v].row # "absent", v \notin unclaimed',
                      ~\E t \in Slots : request'[t].step = "claim" /\ request'[t].user = v
               PROVE  \A d \in before'[v] : demand'[d].reporter # NONE
    BY DEF GuestDemandsComeHome
  <2>1. v # u
    BY <1>6, <1>8
  <2>2. ~\E t \in Slots : request[t].step = "claim" /\ request[t].user = v
    BY <1>3, <1>8
  <2>. QED
    BY <1>1, <1>9, <1>19, <2>1, <2>2 DEF GuestDemandsComeHome
<1> QED
  BY <1>13, <1>14, <1>15, <1>16, <1>17, <1>18, <1>20, <1>21 DEF AccountsInv

-----------------------------------------------------------------------------
(* An upsert keeps the id of the row there is, else the row gets a new one. *)
Upserted(u, type, payload) ==
  /\ token' \in [Users \X Types -> Token] /\ token'[<<u, type>>].payload = payload
  /\ token'[<<u, type>>].id # 0
  /\ \A vt \in Users \X Types : vt # <<u, type>> => token'[vt] = token[vt]
  /\ \A vt \in Users \X Types : token'[vt].id # token[vt].id =>
       vt = <<u, type>> /\ token[vt].id = 0 /\ token'[vt].id = ids + 1 /\ ids' = ids + 1
  /\ ids' \in Nat /\ ids <= ids' /\ uses' \in Seq(Nat) /\ Len(uses') = ids'
  /\ \A i \in 1..ids : uses'[i] = uses[i]
  /\ \A i \in 1..ids' : i \notin 1..ids => uses'[i] = 0

LEMMA UpsertRow ==
  ASSUME TokensInv, now \in Nat, NEW u \in Users, NEW type \in Types, NEW life \in Nat,
         NEW payload \in Passwords \cup Jwt \cup {NONE}, Upsert(u, type, life, payload)
  PROVE  Upserted(u, type, payload)
<1>. DEFINE ut == <<u, type>>
            fresh == token[ut].id = 0
            row == [id |-> IF fresh THEN ids + 1 ELSE token[ut].id, until |-> now + life,
                    payload |-> payload]
<1>1. /\ token' = [token EXCEPT ![ut] = row]
      /\ ids' = IF fresh THEN ids + 1 ELSE ids
      /\ uses' = IF fresh THEN Append(uses, 0) ELSE uses
  BY DEF Upsert
<1>2. /\ token \in [Users \X Types -> Token] /\ ut \in Users \X Types /\ ids \in Nat
      /\ token[ut].id \in Nat /\ uses \in Seq(Nat) /\ Len(uses) = ids
  BY DEF TokensInv, Token
<1>3. row.id \in Nat /\ row.until \in Nat /\ row \in Token
  BY <1>2 DEF Token
<1>4. /\ row.payload = payload /\ row.id # 0
      /\ fresh => row.id = ids + 1
      /\ ~fresh => row.id = token[ut].id
  BY <1>2
<1>. HIDE DEF row
<1>5. /\ token' \in [Users \X Types -> Token] /\ token'[ut] = row
      /\ \A vt \in Users \X Types : vt # ut => token'[vt] = token[vt]
  BY <1>1, <1>2, <1>3
<1>6. CASE fresh
  <2>1. ids' = ids + 1 /\ uses' = Append(uses, 0)
    BY <1>1, <1>6
  <2>2. /\ uses' \in Seq(Nat) /\ Len(uses') = ids + 1 /\ uses'[ids + 1] = 0
        /\ \A i \in 1..ids : uses'[i] = uses[i]
    BY <1>2, <2>1
  <2>3. \A i \in 1..ids' : i \notin 1..ids => i = ids + 1
    BY <1>2, <2>1
  <2>4. ids' \in Nat /\ ids <= ids' /\ uses' \in Seq(Nat) /\ Len(uses') = ids'
    BY <1>2, <2>1, <2>2
  <2>5. \A i \in 1..ids' : i \notin 1..ids => uses'[i] = 0
    BY <2>2, <2>3
  <2>6. \A vt \in Users \X Types : token'[vt].id # token[vt].id =>
          vt = ut /\ token[vt].id = 0 /\ token'[vt].id = ids + 1 /\ ids' = ids + 1
    BY <1>4, <1>5, <1>6, <2>1
  <2>. QED
    BY <1>4, <1>5, <2>2, <2>4, <2>5, <2>6 DEF Upserted
<1>7. CASE ~fresh
  <2>1. ids' = ids /\ uses' = uses
    BY <1>1, <1>7
  <2>. QED
    BY <1>2, <1>4, <1>5, <1>7, <2>1 DEF Upserted
<1> QED
  BY <1>6, <1>7

(* A request saves its token and goes on to the mail, or ends. *)
LEMMA UpsertKeeps ==
  ASSUME AccountsInv, NEW s \in Slots, NEW q \in Request, NEW u \in Users, NEW type \in Types,
         NEW life \in Nat, NEW payload \in Passwords \cup Jwt \cup {NONE},
         u = request[s].user, request[s].step = "token", Upsert(u, type, life, payload),
         type = "REFRESH_TOKEN" => Entered(u),
         type \in Links => payload \in Passwords \cup {NONE},
         request' = [request EXCEPT ![s] = q], Formed(q), q.step \in {"idle", "mail"},
         q.user \in {u, NONE}, q.jwt = NONE, q.op # "refresh",
         q.step = "mail" => /\ type \in Links /\ type = LinkOf(q.op) /\ q.user = u
                            /\ q.id = token'[<<u, type>>].id,
         UNCHANGED <<user, link, crossed, demand, before, unclaimed>>
  PROVE  /\ UsersInv' /\ TokensInv' /\ SoloInv' /\ LinkInv' /\ UsedInv' /\ ClaimInv'
         /\ GuestDemandsComeHome => GuestDemandsComeHome'
<1>. USE AccountsAssumption
<1>. DEFINE ut == <<u, type>>
<1>0. TokensInv /\ now \in Nat /\ ut \in Users \X Types
  BY DEF AccountsInv, SessionInv
<1>1. /\ token' \in [Users \X Types -> Token] /\ token'[<<u, type>>].payload = payload
      /\ token'[<<u, type>>].id # 0
      /\ \A vt \in Users \X Types : vt # <<u, type>> => token'[vt] = token[vt]
      /\ \A vt \in Users \X Types : token'[vt].id # token[vt].id =>
           vt = <<u, type>> /\ token[vt].id = 0 /\ token'[vt].id = ids + 1 /\ ids' = ids + 1
      /\ ids' \in Nat /\ ids <= ids' /\ uses' \in Seq(Nat) /\ Len(uses') = ids'
      /\ \A i \in 1..ids : uses'[i] = uses[i]
      /\ \A i \in 1..ids' : i \notin 1..ids => uses'[i] = 0
  <2>1. Upserted(u, type, payload)
    BY <1>0, UpsertRow
  <2>. QED
    BY <2>1 DEF Upserted
<1>2. /\ request \in [Slots -> Request] /\ request' \in [Slots -> Request] /\ request'[s] = q
      /\ \A t \in Slots : t # s => request'[t] = request[t]
  BY DEF AccountsInv, UsersInv
<1>3. user[u].row # "absent" /\ u # NONE
  BY DEF AccountsInv, UsersInv
<1>4. UsersInv'
  <2>1. /\ user' \in [Users -> User]
        /\ \A v \in Users : /\ user'[v].row = "absent" <=> user[v].row = "absent"
                            /\ user'[v].row = "absent" => user'[v] = user[v]
        /\ \A v \in Users : Entered(v) => user'[v].isVerified \/ user'[v].google # NONE
    BY DEF AccountsInv, UsersInv, Entered
  <2>2. \A t \in Slots :
          request'[t] # request[t] =>
            /\ Formed(request'[t]) /\ request'[t].user \in {request[t].user, NONE}
            /\ \/ request'[t].jwt # NONE \/ request'[t].op = "refresh"
               \/ request'[t].op = "google" /\ request'[t].step = "claim"
               => user'[request'[t].user].isVerified \/ user'[request'[t].user].google # NONE
    BY <1>2
  <2>3. ASSUME NEW vt \in Users \X Types, token'[vt].id # 0
        PROVE  token[vt].id # 0 \/ MayHave(vt)
    <3>1. CASE vt = ut
      BY <1>3, <3>1 DEF MayHave
    <3>2. CASE vt # ut
      BY <1>1, <2>3, <3>2
    <3>. QED
      BY <3>1, <3>2
  <2>. QED
    BY <1>2, <2>1, <2>2, <2>3, UsersKept
<1>5. \A vt \in Users \X Types : token[vt].id \in 0..ids
  BY <1>0 DEF TokensInv, Token
<1>6. \A vt \in Users \X Types : token'[vt].id <= ids' /\ token'[vt].id \in Nat
  <2> SUFFICES ASSUME NEW vt \in Users \X Types
               PROVE  token'[vt].id <= ids' /\ token'[vt].id \in Nat
    OBVIOUS
  <2>1. ids \in Nat /\ token[vt].id \in 0..ids
    BY <1>0, <1>5 DEF TokensInv
  <2>2. CASE token'[vt].id = token[vt].id
    BY <1>1, <2>1, <2>2
  <2>3. CASE token'[vt].id # token[vt].id
    <3>1. token'[vt].id = ids + 1 /\ ids' = ids + 1
      BY <1>1, <2>3
    <3>. QED
      BY <2>1, <3>1
  <2>. QED
    BY <2>2, <2>3
<1>7. \A vt \in Users \X Types : \A wt \in Users \X Types :
        token'[vt].id # 0 /\ token'[vt].id = token'[wt].id => vt = wt
  <2> SUFFICES ASSUME NEW vt \in Users \X Types, NEW wt \in Users \X Types,
                      token'[vt].id # 0, token'[vt].id = token'[wt].id
               PROVE  vt = wt
    OBVIOUS
  <2>1. ids + 1 \notin 0..ids
    BY <1>0 DEF TokensInv
  <2>2. CASE token'[vt].id = token[vt].id /\ token'[wt].id = token[wt].id
    BY <1>0, <2>2 DEF TokensInv
  <2>3. ASSUME NEW xt \in Users \X Types, NEW yt \in Users \X Types,
               token'[xt].id = token'[yt].id, token'[xt].id # token[xt].id
        PROVE  xt = yt
    <3>1. token'[xt].id = ids + 1 /\ xt = <<u, type>>
      BY <1>1, <2>3
    <3>2. token'[yt].id # token[yt].id
      BY <1>5, <2>1, <2>3, <3>1
    <3>3. yt = <<u, type>>
      BY <1>1, <3>2
    <3>. QED
      BY <3>1, <3>3
  <2>. QED
    BY <2>2, <2>3
<1>8. \A v \in Users : \A ty \in Links : token'[<<v, ty>>].payload \in Passwords \cup {NONE}
  <2>1. \A v \in Users : \A ty \in Links : <<v, ty>> \in Users \X Types
    BY DEF Types
  <2>2. ASSUME NEW v \in Users, NEW ty \in Links
        PROVE  token'[<<v, ty>>].payload \in Passwords \cup {NONE}
    <3>1. CASE <<v, ty>> = ut
      BY <1>1, <3>1
    <3>2. CASE <<v, ty>> # ut
      BY <1>0, <1>1, <2>1, <3>2 DEF TokensInv
    <3>. QED
      BY <3>1, <3>2
  <2>. QED
    BY <2>2
<1>9. TokensInv'
  <2>1. ASSUME NEW t \in Slots, request'[t].step \in {"mail", "apply", "delete"}
        PROVE  /\ request'[t].id \in 1..ids'
               /\ \A vt \in Users \X Types :
                    token'[vt].id = request'[t].id =>
                      vt = <<request'[t].user, LinkOf(request'[t].op)>>
    <3>1. CASE t = s
      <4>1. q.step = "mail" /\ request'[t] = q
        BY <1>2, <2>1, <3>1
      <4>2. q.id = token'[ut].id /\ ut = <<q.user, LinkOf(q.op)>>
        BY <4>1
      <4>3. token'[ut].id \in 1..ids'
        BY <1>0, <1>1, <1>6
      <4>. QED
        BY <1>0, <1>1, <1>7, <4>1, <4>2, <4>3
    <3>2. CASE t # s
      <4>1. /\ request'[t] = request[t] /\ request[t].id \in 1..ids
            /\ \A vt \in Users \X Types :
                 token[vt].id = request[t].id => vt = <<request[t].user, LinkOf(request[t].op)>>
        BY <1>0, <1>2, <2>1, <3>2 DEF TokensInv
      <4>2. request[t].id \in 1..ids' /\ request[t].id # ids + 1
        BY <1>0, <1>1, <4>1 DEF TokensInv
      <4>. QED
        BY <1>1, <4>1, <4>2
    <3>. QED
      BY <3>1, <3>2
  <2>. QED
    BY <1>1, <1>6, <1>7, <1>8, <2>1 DEF TokensInv
<1>10. SoloInv'
  BY <1>2, <1>3 DEF AccountsInv, SoloInv
<1>11. \A vt \in Users \X Types : token[vt].id # 0 => token'[vt].id = token[vt].id
  BY <1>1
<1>12. LinkInv'
  <2>1. \A v \in Users : \A ty \in Links : <<v, ty>> \in Users \X Types
    BY DEF Types
  <2>2. \A v \in Users \ crossed' : \A ty \in Links :
          link'[<<v, ty>>] # 0 => token'[<<v, ty>>].id = link'[<<v, ty>>]
    BY <1>11, <2>1 DEF AccountsInv, LinkInv
  <2>3. ASSUME NEW t \in Slots, request'[t].user \notin crossed'
        PROVE  /\ request'[t].step = "mail" =>
                    token'[<<request'[t].user, LinkOf(request'[t].op)>>].id = request'[t].id
               /\ request'[t].step \in {"apply", "delete"} =>
                    link'[<<request'[t].user, LinkOf(request'[t].op)>>] = 0
    <3>1. CASE t = s
      BY <1>2, <3>1
    <3>2. CASE t # s
      <4>1. request'[t] = request[t] /\ Formed(request[t]) /\ request[t].user \notin crossed
        BY <1>2, <2>3, <3>2 DEF AccountsInv, UsersInv
      <4>2. ASSUME request[t].step = "mail"
            PROVE  token'[<<request[t].user, LinkOf(request[t].op)>>].id = request[t].id
        <5>1. <<request[t].user, LinkOf(request[t].op)>> \in Users \X Types
          BY <4>1, <4>2, LinkTypes DEF Formed, Types
        <5>2. request[t].id # 0
          BY <1>0, <4>2 DEF TokensInv
        <5>. QED
          BY <1>11, <4>1, <4>2, <5>1, <5>2 DEF AccountsInv, LinkInv
      <4>. QED
        BY <4>1, <4>2 DEF AccountsInv, LinkInv
    <3>. QED
      BY <3>1, <3>2
  <2>. QED
    BY <2>2, <2>3 DEF AccountsInv, LinkInv
<1>13. UsedInv'
  <2> SUFFICES ASSUME NEW v \in Users, v \notin crossed, NEW ty \in Links,
                      token'[<<v, ty>>].id # 0, uses'[token'[<<v, ty>>].id] > 0
               PROVE  \E t \in Slots : request'[t].step = "delete"
                                       /\ request'[t].id = token'[<<v, ty>>].id
    BY DEF UsedInv
  <2>1. <<v, ty>> \in Users \X Types
    BY DEF Types
  <2>2. token'[<<v, ty>>].id \in 1..ids
    BY <1>1, <1>6, <2>1
  <2>3. token'[<<v, ty>>].id = token[<<v, ty>>].id
    BY <1>0, <1>1, <2>1, <2>2 DEF TokensInv
  <2>4. PICK t \in Slots : request[t].step = "delete" /\ request[t].id = token[<<v, ty>>].id
    BY <1>1, <2>2, <2>3 DEF AccountsInv, UsedInv
  <2>. QED
    BY <1>2, <2>3, <2>4
<1>14. ClaimInv' /\ (GuestDemandsComeHome => GuestDemandsComeHome')
  <2>1. unclaimed' \subseteq Users /\ unclaimed \subseteq unclaimed'
    BY DEF AccountsInv, ClaimInv
  <2>. QED
    BY <1>2, <2>1, ClaimKept
<1> QED
  BY <1>4, <1>9, <1>10, <1>12, <1>13, <1>14

LEMMA SessionStep ==
  ASSUME AccountsInv, NEW s \in Slots, SaveRefreshToken(s)
  PROVE  AccountsInv' /\ (GuestDemandsComeHome => GuestDemandsComeHome')
<1>. USE AccountsAssumption
<1>. DEFINE u == request[s].user
            jwt == request[s].jwt
<1>1. /\ request[s].step = "token" /\ jwt # NONE /\ Upsert(u, "REFRESH_TOKEN", SessionLife, jwt)
      /\ signed' = signed \cup {jwt} /\ held' = [held EXCEPT ![u] = jwt]
      /\ request' = [request EXCEPT ![s] = NoRequest]
      /\ UNCHANGED <<now, user, demand, link, crossed, started, before, unclaimed>>
  BY DEF SaveRefreshToken, Finish
<1>2. u \in Users /\ jwt \in Jwt /\ Entered(u) /\ "REFRESH_TOKEN" \in Types
  BY <1>1 DEF AccountsInv, UsersInv, Formed, Request, Types
<1>3. "REFRESH_TOKEN" \notin Links
  BY DEF Links
<1>4. /\ UsersInv' /\ TokensInv' /\ SoloInv' /\ LinkInv' /\ UsedInv' /\ ClaimInv'
      /\ GuestDemandsComeHome => GuestDemandsComeHome'
  BY <1>1, <1>2, <1>3, NoRequestFields, UpsertKeeps
<1>5. SessionInv'
  <2>1. TokensInv /\ now \in Nat
    BY DEF AccountsInv, SessionInv
  <2>2. Upserted(u, "REFRESH_TOKEN", jwt)
    BY <1>1, <1>2, <2>1, UpsertRow
  <2>3. /\ token'[<<u, "REFRESH_TOKEN">>].payload = jwt
        /\ \A v \in Users : v # u =>
             token'[<<v, "REFRESH_TOKEN">>] = token[<<v, "REFRESH_TOKEN">>]
    BY <1>2, <2>2 DEF Upserted
  <2>4. /\ held' \in [Users -> Jwt \cup {NONE}] /\ held'[u] = jwt
        /\ \A v \in Users : v # u => held'[v] = held[v]
    BY <1>1, <1>2 DEF AccountsInv, SessionInv
  <2>. QED
    BY <1>1, <1>2, <2>3, <2>4 DEF AccountsInv, SessionInv
<1> QED
  BY <1>4, <1>5 DEF AccountsInv

LEMMA LinkStep ==
  ASSUME AccountsInv, NEW s \in Slots, SaveLink(s)
  PROVE  AccountsInv' /\ (GuestDemandsComeHome => GuestDemandsComeHome')
<1>. USE AccountsAssumption
<1>. DEFINE old == request[s]
            u == old.user
            type == LinkOf(old.op)
            payload == IF old.op = "requestChange" THEN old.password ELSE NONE
            q == [old EXCEPT !.step = "mail", !.id = token'[<<u, type>>].id]
<1>1. /\ old.step = "token" /\ old.jwt = NONE /\ Upsert(u, type, LinkLife, payload)
      /\ request' = [request EXCEPT ![s] = q]
      /\ UNCHANGED <<now, user, demand, crossed, started, signed, held, link, before, unclaimed>>
  BY DEF SaveLink, HistoryKept
<1>2. Formed(old) /\ old \in Request /\ u \in Users
  BY <1>1 DEF AccountsInv, UsersInv, Formed
<1>3. type \in Links /\ type \in Types /\ type # "REFRESH_TOKEN"
  BY <1>1, <1>2, LinkTypes DEF Links, Types
<1>4. payload \in Passwords \cup {NONE}
  BY <1>2 DEF Request
<1>. HIDE DEF payload
<1>5. TokensInv /\ now \in Nat
  BY DEF AccountsInv, SessionInv
<1>6. Upserted(u, type, payload)
  BY <1>1, <1>2, <1>3, <1>4, <1>5, UpsertRow
<1>7. token'[<<u, type>>].id \in Nat
  BY <1>2, <1>3, <1>6 DEF Upserted, Token
<1>8. /\ q \in Request /\ q.step = "mail" /\ q.user = u /\ q.jwt = NONE /\ q.op = old.op
      /\ q.id = token'[<<u, type>>].id
  BY <1>1, <1>2, <1>7 DEF Request
<1>. HIDE DEF q
<1>9. Formed(q) /\ q.op # "refresh"
  BY <1>1, <1>2, <1>8 DEF Formed
<1>10. /\ UsersInv' /\ TokensInv' /\ SoloInv' /\ LinkInv' /\ UsedInv' /\ ClaimInv'
       /\ GuestDemandsComeHome => GuestDemandsComeHome'
  BY <1>1, <1>2, <1>3, <1>4, <1>8, <1>9, UpsertKeeps
<1>11. SessionInv'
  <2>1. \A v \in Users : token'[<<v, "REFRESH_TOKEN">>] = token[<<v, "REFRESH_TOKEN">>]
    <3>1. \A v \in Users : <<v, "REFRESH_TOKEN">> \in Users \X Types /\ <<v, "REFRESH_TOKEN">> # <<u, type>>
      BY <1>3 DEF Types
    <3>. QED
      BY <1>6, <3>1 DEF Upserted
  <2>. QED
    BY <1>1, <2>1 DEF AccountsInv, SessionInv
<1> QED
  BY <1>10, <1>11 DEF AccountsInv

-----------------------------------------------------------------------------
(* A request that ends. *)
LEMMA EndKeepsUsers ==
  ASSUME AccountsInv, NEW s \in Slots, request' = [request EXCEPT ![s] = NoRequest], user' = user,
         \A ut \in Users \X Types : token'[ut].id # 0 => token[ut].id # 0
  PROVE  /\ UsersInv'
         /\ request' \in [Slots -> Request] /\ request'[s] = NoRequest
         /\ \A t \in Slots : t # s => request'[t] = request[t]
         /\ crossed \subseteq crossed' /\ crossed' \subseteq Users => SoloInv'
<1>. USE AccountsAssumption
<1>1. /\ request' \in [Slots -> Request] /\ request'[s] = NoRequest
      /\ \A t \in Slots : t # s => request'[t] = request[t]
  BY NoRequestFields DEF AccountsInv, UsersInv
<1>2. \A t \in Slots : request'[t] # request[t] => request'[t] = NoRequest
  BY <1>1
<1>3. UsersInv'
  <2>1. /\ user' \in [Users -> User]
        /\ \A v \in Users : /\ user'[v].row = "absent" <=> user[v].row = "absent"
                            /\ user'[v].row = "absent" => user'[v] = user[v]
        /\ \A v \in Users : Entered(v) => user'[v].isVerified \/ user'[v].google # NONE
    BY DEF AccountsInv, UsersInv, Entered
  <2>2. \A t \in Slots :
          request'[t] # request[t] =>
            /\ Formed(request'[t]) /\ request'[t].user \in {request[t].user, NONE}
            /\ \/ request'[t].jwt # NONE \/ request'[t].op = "refresh"
               \/ request'[t].op = "google" /\ request'[t].step = "claim"
               => user'[request'[t].user].isVerified \/ user'[request'[t].user].google # NONE
    BY <1>2, NoRequestFields
  <2>. QED
    BY <1>1, <2>1, <2>2, UsersKept
<1>4. crossed \subseteq crossed' /\ crossed' \subseteq Users => SoloInv'
  BY <1>1, NoRequestFields DEF AccountsInv, SoloInv
<1> QED
  BY <1>1, <1>3, <1>4

LEMMA MailStep ==
  ASSUME AccountsInv, NEW s \in Slots, MailLink(s)
  PROVE  AccountsInv' /\ (GuestDemandsComeHome => GuestDemandsComeHome')
<1>. USE AccountsAssumption
<1>. DEFINE u == request[s].user
            ul == <<request[s].user, LinkOf(request[s].op)>>
<1>1. /\ request[s].step = "mail"
      /\ link' = link \/ link' = [link EXCEPT ![ul] = request[s].id]
      /\ request' = [request EXCEPT ![s] = NoRequest]
      /\ UNCHANGED <<now, user, demand, crossed, started, signed, held, before, unclaimed, token, ids,
                     uses>>
  BY DEF MailLink, Finish, TokensKept
<1>2. /\ u \in Users /\ LinkOf(request[s].op) \in Links /\ request[s].id \in Nat
      /\ link \in [Users \X Links -> Nat]
  BY <1>1, LinkTypes DEF AccountsInv, UsersInv, LinkInv, Formed, Request
<1>3. /\ UsersInv'
      /\ request' \in [Slots -> Request] /\ request'[s] = NoRequest
      /\ \A t \in Slots : t # s => request'[t] = request[t]
      /\ SoloInv'
  BY <1>1, EndKeepsUsers DEF AccountsInv, SoloInv
<1>4. TokensInv'
  BY <1>1, <1>3, NoRequestFields DEF AccountsInv, TokensInv
<1>5. SessionInv'
  BY <1>1 DEF AccountsInv, SessionInv
<1>6. LinkInv'
  <2>1. /\ link' \in [Users \X Links -> Nat]
        /\ \A vl \in Users \X Links : vl # ul => link'[vl] = link[vl]
        /\ link'[ul] \in {link[ul], request[s].id}
    BY <1>1, <1>2
  <2>2. ASSUME NEW v \in Users, v \notin crossed, NEW type \in Links, link'[<<v, type>>] # 0
        PROVE  token[<<v, type>>].id = link'[<<v, type>>]
    <3>1. CASE link'[<<v, type>>] = link[<<v, type>>]
      BY <2>2, <3>1 DEF AccountsInv, LinkInv
    <3>2. CASE link'[<<v, type>>] # link[<<v, type>>]
      <4>1. <<v, type>> = ul /\ link'[<<v, type>>] = request[s].id
        BY <2>1, <3>2
      <4>2. u \notin crossed
        BY <2>2, <4>1
      <4>. QED
        BY <1>1, <4>1, <4>2 DEF AccountsInv, LinkInv
    <3>. QED
      BY <3>1, <3>2
  <2>3. ASSUME NEW t \in Slots, request'[t].user \notin crossed
        PROVE  /\ request'[t].step = "mail" =>
                    token[<<request'[t].user, LinkOf(request'[t].op)>>].id = request'[t].id
               /\ request'[t].step \in {"apply", "delete"} =>
                    link'[<<request'[t].user, LinkOf(request'[t].op)>>] = 0
    <3>1. CASE t = s
      BY <1>3, <3>1, NoRequestFields
    <3>2. CASE t # s
      <4>1. request'[t] = request[t] /\ request[t].user \notin crossed
        BY <1>3, <2>3, <3>2
      <4>2. ASSUME request[t].step \in {"apply", "delete"}
            PROVE  link'[<<request[t].user, LinkOf(request[t].op)>>] = 0
        <5>1. <<request[t].user, LinkOf(request[t].op)>> \in Users \X Links
          BY <4>2, LinkTypes DEF AccountsInv, UsersInv, Formed
        <5>2. request[t].user # u
          BY <1>2, <3>2, <4>1 DEF AccountsInv, SoloInv
        <5>. QED
          BY <2>1, <4>1, <4>2, <5>1, <5>2 DEF AccountsInv, LinkInv
      <4>. QED
        BY <4>1, <4>2 DEF AccountsInv, LinkInv
    <3>. QED
      BY <3>1, <3>2
  <2>. QED
    BY <1>1, <2>1, <2>2, <2>3 DEF LinkInv
<1>7. UsedInv'
  BY <1>1, <1>3 DEF AccountsInv, UsedInv
<1>8. ClaimInv' /\ (GuestDemandsComeHome => GuestDemandsComeHome')
  <2>1. /\ unclaimed' \subseteq Users /\ unclaimed \subseteq unclaimed'
        /\ request[s].step # "claim" /\ request'[s].step # "claim"
    BY <1>1, <1>3, NoRequestFields DEF AccountsInv, ClaimInv
  <2>. QED
    BY <1>1, <1>3, <2>1, ClaimKept
<1> QED
  BY <1>3, <1>4, <1>5, <1>6, <1>7, <1>8 DEF AccountsInv

-----------------------------------------------------------------------------
LEMMA ApplyStep ==
  ASSUME AccountsInv, NEW s \in Slots, ApplyLink(s)
  PROVE  AccountsInv' /\ (GuestDemandsComeHome => GuestDemandsComeHome')
<1>. USE AccountsAssumption
<1>. DEFINE old == request[s]
            u == old.user
            row == user[u]
            q == [old EXCEPT !.step = "delete"]
<1>1. /\ old.step = "apply" /\ request' = [request EXCEPT ![s] = q]
      /\ uses' = [uses EXCEPT ![old.id] = uses[old.id] + 1]
      /\ UNCHANGED <<now, token, ids, demand, crossed, started, signed, held, link, before,
                     unclaimed>>
  <2>1. /\ old.step = "apply" /\ uses' = [uses EXCEPT ![old.id] = uses[old.id] + 1]
        /\ UNCHANGED <<now, token, ids, demand, crossed, started, signed, held, link, before,
                       unclaimed>>
    BY DEF ApplyLink, HistoryKept
  <2>2. request' = [request EXCEPT ![s] = q]
    BY DEF ApplyLink, Continue
  <2>. QED
    BY <2>1, <2>2
<1>2. /\ Formed(old) /\ old \in Request /\ u \in Users /\ request \in [Slots -> Request]
      /\ user \in [Users -> User] /\ row \in User /\ row.row # "absent"
      /\ old.op \in {"verify", "reset", "confirm"} /\ old.jwt = NONE
  BY <1>1 DEF AccountsInv, UsersInv, Formed
<1>3. old.id \in 1..ids /\ ids \in Nat /\ uses \in Seq(Nat) /\ Len(uses) = ids
  BY <1>1 DEF AccountsInv, TokensInv
<1>4. /\ q \in Request /\ q.step = "delete" /\ q.user = u /\ q.op = old.op /\ q.id = old.id
      /\ q.jwt = NONE
  BY <1>2 DEF Request
<1>5. PICK r \in User : /\ user' = [user EXCEPT ![u] = r] /\ r.row = row.row
                        /\ r.google = row.google /\ (row.isVerified => r.isVerified)
  <2>1. CASE old.op = "verify"
    <3>. DEFINE r == [row EXCEPT !.isVerified = TRUE]
    <3>1. r \in User /\ r.row = row.row /\ r.google = row.google /\ r.isVerified
      BY <1>2 DEF User
    <3>2. user' = [user EXCEPT ![u] = r]
      BY <2>1 DEF ApplyLink
    <3>. QED
      BY <3>1, <3>2
  <2>2. CASE old.op # "verify"
    <3>. DEFINE r == [row EXCEPT !.password = old.password,
                                 !.hasSetPassword = row.hasSetPassword \/ old.op = "confirm"]
    <3>1. (row.hasSetPassword \/ old.op = "confirm") \in BOOLEAN
      OBVIOUS
    <3>2. old.password \in Passwords \cup {NONE}
      BY <1>2 DEF Request
    <3>3. r \in User /\ r.row = row.row /\ r.google = row.google /\ r.isVerified = row.isVerified
      BY <1>2, <3>1, <3>2 DEF User
    <3>4. user' = [user EXCEPT ![u] = r]
      BY <2>2 DEF ApplyLink
    <3>. QED
      BY <3>3, <3>4
  <2>. QED
    BY <2>1, <2>2
<1>. HIDE DEF q
<1>6. Formed(q)
  BY <1>2, <1>4 DEF Formed
<1>7. /\ request' \in [Slots -> Request] /\ request'[s] = q
      /\ \A t \in Slots : t # s => request'[t] = request[t]
  BY <1>1, <1>2, <1>4
<1>8. /\ user' \in [Users -> User]
      /\ \A v \in Users : /\ user'[v].row = "absent" <=> user[v].row = "absent"
                          /\ user'[v].row = "absent" => user'[v] = user[v]
      /\ \A v \in Users : Entered(v) => user'[v].isVerified \/ user'[v].google # NONE
  <2>1. /\ user' \in [Users -> User] /\ user'[u] = r
        /\ \A v \in Users : v # u => user'[v] = user[v]
    BY <1>2, <1>5
  <2>. QED
    BY <1>2, <1>5, <2>1 DEF Entered
<1>9. UsersInv'
  <2>1. q.op # "refresh" /\ q.op # "google"
    BY <1>2, <1>4
  <2>2. \A t \in Slots :
          request'[t] # request[t] =>
            /\ Formed(request'[t]) /\ request'[t].user \in {request[t].user, NONE}
            /\ \/ request'[t].jwt # NONE \/ request'[t].op = "refresh"
               \/ request'[t].op = "google" /\ request'[t].step = "claim"
               => user'[request'[t].user].isVerified \/ user'[request'[t].user].google # NONE
    BY <1>4, <1>6, <1>7, <2>1
  <2>3. \A ut \in Users \X Types : token'[ut].id # 0 => token[ut].id # 0 \/ MayHave(ut)
    BY <1>1
  <2>. QED
    BY <1>7, <1>8, <2>2, <2>3, UsersKept
<1>10. /\ uses' \in Seq(Nat) /\ Len(uses') = ids
       /\ \A i \in 1..ids : i # old.id => uses'[i] = uses[i]
  BY <1>1, <1>3
<1>11. TokensInv'
  BY <1>1, <1>4, <1>7, <1>10 DEF AccountsInv, TokensInv
<1>12. SessionInv'
  BY <1>1 DEF AccountsInv, SessionInv
<1>13. SoloInv'
  BY <1>1, <1>4, <1>7 DEF AccountsInv, SoloInv
<1>14. LinkInv'
  BY <1>1, <1>4, <1>7 DEF AccountsInv, LinkInv
<1>15. UsedInv'
  <2> SUFFICES ASSUME NEW v \in Users, v \notin crossed, NEW type \in Links,
                      token[<<v, type>>].id # 0, uses'[token[<<v, type>>].id] > 0
               PROVE  \E t \in Slots : request'[t].step = "delete"
                                       /\ request'[t].id = token[<<v, type>>].id
    BY <1>1 DEF UsedInv
  <2>1. CASE token[<<v, type>>].id = old.id
    BY <1>4, <1>7, <2>1
  <2>2. CASE token[<<v, type>>].id # old.id
    <3>1. <<v, type>> \in Users \X Types
      BY DEF Types
    <3>2. token[<<v, type>>].id \in 1..ids
      BY <1>3, <3>1 DEF AccountsInv, TokensInv, Token
    <3>3. uses[token[<<v, type>>].id] > 0
      BY <1>10, <2>2, <3>2
    <3>4. PICK t \in Slots : request[t].step = "delete" /\ request[t].id = token[<<v, type>>].id
      BY <3>3 DEF AccountsInv, UsedInv
    <3>. QED
      BY <1>1, <1>7, <3>4
  <2>. QED
    BY <2>1, <2>2
<1>16. ClaimInv' /\ (GuestDemandsComeHome => GuestDemandsComeHome')
  <2>1. /\ unclaimed' \subseteq Users /\ unclaimed \subseteq unclaimed'
        /\ request[s].step # "claim" /\ request'[s].step # "claim"
    BY <1>1, <1>4, <1>7 DEF AccountsInv, ClaimInv
  <2>. QED
    BY <1>1, <1>7, <1>8, <2>1, ClaimKept
<1> QED
  BY <1>9, <1>11, <1>12, <1>13, <1>14, <1>15, <1>16 DEF AccountsInv

LEMMA DeleteStep ==
  ASSUME AccountsInv, NEW s \in Slots, DeleteToken(s)
  PROVE  AccountsInv' /\ (GuestDemandsComeHome => GuestDemandsComeHome')
<1>. USE AccountsAssumption
<1>. DEFINE u == request[s].user
            id == request[s].id
            ul == <<request[s].user, LinkOf(request[s].op)>>
<1>1. /\ request[s].step = "delete" /\ request' = [request EXCEPT ![s] = NoRequest]
      /\ token' = [ut \in Users \X Types |-> IF token[ut].id = id THEN NoToken ELSE token[ut]]
      /\ UNCHANGED <<now, user, ids, uses, demand, crossed, started, signed, held, link, before,
                     unclaimed>>
  BY DEF DeleteToken, Finish, HistoryKept
<1>2. /\ u \in Users /\ LinkOf(request[s].op) \in Links /\ id # 0
      /\ token \in [Users \X Types -> Token]
      /\ \A ut \in Users \X Types : token[ut].id = id => ut = ul
  BY <1>1, LinkTypes DEF AccountsInv, UsersInv, Formed, TokensInv
<1>3. /\ token' \in [Users \X Types -> Token]
      /\ \A ut \in Users \X Types : token[ut].id = id => token'[ut].id = 0
      /\ \A ut \in Users \X Types : token[ut].id # id => token'[ut] = token[ut]
      /\ \A ut \in Users \X Types : token'[ut].payload \in {token[ut].payload, NONE}
  <2>1. NoToken \in Token /\ NoToken.id = 0 /\ NoToken.payload = NONE
    BY DEF NoToken, Token
  <2>. QED
    BY <1>1, <1>2, <2>1
<1>4. /\ UsersInv'
      /\ request' \in [Slots -> Request] /\ request'[s] = NoRequest
      /\ \A t \in Slots : t # s => request'[t] = request[t]
      /\ SoloInv'
  <2>1. \A ut \in Users \X Types : token'[ut].id # 0 => token[ut].id # 0
    BY <1>3
  <2>. QED
    BY <1>1, <2>1, EndKeepsUsers DEF AccountsInv, SoloInv
<1>5. \A v \in Users : \A type \in Types : <<v, type>> \in Users \X Types
  OBVIOUS
<1>6. TokensInv'
  <2>1. \A v \in Users : \A type \in Links : token'[<<v, type>>].payload \in Passwords \cup {NONE}
    BY <1>3, <1>5 DEF AccountsInv, TokensInv, Types
  <2>2. \A ut \in Users \X Types : token'[ut].id <= ids
    BY <1>3 DEF AccountsInv, TokensInv
  <2>3. \A ut \in Users \X Types : \A vt \in Users \X Types :
          token'[ut].id # 0 /\ token'[ut].id = token'[vt].id => ut = vt
    BY <1>3 DEF AccountsInv, TokensInv
  <2>4. ASSUME NEW t \in Slots, request'[t].step \in {"mail", "apply", "delete"}
        PROVE  /\ request'[t].id \in 1..ids
               /\ \A ut \in Users \X Types : token'[ut].id = request'[t].id =>
                    ut = <<request'[t].user, LinkOf(request'[t].op)>>
    <3>1. t # s /\ request'[t] = request[t]
      BY <1>4, <2>4, NoRequestFields
    <3>2. /\ request[t].id \in 1..ids
          /\ \A ut \in Users \X Types : token[ut].id = request[t].id =>
               ut = <<request[t].user, LinkOf(request[t].op)>>
      BY <2>4, <3>1 DEF AccountsInv, TokensInv
    <3>. QED
      BY <1>3, <3>1, <3>2
  <2>. QED
    BY <1>1, <1>3, <2>1, <2>2, <2>3, <2>4 DEF AccountsInv, TokensInv
<1>7. SessionInv'
  <2>1. \A v \in Users : token'[<<v, "REFRESH_TOKEN">>] = token[<<v, "REFRESH_TOKEN">>]
    <3>1. \A v \in Users : <<v, "REFRESH_TOKEN">> \in Users \X Types /\ <<v, "REFRESH_TOKEN">> # ul
      BY <1>2 DEF Types, Links
    <3>. QED
      BY <1>2, <1>3, <3>1
  <2>. QED
    BY <1>1, <2>1 DEF AccountsInv, SessionInv
<1>8. LinkInv'
  <2>1. ASSUME NEW v \in Users, v \notin crossed, NEW type \in Links, link[<<v, type>>] # 0
        PROVE  token'[<<v, type>>].id = link[<<v, type>>]
    <3>1. token[<<v, type>>].id = link[<<v, type>>] /\ <<v, type>> \in Users \X Types
      BY <2>1 DEF AccountsInv, LinkInv, Types
    <3>2. token[<<v, type>>].id # id
      <4> SUFFICES ASSUME token[<<v, type>>].id = id PROVE FALSE
        OBVIOUS
      <4>1. <<v, type>> = ul
        BY <1>2, <3>1
      <4>2. link[ul] = 0
        BY <1>1, <2>1, <4>1 DEF AccountsInv, LinkInv
      <4>. QED
        BY <2>1, <4>1, <4>2
    <3>. QED
      BY <1>3, <3>1, <3>2
  <2>2. ASSUME NEW t \in Slots, request'[t].user \notin crossed
        PROVE  /\ request'[t].step = "mail" =>
                    token'[<<request'[t].user, LinkOf(request'[t].op)>>].id = request'[t].id
               /\ request'[t].step \in {"apply", "delete"} =>
                    link[<<request'[t].user, LinkOf(request'[t].op)>>] = 0
    <3>1. CASE t = s
      BY <1>4, <3>1, NoRequestFields
    <3>2. CASE t # s
      <4>1. request'[t] = request[t] /\ request[t].user \notin crossed
        BY <1>4, <2>2, <3>2
      <4>2. ASSUME request[t].step = "mail"
            PROVE  token'[<<request[t].user, LinkOf(request[t].op)>>].id = request[t].id
        <5>1. <<request[t].user, LinkOf(request[t].op)>> \in Users \X Types
          BY <4>2, LinkTypes DEF AccountsInv, UsersInv, Formed, Types
        <5>2. token[<<request[t].user, LinkOf(request[t].op)>>].id = request[t].id
          BY <4>1, <4>2 DEF AccountsInv, LinkInv
        <5>3. request[t].user # u
          BY <1>2, <3>2, <4>1 DEF AccountsInv, SoloInv
        <5>. QED
          BY <1>2, <1>3, <5>1, <5>2, <5>3
      <4>. QED
        BY <4>1, <4>2 DEF AccountsInv, LinkInv
    <3>. QED
      BY <3>1, <3>2
  <2>3. link' \in [Users \X Links -> Nat]
    BY <1>1 DEF AccountsInv, LinkInv
  <2>4. \A v \in Users \ crossed' : \A type \in Links :
          link'[<<v, type>>] # 0 => token'[<<v, type>>].id = link'[<<v, type>>]
    BY <1>1, <2>1
  <2>5. \A t \in Slots : request'[t].user \notin crossed' =>
          /\ request'[t].step = "mail" =>
               token'[<<request'[t].user, LinkOf(request'[t].op)>>].id = request'[t].id
          /\ request'[t].step \in {"apply", "delete"} =>
               link'[<<request'[t].user, LinkOf(request'[t].op)>>] = 0
    BY <1>1, <2>2
  <2>. QED
    BY <2>3, <2>4, <2>5 DEF LinkInv
<1>9. UsedInv'
  <2> SUFFICES ASSUME NEW v \in Users, v \notin crossed, NEW type \in Links,
                      token'[<<v, type>>].id # 0, uses[token'[<<v, type>>].id] > 0
               PROVE  \E t \in Slots : request'[t].step = "delete"
                                       /\ request'[t].id = token'[<<v, type>>].id
    BY <1>1 DEF UsedInv
  <2>1. token'[<<v, type>>] = token[<<v, type>>] /\ token[<<v, type>>].id # id
    BY <1>3, <1>5 DEF Types
  <2>2. PICK t \in Slots : request[t].step = "delete" /\ request[t].id = token[<<v, type>>].id
    BY <2>1 DEF AccountsInv, UsedInv
  <2>. QED
    BY <1>4, <2>1, <2>2
<1>10. ClaimInv' /\ (GuestDemandsComeHome => GuestDemandsComeHome')
  <2>1. /\ unclaimed' \subseteq Users /\ unclaimed \subseteq unclaimed'
        /\ request[s].step # "claim" /\ request'[s].step # "claim"
    BY <1>1, <1>4, NoRequestFields DEF AccountsInv, ClaimInv
  <2>. QED
    BY <1>1, <1>4, <2>1, ClaimKept
<1> QED
  BY <1>4, <1>6, <1>7, <1>8, <1>9, <1>10 DEF AccountsInv

LEMMA StopStep ==
  ASSUME AccountsInv, NEW s \in Slots, StopRequest(s)
  PROVE  AccountsInv' /\ (GuestDemandsComeHome => GuestDemandsComeHome')
<1>. USE AccountsAssumption
<1>. DEFINE u == request[s].user
<1>1. /\ crossed' = IF request[s].step \in {"delete", "mail"} THEN crossed \cup {u} ELSE crossed
      /\ unclaimed' = IF request[s].step = "claim" THEN unclaimed \cup {u} ELSE unclaimed
      /\ request' = [request EXCEPT ![s] = NoRequest]
      /\ UNCHANGED <<now, user, demand, started, signed, held, link, before, token, ids, uses>>
  BY DEF StopRequest, Finish, TokensKept
<1>2. request[s].step \in {"delete", "mail", "claim"} => u \in Users
  BY DEF AccountsInv, UsersInv, Formed
<1>3. /\ crossed \subseteq crossed' /\ crossed' \subseteq Users
      /\ unclaimed \subseteq unclaimed' /\ unclaimed' \subseteq Users
      /\ request[s].step = "claim" => u \in unclaimed'
      /\ request[s].step = "delete" => u \in crossed'
  BY <1>1, <1>2 DEF AccountsInv, SoloInv, ClaimInv
<1>4. /\ UsersInv'
      /\ request' \in [Slots -> Request] /\ request'[s] = NoRequest
      /\ \A t \in Slots : t # s => request'[t] = request[t]
      /\ SoloInv'
  <2>1. \A ut \in Users \X Types : token'[ut].id # 0 => token[ut].id # 0
    BY <1>1
  <2>. QED
    BY <1>1, <1>3, <2>1, EndKeepsUsers
<1>5. TokensInv'
  BY <1>1, <1>4, NoRequestFields DEF AccountsInv, TokensInv
<1>6. SessionInv'
  BY <1>1 DEF AccountsInv, SessionInv
<1>7. LinkInv'
  BY <1>1, <1>3, <1>4, NoRequestFields DEF AccountsInv, LinkInv
<1>8. UsedInv'
  <2> SUFFICES ASSUME NEW v \in Users, v \notin crossed', NEW type \in Links,
                      token[<<v, type>>].id # 0, uses[token[<<v, type>>].id] > 0
               PROVE  \E t \in Slots : request'[t].step = "delete"
                                       /\ request'[t].id = token[<<v, type>>].id
    BY <1>1 DEF UsedInv
  <2>1. PICK t \in Slots : request[t].step = "delete" /\ request[t].id = token[<<v, type>>].id
    BY <1>3 DEF AccountsInv, UsedInv
  <2>2. <<v, type>> = <<request[t].user, LinkOf(request[t].op)>>
    BY <2>1 DEF AccountsInv, TokensInv, Types
  <2>3. t # s
    BY <1>3, <2>1, <2>2
  <2>. QED
    BY <1>4, <2>1, <2>3
<1>9. ClaimInv' /\ (GuestDemandsComeHome => GuestDemandsComeHome')
  BY <1>1, <1>3, <1>4, NoRequestFields, ClaimKept
<1> QED
  BY <1>4, <1>5, <1>6, <1>7, <1>8, <1>9 DEF AccountsInv

LEMMA CleanupStep ==
  ASSUME AccountsInv, CleanupExpiredTokens
  PROVE  AccountsInv' /\ (GuestDemandsComeHome => GuestDemandsComeHome')
<1>. USE AccountsAssumption
<1>. DEFINE expired == {ut \in Users \X Types : token[ut].id # 0 /\ token[ut].until < now}
            cut == {request[s].user : s \in {o \in Slots :
                     \E ut \in expired : request[o].step = "mail" /\ request[o].id = token[ut].id}}
<1>1. /\ token' = [ut \in Users \X Types |-> IF ut \in expired THEN NoToken ELSE token[ut]]
      /\ link' = [ul \in Users \X Links |-> IF ul \in expired THEN 0 ELSE link[ul]]
      /\ held' = [v \in Users |-> IF <<v, "REFRESH_TOKEN">> \in expired THEN NONE ELSE held[v]]
      /\ crossed' = crossed \cup cut
      /\ UNCHANGED <<now, user, ids, uses, demand, request, started, signed, before, unclaimed>>
  BY DEF CleanupExpiredTokens
<1>2. /\ token \in [Users \X Types -> Token] /\ link \in [Users \X Links -> Nat]
      /\ held \in [Users -> Jwt \cup {NONE}]
      /\ \A v \in Users : \A type \in Types : <<v, type>> \in Users \X Types
      /\ \A v \in Users : \A type \in Links : <<v, type>> \in Users \X Links
      /\ Links \subseteq Types /\ "REFRESH_TOKEN" \in Types
  BY DEF AccountsInv, TokensInv, LinkInv, SessionInv, Types
<1>3. \A t \in Slots : \A ut \in expired :
        request[t].step = "mail" /\ request[t].id = token[ut].id => request[t].user \in cut
  OBVIOUS
<1>4. cut \subseteq Users
  BY DEF AccountsInv, UsersInv, Formed
<1>. HIDE DEF expired, cut
<1>5. /\ token' \in [Users \X Types -> Token]
      /\ \A ut \in Users \X Types : ut \in expired => token'[ut].id = 0
      /\ \A ut \in Users \X Types : ut \notin expired => token'[ut] = token[ut]
      /\ \A ut \in Users \X Types : token'[ut].id # 0 => token'[ut] = token[ut]
      /\ \A ut \in Users \X Types : token'[ut].payload \in {token[ut].payload, NONE}
  <2>1. NoToken \in Token /\ NoToken.id = 0 /\ NoToken.payload = NONE
    BY DEF NoToken, Token
  <2>. QED
    BY <1>1, <1>2, <2>1
<1>6. /\ link' \in [Users \X Links -> Nat]
      /\ \A ul \in Users \X Links : link'[ul] # 0 => link'[ul] = link[ul] /\ ul \notin expired
      /\ \A ul \in Users \X Links : link[ul] = 0 => link'[ul] = 0
  BY <1>1, <1>2
<1>7. UsersInv'
  <2>1. /\ user' \in [Users -> User] /\ request' \in [Slots -> Request]
        /\ \A v \in Users : /\ user'[v].row = "absent" <=> user[v].row = "absent"
                            /\ user'[v].row = "absent" => user'[v] = user[v]
        /\ \A v \in Users : Entered(v) => user'[v].isVerified \/ user'[v].google # NONE
    BY <1>1 DEF AccountsInv, UsersInv, Entered
  <2>2. \A t \in Slots : request'[t] = request[t]
    BY <1>1
  <2>3. \A ut \in Users \X Types : token'[ut].id # 0 => token[ut].id # 0
    BY <1>5
  <2>. QED
    BY <2>1, <2>2, <2>3, UsersKept
<1>8. TokensInv'
  <2>1. \A v \in Users : \A type \in Links : token'[<<v, type>>].payload \in Passwords \cup {NONE}
    BY <1>2, <1>5 DEF AccountsInv, TokensInv
  <2>2. \A ut \in Users \X Types : token'[ut].id <= ids
    BY <1>5 DEF AccountsInv, TokensInv
  <2>3. \A ut \in Users \X Types : \A vt \in Users \X Types :
          token'[ut].id # 0 /\ token'[ut].id = token'[vt].id => ut = vt
    BY <1>5 DEF AccountsInv, TokensInv
  <2>4. ASSUME NEW t \in Slots, request[t].step \in {"mail", "apply", "delete"}
        PROVE  /\ request[t].id \in 1..ids
               /\ \A ut \in Users \X Types : token'[ut].id = request[t].id =>
                    ut = <<request[t].user, LinkOf(request[t].op)>>
    <3>1. /\ request[t].id \in 1..ids
          /\ \A ut \in Users \X Types : token[ut].id = request[t].id =>
               ut = <<request[t].user, LinkOf(request[t].op)>>
      BY <2>4 DEF AccountsInv, TokensInv
    <3>. QED
      BY <1>5, <3>1
  <2>5. ids' \in Nat /\ uses' \in Seq(Nat) /\ Len(uses') = ids'
    BY <1>1 DEF AccountsInv, TokensInv
  <2>6. \A t \in Slots : request'[t].step \in {"mail", "apply", "delete"} =>
          /\ request'[t].id \in 1..ids'
          /\ \A ut \in Users \X Types : token'[ut].id = request'[t].id =>
               ut = <<request'[t].user, LinkOf(request'[t].op)>>
    BY <1>1, <2>4
  <2>7. \A ut \in Users \X Types : token'[ut].id <= ids'
    BY <1>1, <2>2
  <2>. QED
    BY <1>5, <2>1, <2>3, <2>5, <2>6, <2>7 DEF TokensInv
<1>9. SessionInv'
  <2>1. held' \in [Users -> Jwt \cup {NONE}]
    BY <1>1, <1>2
  <2>2. ASSUME NEW v \in Users, held'[v] # NONE
        PROVE  token'[<<v, "REFRESH_TOKEN">>].payload = held'[v]
    <3>1. <<v, "REFRESH_TOKEN">> \notin expired /\ held'[v] = held[v]
      BY <1>1, <2>2
    <3>. QED
      BY <1>2, <1>5, <2>2, <3>1 DEF AccountsInv, SessionInv
  <2>. QED
    BY <1>1, <2>1, <2>2 DEF AccountsInv, SessionInv
<1>10. SoloInv'
  BY <1>1, <1>4 DEF AccountsInv, SoloInv
<1>11. LinkInv'
  <2>1. \A v \in Users \ crossed' : \A type \in Links :
          link'[<<v, type>>] # 0 => token'[<<v, type>>].id = link'[<<v, type>>]
    BY <1>1, <1>2, <1>5, <1>6 DEF AccountsInv, LinkInv
  <2>2. ASSUME NEW t \in Slots, request[t].user \notin crossed'
        PROVE  /\ request[t].step = "mail" =>
                    token'[<<request[t].user, LinkOf(request[t].op)>>].id = request[t].id
               /\ request[t].step \in {"apply", "delete"} =>
                    link'[<<request[t].user, LinkOf(request[t].op)>>] = 0
    <3>. DEFINE ul == <<request[t].user, LinkOf(request[t].op)>>
    <3>1. request[t].user \notin crossed /\ request[t].user \notin cut
      BY <1>1, <2>2
    <3>2. request[t].step \in {"mail", "apply", "delete"} =>
            ul \in Users \X Links /\ ul \in Users \X Types
      BY <1>2, LinkTypes DEF AccountsInv, UsersInv, Formed
    <3>3. ASSUME request[t].step = "mail" PROVE token'[ul].id = request[t].id
      <4>1. token[ul].id = request[t].id
        BY <3>1, <3>3 DEF AccountsInv, LinkInv
      <4>2. ul \notin expired
        BY <1>3, <3>1, <3>3, <4>1
      <4>. QED
        BY <1>5, <3>2, <3>3, <4>1, <4>2
    <3>4. ASSUME request[t].step \in {"apply", "delete"} PROVE link'[ul] = 0
      <4>1. link[ul] = 0
        BY <3>1, <3>4 DEF AccountsInv, LinkInv
      <4>. QED
        BY <1>6, <3>2, <3>4, <4>1
    <3>. QED
      BY <3>3, <3>4
  <2>3. \A t \in Slots : request'[t].user \notin crossed' =>
          /\ request'[t].step = "mail" =>
               token'[<<request'[t].user, LinkOf(request'[t].op)>>].id = request'[t].id
          /\ request'[t].step \in {"apply", "delete"} =>
               link'[<<request'[t].user, LinkOf(request'[t].op)>>] = 0
    BY <1>1, <2>2
  <2>. QED
    BY <1>6, <2>1, <2>3 DEF LinkInv
<1>12. UsedInv'
  <2> SUFFICES ASSUME NEW v \in Users, v \notin crossed', NEW type \in Links,
                      token'[<<v, type>>].id # 0, uses'[token'[<<v, type>>].id] > 0
               PROVE  \E t \in Slots : request'[t].step = "delete"
                                       /\ request'[t].id = token'[<<v, type>>].id
    BY DEF UsedInv
  <2>1. token'[<<v, type>>] = token[<<v, type>>] /\ v \notin crossed
    BY <1>1, <1>2, <1>5
  <2>2. PICK t \in Slots : request[t].step = "delete" /\ request[t].id = token[<<v, type>>].id
    BY <1>1, <2>1 DEF AccountsInv, UsedInv
  <2>. QED
    BY <1>1, <2>1, <2>2
<1>13. ClaimInv' /\ (GuestDemandsComeHome => GuestDemandsComeHome')
  <2>1. ClaimInv'
    BY <1>1 DEF AccountsInv, ClaimInv, Claimable
  <2>2. GuestDemandsComeHome => GuestDemandsComeHome'
    BY <1>1 DEF GuestDemandsComeHome
  <2>. QED
    BY <2>1, <2>2
<1> QED
  BY <1>7, <1>8, <1>9, <1>10, <1>11, <1>12, <1>13 DEF AccountsInv

-----------------------------------------------------------------------------
LEMMA AccountsStep ==
  ASSUME AccountsInv, [ChangeAccounts]_accountVars
  PROVE  AccountsInv' /\ (GuestDemandsComeHome => GuestDemandsComeHome')
<1>1. CASE Begins
  <2>1. PICK s \in Slots : \E r : Begun(s, r)
    BY <1>1, Beginnings DEF AccountsInv
  <2>. QED
    BY <2>1, BegunKeeps
<1>2. ASSUME NEW s \in Slots,
             \/ InsertUser(s) \/ ClaimGuestDemands(s) \/ ClaimFails(s)
             \/ LinkAccount(s) \/ SignAgain(s) \/ SaveRefreshToken(s)
             \/ SaveLink(s) \/ MailLink(s) \/ ApplyLink(s) \/ DeleteToken(s)
             \/ StopRequest(s)
      PROVE  AccountsInv' /\ (GuestDemandsComeHome => GuestDemandsComeHome')
  BY <1>2, InsertStep, ClaimStep, PassStep, SessionStep, LinkStep, MailStep, ApplyStep, DeleteStep,
     StopStep
<1>3. ASSUME NEW d \in Demands, NEW e \in Emails, ReportAsGuest(d, e)
      PROVE  AccountsInv' /\ (GuestDemandsComeHome => GuestDemandsComeHome')
  BY <1>3, GuestStep
<1>4. ASSUME NEW u \in Users,
             \/ DisableUser(u) \/ EnableUser(u)
             \/ \E e \in Emails : \E p \in Passwords : UpdateAdminUser(u, e, p)
      PROVE  AccountsInv' /\ (GuestDemandsComeHome => GuestDemandsComeHome')
  BY <1>4, AdminStep
<1>5. CASE Tick \/ UNCHANGED accountVars
  BY <1>5, TickStep
<1>6. CASE CleanupExpiredTokens
  BY <1>6, CleanupStep
<1>7. CASE ChangeAccounts
  <2>1. \/ Begins
        \/ \E s \in Slots :
             \/ InsertUser(s) \/ ClaimGuestDemands(s) \/ ClaimFails(s)
             \/ LinkAccount(s) \/ SignAgain(s) \/ SaveRefreshToken(s)
             \/ SaveLink(s) \/ MailLink(s) \/ ApplyLink(s) \/ DeleteToken(s)
             \/ StopRequest(s)
        \/ \E d \in Demands, e \in Emails : ReportAsGuest(d, e)
        \/ \E u \in Users : DisableUser(u) \/ EnableUser(u)
        \/ \E u \in Users, e \in Emails, p \in Passwords : UpdateAdminUser(u, e, p)
        \/ Tick \/ CleanupExpiredTokens
    BY <1>7 DEF ChangeAccounts, Begins
  <2>. QED
    BY <1>1, <1>2, <1>3, <1>4, <1>5, <1>6, <2>1
<1> QED
  BY <1>5, <1>7

LEMMA AccountsAlways == AccountsSpec => [](AccountsInv /\ GuestDemandsComeHome)
<1>. DEFINE Inv == AccountsInv /\ GuestDemandsComeHome
<1>1. AccountsInit => Inv
  BY AccountsInitial
<1>2. Inv /\ [ChangeAccounts]_accountVars => Inv'
  BY AccountsStep
<1> QED
  BY <1>1, <1>2, PTL DEF AccountsSpec

-----------------------------------------------------------------------------
(* The tables, the requests and the tokens keep their types, and a request *)
(* only reaches a step with what that step uses.                           *)
THEOREM AccountsTypeCorrect == AccountsSpec => []AccountsTypeOK
<1>1. AccountsInv => AccountsTypeOK
  BY DEF AccountsInv, AccountsTypeOK, UsersInv, TokensInv, SessionInv, SoloInv, LinkInv, ClaimInv
<1> QED
  BY <1>1, AccountsAlways, PTL

(* Nobody has a session without a verified address or a Google account,    *)
(* and the session a user was handed last can be renewed, in whatever      *)
(* order any number of users register, sign in, renew and are disabled.    *)
THEOREM SessionsSound == AccountsSpec => []SessionsAreSound
<1>1. AccountsInv => SessionsAreSound
  BY DEF AccountsInv, UsersInv, SessionInv, SessionsAreSound, SessionsAreVerified,
         LastSessionHolds, Entered
<1> QED
  BY <1>1, AccountsAlways, PTL

(* The newest mailed link of a user whose requests did not overlap works   *)
(* until it is followed, and does not work again when it has been.         *)
THEOREM LinksHold == AccountsSpec => []LinksWorkAndOnce
<1>1. AccountsInv => LinksWorkAndOnce
  BY DEF AccountsInv, LinkInv, UsedInv, LinksWorkAndOnce, LinksWork, LinksWorkOnce
<1> QED
  BY <1>1, AccountsAlways, PTL

(* A demand reported with the address of an account before the account     *)
(* existed has a reporter as soon as the account is created, unless the    *)
(* claim failed.                                                           *)
THEOREM DemandsComeHome == AccountsSpec => []GuestDemandsComeHome
BY AccountsAlways, PTL

-----------------------------------------------------------------------------
(* The neighborhoods users save.  Requests that have counted the rows and  *)
(* are still to add one.                                                   *)
Adding(u) ==
  {t \in Tabs : tab[t].op = "add" /\ tab[t].step \in {"find", "clear", "create"} /\ tab[t].user = u}

RowsInv ==
  /\ saved \subseteq Neighborhood /\ IsFiniteSet(saved) /\ rows \in Nat
  /\ \A n \in saved : n.id \in 1..rows
  /\ \A m \in saved : \A n \in saved : m.id = n.id => m = n

(* A request has what its step uses, and chose a row of its own user. *)
Fitting(q) ==
  /\ q \in NeighborhoodRequest
  /\ q.step = "idle" => q = NoTab
  /\ q.step # "idle" => q.user \in Users /\ q.op \in {"add", "setPrimary", "remove"}
  /\ q.op = "add" => q.step \in {"count", "find", "clear", "create"} /\ q.place \in Places
  /\ q.op = "add" /\ q.step = "clear" => q.primary
  /\ q.op = "setPrimary" => q.step \in {"clear", "set"}
  /\ q.op = "remove" => q.step \in {"delete", "promote", "set"}
  /\ q.id <= rows
  /\ q.op \in {"setPrimary", "remove"} => \A n \in saved : n.id = q.id => n.user = q.user

TabsInv ==
  /\ tab \in [Tabs -> NeighborhoodRequest] /\ opened \in 0..MaxOpened /\ untidy \subseteq Users
  /\ \A t \in Tabs : Fitting(tab[t])

WidthInv ==
  \A u \in Users :
    Cardinality(SavedBy(u)) + Cardinality(Adding(u)) < MaxNeighborhoods + Cardinality(Tabs)

Tidy(u) ==
  SavedBy(u) # {} =>
    \E n \in SavedBy(u) : n.primary /\ \A m \in SavedBy(u) : m.primary => m = n
Bare(u) == \A n \in SavedBy(u) : ~n.primary

(* What is true of a user's rows while a request of the user's stands at a *)
(* step, when it is the only one.                                          *)
Standing(u, q) ==
  /\ q.step \in {"count", "find", "delete", "clear"} => Tidy(u)
  /\ q.step = "find" => SavedBy(u) # {} \/ q.primary
  /\ q.step = "create" => IF q.primary THEN Bare(u) ELSE Tidy(u) /\ SavedBy(u) # {}
  /\ q.step \in {"set", "promote"} => Bare(u)
  /\ q.step = "delete" => \A n \in SavedBy(u) : n.id = q.id => n.primary = q.primary

TidyFor(u) ==
  /\ \A s \in Tabs : \A t \in Tabs : tab[s].user = u /\ tab[t].user = u => s = t
  /\ (\A t \in Tabs : tab[t].user # u) => Tidy(u)
  /\ \A t \in Tabs : tab[t].user = u => Standing(u, tab[t])

TidyInv == \A u \in Users \ untidy : TidyFor(u)

NeighborhoodsInv == RowsInv /\ TabsInv /\ WidthInv /\ TidyInv

-----------------------------------------------------------------------------
LEMMA NoTabFields ==
  /\ NoTab \in NeighborhoodRequest /\ NoTab.op = "none" /\ NoTab.step = "idle"
  /\ NoTab.user = NONE /\ NoTab.id = 0
BY DEF NoTab, NeighborhoodRequest

LEMMA SavedFinite ==
  ASSUME RowsInv, TabsInv, NEW u
  PROVE  /\ IsFiniteSet(SavedBy(u)) /\ Cardinality(SavedBy(u)) \in Nat
         /\ IsFiniteSet(Adding(u)) /\ Cardinality(Adding(u)) \in Nat
         /\ Cardinality(Adding(u)) <= Cardinality(Tabs) /\ Cardinality(Tabs) \in Nat
<1>1. SavedBy(u) \in SUBSET saved /\ Adding(u) \in SUBSET Tabs
  BY DEF SavedBy, Adding
<1>2. IsFiniteSet(saved) /\ IsFiniteSet(Tabs)
  BY NeighborhoodsAssumption DEF RowsInv
<1> QED
  BY <1>1, <1>2, FS_Subset, FS_CardinalityType

(* A statement that only writes the column primary. *)
LEMMA RowsRewritten ==
  ASSUME RowsInv, TabsInv, NEW f \in [saved -> Neighborhood], saved' = {f[n] : n \in saved},
         \A n \in saved : f[n].id = n.id /\ f[n].user = n.user, rows' = rows
  PROVE  /\ RowsInv'
         /\ \A v \in Users : Cardinality(SavedBy(v)') <= Cardinality(SavedBy(v))
<1>1. \A m \in saved' : \E n \in saved : m = f[n]
  OBVIOUS
<1>2. f \in Surjection(saved, saved')
  BY DEF Surjection
<1>3. IsFiniteSet(saved')
  BY <1>2, FS_Surjection DEF RowsInv
<1>4. RowsInv'
  BY <1>1, <1>3 DEF RowsInv
<1>5. ASSUME NEW v \in Users PROVE Cardinality(SavedBy(v)') <= Cardinality(SavedBy(v))
  <2>. DEFINE S == SavedBy(v)
              T == {f[n] : n \in S}
              g == [n \in S |-> f[n]]
  <2>1. SavedBy(v)' = T
    BY <1>1 DEF SavedBy
  <2>2. IsFiniteSet(S)
    BY SavedFinite
  <2>3. g \in Surjection(S, T)
    BY DEF Surjection
  <2>. HIDE DEF S, T, g
  <2>4. Cardinality(T) <= Cardinality(S)
    BY <2>2, <2>3, FS_Surjection
  <2>. QED
    BY <2>1, <2>4 DEF S
<1> QED
  BY <1>4, <1>5

(* A request of a user goes on or ends: what it leaves of the user's rows. *)
LEMMA TidyKept ==
  ASSUME TabsInv, TidyInv, NEW t \in Tabs, NEW q, tab'[t] = q,
         \A s \in Tabs : s # t => tab'[s] = tab[s],
         untidy \subseteq untidy', q.user \in {tab[t].user, NONE},
         \A u \in Users : u # tab[t].user => SavedBy(u)' = SavedBy(u),
         \A u \in Users : u = tab[t].user /\ u \notin untidy' =>
           /\ q.user = u => Standing(u, q)'
           /\ q.user # u => Tidy(u)'
  PROVE  TidyInv'
<1> SUFFICES ASSUME NEW u \in Users, u \notin untidy' PROVE TidyFor(u)'
  BY DEF TidyInv
<1>. USE NeighborhoodsAssumption
<1>1. TidyFor(u) /\ u # NONE
  BY DEF TidyInv
<1>2. ASSUME NEW s1 \in Tabs, NEW s2 \in Tabs, tab'[s1].user = u, tab'[s2].user = u
      PROVE  s1 = s2
  <2>1. tab[s1].user = u /\ tab[s2].user = u
    BY <1>1, <1>2
  <2>. QED
    BY <1>1, <2>1 DEF TidyFor
<1>3. CASE u = tab[t].user
  <2>1. \A s \in Tabs : tab'[s].user = u => s = t
    <3>1. \A s \in Tabs : tab[s].user = u => s = t
      BY <1>1, <1>3 DEF TidyFor
    <3>. QED
      BY <3>1
  <2>2. (\A s \in Tabs : tab'[s].user # u) => Tidy(u)'
    BY <1>3
  <2>3. ASSUME NEW s \in Tabs, tab'[s].user = u PROVE Standing(u, tab[s])'
    <3>1. s = t /\ q.user = u
      BY <2>1, <2>3
    <3>2. Standing(u, q)'
      BY <1>3, <3>1
    <3>. QED
      BY <3>1, <3>2 DEF Standing
  <2>. QED
    BY <1>2, <2>2, <2>3 DEF TidyFor
<1>4. CASE u # tab[t].user
  <2>1. SavedBy(u)' = SavedBy(u) /\ q.user # u
    BY <1>1, <1>4
  <2>2. Tidy(u)' <=> Tidy(u)
    BY <2>1 DEF Tidy
  <2>3. Bare(u)' <=> Bare(u)
    BY <2>1 DEF Bare
  <2>4. (\A s \in Tabs : tab'[s].user # u) => Tidy(u)'
    <3>1. (\A s \in Tabs : tab'[s].user # u) => \A s \in Tabs : tab[s].user # u
      BY <1>4
    <3>. QED
      BY <1>1, <2>2, <3>1 DEF TidyFor
  <2>5. ASSUME NEW s \in Tabs, tab'[s].user = u PROVE Standing(u, tab[s])'
    <3>1. tab'[s] = tab[s] /\ Standing(u, tab[s])
      BY <1>1, <2>1, <2>5 DEF TidyFor
    <3>. QED
      BY <2>1, <2>2, <2>3, <3>1 DEF Standing
  <2>. QED
    BY <1>2, <2>4, <2>5 DEF TidyFor
<1> QED
  BY <1>3, <1>4

(* No row more, and no request more that is to add one. *)
LEMMA WidthKept ==
  ASSUME RowsInv, TabsInv, WidthInv, RowsInv', TabsInv', NEW t \in Tabs, NEW q, tab'[t] = q,
         \A s \in Tabs : s # t => tab'[s] = tab[s],
         \A v \in Users : Cardinality(SavedBy(v)') <= Cardinality(SavedBy(v)),
         q.op = "add" /\ q.step \in {"find", "clear", "create"} =>
           /\ tab[t].op = "add" /\ tab[t].step \in {"find", "clear", "create"}
           /\ tab[t].user = q.user
  PROVE  WidthInv'
<1> SUFFICES ASSUME NEW u \in Users
             PROVE  Cardinality(SavedBy(u)') + Cardinality(Adding(u)')
                      < MaxNeighborhoods + Cardinality(Tabs)
  BY DEF WidthInv
<1>1. Adding(u)' \in SUBSET Adding(u)
  BY DEF Adding
<1>2. /\ IsFiniteSet(Adding(u)) /\ Cardinality(Adding(u)) \in Nat
      /\ Cardinality(SavedBy(u)) \in Nat /\ Cardinality(Tabs) \in Nat
  BY SavedFinite
<1>3. Cardinality(Adding(u)') <= Cardinality(Adding(u)) /\ IsFiniteSet(Adding(u)')
  BY <1>1, <1>2, FS_Subset
<1>4. Cardinality(Adding(u)') \in Nat
  BY <1>3, FS_CardinalityType
<1>5. SavedBy(u)' \in SUBSET saved' /\ IsFiniteSet(saved')
  BY DEF SavedBy, RowsInv
<1>6. Cardinality(SavedBy(u)') \in Nat
  BY <1>5, FS_Subset, FS_CardinalityType
<1>7. Cardinality(SavedBy(u)) + Cardinality(Adding(u)) < MaxNeighborhoods + Cardinality(Tabs)
  BY DEF WidthInv
<1> QED
  BY <1>2, <1>3, <1>4, <1>6, <1>7, NeighborhoodsAssumption

LEMMA StartKeeps ==
  ASSUME NeighborhoodsInv, NEW t \in Tabs, NEW r, StartTab(t, r), Fitting(r), r.user \in Users,
         r.step \in {"count", "clear", "delete"}, r.op = "add" => r.step = "count",
         r.step = "delete" => \A n \in saved : n.id = r.id => n.primary = r.primary
  PROVE  NeighborhoodsInv'
<1>. USE NeighborhoodsAssumption
<1>1. /\ tab[t] = NoTab /\ opened < MaxOpened /\ opened' = opened + 1
      /\ tab' = [tab EXCEPT ![t] = r] /\ saved' = saved /\ rows' = rows
      /\ untidy' = IF \E o \in Tabs : tab[o].user = r.user
                   THEN untidy \cup {r.user} ELSE untidy
  BY DEF StartTab
<1>2. RowsInv'
  BY <1>1 DEF NeighborhoodsInv, RowsInv
<1>3. /\ tab' \in [Tabs -> NeighborhoodRequest] /\ tab'[t] = r
      /\ \A s \in Tabs : s # t => tab'[s] = tab[s]
  BY <1>1 DEF NeighborhoodsInv, TabsInv, Fitting
<1>4. TabsInv'
  <2>1. ASSUME NEW s \in Tabs PROVE Fitting(tab[s])'
    <3>1. CASE s = t
      BY <1>1, <1>3, <3>1 DEF Fitting
    <3>2. CASE s # t
      BY <1>1, <1>3, <3>2 DEF NeighborhoodsInv, TabsInv, Fitting
    <3>. QED
      BY <3>1, <3>2
  <2>2. opened' \in 0..MaxOpened /\ untidy' \subseteq Users
    BY <1>1 DEF NeighborhoodsInv, TabsInv
  <2>. QED
    BY <1>3, <2>1, <2>2 DEF TabsInv
<1>5. WidthInv'
  <2>1. \A v \in Users : SavedBy(v)' = SavedBy(v)
    BY <1>1 DEF SavedBy
  <2>2. \A v \in Users : Cardinality(SavedBy(v)') <= Cardinality(SavedBy(v))
    BY <2>1, SavedFinite DEF NeighborhoodsInv
  <2>. QED
    BY <1>2, <1>3, <1>4, <2>2, WidthKept DEF NeighborhoodsInv
<1>6. TidyInv'
  <2> SUFFICES ASSUME NEW u \in Users, u \notin untidy' PROVE TidyFor(u)'
    BY DEF TidyInv
  <2>1. TidyFor(u) /\ u # NONE /\ u \notin untidy
    BY <1>1 DEF NeighborhoodsInv, TidyInv
  <2>2. /\ SavedBy(u)' = SavedBy(u)
        /\ (Tidy(u)' <=> Tidy(u)) /\ (Bare(u)' <=> Bare(u))
    BY <1>1 DEF SavedBy, Tidy, Bare
  <2>3. tab[t].user = NONE
    BY <1>1, NoTabFields
  <2>4. CASE r.user = u
    <3>1. \A s \in Tabs : tab[s].user # u
      BY <1>1, <2>4
    <3>2. Tidy(u)
      BY <2>1, <3>1 DEF TidyFor
    <3>3. \A s \in Tabs : tab'[s].user = u => s = t
      BY <1>3, <3>1
    <3>4. Standing(u, r)'
      BY <1>1, <2>2, <3>2 DEF Standing, SavedBy
    <3>5. ASSUME NEW s \in Tabs, tab'[s].user = u PROVE Standing(u, tab[s])'
      <4>1. tab'[s] = r
        BY <1>3, <3>3, <3>5
      <4>. QED
        BY <3>4, <4>1 DEF Standing
    <3>. QED
      BY <2>2, <3>2, <3>3, <3>5 DEF TidyFor
  <2>5. CASE r.user # u
    <3>1. \A s \in Tabs : tab'[s].user = u => s # t /\ tab'[s] = tab[s]
      BY <1>3, <2>5
    <3>2. (\A s \in Tabs : tab'[s].user # u) => Tidy(u)'
      <4>1. (\A s \in Tabs : tab'[s].user # u) => \A s \in Tabs : tab[s].user # u
        BY <1>3, <2>1, <2>3
      <4>. QED
        BY <2>1, <2>2, <4>1 DEF TidyFor
    <3>3. ASSUME NEW s \in Tabs, tab'[s].user = u PROVE Standing(u, tab[s])'
      <4>1. tab'[s] = tab[s] /\ Standing(u, tab[s])
        BY <2>1, <3>1, <3>3 DEF TidyFor
      <4>. QED
        BY <2>2, <4>1 DEF Standing
    <3>4. \A s1 \in Tabs : \A s2 \in Tabs : tab'[s1].user = u /\ tab'[s2].user = u => s1 = s2
      BY <2>1, <3>1 DEF TidyFor
    <3>. QED
      BY <3>2, <3>3, <3>4 DEF TidyFor
  <2>. QED
    BY <2>4, <2>5
<1> QED
  BY <1>2, <1>4, <1>5, <1>6 DEF NeighborhoodsInv

LEMMA TabsKept ==
  ASSUME RowsInv, TabsInv, NEW t \in Tabs, NEW q, tab' = [tab EXCEPT ![t] = q], Fitting(q)',
         opened' = opened, untidy' \subseteq Users, rows' \in Nat, rows <= rows',
         \A m \in saved' : m.id <= rows => \E n \in saved : n.id = m.id /\ n.user = m.user
  PROVE  /\ TabsInv' /\ tab'[t] = q
         /\ \A s \in Tabs : s # t => tab'[s] = tab[s]
<1>1. /\ tab' \in [Tabs -> NeighborhoodRequest] /\ tab'[t] = q
      /\ \A s \in Tabs : s # t => tab'[s] = tab[s]
  BY DEF TabsInv, Fitting
<1>2. ASSUME NEW s \in Tabs PROVE Fitting(tab[s])'
  <2>1. CASE s = t
    BY <1>1, <2>1 DEF Fitting
  <2>2. CASE s # t
    <3>1. tab'[s] = tab[s] /\ Fitting(tab[s]) /\ tab[s].id \in Nat
      BY <1>1, <2>2 DEF TabsInv, Fitting, NeighborhoodRequest
    <3>2. tab[s].id <= rows'
      BY <3>1 DEF Fitting, RowsInv
    <3>3. tab[s].op \in {"setPrimary", "remove"} =>
            \A m \in saved' : m.id = tab[s].id => m.user = tab[s].user
      BY <3>1 DEF Fitting
    <3>. QED
      BY <3>1, <3>2, <3>3 DEF Fitting
  <2>. QED
    BY <2>1, <2>2
<1>3. opened' \in 0..MaxOpened
  BY DEF TabsInv
<1> QED
  BY <1>1, <1>2, <1>3 DEF TabsInv

(* A request that only reads goes on. *)
LEMMA ReadKeeps ==
  ASSUME NeighborhoodsInv, NEW t \in Tabs, NEW q, tab' = [tab EXCEPT ![t] = q], Fitting(q),
         UNCHANGED <<saved, rows, opened, untidy>>
  PROVE  /\ RowsInv' /\ TabsInv' /\ tab'[t] = q
         /\ \A s \in Tabs : s # t => tab'[s] = tab[s]
         /\ \A v \in Users : /\ SavedBy(v)' = SavedBy(v)
                             /\ Cardinality(SavedBy(v)') <= Cardinality(SavedBy(v))
                             /\ Standing(v, q)' <=> Standing(v, q)
                             /\ Tidy(v)' <=> Tidy(v)
<1>1. RowsInv'
  BY DEF NeighborhoodsInv, RowsInv
<1>2. /\ TabsInv' /\ tab'[t] = q
      /\ \A s \in Tabs : s # t => tab'[s] = tab[s]
  <2>1. Fitting(q)'
    BY DEF Fitting
  <2>2. untidy' \subseteq Users /\ rows' \in Nat /\ rows <= rows'
    BY DEF NeighborhoodsInv, RowsInv, TabsInv
  <2>. QED
    BY <2>1, <2>2, TabsKept DEF NeighborhoodsInv
<1>3. ASSUME NEW v \in Users
      PROVE  /\ SavedBy(v)' = SavedBy(v)
             /\ Cardinality(SavedBy(v)') <= Cardinality(SavedBy(v))
             /\ Standing(v, q)' <=> Standing(v, q)
             /\ Tidy(v)' <=> Tidy(v)
  <2>1. SavedBy(v)' = SavedBy(v)
    BY DEF SavedBy
  <2>2. Cardinality(SavedBy(v)) \in Nat
    BY SavedFinite DEF NeighborhoodsInv
  <2>3. (Tidy(v)' <=> Tidy(v)) /\ (Bare(v)' <=> Bare(v))
    BY <2>1 DEF Tidy, Bare
  <2>4. Standing(v, q)' <=> Standing(v, q)
    BY <2>1, <2>3 DEF Standing
  <2>. QED
    BY <2>1, <2>2, <2>3, <2>4
<1> QED
  BY <1>1, <1>2, <1>3

LEMMA CountStep ==
  ASSUME NeighborhoodsInv, NEW t \in Tabs, CountNeighborhoods(t)
  PROVE  NeighborhoodsInv'
<1>. USE NeighborhoodsAssumption
<1>. DEFINE old == tab[t]
            w == tab[t].user
            primary == old.primary \/ Cardinality(SavedBy(w)) = 0
            new == [old EXCEPT !.step = "find", !.primary = primary]
<1>1. /\ old.op = "add" /\ old.step = "count" /\ Cardinality(SavedBy(w)) < MaxNeighborhoods
      /\ UNCHANGED <<saved, rows, opened, untidy>>
  BY DEF CountNeighborhoods, Reached
<1>2. tab' = [tab EXCEPT ![t] = new]
  BY DEF CountNeighborhoods
<1>3. Fitting(old) /\ old \in NeighborhoodRequest /\ w \in Users /\ primary \in BOOLEAN
  BY <1>1 DEF NeighborhoodsInv, TabsInv, Fitting
<1>4. PICK q : /\ tab' = [tab EXCEPT ![t] = q]
               /\ q \in NeighborhoodRequest /\ q.op = "add" /\ q.step = "find" /\ q.user = w
               /\ q.place = old.place /\ q.id = old.id /\ q.primary = primary
  <2>1. /\ new \in NeighborhoodRequest /\ new.op = "add" /\ new.step = "find" /\ new.user = w
        /\ new.place = old.place /\ new.id = old.id /\ new.primary = primary
    BY <1>1, <1>3 DEF NeighborhoodRequest
  <2>. HIDE DEF new
  <2>. QED
    BY <1>2, <2>1
<1>5. Fitting(q)
  BY <1>1, <1>3, <1>4 DEF Fitting
<1>6. /\ RowsInv' /\ TabsInv' /\ tab'[t] = q
      /\ \A s \in Tabs : s # t => tab'[s] = tab[s]
      /\ \A v \in Users : /\ SavedBy(v)' = SavedBy(v)
                          /\ Cardinality(SavedBy(v)') <= Cardinality(SavedBy(v))
                          /\ Standing(v, q)' <=> Standing(v, q)
                          /\ Tidy(v)' <=> Tidy(v)
  BY <1>1, <1>4, <1>5, ReadKeeps
<1>7. WidthInv'
  <2> SUFFICES ASSUME NEW u \in Users
               PROVE  Cardinality(SavedBy(u)') + Cardinality(Adding(u)')
                        < MaxNeighborhoods + Cardinality(Tabs)
    BY DEF WidthInv
  <2>1. /\ IsFiniteSet(Tabs) /\ Cardinality(Tabs) \in Nat /\ Cardinality(SavedBy(u)) \in Nat
        /\ IsFiniteSet(Adding(u)) /\ Cardinality(Adding(u)) \in Nat
    BY SavedFinite DEF NeighborhoodsInv
  <2>2. CASE u = w
    <3>1. Adding(u)' \in SUBSET Tabs
      BY DEF Adding
    <3>2. Cardinality(Adding(u)') <= Cardinality(Tabs) /\ Cardinality(Adding(u)') \in Nat
      BY <2>1, <3>1, FS_Subset, FS_CardinalityType
    <3>3. Cardinality(SavedBy(u)') < MaxNeighborhoods /\ Cardinality(SavedBy(u)') \in Nat
      BY <1>1, <1>6, <2>1, <2>2
    <3>. QED
      BY <2>1, <3>2, <3>3
  <2>3. CASE u # w
    <3>1. Adding(u)' \in SUBSET Adding(u)
      BY <1>4, <1>6, <2>3 DEF Adding
    <3>2. Cardinality(Adding(u)') <= Cardinality(Adding(u)) /\ Cardinality(Adding(u)') \in Nat
      BY <2>1, <3>1, FS_Subset, FS_CardinalityType
    <3>3. Cardinality(SavedBy(u)) + Cardinality(Adding(u)) < MaxNeighborhoods + Cardinality(Tabs)
      BY DEF NeighborhoodsInv, WidthInv
    <3>4. Cardinality(SavedBy(u)') = Cardinality(SavedBy(u))
      BY <1>6
    <3>. QED
      BY <2>1, <3>2, <3>3, <3>4
  <2>. QED
    BY <2>2, <2>3
<1>8. TidyInv'
  <2>1. ASSUME NEW u \in Users, u = w, u \notin untidy' PROVE Standing(u, q)'
    <3>1. TidyFor(u)
      BY <1>1, <2>1 DEF NeighborhoodsInv, TidyInv
    <3>2. Tidy(u)
      BY <1>1, <2>1, <3>1 DEF TidyFor, Standing
    <3>3. SavedBy(u) # {} \/ q.primary
      BY <1>4, <2>1, FS_EmptySet
    <3>4. Standing(u, q)
      BY <1>4, <3>2, <3>3 DEF Standing
    <3>. QED
      BY <1>6, <3>4
  <2>. QED
    BY <1>1, <1>4, <1>6, <2>1, TidyKept DEF NeighborhoodsInv
<1> QED
  BY <1>6, <1>7, <1>8 DEF NeighborhoodsInv

LEMMA FindStep ==
  ASSUME NeighborhoodsInv, NEW t \in Tabs, FindByLocation(t)
  PROVE  NeighborhoodsInv'
<1>. USE NeighborhoodsAssumption
<1>. DEFINE old == tab[t]
            w == tab[t].user
            next == IF old.primary THEN "clear" ELSE "create"
            new == [old EXCEPT !.step = next]
<1>1. /\ old.op = "add" /\ old.step = "find"
      /\ tab' = [tab EXCEPT ![t] = new]
      /\ UNCHANGED <<saved, rows, opened, untidy>>
  BY DEF FindByLocation, Reached, Proceed
<1>2. Fitting(old) /\ old \in NeighborhoodRequest /\ w \in Users
  BY <1>1 DEF NeighborhoodsInv, TabsInv, Fitting
<1>3. PICK q : /\ tab' = [tab EXCEPT ![t] = q]
               /\ q \in NeighborhoodRequest /\ q.op = "add" /\ q.step \in {"clear", "create"}
               /\ q.user = w /\ q.place = old.place /\ q.id = old.id /\ q.primary = old.primary
               /\ q.step = "clear" <=> old.primary
  <2>1. next \in {"clear", "create"} /\ (next = "clear" <=> old.primary)
    OBVIOUS
  <2>2. /\ new \in NeighborhoodRequest /\ new.op = "add" /\ new.step = next /\ new.user = w
        /\ new.place = old.place /\ new.id = old.id /\ new.primary = old.primary
    BY <1>1, <1>2 DEF NeighborhoodRequest
  <2>. HIDE DEF new, next
  <2>. QED
    BY <1>1, <2>1, <2>2
<1>4. Fitting(q)
  BY <1>1, <1>2, <1>3 DEF Fitting
<1>5. /\ RowsInv' /\ TabsInv' /\ tab'[t] = q
      /\ \A s \in Tabs : s # t => tab'[s] = tab[s]
      /\ \A v \in Users : /\ SavedBy(v)' = SavedBy(v)
                          /\ Cardinality(SavedBy(v)') <= Cardinality(SavedBy(v))
                          /\ Standing(v, q)' <=> Standing(v, q)
                          /\ Tidy(v)' <=> Tidy(v)
  BY <1>1, <1>3, <1>4, ReadKeeps
<1>6. WidthInv'
  BY <1>1, <1>3, <1>5, WidthKept DEF NeighborhoodsInv
<1>7. TidyInv'
  <2>1. ASSUME NEW u \in Users, u = w, u \notin untidy' PROVE Standing(u, q)'
    <3>1. Standing(u, old)
      BY <1>1, <2>1 DEF NeighborhoodsInv, TidyInv, TidyFor
    <3>2. Standing(u, q)
      BY <1>1, <1>3, <3>1 DEF Standing
    <3>. QED
      BY <1>5, <3>2
  <2>. QED
    BY <1>1, <1>3, <1>5, <2>1, TidyKept DEF NeighborhoodsInv
<1> QED
  BY <1>5, <1>6, <1>7 DEF NeighborhoodsInv

(* A statement that writes the column primary of rows of the request's user. *)
LEMMA WriteKeeps ==
  ASSUME NeighborhoodsInv, NEW t \in Tabs, NEW q, tab' = [tab EXCEPT ![t] = q], Fitting(q),
         q.user \in {tab[t].user, NONE}, q.op \in {tab[t].op, "none"},
         q.op = "add" => tab[t].step = "clear",
         NEW f \in [saved -> Neighborhood], saved' = {f[n] : n \in saved},
         \A n \in saved : /\ f[n].id = n.id /\ f[n].user = n.user
                          /\ n.user # tab[t].user => f[n] = n,
         UNCHANGED <<rows, opened, untidy>>,
         \A u \in Users : u = tab[t].user /\ u \notin untidy =>
           /\ q.user = u => Standing(u, q)'
           /\ q.user # u => Tidy(u)'
  PROVE  NeighborhoodsInv'
<1>1. /\ RowsInv'
      /\ \A v \in Users : Cardinality(SavedBy(v)') <= Cardinality(SavedBy(v))
  BY RowsRewritten DEF NeighborhoodsInv
<1>2. \A m \in saved' : \E n \in saved : n.id = m.id /\ n.user = m.user
  OBVIOUS
<1>3. /\ TabsInv' /\ tab'[t] = q
      /\ \A s \in Tabs : s # t => tab'[s] = tab[s]
  <2>1. Fitting(q)'
    BY <1>2 DEF Fitting
  <2>2. untidy' \subseteq Users /\ rows' \in Nat /\ rows <= rows'
    BY DEF NeighborhoodsInv, RowsInv, TabsInv
  <2>. QED
    BY <1>2, <2>1, <2>2, TabsKept DEF NeighborhoodsInv
<1>4. WidthInv'
  <2>1. q.op = "add" /\ q.step \in {"find", "clear", "create"} =>
          /\ tab[t].op = "add" /\ tab[t].step \in {"find", "clear", "create"}
          /\ tab[t].user = q.user
    BY NeighborhoodsAssumption DEF Fitting
  <2>. QED
    BY <1>1, <1>3, <2>1, WidthKept DEF NeighborhoodsInv
<1>5. \A u \in Users : u # tab[t].user => SavedBy(u)' = SavedBy(u)
  <2> SUFFICES ASSUME NEW u \in Users, u # tab[t].user PROVE SavedBy(u)' = SavedBy(u)
    OBVIOUS
  <2>1. \A m \in saved' : m.user = u => m \in saved
    OBVIOUS
  <2>2. \A n \in saved : n.user = u => n \in saved'
    OBVIOUS
  <2>. QED
    BY <2>1, <2>2 DEF SavedBy
<1>6. TidyInv'
  BY <1>3, <1>5, TidyKept DEF NeighborhoodsInv
<1> QED
  BY <1>1, <1>3, <1>4, <1>6 DEF NeighborhoodsInv

LEMMA ClearStep ==
  ASSUME NeighborhoodsInv, NEW t \in Tabs, ClearBeforeSetting(t)
  PROVE  NeighborhoodsInv'
<1>. USE NeighborhoodsAssumption
<1>. DEFINE old == tab[t]
            next == IF old.op = "add" THEN "create" ELSE "set"
            new == [old EXCEPT !.step = next]
<1>0. PICK w : w = old.user
  OBVIOUS
<1>1. /\ old.step = "clear" /\ saved' = ClearPrimary(w)
      /\ tab' = [tab EXCEPT ![t] = new]
      /\ UNCHANGED <<rows, opened, untidy>>
  BY <1>0 DEF ClearBeforeSetting, Proceed
<1>2. /\ Fitting(old) /\ old \in NeighborhoodRequest /\ w \in Users
      /\ old.op \in {"add", "setPrimary"} /\ (old.op = "add" => old.primary)
  BY <1>0, <1>1 DEF NeighborhoodsInv, TabsInv, Fitting
<1>3. PICK q : /\ tab' = [tab EXCEPT ![t] = q]
               /\ q \in NeighborhoodRequest /\ q.op = old.op /\ q.user = w
               /\ q.place = old.place /\ q.id = old.id /\ q.primary = old.primary
               /\ q.op = "add" => q.step = "create"
               /\ q.op = "setPrimary" => q.step = "set"
  <2>1. (old.op = "add" => next = "create") /\ (old.op = "setPrimary" => next = "set")
    OBVIOUS
  <2>2. /\ new \in NeighborhoodRequest /\ new.op = old.op /\ new.step = next /\ new.user = w
        /\ new.place = old.place /\ new.id = old.id /\ new.primary = old.primary
    BY <1>0, <1>2 DEF NeighborhoodRequest
  <2>. HIDE DEF new, next
  <2>. QED
    BY <1>1, <2>1, <2>2
<1>4. Fitting(q)
  BY <1>0, <1>2, <1>3 DEF Fitting
<1>5. PICK f \in [saved -> Neighborhood] :
        /\ saved' = {f[n] : n \in saved}
        /\ \A n \in saved : /\ f[n].id = n.id /\ f[n].user = n.user
                            /\ n.user # w => f[n] = n
                            /\ n.user = w => ~f[n].primary
  <2>. DEFINE f == [n \in saved |-> IF n.user = w THEN [n EXCEPT !.primary = FALSE] ELSE n]
  <2>1. ASSUME NEW n \in saved
        PROVE  /\ f[n] \in Neighborhood /\ f[n].id = n.id /\ f[n].user = n.user
               /\ n.user # w => f[n] = n
               /\ n.user = w => ~f[n].primary
    <3>1. n \in Neighborhood
      BY DEF NeighborhoodsInv, RowsInv
    <3>. QED
      BY <3>1 DEF Neighborhood
  <2>2. saved' = {f[n] : n \in saved}
    BY <1>1 DEF ClearPrimary
  <2>3. f \in [saved -> Neighborhood]
    BY <2>1
  <2>. HIDE DEF f
  <2>. QED
    BY <2>1, <2>2, <2>3
<1>6. Bare(w)'
  BY <1>5 DEF Bare, SavedBy
<1>7. \A u \in Users : u = w =>
        /\ q.user = u => Standing(u, q)'
        /\ q.user # u => Tidy(u)'
  BY <1>2, <1>3, <1>6 DEF Standing, Bare, SavedBy
<1>8. \A n \in saved : /\ f[n].id = n.id /\ f[n].user = n.user
                       /\ n.user # tab[t].user => f[n] = n
  BY <1>0, <1>5
<1>9. \A u \in Users : u = tab[t].user /\ u \notin untidy =>
        /\ q.user = u => Standing(u, q)'
        /\ q.user # u => Tidy(u)'
  BY <1>0, <1>7
<1>10. /\ q.user \in {tab[t].user, NONE} /\ q.op \in {tab[t].op, "none"}
       /\ q.op = "add" => tab[t].step = "clear"
  BY <1>0, <1>1, <1>3
<1>11. tab' = [tab EXCEPT ![t] = q] /\ UNCHANGED <<rows, opened, untidy>>
  BY <1>1, <1>3
<1>12. saved' = {f[n] : n \in saved}
  BY <1>5
<1>. HIDE DEF old, new, next
<1> QED
  BY <1>4, <1>8, <1>9, <1>10, <1>11, <1>12, WriteKeeps

LEMMA SetStep ==
  ASSUME NeighborhoodsInv, NEW t \in Tabs, SetPrimary(t)
  PROVE  NeighborhoodsInv'
<1>. USE NeighborhoodsAssumption
<1>. DEFINE old == tab[t]
            id == tab[t].id
<1>0. PICK w : w = old.user
  OBVIOUS
<1>1. /\ old.step = "set" /\ saved' = MarkPrimary(id)
      /\ tab' = [tab EXCEPT ![t] = NoTab]
      /\ UNCHANGED <<rows, opened, untidy>>
  BY DEF SetPrimary, Done
<1>2. PICK chosen \in saved : chosen.id = id
  BY DEF SetPrimary, Exists
<1>3. /\ Fitting(old) /\ w \in Users /\ w # NONE
      /\ \A n \in saved : n.id = id => n = chosen /\ n.user = w
  BY <1>0, <1>1, <1>2 DEF NeighborhoodsInv, RowsInv, TabsInv, Fitting
<1>4. Fitting(NoTab)
  BY NoTabFields DEF NeighborhoodsInv, RowsInv, Fitting
<1>5. PICK f \in [saved -> Neighborhood] :
        /\ saved' = {f[n] : n \in saved}
        /\ \A n \in saved : /\ f[n].id = n.id /\ f[n].user = n.user
                            /\ n # chosen => f[n] = n
                            /\ n = chosen => f[n].primary
  <2>. DEFINE f == [n \in saved |-> IF n.id = id THEN [n EXCEPT !.primary = TRUE] ELSE n]
  <2>1. ASSUME NEW n \in saved
        PROVE  /\ f[n] \in Neighborhood /\ f[n].id = n.id /\ f[n].user = n.user
               /\ n # chosen => f[n] = n
               /\ n = chosen => f[n].primary
    <3>1. n \in Neighborhood
      BY DEF NeighborhoodsInv, RowsInv
    <3>. QED
      BY <1>2, <1>3, <3>1 DEF Neighborhood
  <2>2. saved' = {f[n] : n \in saved}
    BY <1>1 DEF MarkPrimary
  <2>3. f \in [saved -> Neighborhood]
    BY <2>1
  <2>. HIDE DEF f
  <2>. QED
    BY <2>1, <2>2, <2>3
<1>6. ASSUME w \notin untidy PROVE Tidy(w)'
  <2>1. Standing(w, old)
    BY <1>0, <1>3, <1>6 DEF NeighborhoodsInv, TidyInv, TidyFor
  <2>2. \A n \in saved : n.user = w => ~n.primary
    BY <1>1, <2>1 DEF Standing, Bare, SavedBy
  <2>3. f[chosen] \in saved' /\ f[chosen].user = w /\ f[chosen].primary
    BY <1>2, <1>3, <1>5
  <2>4. ASSUME NEW m \in saved', m.user = w, m.primary PROVE m = f[chosen]
    <3>1. PICK n \in saved : m = f[n]
      BY <1>5
    <3>. QED
      BY <1>5, <2>2, <2>4, <3>1
  <2>. QED
    BY <2>3, <2>4 DEF Tidy, SavedBy
<1>7. \A u \in Users : u = w /\ u \notin untidy =>
        /\ NoTab.user = u => Standing(u, NoTab)'
        /\ NoTab.user # u => Tidy(u)'
  BY <1>3, <1>6, NoTabFields DEF Tidy, SavedBy
<1>8. \A n \in saved : /\ f[n].id = n.id /\ f[n].user = n.user
                       /\ n.user # tab[t].user => f[n] = n
  BY <1>0, <1>2, <1>3, <1>5
<1>9. \A u \in Users : u = tab[t].user /\ u \notin untidy =>
        /\ NoTab.user = u => Standing(u, NoTab)'
        /\ NoTab.user # u => Tidy(u)'
  BY <1>0, <1>7
<1>10. /\ NoTab.user \in {tab[t].user, NONE} /\ NoTab.op \in {tab[t].op, "none"}
       /\ NoTab.op = "add" => tab[t].step = "clear"
  BY NoTabFields
<1> QED
  BY <1>1, <1>4, <1>5, <1>8, <1>9, <1>10, WriteKeeps

LEMMA SaveRowStep ==
  ASSUME NeighborhoodsInv, NEW t \in Tabs, CreateNeighborhood(t)
  PROVE  NeighborhoodsInv'
<1>. USE NeighborhoodsAssumption
<1>. DEFINE old == tab[t]
<1>0. PICK w : w = old.user
  OBVIOUS
<1>1. /\ old.op = "add" /\ old.step = "create" /\ rows' = rows + 1
      /\ tab' = [tab EXCEPT ![t] = NoTab]
      /\ UNCHANGED <<opened, untidy>>
  BY DEF CreateNeighborhood, Reached, Done
<1>2. /\ Fitting(old) /\ old \in NeighborhoodRequest /\ w \in Users /\ w # NONE
      /\ old.place \in Places /\ rows \in Nat
  BY <1>0, <1>1 DEF NeighborhoodsInv, RowsInv, TabsInv, Fitting
<1>3. PICK row \in Neighborhood : /\ saved' = saved \cup {row}
                                  /\ row.id = rows + 1 /\ row.user = w
                                  /\ row.primary = old.primary
  <2>. DEFINE row == [id |-> rows + 1, user |-> old.user, place |-> old.place,
                      primary |-> old.primary]
  <2>1. /\ row \in Neighborhood /\ row.id = rows + 1 /\ row.user = w
        /\ row.primary = old.primary
    BY <1>0, <1>2 DEF Neighborhood, NeighborhoodRequest
  <2>2. saved' = saved \cup {row}
    BY DEF CreateNeighborhood
  <2>. HIDE DEF row
  <2>. QED
    BY <2>1, <2>2
<1>4. row \notin saved /\ \A n \in saved : n.id \in 1..rows /\ n.id # row.id
  BY <1>2, <1>3 DEF NeighborhoodsInv, RowsInv
<1>5. RowsInv'
  <2>1. IsFiniteSet(saved')
    BY <1>3, FS_AddElement DEF NeighborhoodsInv, RowsInv
  <2>2. saved' \subseteq Neighborhood /\ rows' \in Nat /\ \A n \in saved' : n.id \in 1..rows'
    BY <1>1, <1>2, <1>3, <1>4 DEF NeighborhoodsInv, RowsInv
  <2>3. \A m \in saved' : \A n \in saved' : m.id = n.id => m = n
    BY <1>3, <1>4 DEF NeighborhoodsInv, RowsInv
  <2>. QED
    BY <2>1, <2>2, <2>3 DEF RowsInv
<1>6. /\ TabsInv' /\ tab'[t] = NoTab
      /\ \A s \in Tabs : s # t => tab'[s] = tab[s]
  <2>1. Fitting(NoTab)'
    BY <1>5, NoTabFields DEF RowsInv, Fitting
  <2>2. /\ opened' = opened /\ untidy' \subseteq Users /\ rows' \in Nat /\ rows <= rows'
    BY <1>1, <1>2 DEF NeighborhoodsInv, TabsInv
  <2>3. \A m \in saved' : m.id <= rows => \E n \in saved : n.id = m.id /\ n.user = m.user
    BY <1>2, <1>3
  <2>. QED
    BY <1>1, <2>1, <2>2, <2>3, TabsKept DEF NeighborhoodsInv
<1>7. /\ SavedBy(w)' = SavedBy(w) \cup {row} /\ row \notin SavedBy(w)
      /\ \A u \in Users : u # w => SavedBy(u)' = SavedBy(u)
  BY <1>3, <1>4 DEF SavedBy
<1>8. WidthInv'
  <2> SUFFICES ASSUME NEW u \in Users
               PROVE  Cardinality(SavedBy(u)') + Cardinality(Adding(u)')
                        < MaxNeighborhoods + Cardinality(Tabs)
    BY DEF WidthInv
  <2>1. /\ Cardinality(Tabs) \in Nat
        /\ IsFiniteSet(SavedBy(u)) /\ Cardinality(SavedBy(u)) \in Nat
        /\ IsFiniteSet(Adding(u)) /\ Cardinality(Adding(u)) \in Nat
    BY SavedFinite DEF NeighborhoodsInv
  <2>2. Cardinality(SavedBy(u)) + Cardinality(Adding(u)) < MaxNeighborhoods + Cardinality(Tabs)
    BY DEF NeighborhoodsInv, WidthInv
  <2>3. CASE u = w
    <3>1. Adding(u)' = Adding(u) \ {t} /\ t \in Adding(u)
      BY <1>0, <1>1, <1>6, <2>3, NoTabFields DEF Adding
    <3>2. Cardinality(Adding(u)') = Cardinality(Adding(u)) - 1
      BY <2>1, <3>1, FS_RemoveElement
    <3>3. Cardinality(SavedBy(u)') = Cardinality(SavedBy(u)) + 1
      BY <1>7, <2>1, <2>3, FS_AddElement
    <3>. QED
      BY <2>1, <2>2, <3>2, <3>3
  <2>4. CASE u # w
    <3>1. Adding(u)' \in SUBSET Adding(u)
      BY <1>6, NoTabFields DEF Adding
    <3>2. Cardinality(Adding(u)') <= Cardinality(Adding(u)) /\ Cardinality(Adding(u)') \in Nat
      BY <2>1, <3>1, FS_Subset, FS_CardinalityType
    <3>3. Cardinality(SavedBy(u)') = Cardinality(SavedBy(u))
      BY <1>7, <2>4
    <3>. QED
      BY <2>1, <2>2, <3>2, <3>3
  <2>. QED
    BY <2>3, <2>4
<1>9. TidyInv'
  <2>1. ASSUME w \notin untidy' PROVE Tidy(w)'
    <3>1. Standing(w, old)
      BY <1>0, <1>1, <1>2, <2>1 DEF NeighborhoodsInv, TidyInv, TidyFor
    <3>2. CASE old.primary
      <4>1. \A m \in SavedBy(w) : ~m.primary
        BY <1>1, <3>1, <3>2 DEF Standing, Bare
      <4>. QED
        BY <1>3, <1>7, <3>2, <4>1 DEF Tidy
    <3>3. CASE ~old.primary
      <4>1. Tidy(w) /\ SavedBy(w) # {}
        BY <1>1, <3>1, <3>3 DEF Standing
      <4>2. PICK n \in SavedBy(w) : n.primary /\ \A m \in SavedBy(w) : m.primary => m = n
        BY <4>1 DEF Tidy
      <4>3. n \in SavedBy(w)' /\ \A m \in SavedBy(w)' : m.primary => m = n
        BY <1>3, <1>7, <3>3, <4>2
      <4>. QED
        BY <4>2, <4>3 DEF Tidy
    <3>. QED
      BY <3>2, <3>3
  <2>2. \A u \in Users : u = tab[t].user /\ u \notin untidy' =>
          /\ NoTab.user = u => Standing(u, NoTab)'
          /\ NoTab.user # u => Tidy(u)'
    <3>1. \A u \in Users : u = tab[t].user => u = w /\ NoTab.user # u
      BY <1>0, <1>2, NoTabFields
    <3>2. \A u : u = w /\ w \notin untidy' => Tidy(u)'
      BY <2>1 DEF Tidy, SavedBy
    <3>. QED
      BY <3>1, <3>2
  <2>3. NoTab.user \in {tab[t].user, NONE} /\ untidy \subseteq untidy'
    BY <1>1, NoTabFields
  <2>4. \A u \in Users : u # tab[t].user => SavedBy(u)' = SavedBy(u)
    BY <1>0, <1>7
  <2>. QED
    BY <1>6, <2>2, <2>3, <2>4, TidyKept DEF NeighborhoodsInv
<1> QED
  BY <1>5, <1>6, <1>8, <1>9 DEF NeighborhoodsInv

(* The row is gone; the next statements choose another primary one. *)
LEMMA RemoveStep ==
  ASSUME NeighborhoodsInv, NEW t \in Tabs, DeleteNeighborhood(t)
  PROVE  NeighborhoodsInv'
<1>. USE NeighborhoodsAssumption
<1>. DEFINE old == tab[t]
            new == IF old.primary THEN [old EXCEPT !.step = "promote"] ELSE NoTab
<1>0. PICK w, id : w = old.user /\ id = old.id
  OBVIOUS
<1>1. /\ old.op = "remove" /\ old.step = "delete"
      /\ saved' = {n \in saved : n.id # id}
      /\ tab' = [tab EXCEPT ![t] = new]
      /\ UNCHANGED <<rows, opened, untidy>>
  BY <1>0 DEF DeleteNeighborhood, Reached, Done, Proceed
<1>2. PICK gone \in saved : gone.id = id
  BY <1>0 DEF DeleteNeighborhood, Exists
<1>3. /\ Fitting(old) /\ old \in NeighborhoodRequest /\ w \in Users /\ w # NONE
      /\ \A n \in saved : n.id = id => n = gone /\ n.user = w
  BY <1>0, <1>1, <1>2 DEF NeighborhoodsInv, RowsInv, TabsInv, Fitting
<1>4. saved' = saved \ {gone}
  BY <1>1, <1>2, <1>3
<1>5. PICK q : /\ tab' = [tab EXCEPT ![t] = q] /\ q \in NeighborhoodRequest
               /\ old.primary => /\ q.op = "remove" /\ q.step = "promote" /\ q.user = w
                                 /\ q.id = id
               /\ ~old.primary => q = NoTab
  <2>1. /\ new \in NeighborhoodRequest
        /\ old.primary => /\ new.op = "remove" /\ new.step = "promote" /\ new.user = w
                          /\ new.id = id
        /\ ~old.primary => new = NoTab
    BY <1>0, <1>1, <1>3, NoTabFields DEF NeighborhoodRequest
  <2>. HIDE DEF new
  <2>. QED
    BY <1>1, <2>1
<1>6. q.user \in {w, NONE} /\ q.op # "add"
  BY <1>5, NoTabFields
<1>7. RowsInv'
  <2>1. IsFiniteSet(saved')
    BY <1>4, FS_Subset DEF NeighborhoodsInv, RowsInv
  <2>. QED
    BY <1>1, <1>4, <2>1 DEF NeighborhoodsInv, RowsInv
<1>8. /\ TabsInv' /\ tab'[t] = q
      /\ \A s \in Tabs : s # t => tab'[s] = tab[s]
  <2>1. Fitting(q)'
    <3>1. CASE old.primary
      BY <1>0, <1>1, <1>3, <1>4, <1>5, <3>1 DEF Fitting
    <3>2. CASE ~old.primary
      BY <1>5, <1>7, <3>2, NoTabFields DEF RowsInv, Fitting
    <3>. QED
      BY <3>1, <3>2
  <2>2. untidy' \subseteq Users /\ rows' \in Nat /\ rows <= rows' /\ opened' = opened
    BY <1>1 DEF NeighborhoodsInv, RowsInv, TabsInv
  <2>3. \A m \in saved' : m.id <= rows => \E n \in saved : n.id = m.id /\ n.user = m.user
    BY <1>4
  <2>. QED
    BY <1>5, <2>1, <2>2, <2>3, TabsKept DEF NeighborhoodsInv
<1>9. /\ SavedBy(w)' = SavedBy(w) \ {gone} /\ gone \in SavedBy(w)
      /\ \A u \in Users : u # w => SavedBy(u)' = SavedBy(u)
  BY <1>2, <1>3, <1>4 DEF SavedBy
<1>10. WidthInv'
  <2>1. \A v \in Users : Cardinality(SavedBy(v)') <= Cardinality(SavedBy(v))
    <3> SUFFICES ASSUME NEW v \in Users
                 PROVE  Cardinality(SavedBy(v)') <= Cardinality(SavedBy(v))
      OBVIOUS
    <3>1. SavedBy(v)' \in SUBSET SavedBy(v)
      BY <1>4 DEF SavedBy
    <3>. QED
      BY <3>1, SavedFinite, FS_Subset DEF NeighborhoodsInv
  <2>. QED
    BY <1>6, <1>7, <1>8, <2>1, WidthKept DEF NeighborhoodsInv
<1>11. TidyInv'
  <2>1. ASSUME w \notin untidy'
        PROVE  /\ old.primary => Bare(w)'
               /\ ~old.primary => Tidy(w)'
    <3>1. Standing(w, old)
      BY <1>0, <1>1, <1>3, <2>1 DEF NeighborhoodsInv, TidyInv, TidyFor
    <3>2. Tidy(w) /\ gone.primary = old.primary
      BY <1>0, <1>1, <1>2, <1>9, <3>1 DEF Standing
    <3>3. PICK n \in SavedBy(w) : n.primary /\ \A m \in SavedBy(w) : m.primary => m = n
      BY <1>9, <3>2 DEF Tidy
    <3>4. ASSUME old.primary PROVE Bare(w)'
      <4>1. gone = n
        BY <1>9, <3>2, <3>3, <3>4
      <4>. QED
        BY <1>9, <3>3, <4>1 DEF Bare
    <3>5. ASSUME ~old.primary PROVE Tidy(w)'
      <4>1. n \in SavedBy(w)' /\ \A m \in SavedBy(w)' : m.primary => m = n
        BY <1>9, <3>2, <3>3, <3>5
      <4>. QED
        BY <3>3, <4>1 DEF Tidy
    <3>. QED
      BY <3>4, <3>5
  <2>2. ASSUME w \notin untidy'
        PROVE  /\ q.user = w => Standing(w, q)'
               /\ q.user # w => Tidy(w)'
    BY <1>3, <1>5, <2>1, <2>2, NoTabFields DEF Standing
  <2>3. \A u \in Users : u = tab[t].user /\ u \notin untidy' =>
          /\ q.user = u => Standing(u, q)'
          /\ q.user # u => Tidy(u)'
    BY <1>0, <2>2 DEF Standing, Tidy, Bare, SavedBy
  <2>4. q.user \in {tab[t].user, NONE} /\ untidy \subseteq untidy'
    BY <1>0, <1>1, <1>6
  <2>5. \A u \in Users : u # tab[t].user => SavedBy(u)' = SavedBy(u)
    BY <1>0, <1>9
  <2>. QED
    BY <1>8, <2>3, <2>4, <2>5, TidyKept DEF NeighborhoodsInv
<1> QED
  BY <1>7, <1>8, <1>10, <1>11 DEF NeighborhoodsInv

LEMMA FirstIsThere ==
  ASSUME NEW R, R # {}, \A n \in R : n.id \in Nat
  PROVE  \E n \in R : FirstOf(R) = n.id
<1>. DEFINE preferred == IF \E n \in R : n.primary THEN {n \in R : n.primary} ELSE R
            ids0 == {n.id : n \in preferred}
<1>1. preferred \subseteq R /\ preferred # {}
  OBVIOUS
<1>2. ids0 \subseteq Nat /\ ids0 # {}
  BY <1>1
<1>. HIDE DEF ids0
<1>3. PICK x \in ids0 : \A y \in ids0 : <<y, x>> \notin OpToRel(<, Nat)
  BY <1>2, WFMin, NatLessThanWellFounded
<1>4. \A y \in ids0 : ~ (y < x)
  BY <1>2, <1>3, Zenon DEF OpToRel
<1>5. \A y \in ids0 : x =< y
  BY <1>2, <1>4
<1>6. Min(ids0) \in ids0
  BY <1>5 DEF Min
<1>7. FirstOf(R) = Min(ids0)
  BY DEF FirstOf, ids0
<1>8. \A i \in ids0 : \E n \in R : i = n.id
  BY <1>1 DEF ids0
<1> QED
  BY <1>6, <1>7, <1>8

LEMMA PromoteStep ==
  ASSUME NeighborhoodsInv, NEW t \in Tabs, FindRemaining(t)
  PROVE  NeighborhoodsInv'
<1>. USE NeighborhoodsAssumption
<1>. DEFINE old == tab[t]
            remaining == SavedBy(old.user)
            next == [old EXCEPT !.step = "set", !.id = FirstOf(remaining)]
            new == IF remaining = {} THEN NoTab ELSE next
<1>0. PICK w : w = old.user
  OBVIOUS
<1>1. /\ old.op = "remove" /\ old.step = "promote"
      /\ tab' = [tab EXCEPT ![t] = new]
      /\ UNCHANGED <<saved, rows, opened, untidy>>
  BY DEF FindRemaining, Reached
<1>2. Fitting(old) /\ old \in NeighborhoodRequest /\ w \in Users /\ w # NONE
  BY <1>0, <1>1 DEF NeighborhoodsInv, TabsInv, Fitting
<1>3. remaining # {} => \E n \in remaining : FirstOf(remaining) = n.id
  <2>1. \A n \in remaining : n.id \in Nat
    BY DEF SavedBy, NeighborhoodsInv, RowsInv
  <2>. QED
    BY <2>1, FirstIsThere
<1>4. PICK q : /\ tab' = [tab EXCEPT ![t] = q] /\ Fitting(q) /\ q.user \in {w, NONE}
               /\ q.op # "add"
               /\ remaining = {} => q = NoTab
               /\ remaining # {} => q.op = "remove" /\ q.step = "set" /\ q.user = w
  <2>1. CASE remaining = {}
    <3>1. Fitting(NoTab)
      BY NoTabFields DEF NeighborhoodsInv, RowsInv, Fitting
    <3>2. tab' = [tab EXCEPT ![t] = NoTab]
      BY <1>1, <2>1
    <3>. QED
      BY <2>1, <3>1, <3>2, NoTabFields
  <2>2. CASE remaining # {}
    <3>1. PICK n \in remaining : FirstOf(remaining) = n.id
      BY <1>3, <2>2
    <3>2. n \in saved /\ n.user = w /\ n.id \in Nat /\ n.id <= rows
      BY <1>0 DEF SavedBy, NeighborhoodsInv, RowsInv
    <3>3. /\ next \in NeighborhoodRequest /\ next.op = "remove" /\ next.step = "set"
          /\ next.user = w /\ next.id = n.id
      BY <1>0, <1>1, <1>2, <3>1, <3>2 DEF NeighborhoodRequest
    <3>4. tab' = [tab EXCEPT ![t] = next]
      BY <1>1, <2>2
    <3>. HIDE DEF next, new
    <3>5. \A m \in saved : m.id = n.id => m.user = w
      BY <3>2 DEF NeighborhoodsInv, RowsInv
    <3>6. Fitting(next)
      BY <1>2, <3>2, <3>3, <3>5 DEF Fitting
    <3>. QED
      BY <2>2, <3>3, <3>4, <3>6
  <2>. QED
    BY <2>1, <2>2
<1>5. /\ RowsInv' /\ TabsInv' /\ tab'[t] = q
      /\ \A s \in Tabs : s # t => tab'[s] = tab[s]
      /\ \A v \in Users : /\ SavedBy(v)' = SavedBy(v)
                          /\ Cardinality(SavedBy(v)') <= Cardinality(SavedBy(v))
                          /\ Standing(v, q)' <=> Standing(v, q)
                          /\ Tidy(v)' <=> Tidy(v)
  BY <1>1, <1>4, ReadKeeps
<1>6. WidthInv'
  BY <1>4, <1>5, WidthKept DEF NeighborhoodsInv
<1>7. TidyInv'
  <2>1. ASSUME NEW u \in Users, u = tab[t].user, u \notin untidy'
        PROVE  /\ q.user = u => Standing(u, q)'
               /\ q.user # u => Tidy(u)'
    <3>1. Standing(u, old)
      BY <1>1, <2>1 DEF NeighborhoodsInv, TidyInv, TidyFor
    <3>2. Bare(u) /\ u = w /\ remaining = SavedBy(u)
      BY <1>0, <1>1, <2>1, <3>1 DEF Standing
    <3>3. CASE remaining = {}
      <4>1. q.user # u
        BY <1>2, <1>4, <3>2, <3>3, NoTabFields
      <4>2. Tidy(u)
        BY <3>2, <3>3 DEF Tidy
      <4>. QED
        BY <1>5, <4>1, <4>2
    <3>4. CASE remaining # {}
      <4>1. q.user = u /\ Standing(u, q)
        BY <1>4, <3>2, <3>4 DEF Standing
      <4>. QED
        BY <1>5, <4>1
    <3>. QED
      BY <3>3, <3>4
  <2>2. q.user \in {tab[t].user, NONE} /\ untidy \subseteq untidy'
    BY <1>0, <1>1, <1>4
  <2>. QED
    BY <1>5, <2>1, <2>2, TidyKept DEF NeighborhoodsInv
<1> QED
  BY <1>5, <1>6, <1>7 DEF NeighborhoodsInv

LEMMA StopTabStep ==
  ASSUME NeighborhoodsInv, NEW t \in Tabs, StopTab(t)
  PROVE  NeighborhoodsInv'
<1>. USE NeighborhoodsAssumption
<1>. DEFINE old == tab[t]
<1>0. PICK w : w = old.user
  OBVIOUS
<1>1. /\ old # NoTab /\ tab' = [tab EXCEPT ![t] = NoTab]
      /\ UNCHANGED <<saved, rows, opened>>
      /\ untidy \subseteq untidy' /\ untidy' \subseteq untidy \cup {w}
      /\ w \notin untidy' => \/ old.step \in {"count", "find", "delete"}
                             \/ old.step = "clear"
  BY <1>0 DEF StopTab, Done
<1>2. Fitting(old) /\ w \in Users /\ w # NONE
  BY <1>0, <1>1 DEF NeighborhoodsInv, TabsInv, Fitting
<1>3. RowsInv'
  BY <1>1 DEF NeighborhoodsInv, RowsInv
<1>4. /\ TabsInv' /\ tab'[t] = NoTab
      /\ \A s \in Tabs : s # t => tab'[s] = tab[s]
  <2>1. Fitting(NoTab)'
    BY <1>3, NoTabFields DEF RowsInv, Fitting
  <2>2. /\ opened' = opened /\ untidy' \subseteq Users /\ rows' \in Nat /\ rows <= rows'
    BY <1>1, <1>2 DEF NeighborhoodsInv, RowsInv, TabsInv
  <2>3. \A m \in saved' : m.id <= rows => \E n \in saved : n.id = m.id /\ n.user = m.user
    BY <1>1
  <2>. QED
    BY <1>1, <2>1, <2>2, <2>3, TabsKept DEF NeighborhoodsInv
<1>5. \A v \in Users : SavedBy(v)' = SavedBy(v)
  BY <1>1 DEF SavedBy
<1>6. WidthInv'
  <2>1. \A v \in Users : Cardinality(SavedBy(v)') <= Cardinality(SavedBy(v))
    BY <1>5, SavedFinite DEF NeighborhoodsInv
  <2>. QED
    BY <1>3, <1>4, <2>1, NoTabFields, WidthKept DEF NeighborhoodsInv
<1>7. TidyInv'
  <2>1. ASSUME NEW u \in Users, u = tab[t].user, u \notin untidy'
        PROVE  /\ NoTab.user = u => Standing(u, NoTab)'
               /\ NoTab.user # u => Tidy(u)'
    <3>1. u = w /\ u \notin untidy /\ NoTab.user # u
      BY <1>0, <1>1, <1>2, <2>1, NoTabFields
    <3>2. Standing(u, old)
      BY <2>1, <3>1 DEF NeighborhoodsInv, TidyInv, TidyFor
    <3>3. Tidy(u)
      BY <1>1, <2>1, <3>1, <3>2 DEF Standing
    <3>4. Tidy(u)'
      BY <1>5, <3>3 DEF Tidy
    <3>. QED
      BY <3>1, <3>4
  <2>2. NoTab.user \in {tab[t].user, NONE}
    BY NoTabFields
  <2>. QED
    BY <1>1, <1>4, <1>5, <2>1, <2>2, TidyKept DEF NeighborhoodsInv
<1> QED
  BY <1>3, <1>4, <1>6, <1>7 DEF NeighborhoodsInv

LEMMA AddStep ==
  ASSUME NeighborhoodsInv, NEW t \in Tabs, NEW u \in Users, NEW place \in Places,
         NEW primary \in BOOLEAN, AddNeighborhood(t, u, place, primary)
  PROVE  NeighborhoodsInv'
<1>1. PICK r : /\ StartTab(t, r) /\ r \in NeighborhoodRequest /\ r.op = "add"
               /\ r.step = "count" /\ r.user = u /\ r.place = place /\ r.id = 0
  <2>. DEFINE r == [NoTab EXCEPT !.op = "add", !.step = "count", !.user = u, !.place = place,
                                 !.primary = primary]
  <2>1. /\ r \in NeighborhoodRequest /\ r.op = "add" /\ r.step = "count" /\ r.user = u
        /\ r.place = place /\ r.id = 0
    BY DEF NoTab, NeighborhoodRequest
  <2>2. StartTab(t, r)
    BY DEF AddNeighborhood
  <2>. HIDE DEF r
  <2>. QED
    BY <2>1, <2>2
<1>2. Fitting(r)
  BY <1>1 DEF NeighborhoodsInv, RowsInv, Fitting
<1> QED
  BY <1>1, <1>2, StartKeeps

LEMMA ChooseStep ==
  ASSUME NeighborhoodsInv, NEW t \in Tabs, NEW u \in Users, NEW op \in {"setPrimary", "remove"},
         NEW n \in saved, ChooseNeighborhood(t, u, op, n)
  PROVE  NeighborhoodsInv'
<1>1. /\ n \in Neighborhood /\ n.user = u /\ n.id \in Nat /\ n.id <= rows /\ n.primary \in BOOLEAN
      /\ \A m \in saved : m.id = n.id => m = n
  BY DEF ChooseNeighborhood, SavedBy, NeighborhoodsInv, RowsInv, Neighborhood
<1>2. PICK r : /\ StartTab(t, r) /\ r \in NeighborhoodRequest /\ r.op = op
               /\ r.step = IF op = "remove" THEN "delete" ELSE "clear"
               /\ r.user = u /\ r.id = n.id /\ r.primary = n.primary
  <2>. DEFINE first == IF op = "remove" THEN "delete" ELSE "clear"
              r == [NoTab EXCEPT !.op = op, !.user = u, !.id = n.id, !.primary = n.primary,
                                 !.step = first]
  <2>1. first \in {"delete", "clear"}
    OBVIOUS
  <2>2. StartTab(t, r)
    BY DEF ChooseNeighborhood
  <2>. HIDE DEF first
  <2>3. /\ r \in NeighborhoodRequest /\ r.op = op /\ r.step = first /\ r.user = u
        /\ r.id = n.id /\ r.primary = n.primary
    BY <1>1, <2>1 DEF NoTab, NeighborhoodRequest
  <2>. HIDE DEF r
  <2>4. \E q : /\ StartTab(t, q) /\ q \in NeighborhoodRequest /\ q.op = op
               /\ q.step = first
               /\ q.user = u /\ q.id = n.id /\ q.primary = n.primary
    BY <2>2, <2>3
  <2>. QED
    BY <2>4 DEF first
<1>3. /\ op = "remove" => r.step = "delete"
      /\ op = "setPrimary" => r.step = "clear"
  BY <1>2
<1>4. Fitting(r)
  BY <1>1, <1>2, <1>3 DEF Fitting
<1>5. r.step \in {"count", "clear", "delete"} /\ (r.op = "add" => r.step = "count")
  BY <1>2, <1>3
<1>6. r.step = "delete" => \A m \in saved : m.id = r.id => m.primary = r.primary
  BY <1>1, <1>2
<1> QED
  BY <1>2, <1>4, <1>5, <1>6, StartKeeps

LEMMA NeighborhoodsStart == NeighborhoodsInit => NeighborhoodsInv
<1> SUFFICES ASSUME NeighborhoodsInit PROVE NeighborhoodsInv
  OBVIOUS
<1>. USE NeighborhoodsAssumption
<1>1. /\ saved = {} /\ rows = 0 /\ opened = 0 /\ untidy = {}
      /\ tab \in [Tabs -> NeighborhoodRequest] /\ \A t \in Tabs : tab[t] = NoTab
  BY NoTabFields DEF NeighborhoodsInit
<1>2. RowsInv
  BY <1>1, FS_EmptySet DEF RowsInv
<1>3. TabsInv
  BY <1>1, NoTabFields DEF TabsInv, Fitting
<1>4. WidthInv
  <2> SUFFICES ASSUME NEW u \in Users
               PROVE  Cardinality(SavedBy(u)) + Cardinality(Adding(u))
                        < MaxNeighborhoods + Cardinality(Tabs)
    BY DEF WidthInv
  <2>1. SavedBy(u) = {} /\ Adding(u) = {}
    BY <1>1, NoTabFields DEF SavedBy, Adding
  <2>2. Cardinality(Tabs) \in Nat
    BY FS_CardinalityType
  <2>. QED
    BY <2>1, <2>2, FS_EmptySet
<1>5. TidyInv
  <2> SUFFICES ASSUME NEW u \in Users PROVE TidyFor(u)
    BY DEF TidyInv
  <2>1. \A t \in Tabs : tab[t].user # u
    BY <1>1, NoTabFields
  <2>2. Tidy(u)
    BY <1>1 DEF Tidy, SavedBy
  <2>. QED
    BY <2>1, <2>2 DEF TidyFor
<1> QED
  BY <1>2, <1>3, <1>4, <1>5 DEF NeighborhoodsInv

LEMMA NeighborhoodsStill ==
  ASSUME NeighborhoodsInv, UNCHANGED neighborhoodVars
  PROVE  NeighborhoodsInv'
<1>1. /\ saved' = saved /\ tab' = tab /\ rows' = rows /\ opened' = opened /\ untidy' = untidy
  BY DEF neighborhoodVars
<1>2. RowsInv' /\ TabsInv'
  BY <1>1 DEF NeighborhoodsInv, RowsInv, TabsInv, Fitting
<1>3. WidthInv'
  BY <1>1 DEF NeighborhoodsInv, WidthInv, SavedBy, Adding
<1>4. TidyInv'
  BY <1>1 DEF NeighborhoodsInv, TidyInv, TidyFor, Tidy, Bare, Standing, SavedBy
<1> QED
  BY <1>2, <1>3, <1>4 DEF NeighborhoodsInv

LEMMA NeighborhoodsStep == NeighborhoodsInv /\ [ChangeNeighborhoods]_neighborhoodVars => NeighborhoodsInv'
<1> SUFFICES ASSUME NeighborhoodsInv, [ChangeNeighborhoods]_neighborhoodVars
             PROVE  NeighborhoodsInv'
  OBVIOUS
<1>1. CASE UNCHANGED neighborhoodVars
  BY <1>1, NeighborhoodsStill
<1>2. ASSUME NEW t \in Tabs,
             \/ \E u \in Users, place \in Places, primary \in BOOLEAN :
                  AddNeighborhood(t, u, place, primary)
             \/ \E u \in Users, op \in {"setPrimary", "remove"}, n \in saved :
                  ChooseNeighborhood(t, u, op, n)
      PROVE  NeighborhoodsInv'
  BY <1>2, AddStep, ChooseStep
<1>3. ASSUME NEW t \in Tabs,
             \/ CountNeighborhoods(t) \/ FindByLocation(t) \/ CreateNeighborhood(t)
             \/ ClearBeforeSetting(t) \/ SetPrimary(t)
             \/ DeleteNeighborhood(t) \/ FindRemaining(t)
             \/ StopTab(t)
      PROVE  NeighborhoodsInv'
  BY <1>3, CountStep, FindStep, SaveRowStep, ClearStep, SetStep, RemoveStep, PromoteStep,
     StopTabStep
<1> QED
  BY <1>1, <1>2, <1>3 DEF ChangeNeighborhoods

LEMMA NeighborhoodsFollow == NeighborhoodsInv => NeighborhoodsAreTidy
<1> SUFFICES ASSUME NeighborhoodsInv PROVE NeighborhoodsAreTidy
  OBVIOUS
<1>1. OverlapExceedsByItsWidth
  <2> SUFFICES ASSUME NEW u \in Users
               PROVE  Cardinality(SavedBy(u)) < MaxNeighborhoods + Cardinality(Tabs)
    BY DEF OverlapExceedsByItsWidth
  <2>1. /\ Cardinality(SavedBy(u)) \in Nat /\ Cardinality(Adding(u)) \in Nat
        /\ Cardinality(Tabs) \in Nat
    BY SavedFinite DEF NeighborhoodsInv
  <2>2. Cardinality(SavedBy(u)) + Cardinality(Adding(u)) < MaxNeighborhoods + Cardinality(Tabs)
    BY DEF NeighborhoodsInv, WidthInv
  <2>. QED
    BY <2>1, <2>2, NeighborhoodsAssumption
<1>2. OnePrimaryWhenTidy
  <2> SUFFICES ASSUME NEW u \in Users \ untidy, \A t \in Tabs : tab[t].user # u,
                      SavedBy(u) # {}
               PROVE  Cardinality({n \in SavedBy(u) : n.primary}) = 1
    BY DEF OnePrimaryWhenTidy
  <2>1. Tidy(u)
    BY DEF NeighborhoodsInv, TidyInv, TidyFor
  <2>2. PICK n \in SavedBy(u) : n.primary /\ \A m \in SavedBy(u) : m.primary => m = n
    BY <2>1 DEF Tidy
  <2>3. {m \in SavedBy(u) : m.primary} = {n}
    BY <2>2
  <2>. QED
    BY <2>3, FS_Singleton
<1> QED
  BY <1>1, <1>2 DEF NeighborhoodsAreTidy

(* Whatever requests of a user overlap, one too many neighborhoods is      *)
(* saved by each but the first at the most; and the user whose requests    *)
(* came one at a time and finished has exactly one primary neighborhood,   *)
(* if any (add-, set-primary- and remove-user-neighborhood.use-case.ts).   *)
THEOREM NeighborhoodsTidy == NeighborhoodsSpec => []NeighborhoodsAreTidy
<1>1. NeighborhoodsInit => NeighborhoodsInv
  BY NeighborhoodsStart
<1>2. NeighborhoodsInv /\ [ChangeNeighborhoods]_neighborhoodVars => NeighborhoodsInv'
  BY NeighborhoodsStep
<1>3. NeighborhoodsInv => NeighborhoodsAreTidy
  BY NeighborhoodsFollow
<1> QED
  BY <1>1, <1>2, <1>3, PTL DEF NeighborhoodsSpec

(* Every row was created by a request, and a request creates one row: the  *)
(* ids of rows do not outrun the requests.                                 *)
Pending == {t \in Tabs : tab[t].op = "add"}

CreatedInv == rows + Cardinality(Pending) <= opened

LEMMA PendingCounted ==
  ASSUME NEW P \in SUBSET Tabs, NEW t \in Tabs
  PROVE  /\ IsFiniteSet(P) /\ Cardinality(P) \in Nat
         /\ \A R \in SUBSET P : Cardinality(R) <= Cardinality(P)
         /\ \A R \in SUBSET (P \cup {t}) : Cardinality(R) <= Cardinality(P) + 1
         /\ t \in P => Cardinality(P \ {t}) = Cardinality(P) - 1
<1>1. IsFiniteSet(P) /\ Cardinality(P) \in Nat
  BY NeighborhoodsAssumption, FS_Subset, FS_CardinalityType
<1>2. IsFiniteSet(P \cup {t}) /\ Cardinality(P \cup {t}) <= Cardinality(P) + 1
  <2>1. CASE t \in P
    <3>1. P \cup {t} = P
      BY <2>1
    <3>. QED
      BY <1>1, <3>1
  <2>2. CASE t \notin P
    <3>1. IsFiniteSet(P \cup {t}) /\ Cardinality(P \cup {t}) = Cardinality(P) + 1
      BY <1>1, <2>2, FS_AddElement, Zenon
    <3>. QED
      BY <1>1, <3>1
  <2>. QED
    BY <2>1, <2>2
<1>3. ASSUME NEW R \in SUBSET (P \cup {t}) PROVE Cardinality(R) <= Cardinality(P) + 1
  BY <1>1, <1>2, FS_Subset, FS_CardinalityType
<1>4. \A R \in SUBSET P : Cardinality(R) <= Cardinality(P)
  BY <1>1, FS_Subset
<1>5. t \in P => Cardinality(P \ {t}) = Cardinality(P) - 1
  BY <1>1, FS_RemoveElement
<1>. QED
  BY <1>1, <1>3, <1>4, <1>5

LEMMA CreatedStep ==
  ASSUME TabsInv, rows \in Nat, CreatedInv, [ChangeNeighborhoods]_neighborhoodVars
  PROVE  CreatedInv'
<1>. DEFINE P == Pending
            n == Cardinality(Pending)
<1>0. P \in SUBSET Tabs /\ P' \in SUBSET Tabs /\ opened \in Nat
      /\ (\A t \in Tabs : t \in P <=> tab[t].op = "add")
      /\ (\A t \in Tabs : t \in P' <=> tab'[t].op = "add")
  BY NeighborhoodsAssumption DEF Pending, TabsInv
<1>1. CASE UNCHANGED neighborhoodVars
  <2>1. P' = P /\ rows' = rows /\ opened' = opened
    BY <1>1 DEF Pending, neighborhoodVars
  <2>. QED
    BY <2>1 DEF CreatedInv
<1>2. ASSUME NEW t \in Tabs, NEW r, StartTab(t, r) PROVE CreatedInv'
  <2>1. \A s \in Tabs \ {t} : tab'[s] = tab[s]
    BY <1>2 DEF StartTab, TabsInv
  <2>2. P' \in SUBSET (P \cup {t})
    BY <1>0, <2>1
  <2>. HIDE DEF P
  <2>3. Cardinality(P) \in Nat /\ Cardinality(P') <= Cardinality(P) + 1
        /\ Cardinality(P') \in Nat
    BY <1>0, <2>2, PendingCounted
  <2>4. rows' = rows /\ opened' = opened + 1
    BY <1>2 DEF StartTab
  <2>. QED
    BY <1>0, <2>3, <2>4 DEF CreatedInv, P
<1>3. ASSUME NEW t \in Tabs, NEW q, tab' = [tab EXCEPT ![t] = q], q.op \in {tab[t].op, "none"},
             UNCHANGED <<rows, opened>>
      PROVE  CreatedInv'
  <2>1. \A s \in Tabs : tab'[s] = IF s = t THEN q ELSE tab[s]
    BY <1>3 DEF TabsInv
  <2>2. P' \in SUBSET P
    BY <1>0, <1>3, <2>1
  <2>. HIDE DEF P
  <2>3. Cardinality(P) \in Nat /\ Cardinality(P') <= Cardinality(P) /\ Cardinality(P') \in Nat
    BY <1>0, <1>3, <2>2, PendingCounted
  <2>. QED
    BY <1>0, <1>3, <2>3 DEF CreatedInv, P
<1>4. ASSUME NEW t \in Tabs, CreateNeighborhood(t) PROVE CreatedInv'
  <2>1. /\ tab' = [tab EXCEPT ![t] = NoTab] /\ tab[t].op = "add" /\ NoTab.op = "none"
        /\ rows' = rows + 1 /\ opened' = opened
    BY <1>4, NoTabFields DEF CreateNeighborhood, Reached, Done
  <2>2. \A s \in Tabs : tab'[s] = IF s = t THEN NoTab ELSE tab[s]
    BY <2>1 DEF TabsInv
  <2>3. P' = P \ {t} /\ t \in P
    BY <1>0, <2>1, <2>2
  <2>. HIDE DEF P
  <2>4. Cardinality(P) \in Nat /\ Cardinality(P') = Cardinality(P) - 1
    BY <1>0, <2>3, PendingCounted
  <2>. QED
    BY <1>0, <2>1, <2>4 DEF CreatedInv, P
<1>5. ASSUME NEW t \in Tabs,
             \/ CountNeighborhoods(t) \/ FindByLocation(t) \/ ClearBeforeSetting(t)
             \/ SetPrimary(t) \/ DeleteNeighborhood(t) \/ FindRemaining(t) \/ StopTab(t)
      PROVE  CreatedInv'
  <2>1. tab[t] \in NeighborhoodRequest
    BY DEF TabsInv
  <2>2. UNCHANGED <<rows, opened>>
    BY <1>5 DEF CountNeighborhoods, FindByLocation, ClearBeforeSetting, SetPrimary,
                DeleteNeighborhood, FindRemaining, StopTab
  <2>3. \E q : tab' = [tab EXCEPT ![t] = q] /\ q.op \in {tab[t].op, "none"}
    <3>1. CASE SetPrimary(t) \/ StopTab(t)
      BY <3>1, NoTabFields DEF SetPrimary, StopTab, Done
    <3>2. CASE CountNeighborhoods(t)
      <4>. DEFINE primary == tab[t].primary \/ Cardinality(SavedBy(tab[t].user)) = 0
                  q == [tab[t] EXCEPT !.step = "find", !.primary = primary]
      <4>1. tab' = [tab EXCEPT ![t] = q]
        BY <3>2 DEF CountNeighborhoods, TabsInv
      <4>2. q.op = tab[t].op
        BY <2>1 DEF NeighborhoodRequest
      <4>. QED
        BY <4>1, <4>2
    <3>3. CASE FindByLocation(t) \/ ClearBeforeSetting(t)
      <4>1. PICK step : tab' = [tab EXCEPT ![t] = [tab[t] EXCEPT !.step = step]]
        BY <3>3 DEF FindByLocation, ClearBeforeSetting, Proceed, TabsInv
      <4>2. [tab[t] EXCEPT !.step = step].op = tab[t].op
        BY <2>1 DEF NeighborhoodRequest
      <4>. QED
        BY <4>1, <4>2
    <3>4. CASE DeleteNeighborhood(t)
      <4>1. \/ tab' = [tab EXCEPT ![t] = [tab[t] EXCEPT !.step = "promote"]]
            \/ tab' = [tab EXCEPT ![t] = NoTab]
        BY <3>4 DEF DeleteNeighborhood, Proceed, Done
      <4>2. [tab[t] EXCEPT !.step = "promote"].op = tab[t].op
        BY <2>1 DEF NeighborhoodRequest
      <4>. QED
        BY <4>1, <4>2, NoTabFields
    <3>5. CASE FindRemaining(t)
      <4>. DEFINE q == [tab[t] EXCEPT !.step = "set", !.id = FirstOf(SavedBy(tab[t].user))]
      <4>1. tab' = [tab EXCEPT ![t] = q] \/ tab' = [tab EXCEPT ![t] = NoTab]
        BY <3>5 DEF FindRemaining, TabsInv
      <4>2. q.op = tab[t].op
        BY <2>1 DEF NeighborhoodRequest
      <4>. HIDE DEF q
      <4>. QED
        BY <4>1, <4>2, NoTabFields
    <3>. QED
      BY <1>5, <3>1, <3>2, <3>3, <3>4, <3>5
  <2>. QED
    BY <1>3, <2>2, <2>3
<1>6. ASSUME NEW t \in Tabs,
             \/ \E u \in Users, place \in Places, primary \in BOOLEAN :
                  AddNeighborhood(t, u, place, primary)
             \/ \E u \in Users, op \in {"setPrimary", "remove"}, m \in saved :
                  ChooseNeighborhood(t, u, op, m)
      PROVE  CreatedInv'
  <2>1. \E r : StartTab(t, r)
    BY <1>6, Zenon DEF AddNeighborhood, ChooseNeighborhood
  <2>. QED
    BY <1>2, <2>1
<1>. QED
  BY <1>1, <1>4, <1>5, <1>6 DEF ChangeNeighborhoods

(* A row has the columns of the schema, a request what its steps use, and  *)
(* no more rows are created than requests were made.                       *)
THEOREM NeighborhoodsTypeCorrect == NeighborhoodsSpec => []NeighborhoodsTypeOK
<1>. DEFINE Inv == NeighborhoodsInv /\ CreatedInv
<1>1. NeighborhoodsInit => Inv
  <2> SUFFICES ASSUME NeighborhoodsInit PROVE Inv
    OBVIOUS
  <2>1. Pending = {} /\ rows = 0 /\ opened = 0
    BY NoTabFields DEF NeighborhoodsInit, Pending
  <2>. QED
    BY <2>1, NeighborhoodsStart, FS_EmptySet DEF CreatedInv
<1>2. Inv /\ [ChangeNeighborhoods]_neighborhoodVars => Inv'
  BY NeighborhoodsStep, CreatedStep DEF NeighborhoodsInv, RowsInv
<1>3. Inv => NeighborhoodsTypeOK
  <2> SUFFICES ASSUME Inv PROVE NeighborhoodsTypeOK
    OBVIOUS
  <2>1. Pending \in SUBSET Tabs /\ opened \in 0..MaxOpened /\ rows \in Nat
    BY DEF NeighborhoodsInv, RowsInv, TabsInv, Pending
  <2>2. Cardinality(Pending) \in Nat
    BY <2>1, NeighborhoodsAssumption, FS_Subset, FS_CardinalityType
  <2>3. rows \in 0..MaxOpened
    BY <2>1, <2>2, NeighborhoodsAssumption DEF CreatedInv
  <2>. QED
    BY <2>3 DEF NeighborhoodsInv, RowsInv, TabsInv, NeighborhoodsTypeOK
<1> QED
  BY <1>1, <1>2, <1>3, PTL DEF NeighborhoodsSpec

-----------------------------------------------------------------------------
(* The instance that is model-checked explores one part and leaves the     *)
(* other alone: what each part promises holds of every behaviour of both.  *)
LEMMA PartsRun == Spec => AccountsSpec /\ NeighborhoodsSpec
<1>1. Init => AccountsInit /\ NeighborhoodsInit
  BY DEF Init
<1>2. [Next]_<<accountVars, neighborhoodVars, part>>
        => [ChangeAccounts]_accountVars /\ [ChangeNeighborhoods]_neighborhoodVars
  BY DEF Next
<1> QED
  BY <1>1, <1>2, PTL DEF Spec, AccountsSpec, NeighborhoodsSpec

(* Accounts, tokens, requests and neighborhoods have their types together. *)
THEOREM TypeCorrect == Spec => []TypeOK
BY PartsRun, AccountsTypeCorrect, NeighborhoodsTypeCorrect, PTL DEF TypeOK
=============================================================================
