------------------------------- MODULE Accounts -----------------------------
(***************************************************************************)
(* Accounts, the tokens that open sessions and follow mailed links, and    *)
(* the demands guests reported before they had an account.                 *)
(*                                                                         *)
(* There is one token row per user and type, written by an upsert that     *)
(* keeps its id: a link mailed again is the same link.  A refresh token is *)
(* the payload of such a row; it is signed from the user and the second of *)
(* its issue alone.  Every await of a handler is a step of its own.        *)
(***************************************************************************)
EXTENDS UserNeighborhoods, Sequences

CONSTANTS
  Emails,      \* addresses as people spell them
  Mailbox,     \* the mailbox of each: spellings that differ by case share one
  Passwords,   \* passwords, or their hashes
  Demands,     \* ids of demands reported by guests
  Slots,       \* slots of account requests served at the same time
  LinkLife,    \* TOKEN_EXPIRATION and the hour of a password change
  SessionLife, \* REFRESH_TOKEN_EXPIRES_IN
  MaxRequests, \* bound: requests in a behaviour
  MaxTime      \* bound: instants of the clock

ASSUME AccountsAssumption ==
  /\ Mailbox \in [Emails -> Emails]
  /\ LinkLife \in Nat \ {0} /\ SessionLife \in Nat \ {0}
  /\ MaxRequests \in Nat /\ MaxTime \in Nat
  /\ NONE \notin Users \cup Emails \cup Passwords
  /\ NONE \notin [sub : Users, at : 0..MaxTime]

VARIABLES
  now,        \* the clock, in seconds
  user,       \* table users
  token,      \* table tokens
  ids,        \* token rows ever created
  demand,     \* columns guest_email and reporter_id of demands
  request,    \* the request in each slot
  started,    \* requests so far
  signed,     \* refresh tokens handed to clients
  held,       \* history: the refresh token each user's last response carried
  link,       \* history: the link in the newest mail of each kind not yet followed
  uses,       \* history: how often a link was followed to the end
  crossed,    \* history: users whose requests overlapped or failed half way
  before,     \* history: guest demands reported before each account was created
  unclaimed   \* history: accounts whose claim of guest demands failed

accountVars == <<now, user, token, ids, demand, request, started, signed, held, link, uses,
                 crossed, before, unclaimed>>

Links == {"EMAIL_VERIFICATION", "PASSWORD_RESET", "CHANGE_PASSWORD"}
Types == Links \cup {"REFRESH_TOKEN"}

User == [row : {"absent", "enabled", "disabled"}, email : Emails \cup {NONE},
         password : Passwords \cup {NONE}, hasSetPassword : BOOLEAN, isVerified : BOOLEAN,
         google : Emails \cup {NONE}]

NoUser == [row |-> "absent", email |-> NONE, password |-> NONE, hasSetPassword |-> TRUE,
           isVerified |-> FALSE, google |-> NONE]

(* A signed refresh token: whose, and when it was issued. *)
Jwt == [sub : Users, at : 0..MaxTime]

Token == [id : Nat, until : Nat, payload : Passwords \cup Jwt \cup {NONE}]
NoToken == [id |-> 0, until |-> 0, payload |-> NONE]

Request == [op : {"none", "register", "createAdminUser", "login", "google", "refresh", "forgot",
                  "verify", "reset", "requestChange", "confirm"},
            step : {"idle", "create", "claim", "token", "mail", "user", "link", "apply", "delete"},
            user : Users \cup {NONE}, email : Emails \cup {NONE},
            password : Passwords \cup {NONE}, id : Nat,
            jwt : Jwt \cup {NONE}]

NoRequest == [op |-> "none", step |-> "idle", user |-> NONE, email |-> NONE, password |-> NONE,
              id |-> 0, jwt |-> NONE]

AccountsTypeOK ==
  /\ now \in 0..MaxTime
  /\ user \in [Users -> User]
  /\ token \in [Users \X Types -> Token]
  /\ ids \in Nat
  /\ demand \in [Demands -> [guestEmail : Emails \cup {NONE}, reporter : Users \cup {NONE}]]
  /\ request \in [Slots -> Request] /\ started \in 0..MaxRequests
  /\ signed \subseteq Jwt /\ held \in [Users -> Jwt \cup {NONE}]
  /\ link \in [Users \X Links -> Nat]
  /\ uses \in Seq(Nat)
  /\ crossed \subseteq Users /\ unclaimed \subseteq Users
  /\ before \in [Users -> SUBSET Demands]

AccountsInit ==
  /\ now = 0
  /\ user = [u \in Users |-> NoUser]
  /\ token = [ut \in Users \X Types |-> NoToken] /\ ids = 0
  /\ demand = [d \in Demands |-> [guestEmail |-> NONE, reporter |-> NONE]]
  /\ request = [s \in Slots |-> NoRequest] /\ started = 0
  /\ signed = {} /\ held = [u \in Users |-> NONE]
  /\ link = [ul \in Users \X Links |-> 0] /\ uses = <<>>
  /\ crossed = {} /\ unclaimed = {} /\ before = [u \in Users |-> {}]

-----------------------------------------------------------------------------
(* findByEmail, findById and findByProvider; only the last sees disabled users. *)
WithEmail(e) == {u \in Users : user[u].row = "enabled" /\ user[u].email = e}
Enabled(u) == user[u].row = "enabled"
WithGoogle(e) == {u \in Users : user[u].row # "absent" /\ user[u].google = e}
EmailTaken(e) == \E u \in Users : user[u].row # "absent" /\ user[u].email = e

(* findValidToken and findValidTokenByPayload *)
Valid(u, type) == token[<<u, type>>].id # 0 /\ token[<<u, type>>].until > now

SignUntil(u) == [sub |-> u, at |-> now + SessionLife]   \* variant: the expiry, not the issue

Sign(u) == [sub |-> u, at |-> now]

Upsert(u, type, life, payload) ==
  LET fresh == token[<<u, type>>].id = 0 IN
  /\ token' = [token EXCEPT ![<<u, type>>] = [id |-> IF fresh THEN ids + 1 ELSE @.id,
                                          until |-> now + life, payload |-> payload]]
  /\ ids' = IF fresh THEN ids + 1 ELSE ids
  /\ uses' = IF fresh THEN Append(uses, 0) ELSE uses

-----------------------------------------------------------------------------
Busy(u) == \E s \in Slots : request[s].user = u

(* A request is about a user from the statement that finds or creates one. *)
About(s, u) ==
  crossed' = IF \E o \in Slots \ {s} : request[o].user = u THEN crossed \cup {u} ELSE crossed

Counted == started < MaxRequests /\ started' = started + 1

Begin(s, r) ==
  /\ request[s] = NoRequest
  /\ Counted
  /\ request' = [request EXCEPT ![s] = r]

Is(s, op, step) == request[s].op = op /\ request[s].step = step
Continue(s, step) == request' = [request EXCEPT ![s].step = step]
Finish(s) == request' = [request EXCEPT ![s] = NoRequest]

TokensKept == UNCHANGED <<token, ids, uses>>
HistoryKept == UNCHANGED <<signed, held, link, before, unclaimed>>

(* CreateUserUseCase and CreateAdminUserUseCase: the address is not taken. *)
StartCreate(s, op, e, p) ==
  /\ WithEmail(e) = {}
  /\ Begin(s, [NoRequest EXCEPT !.op = op, !.step = "create", !.email = e, !.password = p])
  /\ UNCHANGED <<now, user, demand, crossed>> /\ TokensKept /\ HistoryKept

(* The unique index refuses the address of a user created since or disabled. *)
InsertUser(s) ==
  /\ request[s].step = "create"
  /\ ~EmailTaken(request[s].email)
  /\ \E u \in Users :
       /\ user[u].row = "absent"
       /\ user' = [user EXCEPT ![u] =
            [NoUser EXCEPT !.row = "enabled", !.email = request[s].email,
                           !.password = request[s].password,
                           !.isVerified = request[s].op = "google",
                           !.hasSetPassword = request[s].op # "google",
                           !.google = IF request[s].op = "google" THEN request[s].email ELSE NONE]]
       /\ request' = [request EXCEPT ![s].step = "claim", ![s].user = u]
       /\ before' = [before EXCEPT ![u] =
            {d \in Demands : /\ demand[d].guestEmail # NONE
                             /\ Mailbox[demand[d].guestEmail] = Mailbox[request[s].email]}]
  /\ UNCHANGED <<now, demand, crossed, started, signed, held, link, unclaimed>> /\ TokensKept

ClaimableExactly(e) ==             \* variant: addresses are compared as they are spelt
  {d \in Demands : demand[d].guestEmail = e /\ demand[d].reporter = NONE}

Claimable(e) ==
  {d \in Demands : /\ demand[d].guestEmail # NONE
                   /\ Mailbox[demand[d].guestEmail] = Mailbox[e]
                   /\ demand[d].reporter = NONE}

AfterClaim(s) ==
  CASE request[s].op = "register" -> [request EXCEPT ![s].step = "token"]
    [] request[s].op = "google" ->
         [request EXCEPT ![s].step = "token", ![s].jwt = Sign(request[s].user)]
    [] request[s].op = "createAdminUser" -> [request EXCEPT ![s] = NoRequest]

(* For an administrator the new user is verified before the claim. *)
Verified(s) ==
  user' = IF request[s].op = "createAdminUser"
          THEN [user EXCEPT ![request[s].user].isVerified = TRUE] ELSE user

ClaimGuestDemands(s) ==
  /\ request[s].step = "claim"
  /\ demand' = [d \in Demands |-> IF d \in Claimable(request[s].email)
                                  THEN [guestEmail |-> NONE, reporter |-> request[s].user]
                                  ELSE demand[d]]
  /\ Verified(s)
  /\ request' = AfterClaim(s)
  /\ UNCHANGED <<now, crossed, started>> /\ TokensKept /\ HistoryKept

(* The failure is logged, and the registration goes on. *)
ClaimFails(s) ==
  /\ request[s].step = "claim"
  /\ unclaimed' = unclaimed \cup {request[s].user}
  /\ Verified(s)
  /\ request' = AfterClaim(s)
  /\ UNCHANGED <<now, demand, crossed, started, signed, held, link, before>> /\ TokensKept

ReportAsGuest(d, e) ==
  /\ demand[d] = [guestEmail |-> NONE, reporter |-> NONE]
  /\ demand' = [demand EXCEPT ![d].guestEmail = e]
  /\ UNCHANGED <<now, user, request, crossed, started>> /\ TokensKept /\ HistoryKept

-----------------------------------------------------------------------------
(* LoginUseCase *)
Login(s, e, p) ==
  \E u \in WithEmail(e) :
    /\ user[u].password = p /\ user[u].isVerified
    /\ Begin(s, [NoRequest EXCEPT !.op = "login", !.step = "token", !.user = u, !.jwt = Sign(u)])
    /\ About(s, u)
    /\ UNCHANGED <<now, user, demand>> /\ TokensKept /\ HistoryKept

(* GoogleLoginUseCase: by the Google account, else by its address. *)
GoogleLogin(s, e) ==
  \/ \E u \in WithGoogle(e) :
       /\ Begin(s, [NoRequest EXCEPT !.op = "google", !.step = "token", !.user = u,
                                     !.jwt = Sign(u)])
       /\ About(s, u)
       /\ UNCHANGED <<now, user, demand>> /\ TokensKept /\ HistoryKept
  \/ /\ WithGoogle(e) = {}
     /\ \E u \in WithEmail(e) :
          /\ Begin(s, [NoRequest EXCEPT !.op = "google", !.step = "link", !.user = u, !.email = e])
          /\ About(s, u)
     /\ UNCHANGED <<now, user, demand>> /\ TokensKept /\ HistoryKept
  \/ /\ WithGoogle(e) = {}
     /\ \E p \in Passwords : StartCreate(s, "google", e, p)

(* One account row per Google account; a user may have several of them,    *)
(* but of one address there is only one here.                              *)
LinkAccount(s) ==
  /\ Is(s, "google", "link")
  /\ WithGoogle(request[s].email) = {}
  /\ user' = [user EXCEPT ![request[s].user].google = request[s].email]
  /\ request' = [request EXCEPT ![s].step = "token", ![s].jwt = Sign(request[s].user)]
  /\ UNCHANGED <<now, demand, crossed, started>> /\ TokensKept /\ HistoryKept

(* RefreshTokenUseCase: the row, then the user, then the new pair. *)
Refresh(s, jwt) ==
  /\ jwt \in signed /\ jwt.at + SessionLife > now
  /\ Valid(jwt.sub, "REFRESH_TOKEN") /\ token[<<jwt.sub, "REFRESH_TOKEN">>].payload = jwt
  /\ Begin(s, [NoRequest EXCEPT !.op = "refresh", !.step = "user", !.user = jwt.sub])
  /\ About(s, jwt.sub)
  /\ UNCHANGED <<now, user, demand>> /\ TokensKept /\ HistoryKept

SignAgain(s) ==
  /\ Is(s, "refresh", "user")
  /\ Enabled(request[s].user)
  /\ request' = [request EXCEPT ![s].step = "token", ![s].jwt = Sign(request[s].user)]
  /\ UNCHANGED <<now, user, demand, crossed, started>> /\ TokensKept /\ HistoryKept

(* The response carries what was signed, stored or replaced meanwhile. *)
RefreshTokenUnsaved(s) ==          \* variant: a renewed token is not stored
  /\ request[s].step = "token" /\ request[s].jwt # NONE
  /\ IF request[s].op = "refresh" THEN TokensKept
     ELSE Upsert(request[s].user, "REFRESH_TOKEN", SessionLife, request[s].jwt)
  /\ signed' = signed \cup {request[s].jwt}
  /\ held' = [held EXCEPT ![request[s].user] = request[s].jwt]
  /\ Finish(s)
  /\ UNCHANGED <<now, user, demand, link, crossed, started, before, unclaimed>>

SaveRefreshToken(s) ==
  /\ request[s].step = "token" /\ request[s].jwt # NONE
  /\ Upsert(request[s].user, "REFRESH_TOKEN", SessionLife, request[s].jwt)
  /\ signed' = signed \cup {request[s].jwt}
  /\ held' = [held EXCEPT ![request[s].user] = request[s].jwt]
  /\ Finish(s)
  /\ UNCHANGED <<now, user, demand, link, crossed, started, before, unclaimed>>

-----------------------------------------------------------------------------
(* Links that are mailed: to verify an address, to reset a password, to    *)
(* confirm a change of password.                                           *)
LinkOf(op) ==
  CASE op \in {"register", "verify"} -> "EMAIL_VERIFICATION"
    [] op \in {"forgot", "reset"} -> "PASSWORD_RESET"
    [] op \in {"requestChange", "confirm"} -> "CHANGE_PASSWORD"

ForgotPassword(s, e) ==
  \E u \in WithEmail(e) :
    /\ Begin(s, [NoRequest EXCEPT !.op = "forgot", !.step = "token", !.user = u])
    /\ About(s, u)
    /\ UNCHANGED <<now, user, demand>> /\ TokensKept /\ HistoryKept

(* The current password is asked for only if the user has set one. *)
RequestPasswordChange(s, u, current, new) ==
  /\ Enabled(u)
  /\ user[u].hasSetPassword => user[u].password = current
  /\ Begin(s, [NoRequest EXCEPT !.op = "requestChange", !.step = "token", !.user = u,
                                !.password = new])
  /\ About(s, u)
  /\ UNCHANGED <<now, user, demand>> /\ TokensKept /\ HistoryKept

SaveLink(s) ==
  /\ request[s].step = "token" /\ request[s].jwt = NONE
  /\ Upsert(request[s].user, LinkOf(request[s].op), LinkLife,
            IF request[s].op = "requestChange" THEN request[s].password ELSE NONE)
  /\ request' = [request EXCEPT ![s].step = "mail",
                                ![s].id = token'[<<request[s].user, LinkOf(request[s].op)>>].id]
  /\ UNCHANGED <<now, user, demand, crossed, started>> /\ HistoryKept

(* The mail is queued; when the queue fails the request succeeds all the same. *)
MailLink(s) ==
  /\ request[s].step = "mail"
  /\ \E queued \in BOOLEAN :
       link' = IF queued
               THEN [link EXCEPT ![<<request[s].user, LinkOf(request[s].op)>>] = request[s].id]
               ELSE link
  /\ Finish(s)
  /\ UNCHANGED <<now, user, demand, crossed, started, signed, held, before, unclaimed>>
  /\ TokensKept

(* VerifyEmail, ResetPassword and ConfirmPasswordChange with a mailed link. *)
FollowLink(s, op, u, p) ==
  /\ op \in {"verify", "reset", "confirm"}
  /\ Valid(u, LinkOf(op))
  /\ op = "confirm" => Enabled(u)
  /\ Begin(s, [NoRequest EXCEPT !.op = op, !.step = "apply", !.user = u,
                                !.id = token[<<u, LinkOf(op)>>].id,
                                !.password = CASE op = "verify" -> NONE
                                               [] op = "reset" -> p
                                               [] op = "confirm" -> token[<<u, LinkOf(op)>>].payload])
  /\ About(s, u)
  /\ link' = [link EXCEPT ![<<u, LinkOf(op)>>] = 0]
  /\ UNCHANGED <<now, user, demand, signed, held, before, unclaimed>> /\ TokensKept

ApplyLink(s) ==
  /\ request[s].step = "apply"
  /\ user' = [user EXCEPT ![request[s].user] =
       IF request[s].op = "verify" THEN [@ EXCEPT !.isVerified = TRUE]
       ELSE [@ EXCEPT !.password = request[s].password,
                      !.hasSetPassword = user[request[s].user].hasSetPassword
                                         \/ request[s].op = "confirm"]]
  /\ uses' = [uses EXCEPT ![request[s].id] = @ + 1]
  /\ Continue(s, "delete")
  /\ UNCHANGED <<now, token, ids, demand, crossed, started>> /\ HistoryKept

DeleteAllLinks(s) ==               \* variant: every link of the user goes
  /\ request[s].step = "delete"
  /\ token' = [ut \in Users \X Types |->
                 IF ut[1] = request[s].user /\ ut[2] \in Links THEN NoToken ELSE token[ut]]
  /\ Finish(s)
  /\ UNCHANGED <<now, user, ids, uses, demand, crossed, started>> /\ HistoryKept

DeleteToken(s) ==
  /\ request[s].step = "delete"
  /\ token' = [ut \in Users \X Types |-> IF token[ut].id = request[s].id THEN NoToken ELSE token[ut]]
  /\ Finish(s)
  /\ UNCHANGED <<now, user, ids, uses, demand, crossed, started>> /\ HistoryKept

-----------------------------------------------------------------------------
(* DeleteAccount and DisableUser; EnableUser; UpdateAdminUser. *)
DisableUser(u) ==
  /\ Enabled(u)
  /\ Counted
  /\ user' = [user EXCEPT ![u].row = "disabled"]
  /\ UNCHANGED <<now, demand, request, crossed>> /\ TokensKept /\ HistoryKept

EnableUser(u) ==
  /\ user[u].row = "disabled"
  /\ Counted
  /\ user' = [user EXCEPT ![u].row = "enabled"]
  /\ UNCHANGED <<now, demand, request, crossed>> /\ TokensKept /\ HistoryKept

UpdateAdminUser(u, e, p) ==
  /\ Enabled(u)
  /\ \A v \in Users \ {u} : user[v].email # e
  /\ Counted
  /\ user' = [user EXCEPT ![u].email = e, ![u].password = p, ![u].hasSetPassword = TRUE]
  /\ UNCHANGED <<now, demand, request, crossed>> /\ TokensKept /\ HistoryKept

(* A statement fails or the process dies; after "apply" the change is made *)
(* and the link still works.                                               *)
StopRequest(s) ==
  /\ request[s] # NoRequest
  /\ crossed' = IF request[s].step \in {"delete", "mail"} THEN crossed \cup {request[s].user}
                                                         ELSE crossed
  /\ unclaimed' = IF request[s].step = "claim" THEN unclaimed \cup {request[s].user} ELSE unclaimed
  /\ Finish(s)
  /\ UNCHANGED <<now, user, demand, started, signed, held, link, before>> /\ TokensKept

(* The nightly job deletes the rows that have expired; what they were for  *)
(* has ended, and a mail still being written carries a dead link.          *)
CleanupExpiredTokens ==
  LET expired == {ut \in Users \X Types : token[ut].id # 0 /\ token[ut].until < now} IN
  /\ expired # {}
  /\ token' = [ut \in Users \X Types |-> IF ut \in expired THEN NoToken ELSE token[ut]]
  /\ link' = [ul \in Users \X Links |-> IF ul \in expired THEN 0 ELSE link[ul]]
  /\ held' = [u \in Users |-> IF <<u, "REFRESH_TOKEN">> \in expired THEN NONE ELSE held[u]]
  /\ crossed' = crossed \cup {request[s].user : s \in {o \in Slots :
                    \E ut \in expired : request[o].step = "mail" /\ request[o].id = token[ut].id}}
  /\ UNCHANGED <<now, user, ids, uses, demand, request, started, signed, before, unclaimed>>

Tick ==
  /\ now < MaxTime
  /\ now' = now + 1
  /\ UNCHANGED <<user, demand, request, crossed, started>> /\ TokensKept /\ HistoryKept

ChangeAccounts ==
  \/ \E s \in Slots, e \in Emails, p \in Passwords :
       \/ StartCreate(s, "register", e, p) \/ StartCreate(s, "createAdminUser", e, p)
       \/ Login(s, e, p)
  \/ \E s \in Slots, e \in Emails : GoogleLogin(s, e) \/ ForgotPassword(s, e)
  \/ \E s \in Slots, jwt \in signed : Refresh(s, jwt)
  \/ \E s \in Slots, u \in Users, current, new \in Passwords :
       RequestPasswordChange(s, u, current, new)
  \/ \E s \in Slots, op \in {"verify", "reset", "confirm"}, u \in Users, p \in Passwords :
       FollowLink(s, op, u, p)
  \/ \E s \in Slots :
       \/ InsertUser(s) \/ ClaimGuestDemands(s) \/ ClaimFails(s)
       \/ LinkAccount(s) \/ SignAgain(s) \/ SaveRefreshToken(s)
       \/ SaveLink(s) \/ MailLink(s) \/ ApplyLink(s) \/ DeleteToken(s)
       \/ StopRequest(s)
  \/ \E d \in Demands, e \in Emails : ReportAsGuest(d, e)
  \/ \E u \in Users : DisableUser(u) \/ EnableUser(u)
  \/ \E u \in Users, e \in Emails, p \in Passwords : UpdateAdminUser(u, e, p)
  \/ Tick \/ CleanupExpiredTokens

AccountsSpec == AccountsInit /\ [][ChangeAccounts]_accountVars

-----------------------------------------------------------------------------
(* Nobody has a session without having verified the address or come        *)
(* through Google (login.use-case.ts:39, google-login.use-case.ts:30).     *)
SessionsAreVerified ==
  \A u \in Users : token[<<u, "REFRESH_TOKEN">>].id # 0 =>
    user[u].isVerified \/ user[u].google # NONE

(* The session handed out last can be renewed, for a user whose requests   *)
(* did not overlap: no request of anybody else replaces it                 *)
(* (refresh-token.use-case.ts:22).                                         *)
LastSessionHolds ==
  \A u \in Users \ crossed : held[u] # NONE =>
    token[<<u, "REFRESH_TOKEN">>].payload = held[u]

(* A session belongs to somebody who may have one, and lasts until its     *)
(* owner ends or replaces it, whatever the order of registering, linking,  *)
(* signing in, renewing and changing passwords.                            *)
SessionsAreSound == SessionsAreVerified /\ LastSessionHolds

(* The newest link mailed to a user works until it is followed, whatever   *)
(* other links are asked for or used (tokens.repository.ts:17).            *)
LinksWork ==
  \A u \in Users \ crossed, type \in Links : link[<<u, type>>] # 0 =>
    token[<<u, type>>].id = link[<<u, type>>]

(* A link changes an account once, unless two requests follow it at the    *)
(* same time or one stopped before it deleted the link                     *)
(* (reset-password.use-case.ts:31).                                        *)
LinksWorkOnce ==
  \A u \in Users \ crossed, type \in Links :
    token[<<u, type>>].id # 0 /\ uses[token[<<u, type>>].id] > 0 =>
      \E s \in Slots : request[s].step = "delete" /\ request[s].id = token[<<u, type>>].id

(* Guest demands come home: what was reported with the address of an       *)
(* account, however spelt, before that account existed is the account's    *)
(* as soon as its creation is over, or another's that claimed it first,    *)
(* unless the claim failed (create-user.use-case.ts:32).                   *)
GuestDemandsComeHome ==
  \A u \in Users : user[u].row # "absent" /\ u \notin unclaimed =>
    \/ \E s \in Slots : request[s].step = "claim" /\ request[s].user = u
    \/ \A d \in before[u] : demand[d].reporter # NONE

(* A link that was mailed works, and works once, with the exceptions above. *)
LinksWorkAndOnce == LinksWork /\ LinksWorkOnce
=============================================================================
