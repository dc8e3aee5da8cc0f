---------------------------- MODULE Notifications ---------------------------
(***************************************************************************)
(* What the events of the back end tell people.  emit starts a listener    *)
(* that stores a notification and pushes it to the sockets of its user,    *)
(* and for a change of status another that mails the reporter.  Listeners  *)
(* run on, each by itself, after the request that emitted the event is     *)
(* over; a failure in one is logged, and those under way are lost when the *)
(* process dies.  People read notifications in a list they fetch page by   *)
(* page, the newest first, to which what is pushed is added.               *)
(***************************************************************************)
EXTENDS Integers, Sequences, FiniteSets

CONSTANTS
  Users,      \* ids of users
  Emails,     \* addresses
  AddressOf,  \* the address of each user
  Clients,    \* browsers
  NONE,       \* null
  PageSize,   \* limit of a page of the list
  MaxEvents,  \* bound: events in a behaviour
  MaxRestarts \* bound: crashes of the process

ASSUME NotificationsAssumption ==
  /\ AddressOf \in [Users -> Emails]
  /\ PageSize \in Nat \ {0} /\ MaxEvents \in Nat /\ MaxRestarts \in Nat
  /\ NONE \notin Users \cup Emails

VARIABLES
  enabled,   \* users that are not disabled
  contact,   \* reporter_id and guest_email of a demand
  event,     \* the events emitted so far
  listener,  \* how far the notification of each event is
  mailer,    \* how far the mail of each event is, and to whom
  stored,    \* table notifications: the event, the user and the place of each row
  read,      \* those with read_at
  socket,    \* the room each browser has joined
  view,      \* the notifications each browser shows
  fetched,   \* how many pages each browser has fetched in turn since it connected
  checked,   \* browsers that have fetched the unread ones since they connected
  restarts   \* crashes so far

listVars == <<view, fetched, checked>>
notificationVars == <<enabled, contact, event, listener, mailer, stored, read, socket, listVars,
                      restarts>>

(* Events are told apart by whom they are for: the reporter of a demand,   *)
(* who may be null (a change of status is mailed too); a user; and the     *)
(* address of an invitation.                                               *)
ForReporter == {"demand.status-changed", "demand.resolved"}
Invitation == "cabinet.invitation-sent"

Event == [type : ForReporter \cup {"demand.assigned", Invitation},
          user : Users \cup {NONE}, email : Emails \cup {NONE}]

Stage == {"lookup", "create", "push", "done", "lost"}
Mail == [step : {"none", "resolve", "send", "done", "lost"}, to : Emails \cup {NONE}]

NotificationsTypeOK ==
  /\ enabled \subseteq Users
  /\ contact \in [reporter : Users \cup {NONE}, guestEmail : Emails \cup {NONE}]
  /\ event \in Seq(Event)
  /\ DOMAIN listener = DOMAIN event /\ DOMAIN mailer = DOMAIN event
  /\ \A n \in DOMAIN event : listener[n] \in Stage /\ mailer[n] \in Mail
  /\ stored \subseteq [event : DOMAIN event, user : Users, at : Nat]
  /\ read \subseteq stored
  /\ socket \in [Clients -> Users \cup {NONE}]
  /\ view \in [Clients -> SUBSET stored]
  /\ fetched \in [Clients -> 0..MaxEvents] /\ checked \subseteq Clients
  /\ restarts \in 0..MaxRestarts

NotificationsInit ==
  /\ enabled = Users
  /\ contact \in [reporter : Users \cup {NONE}, guestEmail : Emails \cup {NONE}]
  /\ contact.reporter = NONE \/ contact.guestEmail = NONE
  /\ event = <<>> /\ listener = <<>> /\ mailer = <<>>
  /\ stored = {} /\ read = {}
  /\ socket = [c \in Clients |-> NONE] /\ view = [c \in Clients |-> {}]
  /\ fetched = [c \in Clients |-> 0] /\ checked = {}
  /\ restarts = 0

-----------------------------------------------------------------------------
(* emit: the listeners start; those without a user return at once. *)
Emit(type, user, email) ==
  /\ Len(event) < MaxEvents
  /\ event' = Append(event, [type |-> type, user |-> user, email |-> email])
  /\ listener' = Append(listener, CASE type = Invitation -> "lookup"
                                    [] type # Invitation /\ user # NONE -> "create"
                                    [] type # Invitation /\ user = NONE -> "done")
  /\ mailer' = Append(mailer, [step |-> IF type = "demand.status-changed" THEN "resolve" ELSE "none",
                               to |-> NONE])
  /\ UNCHANGED <<enabled, contact, stored, read, socket, listVars, restarts>>

Advance(n, stage) == listener' = [listener EXCEPT ![n] = stage]

(* The user of an invitation is looked up by the address invited. *)
LookUpInvited(n) ==
  /\ listener[n] = "lookup"
  /\ LET invited == {u \in enabled : AddressOf[u] = event[n].email} IN
       IF invited = {} THEN Advance(n, "done") /\ UNCHANGED event
       ELSE \E u \in invited : Advance(n, "create") /\ event' = [event EXCEPT ![n].user = u]
  /\ UNCHANGED <<enabled, contact, mailer, stored, read, socket, listVars, restarts>>

(* Rows are in the order of created_at. *)
NewRow(n) == [event |-> n, user |-> event[n].user, at |-> Cardinality(stored)]

CreateUnpushed(n) ==               \* variant: the row is stored and not pushed
  /\ listener[n] = "create"
  /\ stored' = stored \cup {NewRow(n)}
  /\ Advance(n, "done")
  /\ UNCHANGED <<enabled, contact, event, mailer, read, socket, listVars, restarts>>

CreateOnline(n) ==                 \* variant: who is not connected gets no row
  /\ listener[n] = "create"
  /\ LET online == \E c \in Clients : socket[c] = event[n].user IN
       /\ stored' = IF online THEN stored \cup {NewRow(n)} ELSE stored
       /\ Advance(n, IF online THEN "push" ELSE "done")
  /\ UNCHANGED <<enabled, contact, event, mailer, read, socket, listVars, restarts>>

(* SendNotificationUseCase: the row is committed, then the push is made. *)
CreateNotification(n) ==
  /\ listener[n] = "create"
  /\ stored' = stored \cup {NewRow(n)}
  /\ Advance(n, "push")
  /\ UNCHANGED <<enabled, contact, event, mailer, read, socket, listVars, restarts>>

Shown(n, c) ==
  IF socket[c] = event[n].user THEN view[c] \cup {m \in stored : m.event = n} ELSE view[c]

SendToUser(n) ==
  /\ listener[n] = "push"
  /\ view' = [c \in Clients |-> Shown(n, c)]
  /\ Advance(n, "done")
  /\ UNCHANGED <<enabled, contact, event, mailer, stored, read, socket, fetched, checked,
                 restarts>>

ListenerFails(n) ==
  /\ listener[n] \in {"lookup", "create"}
  /\ Advance(n, "lost")
  /\ UNCHANGED <<enabled, contact, event, mailer, stored, read, socket, listVars, restarts>>

-----------------------------------------------------------------------------
ResolvedForUsers(n) ==             \* variant: a guest's contact is not looked up
  IF event[n].user # NONE /\ event[n].user \in enabled THEN AddressOf[event[n].user] ELSE NONE

(* DemandEmailListener: the reporter's address, or the guest's as it is now. *)
Resolved(n) ==
  IF event[n].user # NONE
  THEN IF event[n].user \in enabled THEN AddressOf[event[n].user] ELSE NONE
  ELSE contact.guestEmail

ResolveEmail(n) ==
  /\ mailer[n].step = "resolve"
  /\ mailer' = [mailer EXCEPT ![n] = [step |-> IF Resolved(n) = NONE THEN "done" ELSE "send",
                                      to |-> Resolved(n)]]
  /\ UNCHANGED <<enabled, contact, event, listener, stored, read, socket, listVars, restarts>>

(* sendDemandStatusUpdate: tried once, a failure is only logged. *)
SendStatusUpdate(n) ==
  /\ mailer[n].step = "send"
  /\ \E step \in {"done", "lost"} : mailer' = [mailer EXCEPT ![n].step = step]
  /\ UNCHANGED <<enabled, contact, event, listener, stored, read, socket, listVars, restarts>>

-----------------------------------------------------------------------------
(* A browser joins the room of its user as it connects, and fetches. *)
Connect(c, u) ==
  /\ socket[c] = NONE
  /\ socket' = [socket EXCEPT ![c] = u]
  /\ view' = [view EXCEPT ![c] = {}]
  /\ UNCHANGED <<enabled, contact, event, listener, mailer, stored, read, fetched, checked,
                 restarts>>

NewerThan(m, rows) == Cardinality({o \in rows : o.at > m.at})

(* findAllByUser: skip and take of the rows of a user, the newest first. *)
Page(rows, page) ==
  {m \in rows : /\ (page - 1) * PageSize <= NewerThan(m, rows)
                /\ NewerThan(m, rows) < page * PageSize}

RowsOf(u) == {m \in stored : m.user = u}

FetchList(c, page) ==
  /\ socket[c] # NONE
  /\ view' = [view EXCEPT ![c] = @ \cup Page(RowsOf(socket[c]), page)]
  /\ fetched' = [fetched EXCEPT ![c] = IF page = @ + 1 THEN page ELSE @]
  /\ UNCHANGED <<enabled, contact, event, listener, mailer, stored, read, socket, checked,
                 restarts>>

(* unreadOnly; the pages of what changes as it is read are not in turn. *)
FetchUnread(c, page) ==
  /\ socket[c] # NONE
  /\ view' = [view EXCEPT ![c] = @ \cup Page(RowsOf(socket[c]) \ read, page)]
  /\ checked' = IF page = 1 THEN checked \cup {c} ELSE checked
  /\ UNCHANGED <<enabled, contact, event, listener, mailer, stored, read, socket, fetched,
                 restarts>>

Disconnect(c) ==
  /\ socket[c] # NONE
  /\ socket' = [socket EXCEPT ![c] = NONE]
  /\ fetched' = [fetched EXCEPT ![c] = 0] /\ checked' = checked \ {c}
  /\ UNCHANGED <<enabled, contact, event, listener, mailer, stored, read, view, restarts>>

MarkAsRead(c, m) ==
  /\ m \in view[c] /\ m.user = socket[c]
  /\ read' = read \cup {m}
  /\ UNCHANGED <<enabled, contact, event, listener, mailer, stored, socket, listVars, restarts>>

MarkAllAsRead(u) ==
  /\ read' = read \cup {m \in stored : m.user = u}
  /\ UNCHANGED <<enabled, contact, event, listener, mailer, stored, socket, listVars, restarts>>

(* claimGuestDemands of a new account; DisableUser. *)
ClaimContact(u) ==
  /\ contact.reporter = NONE /\ contact.guestEmail = AddressOf[u]
  /\ contact' = [reporter |-> u, guestEmail |-> NONE]
  /\ UNCHANGED <<enabled, event, listener, mailer, stored, read, socket, listVars, restarts>>

DisableReader(u) ==
  /\ u \in enabled
  /\ enabled' = enabled \ {u}
  /\ UNCHANGED <<contact, event, listener, mailer, stored, read, socket, listVars, restarts>>

Restart ==
  /\ restarts < MaxRestarts
  /\ restarts' = restarts + 1
  /\ listener' = [n \in DOMAIN listener |-> IF listener[n] = "done" THEN "done" ELSE "lost"]
  /\ mailer' = [n \in DOMAIN mailer |->
                  IF mailer[n].step \in {"resolve", "send"} THEN [mailer[n] EXCEPT !.step = "lost"]
                                                            ELSE mailer[n]]
  /\ socket' = [c \in Clients |-> NONE]
  /\ fetched' = [c \in Clients |-> 0] /\ checked' = {}
  /\ UNCHANGED <<enabled, contact, event, stored, read, view>>

Notify(n) == LookUpInvited(n) \/ CreateNotification(n) \/ SendToUser(n)

TellPeople ==
  \/ \E type \in ForReporter : Emit(type, contact.reporter, NONE)
  \/ \E u \in Users : Emit("demand.assigned", u, NONE)
  \/ \E e \in Emails : Emit(Invitation, NONE, e)
  \/ \E n \in DOMAIN event :
       \/ Notify(n) \/ ListenerFails(n)
       \/ ResolveEmail(n) \/ SendStatusUpdate(n)
  \/ \E c \in Clients :
       \/ \E u \in Users : Connect(c, u)
       \/ \E page \in 1..MaxEvents : FetchList(c, page) \/ FetchUnread(c, page)
       \/ Disconnect(c)
       \/ \E m \in view[c] : MarkAsRead(c, m)
  \/ \E u \in Users : MarkAllAsRead(u) \/ ClaimContact(u) \/ DisableReader(u)
  \/ Restart

(* A listener that has started goes on: the event loop runs what awaits.   *)
NotificationsFairness ==
  \A n \in 1..MaxEvents :
    /\ WF_notificationVars(n \in DOMAIN event /\ (Notify(n) \/ ListenerFails(n)))
    /\ WF_notificationVars(n \in DOMAIN event /\ (ResolveEmail(n) \/ SendStatusUpdate(n)))

NotificationsSpec ==
  NotificationsInit /\ [][TellPeople]_notificationVars /\ NotificationsFairness

-----------------------------------------------------------------------------
(* Every event that has a user is told: its notification is stored, unless *)
(* the insert failed or the process died first (notification.listener.ts). *)
EventsAreTold ==
  \A n \in 1..MaxEvents :
    (n \in DOMAIN event /\ event[n].user # NONE)
      ~> (n \in DOMAIN event /\ (listener[n] = "lost" \/ \E m \in stored : m.event = n))

(* Who connects and then fetches pages in turn misses nothing of them:     *)
(* what is stored is shown, or a push to the room is about to be made, or  *)
(* so many newer rows of the user are stored that it is on a later page,   *)
(* however connecting, fetching, reading and the inserts fall; and the     *)
(* first page of the unread ones does the same for what nobody has read    *)
(* (send-notification.use-case.ts:16, notifications.repository.ts:55).     *)
NothingIsMissed ==
  \A c \in Clients : \A m \in RowsOf(socket[c]) :
    m \in view[c] \/ listener[m.event] = "push" \/
      /\ NewerThan(m, RowsOf(m.user)) >= fetched[c] * PageSize
      /\ c \in checked /\ m \notin read => NewerThan(m, RowsOf(m.user)) >= PageSize

(* A change of status is mailed to the reporter, or to the guest, unless   *)
(* sending failed, the reporter was disabled, or an account claimed the    *)
(* guest's demand while the mail was prepared: that mail goes to nobody    *)
(* (demand-email.listener.ts:64).                                          *)
ReportersAreMailed ==
  \A n \in DOMAIN event :
    mailer[n].step = "done" =>
      /\ event[n].user \in enabled => mailer[n].to = AddressOf[event[n].user]
      /\ event[n].user = NONE /\ contact.reporter = NONE => mailer[n].to = contact.guestEmail
=============================================================================
