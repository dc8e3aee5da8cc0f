----------------------------- MODULE MCDelivery -----------------------------
(* An instance of Notifications and MailQueue.  The two share no variable    *)
(* and wait for nothing of each other, and so do the jobs and the requests   *)
(* of MailQueue, whose posts differ in kind: a behaviour explores one.  Of   *)
(* Notifications it explores one event of any type with all that goes with   *)
(* it, or the lists of browsers with several assignments.                    *)
EXTENDS Notifications, MailQueue, TLC

CONSTANTS u1, u2, e1, e2

VARIABLE part

MCAddressOf == (u1 :> e1) @@ (u2 :> e2)

Init ==
  /\ NotificationsInit /\ QueueInit
  /\ part \in {"event", "lists", "jobs", "requests"}
  /\ part # "event" => contact.reporter = u1
  /\ part \in {"event", "lists"} => webhook

TellLists ==
  /\ TellPeople /\ UNCHANGED <<enabled, contact>>
  /\ \A n \in DOMAIN event' : event'[n].type = "demand.assigned"

Next ==
  /\ \/ part = "event" /\ TellPeople /\ Len(event') <= 1 /\ UNCHANGED queueVars
     \/ part = "lists" /\ TellLists /\ UNCHANGED queueVars
     \/ part = "jobs" /\ RunJobs /\ UNCHANGED notificationVars
     \/ part = "requests" /\ RunRequests /\ UNCHANGED notificationVars
  /\ UNCHANGED part

(* A behaviour in which the other part is explored leaves this one in its    *)
(* initial state, where nothing is due.                                      *)
Spec ==
  /\ Init /\ [][Next]_<<notificationVars, queueVars, part>>
  /\ NotificationsFairness /\ QueueFairness

(* Every column, job and step in progress has the type the schema, the queue *)
(* and the handlers give it.                                                 *)
TypeOK == NotificationsTypeOK /\ QueueTypeOK
=============================================================================
