------------------------------ MODULE MailQueue -----------------------------
(***************************************************************************)
(* The queue of mails and the alerts about failures.  BullMQ keeps the     *)
(* jobs in Redis: a job that throws is tried again after a pause, up to    *)
(* its number of attempts; one whose process died is found stalled and     *)
(* put back, once.  One worker takes one job at a time.                    *)
(*                                                                         *)
(* A failure is posted to Discord, where a webhook is configured, unless   *)
(* one of the same kind was posted a short while ago.  The process         *)
(* remembers that as it starts a post, and a post that fails is only       *)
(* logged.                                                                 *)
(***************************************************************************)
EXTENDS Integers, FiniteSets

CONSTANTS
  Jobs,         \* ids of jobs
  HttpKinds,    \* fingerprints of failed requests
  JobKinds,     \* fingerprints of failed jobs
  MaxAttempts,  \* attempts
  MaxStalls,    \* maxStalledCount of BullMQ
  DedupTtl,     \* DEDUP_TTL_MS
  MaxClock,     \* bound: instants of the clock
  MaxCrashes    \* bound: crashes of the process

ASSUME QueueAssumption ==
  /\ MaxAttempts \in Nat \ {0} /\ MaxStalls \in Nat /\ DedupTtl \in Nat \ {0}
  /\ MaxClock \in Nat /\ MaxCrashes \in Nat
  /\ "http" \notin Jobs
  /\ HttpKinds \cap JobKinds = {}

Kinds == HttpKinds \cup JobKinds

VARIABLES
  job,          \* the jobs in Redis
  working,      \* the job the worker is at, and how far it is
  accepted,     \* history: how often the mail service took the mail of a job
  clock,        \* the clock
  webhook,      \* whether DISCORD_WEBHOOK_URL is defined
  errorDedup,   \* when a post of each kind was last started, in memory
  posts,        \* the posts the process has started, and what became of them
  crashes       \* crashes so far

alertVars == <<webhook, errorDedup, posts>>
queueVars == <<job, working, accepted, clock, alertVars, crashes>>

Job == [state : {"absent", "waiting", "active", "delayed", "completed", "failed"},
        attemptsMade : 0..MaxAttempts, stalls : 0..(MaxStalls + 1)]

Post == [kind : Kinds, at : 0..MaxClock, from : Jobs \cup {"http"},
         fate : {"under way", "arrived", "lost"}]

Never == -DedupTtl

QueueTypeOK ==
  /\ job \in [Jobs -> Job]
  /\ working \subseteq Jobs \X {"sending", "sent", "thrown"} /\ Cardinality(working) <= 1
  /\ accepted \in [Jobs -> Nat]
  /\ clock \in 0..MaxClock
  /\ errorDedup \in [Kinds -> 0..MaxClock \cup {Never}]
  /\ webhook \in BOOLEAN /\ posts \subseteq Post
  /\ crashes \in 0..MaxCrashes

QueueInit ==
  /\ job = [j \in Jobs |-> [state |-> "absent", attemptsMade |-> 0, stalls |-> 0]]
  /\ working = {} /\ accepted = [j \in Jobs |-> 0]
  /\ clock = 0
  /\ webhook \in BOOLEAN
  /\ errorDedup = [k \in Kinds |-> Never] /\ posts = {}
  /\ crashes = 0

-----------------------------------------------------------------------------
(* isDuplicate: when a post of the kind was started lately. *)
IsDuplicate(k) == errorDedup[k] # Never /\ clock - errorDedup[k] < DedupTtl

NewPost(k, from) == [kind |-> k, at |-> clock, from |-> from, fate |-> "under way"]

AlertAnew(k, from) ==              \* variant: a repeated failure starts the pause again
  /\ posts' = IF ~webhook \/ IsDuplicate(k) THEN posts ELSE posts \cup {NewPost(k, from)}
  /\ errorDedup' = IF webhook THEN [errorDedup EXCEPT ![k] = clock] ELSE errorDedup
  /\ UNCHANGED webhook

(* sendError, sendJobError: what is posted is remembered first, and old    *)
(* memories are dropped.                                                   *)
Alert(k, from) ==
  /\ IF ~webhook \/ IsDuplicate(k) THEN UNCHANGED <<errorDedup, posts>>
     ELSE /\ errorDedup' = [l \in Kinds |->
                              IF l = k THEN clock
                              ELSE IF clock - errorDedup[l] < DedupTtl THEN errorDedup[l]
                                ELSE Never]
          /\ posts' = posts \cup {NewPost(k, from)}
  /\ UNCHANGED webhook

(* postToDiscord: a rejected fetch is logged, an answer is not looked at.  *)
SettlePost(p) ==
  /\ p.fate = "under way"
  /\ \E fate \in {"arrived", "lost"} : posts' = (posts \ {p}) \cup {[p EXCEPT !.fate = fate]}
  /\ UNCHANGED <<job, working, accepted, clock, webhook, errorDedup, crashes>>

(* AllExceptionsFilter: every error but a 401. *)
HttpError(k) ==
  /\ Alert(k, "http")
  /\ UNCHANGED <<job, working, accepted, clock, crashes>>

-----------------------------------------------------------------------------
Enqueue(j) ==
  /\ job[j].state = "absent"
  /\ job' = [job EXCEPT ![j].state = "waiting"]
  /\ UNCHANGED <<working, accepted, clock, alertVars, crashes>>

TakeAnother(j) ==                  \* variant: the worker does not wait for its job to end
  /\ job[j].state = "waiting"
  /\ job' = [job EXCEPT ![j].state = "active"]
  /\ working' = working \cup {<<j, "sending">>}
  /\ UNCHANGED <<accepted, clock, alertVars, crashes>>

Take(j) ==
  /\ job[j].state = "waiting" /\ working = {}
  /\ job' = [job EXCEPT ![j].state = "active"]
  /\ working' = {<<j, "sending">>}
  /\ UNCHANGED <<accepted, clock, alertVars, crashes>>

(* The mail service takes the mail, or returns an error as a value, which  *)
(* the code does not look at.                                              *)
Send(j) ==
  /\ <<j, "sending">> \in working
  /\ \E taken \in {0, 1} : accepted' = [accepted EXCEPT ![j] = @ + taken]
  /\ working' = {<<j, "sent">>}
  /\ UNCHANGED <<job, clock, alertVars, crashes>>

(* It throws, perhaps after the mail was taken; the failure is posted, and *)
(* the job waits for that.                                                 *)
Throw(j, k) ==
  /\ <<j, "sending">> \in working
  /\ \E taken \in {0, 1} : accepted' = [accepted EXCEPT ![j] = @ + taken]
  /\ working' = {<<j, "thrown">>}
  /\ Alert(k, j)
  /\ UNCHANGED <<job, clock, crashes>>

Complete(j) ==
  /\ <<j, "sent">> \in working
  /\ job' = [job EXCEPT ![j].state = "completed"]
  /\ working' = {}
  /\ UNCHANGED <<accepted, clock, alertVars, crashes>>

Reported(j) == \A p \in posts : p.from = j => p.fate # "under way"

RetryUncounted(j) ==               \* variant: a thrown attempt is not counted
  /\ <<j, "thrown">> \in working /\ Reported(j)
  /\ job' = [job EXCEPT ![j].state = "delayed"]
  /\ working' = {}
  /\ UNCHANGED <<accepted, clock, alertVars, crashes>>

RetryOrFail(j) ==
  /\ <<j, "thrown">> \in working /\ Reported(j)
  /\ job' = [job EXCEPT ![j].attemptsMade = @ + 1,
                        ![j].state = IF job[j].attemptsMade + 1 < MaxAttempts
                                     THEN "delayed" ELSE "failed"]
  /\ working' = {}
  /\ UNCHANGED <<accepted, clock, alertVars, crashes>>

Backoff(j) ==
  /\ job[j].state = "delayed"
  /\ job' = [job EXCEPT ![j].state = "waiting"]
  /\ UNCHANGED <<working, accepted, clock, alertVars, crashes>>

(* The lock of a job nobody works at has run out. *)
MoveStalledAlways(j) ==            \* variant: a job may stall without end
  /\ job[j].state = "active" /\ \A w \in working : w[1] # j
  /\ job' = [job EXCEPT ![j].state = "waiting"]
  /\ UNCHANGED <<working, accepted, clock, alertVars, crashes>>

MoveStalled(j) ==
  /\ job[j].state = "active" /\ \A w \in working : w[1] # j
  /\ job' = [job EXCEPT ![j].stalls = @ + 1,
                        ![j].state = IF job[j].stalls < MaxStalls THEN "waiting" ELSE "failed"]
  /\ UNCHANGED <<working, accepted, clock, alertVars, crashes>>

CrashWorker ==
  /\ crashes < MaxCrashes
  /\ crashes' = crashes + 1
  /\ working' = {}
  /\ errorDedup' = [k \in Kinds |-> Never] /\ posts' = {}
  /\ UNCHANGED <<job, accepted, clock, webhook>>

TickClock ==
  /\ clock < MaxClock
  /\ clock' = clock + 1
  /\ UNCHANGED <<job, working, accepted, alertVars, crashes>>

WorkOn(j) ==
  \/ Take(j) \/ Send(j) \/ Complete(j) \/ RetryOrFail(j) \/ Backoff(j) \/ MoveStalled(j)
  \/ \E k \in JobKinds : Throw(j, k)

(* Failing requests and failing jobs share the clock and the memory, where *)
(* their fingerprints differ.                                              *)
RunProcess == TickClock \/ CrashWorker \/ \E p \in posts : SettlePost(p)

RunJobs == (\E j \in Jobs : Enqueue(j) \/ WorkOn(j)) \/ RunProcess

RunRequests == (\E k \in HttpKinds : HttpError(k)) \/ RunProcess

RunQueue == RunJobs \/ RunRequests

(* The worker goes on taking jobs and finishes what it took, Redis wakes   *)
(* delayed jobs and finds stalled ones: all of it is driven by timers of   *)
(* BullMQ.  A waiting job may be passed over while the worker is busy, so  *)
(* taking it is strongly fair: the list of waiting jobs is first in, first *)
(* out.  A post comes to an end: the network answers or the fetch fails.   *)
QueueFairness ==
  \A j \in Jobs :
    /\ SF_queueVars(Take(j))
    /\ WF_queueVars(Send(j) \/ \E k \in JobKinds : Throw(j, k))
    /\ WF_queueVars(\E p \in posts : p.from = j /\ SettlePost(p))
    /\ WF_queueVars(Complete(j)) /\ WF_queueVars(RetryOrFail(j))
    /\ WF_queueVars(Backoff(j)) /\ WF_queueVars(MoveStalled(j))

QueueSpec == QueueInit /\ [][RunQueue]_queueVars /\ QueueFairness

-----------------------------------------------------------------------------
(* Every mail that is queued comes to an end, completed or failed,         *)
(* whatever throws and whenever the process dies (queue.module.ts:36).     *)
MailsSettle == \A j \in Jobs : job[j].state = "waiting" ~> job[j].state \in {"completed", "failed"}

(* A mail is given up only after all its attempts, or when its process     *)
(* died more than once under it.                                           *)
FailedWasTried ==
  \A j \in Jobs : job[j].state = "failed" =>
    job[j].attemptsMade = MaxAttempts \/ job[j].stalls > MaxStalls

(* A mail reaches its reader twice only after an attempt that threw or a   *)
(* process that died, once for each.                                       *)
RepeatsHaveCauses ==
  \A j \in Jobs :
    accepted[j] <= job[j].attemptsMade + job[j].stalls
                     + (IF job[j].state \in {"active", "completed"} THEN 1 ELSE 0)

(* Where a webhook is configured, every failure has one post of its kind   *)
(* that was started less than the pause ago, its own or an earlier one,    *)
(* and never two, also if it repeats all the time.  That post may be lost: *)
(* its repeats are silent for the pause all the same                       *)
(* (discord.service.ts:216).                                               *)
FailuresAreHeard ==
  [][webhook => \A k \in Kinds : HttpError(k) \/ (\E j \in Jobs : Throw(j, k)) =>
       \E p \in posts' : {q \in posts' : q.kind = k /\ clock - q.at < DedupTtl} = {p}]_queueVars

(* Every failure and every repetition of a mail has its cause.             *)
AttemptsAreAccountedFor == FailedWasTried /\ RepeatsHaveCauses
=============================================================================
