---------------------------- MODULE DeliveryProofs --------------------------
(***************************************************************************)
(* Proofs about the queue of mails, the alerts about failures and the      *)
(* notifications, for any number of jobs, users, browsers and events.      *)
(***************************************************************************)
EXTENDS MCDelivery, FiniteSetTheorems, TLAPS

(* The worker has one job at most, and it is active; a job that goes on    *)
(* has attempts left and has not stalled too often.                        *)
WorkInv ==
  /\ job \in [Jobs -> Job]
  /\ working = {} \/ \E j \in Jobs : \E s \in {"sending", "sent", "thrown"} : working = {<<j, s>>}
  /\ \A j \in Jobs : \A s \in {"sending", "sent", "thrown"} :
       <<j, s>> \in working => job[j].state = "active"
  /\ \A j \in Jobs : job[j].state # "failed" =>
       job[j].attemptsMade < MaxAttempts /\ job[j].stalls <= MaxStalls

(* A mail was taken once for each attempt and stall, and perhaps by the    *)
(* attempt under way, unless that has yet to send it.                      *)
TakenInv ==
  /\ accepted \in [Jobs -> Nat]
  /\ \A j \in Jobs : accepted[j] <= job[j].attemptsMade + job[j].stalls + 1
  /\ \A j \in Jobs : job[j].state \notin {"active", "completed"} \/ <<j, "sending">> \in working =>
       accepted[j] <= job[j].attemptsMade + job[j].stalls

(* What is remembered was posted, and what was posted less than the pause  *)
(* ago is remembered.                                                      *)
PostInv(p) == p.at <= clock /\ (clock - p.at < DedupTtl => errorDedup[p.kind] = p.at)

MemoryInv ==
  /\ clock \in 0..MaxClock /\ crashes \in 0..MaxCrashes
  /\ errorDedup \in [Kinds -> 0..MaxClock \cup {Never}]
  /\ webhook \in BOOLEAN /\ posts \subseteq Post
  /\ \A p \in posts : PostInv(p)
  /\ \A p, q \in posts : p.kind = q.kind /\ p.at = q.at => p = q
  /\ \A k \in Kinds : errorDedup[k] # Never => \E p \in posts : p.kind = k /\ p.at = errorDedup[k]

Heard(k) == \E p \in posts' : {q \in posts' : q.kind = k /\ clock - q.at < DedupTtl} = {p}

QueueInv == WorkInv /\ TakenInv /\ FailedWasTried /\ MemoryInv

LEMMA QueueInitial == QueueInit => QueueInv
<1> SUFFICES ASSUME QueueInit PROVE QueueInv
  OBVIOUS
<1>1. \A j \in Jobs : job[j] = [state |-> "absent", attemptsMade |-> 0, stalls |-> 0]
  BY DEF QueueInit
<1>2. [state |-> "absent", attemptsMade |-> 0, stalls |-> 0] \in Job
  BY QueueAssumption DEF Job
<1>3. WorkInv
  BY <1>1, <1>2, QueueAssumption DEF QueueInit, WorkInv
<1>4. TakenInv /\ FailedWasTried
  BY <1>1 DEF QueueInit, TakenInv, FailedWasTried
<1>5. MemoryInv
  BY QueueAssumption DEF QueueInit, MemoryInv
<1> QED
  BY <1>3, <1>4, <1>5 DEF QueueInv

(* Alert leaves the memory right, and the failure heard. *)
LEMMA AlertHeard ==
  ASSUME MemoryInv, NEW k \in Kinds, NEW from \in Jobs \cup {"http"}, Alert(k, from),
         UNCHANGED <<clock, crashes>>
  PROVE  MemoryInv' /\ (webhook => Heard(k))
<1>. USE QueueAssumption
<1>1. \A p \in posts : p.kind \in Kinds /\ p.at \in 0..MaxClock
  BY DEF MemoryInv, Post
<1>2. CASE ~webhook \/ IsDuplicate(k)
  <2>1. UNCHANGED <<webhook, errorDedup, posts>>
    BY <1>2 DEF Alert
  <2>2. MemoryInv'
    BY <2>1 DEF MemoryInv, PostInv, Never
  <2>3. ASSUME webhook PROVE Heard(k)
    <3>1. errorDedup[k] # Never /\ clock - errorDedup[k] < DedupTtl
      BY <1>2, <2>3 DEF IsDuplicate
    <3>2. PICK p \in posts : p.kind = k /\ p.at = errorDedup[k]
      BY <3>1 DEF MemoryInv
    <3>3. \A q \in posts : q.kind = k /\ clock - q.at < DedupTtl <=> q = p
      BY <3>1, <3>2 DEF MemoryInv, PostInv
    <3>. QED
      BY <2>1, <3>2, <3>3 DEF Heard
  <2>. QED
    BY <2>2, <2>3
<1>3. CASE webhook /\ ~IsDuplicate(k)
  <2>0. PICK new : new = NewPost(k, from)
    OBVIOUS
  <2>1. /\ errorDedup' = [l \in Kinds |->
                            IF l = k THEN clock
                            ELSE IF clock - errorDedup[l] < DedupTtl THEN errorDedup[l]
                                 ELSE Never]
        /\ posts' = posts \cup {new} /\ webhook' = webhook
    BY <1>3, <2>0 DEF Alert
  <2>2. new \in Post /\ new.kind = k /\ new.at = clock
    BY <2>0 DEF NewPost, Post, MemoryInv
  <2>3. \A p \in posts : p.kind = k => ~(clock - p.at < DedupTtl)
    BY <1>1, <1>3 DEF MemoryInv, PostInv, IsDuplicate, Never
  <2>4. /\ errorDedup'[k] = clock
        /\ \A l \in Kinds : l # k =>
             errorDedup'[l] = IF clock - errorDedup[l] < DedupTtl THEN errorDedup[l] ELSE Never
    BY <2>1
  <2>5. errorDedup' \in [Kinds -> 0..MaxClock \cup {Never}]
    BY <2>1 DEF MemoryInv
  <2>6. \A p \in posts' : PostInv(p)'
    <3>1. ASSUME NEW p \in posts PROVE PostInv(p)'
      <4>1. p.kind \in Kinds /\ PostInv(p)
        BY <1>1 DEF MemoryInv
      <4>2. CASE p.kind = k
        BY <2>3, <4>1, <4>2 DEF PostInv
      <4>3. CASE p.kind # k
        BY <2>4, <4>1, <4>3 DEF PostInv
      <4>. QED
        BY <4>2, <4>3
    <3>2. PostInv(new)'
      BY <2>2, <2>4 DEF MemoryInv, PostInv
    <3>. QED
      BY <2>1, <3>1, <3>2
  <2>7. \A p, q \in posts' : p.kind = q.kind /\ p.at = q.at => p = q
    <3>1. \A p \in posts : p.kind = k => p.at # clock
      BY <2>3 DEF MemoryInv
    <3>. QED
      BY <2>1, <2>2, <3>1 DEF MemoryInv
  <2>8. ASSUME NEW l \in Kinds, errorDedup'[l] # Never
        PROVE  \E p \in posts' : p.kind = l /\ p.at = errorDedup'[l]
    BY <2>1, <2>2, <2>4, <2>8 DEF MemoryInv
  <2>9. MemoryInv'
    BY <2>1, <2>2, <2>5, <2>6, <2>7, <2>8 DEF MemoryInv, Never
  <2>10. Heard(k)
    <3>1. clock - new.at < DedupTtl
      BY <2>2 DEF MemoryInv
    <3>. QED
      BY <2>1, <2>2, <2>3, <3>1 DEF Heard
  <2>. QED
    BY <2>9, <2>10
<1> QED
  BY <1>2, <1>3 DEF MemoryInv

LEMMA MemoryStep == MemoryInv /\ [RunQueue]_queueVars => MemoryInv'
<1> SUFFICES ASSUME MemoryInv, [RunQueue]_queueVars PROVE MemoryInv'
  OBVIOUS
<1>0. \A p \in posts : p.kind \in Kinds /\ p.at \in 0..MaxClock
  BY DEF MemoryInv, Post
<1>1. ASSUME NEW k \in Kinds, HttpError(k) \/ \E j \in Jobs : Throw(j, k) PROVE MemoryInv'
  <2>1. (\E from \in Jobs \cup {"http"} : Alert(k, from)) /\ UNCHANGED <<clock, crashes>>
    BY <1>1 DEF HttpError, Throw
  <2>. QED
    BY <2>1, AlertHeard
<1>2. CASE CrashWorker
  BY <1>2, QueueAssumption DEF CrashWorker, MemoryInv, Never
<1>3. CASE TickClock
  <2>1. clock' = clock + 1 /\ clock < MaxClock /\ UNCHANGED <<errorDedup, webhook, posts, crashes>>
    BY <1>3 DEF TickClock, alertVars
  <2>2. \A p \in posts' : PostInv(p)'
    BY <1>0, <2>1, QueueAssumption DEF MemoryInv, PostInv
  <2>. QED
    BY <2>1, <2>2, QueueAssumption DEF MemoryInv, Never
<1>4. ASSUME NEW p \in posts, SettlePost(p) PROVE MemoryInv'
  <2>1. PICK fate \in {"arrived", "lost"} : posts' = (posts \ {p}) \cup {[p EXCEPT !.fate = fate]}
    BY <1>4 DEF SettlePost
  <2>. DEFINE new == [p EXCEPT !.fate = fate]
  <2>2. new \in Post /\ new.kind = p.kind /\ new.at = p.at
    BY DEF MemoryInv, Post
  <2>. HIDE DEF new
  <2>3. posts' = (posts \ {p}) \cup {new} /\ UNCHANGED <<clock, errorDedup, webhook, crashes>>
    BY <1>4, <2>1 DEF SettlePost, new
  <2>4. posts' \subseteq Post
    BY <2>2, <2>3 DEF MemoryInv
  <2>5. \A q \in posts' : PostInv(q)'
    BY <2>2, <2>3 DEF MemoryInv, PostInv
  <2>6. \A q, r \in posts' : q.kind = r.kind /\ q.at = r.at => q = r
    BY <2>2, <2>3 DEF MemoryInv
  <2>7. ASSUME NEW k \in Kinds, errorDedup'[k] # Never
        PROVE  \E q \in posts' : q.kind = k /\ q.at = errorDedup'[k]
    <3>1. PICK q \in posts : q.kind = k /\ q.at = errorDedup[k]
      BY <2>3, <2>7 DEF MemoryInv
    <3>. QED
      BY <2>2, <2>3, <3>1
  <2>. QED
    BY <2>3, <2>4, <2>5, <2>6, <2>7 DEF MemoryInv, Never
<1>5. ASSUME NEW j \in Jobs,
             Enqueue(j) \/ Take(j) \/ Send(j) \/ Complete(j) \/ RetryOrFail(j) \/ Backoff(j)
               \/ MoveStalled(j)
      PROVE  MemoryInv'
  <2>1. UNCHANGED <<clock, errorDedup, webhook, posts, crashes>>
    BY <1>5 DEF Enqueue, Take, Send, Complete, RetryOrFail, Backoff, MoveStalled, alertVars
  <2>. QED
    BY <2>1 DEF MemoryInv, PostInv, Never
<1>6. CASE UNCHANGED queueVars
  BY <1>6 DEF queueVars, alertVars, MemoryInv, PostInv, Never
<1> QED
  BY <1>1, <1>2, <1>3, <1>4, <1>5, <1>6
  DEF RunQueue, RunJobs, RunRequests, RunProcess, WorkOn, Kinds

LEMMA WorkStep == WorkInv /\ [RunQueue]_queueVars => WorkInv'
<1> SUFFICES ASSUME WorkInv, [RunQueue]_queueVars PROVE WorkInv'
  OBVIOUS
<1>. USE QueueAssumption
<1>1. \A i \in Jobs : /\ job[i] \in Job /\ job[i].attemptsMade \in Nat /\ job[i].stalls \in Nat
  BY DEF WorkInv, Job
<1>2. ASSUME NEW j \in Jobs, Enqueue(j) \/ Backoff(j) PROVE WorkInv'
  <2>1. job' = [job EXCEPT ![j].state = "waiting"] /\ working' = working
        /\ job[j].state \in {"absent", "delayed"}
    BY <1>2 DEF Enqueue, Backoff
  <2>. QED
    BY <1>1, <2>1 DEF WorkInv, Job
<1>3. ASSUME NEW j \in Jobs, Take(j) PROVE WorkInv'
  <2>1. job' = [job EXCEPT ![j].state = "active"] /\ working' = {<<j, "sending">>}
        /\ job[j].state = "waiting"
    BY <1>3 DEF Take
  <2>. QED
    BY <1>1, <2>1 DEF WorkInv, Job
<1>4. ASSUME NEW j \in Jobs, Send(j) \/ \E k \in Kinds : Throw(j, k) PROVE WorkInv'
  <2>1. /\ job' = job /\ <<j, "sending">> \in working
        /\ \E s \in {"sent", "thrown"} : working' = {<<j, s>>}
    BY <1>4 DEF Send, Throw
  <2>. QED
    BY <2>1 DEF WorkInv
<1>5. ASSUME NEW j \in Jobs, Complete(j) PROVE WorkInv'
  <2>1. job' = [job EXCEPT ![j].state = "completed"] /\ working' = {} /\ job[j].state = "active"
    BY <1>5 DEF Complete, WorkInv
  <2>. QED
    BY <1>1, <2>1 DEF WorkInv, Job
<1>6. ASSUME NEW j \in Jobs, RetryOrFail(j) PROVE WorkInv'
  <2>1. /\ job' = [job EXCEPT ![j].attemptsMade = @ + 1,
                              ![j].state = IF job[j].attemptsMade + 1 < MaxAttempts
                                           THEN "delayed" ELSE "failed"]
        /\ working' = {} /\ job[j].state = "active"
    BY <1>6 DEF RetryOrFail, WorkInv
  <2>2. job[j].attemptsMade < MaxAttempts /\ job[j].stalls <= MaxStalls
    BY <2>1 DEF WorkInv
  <2>3. job[j].attemptsMade + 1 \in 0..MaxAttempts
    BY <1>1, <2>2
  <2>4. \A i \in Jobs : i # j => job'[i] = job[i]
    BY <2>1 DEF WorkInv
  <2>5. /\ job'[j].attemptsMade = job[j].attemptsMade + 1 /\ job'[j].stalls = job[j].stalls
        /\ job'[j].state = IF job[j].attemptsMade + 1 < MaxAttempts THEN "delayed" ELSE "failed"
    BY <1>1, <2>1 DEF WorkInv, Job
  <2>6. job' \in [Jobs -> Job]
    BY <1>1, <2>1, <2>3 DEF WorkInv, Job
  <2>. QED
    BY <2>1, <2>2, <2>4, <2>5, <2>6 DEF WorkInv
<1>7. ASSUME NEW j \in Jobs, MoveStalled(j) PROVE WorkInv'
  <2>1. /\ job' = [job EXCEPT ![j].stalls = @ + 1,
                              ![j].state = IF job[j].stalls < MaxStalls THEN "waiting" ELSE "failed"]
        /\ working' = working /\ job[j].state = "active" /\ \A w \in working : w[1] # j
    BY <1>7 DEF MoveStalled
  <2>2. job[j].attemptsMade < MaxAttempts /\ job[j].stalls <= MaxStalls
    BY <2>1 DEF WorkInv
  <2>3. job[j].stalls + 1 \in 0..(MaxStalls + 1)
    BY <1>1, <2>2
  <2>4. \A i \in Jobs : i # j => job'[i] = job[i]
    BY <2>1 DEF WorkInv
  <2>5. /\ job'[j].stalls = job[j].stalls + 1 /\ job'[j].attemptsMade = job[j].attemptsMade
        /\ job'[j].state = IF job[j].stalls < MaxStalls THEN "waiting" ELSE "failed"
    BY <1>1, <2>1 DEF WorkInv, Job
  <2>6. job' \in [Jobs -> Job]
    BY <1>1, <2>1, <2>3 DEF WorkInv, Job
  <2>7. \A s \in {"sending", "sent", "thrown"} : <<j, s>> \notin working
    BY <2>1
  <2>8. \A i \in Jobs : job'[i].state # "failed" =>
          job'[i].attemptsMade < MaxAttempts /\ job'[i].stalls <= MaxStalls
    BY <1>1, <2>2, <2>4, <2>5 DEF WorkInv
  <2>9. \A i \in Jobs : \A s \in {"sending", "sent", "thrown"} :
          <<i, s>> \in working' => job'[i].state = "active"
    BY <2>1, <2>4, <2>7 DEF WorkInv
  <2>. QED
    BY <2>1, <2>6, <2>8, <2>9 DEF WorkInv
<1>8. CASE \/ \E k \in Kinds : HttpError(k)
           \/ TickClock \/ (\E p \in posts : SettlePost(p)) \/ UNCHANGED queueVars
  <2>1. UNCHANGED <<job, working>>
    BY <1>8 DEF HttpError, TickClock, SettlePost, queueVars
  <2>. QED
    BY <2>1 DEF WorkInv
<1>9. CASE CrashWorker
  BY <1>9 DEF CrashWorker, WorkInv
<1> QED
  BY <1>2, <1>3, <1>4, <1>5, <1>6, <1>7, <1>8, <1>9
  DEF RunQueue, RunJobs, RunRequests, RunProcess, WorkOn, Kinds

(* A job that the step leaves alone keeps its account. *)
LEMMA TakenStep ==
  WorkInv /\ TakenInv /\ FailedWasTried /\ [RunQueue]_queueVars => (TakenInv /\ FailedWasTried)'
<1> SUFFICES ASSUME WorkInv, TakenInv, FailedWasTried, [RunQueue]_queueVars
             PROVE  (TakenInv /\ FailedWasTried)'
  OBVIOUS
<1>. DEFINE Within(i) ==
              /\ accepted'[i] <= job'[i].attemptsMade + job'[i].stalls + 1
              /\ job'[i].state \notin {"active", "completed"} \/ <<i, "sending">> \in working' =>
                   accepted'[i] <= job'[i].attemptsMade + job'[i].stalls
            Tried(i) == job'[i].state = "failed" =>
                          job'[i].attemptsMade = MaxAttempts \/ job'[i].stalls > MaxStalls
<1>1. \A i \in Jobs : /\ job[i] \in Job /\ job[i].attemptsMade \in Nat /\ job[i].stalls \in Nat
                      /\ accepted[i] \in Nat
  BY DEF WorkInv, TakenInv, Job
<1>. SUFFICES /\ accepted' \in [Jobs -> Nat]
              /\ \A i \in Jobs : Within(i) /\ Tried(i)
  BY DEF TakenInv, FailedWasTried
<1>2. ASSUME NEW j \in Jobs,
             Enqueue(j) \/ Backoff(j) \/ Take(j) \/ Complete(j) \/ RetryOrFail(j) \/ MoveStalled(j)
      PROVE  /\ accepted' \in [Jobs -> Nat]
             /\ \A i \in Jobs : Within(i) /\ Tried(i)
  <2>1. accepted' = accepted
    BY <1>2 DEF Enqueue, Backoff, Take, Complete, RetryOrFail, MoveStalled
  <2>2. \A i \in Jobs : i # j =>
          job'[i] = job[i] /\ (<<i, "sending">> \in working' => <<i, "sending">> \in working)
    BY <1>2 DEF WorkInv, Enqueue, Backoff, Take, Complete, RetryOrFail, MoveStalled
  <2>3. \A i \in Jobs : i # j => Within(i) /\ Tried(i)
    BY <1>1, <2>1, <2>2 DEF TakenInv, FailedWasTried
  <2>. DEFINE Result == Within(j) /\ Tried(j)
  <2>4. ASSUME Enqueue(j) \/ Backoff(j) PROVE Result
    <3>1. job' = [job EXCEPT ![j].state = "waiting"] /\ job[j].state \in {"absent", "delayed"}
      BY <2>4 DEF Enqueue, Backoff
    <3>2. /\ job'[j].state = "waiting" /\ job'[j].stalls = job[j].stalls
          /\ job'[j].attemptsMade = job[j].attemptsMade
      BY <1>1, <3>1 DEF WorkInv, Job
    <3>. QED
      BY <1>1, <2>1, <3>1, <3>2 DEF TakenInv
  <2>5. ASSUME Take(j) PROVE Result
    <3>1. /\ job' = [job EXCEPT ![j].state = "active"] /\ job[j].state = "waiting"
          /\ working' = {<<j, "sending">>}
      BY <2>5 DEF Take
    <3>2. /\ job'[j].state = "active" /\ job'[j].stalls = job[j].stalls
          /\ job'[j].attemptsMade = job[j].attemptsMade
      BY <1>1, <3>1 DEF WorkInv, Job
    <3>. QED
      BY <1>1, <2>1, <3>1, <3>2 DEF TakenInv
  <2>6. ASSUME Complete(j) PROVE Result
    <3>1. job' = [job EXCEPT ![j].state = "completed"] /\ working' = {}
      BY <2>6 DEF Complete
    <3>2. /\ job'[j].state = "completed" /\ job'[j].stalls = job[j].stalls
          /\ job'[j].attemptsMade = job[j].attemptsMade
      BY <1>1, <3>1 DEF WorkInv, Job
    <3>3. accepted[j] <= job[j].attemptsMade + job[j].stalls + 1
      BY <1>1 DEF TakenInv
    <3>. QED
      BY <2>1, <3>1, <3>2, <3>3
  <2>7. ASSUME RetryOrFail(j) PROVE Result
    <3>1. /\ job' = [job EXCEPT ![j].attemptsMade = @ + 1,
                                ![j].state = IF job[j].attemptsMade + 1 < MaxAttempts
                                             THEN "delayed" ELSE "failed"]
          /\ <<j, "thrown">> \in working
      BY <2>7 DEF RetryOrFail
    <3>2. /\ job'[j].stalls = job[j].stalls /\ job'[j].attemptsMade = job[j].attemptsMade + 1
          /\ job'[j].state = IF job[j].attemptsMade + 1 < MaxAttempts THEN "delayed" ELSE "failed"
      BY <1>1, <3>1 DEF WorkInv, Job
    <3>3. accepted[j] <= job[j].attemptsMade + job[j].stalls + 1
      BY <1>1 DEF TakenInv
    <3>4. job[j].attemptsMade < MaxAttempts
      BY <3>1 DEF WorkInv
    <3>. QED
      BY <1>1, <2>1, <3>2, <3>3, <3>4, QueueAssumption
  <2>8. ASSUME MoveStalled(j) PROVE Result
    <3>1. /\ job' = [job EXCEPT ![j].stalls = @ + 1,
                                ![j].state = IF job[j].stalls < MaxStalls THEN "waiting" ELSE "failed"]
      BY <2>8 DEF MoveStalled
    <3>2. /\ job'[j].stalls = job[j].stalls + 1 /\ job'[j].attemptsMade = job[j].attemptsMade
          /\ job'[j].state = IF job[j].stalls < MaxStalls THEN "waiting" ELSE "failed"
      BY <1>1, <3>1 DEF WorkInv, Job
    <3>3. accepted[j] <= job[j].attemptsMade + job[j].stalls + 1
      BY <1>1 DEF TakenInv
    <3>. QED
      BY <1>1, <2>1, <3>2, <3>3, QueueAssumption
  <2>9. Result
    BY <1>2, <2>4, <2>5, <2>6, <2>7, <2>8
  <2>. QED
    BY <2>1, <2>3, <2>9 DEF TakenInv
<1>3. ASSUME NEW j \in Jobs, Send(j) \/ \E k \in Kinds : Throw(j, k)
      PROVE  /\ accepted' \in [Jobs -> Nat]
             /\ \A i \in Jobs : Within(i) /\ Tried(i)
  <2>1. /\ job' = job /\ <<j, "sending">> \in working
        /\ \E s \in {"sent", "thrown"} : working' = {<<j, s>>}
        /\ \E taken \in {0, 1} : accepted' = [accepted EXCEPT ![j] = @ + taken]
    BY <1>3 DEF Send, Throw
  <2>2. job[j].state = "active" /\ \A i \in Jobs : <<i, "sending">> \notin working'
    BY <2>1 DEF WorkInv
  <2>3. \A i \in Jobs : i # j => accepted'[i] = accepted[i]
    BY <2>1 DEF TakenInv
  <2>4. accepted'[j] \in {accepted[j], accepted[j] + 1} /\ accepted' \in [Jobs -> Nat]
    BY <2>1 DEF TakenInv
  <2>5. accepted[j] <= job[j].attemptsMade + job[j].stalls
    BY <2>1, <2>2 DEF TakenInv
  <2>6. \A i \in Jobs : i # j => Within(i) /\ Tried(i)
    BY <1>1, <2>1, <2>2, <2>3 DEF TakenInv, FailedWasTried
  <2>7. Within(j) /\ Tried(j)
    BY <1>1, <2>1, <2>2, <2>4, <2>5
  <2>. QED
    BY <2>4, <2>6, <2>7
<1>4. CASE \/ \E k \in Kinds : HttpError(k)
           \/ TickClock \/ (\E p \in posts : SettlePost(p)) \/ UNCHANGED queueVars
  <2>1. UNCHANGED <<job, working, accepted>>
    BY <1>4 DEF HttpError, TickClock, SettlePost, queueVars
  <2>. QED
    BY <2>1 DEF TakenInv, FailedWasTried
<1>5. CASE CrashWorker
  <2>1. job' = job /\ working' = {} /\ accepted' = accepted
    BY <1>5 DEF CrashWorker
  <2>. QED
    BY <1>1, <2>1 DEF TakenInv, FailedWasTried
<1> QED
  BY <1>2, <1>3, <1>4, <1>5 DEF RunQueue, RunJobs, RunRequests, RunProcess, WorkOn, Kinds

LEMMA QueueStep == QueueInv /\ [RunQueue]_queueVars => QueueInv'
  BY WorkStep, TakenStep, MemoryStep DEF QueueInv

LEMMA QueueAlways == QueueSpec => []QueueInv
<1>1. QueueInit => QueueInv
  BY QueueInitial
<1>2. QueueInv /\ [RunQueue]_queueVars => QueueInv'
  BY QueueStep
<1>. HIDE DEF QueueInv
<1> QED
  BY <1>1, <1>2, PTL DEF QueueSpec

LEMMA QueueTyped == QueueInv => QueueTypeOK
<1> SUFFICES ASSUME QueueInv PROVE QueueTypeOK
  OBVIOUS
<1>1. working \subseteq Jobs \X {"sending", "sent", "thrown"} /\ Cardinality(working) <= 1
  <2>1. CASE working = {}
    BY <2>1, FS_EmptySet
  <2>2. ASSUME NEW j \in Jobs, NEW s \in {"sending", "sent", "thrown"}, working = {<<j, s>>}
        PROVE  working \subseteq Jobs \X {"sending", "sent", "thrown"} /\ Cardinality(working) <= 1
    <3>1. Cardinality(working) = 1
      BY <2>2, FS_Singleton
    <3>. QED
      BY <2>2, <3>1
  <2>. QED
    BY <2>1, <2>2 DEF QueueInv, WorkInv
<1> QED
  BY <1>1 DEF QueueInv, WorkInv, TakenInv, MemoryInv, QueueTypeOK

(* Every job is in a state of the queue, and the worker is at one of them. *)
THEOREM QueueTypeCorrect == QueueSpec => []QueueTypeOK
  BY QueueAlways, QueueTyped, PTL

(* A mail is given up after all its attempts or too many stalls only, and  *)
(* taken at most once for each attempt, each stall and the last try.       *)
THEOREM AttemptsAccounted == QueueSpec => []AttemptsAreAccountedFor
<1>1. QueueInv => AttemptsAreAccountedFor
  <2> SUFFICES ASSUME QueueInv, NEW j \in Jobs
               PROVE  accepted[j] <= job[j].attemptsMade + job[j].stalls
                                       + (IF job[j].state \in {"active", "completed"} THEN 1 ELSE 0)
    BY DEF AttemptsAreAccountedFor, QueueInv, RepeatsHaveCauses
  <2>1. job[j].attemptsMade \in Nat /\ job[j].stalls \in Nat /\ accepted[j] \in Nat
    BY QueueAssumption DEF QueueInv, WorkInv, TakenInv, Job
  <2>2. CASE job[j].state \in {"active", "completed"}
    BY <2>1, <2>2 DEF QueueInv, TakenInv
  <2>3. CASE job[j].state \notin {"active", "completed"}
    <3>1. accepted[j] <= job[j].attemptsMade + job[j].stalls
      BY <2>3 DEF QueueInv, TakenInv
    <3>. QED
      BY <2>1, <2>3, <3>1
  <2>. QED
    BY <2>2, <2>3
<1> QED
  BY <1>1, QueueAlways, PTL

(* Where a webhook is configured, whatever fails has exactly one post of   *)
(* its kind that was started less than the pause ago.                      *)
THEOREM FailuresHeard == QueueSpec => FailuresAreHeard
<1>. DEFINE AllHeard ==
              webhook => \A k \in Kinds : HttpError(k) \/ (\E j \in Jobs : Throw(j, k)) =>
                \E p \in posts' : {q \in posts' : q.kind = k /\ clock - q.at < DedupTtl} = {p}
<1>1. QueueInv => AllHeard
  <2> SUFFICES ASSUME QueueInv, webhook, NEW k \in Kinds,
                      HttpError(k) \/ (\E j \in Jobs : Throw(j, k))
               PROVE  Heard(k)
    BY DEF Heard
  <2>1. (\E from \in Jobs \cup {"http"} : Alert(k, from)) /\ UNCHANGED <<clock, crashes>>
    BY DEF HttpError, Throw
  <2>. QED
    BY <2>1, AlertHeard DEF QueueInv
<1>2. QueueSpec => [][AllHeard]_queueVars
  <2>. HIDE DEF AllHeard
  <2>. QED
    BY <1>1, QueueAlways, PTL
<1> QED
  BY <1>2, PTL DEF FailuresAreHeard

-----------------------------------------------------------------------------
(* Notifications *)

(* How the parts of one event go together: what is looked up is an         *)
(* invitation, what is stored or mailed has its user or its demand, and a  *)
(* row is there only once it was created.                                  *)
EventInv(n) ==
  /\ event[n] \in Event /\ listener[n] \in Stage /\ mailer[n] \in Mail
  /\ listener[n] = "lookup" => event[n].type = Invitation
  /\ listener[n] \in {"create", "push"} => event[n].user \in Users
  /\ mailer[n].step # "none" => event[n].type = "demand.status-changed"

RowInv(m) ==
  /\ m.event \in DOMAIN event /\ m.user \in Users
  /\ m = [event |-> m.event, user |-> m.user, at |-> m.at] /\ m.at \in Nat
  /\ m.user = event[m.event].user
  /\ listener[m.event] \in {"push", "done", "lost"}

ViewInv ==
  /\ socket \in [Clients -> Users \cup {NONE}]
  /\ view \in [Clients -> SUBSET stored]
  /\ fetched \in [Clients -> 0..MaxEvents] /\ checked \subseteq Clients
  /\ \A c \in Clients : socket[c] = NONE => fetched[c] = 0 /\ c \notin checked

(* The mail of an event is for its user, or for the guest as long as no    *)
(* account has claimed the demand.                                         *)
MailInv ==
  /\ enabled \subseteq Users
  /\ contact \in [reporter : Users \cup {NONE}, guestEmail : Emails \cup {NONE}]
  /\ \A n \in DOMAIN event :
       mailer[n].step \in {"send", "done"} =>
         /\ event[n].user \in enabled => mailer[n].to = AddressOf[event[n].user]
         /\ event[n].user = NONE /\ contact.reporter = NONE => mailer[n].to = contact.guestEmail

NotifyInv ==
  /\ event \in Seq(Event) /\ listener \in Seq(Stage) /\ mailer \in Seq(Mail)
  /\ DOMAIN listener = DOMAIN event /\ DOMAIN mailer = DOMAIN event
  /\ \A n \in DOMAIN event : EventInv(n)
  /\ \A m \in stored : RowInv(m)
  /\ IsFiniteSet(stored) /\ read \subseteq stored /\ restarts \in 0..MaxRestarts
  /\ ViewInv /\ MailInv

LEMMA NotifyInitial == NotificationsInit => NotifyInv /\ NothingIsMissed
<1> SUFFICES ASSUME NotificationsInit PROVE NotifyInv /\ NothingIsMissed
  OBVIOUS
<1>1. ViewInv /\ stored = {} /\ IsFiniteSet(stored)
  BY NotificationsAssumption, FS_EmptySet DEF NotificationsInit, ViewInv
<1>2. MailInv /\ event = <<>> /\ listener = <<>> /\ mailer = <<>>
  BY NotificationsAssumption DEF NotificationsInit, MailInv
<1> QED
  BY <1>1, <1>2, NotificationsAssumption DEF NotificationsInit, NotifyInv, NothingIsMissed, RowsOf

(* The more rows there are, the more are newer than one. *)
LEMMA NewerGrows ==
  ASSUME NEW R, NEW S, IsFiniteSet(S), R \subseteq S, NEW m
  PROVE  /\ NewerThan(m, R) \in Nat /\ NewerThan(m, S) \in Nat
         /\ NewerThan(m, R) <= NewerThan(m, S)
<1>. DEFINE newer(rows) == {o \in rows : o.at > m.at}
<1>1. newer(R) \subseteq newer(S) /\ newer(S) \subseteq S
  OBVIOUS
<1>2. IsFiniteSet(newer(S))
  BY <1>1, FS_Subset
<1>3. /\ Cardinality(newer(R)) <= Cardinality(newer(S))
      /\ IsFiniteSet(newer(R))
  BY <1>1, <1>2, FS_Subset
<1> QED
  BY <1>2, <1>3, FS_CardinalityType DEF NewerThan

(* A step that leaves the browsers alone but for what they show: what it   *)
(* stores it is about to push, and what it no longer pushes it shows.      *)
LEMMA NothingGoesMissing ==
  ASSUME NotifyInv, NothingIsMissed, UNCHANGED <<socket, fetched, checked>>,
         stored \subseteq stored', IsFiniteSet(stored'), read \subseteq read',
         \A c \in Clients : view[c] \subseteq view'[c],
         \A m \in stored : listener[m.event] = "push" /\ listener'[m.event] # "push" =>
           \A c \in Clients : socket[c] = m.user => m \in view'[c],
         \A m \in stored' \ stored : listener'[m.event] = "push"
  PROVE  NothingIsMissed'
<1> SUFFICES ASSUME NEW c \in Clients, NEW m \in RowsOf(socket[c])', m \notin view'[c],
                    listener'[m.event] # "push"
             PROVE  /\ NewerThan(m, RowsOf(m.user)') >= fetched[c] * PageSize
                    /\ c \in checked /\ m \notin read' =>
                         NewerThan(m, RowsOf(m.user)') >= PageSize
  BY DEF NothingIsMissed, NewerThan
<1>1. m \in stored /\ m \in RowsOf(socket[c]) /\ m.user = socket[c]
  BY DEF RowsOf
<1>2. /\ NewerThan(m, RowsOf(m.user)) >= fetched[c] * PageSize
      /\ c \in checked /\ m \notin read => NewerThan(m, RowsOf(m.user)) >= PageSize
  BY <1>1 DEF NothingIsMissed
<1>3. /\ NewerThan(m, RowsOf(m.user)) \in Nat /\ NewerThan(m, RowsOf(m.user)') \in Nat
      /\ NewerThan(m, RowsOf(m.user)) <= NewerThan(m, RowsOf(m.user)')
  <2>1. /\ RowsOf(m.user) \subseteq RowsOf(m.user)' /\ RowsOf(m.user)' \subseteq stored'
    BY DEF RowsOf
  <2>2. IsFiniteSet(RowsOf(m.user)')
    BY <2>1, FS_Subset
  <2>. QED
    BY <2>1, <2>2, NewerGrows
<1>4. fetched[c] * PageSize \in Nat /\ PageSize \in Nat
  BY NotificationsAssumption DEF NotifyInv, ViewInv
<1> QED
  BY <1>2, <1>3, <1>4

(* A step that leaves the events and their handling alone. *)
LEMMA EventsStay ==
  ASSUME NotifyInv, UNCHANGED <<event, listener, mailer, stored>>
  PROVE  /\ (/\ event \in Seq(Event) /\ listener \in Seq(Stage) /\ mailer \in Seq(Mail)
             /\ DOMAIN listener = DOMAIN event /\ DOMAIN mailer = DOMAIN event)'
         /\ \A n \in DOMAIN event' : EventInv(n)'
         /\ \A m \in stored' : RowInv(m)'
  BY DEF NotifyInv, EventInv, RowInv

(* Emit starts a new event and leaves the others alone. *)
LEMMA Emitted ==
  ASSUME NotifyInv, NEW type \in ForReporter \cup {"demand.assigned", Invitation},
         NEW user \in Users \cup {NONE}, NEW email \in Emails \cup {NONE},
         type = "demand.assigned" => user \in Users,
         Emit(type, user, email)
  PROVE  NotifyInv' /\ (NothingIsMissed => NothingIsMissed')
<1>. DEFINE k == Len(event) + 1
            e == [type |-> type, user |-> user, email |-> email]
            stage == CASE type = Invitation -> "lookup"
                       [] type # Invitation /\ user # NONE -> "create"
                       [] type # Invitation /\ user = NONE -> "done"
            mail == [step |-> IF type = "demand.status-changed" THEN "resolve" ELSE "none",
                     to |-> NONE]
<1>1. /\ event' = Append(event, e) /\ listener' = Append(listener, stage)
      /\ mailer' = Append(mailer, mail)
      /\ UNCHANGED <<enabled, contact, stored, read, socket, listVars, restarts>>
  BY DEF Emit
<1>2. e \in Event /\ stage \in Stage /\ mail \in Mail
  BY DEF Event, Stage, Mail, Invitation, ForReporter
<1>3. /\ Len(event) \in Nat /\ Len(listener) = Len(event) /\ Len(mailer) = Len(event)
      /\ DOMAIN event = 1..Len(event)
  BY DEF NotifyInv
<1>4. /\ DOMAIN event' = DOMAIN event \cup {k} /\ k \notin DOMAIN event
      /\ event'[k] = e /\ listener'[k] = stage /\ mailer'[k] = mail
      /\ \A n \in DOMAIN event : /\ event'[n] = event[n] /\ listener'[n] = listener[n]
                                 /\ mailer'[n] = mailer[n]
      /\ event' \in Seq(Event) /\ listener' \in Seq(Stage) /\ mailer' \in Seq(Mail)
      /\ DOMAIN listener' = DOMAIN event' /\ DOMAIN mailer' = DOMAIN event'
  BY <1>1, <1>2, <1>3 DEF NotifyInv
<1>5. \A n \in DOMAIN event : EventInv(n)'
  BY <1>1, <1>4 DEF EventInv, NotifyInv
<1>6. ASSUME NEW n, n = k PROVE EventInv(n)'
  <2>1. event'[n] = e /\ listener'[n] = stage /\ mailer'[n] = mail
    BY <1>4, <1>6
  <2>. QED
    BY <1>2, <2>1 DEF EventInv, Invitation, ForReporter
<1>. HIDE DEF k, e, stage, mail
<1>7. \A m \in stored : RowInv(m)'
  BY <1>4 DEF RowInv, NotifyInv
<1>8. ViewInv'
  BY <1>1 DEF NotifyInv, ViewInv, listVars
<1>9. MailInv'
  <2>1. mailer'[k].step \notin {"send", "done"}
    BY <1>4 DEF mail
  <2>. QED
    BY <1>1, <1>4, <2>1 DEF NotifyInv, MailInv
<1>10. NothingIsMissed => NothingIsMissed'
  <2>1. \A m \in stored : listener'[m.event] = listener[m.event]
    BY <1>4 DEF NotifyInv, RowInv
  <2>. QED
    BY <1>1, <2>1, NothingGoesMissing DEF NotifyInv, listVars
<1> QED
  <2>1. \A n \in DOMAIN event' : EventInv(n)'
    BY <1>4, <1>5, <1>6
  <2>. QED
    BY <1>1, <1>4, <1>7, <1>8, <1>9, <1>10, <2>1 DEF NotifyInv

LEMMA Advanced ==
  ASSUME NotifyInv, NEW n \in DOMAIN event, NEW stage \in Stage, Advance(n, stage)
  PROVE  /\ listener' \in Seq(Stage) /\ DOMAIN listener' = DOMAIN listener
         /\ listener'[n] = stage
         /\ \A l \in DOMAIN event : l # n => listener'[l] = listener[l]
  BY DEF Advance, NotifyInv

(* The notification of an event moves on; only a row it creates is new.    *)
LEMMA ListenerStep ==
  ASSUME NotifyInv, NEW n \in DOMAIN event,
         Notify(n) \/ ListenerFails(n)
  PROVE  NotifyInv' /\ (NothingIsMissed => NothingIsMissed')
<1>. USE NotificationsAssumption
<1>0. EventInv(n) /\ \A m \in stored : RowInv(m)
  BY DEF NotifyInv
<1>1. ASSUME NEW stage \in Stage, Advance(n, stage), stage # "lookup",
             stage \in {"create", "push"} => event'[n].user \in Users,
             event' \in Seq(Event), DOMAIN event' = DOMAIN event,
             \A l \in DOMAIN event : l # n => event'[l] = event[l],
             event'[n].type = event[n].type,
             event'[n].user # event[n].user => event[n].type = Invitation,
             UNCHANGED <<enabled, contact, mailer, read, socket, fetched, checked, restarts>>,
             stored \subseteq stored', IsFiniteSet(stored'), ViewInv', \A m \in stored' : RowInv(m)'
      PROVE  NotifyInv'
  <2>1. /\ listener' \in Seq(Stage) /\ DOMAIN listener' = DOMAIN listener
        /\ listener'[n] = stage
        /\ \A l \in DOMAIN event : l # n => listener'[l] = listener[l]
    BY <1>1, Advanced
  <2>2. \A l \in DOMAIN event : l # n => EventInv(l)'
    BY <1>1, <2>1 DEF NotifyInv, EventInv
  <2>3. event'[n] \in Event
    BY <1>1
  <2>4. EventInv(n)'
    BY <1>0, <1>1, <2>1, <2>3 DEF EventInv
  <2>5. MailInv'
    <3>1. \A l \in DOMAIN event : mailer[l].step # "none" => event'[l].user = event[l].user
      BY <1>1 DEF NotifyInv, EventInv, Invitation
    <3>. QED
      BY <1>1, <3>1 DEF NotifyInv, MailInv
  <2>. QED
    BY <1>1, <2>1, <2>2, <2>4, <2>5 DEF NotifyInv
<1>2. ASSUME LookUpInvited(n) PROVE NotifyInv' /\ (NothingIsMissed => NothingIsMissed')
  <2>1. /\ listener[n] = "lookup"
        /\ UNCHANGED <<enabled, contact, mailer, stored, read, socket, listVars, restarts>>
        /\ \/ Advance(n, "done") /\ UNCHANGED event
           \/ \E u \in enabled : Advance(n, "create") /\ event' = [event EXCEPT ![n].user = u]
    BY <1>2 DEF LookUpInvited
  <2>2. event[n] \in Event /\ event[n].type = Invitation /\ enabled \subseteq Users
    BY <1>0, <2>1 DEF EventInv, NotifyInv, MailInv
  <2>3. \A m \in stored : m.event # n
    BY <1>0, <2>1 DEF RowInv
  <2>4. ViewInv' /\ IsFiniteSet(stored') /\ UNCHANGED <<view, fetched, checked>>
    BY <2>1 DEF ViewInv, NotifyInv, listVars
  <2>5. CASE Advance(n, "done") /\ UNCHANGED event
    <3>1. \A m \in stored : RowInv(m)'
      BY <1>0, <2>3, <2>5, Advanced DEF RowInv, Stage
    <3>2. NotifyInv'
      BY <1>1, <2>1, <2>4, <2>5, <3>1 DEF Stage, NotifyInv
    <3>3. NothingIsMissed => NothingIsMissed'
      <4>1. \A m \in stored : listener'[m.event] = listener[m.event]
        BY <1>0, <2>3, <2>5, Advanced DEF RowInv, Stage
      <4>. QED
        BY <2>1, <2>4, <4>1, NothingGoesMissing
    <3>. QED
      BY <3>2, <3>3
  <2>6. ASSUME NEW u \in enabled, Advance(n, "create"), event' = [event EXCEPT ![n].user = u]
        PROVE  NotifyInv' /\ (NothingIsMissed => NothingIsMissed')
    <3>1. /\ event' \in Seq(Event) /\ DOMAIN event' = DOMAIN event
          /\ \A l \in DOMAIN event : l # n => event'[l] = event[l]
          /\ event'[n].user = u /\ event'[n].type = event[n].type
      <4>1. [event[n] EXCEPT !.user = u] \in Event
        BY <2>2, <2>6 DEF Event
      <4>2. event'[n] = [event[n] EXCEPT !.user = u]
        BY <2>6 DEF NotifyInv
      <4>3. event'[n].user = u /\ event'[n].type = event[n].type
        BY <2>2, <4>2 DEF Event
      <4>4. event' \in Seq(Event) /\ DOMAIN event' = DOMAIN event
        BY <2>6, <4>1 DEF NotifyInv
      <4>5. \A l \in DOMAIN event : l # n => event'[l] = event[l]
        BY <2>6 DEF NotifyInv
      <4>. QED
        BY <4>3, <4>4, <4>5
    <3>2. \A m \in stored : RowInv(m)'
      BY <1>0, <2>3, <2>6, <3>1, Advanced DEF RowInv, Stage
    <3>3. NotifyInv'
      BY <1>1, <2>1, <2>2, <2>4, <2>6, <3>1, <3>2 DEF Stage
    <3>4. NothingIsMissed => NothingIsMissed'
      <4>1. \A m \in stored : listener'[m.event] = listener[m.event]
        BY <1>0, <2>3, <2>6, Advanced DEF RowInv, Stage
      <4>. QED
        BY <2>1, <2>4, <4>1, NothingGoesMissing
    <3>. QED
      BY <3>3, <3>4
  <2>. QED
    BY <2>1, <2>5, <2>6
<1>3. ASSUME CreateNotification(n) PROVE NotifyInv' /\ (NothingIsMissed => NothingIsMissed')
  <2>. DEFINE new == NewRow(n)
  <2>1. /\ listener[n] = "create" /\ stored' = stored \cup {new} /\ Advance(n, "push")
        /\ UNCHANGED <<enabled, contact, event, mailer, read, socket, listVars, restarts>>
    BY <1>3 DEF CreateNotification
  <2>2. event[n].user \in Users /\ \A m \in stored : m.event # n
    BY <1>0, <2>1 DEF EventInv, RowInv
  <2>3. ViewInv' /\ IsFiniteSet(stored') /\ UNCHANGED <<view, fetched, checked>>
    <3>1. IsFiniteSet(stored')
      BY <2>1, FS_AddElement DEF NotifyInv
    <3>. QED
      BY <2>1, <3>1 DEF ViewInv, NotifyInv, listVars
  <2>4. listener'[n] = "push" /\ \A l \in DOMAIN event : l # n => listener'[l] = listener[l]
    BY <2>1, Advanced DEF Stage
  <2>5. \A m \in stored : RowInv(m)'
    BY <1>0, <2>1, <2>2, <2>4 DEF RowInv
  <2>6. ASSUME NEW m, m = new PROVE RowInv(m)'
    <3>1. m.event = n /\ m.user = event[n].user /\ m.at \in Nat
          /\ m = [event |-> m.event, user |-> m.user, at |-> m.at]
      BY <2>6, FS_CardinalityType DEF NewRow, NotifyInv
    <3>. QED
      BY <2>1, <2>2, <2>4, <3>1 DEF RowInv
  <2>7. \A m \in stored' : RowInv(m)'
    BY <2>1, <2>5, <2>6
  <2>8. NotifyInv'
    BY <1>1, <2>1, <2>2, <2>3, <2>7 DEF Stage, NotifyInv
  <2>9. NothingIsMissed => NothingIsMissed'
    <3>1. \A m \in stored : listener'[m.event] = listener[m.event]
      BY <1>0, <2>2, <2>4 DEF RowInv
    <3>2. \A m \in stored' \ stored : listener'[m.event] = "push"
      BY <2>1, <2>4 DEF NewRow
    <3>. QED
      BY <2>1, <2>3, <3>1, <3>2, NothingGoesMissing
  <2>. QED
    BY <2>8, <2>9
<1>4. ASSUME SendToUser(n) PROVE NotifyInv' /\ (NothingIsMissed => NothingIsMissed')
  <2>1. /\ listener[n] = "push" /\ Advance(n, "done") /\ view' = [c \in Clients |-> Shown(n, c)]
        /\ UNCHANGED <<enabled, contact, event, mailer, stored, read, socket, fetched, checked, restarts>>
    BY <1>4 DEF SendToUser
  <2>2. listener'[n] = "done" /\ \A l \in DOMAIN event : l # n => listener'[l] = listener[l]
    BY <2>1, Advanced DEF Stage
  <2>3. \A m \in stored : RowInv(m)'
    BY <1>0, <2>1, <2>2 DEF RowInv
  <2>4. ViewInv'
    <3>1. \A c \in Clients : Shown(n, c) \subseteq stored
      BY DEF Shown, NotifyInv, ViewInv
    <3>. QED
      BY <2>1, <3>1 DEF ViewInv, NotifyInv
  <2>5. NotifyInv'
    BY <1>1, <2>1, <2>3, <2>4 DEF Stage, NotifyInv
  <2>6. NothingIsMissed => NothingIsMissed'
    <3>1. \A c \in Clients : view[c] \subseteq view'[c]
      BY <2>1 DEF Shown
    <3>2. ASSUME NEW m \in stored, listener[m.event] = "push", listener'[m.event] # "push",
                 NEW c \in Clients, socket[c] = m.user
          PROVE  m \in view'[c]
      <4>1. m.event = n /\ m.user = event[n].user
        BY <1>0, <2>2, <3>2 DEF RowInv
      <4>. QED
        BY <2>1, <3>2, <4>1 DEF Shown
    <3>. QED
      BY <2>1, <3>1, <3>2, NothingGoesMissing DEF NotifyInv
  <2>. QED
    BY <2>5, <2>6
<1>5. ASSUME ListenerFails(n) PROVE NotifyInv' /\ (NothingIsMissed => NothingIsMissed')
  <2>1. /\ listener[n] \in {"lookup", "create"} /\ Advance(n, "lost")
        /\ UNCHANGED <<enabled, contact, event, mailer, stored, read, socket, listVars, restarts>>
    BY <1>5 DEF ListenerFails
  <2>2. listener'[n] = "lost" /\ \A l \in DOMAIN event : l # n => listener'[l] = listener[l]
    BY <2>1, Advanced DEF Stage
  <2>3. \A m \in stored : RowInv(m)' /\ m.event # n
    BY <1>0, <2>1, <2>2 DEF RowInv
  <2>4. ViewInv' /\ UNCHANGED <<view, fetched, checked>>
    BY <2>1 DEF ViewInv, NotifyInv, listVars
  <2>5. NotifyInv'
    BY <1>1, <2>1, <2>3, <2>4 DEF Stage, NotifyInv
  <2>6. NothingIsMissed => NothingIsMissed'
    <3>1. \A m \in stored : listener'[m.event] = listener[m.event]
      BY <1>0, <2>2, <2>3 DEF RowInv
    <3>. QED
      BY <2>1, <2>4, <3>1, NothingGoesMissing DEF NotifyInv
  <2>. QED
    BY <2>5, <2>6
<1> QED
  BY <1>2, <1>3, <1>4, <1>5 DEF Notify

(* The mail of an event moves on. *)
LEMMA MailerStep ==
  ASSUME NotifyInv, NEW n \in DOMAIN event, ResolveEmail(n) \/ SendStatusUpdate(n)
  PROVE  NotifyInv' /\ (NothingIsMissed => NothingIsMissed')
<1>. USE NotificationsAssumption
<1>0. /\ EventInv(n) /\ mailer[n] \in Mail /\ enabled \subseteq Users
      /\ contact.guestEmail \in Emails \cup {NONE} /\ event[n].user \in Users \cup {NONE}
  BY DEF NotifyInv, EventInv, MailInv, Event
<1>1. UNCHANGED <<enabled, contact, event, listener, stored, read, socket, listVars, restarts>>
  BY DEF ResolveEmail, SendStatusUpdate
<1>2. ASSUME ResolveEmail(n)
      PROVE  /\ mailer' \in Seq(Mail) /\ DOMAIN mailer' = DOMAIN mailer
             /\ \A l \in DOMAIN event : l # n => mailer'[l] = mailer[l]
             /\ mailer[n].step # "none"
             /\ event[n].user \in enabled => mailer'[n].to = AddressOf[event[n].user]
             /\ event[n].user = NONE => mailer'[n].to = contact.guestEmail
  <2>1. /\ mailer[n].step = "resolve"
        /\ mailer' = [mailer EXCEPT ![n] = [step |-> IF Resolved(n) = NONE THEN "done" ELSE "send",
                                            to |-> Resolved(n)]]
    BY <1>2 DEF ResolveEmail
  <2>2. Resolved(n) \in Emails \cup {NONE}
    BY <1>0 DEF Resolved
  <2>3. [step |-> IF Resolved(n) = NONE THEN "done" ELSE "send", to |-> Resolved(n)] \in Mail
    BY <2>2 DEF Mail
  <2>4. mailer'[n].to = Resolved(n)
    BY <2>1 DEF NotifyInv
  <2>5. /\ event[n].user \in enabled => Resolved(n) = AddressOf[event[n].user]
        /\ event[n].user = NONE => Resolved(n) = contact.guestEmail
    BY <1>0 DEF Resolved
  <2>. QED
    BY <2>1, <2>3, <2>4, <2>5 DEF NotifyInv
<1>3. ASSUME SendStatusUpdate(n)
      PROVE  /\ mailer' \in Seq(Mail) /\ DOMAIN mailer' = DOMAIN mailer
             /\ \A l \in DOMAIN event : l # n => mailer'[l] = mailer[l]
             /\ mailer[n].step = "send" /\ mailer'[n].to = mailer[n].to
  <2>1. PICK step \in {"done", "lost"} : mailer' = [mailer EXCEPT ![n].step = step]
    BY <1>3 DEF SendStatusUpdate
  <2>2. [mailer[n] EXCEPT !.step = step] \in Mail
    BY <1>0 DEF Mail
  <2>3. mailer'[n] = [mailer[n] EXCEPT !.step = step]
    BY <2>1 DEF NotifyInv
  <2>4. mailer'[n].to = mailer[n].to
    BY <1>0, <2>3 DEF Mail
  <2>. QED
    <3>1. mailer[n].step = "send"
      BY <1>3 DEF SendStatusUpdate
    <3>2. mailer' \in Seq(Mail) /\ DOMAIN mailer' = DOMAIN mailer
      BY <2>1, <2>2 DEF NotifyInv
    <3>3. \A l \in DOMAIN event : l # n => mailer'[l] = mailer[l]
      BY <2>1 DEF NotifyInv
    <3>. QED
      BY <2>4, <3>1, <3>2, <3>3
<1>4. /\ mailer' \in Seq(Mail) /\ DOMAIN mailer' = DOMAIN mailer
      /\ \A l \in DOMAIN event : l # n => mailer'[l] = mailer[l]
      /\ mailer[n].step # "none"
  BY <1>2, <1>3
<1>5. \A l \in DOMAIN event : EventInv(l)'
  <2>1. mailer'[n] \in Mail
    BY <1>4 DEF NotifyInv
  <2>. QED
    BY <1>1, <1>4, <2>1 DEF NotifyInv, EventInv
<1>6. MailInv'
  <2>1. /\ event[n].user \in enabled => mailer'[n].to = AddressOf[event[n].user]
        /\ event[n].user = NONE /\ contact.reporter = NONE => mailer'[n].to = contact.guestEmail
    BY <1>2, <1>3 DEF NotifyInv, MailInv
  <2>. QED
    BY <1>1, <1>4, <2>1 DEF NotifyInv, MailInv
<1>7. (\A m \in stored : RowInv(m)') /\ ViewInv'
  BY <1>1 DEF NotifyInv, RowInv, ViewInv, listVars
<1>8. NothingIsMissed => NothingIsMissed'
  BY <1>1, NothingGoesMissing DEF NotifyInv, listVars
<1> QED
  BY <1>1, <1>4, <1>5, <1>6, <1>7, <1>8 DEF NotifyInv

(* What people do, and what administrators and registrations do to them.   *)
LEMMA PeopleStep ==
  ASSUME NotifyInv,
         \/ \E c \in Clients :
              \/ \E u \in Users : Connect(c, u)
              \/ \E page \in 1..MaxEvents : FetchList(c, page) \/ FetchUnread(c, page)
              \/ Disconnect(c)
              \/ \E m \in view[c] : MarkAsRead(c, m)
         \/ \E u \in Users : MarkAllAsRead(u) \/ ClaimContact(u) \/ DisableReader(u)
         \/ UNCHANGED notificationVars
  PROVE  NotifyInv' /\ (NothingIsMissed => NothingIsMissed')
<1>. USE NotificationsAssumption
<1>1. UNCHANGED <<event, listener, mailer, stored, restarts>>
  BY DEF Connect, FetchList, FetchUnread, Disconnect, MarkAsRead, MarkAllAsRead, ClaimContact, DisableReader,
         notificationVars
<1>2. /\ (/\ event \in Seq(Event) /\ listener \in Seq(Stage) /\ mailer \in Seq(Mail)
          /\ DOMAIN listener = DOMAIN event /\ DOMAIN mailer = DOMAIN event)'
      /\ \A n \in DOMAIN event' : EventInv(n)'
      /\ \A m \in stored' : RowInv(m)'
  BY <1>1, EventsStay
<1>. SUFFICES /\ read' \subseteq stored /\ ViewInv' /\ MailInv'
              /\ NothingIsMissed => NothingIsMissed'
  BY <1>1, <1>2 DEF NotifyInv
<1>. DEFINE Kept == /\ read' \subseteq stored /\ ViewInv' /\ MailInv'
                    /\ NothingIsMissed => NothingIsMissed'
            Later(c, m) == NewerThan(m, RowsOf(m.user)) >= fetched'[c] * PageSize
            LaterUnread(c, m) == c \in checked' /\ m \notin read =>
                                  NewerThan(m, RowsOf(m.user)) >= PageSize
<1>a. \A m \in stored : NewerThan(m, RowsOf(m.user)) \in Nat
  <2>1. \A u : IsFiniteSet(RowsOf(u))
    BY FS_Subset DEF NotifyInv, RowsOf
  <2>. QED
    BY <2>1, NewerGrows
(* Of a step of one browser only what that browser shows is in question. *)
<1>b. ASSUME NEW c \in Clients, UNCHANGED <<enabled, contact, read>>, ViewInv',
             \A o \in Clients : o # c => /\ socket'[o] = socket[o] /\ view'[o] = view[o]
                                         /\ fetched'[o] = fetched[o]
                                         /\ o \in checked' <=> o \in checked,
             NothingIsMissed => \A m \in RowsOf(socket'[c]) :
               m \in view'[c] \/ listener[m.event] = "push" \/ (Later(c, m) /\ LaterUnread(c, m))
      PROVE  Kept
  <2>1. MailInv' /\ read' \subseteq stored
    BY <1>1, <1>b DEF NotifyInv, MailInv
  <2>2. ASSUME NothingIsMissed, NEW o \in Clients, NEW m \in RowsOf(socket'[o])
        PROVE  m \in view'[o] \/ listener[m.event] = "push" \/ (Later(o, m) /\ LaterUnread(o, m))
    <3>1. CASE o = c
      BY <1>b, <2>2, <3>1
    <3>2. CASE o # c
      <4>1. /\ socket'[o] = socket[o] /\ view'[o] = view[o] /\ fetched'[o] = fetched[o]
            /\ o \in checked' <=> o \in checked
        BY <1>b, <3>2
      <4>2. m \in RowsOf(socket[o])
        BY <4>1
      <4>3. m.user = socket[o]
        BY <4>2 DEF RowsOf
      <4>4. \/ m \in view[o] \/ listener[m.event] = "push"
            \/ /\ NewerThan(m, RowsOf(m.user)) >= fetched[o] * PageSize
               /\ o \in checked /\ m \notin read => NewerThan(m, RowsOf(m.user)) >= PageSize
        BY <2>2, <4>2 DEF NothingIsMissed
      <4>. QED
        BY <4>1, <4>4
    <3>. QED
      BY <3>1, <3>2
  <2>3. NothingIsMissed => NothingIsMissed'
    BY <1>1, <1>b, <2>2 DEF NothingIsMissed, RowsOf
  <2>. QED
    BY <1>b, <2>1, <2>3
<1>3. ASSUME NEW c \in Clients, (\E u \in Users : Connect(c, u)) \/ Disconnect(c) PROVE Kept
  <2>1. /\ UNCHANGED <<enabled, contact, read>>
        /\ \E u \in Users \cup {NONE} : socket' = [socket EXCEPT ![c] = u]
        /\ view' = view \/ view' = [view EXCEPT ![c] = {}]
        /\ \/ socket[c] = NONE /\ UNCHANGED <<fetched, checked>>
           \/ fetched' = [fetched EXCEPT ![c] = 0] /\ checked' = checked \ {c}
    BY <1>3 DEF Connect, Disconnect
  <2>2. /\ fetched'[c] = 0 /\ c \notin checked'
        /\ \A o \in Clients : o # c => /\ socket'[o] = socket[o] /\ view'[o] = view[o]
                                       /\ fetched'[o] = fetched[o]
                                       /\ o \in checked' <=> o \in checked
    <3>1. \A o \in Clients : o # c => socket'[o] = socket[o] /\ view'[o] = view[o]
      BY <2>1 DEF NotifyInv, ViewInv
    <3>2. CASE socket[c] = NONE /\ UNCHANGED <<fetched, checked>>
      BY <3>1, <3>2 DEF NotifyInv, ViewInv
    <3>3. CASE fetched' = [fetched EXCEPT ![c] = 0] /\ checked' = checked \ {c}
      BY <3>1, <3>3 DEF NotifyInv, ViewInv
    <3>. QED
      BY <2>1, <3>2, <3>3
  <2>3. ViewInv'
    <3>1. socket' \in [Clients -> Users \cup {NONE}] /\ view' \in [Clients -> SUBSET stored']
      BY <1>1, <2>1 DEF NotifyInv, ViewInv
    <3>2. fetched' \in [Clients -> 0..MaxEvents] /\ checked' \subseteq Clients
      BY <2>1 DEF NotifyInv, ViewInv
    <3>. QED
      BY <2>2, <3>1, <3>2 DEF NotifyInv, ViewInv
  <2>4. \A m \in stored : Later(c, m) /\ LaterUnread(c, m)
    BY <1>a, <2>2
  <2>. QED
    BY <1>b, <2>1, <2>2, <2>3, <2>4 DEF RowsOf
<1>4. ASSUME NEW c \in Clients, NEW page \in 1..MaxEvents, FetchList(c, page) PROVE Kept
  <2>. DEFINE rows == RowsOf(socket[c])
  <2>1. /\ socket[c] # NONE /\ view' = [view EXCEPT ![c] = @ \cup Page(rows, page)]
        /\ fetched' = [fetched EXCEPT ![c] = IF page = @ + 1 THEN page ELSE @]
        /\ UNCHANGED <<enabled, contact, read, socket, checked>>
    BY <1>4 DEF FetchList
  <2>2. /\ view'[c] = view[c] \cup Page(rows, page)
        /\ fetched'[c] = IF page = fetched[c] + 1 THEN page ELSE fetched[c]
        /\ \A o \in Clients : o # c => view'[o] = view[o] /\ fetched'[o] = fetched[o]
    BY <2>1 DEF NotifyInv, ViewInv
  <2>3. ViewInv'
    <3>1. Page(rows, page) \subseteq stored
      BY DEF Page, RowsOf
    <3>. QED
      BY <1>1, <2>1, <2>2, <3>1 DEF NotifyInv, ViewInv
  <2>4. ASSUME NothingIsMissed, NEW m \in rows, m \notin view'[c], listener[m.event] # "push"
        PROVE  Later(c, m) /\ LaterUnread(c, m)
    <3>1. m \in stored /\ m.user = socket[c] /\ rows = RowsOf(m.user)
      BY DEF RowsOf
    <3>2. /\ NewerThan(m, rows) >= fetched[c] * PageSize
          /\ c \in checked /\ m \notin read => NewerThan(m, rows) >= PageSize
      BY <2>2, <2>4, <3>1 DEF NothingIsMissed
    <3>3. ASSUME page = fetched[c] + 1 PROVE NewerThan(m, rows) >= page * PageSize
      <4>1. page - 1 = fetched[c]
        BY <3>3 DEF NotifyInv, ViewInv
      <4>2. ~(NewerThan(m, rows) < page * PageSize)
        BY <2>2, <2>4, <3>2, <4>1 DEF Page
      <4>3. page * PageSize \in Int
        OBVIOUS
      <4>. QED
        BY <1>a, <3>1, <4>2, <4>3
    <3>. QED
      BY <2>1, <2>2, <3>1, <3>2, <3>3
  <2>. QED
    BY <1>b, <2>1, <2>2, <2>3, <2>4
<1>5. ASSUME NEW c \in Clients, NEW page \in 1..MaxEvents, FetchUnread(c, page) PROVE Kept
  <2>. DEFINE rows == RowsOf(socket[c])
  <2>1. /\ socket[c] # NONE /\ view' = [view EXCEPT ![c] = @ \cup Page(rows \ read, page)]
        /\ checked' = IF page = 1 THEN checked \cup {c} ELSE checked
        /\ UNCHANGED <<enabled, contact, read, socket, fetched>>
    BY <1>5 DEF FetchUnread
  <2>2. /\ view'[c] = view[c] \cup Page(rows \ read, page)
        /\ \A o \in Clients : o # c => view'[o] = view[o] /\ (o \in checked' <=> o \in checked)
    BY <2>1 DEF NotifyInv, ViewInv
  <2>3. ViewInv'
    <3>1. Page(rows \ read, page) \subseteq stored
      BY DEF Page, RowsOf
    <3>. QED
      BY <1>1, <2>1, <2>2, <3>1 DEF NotifyInv, ViewInv
  <2>4. ASSUME NothingIsMissed, NEW m \in rows, m \notin view'[c], listener[m.event] # "push"
        PROVE  Later(c, m) /\ LaterUnread(c, m)
    <3>1. m \in stored /\ m.user = socket[c] /\ rows = RowsOf(m.user)
      BY DEF RowsOf
    <3>2. /\ NewerThan(m, rows) >= fetched[c] * PageSize
          /\ c \in checked /\ m \notin read => NewerThan(m, rows) >= PageSize
      BY <2>2, <2>4, <3>1 DEF NothingIsMissed
    <3>3. ASSUME page = 1, m \notin read PROVE NewerThan(m, rows) >= PageSize
      <4>1. IsFiniteSet(rows)
        BY FS_Subset DEF NotifyInv, RowsOf
      <4>2. /\ NewerThan(m, rows \ read) \in Nat /\ NewerThan(m, rows) \in Nat
            /\ NewerThan(m, rows \ read) <= NewerThan(m, rows)
        BY <4>1, NewerGrows
      <4>3. (page - 1) * PageSize = 0 /\ page * PageSize = PageSize
        BY <3>3
      <4>4. ~(NewerThan(m, rows \ read) < PageSize)
        BY <2>2, <2>4, <3>3, <4>2, <4>3 DEF Page
      <4>. QED
        BY <4>2, <4>4
    <3>. QED
      BY <2>1, <3>1, <3>2, <3>3
  <2>. QED
    BY <1>b, <2>1, <2>2, <2>3, <2>4
<1>6. ASSUME \/ \E c \in Clients : \E m \in view[c] : MarkAsRead(c, m)
             \/ \E u \in Users : MarkAllAsRead(u)
             \/ UNCHANGED notificationVars
      PROVE  /\ read' \subseteq stored /\ ViewInv' /\ MailInv'
             /\ NothingIsMissed => NothingIsMissed'
  <2>1. UNCHANGED <<enabled, contact, socket, view, fetched, checked>>
    BY <1>6 DEF MarkAsRead, MarkAllAsRead, notificationVars, listVars
  <2>2. read' \subseteq stored /\ read \subseteq read'
    BY <1>6 DEF NotifyInv, ViewInv, MarkAsRead, MarkAllAsRead, notificationVars
  <2>3. ViewInv' /\ MailInv'
    BY <1>1, <2>1 DEF NotifyInv, ViewInv, MailInv
  <2>4. NothingIsMissed => NothingIsMissed'
    BY <1>1, <2>1, <2>2, NothingGoesMissing DEF NotifyInv
  <2>. QED
    BY <2>2, <2>3, <2>4
<1>7. ASSUME NEW u \in Users, ClaimContact(u) \/ DisableReader(u)
      PROVE  /\ read' \subseteq stored /\ ViewInv' /\ MailInv'
             /\ NothingIsMissed => NothingIsMissed'
  <2>1. UNCHANGED <<read, socket, view, fetched, checked>>
    BY <1>7 DEF ClaimContact, DisableReader, listVars
  <2>2. /\ enabled' \subseteq enabled
        /\ contact' = contact \/ contact' = [reporter |-> u, guestEmail |-> NONE]
    BY <1>7 DEF ClaimContact, DisableReader
  <2>3. MailInv'
    BY <1>1, <2>2 DEF NotifyInv, MailInv
  <2>4. ViewInv' /\ (NothingIsMissed => NothingIsMissed')
    BY <1>1, <2>1, NothingGoesMissing DEF NotifyInv, ViewInv
  <2>. QED
    BY <2>1, <2>3, <2>4 DEF NotifyInv
<1> QED
  BY <1>3, <1>4, <1>5, <1>6, <1>7

LEMMA RestartStep ==
  ASSUME NotifyInv, Restart
  PROVE  NotifyInv' /\ NothingIsMissed'
<1>. USE NotificationsAssumption
<1>1. /\ listener' = [n \in DOMAIN listener |-> IF listener[n] = "done" THEN "done" ELSE "lost"]
      /\ mailer' = [n \in DOMAIN mailer |->
                      IF mailer[n].step \in {"resolve", "send"} THEN [mailer[n] EXCEPT !.step = "lost"]
                                                                ELSE mailer[n]]
      /\ socket' = [c \in Clients |-> NONE]
      /\ fetched' = [c \in Clients |-> 0] /\ checked' = {}
      /\ restarts < MaxRestarts /\ restarts' = restarts + 1
      /\ UNCHANGED <<enabled, contact, event, stored, read, view>>
  BY DEF Restart
<1>2. /\ DOMAIN event = 1..Len(event) /\ Len(event) \in Nat
      /\ DOMAIN listener = 1..Len(event) /\ DOMAIN mailer = 1..Len(event)
  BY DEF NotifyInv
<1>3. ASSUME NEW n \in DOMAIN event
      PROVE  /\ listener'[n] \in {"done", "lost"} /\ mailer'[n] \in Mail
             /\ mailer'[n].step # "none" => mailer[n].step # "none"
             /\ mailer'[n].step \in {"send", "done"} => mailer'[n] = mailer[n]
             /\ EventInv(n)'
  <2>1. mailer[n] \in Mail /\ EventInv(n)
    BY DEF NotifyInv, EventInv
  <2>2. listener'[n] \in {"done", "lost"}
    BY <1>1, <1>2
  <2>3. mailer'[n] = IF mailer[n].step \in {"resolve", "send"}
                     THEN [mailer[n] EXCEPT !.step = "lost"] ELSE mailer[n]
    BY <1>1, <1>2
  <2>4. /\ mailer'[n] \in Mail
        /\ mailer'[n].step # "none" => mailer[n].step # "none"
        /\ mailer'[n].step \in {"send", "done"} => mailer'[n] = mailer[n]
    BY <2>1, <2>3 DEF Mail
  <2>5. EventInv(n)'
    BY <1>1, <2>1, <2>2, <2>4 DEF EventInv, Stage
  <2>. QED
    BY <2>2, <2>4, <2>5
<1>4. listener' \in Seq(Stage) /\ DOMAIN listener' = DOMAIN event'
  <2>1. listener' \in [1..Len(event) -> Stage]
    BY <1>1, <1>2 DEF Stage
  <2>. QED
    BY <1>1, <1>2, <2>1
<1>5. mailer' \in Seq(Mail) /\ DOMAIN mailer' = DOMAIN event'
  <2>1. mailer' \in [1..Len(event) -> Mail]
    BY <1>1, <1>2, <1>3
  <2>. QED
    BY <1>1, <1>2, <2>1
<1>6. \A m \in stored : RowInv(m)'
  BY <1>1, <1>3 DEF NotifyInv, RowInv
<1>7. ViewInv'
  BY <1>1 DEF NotifyInv, ViewInv
<1>8. MailInv'
  BY <1>1, <1>3 DEF NotifyInv, MailInv
<1>9. NothingIsMissed'
  BY <1>1, <1>6, NotificationsAssumption DEF NothingIsMissed, RowsOf, RowInv
<1> QED
  <2>1. /\ restarts' \in 0..MaxRestarts /\ read' \subseteq stored' /\ event' \in Seq(Event)
        /\ IsFiniteSet(stored')
    BY <1>1 DEF NotifyInv
  <2>2. /\ \A n \in DOMAIN event' : EventInv(n)'
        /\ \A m \in stored' : RowInv(m)'
    BY <1>1, <1>3, <1>6
  <2>. QED
    BY <1>4, <1>5, <1>7, <1>8, <1>9, <2>1, <2>2 DEF NotifyInv

LEMMA NotifyStep ==
  NotifyInv /\ NothingIsMissed /\ [TellPeople]_notificationVars => NotifyInv' /\ NothingIsMissed'
<1> SUFFICES ASSUME NotifyInv, NothingIsMissed, [TellPeople]_notificationVars
             PROVE  NotifyInv' /\ NothingIsMissed'
  OBVIOUS
<1>1. ASSUME NEW type \in ForReporter, Emit(type, contact.reporter, NONE)
      PROVE  NotifyInv' /\ NothingIsMissed'
  <2>1. contact.reporter \in Users \cup {NONE} /\ type # "demand.assigned"
    BY DEF NotifyInv, MailInv, ForReporter
  <2>. QED
    BY <1>1, <2>1, Emitted
<1>2. ASSUME NEW u \in Users, Emit("demand.assigned", u, NONE) PROVE NotifyInv' /\ NothingIsMissed'
  BY <1>2, Emitted
<1>3. ASSUME NEW e \in Emails, Emit(Invitation, NONE, e) PROVE NotifyInv' /\ NothingIsMissed'
  <2>1. Invitation # "demand.assigned"
    BY DEF Invitation
  <2>. QED
    BY <1>3, <2>1, Emitted
<1> QED
  BY <1>1, <1>2, <1>3, ListenerStep, MailerStep, PeopleStep, RestartStep DEF TellPeople

LEMMA NotifyAlways == NotificationsSpec => [](NotifyInv /\ NothingIsMissed)
<1>1. NotificationsInit => NotifyInv /\ NothingIsMissed
  BY NotifyInitial
<1>2. NotifyInv /\ NothingIsMissed /\ [TellPeople]_notificationVars
        => (NotifyInv /\ NothingIsMissed)'
  BY NotifyStep
<1>. HIDE DEF NotifyInv, NothingIsMissed
<1> QED
  BY <1>1, <1>2, PTL DEF NotificationsSpec

(* Every event, row and browser has the type the handlers give it; a push  *)
(* is made only of a row that is stored.                                   *)
THEOREM NotificationsTypeCorrect == NotificationsSpec => []NotificationsTypeOK
<1>1. NotifyInv => NotificationsTypeOK
  <2> SUFFICES ASSUME NotifyInv PROVE NotificationsTypeOK
    OBVIOUS
  <2>1. stored \subseteq [event : DOMAIN event, user : Users, at : Nat]
    BY DEF NotifyInv, RowInv
  <2>. QED
    BY <2>1 DEF NotifyInv, EventInv, ViewInv, MailInv, NotificationsTypeOK
<1> QED
  BY <1>1, NotifyAlways, PTL

(* Whoever has connected and then fetched pages in turn is shown what is   *)
(* stored or is about to be, unless so many newer rows are stored that it  *)
(* is on a later page.                                                     *)
THEOREM NobodyMisses == NotificationsSpec => []NothingIsMissed
  BY NotifyAlways, PTL

(* A mail about a change of status that is done went to the reporter, or   *)
(* to the guest as long as nobody claimed the demand.                      *)
THEOREM ReportersMailed == NotificationsSpec => []ReportersAreMailed
<1>1. NotifyInv => ReportersAreMailed
  BY DEF NotifyInv, MailInv, ReportersAreMailed
<1> QED
  BY <1>1, NotifyAlways, PTL

-----------------------------------------------------------------------------
(* The instance that is model-checked explores one part and leaves the     *)
(* other alone: what each part promises holds of every behaviour of both.  *)
LEMMA PartsRun == Spec => NotificationsSpec /\ QueueSpec
<1>1. Init => NotificationsInit /\ QueueInit
  BY DEF Init
<1>2. [Next]_<<notificationVars, queueVars, part>>
        => [TellPeople]_notificationVars /\ [RunQueue]_queueVars
  BY DEF Next, TellLists, RunQueue
<1> QED
  BY <1>1, <1>2, PTL DEF Spec, NotificationsSpec, QueueSpec

(* Events, rows, pages, mails and jobs have their types together.          *)
THEOREM TypeCorrect == Spec => []TypeOK
BY PartsRun, NotificationsTypeCorrect, QueueTypeCorrect, PTL DEF TypeOK
=============================================================================
