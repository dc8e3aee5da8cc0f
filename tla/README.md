# Gabinete: specifications, model checking and proofs

Gabinete is a NestJS back end (Prisma over PostgreSQL, BullMQ over Redis,
EventEmitter2, Cloudflare R2) in which citizens send *demands* to the
*cabinets* of their representatives, and the members of a cabinet answer them.
This directory holds TLA+ models of its core logic, the TLC configurations that
check them, and theorems checked by TLAPS.

Contents: [system](#the-system) · [modules](#modules) · [runs](#runs) ·
[proofs](#proofs) · [findings](#what-the-code-does-not-meet) ·
[not modelled](#what-is-not-modelled) · [plan](#plan)

## The system

### How code runs

* A request is an `async` handler (guards, then one use case). Node runs one
  callback at a time, so the interleaving points are the `await`s; almost every
  `await` is one SQL statement. There is **no transaction** around a handler
  (the three `$transaction` calls of the repository are two read-only listings
  and the bulk save of page sections), so handlers overlap between statements,
  on one process and on several.
* `eventEmitter.emit` calls every listener synchronously up to its first
  `await`; the rest of an `async` listener runs on its own, in no order, is
  awaited by nobody and is lost if the process stops.
* Deletion is soft (`disabledAt`); most reads filter it, writes by id do not.
* Uniqueness and foreign keys are the database's; a violation is an exception
  that ends the request.
* Guards read the database before the handler does, each for itself.
* Mails go through BullMQ in Redis, which repeats a job that throws; listeners of
  events are not stored anywhere.

### Components

| component | state | operations | talks to | correct when | modelled in |
|---|---|---|---|---|---|
| Demand lifecycle (`modules/demands`) | `demands` rows: cabinet, assignee, status, survey token and rating, `disabledAt` | create, claim, assign, unlink, progress, patch, delete, survey | members, results, events to scoring, mail, notifications | ownership changes only by claim/unlink; assignee is a member of the owner; deletion is final; the survey is answered once by the holder of its link | `DemandLifecycle`, `DemandService` |
| Results (`modules/results`) | `results` rows, their images and protocol file | create, update, delete, add images, upload protocol | demands (FK), storage, event `result.deleted` | a resolved demand keeps a result or is reopened; every stored object has a row | `DemandLifecycle`, `CabinetUsage` |
| Cabinet scoring (`cabinet-scoring.listener.ts`) | `score`, `in_progress_count`, `resolved_count` of a cabinet | one UPDATE per `demand.status-changed` | events of progress and patch | the counters agree with each other | `CabinetScoring` |
| Membership (`modules/cabinets`) | `cabinet_members`, `cabinet_invitations`, roles | create cabinet, invite, accept, cancel, change role, transfer, remove, leave, disable | users (role), plans (limit), mail queue | one membership per user and cabinet; an owner remains; members do not exceed the plan | `CabinetMembership` |
| Engagement and moderation (`modules/demands`) | likes, comments, reports | toggle like, comment, report, dismiss, delete | demands, members | likes follow the toggles; dismissed demands take no more reports; no report stays pending on a deleted demand | `DemandEngagement` |
| Plans (`modules/plans`) | plans' limits and features, subscriptions, overrides | subscribe, update, override; limit checks; guards | every handler that creates something | one running subscription; usage within limits; page and guard agree | `Subscriptions`, `FeatureAccess`, `CabinetUsage` |
| Storage (`cloudflare-storage.service.ts`, evidence, images, protocols) | objects in R2, rows that name them | presign, confirm, upload, replace, delete | plans (quota) | rows and objects agree; quota holds | `CabinetUsage` |
| Authentication (`modules/auth`) | `tokens` (one per user and type), users' password and verification | register, login, Google login, refresh, verify, forgot, reset, change, clean up | mail queue | a link works once and until replaced; the last session renews | `Accounts` |
| Users (`modules/users`) | users, saved neighborhoods | create (claims guest demands), disable, neighborhoods | demands (guest claim) | few neighborhoods, one primary; a guest's demands follow the account | `Accounts`, `UserNeighborhoods` |
| Queue (`shared/.../queue`, `discord.service.ts`) | BullMQ jobs, memory of alerts | enqueue, process with attempts, alert | mail service, Discord | every mail settles; every failure has one recent post | `MailQueue` |
| Notifications (`modules/notifications`, `demand-email.listener.ts`) | `notifications` rows, sockets | notify, push, list, mark read, mail the reporter | every event | what is owed is stored, shown on its page or mailed | `Notifications` |
| Routes and guards (all controllers, `shared/guards`) | none of their own | dispatch, then guards in order | users, members, demands, results, subscriptions | a handler runs only for somebody entitled | `Routes`, `AccessControl` |
| Reports and dashboards (`demands.repository.ts`, `cabinets.repository.ts`) | none of their own | report, open data, trend, metrics, summary | demands | figures add up | `CabinetReports` |
| Administration (`modules/admin`) | — | the above, by administrators | all of them | as above | `CabinetMembership`, `Accounts`, `Subscriptions` |
| Categories, cabinet pages, open graph | rows of their own | single-row writes, pages | | | routes only |

### What is hard here

Reads before an `await` that are stale at the write; events that are lost in a
crash, repeated by overlapping requests or applied out of order; updates in two
statements, or in a row and a bucket, that a failure can split; retries by clients
and by the queue; limits that are checked by a count; guards that look before the
handler does; figures put together from statements that see different states.
`PROJECT.json` lists each at its line (`hazards`) with the properties that cover it.

## Modules

```
CabinetScoring <- DemandLifecycle --implements--> DemandService
CabinetMembership
DemandEngagement,  CabinetReports      (composed in MCDemandEngagement)
Routes <- AccessControl
Subscriptions <- CabinetUsage
Subscriptions <- FeatureAccess         (composed in MCCabinetUsage)
UserNeighborhoods <- Accounts          (composed in MCAccounts)
Notifications,  MailQueue              (composed in MCDelivery)
```

An arrow is EXTENDS: `DemandLifecycle` takes the score and its events from
`CabinetScoring`, `CabinetUsage` changes plans and subscriptions under requests that
check their limits, `FeatureAccess` changes them under requests that look for the
features of a cabinet, `AccessControl` runs the guards of the routes `Routes` lists.
Some MC modules explore several parts of a system, by a variable `part` that says which
of them a behaviour is about. The parts wait for nothing of each other, so their
interleavings show nothing that their behaviours do not show one by one, and each
property reads one part only. The part that rests stays in an initial state.

Conventions. A handler is cut at the `await`s whose results it acts on later. A
*history* variable records what no row records and appears in properties only.
Operators marked *variant* are the same code with a plausible bug; each shows that
one of the properties notices it. `Max…` constants are bounds and stand in guards.

**`CabinetScoring`** — the three counters of a cabinet and the bag of
`demand.status-changed` events whose UPDATE has not run. `EmitStatusChanged` is
the emit (the listener leaves at once without a cabinet), `HandleStatusChanged`
the relative increments, all in one statement. `ScoreDelta` is the arithmetic
of the listener: moving from in progress to resolved keeps the two points.

**`DemandLifecycle`** (EXTENDS `CabinetScoring`) — demands, results, the
membership rows they refer to, and the handlers.

* `demand`, `result`, `memberRow` are tables; `req` holds the request in each
  slot: what it is, how far it got, the demand row it loaded (`seen`), and what
  it will write. A slot is one request in flight; with one slot requests are
  serial, with two they overlap.
* Each handler is cut at the `await`s whose results it acts on later: *read*
  (guard and `findById`), *check* (memberships, results, the minting of the
  survey token), *write* (the UPDATE by id), *publish* (events). Consecutive
  reads that the handler only refuses on are one step: the guard's read is
  merged with the handler's, the membership reads with the check. Two reads
  merged this way are read in one instant in the model.
* `Fail` ends a request after any step: a refused check, a database exception,
  the guards and plan limits (`AccessControl`, `CabinetUsage` model why), a
  failing comment insert or upload.
* `PatchRead` carries a status, an assignee or both, the two fields with effects
  outside the row, written in one UPDATE; `KEEP` is a field that is absent from the body.
* `StartStatus` is the status in which each demand is met at first, so that few
  requests reach what takes many from a new demand.
* Foreign keys: `References` refuses an assignee that is gone, `RemoveMember`
  sets it to null (`ON DELETE SET NULL` in the migration).
* `reopenTasks` is the bag of running `ResultDeletedListener`s, advanced by
  `ReopenRead`, `ReopenCount`, `ReopenWrite`; the UPDATE it ends in emits nothing.
* `mailed` is a history of the survey links the mail listener sent; `minted`
  numbers the tokens (`randomUUID` is taken never to repeat).
* `Crash` loses requests and listeners and keeps the tables.

**`DemandService`** — what the API promises of a demand, as a specification without
requests, reads and checks: only a free demand is claimed, a demand and whoever
answers for it are let go together, only a demand of a cabinet gets an assignee or
a resolution, the survey opens with the first resolution and is answered once, a
deleted demand changes only by the listener and by its survey. `ImplementsService`
is `Service!Spec`, with `Service == INSTANCE DemandService WITH book <- Book` at the
end of `DemandLifecycle`, where `Book` is the refinement mapping: the table of
demands, with the token reduced to whether there is one. Reads, checks, events and the score
map to stutters, each UPDATE to one operation. It holds while one request is served at a time, under crashes, listeners
that run late and members who leave at any moment; `Work` and `Reopen` are as wide
as the PATCH route and the listener make them.

**`MCDemandLifecycle`** — the instances: member `m1` is user `u1` in cabinet
`c1`, `m2` is `u2` in `c2`, and `u2` is also an administrator; of two demands the first
is met resolved. Symmetry is used
only in runs of safety properties, over slots and results, which no definition
distinguishes.

**`DemandLifecycleProofs`** — theorems and proofs, the refinement of `DemandService`
among them, see below.

**`CabinetMembership`** — cabinets, their members, the role of a user, and
invitations, cut at the same points: *read*, *check*, then one step per write.

* `member[u][c]` is the row of a user in a cabinet (unique in the schema) by its
  role, `invitation[e][c]` the one row per address and cabinet, with the id an
  upsert keeps and the token it replaces. `req` holds what a request has loaded:
  acceptance keeps the invitation row (`invite`) and the promotion decides on
  the user's role as it was read (`seen`); a transfer keeps the owner it found.
* `Emails` are spellings; `AddressOf` is whose address it is when letter case is
  ignored, as acceptance compares it; `Exact` are the spellings stored with the
  users, which is what `findByEmail` finds, so that a member can be invited under
  another spelling.
* `Refuse` ends a request before its first write (a check, a unique index, a row
  that is gone); `Abort`, if `MayAbort`, ends it after any step. A crash of the
  process is an `Abort` of every request.
* `DeleteCabinet`, `EnableCabinet`, `SetUserRole` are one write that depends on
  nothing the handler read, hence one step. They need a free slot, so that with
  one slot they are serial like the others.
* `MaxMembers` is the limit of the subscription as `check-member-limit` reads it;
  changes of plan are in `Subscriptions`. A disabled account sends no
  requests. `offered`, `withdrawn`, `admitted` are histories; an `Abort` takes the
  token of the acceptance that died out of `admitted`, because the code leaves
  that invitation behind and does not repair it.
* It models `cabinet_members` again, by role and without ids; `DemandLifecycle`
  needs of them only the ids assignments refer to.

**`MCCabinetMembership`**, **`CabinetMembershipProofs`** — its instances (one
address per user, `e9` a second spelling of the first user's) and theorems.

**`DemandEngagement`** — likes, comments and reports on a demand, while other
handlers change its owner and the members of cabinets.

* `likes`, `reports`, `comments` are the three tables; a like has an id because
  `toggleLike` deletes the row it read, by id. `ReadLike`, `ToggleLike` are its two
  statements, `AnswerLike` what follows the write: the user is looked up for the event,
  and only then is the toggle answered. `FindDemand`, `FindMembership`, `AddComment` are
  the statements of a comment; a progress update (`CheckAssignee`) is the other writer of
  answers of the cabinet; a report (`CheckDismissed`, `CreateReport`), its dismissal and the deletion of a demand
  (`DisableDemand`, `ResolveReports`) are cut likewise.
* `Fail` ends a request: a refused check, a unique index, a row that is gone.
  `Crash` ends all of them between two statements.
* `toggles`, and the other histories, say what was answered; `LikesFollowAnswers`
  relates the like to the answers, not to the requests. `untold` are the users whose
  toggle was written and died before its answer.

**`DemandEngagementProofs`** — its theorems; it extends `MCDemandEngagement` and
`CabinetReportsProofs`, so that it speaks of the composed behaviours too.

**`CabinetReports`** — the figures of a cabinet, statement by statement.

* `filed` is the demands table by what the statements ask of a row; `reading` is the
  request for figures under way. `Promise.all` and the batch `$transaction` are
  read committed: writes fall between the statements, as `FileDemand`, `SetStatus` and
  `MoveInOrOut` do here between steps `RunStatement`.
* Time is counted in instants of days of `DayLength`, the last of which is
  23:59:59.999; a month is `MonthLength` days. The process' clock and the database
  are taken to be in UTC.
* `to` and `from` may lie in the future or the past of the clock; the code does not
  forbid it. The date of a resolution is `updated_at`, as in the code: any later
  UPDATE of the row moves it.
* Sums are `Total(f, S)`, a fold over the set `S`: no recursive operator.

**`CabinetReportsProofs`** — its theorems, after a small library about sums.

**`Routes`**, **`AccessControl`** — every HTTP route of the application in the order
of declaration, with the guards the decorators of class and method give it, and a
request on its way through them.

* `Dispatch` is Nest's: the first route whose verb and pattern fit. So
  `GET demands/export` goes to `GET demands/:id`, which is declared first.
* The database is a set of `facts`; `ChangeFacts` changes it between any two reads.
  Each guard is an action, or one per read where it makes several (`LoadDemand` and
  `CheckDemandAccess`, `ResolveCabinet` and `CheckSubscription`, `ReadPlan` and
  `CheckFeature`); checks that handlers make themselves are `CheckInDemand` and
  `CheckInHandler`. `known` collects what was true since the request arrived.
* Of features there are three kinds of facts: a feature is `planned` by the subscription
  of a cabinet, `granted` to it, `unblocked` for it. They change as replacements, edits of
  plans and overrides change them, the statements of a replacement one by one.
* `RoutesAreGuarded` states which guards each kind of route carries. It has no
  parameter: TLC evaluates it over the whole table, as dispatched, in the run `access`.

**`AccessControlProofs`** — the theorems about guards. **`MCAccessControl`** explores the
guards of every route, and the routes of paid features with more changes of plans.

**`Subscriptions`**, **`FeatureAccess`**, **`CabinetUsage`** — plans and subscriptions, the
features they give, and what is used of them.

* `subs` are rows in order of creation; `ActiveSubscriptions` and
  `SubscriptionsForGuard` are the two conditions under which the code looks for the
  current one (`findFirst` without order: any row that fits). A replacement is
  `ReadPlan`, `CancelSubscriptions`, `CreateSubscription`; `AbandonChange` is a
  failure or crash between them.
* In `FeatureAccess`, a `reader` is the plan page or `FeatureGuard` on the way through its
  two queries: the subscription with its plan (`FindPlanForPage`, `FindPlanForGuard`, any
  row that fits) and the overrides (`FindOverrides`), by the page in any order, by the
  guard in this one. `Disturb` is any change of plans, subscriptions, overrides or time in
  between; `undisturbed` is a history.
* In `CabinetUsage`, a `job` is a request that uploads, confirms, replaces or deletes
  files, or creates or claims a demand. Objects are storage keys, which no two uploads
  share (`randomUUID`), their size is `SizeOf`. Images of one request are checked and
  uploaded each on its own (`Promise.all`), and when one of them fails the others go on
  (`FailJob`). A confirmation of evidence deletes the object on any error of its check
  (`RefuseEvidence`).
* `PutObject` is the client's own upload with a presigned URL, which the server does
  not see. `calm` is a history: nothing overlapped and nothing failed so far.
* `stored` is a history: the keys that were uploaded and that no refused confirmation
  has deleted since. When one confirmation of a piece of evidence passes its check, the
  check of a second one fails and it deletes the object, and then the first saves its row, a
  row names a file that is gone; it is listed under the divergences.

**`CabinetUsageProofs`** — the theorems about the three.

**`UserNeighborhoods`**, **`Accounts`** — the saved neighborhoods of a user, and
accounts with their tokens.

* `token[u, type]` is the one row per user and type; the upsert keeps its id, `ids`
  numbers them. A refresh token is a function of its user and the second of its issue
  (that is all `sign` puts into it), so two refreshes in one second yield the same.
* Every `await` of registration, login, Google login, refresh, forgotten password,
  password change and following a link is a step; `StopRequest` is a failure or crash
  after any of them. `Mailbox` says which spellings of an address are one; the
  code compares addresses exactly, except where it claims a guest's demands.
* `MaxNeighborhoods` is 3 in the code and 2 in the run: the check is the same count.
* `crossed` and `unclaimed` are histories of users whose requests overlapped or failed:
  the properties say what holds for all others.

**`AccountsProofs`** — the theorems about both and their composition, `MCAccounts`.

**`Notifications`**, **`MailQueue`** — what events tell people, and how a mail leaves.

* A listener is a step per `await` (`LookUpInvited`, `CreateNotification`,
  `SendToUser`; `ResolveEmail`, `SendStatusUpdate` for the mail about a status). A crash
  loses listeners and sockets and keeps the rows.
* A client connects, fetches pages of its list and merges what is pushed. `Page(S, n)` is
  page `n` of the rows `S`, newest first, `PageSize` rows each (10 in the code unless the
  client asks for up to 100); `FetchList` and `FetchUnread` are the two lists, `fetched` how
  many pages a client has fetched in turn, `checked` who has fetched the first page of
  unread ones. Rows are ordered by their insertion, which `created_at` stands for.
* A job waits, is taken, its mail is accepted or it throws, and it completes, pauses
  (`Backoff`) or fails after `MaxAttempts`; a crash leaves it stalled and
  `MoveStalled` puts it back, `MaxStalls` times. BullMQ and the mail service are
  external, modelled by the options the code gives them.
* `errorDedup` is `DiscordService`'s memory: `Alert` remembers a failure and then starts a
  post, if there is a webhook; a silenced failure does not renew its pause. `SettlePost`
  is the end of a post, which arrives or is lost without a trace, and a job that threw
  waits for its own (`Reported`). `HttpKinds` and `JobKinds` are the fingerprints of failing
  requests and jobs, which never coincide.

**`DeliveryProofs`** — the theorems about both and their composition, `MCDelivery`.

## Runs

Bounds: the number of requests accepted in a behaviour (`MaxRequests`), of slots, of
ids and of instants. `demand_*` and `membership_*` start in any state that creation,
claims, assignments and results, or the creation of cabinets and acceptances, can have
left (`StartRow`, `StartResult`, `Init` of `CabinetMembership`), `access` with any
roles, members, owners and subscriptions, so that few steps reach what would take many from an empty database. `DemandStatus`
has six members; the lifecycle distinguishes IN_PROGRESS and RESOLVED and treats the
rest alike, so SUBMITTED stands for them there. `CHECK_DEADLOCK FALSE`: when a bound
is used up the system rests. Symmetry is used only where no liveness is checked, over
ids that definitions only compare.

| run | instance | what it shows |
|---|---|---|
| `demand_serial` | 1 slot, 5 requests, crashes, 2 cabinets, a member of one, an administrator | `ImplementsService`, `MailedLinkWorks`: what the handlers' checks achieve when no two requests overlap. Resolve, reopen, resolve is three requests; two answers to one survey, or a claim, an unlink and a claim, fit too |
| `demand_overlap` | 2 slots, 3 requests, crashes | what holds however requests overlap: `TypeOK`, `ScoreCoversCounts`, `DeletionIsFinal`. One membership is enough: each property is about one demand or one cabinet's counters |
| `result_deleted` | 2 demands of which one is met resolved, 2 results of any of them, 2 slots, 2 requests, fairness, no crash | `DeletedResultReopens`: the two results of the resolved demand are deleted at once, and the two listeners do not hide each other's deletion; `LinksAreOwn`: tokens are never crossed between demands resolved together |
| `membership_serial` | 3 users, 1 cabinet of at most 2 members, 1 slot, 4 requests, aborts | serial requests, even interrupted ones: `OwnerStays`, `AcceptKeepsPlan`, and `TokensAreSpent` (cancelled, replaced and used invitations admit nobody; the last of acceptances that were not interrupted). Invite, accept, remove and accept again are four requests |
| `membership_overlap` | 2 users, a second spelling, 2 slots, 4 requests, aborts | `TypeOK`, `JoinsAreOffered`: two overlapping acceptances under cancelling, replacement and expiry |
| `engagement` | 1 demand, 2 users, 2 slots, 3 requests, 4 steps of other handlers (moves, members, crashes); or 3 demands counted, 5 instants of which 2 make a day, one write between the statements of one reading | `LikesFollowAnswers`, `ReviewIsHeeded`, `DeletionSettlesReports`, `AnswersComeFromTheCabinet`; `SharesMakeAWhole`, `FiguresAgree`. A day of two instants has the millisecond before midnight as its second, three demands fill two statuses and two categories unevenly |
| `access` | 1 user, 2 cabinets, one request. Either every route and caller, with one change of the facts between two reads, or the routes of paid features with an owner for a caller, an override or none, and two changes of subscriptions, plans and overrides | `OnlyTheEntitledAreServed`, `DisabledAccountsAreShutOut`. A request has one user; one change is enough for a stale read of one fact, two for the two reads of `FeatureGuard` to see halves of different states |
| `quota` | 1 cabinet, 1 plan, 1 feature, 2 desks. Either 2 jobs, 2 demands, 1 result, 2 files of 1 and 2 bytes, 4 changes; or 2 readers, 3 changes | `PageAgreesWithGuard`, `SubscriptionsAreSingle` under replacements that race or fail; `FilesMatchRows`, `LimitsHold`. Two files of one request reach the limit only together; a protocol is replaced; a second confirmation meets a smaller limit. Two replacements with a feature added in between, after which page and guard may disagree, are three changes |
| `accounts` | 2 users, 2 spellings, 1 password, 1 guest demand, 2 slots, 3 requests, 3 instants; or 4 places, 2 tabs, at most 2 neighborhoods | `SessionsAreSound`, `LinksWorkAndOnce`, `GuestDemandsComeHome`; `NeighborhoodsAreTidy`. Register, verify and login, and two refreshes in one second or the next, fit the bounds |
| `delivery` | 2 users, a browser. Either 1 event of any type; or 2 events and pages of one row; or 2 jobs, 2 attempts, 1 stall and one kind of failing job; or 2 kinds of failing requests; a restart, 2 crashes, a pause of 2 in a time of 3 instants | `NothingIsMissed`, `ReportersAreMailed`, `EventsAreTold`; `AttemptsAreAccountedFor`, `MailsSettle`, `FailuresAreHeard`. Listeners share nothing with those of other events; lists do, so there are several there: a second row pushes the first to the next page. The pause runs out once, and a failure repeats within it and after it, its post arrived or lost |
| `claim_race`, `owner_race` | 2 slots, 2 requests | counterexamples, see below |

Each passing run ends within four minutes on two cores.

**Fairness.**

* `FairSpec` of `DemandLifecycle`: weak fairness of the steps of a `result.deleted`
  listener, per demand. The emit starts it and it awaits only the database. It is the
  liveness of a process that stays up, so `result_deleted` sets `MayCrash` to FALSE:
  after a crash the event is gone and the demand stays resolved, which the code accepts.
* `NotificationsFairness`: weak fairness of a listener that was started, of each kind,
  for the same reason. A crash or a failing insert is part of what may happen.
* `QueueFairness`: weak fairness of what the worker does with the job it holds, of the
  end of the post a thrown job waits for (the network answers or `fetch` fails), of the
  pause's timer and of BullMQ's check for stalled jobs; strong fairness of taking a job
  that waits, because a worker that is busy with another time and again disables it and
  the queue is first in, first out. Crashes are bounded, and the process restarts.
* Requests are not assumed fair anywhere: a client may hang up, a handler be refused.

## Proofs

Theorems hold for every value of the constants: any numbers of demands, users,
cabinets, slots of overlapping requests and so on, and any bound. They rest on the
named assumptions of the modules alone, which TLC evaluates in every run and which say
no more than that limits are numbers, that null is no id, which tables of constants
have which shape, that a day has two instants or more, and that sets whose members are
counted are finite: users, demands, categories, slots of neighborhood requests. `NONE` is
also no token payload (`Accounts`).
`RoutesAreGuarded` is a closed formula. Each proof follows one plan: an inductive
invariant in named parts, a lemma for the initial states, a lemma for each action or
kind of write, a lemma for what follows. Some theorems have the hypothesis `OneSlot`
(at most one request in progress at a time, listeners and crashes as ever): they are
about what the checks of a handler achieve when nothing comes between them and the
write, and each has a counterexample in two slots.

**`DemandLifecycleProofs`**, from `ScoringAssumption` and `LifecycleAssumption`:

* `TypeCorrect`: `TypeOK` is inductive because `Request` restricts what a slot may
  hold: an `assign` carries a member or null and never `KEEP`, a `progress` always has a
  status and a demand. One lemma covers the arrivals, one the continuations, one the
  listeners, one the score.
* `AssigneesExist`: an assignee is always an existing membership (`AssigneeExists`, which
  the foreign key carries; no run checks it by itself). Inductive with `TypeOK`: of the writers of `demands`
  (`DemandWriters`) only assign and patch set an assignee, under the foreign key, and
  only `RemoveMember` ends a membership.
* `DeletionsAreFinal`: `Spec => DeletionIsFinal`, from `TypeOK` and that list.
* `ScoreCovered`: `DeltaWorth` computes that the three increments of one event change
  the excess of the score over the counts by 0 or 2; order, repetition and loss of
  events are then irrelevant.
* `LinksOwn`: `Spec => []LinksAreOwn` for any overlap. The invariant follows a token
  from its minting through the request that carries it to the row and the mail: all
  that know it agree on its demand, and numbers not yet minted are nowhere.
* `MailedLinksWork` (`OneSlot`): what a request is to write leaves a token that was
  mailed where it is, because it loaded the row after the last write to it.
* `ServiceImplemented` (`OneSlot`): `Spec => ImplementsService`, the refinement. Every
  step maps to an operation of `DemandService` or leaves `Book` alone. The invariant
  says that what the one request has loaded still stands in its row when it writes,
  except for what a listener and a member who leaves may change, and the abstract
  operations allow those.

**`CabinetMembershipProofs`**, from `MembershipAssumption`:

* `TypeCorrect`: with `Named`: which fields a request of each route fills in.
* `JoinsOffered`: `Spec => JoinsAreOffered` for any overlap. `OfferInv` adds that
  every live invitation and every acceptance in progress carries a role that was
  offered to that person for that cabinet; histories only grow, so cancelling or
  replacing the row cannot falsify it.
* `OwnerKept` (`OneSlot`): `OwnerInv` says that what a request has established still
  stands when it writes (`Standing`): the sender of a removal or demotion is an owner
  other than the target, who leaves is not an owner, who was just appointed by a
  transfer is one. `owner_race` shows that `OneSlot` is needed.
* `TokensSpent` (`OneSlot`): `SpentInv` says that no row holds a withdrawn token and
  that of the tokens that admitted somebody only that of the acceptance in progress may
  still be in its row.
* `AcceptKeepsThePlan` (`OneSlot`): the count an acceptance was checked against is
  still the count when the row is inserted.

**`DemandEngagementProofs`**, from `EngagementAssumption`, all for any overlap:
`TypeCorrect`; `LikesFollow` (the delete needs the row that was read and the insert
needs the pair free, so a toggle that is written and a change of the table go together;
from then on it is one that is about to be answered, answered, or untold);
`ReviewHeeded`; `DeletionSettles`; `AnswersFromTheCabinet`, an action property, from what
a comment has loaded and the histories of owners and members.

**`AccessControlProofs`**, from `AccessAssumption` and `RoutesAreGuarded`:
`EntitledServed` and `DisabledShutOut`, for any number of changes between any two reads.
`Passed(q, K, g)` is what guard `g` leaves behind for request `q` if `K` is known;
`GuardsInv` says that it holds of every guard before the next one to run, that the
user attached is the bearer and was enabled with that role, and that a cabinet found by
the first statement of a guard was the owner. All of it is about `known`, which only
grows while the request lasts (`PassedStays`), so no change of the tables can take it
back. What `FeatureGuard` has read of the plan was known when it was read, and what it
reads of the overrides is known then: `PaidFeaturesArePaid` says as much and no more. At the handler every guard has passed; `RoutesAreGuarded` says which those are.

**`CabinetUsageProofs`**, from `SubscriptionsAssumption` and `UsageAssumption`:

* `TypeCorrect`; `PageAgrees`, for behaviours of `FeatureAccess`. What an undisturbed
  reader has read is what its query would find now, and outside of races all rows that
  either query can find are one and the same, so that what the page lists and the guard
  admits are computed from the same plan and overrides.
* `SubscriptionsSingle`: `SingleInv` and `GapInv` follow a replacement through its
  statements; a second row runs only where `raced` records that two have met.
* `FilesMatch`: keys are minted once, so each object belongs to one upload, and one
  job or one row is to delete it; while `calm`, what is stored is what rows name or the
  one job still holds.
* `LimitsHeld`: an action property. While `calm` nothing changes between the check of
  the limit and the row, of a demand, of files of a result or of evidence (`EvidenceFits`),
  so what was counted is what is there.

**`AccountsProofs`**, from `AccountsAssumption` and `NeighborhoodsAssumption`:
`AccountsTypeCorrect`; `SessionsSound`, `LinksHold` and `DemandsComeHome` from one
invariant, of which `SoloInv` says when a user has one request only, and `LinkInv` that
the link mailed last is the row of its type; `NeighborhoodsTidy`, where the rows of a
user and the requests that have counted and not yet inserted (`Adding`) are together
fewer than the maximum and the number of slots, and `Standing` says what the rows of
a user look like at each statement of its only request; `NeighborhoodsTypeCorrect`, where
ids stay in their range because the rows created and the requests that are about to
create one (`CreatedInv`) are together no more than the requests made.

**`DeliveryProofs`**, from `NotificationsAssumption` and `QueueAssumption`:
`QueueTypeCorrect`, `AttemptsAccounted`, `FailuresHeard`, `NotificationsTypeCorrect`,
`NobodyMisses`, `ReportersMailed`. For `NobodyMisses`, a row that is stored later makes one
more newer row for each stored before (`NewerGrows`), so what a fetched page no longer
holds was shown or has as many newer rows as fit on the pages before it. For
`FailuresHeard`, the memory of a kind is the instant of its last post (`MemoryInv`,
`PostInv`), of which there is one within the pause.

**`CabinetReportsProofs`**, from `ReportsAssumption`:

* The library. The induction theorems that come with the prover take a predicate, which
  its backends do not instantiate. `NatSetInduction` and `FiniteSetInduction` state
  induction of a set instead (of numbers, of subsets), from the well-founded order
  of the numbers, and that they can use. With it `Total` unfolds by one element
  (`TotalTakesOut`), bounds, adds and compares termwise, and may be regrouped:
  a sum over a partition is the sum of the parts (`TotalOfTotals`), rows counted by a
  column are all rows that have a value in it (`TotalOfCounts`).
* `ReportsTypeCorrect`, `FiguresAgreeing` and `SharesWhole` follow from one invariant,
  `FiguresInv`: a finite table of typed rows (`FiledInv`), one typed answer for each
  statement that has run (`ReadingInv`), a period from a midnight to a last instant
  (`PeriodInv`), and, while nothing was written, each answer is the one its statement
  would give now (`FreshInv`).
* `FiguresAgreeing`: what was created in a period is regrouped by day, and each of those
  days lies under exactly one label of the trend, in days, weeks and months alike.
  Dates are division with remainder, so this is where the calendar is reasoned about.
* `SharesWhole`: a rounded percentage differs from the exact one by at most half a
  point, for each part that is not empty; the exact ones make a hundred.

**Compositions.** `TypeCorrect` of `AccountsProofs` and `DeliveryProofs` and
`MCTypeCorrect` of `DemandEngagementProofs` are about the specifications TLC runs. Each
rests on a lemma `PartsRun`: a behaviour of the composition is a behaviour of both
parts, because the part that rests does not change. It carries over every
theorem of the parts.

Model-checked only:

* `DeletedResultReopens`, `EventsAreTold` and `MailsSettle`, because the prover does
  neither fairness nor ENABLED.

Every other property of a passing run is a theorem.

## What the code does not meet

Two are runs that TLC refutes, and entries of `findings` with the quoted line.

* `claim_race`: `claimDemandAtomic` is not conditional on the owner, so of two
  claims of a free demand the second takes it from the first.
* `owner_race`: two owners remove or demote each other at once; none is left.

**Known divergences.** Met while modelling; the models allow them, and the properties
above say what holds in spite of them.

* Two submissions of a survey both pass the check, and the later answer stays
  (`submit-demand-survey.use-case.ts:25`).
* `PATCH /demands/:id` accepts an assignee of any cabinet, and resolves a demand without
  results, which the progress route refuses (`update-demand.use-case.ts:41`).
* Acceptances that overlap, with each other or with a transfer, exceed the plan's
  members, which are counted before the insert (`accept-cabinet-invitation.use-case.ts:57`).
  A promotion that is interrupted leaves a member whose role is still CITIZEN.
* The published resolution rate can leave 0..100, because its counter is moved by
  events and its denominator by claims, unlinks and deletions (`cabinets.repository.ts:225`).
* `GET /demands/export` is never reached: `GET /demands/:id` is declared first
  (`demands.controller.ts:626` and `:351`).
* `ActiveSubscriptionGuard` takes any membership of the user when a demand is claimed,
  the handler the first of another query.
* A claim counts demands and ignores the bytes of the evidence it brings along.
* A confirmation of evidence deletes the object when its check fails for whatever reason,
  an error of the database included, and also when another confirmation of the object was
  accepted or is about to be saved (`confirm-demand-evidence.use-case.ts:39`).
* Images of one request are checked in parallel, and their sum may exceed the limit
  (`create-result.use-case.ts:65`). Failing uploads and inserts leave objects behind, a
  protocol that fails to be replaced a row that names nothing.
* `FeatureGuard` reads the plan, then the overrides (`feature.guard.ts:39` and `:58`). A
  cabinet that loses a feature from its plan while a block of it is removed is admitted,
  though at no moment it had the feature planned and unblocked.
* After two replacements of a subscription raced, two rows run, of which the plan page and
  the guard may each find another, and disagree on a feature (`plans.repository.ts:24`).
* Two progress updates that overlap both report the status they read as the previous one,
  and are counted twice (`update-demand-progress.use-case.ts:103`). An assignment that
  overlaps an unlink leaves an assignee on a free demand (`assign-demand.use-case.ts:60`).
* An alert is remembered before it is posted, and a post that fails is only logged
  (`discord.service.ts:216`, `:257`): its repeats are silent for the pause, too. Without a
  webhook nothing is posted.
* The list of notifications is a page (10 rows unless asked for up to 100). Rows stored
  meanwhile move others to the next page, and the pages of the unread list shift as rows
  are read, so that who pages through it and marks them read skips some.
* The mail service's client returns errors as a value, which is not looked at: such a
  mail completes its job.
* A report written under may show percentages above 100, and its dates of resolution
  are those of the last UPDATE. The dashboard's trend reads the clock again for labels.
* `demand.evidence-added` has a listener, but the routed handler does not emit it.

## What is not modelled

* Contents (titles, addresses, notes, wording and layout of mail, profiles, avatars)
  and the validation of bodies; rate limiting.
* Categories, page sections, testimonials, open graph pages, the catalogue of plans and
  features: single-row writes and reads on which no other actor's step depends. Their
  routes and guards are in `AccessControl`.
* Of the figures: heat map, the reporter's summary, priorities, the limits of top
  lists, averages, the count of results in a report, time zones other than UTC.
* `add-cabinet-member.use-case.ts` and `change-password.use-case.ts`, which no
  controller reaches.
* The internals of PostgreSQL, Redis and BullMQ, R2, Socket.IO and the mail service.
* `prisma/` seeds and population scripts, tests, build files.
* The mail listener of a resolution in `DemandLifecycle` may find no recipient or fail:
  `mailed` holds every link that may have been sent, the worst case for its properties.

## Plan

Everything of the inventory that has more than one step is modelled, and every safety
invariant a run checks is a theorem. What the project does not do, in the order in
which it would be taken up:

1. The steps towards the three liveness properties: what a started listener or a taken
   job can still do at each point is safety, and could be stated and proved; that it
   is done stays with TLC.
2. Five hazards have no property: a stale previous status, the second route to status
   and assignee, the resolution rate, and failures and overlaps around stored files. All are
   divergences listed above: a property could only state that the code does not meet it.
3. Where proofs of two modules share a form (what one request has loaded still stands),
   one statement of it.
