---------------------------- MODULE CabinetUsage ----------------------------
(***************************************************************************)
(* What a cabinet uses of its subscription: demands, and the bytes of the  *)
(* files of its demands and results.  The files are objects in a bucket    *)
(* outside the database; the rows that name them are written after the     *)
(* objects are stored and after they are deleted, so the two can part.     *)
(*                                                                         *)
(* Limits are checked first and used later: each check is a read of its    *)
(* own, and the images of one request are checked and uploaded in          *)
(* parallel, before any of them has a row.                                 *)
(***************************************************************************)
EXTENDS Subscriptions

CONSTANTS
  Demands,   \* ids of demands
  Results,   \* ids of results
  Jobs,      \* slots of requests served at the same time
  MaxKeys,   \* bound: storage keys generated in a behaviour
  SizeOf     \* size of the file stored under each key

Keys == 1..MaxKeys

ASSUME UsageAssumption ==
  /\ IsFiniteSet(Demands)
  /\ MaxKeys \in Nat /\ SizeOf \in [Keys -> Nat \ {0}]

VARIABLES
  demand,     \* table demands: is the row there, and its cabinet
  result,     \* table results: the same
  evidence,   \* table demand_evidences, in order: <<demand, key>>
  images,     \* table result_images: keys of each result
  protocol,   \* column protocol_file_key of each result
  bucket,     \* keys of the objects stored
  minted,     \* keys generated so far
  presigned,  \* <<demand, key>>: upload URLs handed out
  job,        \* the request in each slot
  calm,       \* history: no two requests or changes overlapped, none failed
  broken,     \* history: demands and results whose files a failure took away
  stored      \* history: keys uploaded, and not deleted by a refusal since

usageTables == <<demand, result, evidence, images, protocol>>
usageVars == <<usageTables, bucket, minted, presigned, job, calm, broken, stored>>
vars == <<plansVars, usageVars>>

Row == {"absent", "enabled", "disabled"}
Holder == [row : Row, cabinet : Cabinets \cup {NONE}]
NoHolder == [row |-> "absent", cabinet |-> NONE]

Job == [op : {"none", "createDemand", "claim", "createResult", "addImages", "protocol",
              "confirm", "deleteDemand", "deleteResult"},
        step : {"idle", "started", "counted", "allowed", "replacing", "dropped"},
        demand : Demands \cup {NONE}, result : Results \cup {NONE},
        cabinet : Cabinets \cup {NONE},
        seen : Nat,                     \* demands counted
        todo : SUBSET Keys,             \* images to check
        passed : SUBSET Keys,           \* images checked, to upload
        done : SUBSET Keys,             \* images uploaded
        file : Keys \cup {NONE},        \* protocol, or evidence to confirm
        old : SUBSET Keys]              \* objects to delete

NoJob == [op |-> "none", step |-> "idle", demand |-> NONE, result |-> NONE, cabinet |-> NONE,
          seen |-> 0, todo |-> {}, passed |-> {}, done |-> {}, file |-> NONE, old |-> {}]

TypeOK ==
  /\ PlansTypeOK
  /\ demand \in [Demands -> Holder] /\ result \in [Results -> Holder]
  /\ \A i \in DOMAIN evidence : evidence[i] \in Demands \X Keys
  /\ images \in [Results -> SUBSET Keys]
  /\ protocol \in [Results -> Keys \cup {NONE}]
  /\ bucket \subseteq Keys /\ stored \subseteq Keys
  /\ minted \in 0..MaxKeys
  /\ presigned \subseteq Demands \X Keys
  /\ job \in [Jobs -> Job]
  /\ calm \in BOOLEAN
  /\ broken \subseteq Demands \cup Results

Init ==
  /\ PlansInit
  /\ demand = [d \in Demands |-> NoHolder] /\ result = [x \in Results |-> NoHolder]
  /\ evidence = <<>>
  /\ images = [x \in Results |-> {}] /\ protocol = [x \in Results |-> NONE]
  /\ bucket = {} /\ stored = {} /\ minted = 0 /\ presigned = {}
  /\ job = [j \in Jobs |-> NoJob]
  /\ calm = TRUE /\ broken = {}

-----------------------------------------------------------------------------
EvidenceOf(d) == {evidence[i][2] : i \in {n \in DOMAIN evidence : evidence[n][1] = d}}

FilesOfResult(x) == images[x] \cup (IF protocol[x] = NONE THEN {} ELSE {protocol[x]})

DemandsOf(c) == {d \in Demands : demand[d].row = "enabled" /\ demand[d].cabinet = c}
ResultsOf(c) == {x \in Results : result[x].row = "enabled" /\ result[x].cabinet = c}

(* Rows are summed: a key that two rows name counts twice. *)
EvidenceBytes(c) ==
  LET Sum[n \in 0..Len(evidence)] ==
        IF n = 0 THEN 0
        ELSE Sum[n - 1] + (IF evidence[n][1] \in DemandsOf(c) THEN SizeOf[evidence[n][2]] ELSE 0)
  IN Sum[Len(evidence)]

SizeOfSet(K) ==
  LET Sum[n \in 0..MaxKeys] ==
        IF n = 0 THEN 0 ELSE Sum[n - 1] + (IF n \in K THEN SizeOf[n] ELSE 0)
  IN Sum[MaxKeys]

(* getCabinetUsage: its five queries are taken as one read. *)
DemandCount(c) == Cardinality(DemandsOf(c))
StorageUsed(c) == EvidenceBytes(c) + SizeOfSet(UNION {FilesOfResult(x) : x \in ResultsOf(c)})

UsedAloneFits(c) == WithinLimit(c, "maxStorageBytes", StorageUsed(c))
StorageFits(c, k) == WithinLimit(c, "maxStorageBytes", StorageUsed(c) + SizeOf[k])

-----------------------------------------------------------------------------
Busy == {j \in Jobs : job[j] # NoJob} # {}

(* Nothing of the database is written when a request starts. *)
Start(j, request, keys) ==
  /\ job[j] = NoJob
  /\ Changed
  /\ minted + keys <= MaxKeys
  /\ minted' = minted + keys
  /\ job' = [job EXCEPT ![j] = request]
  /\ calm' = (calm /\ ~Busy /\ \A s \in Desks : desk[s] = Idle)
  /\ UNCHANGED <<now, limits, offered, subs, overrides, desk, raced, interrupted,
                 usageTables, bucket, presigned, broken, stored>>

Fresh(n) == (minted + 1)..(minted + n)

At(j, op, step) == job[j].op = op /\ job[j].step = step
Goto(j, step) == job' = [job EXCEPT ![j].step = step]
End(j) == job' = [job EXCEPT ![j] = NoJob]

Silently == UNCHANGED <<plansVars, usageTables, bucket, minted, presigned, calm, broken, stored>>

Wrote == UNCHANGED <<plansVars, bucket, minted, presigned, calm, broken, stored>>

(* The objects of the keys in K are gone; deletions that fail are only logged. *)
Drop(K) == \E gone \in SUBSET K :
             /\ bucket' = bucket \ gone
             /\ calm' = (calm /\ gone = K)

Store(k) == bucket' = bucket \cup {k} /\ stored' = stored \cup {k}

-----------------------------------------------------------------------------
(* POST /demands, for a cabinet or for none; guests are not told apart. *)
StartDemand(j, d, c) ==
  /\ demand[d].row = "absent"
  /\ \A k \in Jobs : ~(job[k].op = "createDemand" /\ job[k].demand = d)
  /\ c # NONE => HasActiveSubscription(c)
  /\ Start(j, [NoJob EXCEPT !.op = "createDemand", !.demand = d, !.cabinet = c,
                            !.step = IF c = NONE THEN "allowed" ELSE "started"], 0)

(* POST /demands/:id/claim *)
StartClaim(j, d, c) ==
  /\ demand[d].row = "enabled" /\ demand[d].cabinet = NONE
  /\ Start(j, [NoJob EXCEPT !.op = "claim", !.step = "started", !.demand = d, !.cabinet = c], 0)

CountDemands(j) ==
  /\ At(j, "createDemand", "started") \/ At(j, "claim", "started")
  /\ job' = [job EXCEPT ![j].step = "counted", ![j].seen = DemandCount(job[j].cabinet)]
  /\ Silently

CheckDemandLimit(j) ==
  /\ job[j].step = "counted"
  /\ WithinLimit(job[j].cabinet, "maxDemands", job[j].seen + 1)
  /\ Goto(j, "allowed")
  /\ Silently

SaveDemand(j) ==
  /\ At(j, "createDemand", "allowed") \/ At(j, "claim", "allowed")
  /\ demand' = [demand EXCEPT ![job[j].demand].cabinet = job[j].cabinet,
                              ![job[j].demand].row =
                                IF job[j].op = "createDemand" THEN "enabled" ELSE @]
  /\ End(j)
  /\ UNCHANGED <<result, evidence, images, protocol>> /\ Wrote

-----------------------------------------------------------------------------
(* POST /results with n images and perhaps a protocol; POST /results/:id/images. *)
StartResult(j, x, c, n, p) ==
  /\ result[x].row = "absent"
  /\ \A k \in Jobs : ~(job[k].op = "createResult" /\ job[k].result = x)
  /\ HasActiveSubscription(c)
  /\ Start(j, [NoJob EXCEPT !.op = "createResult", !.step = "started", !.result = x,
                            !.cabinet = c, !.todo = Fresh(n),
                            !.file = IF p = 1 THEN minted + n + 1 ELSE NONE], n + p)

StartImages(j, x, n) ==
  /\ result[x].row = "enabled"
  /\ Start(j, [NoJob EXCEPT !.op = "addImages", !.step = "started", !.result = x,
                            !.cabinet = result[x].cabinet, !.todo = Fresh(n)], n)

CheckImageByUse(j) ==              \* variant: the size of the image is left out
  \E k \in job[j].todo :
    /\ UsedAloneFits(job[j].cabinet)
    /\ job' = [job EXCEPT ![j].todo = @ \ {k}, ![j].passed = @ \cup {k}]
    /\ Silently

CheckImage(j) ==
  \E k \in job[j].todo :
    /\ StorageFits(job[j].cabinet, k)
    /\ job' = [job EXCEPT ![j].todo = @ \ {k}, ![j].passed = @ \cup {k}]
    /\ Silently

UploadImage(j) ==
  \E k \in job[j].passed :
    /\ Store(k)
    /\ job' = [job EXCEPT ![j].passed = @ \ {k}, ![j].done = @ \cup {k}]
    /\ UNCHANGED <<plansVars, usageTables, minted, presigned, calm, broken>>

ImagesDone(j) == job[j].todo = {} /\ job[j].passed = {}

(* The protocol of a new result comes after its images; that of an         *)
(* existing one replaces the file it has, which is deleted first.          *)
StartProtocol(j, x) ==
  /\ result[x].row = "enabled"
  /\ Start(j, [NoJob EXCEPT !.op = "protocol", !.step = "started", !.result = x,
                            !.cabinet = result[x].cabinet, !.file = minted + 1,
                            !.old = FilesOfResult(x) \ images[x]], 1)

CheckProtocol(j) ==
  /\ At(j, "createResult", "started") \/ At(j, "protocol", "started")
  /\ job[j].file # NONE /\ ImagesDone(j)
  /\ StorageFits(job[j].cabinet, job[j].file)
  /\ Goto(j, IF job[j].op = "protocol" THEN "replacing" ELSE "allowed")
  /\ Silently

DropOldProtocol(j) ==
  /\ At(j, "protocol", "replacing")
  /\ Drop(job[j].old)
  /\ Goto(j, "allowed")
  /\ UNCHANGED <<plansVars, usageTables, minted, presigned, broken, stored>>

UploadProtocol(j) ==
  /\ At(j, "createResult", "allowed") \/ At(j, "protocol", "allowed")
  /\ job[j].file \notin bucket
  /\ Store(job[j].file)
  /\ UNCHANGED <<plansVars, usageTables, minted, presigned, job, calm, broken>>

SaveProtocol(j) ==
  /\ At(j, "protocol", "allowed") /\ job[j].file \in bucket
  /\ protocol' = [protocol EXCEPT ![job[j].result] = job[j].file]
  /\ End(j)
  /\ UNCHANGED <<demand, result, evidence, images>> /\ Wrote

SaveResult(j) ==
  /\ job[j].op = "createResult" /\ ImagesDone(j)
  /\ job[j].file # NONE => job[j].file \in bucket
  /\ result' = [result EXCEPT ![job[j].result] = [row |-> "enabled", cabinet |-> job[j].cabinet]]
  /\ images' = [images EXCEPT ![job[j].result] = job[j].done]
  /\ protocol' = [protocol EXCEPT ![job[j].result] = job[j].file]
  /\ End(j)
  /\ UNCHANGED <<demand, evidence>> /\ Wrote

(* createMany: the result may be disabled by now. *)
SaveImages(j) ==
  /\ job[j].op = "addImages" /\ ImagesDone(j)
  /\ images' = [images EXCEPT ![job[j].result] = @ \cup job[j].done]
  /\ End(j)
  /\ UNCHANGED <<demand, result, evidence, protocol>> /\ Wrote

-----------------------------------------------------------------------------
(* POST /demands/:id/evidence/presign, then the client's upload to the     *)
(* bucket, then POST /demands/:id/evidence/confirm; the client may leave   *)
(* out any of them and confirm a key twice.                                *)
PresignEvidence(d) ==
  /\ demand[d].row = "enabled"
  /\ minted < MaxKeys
  /\ minted' = minted + 1
  /\ presigned' = presigned \cup {<<d, minted + 1>>}
  /\ UNCHANGED <<plansVars, usageTables, bucket, job, calm, broken, stored>>

PutObject(d, k) ==
  /\ <<d, k>> \in presigned /\ k \notin stored
  /\ Store(k)
  /\ calm' = (calm /\ k \notin EvidenceOf(d))
  /\ UNCHANGED <<plansVars, usageTables, minted, presigned, job, broken>>

StartConfirm(j, d, k) ==
  /\ demand[d].row = "enabled"
  /\ <<d, k>> \in presigned
  /\ Start(j, [NoJob EXCEPT !.op = "confirm", !.step = "started", !.demand = d,
                            !.cabinet = demand[d].cabinet, !.file = k], 0)

CheckEvidence(j) ==
  /\ At(j, "confirm", "started")
  /\ job[j].cabinet # NONE => StorageFits(job[j].cabinet, job[j].file)
  /\ Goto(j, "allowed")
  /\ Silently

(* Whatever the check throws, the limit exceeded or an error of a query,   *)
(* the object is deleted, even when a row of another confirmation names it *)
(* or is about to; the upload URL may be used once more.                   *)
RefuseEvidence(j) ==
  /\ At(j, "confirm", "started") /\ job[j].cabinet # NONE
  /\ Drop({job[j].file})
  /\ stored' = IF job[j].file \in bucket' THEN stored ELSE stored \ {job[j].file}
  /\ End(j)
  /\ UNCHANGED <<plansVars, usageTables, minted, presigned, broken>>

SaveEvidenceSwapped(j) ==          \* variant: the arguments of addEvidence swapped
  /\ At(j, "confirm", "allowed")
  /\ evidence' = Append(evidence, <<job[j].file, job[j].demand>>)
  /\ End(j)
  /\ UNCHANGED <<demand, result, images, protocol>> /\ Wrote

SaveEvidence(j) ==
  /\ At(j, "confirm", "allowed")
  /\ evidence' = Append(evidence, <<job[j].demand, job[j].file>>)
  /\ End(j)
  /\ UNCHANGED <<demand, result, images, protocol>> /\ Wrote

-----------------------------------------------------------------------------
(* DELETE /demands/:id and /results/:id: the objects, then the row. *)
StartDeleteDemand(j, d) ==
  /\ demand[d].row = "enabled"
  /\ Start(j, [NoJob EXCEPT !.op = "deleteDemand", !.step = "started", !.demand = d,
                            !.old = EvidenceOf(d)], 0)

StartDeleteResultImages(j, x) ==   \* variant: the protocol is forgotten
  /\ result[x].row = "enabled"
  /\ Start(j, [NoJob EXCEPT !.op = "deleteResult", !.step = "started", !.result = x,
                            !.old = images[x]], 0)

StartDeleteResult(j, x) ==
  /\ result[x].row = "enabled"
  /\ Start(j, [NoJob EXCEPT !.op = "deleteResult", !.step = "started", !.result = x,
                            !.old = FilesOfResult(x)], 0)

DropFiles(j) ==
  /\ At(j, "deleteDemand", "started") \/ At(j, "deleteResult", "started")
  /\ Drop(job[j].old)
  /\ Goto(j, "dropped")
  /\ UNCHANGED <<plansVars, usageTables, minted, presigned, broken, stored>>

DisableDemand(j) ==
  /\ At(j, "deleteDemand", "dropped")
  /\ demand' = [demand EXCEPT ![job[j].demand].row = "disabled"]
  /\ End(j)
  /\ UNCHANGED <<result, evidence, images, protocol>> /\ Wrote

DisableResult(j) ==
  /\ At(j, "deleteResult", "dropped")
  /\ result' = [result EXCEPT ![job[j].result].row = "disabled"]
  /\ End(j)
  /\ UNCHANGED <<demand, evidence, images, protocol>> /\ Wrote

-----------------------------------------------------------------------------
(* What a request that stops here has taken away from a row still there.   *)
Bereft(j) ==
  CASE job[j].op = "deleteDemand" /\ job[j].step = "dropped" -> {job[j].demand}
    [] job[j].op = "deleteResult" /\ job[j].step = "dropped" -> {job[j].result}
    [] job[j].op = "protocol" /\ job[j].step = "allowed" -> {job[j].result}
    [] OTHER -> {}

(* A check refuses, a statement or an upload fails.  The other images of   *)
(* the request go on, to their check and to the bucket, and what is        *)
(* uploaded stays.  A check of evidence that fails is RefuseEvidence.      *)
FailJob(j) ==
  /\ job[j] # NoJob
  /\ ~(At(j, "confirm", "started") /\ job[j].cabinet # NONE)
  /\ \E more \in SUBSET (job[j].todo \cup job[j].passed) :
       /\ bucket' = bucket \cup more /\ stored' = stored \cup more
       /\ calm' = (calm /\ job[j].step \in {"started", "counted"} /\ job[j].done = {}
                        /\ job[j].passed = {} /\ more = {})
  /\ broken' = broken \cup Bereft(j)
  /\ End(j)
  /\ UNCHANGED <<plansVars, usageTables, minted, presigned>>

Crash ==
  /\ Busy
  /\ broken' = broken \cup UNION {Bereft(j) : j \in Jobs}
  /\ calm' = FALSE
  /\ job' = [j \in Jobs |-> NoJob]
  /\ UNCHANGED <<plansVars, usageTables, bucket, minted, presigned, stored>>

Arrive(j) ==
  \/ \E d \in Demands, c \in Cabinets \cup {NONE} : StartDemand(j, d, c)
  \/ \E d \in Demands, c \in Cabinets : StartClaim(j, d, c)
  \/ \E x \in Results, c \in Cabinets, n \in 0..2, p \in 0..1 : StartResult(j, x, c, n, p)
  \/ \E x \in Results, n \in 1..2 : StartImages(j, x, n)
  \/ \E x \in Results : StartProtocol(j, x) \/ StartDeleteResult(j, x)
  \/ \E d \in Demands, k \in Keys : StartConfirm(j, d, k)
  \/ \E d \in Demands : StartDeleteDemand(j, d)

Work(j) ==
  \/ CountDemands(j)   \/ CheckDemandLimit(j) \/ SaveDemand(j)
  \/ CheckImage(j)     \/ UploadImage(j)      \/ SaveImages(j)
  \/ CheckProtocol(j)  \/ DropOldProtocol(j)  \/ UploadProtocol(j) \/ SaveProtocol(j)
  \/ SaveResult(j)
  \/ CheckEvidence(j)  \/ RefuseEvidence(j)   \/ SaveEvidence(j)
  \/ DropFiles(j)      \/ DisableDemand(j)    \/ DisableResult(j)
  \/ FailJob(j)

Administer ==
  /\ ChangePlans
  /\ calm' = (calm /\ ~Busy)
  /\ UNCHANGED <<usageTables, bucket, minted, presigned, job, broken, stored>>

Next ==
  \/ \E j \in Jobs : Arrive(j) \/ Work(j)
  \/ \E d \in Demands : PresignEvidence(d)
  \/ \E d \in Demands, k \in Keys : PutObject(d, k)
  \/ Administer
  \/ Crash

Spec == Init /\ [][Next]_vars

-----------------------------------------------------------------------------
(* A file an enabled demand or result names is in the bucket, unless it    *)
(* never was, or a deletion or a replacement has taken it and is about to  *)
(* change the row, or was interrupted there, or another confirmation of    *)
(* that very piece of evidence was refused and took the object with it     *)
(* (delete-demand.use-case.ts:22, upload-result-protocol.use-case.ts:27,   *)
(* confirm-demand-evidence.use-case.ts:40).                                *)
NamedFilesExist ==
  LET taking(h) == \E j \in Jobs : Bereft(j) = {h} IN
  /\ \A d \in Demands : demand[d].row = "enabled" /\ d \notin broken /\ ~taking(d) =>
       EvidenceOf(d) \cap stored \subseteq bucket
  /\ \A x \in Results : result[x].row = "enabled" /\ x \notin broken /\ ~taking(x) =>
       FilesOfResult(x) \subseteq bucket

(* While requests come one at a time and succeed, and clients upload before *)
(* they confirm, nothing is left behind in the bucket: each object is named *)
(* by an enabled row or waits for its confirmation.                        *)
NothingIsLeftBehind ==
  calm /\ ~Busy =>
    \A k \in bucket :
      \/ \E d \in Demands : demand[d].row = "enabled" /\ k \in EvidenceOf(d)
      \/ \E x \in Results : result[x].row = "enabled" /\ k \in FilesOfResult(x)
      \/ \E d \in Demands : <<d, k>> \in presigned /\ k \notin EvidenceOf(d)

(* While requests come one at a time, no demand is created for or claimed  *)
(* by a cabinet beyond the limit of its subscription.                      *)
DemandsFit ==
  [][\A c \in Cabinets : calm' /\ DemandCount(c)' > DemandCount(c) =>
       WithinLimit(c, "maxDemands", DemandCount(c)')]_vars

(* While requests come one at a time, every file recorded with a result or *)
(* as evidence of a demand that has a cabinet fitted by itself, on top of  *)
(* what the cabinet used until then.  The images of one request may        *)
(* together exceed the limit, and the evidence of a demand that a cabinet  *)
(* claims later is not checked.                                            *)
FilesFit ==
  [][/\ \A x \in Results, k \in Keys :
          calm' /\ result'[x].row = "enabled" /\ k \in FilesOfResult(x)' \ FilesOfResult(x) =>
            StorageFits(result'[x].cabinet, k)
     /\ \A i \in DOMAIN evidence' \ DOMAIN evidence :
          LET d == evidence'[i][1] IN
          calm' /\ demand[d].cabinet # NONE => StorageFits(demand[d].cabinet, evidence'[i][2])]_vars

(* Rows and objects agree: what is named exists, what exists is named or   *)
(* awaited, with the exceptions above.                                     *)
FilesMatchRows == NamedFilesExist /\ NothingIsLeftBehind

(* The limits of a subscription hold for requests that do not overlap.     *)
LimitsHold == DemandsFit /\ FilesFit
=============================================================================
