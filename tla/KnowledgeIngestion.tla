-------------------------- MODULE KnowledgeIngestion --------------------------
(***************************************************************************)
(* Ingestion jobs, their execution cursor, and the journal of operations   *)
(* on the document provider: the handler of topic knowledge.ingest.v1      *)
(* (process_ingestion_job, ingest_with_receipts) with submission, retry    *)
(* and the administrator's status update around it.                        *)
(*                                                                         *)
(* The delivery runtime appears as the contract DurableTasks implements:   *)
(* an unacknowledged message is handed to workers again and again; the     *)
(* messages of one upload identity are executed by the holder of its       *)
(* lease; a worker that has lost the lease may run on, but its next commit *)
(* or lease check raises.  The provider is external: a request may take    *)
(* effect although its response is lost, and may do so late.               *)
(***************************************************************************)
EXTENDS Naturals, FiniteSets

CONSTANTS
    Job,            \* accepted ingestion jobs
    Identity,       \* upload identities
    IdentityOf,     \* source app, source version and dataset of a job
    Worker,         \* consumer processes
    None,           \* no holder, no deadline
    AdminStatus,    \* statuses an administrator sets
    MaxGeneration,  \* bound: retries of a job
    MaxStep,        \* bound: polls of a generation
    MaxFaults,      \* bound: crashes, stalls and lost responses
    MaxAdmin        \* bound: status updates by an administrator

ASSUME JobAssumption ==
    /\ IdentityOf \in [Job -> Identity]
    /\ None \notin Worker \cup {"future", "past"}

ASSUME BoundAssumption ==
    /\ MaxGeneration \in Nat /\ MaxStep \in Nat
    /\ MaxFaults \in Nat /\ MaxAdmin \in Nat

VARIABLES
    job,        \* table knowledge_ingestion_job, with its execution cursor
    sent,       \* outbox messages of the topic
    inbox,      \* acknowledged messages
    uploadOp,   \* table knowledge_provider_operation, keys upload:<identity>
    parseOp,    \* ... keys parse:<identity>:<job>:<generation>
    indexed,    \* identities with an indexed knowledge_document_version
    holder,     \* worker that holds the execution lease of an identity
    worker,     \* local state of every worker
    doc,        \* provider: parse state of the document of an identity
    inFlight,   \* provider: requests that may still take effect
    uploads,    \* ghost: upload requests made per identity
    faults,     \* faults so far
    admin       \* administrator updates so far

tables == <<job, sent, inbox, uploadOp, parseOp, indexed>>
provider == <<doc, inFlight, uploads>>
bounds == <<faults, admin>>
vars == <<tables, provider, holder, worker, bounds>>

Generation == 0 .. MaxGeneration
Message == [job : Job, generation : Generation, step : 0 .. MaxStep]

(* Every terminal status but succeeded is handled like failed. *)
Terminal == {"succeeded", "failed"}
Status == {"absent", "accepted", "running", "reconciliation_required"}
             \cup Terminal

(* IngestionExecution; upload says whether the cursor holds a verified one. *)
JobRow ==
    [status     : Status,
     generation : Generation,
     step       : 0 .. MaxStep,
     phase      : {"prepare", "poll"},
     upload     : BOOLEAN,
     deadline   : {None, "future", "past"}]

AbsentJob == [status |-> "absent", generation |-> 0, step |-> 0,
              phase |-> "prepare", upload |-> FALSE, deadline |-> None]

(* An administrator gives an accepted job a status of the model. *)
ASSUME AdminAssumption == AdminStatus \subseteq Status \ {"absent"}

Operation == {"none", "intent", "executing", "unknown", "confirmed"}

(* ParseStatus; a queued document counts as running. *)
Run == {"UNSTART", "RUNNING", "DONE", "FAIL", "CANCEL"}
Restartable == {"UNSTART", "FAIL", "CANCEL"}

(* Where the handler stands; its last commit is one of the final ones. *)
Final == {"ack", "fail", "schedule", "complete"}
Step == {"load", "begin", "provide", "find", "claimUpload", "assertUpload",
         "upload", "uploadLost", "confirmUpload", "plan", "look", "checkParse",
         "claimParse", "assertParse", "parse", "parseLost", "confirmParse",
         "adopt", "observe", "conclude", "reconcile"} \cup Final

WorkerState == [pc      : Step \cup {"idle"},
                message : Message \cup {None},
                run     : Run,
                phase   : {"prepare", "poll"}]

Idle == [pc |-> "idle", message |-> None, run |-> "UNSTART",
         phase |-> "prepare"]

TypeOK ==
    /\ job \in [Job -> JobRow]
    /\ sent \in SUBSET Message
    /\ inbox \in SUBSET sent
    /\ uploadOp \in [Identity -> Operation \cup {"legacy_unknown"}]
    /\ parseOp \in [Job -> [Generation -> Operation]]
    /\ indexed \in SUBSET Identity
    /\ holder \in [Identity -> Worker \cup {None}]
    /\ worker \in [Worker -> WorkerState]
    /\ doc \in [Identity -> Run \cup {"absent"}]
    /\ inFlight \in SUBSET ({"upload", "parse"} \X Identity)
    /\ uploads \in [Identity -> Nat]
    /\ faults \in 0 .. MaxFaults
    /\ admin \in 0 .. MaxAdmin

(* The migration left uploads it cannot vouch for as legacy_unknown. *)
Init ==
    /\ job = [j \in Job |-> AbsentJob]
    /\ sent = {}
    /\ inbox = {}
    /\ uploadOp \in [Identity -> {"none", "legacy_unknown"}]
    /\ parseOp = [j \in Job |-> [g \in Generation |-> "none"]]
    /\ indexed = {}
    /\ holder = [i \in Identity |-> None]
    /\ worker = [w \in Worker |-> Idle]
    /\ doc = [i \in Identity |-> "absent"]
    /\ inFlight = {}
    /\ uploads = [i \in Identity |-> 0]
    /\ faults = 0
    /\ admin = 0

-----------------------------------------------------------------------------
(* Requests. *)

Command(j, g, s) == [job |-> j, generation |-> g, step |-> s]

(* _enqueue_ingestion: the deduplication key names job and generation, so  *)
(* asking again returns the message that is there, acknowledged or not.    *)
EnqueueIngestion(j) == sent' = sent \cup {Command(j, job'[j].generation, 0)}

(* submit_ingestion accepts a job. *)
Submit(j) ==
    /\ job[j].status = "absent"
    /\ job' = [job EXCEPT ![j].status = "accepted"]
    /\ EnqueueIngestion(j)
    /\ UNCHANGED <<inbox, uploadOp, parseOp, indexed, provider, holder, worker,
                   bounds>>

(* submit_ingestion with a known key, and request_ingestion_job. *)
Dispatch(j) ==
    /\ job[j].status \notin Terminal \cup {"absent"}
    /\ UNCHANGED job
    /\ EnqueueIngestion(j)
    /\ UNCHANGED <<inbox, uploadOp, parseOp, indexed, provider, holder, worker,
                   bounds>>

(* The cursor of a new generation: only the verified upload is kept. *)
NewGeneration(row) ==
    [AbsentJob EXCEPT !.status = "accepted",
                      !.generation = row.generation + 1,
                      !.upload = row.upload]

(* retry_ingestion_job, forced where the status blocks it. *)
RetryIngestion(j) ==
    /\ job[j].status = "failed"
    /\ job[j].generation < MaxGeneration
    /\ job' = [job EXCEPT ![j] = NewGeneration(@)]
    /\ EnqueueIngestion(j)
    /\ UNCHANGED <<inbox, uploadOp, parseOp, indexed, provider, holder, worker,
                   bounds>>

(* The administrator's update_ingestion_status: neither lock nor state     *)
(* machine, and the cursor is not touched.                                 *)
UpdateStatus(j, status) ==
    /\ job[j].status # "absent"
    /\ admin < MaxAdmin
    /\ admin' = admin + 1
    /\ job' = [job EXCEPT ![j].status = status]
    /\ UNCHANGED <<sent, inbox, uploadOp, parseOp, indexed, provider, holder,
                   worker, faults>>

(* recover_upload_receipt: the operator names the document, which is       *)
(* verified with reads only.                                               *)
RecoverUpload(i) ==
    /\ uploadOp[i] \notin {"none", "legacy_unknown"}
    /\ doc[i] # "absent"
    /\ uploadOp' = [uploadOp EXCEPT ![i] = "confirmed"]
    /\ UNCHANGED <<job, sent, inbox, parseOp, indexed, provider, holder, worker,
                   bounds>>

-----------------------------------------------------------------------------
(* The delivery runtime (see DurableTasks). *)

Fault == faults < MaxFaults /\ faults' = faults + 1

JobOf(w)        == worker[w].message.job
GenerationOf(w) == worker[w].message.generation
StepOf(w)       == worker[w].message.step
IdOf(w)         == IdentityOf[JobOf(w)]
At(w, pc)       == worker[w].pc = pc
Go(w, pc)       == worker' = [worker EXCEPT ![w].pc = pc]

(* claim_execution: an unacknowledged message of a free identity. *)
Claim(w, m) ==
    /\ At(w, "idle")
    /\ m \in sent \ inbox
    /\ holder[IdentityOf[m.job]] = None
    /\ holder' = [holder EXCEPT ![IdentityOf[m.job]] = w]
    /\ worker' = [worker EXCEPT ![w] = [Idle EXCEPT !.pc = "load",
                                                    !.message = m]]
    /\ UNCHANGED <<tables, provider, bounds>>

(* consume returns or raises, and releases what it still holds. *)
Leave(w) ==
    /\ worker' = [worker EXCEPT ![w] = Idle]
    /\ holder' = [holder EXCEPT ![IdOf(w)] = IF @ = w THEN None ELSE @]

HoldsLease(w) == holder[IdOf(w)] = w

(* Mutant of Current: guard_generation is not registered. *)
LeaseOnly(w) == HoldsLease(w)

(* The lease guard and guard_generation, at every commit and check. *)
Current(w) == HoldsLease(w) /\ job[JobOf(w)].generation = GenerationOf(w)

(* What commits or asserts next; requests under way do neither. *)
Guarded == Step \ {"load", "upload", "parse"}

(* DeliveryLeaseLost: the lease, or the generation, is somebody else's. *)
LeaseLost(w) ==
    /\ worker[w].pc \in Guarded
    /\ IF At(w, "ack") THEN ~HoldsLease(w) ELSE ~Current(w)
    /\ Leave(w)
    /\ UNCHANGED <<tables, provider, bounds>>

(* The process dies, or an error nobody classifies ends the handler. *)
Crash(w) ==
    /\ ~At(w, "idle")
    /\ Fault
    /\ Leave(w)
    /\ UNCHANGED <<tables, provider, admin>>

(* A worker stalls past its lease and does not know it. *)
Stall(i) ==
    /\ holder[i] # None
    /\ Fault
    /\ holder' = [holder EXCEPT ![i] = None]
    /\ UNCHANGED <<tables, provider, worker, admin>>

(* The persisted parse deadline passes. *)
DeadlinePasses(j) ==
    /\ job[j].deadline = "future"
    /\ job' = [job EXCEPT ![j].deadline = "past"]
    /\ UNCHANGED <<sent, inbox, uploadOp, parseOp, indexed, provider, holder,
                   worker, bounds>>

-----------------------------------------------------------------------------
(* process_ingestion_job up to the provider. *)

(* A terminal job, or a command the cursor has left behind. *)
Obsolete(w) ==
    LET row == job[JobOf(w)] IN
    \/ row.status \in Terminal
    \/ GenerationOf(w) < row.generation
    \/ GenerationOf(w) = row.generation /\ StepOf(w) < row.step

(* A command ahead of the cursor raises: it must never exist. *)
AtCursor(w) ==
    /\ GenerationOf(w) = job[JobOf(w)].generation
    /\ StepOf(w) = job[JobOf(w)].step

LoadObsolete(w) ==
    /\ At(w, "load")
    /\ Obsolete(w)
    /\ Go(w, "ack")
    /\ UNCHANGED <<tables, provider, holder, bounds>>

LoadJob(w) ==
    /\ At(w, "load")
    /\ ~Obsolete(w)
    /\ AtCursor(w)
    /\ worker' = [worker EXCEPT
          ![w].pc = IF job[JobOf(w)].status = "running"
                    THEN "provide" ELSE "begin",
          ![w].phase = job[JobOf(w)].phase]
    /\ UNCHANGED <<tables, provider, holder, bounds>>

(* update_ingestion_status: running, whatever the status has become. *)
MarkRunning(w) ==
    /\ At(w, "begin")
    /\ Current(w)
    /\ job' = [job EXCEPT ![JobOf(w)].status = "running"]
    /\ Go(w, "provide")
    /\ UNCHANGED <<sent, inbox, uploadOp, parseOp, indexed, provider, holder,
                   bounds>>

-----------------------------------------------------------------------------
(* ingest_with_receipts: the upload. *)

Overdue(w) == job[JobOf(w)].deadline = "past"

(* A late response cannot extend the deadline. *)
TimedOut(w) ==
    /\ At(w, "conclude")
    /\ Overdue(w)
    /\ Go(w, "fail")
    /\ UNCHANGED <<tables, provider, holder, bounds>>

(* A provider, artifact or protocol error that is classified as final; a   *)
(* read that hangs until the deadline.                                     *)
Error(w) ==
    /\ worker[w].pc \in {"provide", "find", "confirmUpload", "plan", "look",
                         "observe"}
    /\ Go(w, "fail")
    /\ UNCHANGED <<tables, provider, holder, bounds>>

(* read_failed: once there is a deadline, a failed read is polled again, or *)
(* fails the job where the next poll would be scheduled; remaining() makes  *)
(* every read past the deadline a failed one.                               *)
ReadFailed(w) ==
    /\ worker[w].pc \in {"provide", "look", "observe"}
    /\ job[JobOf(w)].deadline # None
    /\ Go(w, "schedule")
    /\ UNCHANGED <<tables, provider, holder, bounds>>

(* Several matches, an unrecognised parse state, or a legacy upload. *)
Ambiguous(w) ==
    /\ worker[w].pc \in {"provide", "find", "look", "conclude"}
    /\ Go(w, "reconcile")
    /\ UNCHANGED <<tables, provider, holder, bounds>>

(* operation() for the upload: the intent is durable before anything else. *)
UploadIntent(w) ==
    /\ At(w, "provide")
    /\ Current(w)
    /\ ~job[JobOf(w)].upload
    /\ uploadOp[IdOf(w)] # "legacy_unknown"
    /\ uploadOp' = [uploadOp EXCEPT ![IdOf(w)] =
                        IF @ = "none" THEN "intent" ELSE @]
    /\ Go(w, "find")
    /\ UNCHANGED <<job, sent, inbox, parseOp, indexed, provider, holder, bounds>>

(* The cursor's upload is bound back to its confirmed receipt. *)
UploadKnown(w) ==
    /\ At(w, "provide")
    /\ ~Overdue(w)
    /\ job[JobOf(w)].upload
    /\ uploadOp[IdOf(w)] = "confirmed"
    /\ Go(w, "plan")
    /\ UNCHANGED <<tables, provider, holder, bounds>>

(* get_document or find_documents. *)
FindDocument(w) ==
    /\ At(w, "find")
    /\ Go(w, IF doc[IdOf(w)] = "absent" THEN "claimUpload" ELSE "confirmUpload")
    /\ UNCHANGED <<tables, provider, holder, bounds>>

(* Mutant of Startable: an outcome that is unknown is tried again. *)
StartableAgain(state) == state \in {"intent", "unknown"}

(* start(): only an intent nobody has begun may be executed. *)
Startable(state) == state = "intent"

(* start() commits before the request, or refuses. *)
ClaimUpload(w) ==
    /\ At(w, "claimUpload")
    /\ Current(w)
    /\ IF Startable(uploadOp[IdOf(w)])
       THEN /\ uploadOp' = [uploadOp EXCEPT ![IdOf(w)] = "executing"]
            /\ Go(w, "assertUpload")
       ELSE /\ UNCHANGED uploadOp
            /\ Go(w, "reconcile")
    /\ UNCHANGED <<job, sent, inbox, parseOp, indexed, provider, holder, bounds>>

(* assert_execution_current and assert_ingestion_current before a request. *)
AssertUpload(w) ==
    /\ At(w, "assertUpload")
    /\ Current(w)
    /\ Go(w, "upload")
    /\ UNCHANGED <<tables, provider, holder, bounds>>

(* The request; with its response lost, it may have or take effect. *)
UploadDocument(w) ==
    /\ At(w, "upload")
    /\ uploads' = [uploads EXCEPT ![IdOf(w)] = @ + 1]
    /\ \/ /\ doc' = [doc EXCEPT ![IdOf(w)] = "UNSTART"]
          /\ Go(w, "confirmUpload")
          /\ UNCHANGED <<inFlight, faults>>
       \/ /\ Fault
          /\ inFlight' = inFlight \cup {<<"upload", IdOf(w)>>}
          /\ Go(w, "uploadLost")
          /\ UNCHANGED doc
    /\ UNCHANGED <<tables, holder, admin>>

(* What unknown() makes of an operation. *)
Unresolved(state) == IF state = "executing" THEN "unknown" ELSE state

UploadUnknown(w) ==
    /\ At(w, "uploadLost")
    /\ Current(w)
    /\ uploadOp' = [uploadOp EXCEPT ![IdOf(w)] = Unresolved(@)]
    /\ Go(w, "reconcile")
    /\ UNCHANGED <<job, sent, inbox, parseOp, indexed, provider, holder, bounds>>

(* The content has been verified: confirm(). *)
ConfirmUpload(w) ==
    /\ At(w, "confirmUpload")
    /\ Current(w)
    /\ uploadOp' = [uploadOp EXCEPT ![IdOf(w)] = "confirmed"]
    /\ Go(w, "plan")
    /\ UNCHANGED <<job, sent, inbox, parseOp, indexed, provider, holder, bounds>>

-----------------------------------------------------------------------------
(* ingest_with_receipts: the parse. *)

ParseOp(w) == parseOp[JobOf(w)][GenerationOf(w)]
SetParseOp(w, state) ==
    parseOp' = [parseOp EXCEPT ![JobOf(w)][GenerationOf(w)] = state]

(* Mutant of Planned: every prepare step starts the clock again. *)
PlannedAfresh(row, message) ==
    [row EXCEPT !.generation = message.generation,
                !.upload = TRUE,
                !.deadline = "future"]

(* The cursor a prepare step saves, with the one deadline it ever gets. *)
Planned(row, message) ==
    [row EXCEPT !.generation = message.generation,
                !.upload = TRUE,
                !.deadline = IF @ = None THEN "future" ELSE @]

(* The cursor and the parse intent are durable before any parse request. *)
PlanParse(w) ==
    /\ At(w, "plan")
    /\ worker[w].phase = "prepare"
    /\ Current(w)
    /\ job' = [job EXCEPT ![JobOf(w)] = Planned(@, worker[w].message)]
    /\ SetParseOp(w, IF ParseOp(w) = "none" THEN "intent" ELSE ParseOp(w))
    /\ Go(w, "look")
    /\ UNCHANGED <<sent, inbox, uploadOp, indexed, provider, holder, bounds>>

(* A poll needs a confirmed parse and writes nothing before its last       *)
(* commit.                                                                 *)
PlanPoll(w) ==
    /\ At(w, "plan")
    /\ worker[w].phase = "poll"
    /\ Go(w, IF ParseOp(w) = "confirmed" THEN "observe" ELSE "reconcile")
    /\ UNCHANGED <<tables, provider, holder, bounds>>

(* read_document of a prepare step. *)
LookAtDocument(w) ==
    /\ At(w, "look")
    /\ ~Overdue(w)
    /\ doc[IdOf(w)] # "absent"
    /\ worker' = [worker EXCEPT
          ![w].run = doc[IdOf(w)],
          ![w].pc = IF doc[IdOf(w)] \in Restartable /\ ParseOp(w) # "confirmed"
                    THEN "checkParse" ELSE "adopt"]
    /\ UNCHANGED <<tables, provider, holder, bounds>>

(* Mutant of Unfinished: other jobs and generations are not looked at. *)
OwnUnfinished(w) == ParseOp(w) \in {"executing", "unknown"}

(* Any parse of this identity whose outcome nobody knows. *)
Unfinished(w) ==
    \E j \in Job, g \in Generation :
        /\ IdentityOf[j] = IdOf(w)
        /\ parseOp[j][g] \in {"executing", "unknown"}

CheckParse(w) ==
    /\ At(w, "checkParse")
    /\ Go(w, IF Unfinished(w) THEN "reconcile" ELSE "claimParse")
    /\ UNCHANGED <<tables, provider, holder, bounds>>

ClaimParse(w) ==
    /\ At(w, "claimParse")
    /\ Current(w)
    /\ IF Startable(ParseOp(w))
       THEN SetParseOp(w, "executing") /\ Go(w, "assertParse")
       ELSE UNCHANGED parseOp /\ Go(w, "reconcile")
    /\ UNCHANGED <<job, sent, inbox, uploadOp, indexed, provider, holder, bounds>>

(* The checks, and remaining(), whose error counts as an unknown outcome. *)
AssertParse(w) ==
    /\ At(w, "assertParse")
    /\ Current(w)
    /\ Go(w, IF Overdue(w) THEN "parseLost" ELSE "parse")
    /\ UNCHANGED <<tables, provider, holder, bounds>>

(* The request, under the deadline.  A provider error is an unknown        *)
(* outcome; the deadline's TimeoutError is not a provider error and leaves *)
(* by another door.                                                        *)
ParseDocument(w) ==
    /\ At(w, "parse")
    /\ \/ /\ doc' = [doc EXCEPT ![IdOf(w)] = "RUNNING"]
          /\ Go(w, "confirmParse")
          /\ UNCHANGED <<inFlight, faults>>
       \/ /\ Fault
          /\ inFlight' = inFlight \cup {<<"parse", IdOf(w)>>}
          /\ Go(w, IF Overdue(w) THEN "fail" ELSE "parseLost")
          /\ UNCHANGED doc
    /\ UNCHANGED <<tables, holder, uploads, admin>>

ParseUnknown(w) ==
    /\ At(w, "parseLost")
    /\ Current(w)
    /\ SetParseOp(w, Unresolved(ParseOp(w)))
    /\ Go(w, "reconcile")
    /\ UNCHANGED <<job, sent, inbox, uploadOp, indexed, provider, holder, bounds>>

(* confirm(), after the request or for a parse that is under way anyway;   *)
(* in the first case the document is read again.                           *)
ConfirmParse(w) ==
    /\ worker[w].pc \in {"confirmParse", "adopt"}
    /\ Current(w)
    /\ SetParseOp(w, "confirmed")
    /\ worker' = [worker EXCEPT
          ![w].phase = "poll",
          ![w].pc = IF @ = "adopt" THEN "conclude" ELSE "observe"]
    /\ UNCHANGED <<job, sent, inbox, uploadOp, indexed, provider, holder, bounds>>

(* read_document of a poll. *)
Observe(w) ==
    /\ At(w, "observe")
    /\ doc[IdOf(w)] # "absent"
    /\ ~Overdue(w)
    /\ worker' = [worker EXCEPT ![w].run = doc[IdOf(w)], ![w].pc = "conclude"]
    /\ UNCHANGED <<tables, provider, holder, bounds>>

Conclude(w) ==
    /\ At(w, "conclude")
    /\ ~Overdue(w)
    /\ Go(w, CASE worker[w].run = "DONE"               -> "complete"
               [] worker[w].run \in {"FAIL", "CANCEL"}  -> "fail"
               [] worker[w].run \in {"UNSTART", "RUNNING"} -> "schedule")
    /\ UNCHANGED <<tables, provider, holder, bounds>>

-----------------------------------------------------------------------------
(* The last commit: the job's changes, the successor and the inbox marker. *)

Acknowledge(w) == inbox' = inbox \cup {worker[w].message}

(* The status, with the phase save_execution left on the job. *)
End(w, status) ==
    job' = [job EXCEPT ![JobOf(w)].status = status,
                       ![JobOf(w)].phase = worker[w].phase]

(* Mutant of Reconcile: the error is swallowed once the status is saved. *)
ReconcileQuietly(w) ==
    /\ At(w, "reconcile")
    /\ Current(w)
    /\ End(w, "reconciliation_required")
    /\ Acknowledge(w)
    /\ Leave(w)
    /\ UNCHANGED <<sent, uploadOp, parseOp, indexed, provider, bounds>>

(* ProviderOutcomeUnknown: the status is committed, then the error raised: *)
(* the message stays unacknowledged.                                       *)
Reconcile(w) ==
    /\ At(w, "reconcile")
    /\ Current(w)
    /\ End(w, "reconciliation_required")
    /\ Leave(w)
    /\ UNCHANGED <<sent, inbox, uploadOp, parseOp, indexed, provider, bounds>>

(* Nothing to do: fenced by the lease alone. *)
AckObsolete(w) ==
    /\ At(w, "ack")
    /\ HoldsLease(w)
    /\ Acknowledge(w)
    /\ Leave(w)
    /\ UNCHANGED <<job, sent, uploadOp, parseOp, indexed, provider, bounds>>

FailJob(w) ==
    /\ At(w, "fail")
    /\ Current(w)
    /\ End(w, "failed")
    /\ Acknowledge(w)
    /\ Leave(w)
    /\ UNCHANGED <<sent, uploadOp, parseOp, indexed, provider, bounds>>

(* Mutant of Following: the cursor is moved past the successor. *)
FollowingTwice(row, message, phase) ==
    [row EXCEPT !.generation = message.generation,
                !.step = message.step + 2,
                !.phase = phase]

(* The cursor of the next poll. *)
Following(row, message, phase) ==
    [row EXCEPT !.generation = message.generation,
                !.step = message.step + 1,
                !.phase = phase]

(* _schedule_parse_poll; past the deadline it fails the job instead. *)
SchedulePoll(w) ==
    /\ At(w, "schedule")
    /\ Current(w)
    /\ IF Overdue(w)
       THEN /\ End(w, "failed")
            /\ UNCHANGED sent
       ELSE /\ StepOf(w) < MaxStep
            /\ job' = [job EXCEPT ![JobOf(w)] =
                          Following(@, worker[w].message, worker[w].phase)]
            /\ sent' = sent \cup {Command(JobOf(w), GenerationOf(w),
                                          StepOf(w) + 1)}
    /\ Acknowledge(w)
    /\ Leave(w)
    /\ UNCHANGED <<uploadOp, parseOp, indexed, provider, bounds>>

(* complete_ragflow_ingestion *)
CompleteIngestion(w) ==
    /\ At(w, "complete")
    /\ Current(w)
    /\ End(w, "succeeded")
    /\ indexed' = indexed \cup {IdOf(w)}
    /\ Acknowledge(w)
    /\ Leave(w)
    /\ UNCHANGED <<sent, uploadOp, parseOp, provider, bounds>>

-----------------------------------------------------------------------------
(* The provider (external). *)

(* A request whose response was lost takes effect after all. *)
LateEffect(kind, i) ==
    /\ <<kind, i>> \in inFlight
    /\ inFlight' = inFlight \ {<<kind, i>>}
    /\ doc' = [doc EXCEPT ![i] = IF kind = "upload" THEN "UNSTART" ELSE "RUNNING"]
    /\ UNCHANGED <<tables, uploads, holder, worker, bounds>>

(* A parse ends by itself, or is cancelled at the provider. *)
ParseEnds(i) ==
    /\ doc[i] = "RUNNING"
    /\ \E run \in {"DONE", "FAIL", "CANCEL"} : doc' = [doc EXCEPT ![i] = run]
    /\ UNCHANGED <<tables, inFlight, uploads, holder, worker, bounds>>

HandlerStep(w) ==
    \/ LoadObsolete(w) \/ LoadJob(w) \/ MarkRunning(w)
    \/ TimedOut(w) \/ Error(w) \/ ReadFailed(w) \/ Ambiguous(w)
    \/ UploadIntent(w) \/ UploadKnown(w) \/ FindDocument(w)
    \/ ClaimUpload(w) \/ AssertUpload(w) \/ UploadDocument(w)
    \/ UploadUnknown(w) \/ ConfirmUpload(w)
    \/ PlanParse(w) \/ PlanPoll(w) \/ LookAtDocument(w) \/ CheckParse(w)
    \/ ClaimParse(w) \/ AssertParse(w) \/ ParseDocument(w)
    \/ ParseUnknown(w) \/ ConfirmParse(w) \/ Observe(w) \/ Conclude(w)
    \/ Reconcile(w) \/ AckObsolete(w) \/ FailJob(w) \/ SchedulePoll(w)
    \/ CompleteIngestion(w)

Next ==
    \/ \E j \in Job : \/ Submit(j) \/ Dispatch(j) \/ RetryIngestion(j)
                      \/ \E status \in AdminStatus : UpdateStatus(j, status)
                      \/ DeadlinePasses(j)
    \/ \E i \in Identity : \/ RecoverUpload(i) \/ Stall(i) \/ ParseEnds(i)
                           \/ \E kind \in {"upload", "parse"} : LateEffect(kind, i)
    \/ \E w \in Worker : \/ \E m \in sent : Claim(w, m)
                         \/ HandlerStep(w) \/ LeaseLost(w) \/ Crash(w)

Spec == Init /\ [][Next]_vars

-----------------------------------------------------------------------------
(* Properties. *)

(* A source version is uploaded at most once, however many jobs, retries,  *)
(* crashes, stalled workers and lost responses there are, and never when   *)
(* the migration could not vouch for it (start() before every request).    *)
UploadedOnce ==
    \A i \in Identity :
        uploads[i] <= IF uploadOp[i] = "legacy_unknown" THEN 0 ELSE 1

(* What is indexed stays parsed: no request that is still under way, of    *)
(* this or another job or generation, restarts the parse of a document     *)
(* that retrieval already serves (the search for unfinished parses before  *)
(* a new one).                                                             *)
IndexedParsed ==
    \A i \in indexed : doc[i] = "DONE" /\ uploadOp[i] = "confirmed"

(* No command is ever ahead of the cursor, so that process_ingestion_job   *)
(* refuses none of the runtime's own messages: cursor and successor are    *)
(* committed together.                                                     *)
NeverAhead ==
    \A m \in sent :
        \/ m.generation < job[m.job].generation
        \/ m.generation = job[m.job].generation /\ m.step <= job[m.job].step

(* A job that is not terminal always has an unacknowledged command at its  *)
(* cursor to carry it on, whatever raced with whatever.                    *)
Continues ==
    \A j \in Job :
        job[j].status \notin Terminal \cup {"absent"}
        => Command(j, job[j].generation, job[j].step) \in sent \ inbox

(* The cursor only advances: a generation is never taken back by a stale   *)
(* worker, and within one no step, phase, verified upload or expired       *)
(* deadline is undone.                                                     *)
CursorOnlyAdvances ==
    [][\A j \in Job :
          LET old == job[j]  new == job'[j] IN
          \/ new.generation > old.generation
          \/ /\ new.generation = old.generation
             /\ new.step >= old.step
             /\ old.phase = "poll" => new.phase = "poll"
             /\ old.upload => new.upload
             /\ old.deadline # None => new.deadline \in {old.deadline, "past"}]_vars

(* An uncertain parse keeps its message open: what left its operation      *)
(* executing or unknown is not acknowledged (docs/ingestion-polling.md).   *)
UncertainStaysOpen ==
    \A m \in inbox : parseOp[m.job][m.generation] \notin {"executing", "unknown"}
=============================================================================
