# Knowledge backend: TLA+ specifications

Specifications, model-checking runs and machine-checked proofs for the
knowledge backend, a FastAPI and Celery application over PostgreSQL, Redis, an
object store and an external document provider (RAGFlow). The source lives in
`src/app`; every definition is a translation of the code the `map` of
`PROJECT.json` names.

Contents: 1 the system, 2 modules and how they compose, 3 delivery, 4 ingestion,
5 what an ingestion takes from outside, 6 access, 7 datasets and answers,
8 browser streams and probes, 9 runs, bounds and fairness, 10 proofs,
11 disagreements and remarks, 12 what is not modelled.

## 1. The system

| Component | State it keeps | Operations |
|---|---|---|
| Durable delivery (`infrastructure/messaging/durable_delivery.py`, `tasks/durable_delivery.py`) | tables `outbox_message`, `outbox_dead_letter`; the publisher lease inside an outbox row | `enqueue`, `reconcile`, `claim_delivery`, publish to the broker, `finish_delivery`, `replay` |
| Durable tasks (`infrastructure/messaging/durable_tasks.py`) | tables `outbox_execution` (one lease row per resource, with an epoch) and `inbox_message` | `claim_execution`, `consume` (entry check, handler, commits under a `before_commit` guard, acknowledgement), `renew`, `release` |
| Delivery observation (`infrastructure/messaging/delivery_observation.py`) | a semaphore of one place | take a snapshot, compute gauges |
| Knowledge ingestion (`application/services/knowledge_ingestion_service.py`, `ingestion_execution.py`) | `knowledge_ingestion_job` with its status history, retry counter and an execution cursor in `metadata_json` | submit, execute one step, schedule the next poll, fail, retry, the administrator's status update |
| Provider journal (`application/services/provider_delivery.py`) | `knowledge_provider_operation`: intent, executing, unknown, confirmed, legacy_unknown | start, call the provider, confirm or mark unknown, recover an upload's receipt, poll |
| Artifact content and dataset binding (`infrastructure/external/artifact_content.py`, `ragflow.py`, `services/ingestion_authorization.py`) | the binding snapshot in a job's history; the journal's dataset row | fetch and verify pinned content, verify the provider's copy, look a dataset up by pages |
| Dataset registry and catalogue (`repositories/dataset_registry.py`, `services/dataset_catalog.py`, `dataset_pages.py`) | table of registered dataset versions; an in-memory catalogue per process | register, refresh, resolve, listing, detail |
| Dataset file cache (`infrastructure/external/dataset_store.py`) | a directory of digest-named files per host | download a pinned object, ensure a dataset's files |
| Semantic layer (`infrastructure/semantic/`, `services/semantic_metrics.py`) | a directory of digest-named DuckDB files | prepare and attach a database, answer a query by metric name |
| Knowledge retrieval (`services/knowledge_retrieval_service.py`) | none | read versions, ask the provider, assemble evidence |
| Browser login and sessions (`services/auth_service.py`, `storage/session_store.py`, `interfaces/http/web/auth.py`, `admin/auth.py`, `middleware/auth.py`) | login transactions and sessions in Redis, with their expiry; the user's row; two cookies per surface in each browser | begin, complete and cancel a login, read and end a session, let a request in after its CSRF check |
| OIDC client and downstream tokens (`security/oidc.py`, `external/downstream_service.py`) | metadata, key-set and token caches per process | fetch, refresh, verify |
| MCP server and rate limiter (`interfaces/mcp/knowbase_mcp.py`, `services/call_rate.py`) | a window of call times per user's sandbox; anomaly counts | handle a batch, call a tool, admit |
| Web interactions (`services/web_interaction.py`) | events of a run by cursor | snapshot, stream, submit an action |
| Beat activity and worker readiness (`messaging/scheduler_activity.py`, `cli/worker_readiness.py`) | an activity file; none | tick, write, read; probe |

How they interact. A request handler commits its domain change together with an
outbox row (`enqueue_task`); it never calls the broker. Celery beat starts a
pump every five seconds. The pump reconciles, claims rows one at a time, sends
the message id to the broker as a task hint and records the outcome. A worker
that receives a hint loads the message from the database, takes the execution
lease of the message's resource and runs the registered handler, which for
`knowledge.ingest.v1` runs one step of an ingestion job: it checks the job's
binding, fetches the pinned content, uploads it, and, when the provider is still
parsing, enqueues the next step with a later `not_before`. The provider knows no
idempotency keys, so every mutating call is journalled before it is made and an
unknown outcome is never repeated. The retrieval and dataset services only read;
they are reached through browser sessions, service tokens and MCP tokens.

What is hard. Several pumps and several workers run concurrently against the
same rows, each in short transactions with no lock held across a remote call;
processes die at any point; the broker may lose or duplicate hints; leases are
judged by a wall clock that an operator may set back; a worker that stalled
past its lease wakes up and goes on; an operator replays dead letters; an
administrator changes a job's status while a worker executes it. Elsewhere it is
the gap between a look and its use: caches without a lock, files written under a
shared name, an object asked for twice, a page composed of two reads. `hazards`
in `PROJECT.json` lists them, each at its line, with the properties about it.

## 2. Modules and how they compose

| Module | Part | Composition |
|---|---|---|
| `DurableDelivery` | publisher, reconciler, dead letters | |
| `DurableTasks` | consumers | extends `DurableDelivery`; implements `TaskContract` |
| `TaskContract` | what the runtime promises | abstract specification |
| `DeliveryObservation` | gauges | extends `DurableTasks`; its step `Deliver` is `DurableTasks`' `Next` |
| `KnowledgeIngestion` | jobs, journal, provider | over the promises of `TaskContract` |
| `ArtifactFetch`, `IngestionBinding` | what a step of ingestion calls before it writes | used by it as checks that pass or end in an error |
| `DatasetCatalog`, `DatasetFiles`, `SemanticCache`, `MetricQuery` | from a registered version to an answer | each over what the one before promises: a version names a digest, a digest a file, a file a database, a database rows |
| `Retrieval` | evidence | |
| `AuthSessions`, `BrowserTabs`, `OidcKeys`, `TokenCache`, `KnowledgeMcp` | access | `AuthSessions` takes verified claims, which `OidcKeys` is about; `BrowserTabs` takes a login as one step, whose inside is `AuthSessions` |
| `WebInteraction`, `SchedulerActivity`, `WorkerReadiness` | streams and probes | |

Components that only rely on each other's promise are checked apart, each
against that promise, since their product adds no case. The `MC` modules bind the
constants for TLC, see section 9. The proofs (section 10) are in eight modules:

| Proof module | Proofs about |
|---|---|
| `DurableTasks_proof` | `DurableDelivery`, `DurableTasks`, its refinement of `TaskContract` |
| `DeliveryObservation_proof` | `DeliveryObservation`, over the lemmas of the module above |
| `KnowledgeIngestion_proof` | `KnowledgeIngestion` |
| `Inputs_proof` | `ArtifactFetch`, `IngestionBinding`, `SchedulerActivity` |
| `Sessions_proof` | `AuthSessions`, `BrowserTabs` |
| `ServiceCalls_proof` | `OidcKeys`, `TokenCache`, `KnowledgeMcp` |
| `Answers_proof` | `DatasetCatalog`, `MetricQuery`, `Retrieval` |
| `Progress_proof` | `DatasetFiles`, `SemanticCache`, `WebInteraction`, `WorkerReadiness` |

## 3. Durable delivery and durable tasks

### Modules

`DurableDelivery` is class `DurableDelivery` with the pump that drives it;
`DurableTasks` extends it the way class `DurableTasks` extends
`DurableDelivery`. One action stands for one transaction, or for the part of a
transaction between two points where another process can be observed:

| Code | Action |
|---|---|
| `enqueue` | `Enqueue` |
| `reconcile`: its two `SELECT ... FOR UPDATE SKIP LOCKED`, then the writes | `ReconcileSelect`, `ReconcileCommit` |
| `claim_delivery` | `ClaimDelivery`, `PumpEnd` |
| `apply_async` returns, or raises | `Publish`, `PublishError` |
| `finish_delivery`, or `DeliveryLeaseLost` | `FinishDelivery`, `FinishLost` |
| `replay` | `Replay` |
| `claim_execution`: the first SELECT | `ClaimCheck`, `ClaimRefused` |
| `claim_execution`: the upsert and the re-check | `ClaimLease`, `ClaimBusy`, `ClaimDone` |
| `consume`: entry check, `before_commit`, commit, exception | `Execute`, `Guard`, `CommitStep`, `CommitLast`, `HandlerFail`, `LeaseLost` |
| `renew`, `release` | `Renew`, `Release` |
| a process dies | `PumpCrash`, `WorkerCrash` |
| the broker, the clock | `BrokerFault`, `TimerDue`, `LeaseLapse`, `ExecutionLapse`, `ClockSlip` |

Abstractions, and why they lose nothing the properties tell apart:

- *Time.* Every timestamp is only ever compared with `clock_timestamp()`, so it
  is represented by the outcome of that comparison: `Future`, `Past`, or
  `NegInf` for `'-infinity'`. Time passes by `TimerDue`, `LeaseLapse` and
  `ExecutionLapse`; a clock set back is `ClockSlip`. `TimerDue` keeps
  `available_at` from passing before `not_before`, since it starts equal to it
  and only grows. A renewed lease is `Future` before and after, so `Renew`
  changes no state of the model: what a heartbeat achieves is that the lease of
  a running worker lapses only by a fault.
- *Owners.* The code draws a fresh UUID per claim. A process holds one claim at
  a time and the epoch (or the attempt) tells its claims apart, so the process
  stands for its UUID.
- *The broker* is, per message, the number of hint copies still to be handed
  out. A hint is acknowledged when its task has ended (`task_acks_late`), so a
  worker's death puts it back; where only a child process is lost, for which
  `task_reject_on_worker_lost` is not set, or the environment turns late
  acknowledgement off, it is gone. `WorkerCrash` allows both.
- *The handler* makes any number of commits of its own and may fail anywhere;
  what it writes is not looked at here. A commit is split where the code splits
  it: the guard locks the lease row (`SELECT ... FOR UPDATE`), the commit frees
  it, and the upsert of `claim_execution` waits for it (`RowLocked`).
- *Row locks* of `reconcile` are `pub[p].rows`; `claim_delivery` and another
  `reconcile` skip them, `finish_delivery` and `replay` wait.
- An exception from the database in the middle of a step ends the process's
  work as its death would: `PumpCrash`, `WorkerCrash`, `HandlerFail`.

`TaskContract` is what the runtime promises, without leases, attempts or hints:
messages are requested once, applied at most once, parked and unparked; per
resource, progress is made by one execution at a time and never by an old one.
`DurableTasks` maps to it with `requested`, `parked` and `applied` read off the
tables (`Contract`).

### Properties

- `ExactlyOnce`: the handler's final changes are committed once if the inbox
  has the message and never otherwise.
- `FencedCommits`: per resource, commits come in the order of epochs and stop
  after the acknowledging one.
- `NobodyElseReleases`, `ReleasedStaysReleased`: only its owner ends an
  execution, and an ended one never comes back, even if the clock is set back.
- `AttemptsBounded`: `attempt_count` exceeds `max_attempts` by at most one per
  crash, stall or clock correction, because `claim_delivery` does not look at
  it and only `reconcile` stops a message whose publishers keep dying.
- `ImplementsContract`: every step is a step of `TaskContract`.
- `NothingLost`: every enqueued message is eventually acknowledged or parked.
- `IInv`: the inductive invariant of the proofs.

### Delivery observation

`DeliveryObservation` runs the scrapes of the metrics endpoint beside the
runtime: `Scrape` (the semaphore is taken at once or the scrape is refused),
`Begin` (the `REPEATABLE READ` snapshot), `Query` (the gauges), `Fail` (the
budget runs out, the database fails, the client goes). Times are compared with
the clock of the snapshot, except execution leases, which the shared
`active_execution_sql` compares with the clock of the query.

- `GaugesRight`: types; `OneScan`, one collection at a time, and every way out
  of one frees the place; `PumpAgrees`, what the gauges call publishable the
  publisher's claim would take, what it would take and they do not count is
  acknowledged or under execution, and the candidates are the reconciler's;
  `MissesNothing`, a message that was overdue, or waited for a publisher, from
  the snapshot to the answer is in the answer.

## 4. Knowledge ingestion and the provider journal

### Module

`KnowledgeIngestion` is the handler of topic `knowledge.ingest.v1` and what
surrounds it. A handler is a sequence of actions of one worker, cut at every
commit, every check of the lease and every request to the provider, because
that is where other workers, administrators and the provider can be seen; `pc`
says what comes next.

| Code | Action |
|---|---|
| `submit_ingestion`; with a known key, and `request_ingestion_job` | `Submit`; `Dispatch` |
| `retry_ingestion_job` | `RetryIngestion` |
| `update_ingestion_status` by an administrator | `UpdateStatus` |
| `recover_upload_receipt` | `RecoverUpload` |
| `process_ingestion_job` up to the provider | `LoadObsolete`, `LoadJob`, `MarkRunning` |
| `uploaded_document` with `operation`, `start`, `unknown`, `confirm` | `UploadIntent`, `UploadKnown`, `FindDocument`, `ClaimUpload`, `AssertUpload`, `UploadDocument`, `UploadUnknown`, `ConfirmUpload` |
| `ingest_with_receipts`, prepare | `PlanParse`, `LookAtDocument`, `CheckParse`, `ClaimParse`, `AssertParse`, `ParseDocument`, `ParseUnknown`, `ConfirmParse` |
| `ingest_with_receipts`, poll and outcome | `PlanPoll`, `Observe`, `Conclude`, `TimedOut` |
| its errors | `Error`, `ReadFailed`, `Ambiguous` |
| the last commit | `Reconcile`, `AckObsolete`, `FailJob`, `SchedulePoll`, `CompleteIngestion` |
| `guard_generation`, `assert_*_current` fail | `LeaseLost` |
| the delivery runtime | `Claim`, `Leave` (part of the last commits), `Crash`, `Stall` |
| the provider | `LateEffect`, `ParseEnds` |

Abstractions:

- *Delivery* is the contract of section 3. An unacknowledged message is handed
  out again and again, which includes a replayed dead letter; an identity has
  one holder at a time; a worker that stalled past its lease runs on, and fails
  at its next commit or check. Schedules play no part in these properties.
- *Terminal statuses.* All but `succeeded` are treated alike by the code, except
  that a retry of one of them needs `force`; they are one status `failed`.
- *The cursor* keeps what decisions depend on. The verified upload is a Boolean,
  since it is checked against the receipt of the identity; the deadline is
  `None`, `future` or `past`, like the timestamps of section 3; `ready_at`, the
  interval, the last run and the read error are left out.
- *Checks of identity, binding, scope and content* either pass or end in one of
  the error actions, which are enabled wherever such a check or a read stands.
  The journal's dataset operation guards only a read and is treated the same;
  `ArtifactFetch` and `IngestionBinding` (section 5) look inside these checks.
  Processing without a provider is a sequence of `MarkRunning` and a last commit.
- *The provider* has one document per identity (file names are derived from it).
  A request whose response is lost may take effect at any later time, or never.
- *What the ORM keeps until the next commit* (`save_execution`) is in the worker
  (`phase`) until the commit that writes it.

### Properties

- `UploadedOnce`: at most one upload request per identity, and none where the
  migration left a `legacy_unknown` marker.
- `IndexedParsed`: an indexed document stays parsed, whatever is still under way.
- `NeverAhead`: `process_ingestion_job` never meets a command ahead of the cursor.
- `Continues`: a job that is not terminal has an unacknowledged command at its
  cursor.
- `CursorOnlyAdvances`: generation, step, phase, upload and an expired deadline
  are never undone, but for a new generation.

## 5. What an ingestion takes from outside

`ArtifactFetch` is `artifact_content.py` with
`RAGFlowClient.verify_document_content`: one reference that pins place, version,
size, media type and digest; a store that is asked twice and may answer
differently each time, drop its versions, or send a body that is longer or
shorter than announced.

| Code | Action |
|---|---|
| `_resolve_artifact_ref`, first half of `_fetch_s3_object` | `CheckReference` |
| HEAD and `_verify_s3_headers`; GET and the same check | `AskHead`; `Get` |
| a chunk of the body under the two limits; the end of the body | `Arrive`; `Fetched` |
| the provider's copy: opened, streamed, compared | `OpenCopy`, `Arrive`, `Verified` |
| a status, a timeout, a broken connection | `Break` |
| somebody writes the key | `ReplaceObject` |

A body stands for its own digest: SHA-256 is taken to be injective.
`ContentRight` is the conjunction of its types, `Exact` (only the pinned content is
handed on, and the copy is confirmed only when it is the same, byte for byte),
`Kept` (what is held in memory stays within the declared size and the maximum)
and `FetchesWhatIsThere` (no check refuses the pinned content itself).

`IngestionBinding` is the path from an accepted job to the provider's dataset:
`Submit` copies the binding of the API's settings into the first history entry,
`AdminUpdate` appends to the history, `Begin` is `require_job_binding` in the
worker, which may run with other settings (`Deploy`); `Scope` compares the
journal row's scope, `Page` is one page of `find_datasets`, `Conclude` the checks
on what was found with `confirm`, `Fail` any error. `Create`, `Delete` and
`OtherTenant` are others at the provider.

- `BindingRight`: types; `BoundAsAccepted`, a job writes to the dataset and
  endpoint it was accepted for, under the journal's scope, whatever is deployed,
  appended or created under the same name; `NoneHidden`, a look-up that returns
  has seen every dataset of the name, unless a dataset was deleted while it went
  from page to page (section 11).
- `ReceiptKept`: a confirmed receipt is never replaced.

## 6. Access

`AuthSessions` is `auth_service.py` with its two stores and the user's row.

| Code | Action |
|---|---|
| `begin_login`; the authorization URL is built or the transaction deleted | `BeginLogin`; `Authorize` |
| `cancel_login` | `CancelLogin` |
| `complete_login`: the transaction is taken (GETDEL), then the state compared | `Callback` |
| the code is exchanged; the row upserted; the session stored | `Exchange`; `Upsert`; `StoreSession` |
| `get_browser_session` up to Redis' answer; from there on | `ReadSession`; `Judge` |
| `end_session` | `Logout` |
| a release with another policy version; time | `Deploy`; `AuthTick` |

- `SessionsRight`: types; `OneSession`, however many callbacks race with whatever
  state, at most one session comes of a transaction; `Confined`, who is let in
  logged in on that surface, from an organization it admits, under the policy of
  the instance that lets him in, with scopes the surface may give, although
  logins on both surfaces write one row and two policies serve side by side.
- `GrantedInTime`: nobody is let in at or after the end of his provider token,
  later than the session's lifetime after verification, or by a request that Redis is
  asked about once his logout was answered. A request is judged after Redis has
  answered it, so one that read the session before the logout's deletion is still
  let in; one such request at a time is followed, since all it leaves behind is a
  deletion.

`BrowserTabs` is the other side of those sessions: the tabs of one browser, which
share a cookie jar and send their requests independently, and the routes that set
and delete the cookies. A request carries the cookies of the moment it is sent; an
answer changes the jar when it arrives, whatever other answers did meanwhile.

| Code | Action |
|---|---|
| the pages: login and `/me`; the way back from the provider; an unsafe request | `Visit`; `ComeBack`; `Order` |
| `login`; `callback` with a code, with an error; `me` | `LoginRoute`; `CallbackRoute`, `ErrorRoute`; `MeRoute` |
| `_session` with `validate_csrf`; then the route's own work, or `end_session` | `Enter`; `Act` |
| Redis forgets a transaction or a session | `Expire` |
| an error no route expects, at any of these places | `Fail` |
| the browser applies an answer; a cookie ends | `Receive`; `DropCookie` |

A number stands for a random id and for the state and the CSRF token kept under it,
since each is drawn once and stored with the other. A callback is one step, because
`AuthSessions` shows that its transaction is taken at once and nobody knows the
session before its cookie arrives. A failure that a route does not expect (`Fail`) ends in a
500 or in no answer: no cookie is touched, the transaction's neither, while what had been
deleted from Redis stays deleted. Return addresses are left out.

- `CookiesRight`: types; `LoggedOutStays`, a session whose logout the browser was
  answered is neither in its jar nor in Redis, although answers to other tabs come
  late.
- `ActsAsShown`: what a page orders is let in only in the session the page shows, of
  its own surface and not logged out, although another tab has signed in anew.

`OidcKeys` is the two caches of `OidcProviderClient`, which have no lock: `Verify`
a token, `Look` at a cache or send a request, `Answer` (the provider's state when
it reads the request), `Save` (stamped with the time the request was sent); `Rotate` and
`Move` change the provider's keys and the address of its key set.

- `KeysRight`: types; `FairlyRefused`, a token is refused as invalid only if its
  key was missing from the key set at some moment of the verification.
- `KeysFollow`: `RetiredSoon`, an accepted key was published within the last cache
  life or the time of a fetch, although late answers overwrite newer ones;
  `MoveNoticed`, an address the provider has left is asked for one cache life and
  two fetches at most.

`TokenCache` is the token of downstream calls: `RequestJson` (a token at hand is
used without the lock), `Acquire` (behind the lock it looks again), `Issue`,
`Store`, `ReachTarget`. A token's life may be announced as it is, cut to the maximum, or not
at all, in which case the default stands for it, however long the token really lives.
`TokensRight`: types; `NeverRejected`, no request is turned away because its token ran out
on the way, but for a token that lives shorter than was announced or assumed, for a margin
that covers an exchange and a request; `NoNeedlessExchange`, no exchange while the stored
token may be used, and never two at once.

`KnowledgeMcp` is the MCP endpoint over its limiter: requests carry a token and a
batch (`Arrive`, which refuses those without a user), each message is handled in turn
(`Simple`, `UnknownTool`, `Forbidden`, `Limited`, `Admit`), only a tool's run is
awaited (`ToolDone`), then the response (`Respond`). A message whose `params` is no object
breaks its batch off with a 500 (`Broken`): the replies so far are not sent, what they
counted stays counted. `calls` is the deque of `RateLimiter`, one for each user and
sandbox, which tokens may share (section 11); the notifications a client may send, one of a
cancelled call among them, and messages that are no object get no reply. `CallsRight`: types; `WindowHolds`, no minute, both ends
included, sees more calls of a sandbox than its limit; `RefusedWhenFull`, nothing
else uses the window up; `AnomaliesCounted`; `BatchAnswered`, a reply for each
message that asks for one, in order.

## 7. Datasets and answers

`DatasetCatalog` cuts the code at its awaits: `Register`, `Commit`, `Abort` (the
transaction under the advisory lock); `Ask`, `Refresh`, `Load`, `Loaded`, `Fetched`
(a tool call's `resolve`), `ListEntry`, `Structure` (a page's `listing` and
`detail`); `CatalogTick`, which lets a read of the registry last `Latency` at most.

- `CatalogRight`: types; `RegistersCleanly`, no registration runs into a unique
  index and a dataset has one active version; `AnsweredTruly`, an answered
  registration is what the registry holds; `ServedFresh`, who is served a version
  asked less than a cache life and a read after it was last active.
- `NeverOlder`: concurrent refreshes never take the catalogue back.
- `PageMatches` (violated, section 11).

`DatasetFiles` has inodes as well as names, because a download writes through the
inode it opened: `Ensure`, `Look`, `Hash`, `Drop`, `OpenPartial` (which truncates),
`ReceivePiece`, `CheckDigest`, `Replace`, and the mishaps `BreakDownload`, `FillDisk` (an
`OSError` of the write, which leaves the partial file), `CrashFetchers`, `DamageFile`. The
default dataset is fetched under a lock, a registered one is not. `crowded` remembers the
fetchers whose call another one's overlapped.

- `FilesRight`: types; `LockedRight`, an undamaged cache shows the right content
  for the default dataset and for a single fetcher; `NoLitter`, failed downloads
  leave no file, unless the process died or the disk was full.
- `ReturnedRight`: a fetcher whose call no other one's overlapped is handed the pinned
  content, whatever was left unfinished, damaged or put together by two others before.
  Fetchers of a registered file that overlap may be handed a truncated one (section 11).
- `Heals`: with a single fetcher, a damaged or missing file of a registered dataset is
  replaced sooner or later.
- `CacheRight` (violated for registered datasets, section 11).

`SemanticCache` is `_prepared` and `convert`: `Describe`, `Digest`, `CheckRows`,
`Convert`, `CopyTable`, `Publish`, `Attach`; `CrashProcess`, `ReplaceSource`,
`DamageDb`. The code compares contents by their row counts, and two contents of the
instance have the same. A damaged database is what the code can tell: other numbers of rows.
`overtaken` remembers the processes under which the file was replaced between description
and conversion, or that found a database such a process had built. `SemanticRight`: types;
`ServedTrue`, a process answers from whole data of one content, and of the one it
described unless it was overtaken; `ServedCounted`, while the file is replaced once at most,
an overtaken process serves at least the row counts it described. `Settles`: every process
serves in the end.

`MetricQuery` is `semantic_metrics.py` and the query's execution: `RefuseQuery`,
`Run`, `TimeOut`, `QueryFails` over every table of three keys, also with keys that are not
unique and linked rows that match twice; DuckDB may return rows its `ORDER BY` does not
tell apart in any order, and `Normalize` turns a number that is not finite into None.
`MetricRight`: types; `Repeatable`, the same answer each time, where keys are unique and
links match one row at most (`UniqueKeys`, `OneMatch`); `OnePerRow`, each matching row once,
where links match one row at most, and what is left out admitted to; `Explained`, whatever
the data, a number exactly where its condition is known to hold, its inputs are there and it
is finite, and "not applicable" exactly where the condition is not known to hold. All other
absences are called missing, those of inputs that are there and give no finite number
included (section 11).

`Retrieval` is one request: `Refuse`, `ReadVersions`, `AskProvider`, `ProviderFails`,
then `_assemble_response` loop by loop: `MapChunk`, `AllMapped` (chunks of a version
that was read), `Place` (a chunk cut to what is left of the budget, or passed over),
`Respond`; and `VersionIndexed` for what ingestion stores meanwhile. The provider may
return any chunks and say that it has any of `Totals`. A piece of evidence names its
chunk by the place in the provider's answer. `RetrievalRight`: types; `CitedOpenly`, what is cited is current,
authorized, filtered and open to the tenant; `WithinBudget`; `NothingLeftOut`, an
answer not marked as truncated is complete.

## 8. Browser streams and probes

`WebInteraction` is a browser on a run's events: `GetRun`, `OpenStream`,
`OpenRejected`, `Send`, `ReceiveEvent`, `EndStream`, `BreakStream`, `Submit`.
`StreamRight`: types; `InOrderOnce`, wherever streams break, no event is lost,
repeated or out of order; `EndsComplete`, a stream that ended has brought them all.
`Followed`: a browser that read the run comes to the end of its stream.

`SchedulerActivity` is Beat's activity file and the command that reads it:
`Publish`, `TickReturns`, `Stamp`, `ReplaceFile`, `WriteFails`; the signals and the
machine (`Start`, `Stop`, `Continue`, `Kill`, `Reap`, `Tick`, `Suspend`, `Reboot`);
`Read` the file, then `CheckProcess`. `ReportsTrue`: types; `ActiveIsAlive`, "active" is said
of the very Beat that wrote the file, running, and in its loop recently;
`CountersGrow`; `NotMissed`, an undisturbed Beat is not reported unavailable.

`WorkerReadiness` is the worker's probe: `Start`, `Ask`, `Reply`, `Silence`,
`JudgeQueues`, `JudgeTasks`, `BrokerFails`, `ProbeTick`, `Kill`, beside workers that
change (`ChangeWorker`). `ProbeRight`: types; `ReadyWasTrue`, "ready" rests on two
moments since the probe began; `NoFalseAlarm`, a worker that is right throughout
is not reported unready. `Ends`: the probe ends, whatever the broker does.

## 9. Runs, bounds and fairness

| Run | Instance | Question |
|---|---|---|
| `DeliveryFaults` | 1 message; 2 workers under 1 pump with 2 faults, or 2 pumps and 1 worker with 1 fault and 1 replay; 2 attempts; the clock may slip; sent at once or later | `ExactlyOnce`, `NobodyElseReleases`, `ReleasedStaysReleased`, `AttemptsBounded`, `FencedCommits` |
| `DeliverySerial` | 2 messages on one resource, 1 pump, 2 workers, 1 attempt, 1 fault | `ImplementsContract` |
| `DeliveryLive` | 1 message, 1 pump, 2 workers, 2 attempts, 1 fault, which may be a clock set back, fair | `NothingLost` |
| `DeliveryGauges` | 1 message scheduled later, 1 pump, 1 worker, 1 fault, 2 scrapes | `GaugesRight` |
| `Ingestion` | 1 job, 2 workers, 3 faults; 1 job, 2 workers, 1 retry, 1 administrator update, 1 fault; 2 jobs of one identity, 1 worker, 2 faults | `TypeOK`, `UploadedOnce`, `Continues`, `NeverAhead`, `IndexedParsed`, `CursorOnlyAdvances` |
| `Progress` | files, semantic database, web stream, probe; fair | `FilesRight`, `ReturnedRight`, `Heals`, `SemanticRight`, `Settles`, `StreamRight`, `Followed`, `ProbeRight`, `Ends` |
| `Access` | sessions, browser tabs, key caches, downstream token, MCP calls | `SessionsRight`, `GrantedInTime`, `CookiesRight`, `ActsAsShown`, `KeysRight`, `KeysFollow`, `TokensRight`, `CallsRight` |
| `Answers` | catalogue, metric queries, retrieval | `CatalogRight`, `NeverOlder`, `MetricRight`, `RetrievalRight` |
| `Inputs` | content, binding, Beat's activity | `ContentRight`, `BindingRight`, `ReceiptKept`, `ReportsTrue` |
| `IngestionUncertain` | 1 job, 1 worker, 1 fault | violates `UncertainStaysOpen` |
| `DatasetShared` | 2 threads, 1 registered file, no mishap | violates `CacheRight` |
| `CatalogPage` | 1 reader of pages, 1 registration at a time | violates `PageMatches` |

*Parts.* `Progress`, `Access`, `Answers` and `Inputs` each hold several components
that share no state. A behaviour is one of a single `part`; the other parts stay at
one of their initial or final states, where their fairness asks for nothing. So
every behaviour of each component is checked, and none of their products. A part
may split a component by what happens in it (for instance "rotation" and "moving"
of `OidcKeys`), with a bound on each; the bounds are named in the `MC` modules and
hold in every state. `DeliveryFaults` and `Ingestion` use the same device: one
process, job or worker is `away` throughout.

*Joint invariants.* `FilesRight`, `CatalogRight` and the like are conjunctions of
named parts, stated next to their conjuncts, so that a counterexample names the
conjunct by evaluation.

*Bounds of delivery.* `MaxFaults` counts every crash, stall, lost or duplicated hint
and clock correction together; two are enough for the worst cases the code guards
against (a stalled owner and a crashed successor, a slip after a release).
`MaxReplays` bounds the operator. `PumpLimit` is the pump's `limit=100` cut to one,
so that a pump ends both by its limit and by finding nothing. `MaxAttempts` is
`max_attempts`, 10 in production, cut to one or two. Epochs and copies of hints need
no bound of their own: each new epoch consumes a hint, each hint a publication or a
fault. Two workers on one resource are every conflict a lease row can see; messages
of different resources share no row but the pump's, which works on one at a time.

*Bounds of ingestion.* A stale worker needs one stall and its successor; a lost
upload and a lost parse need two faults, a third adds a crash after either.
`MaxStep` counts the polls of a generation: one continuation exercises every
transition of the cursor, further polls repeat it. One retry makes an old and a new
generation. The administrator only sets the status `failed`: the code lets a
terminal job be set to any status, after which no message carries it on (section
11). One identity is enough since journal, document and lease are per identity.

*Other bounds.* Two readers, callbacks, callers or fetchers are every race two
unlocked steps can have; a third in the token's or the limiter's queue only waits
longer, and the proofs are for any number. Times to live are one or two ticks and a
latency one, so that a late answer is later than a life may end; clocks run on for
two or three lives. Two versions, one of them with two contents on offer, make every
registration new, repeated, conflicting or a return to the earlier one. Two pieces make a file
incomplete between two steps. Three contents of a dataset file, two of which have equal row
counts, make a replacement the code notices and one it does not. Three keys make a page of
two rows with one left over, and rows with equal labels; one of their values is not finite. Up to three chunks, one more than the versions that may
be cited, and budgets of one to five characters end an answer by each of its limits. Two tabs
of one frontend make four ids, enough for a second login beside a logout; one tab of
each frontend, taking turns at their requests, makes three. The number of each
mishap is bounded by name (`Uses`, `SemanticLimit`, `MaxBreaks`, `MaxReplaced`,
`MaxSuspends`, `MaxBoots`).

*Deadlock* is checked in the delivery runs (an idle pump can always start), and in
`DatasetShared` and `CatalogPage`. It is not checked elsewhere: a job is done, a
request answered, a bound reached, and the system of the instance stops.

*Symmetry* is used in runs without liveness only.

*Fairness.* Delivery (`FairSpec`): weak fairness of a pump's steps, since beat starts
a pump every five seconds and a process keeps running its own code; of a worker's
steps for the same reason, and strong fairness of `HandlerEnds`, since a handler
commits its own progress only finitely often before it ends one way or the other;
weak fairness of the timers, restricted to lapses that are not faults. `Progress`:
threads that run go on and datasets keep being asked for (`FilesFairness`,
`SemanticFairness`); the browser reopens its stream, as `EventSource` does, and the
server sends what it has (`WebFairness`); time passes and the parent kills its child
(`ProbeFairness`). Nothing is assumed of faults, of operators, of the broker, of
whether a handler succeeds, or of the provider.

## 10. Proofs

Eight modules hold proofs, each for every value of its constants under the named
assumption of the module it is about, which says no more than that the constants
have the types, and where stated the relation, that the code gives them.

`DurableTasks_proof` proves, for every set of messages, resources, pumps and
workers and every policy, everything the runs check of `Spec` except liveness:

| Theorem | Statement |
|---|---|
| `TypeCorrect` | `Spec => []TypeOK` |
| `ExactlyOnceHolds` | `Spec => []ExactlyOnce` |
| `NobodyElseReleasesHolds` | `Spec => []NobodyElseReleases` |
| `ReleasedHolds` | `Spec => []ReleasedStaysReleased` |
| `Fencing` | `Spec => FencedCommits` |
| `AttemptsBoundedHolds` | `Spec => []AttemptsBounded` |
| `Refinement` | `Spec => ImplementsContract` |
| `InductiveInvariant` | `Spec => []IInv` |

They rest on the two assumptions `MessageAssumption` and `PolicyAssumption` of
`DurableDelivery`, which say that the constants have the types the code gives
them. The argument: none of the safety properties is inductive. `EpochInv` says
that the epoch of an execution is never ahead of its lease row and that equal
epochs mean the same owner, so an old execution can be recognised; `OwnerInv`
says that an execution that still owns its row is working on an unacknowledged
message and is the only one that can have committed under its epoch; `GhostInv`
ties released and committed epochs to the row. A new lease gets an epoch nobody
has (`UpsertSafe`), a guarded commit is by the row's owner (`GuardedOwns`,
`CommitSafe`), a release touches only its own row (`ReleaseSafe`), and time,
heartbeats and clock corrections move nothing but deadlines (`DeadlinesMove`).
`AttemptInv` charges each attempt beyond the policy to a fault. The refinement
uses the same invariant: `CommitLast` is `Apply` because its message is not yet
acknowledged and its epoch is the newest.

`KnowledgeIngestion_proof`, for every set of jobs, identities and workers and every
bound:

| Theorem | Statement |
|---|---|
| `TypeCorrect` | `Spec => []TypeOK` |
| `UploadOnce` | `Spec => []UploadedOnce` |
| `CommandsBehind` | `Spec => []NeverAhead` |
| `CursorAdvances` | `Spec => CursorOnlyAdvances` |
| `JobsContinue` | `Spec => []Continues`, if administrators only end jobs |
| `IndexedStays` | `Spec => []IndexedParsed` |

Types are inductive together with `Busy` (a worker that executes has a message of
the outbox): `TypeInv`. `UploadInv` ties the journal to the requests made: an upload
is requested only by the worker that took the operation from `intent` to `executing`,
and no action leads back. `CursorInv` adds to `NeverAhead` that what a current worker
holds is not behind the cursor (`CursorHeld`), from which each commit advances it.
`ContinueInv` adds to `Continues` that a worker with the lease executes a message that
is not acknowledged, and acknowledges without a successor only an obsolete one. The assumption of
`JobsContinue` is the hazard at `knowledge_ingestion_service.py:284`: without it the
statement is false. `IndexedStays` needs to know of every request that may still take effect: `ParseInv`
says that uploads come before a document and that an identity has at most one parse
request under way, from the check of its worker to its last effect, which the journal
knows of; `IndexInv` says what the holder of the lease knows when it concludes that
a document is indexed, so that no request is left which would start parsing again.

The other modules, each by its part:

| About | Theorems | Inductive invariant and argument |
|---|---|---|
| `DeliveryObservation` | `GaugesKept`: `[]GaugesRight` | `ObserverInv`, over the `IInv` of the runtime: the place is taken exactly by the one scrape under way (`Placed`); what is still overdue or waiting since the snapshot was so in the snapshot (`Seen`), for time and every step of the runtime only take messages out of those sets |
| `ArtifactFetch` | `FetchRight`: `[]ContentRight` | `FetchInv`: what arrived and what is still to come make up one body; a request follows an acceptable reference; while the copy is verified they make up the provider's copy; unless something was replaced, that body is the pinned one |
| `IngestionBinding` | `TargetsRight`: `[]BindingRight`; `LookupComplete`: its `NoneHidden`; `ReceiptStays`: `ReceiptKept` | `BindingInv`: types; a job under way was accepted under the worker's settings, its look-up is at their endpoint and the journal row is of that scope; the first history entry never changes. `LookupInv`: while nothing is deleted, a dataset there since the start lies on a page that was read or on one still to come |
| `SchedulerActivity` | `ReportsKept`: `ReportsTrue` | `ActivityInv`: a writing goes from coming to lying, taken and told, each no less than the earlier ones, and belongs to the Beat that runs or to one that is gone; `QuietInv`: undisturbed, the file is as old as the last attempt to write it, which is never longer ago than a tick |
| `AuthSessions` | `SessionSafety`: `[]SessionsRight`; `SessionsEnd`: `GrantedInTime` | `AuthInv`: a transaction held by a handler, or that made a session, is gone from Redis and belongs to that handler or session alone; what was checked at the exchange is carried unchanged into the session; a session being judged was read before its logout |
| `BrowserTabs` | `LogoutKept`: `[]CookiesRight`; `OrdersAsShown`: `ActsAsShown` | `TabsInv`: a session's id is known to nobody before the answer that brings it; a logged-out session is known to no answer that would set its cookie; a request that was let in carries the session of its page |
| `OidcKeys` | `KeysKept`: `[]KeysRight`; `KeysCatchUp`: `KeysFollow` | `OidcInv`: a cached key was published at its stamp or later; an answer under way likewise, since its stamp is the sending of its request; an old address is not sent after a cache life and a fetch. It needs a fetch to be shorter than a cache life (10 s and 300 s by default) |
| `TokenCache` | `TokensKept`: `TokensRight` | `TokenInv`: the stored token's local end is at most one exchange later than its announced end; a token that was sent lasts, by its announcement, for the time of its request. It needs `Margin >= 2 * CallLatency` and tokens that live longer (section 11) |
| `KnowledgeMcp` | `CallsKept`: `CallsRight` | `McpInv`: the deque is an end of all admitted times, and what it dropped lies more than a minute back, so its length is the number of calls of the last minute; the replies of a request are those of the messages before the next; anomalies tally with refusals |
| `DatasetCatalog` | `CatalogServes`: `[]CatalogRight`; `NeverGoesBack`: `NeverOlder` | `CatalogInv`: a transaction that writes has read what the rows still say, because no other writes; the version known was active no longer than a read before `loadedAt`; a read under way is not behind the catalogue, because only one reader loads |
| `MetricQuery` | `MetricKept`: `[]MetricRight`, for every table; `Repeatable` and `OnePerRow` carry what they need of it (`UniqueKeys`, `OneMatch`) as hypotheses of their own, `Explained` needs neither | `MetricInv`: an answer is a refusal, a failure, or the page of an ordering. The substance is about orderings: of two rows one always comes ahead, since the order ends with both key columns (`AheadTotal`); two listings that respect such an order agree, because at the first place where they differ each would have the other's row later (`OneListing`) |
| `Retrieval` | `RetrievalKept`: `[]RetrievalRight` | `RetrievalInv`: `mapped` lists the chunks passed that belong to a version read; evidence comes of the mapped chunks passed, and is as long as they are only if it is all of them; what is left and the characters given make up the budget |
| `DatasetFiles` | `FilesKept`: `[]FilesRight`; `HandedRight`: `ReturnedRight` | `FilesInv`: a partial file that no crash and no full disk left has a fetcher that writes it; a fetcher not in `crowded` is the only one at work, so what it has received is what the partial file holds, whatever the file held when it opened it; where one fetcher at a time works (`Solo`), the final file is right unless it was damaged |
| `SemanticCache` | `ServedWhole`: `[]ServedTrue`; `DescribedServed`: `[]SemanticRight` if the file is replaced once at most | `WholeInv`: the tables copied into a file that is open are of the one content that was read into it, what is attached or served is whole, and until a process is overtaken all it noted is of one content; `CountedInv`: until the file is replaced there is no database but that of the present content, and what is copied, attached or served has the row counts that were described |
| `WebInteraction` | `StreamKept`: `[]StreamRight` | `StreamInv`: what the browser holds, what is on the wire and what the server has still to send are consecutive pieces of the run's events, and the browser's cursor stands at the end of the first |
| `WorkerReadiness` | `ProbeTrue`: `[]ProbeRight` | `ProbeInv`: an answer still to be judged is that of a moment since the probe began, and that of a worker right throughout is the right one, given without loss of time |

Two facts of data are proved from the library's theorems rather than by an
induction of our own: a set of naturals has a least member (`LeastMember`, from the
well-foundedness of `<`), and a finite set that grows by one member grows by one
(`FS_AddElement`); what needs a recursion over a sequence is avoided by models that
go through it step by step, as the code does.

Every safety property that a passing run checks is stated by one of these theorems.
Only model-checked: liveness under fairness (`NothingLost`, `Heals`, `Settles`,
`Followed`, `Ends`), which is outside what the prover does.

## 11. Disagreements and remarks

Three runs show a disagreement of the code with its documentation.

- `IngestionUncertain`: `docs/ingestion-polling.md:51-52` says that an uncertain side
  effect makes the job `reconciliation_required` and writes no inbox row. When the
  deadline cuts off the parse request itself, `asyncio.timeout` raises `TimeoutError`,
  which the clause for provider errors does not catch; the job ends as
  `ragflow_parse_failed` and its message is acknowledged while the operation is still
  `executing`. A retry is then refused by `CheckParse` for as long as the document
  stays unparsed.
- `DatasetShared`: `dataset_store.py:142` says that a file in the cache either does not
  exist or is the right one. Two threads that fetch one object at once share the name
  of the partial file, and the digest checked is that of the bytes received, so a
  truncated file can stand under the final name while the second download goes on.
  `ensure` hashes what it finds and would replace it later.
- `CatalogPage`: the comment at `dataset_pages.py:28` says that a structure is
  remembered by dataset and version. The version is taken from the list, the
  structure from a catalogue that may have been refreshed since, so the new
  structure is remembered under the old version.

Met while modelling, and shown by no run:

- An administrator may set a terminal job back to a status that is not terminal
  (`knowledge_ingestion_service.py:284`); its messages are acknowledged and nothing
  carries it on. `JobsContinue` excludes it by its assumption.
- `find_datasets` (`ragflow.py:156`) misses a dataset that moves to an earlier page when
  another is deleted between two pages; its caller only accepts the identified
  dataset, so no wrong one is taken. `NoneHidden` therefore asks for no deletion.
- The head of `knowbase_mcp.py` says (line 7) that the calls of each token per minute are
  limited, and `test_rate_limit_per_token` (`tests/test_knowledge_mcp.py:235`) is named
  after it; the code's window is that of a user's sandbox (`knowbase_mcp.py:351`). Two tokens
  of one sandbox share it: the one is put off because of the other's calls. `WindowHolds`
  and `RefusedWhenFull` state what the code does, and the instance has two such tokens.
- Fetchers of a registered dataset have no lock, so those that overlap may be handed the
  path of a truncated or mixed file; `DatasetShared` shows how one comes about.
  `ReturnedRight`, `LockedRight` and `Heals` say for whom they hold.
- A full disk ends a download with an `OSError` that `fetch_pinned_object` does not catch
  (`dataset_store.py:125`); the partial file stays until the next download truncates it.
- `_prepared` and `convert` compare row counts and nothing else (`dataset.py:53`,
  `duckdb_store.py:98`). If the dataset file is replaced between `_digest` and `convert`
  (`dataset.py:95-99`) by one with the same counts, the new content is published under the
  digest of the old one, and served there by every process that finds it, until its counts
  are found wrong. Two replacements during one preparation, and damage that leaves the
  counts, go as unnoticed. `ServedTrue` excepts exactly the processes this happens to, and no
  others; `ServedWhole` shows that they still serve whole data of one content.
- `normalize` (`duckdb_store.py:115`) turns infinities and NaN into None, and `shape`
  (`semantic_metrics.py:352`) explains every None whose condition holds by a missing
  input: a quotient by 0 is reported so although all its inputs are there. `Explained`
  says so.
- A linked table with two matching rows would make `build_query` list a row of the base
  table twice (`semantic_metrics.py:297`), against its docstring at `:236`, and rows of one
  key would leave their order to DuckDB. Links must be declared one-to-one or many-to-one
  (`domain/semantic.py:165`) and keys name a row, but no data is checked against either.
  The instance of `MetricQuery` has such tables, too; `Repeatable` and `OnePerRow` carry
  what they need as hypotheses.
- The life of a downstream token that the provider does not announce is taken to be 300
  seconds (`downstream_service.py:87-89`); a token that lives shorter is rejected on the way.
  Nor does any code relate the margin of 30 seconds to the timeouts of an exchange and a
  request: `Margin >= 2 * CallLatency` holds of the defaults.
- A session that Redis has handed to a request is used by it, even if a logout deletes it
  before the request goes on (`auth_service.py:313`).
- A decoded chunk is in memory before its length is added to what was received and
  compared with the limits (`artifact_content.py:150-154`): `Kept` bounds what is collected.
- `delete_cookie` goes by name (`web/auth.py:147`): an answer to a logout that arrives
  late deletes the cookie of a session that another tab opened meanwhile, and two tabs
  that log in side by side use up each other's transaction, so that one of them starts
  anew. `LoggedOutStays` and `ActsAsShown` hold none the less.
- In `DeliveryObservation` a lease that lapses between snapshot and query moves its
  message from executing to publishable; the gauges still miss nothing.
- `docs/scheduler-activity.md:22` relates the age to the last return of Beat's loop; the
  code takes the time of a snapshot when it writes it, after the tick has returned.
  `ActiveIsAlive` speaks of the later moment.
- A browser's `EventSource` that was opened with `last_event_id` in its address sends
  that again on each reconnection, beside a `Last-Event-ID` header that has moved on;
  two cursors that differ are refused (`interactions.py:85`). In `WebInteraction` the
  browser sends one of them, or both alike, when it resumes.

## 12. What is not modelled

- *Semantic layer*: the grammar of free SQL (`semantic_guard`) and Wren's planner work
  on text; `dataset_query` and `sqlite_queries` build statements and read; neither
  keeps a state.
- *HTTP surface*: routing, schema validation, error mapping and the middleware but for
  the session dependency (`BrowserTabs`); return addresses of a login; the signature
  of S3 requests.
- *Service identity*: the checks of a caller's claims (`ServiceAuth`,
  `service_identity`) are conjunctions over one token, without state.
- *Web interactions*: the source page of a citation. The provider behind them is
  the reference one of the repository.
- *Outbox repository*: `claim_batch`, `mark_published` and `mark_failed` of
  `SqlOutboxRepository` are called by no code of the application: the pump uses
  `DurableDelivery`'s own statements.
- *Provider client*: `check_ragflow_config`.
- *Configuration, storage clients, logging, migrations, provisioning and build
  scripts, schema readiness, cross-application checks*: run once, sequentially, at
  start-up or by hand.
