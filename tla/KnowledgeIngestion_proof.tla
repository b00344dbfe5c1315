----------------------- MODULE KnowledgeIngestion_proof -----------------------
(***************************************************************************)
(* Machine-checked proofs about KnowledgeIngestion, for every set of jobs, *)
(* identities and workers and every bound.                                 *)
(***************************************************************************)
EXTENDS KnowledgeIngestion, TLAPS

USE JobAssumption, BoundAssumption, AdminAssumption

(* A worker that executes has a message of the outbox. *)
Busy == \A w \in Worker : worker[w].pc # "idle" => worker[w].message \in sent

(* Types and Busy are inductive together. *)
TypeInv == TypeOK /\ Busy

-----------------------------------------------------------------------------
(* What a step does to the worker that takes it. *)

(* The worker w stays in its handler, with its message. *)
Moves(w) ==
    /\ worker' \in [Worker -> WorkerState]
    /\ worker'[w].message = worker[w].message
    /\ worker'[w].pc \in Step \ {"load"}
    /\ \A v \in Worker \ {w} : worker'[v] = worker[v]

(* The worker w is idle afterwards. *)
Leaves(w) ==
    /\ worker' \in [Worker -> WorkerState]
    /\ worker'[w] = Idle
    /\ \A v \in Worker \ {w} : worker'[v] = worker[v]
    /\ holder' \in [Identity -> Worker \cup {None}]
    /\ \A v \in Worker \ {w}, i \in Identity : holder'[i] = v <=> holder[i] = v

(* The steps of the handler that do not end it. *)
Internal(w) ==
    \/ LoadObsolete(w) \/ LoadJob(w) \/ MarkRunning(w)
    \/ TimedOut(w) \/ Error(w) \/ ReadFailed(w) \/ Ambiguous(w)
    \/ UploadIntent(w) \/ UploadKnown(w) \/ FindDocument(w)
    \/ ClaimUpload(w) \/ AssertUpload(w) \/ UploadDocument(w)
    \/ UploadUnknown(w) \/ ConfirmUpload(w)
    \/ PlanParse(w) \/ PlanPoll(w) \/ LookAtDocument(w) \/ CheckParse(w)
    \/ ClaimParse(w) \/ AssertParse(w) \/ ParseDocument(w)
    \/ ParseUnknown(w) \/ ConfirmParse(w) \/ Observe(w) \/ Conclude(w)

(* The commits that end it. *)
Commit(w) ==
    \/ Reconcile(w) \/ AckObsolete(w) \/ FailJob(w) \/ SchedulePoll(w)
    \/ CompleteIngestion(w)

(* A busy worker has a well-typed message. *)
LEMMA BusyMessage ==
    ASSUME TypeInv, NEW w \in Worker, worker[w].pc # "idle"
    PROVE  /\ worker[w].message \in Message
           /\ worker[w].message \in sent
           /\ JobOf(w) \in Job
           /\ GenerationOf(w) \in Generation
           /\ StepOf(w) \in 0 .. MaxStep
           /\ IdOf(w) \in Identity
<1>1. worker[w].message \in sent
  BY DEF TypeInv, Busy
<1>2. worker[w].message \in Message
  BY <1>1 DEF TypeInv, TypeOK
<1>3. QED BY <1>1, <1>2 DEF Message, JobOf, GenerationOf, StepOf, IdOf

(* Go moves the worker and changes nothing but its pc. *)
LEMMA GoMoves ==
    ASSUME TypeOK, NEW w \in Worker, NEW pc \in Step \ {"load"}, Go(w, pc)
    PROVE  /\ Moves(w) /\ worker'[w].pc = pc
           /\ worker'[w].phase = worker[w].phase
<1>1. worker[w] \in WorkerState
  BY DEF TypeOK
<1>2. worker' = [worker EXCEPT ![w] = [worker[w] EXCEPT !.pc = pc]]
  BY <1>1 DEF Go, WorkerState, TypeOK
<1>3. [worker[w] EXCEPT !.pc = pc] \in WorkerState
  BY <1>1 DEF WorkerState
<1>4. QED BY <1>1, <1>2, <1>3 DEF Moves, TypeOK, WorkerState

(* Leave leaves. *)
LEMMA LeaveLeaves ==
    ASSUME TypeInv, NEW w \in Worker, worker[w].pc # "idle", Leave(w)
    PROVE  Leaves(w)
<1>1. Idle \in WorkerState
  BY DEF Idle, WorkerState, Run
<1>2. IdOf(w) \in Identity
  BY BusyMessage
<1>3. holder \in [Identity -> Worker \cup {None}] /\ worker \in [Worker -> WorkerState]
  BY DEF TypeInv, TypeOK
<1>4. holder' = [holder EXCEPT ![IdOf(w)] = IF @ = w THEN None ELSE @]
  BY DEF Leave
<1>5. worker' = [worker EXCEPT ![w] = Idle]
  BY DEF Leave
<1>6. holder' \in [Identity -> Worker \cup {None}]
  BY <1>2, <1>3, <1>4
<1>7. \A v \in Worker \ {w}, i \in Identity : holder'[i] = v <=> holder[i] = v
  BY <1>2, <1>3, <1>4
<1>8. QED BY <1>1, <1>3, <1>5, <1>6, <1>7 DEF Leaves

(* Every internal step moves its worker and leaves messages and leases. *)
LEMMA InternalMoves ==
    ASSUME TypeInv, NEW w \in Worker, Internal(w)
    PROVE  /\ Moves(w)
           /\ worker[w].pc \in Step
           /\ UNCHANGED <<sent, inbox, holder, indexed, admin>>
<1>0. TypeOK
  BY DEF TypeInv
<1>1. CASE LoadObsolete(w) \/ MarkRunning(w) \/ TimedOut(w) \/ Error(w)
           \/ ReadFailed(w) \/ Ambiguous(w) \/ UploadIntent(w) \/ UploadKnown(w)
  BY <1>0, <1>1, GoMoves
  DEF LoadObsolete, MarkRunning, TimedOut, Error, ReadFailed, Ambiguous,
      UploadIntent, UploadKnown, Step, Final, At, tables, provider, bounds
<1>2. CASE FindDocument(w) \/ ClaimUpload(w) \/ AssertUpload(w)
           \/ UploadDocument(w) \/ UploadUnknown(w) \/ ConfirmUpload(w)
  BY <1>0, <1>2, GoMoves
  DEF FindDocument, ClaimUpload, AssertUpload, UploadDocument, UploadUnknown,
      ConfirmUpload, Step, Final, At, tables, provider, bounds
<1>3. CASE PlanParse(w) \/ PlanPoll(w) \/ CheckParse(w) \/ ClaimParse(w)
           \/ AssertParse(w) \/ ParseDocument(w) \/ ParseUnknown(w)
  BY <1>0, <1>3, GoMoves
  DEF PlanParse, PlanPoll, CheckParse, ClaimParse, AssertParse, ParseDocument,
      ParseUnknown, Step, Final, At, tables, provider, bounds
<1>4. CASE Conclude(w)
  <2>1. worker[w].run \in Run
    BY <1>0 DEF TypeOK, WorkerState
  <2>2. \E pc \in Step \ {"load"} : Go(w, pc)
    BY <2>1, <1>4 DEF Conclude, Run, Step, Final
  <2>3. QED BY <1>0, <1>4, <2>2, GoMoves
        DEF Conclude, At, Step, tables, provider, bounds
<1>5. CASE LoadJob(w)
  <2>1. JobOf(w) \in Job
    BY <1>5, BusyMessage DEF LoadJob, At
  <2>2. worker[w] \in WorkerState /\ job[JobOf(w)].phase \in {"prepare", "poll"}
    BY <1>0, <2>1 DEF TypeOK, JobRow
  <2> DEFINE next == [worker[w] EXCEPT
                        !.pc = IF job[JobOf(w)].status = "running"
                               THEN "provide" ELSE "begin",
                        !.phase = job[JobOf(w)].phase]
  <2>3. worker' = [worker EXCEPT ![w] = next]
    BY <1>0, <1>5, <2>2 DEF LoadJob, TypeOK, WorkerState
  <2>4. next \in WorkerState
    BY <2>2 DEF WorkerState, Step, Final
  <2>5. worker \in [Worker -> WorkerState] /\ worker[w].pc = "load" /\ "load" \in Step
    BY <1>0, <1>5 DEF LoadJob, TypeOK, At, Step
  <2>6. next.message = worker[w].message /\ next.pc \in Step \ {"load"}
    BY <2>2 DEF WorkerState, Step, Final
  <2> HIDE DEF next
  <2>7. Moves(w)
    BY <2>3, <2>4, <2>5, <2>6 DEF Moves
  <2>8. UNCHANGED <<sent, inbox, holder, indexed, admin>>
    BY <1>5 DEF LoadJob, tables, provider, bounds
  <2>9. QED BY <2>5, <2>7, <2>8
<1>6. CASE LookAtDocument(w) \/ Observe(w)
  <2>1. IdOf(w) \in Identity
    BY <1>6, BusyMessage DEF LookAtDocument, Observe, At
  <2>2. worker[w] \in WorkerState /\ doc[IdOf(w)] \in Run
    BY <1>0, <1>6, <2>1 DEF TypeOK, LookAtDocument, Observe
  <2>3. PICK pc \in {"checkParse", "adopt", "conclude"} :
            worker' = [worker EXCEPT ![w].run = doc[IdOf(w)], ![w].pc = pc]
    BY <1>6 DEF LookAtDocument, Observe
  <2> DEFINE next == [worker[w] EXCEPT !.run = doc[IdOf(w)], !.pc = pc]
  <2>4. worker' = [worker EXCEPT ![w] = next]
    BY <1>0, <2>2, <2>3 DEF TypeOK, WorkerState
  <2>5. next \in WorkerState
    BY <2>2 DEF WorkerState, Step, Final
  <2>6. QED BY <1>0, <1>6, <2>2, <2>4, <2>5
        DEF LookAtDocument, Observe, Moves, TypeOK, WorkerState, Step, Final,
            At, tables, provider, bounds
<1>7. CASE ConfirmParse(w)
  <2>1. worker[w] \in WorkerState
    BY <1>0 DEF TypeOK
  <2>2. PICK pc \in {"conclude", "observe"} :
            worker' = [worker EXCEPT ![w] = [worker[w] EXCEPT !.phase = "poll",
                                                              !.pc = pc]]
    BY <1>0, <1>7, <2>1 DEF ConfirmParse, TypeOK, WorkerState
  <2>3. [worker[w] EXCEPT !.phase = "poll", !.pc = pc] \in WorkerState
    BY <2>1 DEF WorkerState, Step, Final
  <2>4. QED BY <1>0, <1>7, <2>1, <2>2, <2>3
        DEF ConfirmParse, Moves, TypeOK, WorkerState, Step, Final, provider, bounds
<1>8. QED BY <1>1, <1>2, <1>3, <1>4, <1>5, <1>6, <1>7 DEF Internal

(* Every commit ends the handler of its worker. *)
LEMMA CommitLeaves ==
    ASSUME TypeInv, NEW w \in Worker, Commit(w)
    PROVE  /\ Leaves(w)
           /\ worker[w].pc \in Step \ {"load"}
           /\ UNCHANGED <<uploadOp, parseOp, provider, bounds>>
<1>1. worker[w].pc \in Step \ {"load"}
  BY DEF Commit, Reconcile, AckObsolete, FailJob, SchedulePoll,
         CompleteIngestion, Step, Final, At
<1>2. Leave(w)
  BY DEF Commit, Reconcile, AckObsolete, FailJob, SchedulePoll,
         CompleteIngestion
<1>3. Leaves(w)
  BY <1>1, <1>2, LeaveLeaves DEF Step, Final
<1>4. UNCHANGED <<uploadOp, parseOp, provider, bounds>>
  BY DEF Commit, Reconcile, AckObsolete, FailJob, SchedulePoll,
         CompleteIngestion
<1>5. QED BY <1>1, <1>3, <1>4

-----------------------------------------------------------------------------
(* TypeInv is inductive. *)

(* The empty tables and idle workers are well typed. *)
LEMMA InitType == Init => TypeInv
<1> SUFFICES ASSUME Init PROVE TypeInv
  OBVIOUS
<1>1. AbsentJob \in JobRow
  BY DEF AbsentJob, JobRow, Status, Terminal, Generation
<1>2. Idle \in WorkerState
  BY DEF Idle, WorkerState, Run
<1>3. TypeOK
  BY <1>1, <1>2 DEF Init, TypeOK, Operation
<1>4. Busy
  BY DEF Init, Busy, Idle
<1>5. QED BY <1>3, <1>4 DEF TypeInv

(* The rows that requests and last commits save are well typed. *)
LEMMA RowTypes ==
    ASSUME NEW row \in JobRow, NEW status \in Status
    PROVE  /\ row.generation < MaxGeneration => NewGeneration(row) \in JobRow
           /\ [row EXCEPT !.status = status] \in JobRow
           /\ \A phase \in {"prepare", "poll"} :
                 [row EXCEPT !.status = status, !.phase = phase] \in JobRow
           /\ [row EXCEPT !.deadline = "past"] \in JobRow
<1>1. ASSUME row.generation < MaxGeneration PROVE NewGeneration(row) \in JobRow
  <2>1. row.generation + 1 \in Generation
    BY <1>1 DEF Generation, JobRow
  <2>2. AbsentJob \in JobRow
    BY DEF AbsentJob, JobRow, Status, Terminal, Generation
  <2>3. row.upload \in BOOLEAN
    BY DEF JobRow
  <2>4. \A old \in JobRow, up \in BOOLEAN, g \in Generation :
          [old EXCEPT !.status = "accepted", !.generation = g, !.upload = up] \in JobRow
    BY DEF JobRow, Status
  <2>5. QED BY <2>1, <2>2, <2>3, <2>4 DEF NewGeneration
<1>2. [row EXCEPT !.status = status] \in JobRow
  BY DEF JobRow
<1>3. ASSUME NEW phase \in {"prepare", "poll"}
      PROVE  [row EXCEPT !.status = status, !.phase = phase] \in JobRow
  BY DEF JobRow
<1>4. [row EXCEPT !.deadline = "past"] \in JobRow
  BY DEF JobRow
<1>5. QED BY <1>1, <1>2, <1>3, <1>4

(* The cursors the handler saves are well typed. *)
LEMMA CursorTypes ==
    ASSUME NEW row \in JobRow, NEW m \in Message, NEW phase \in {"prepare", "poll"}
    PROVE  /\ Planned(row, m) \in JobRow
           /\ m.step < MaxStep => Following(row, m, phase) \in JobRow
<1>1. /\ row.generation \in Generation /\ m.generation \in Generation
      /\ row.step \in 0 .. MaxStep /\ m.step \in 0 .. MaxStep
  BY DEF JobRow, Message
<1>2. Planned(row, m) \in JobRow
  BY <1>1 DEF Planned, JobRow
<1>3. ASSUME m.step < MaxStep PROVE Following(row, m, phase) \in JobRow
  <2>1. m.step + 1 \in 0 .. MaxStep
    BY <1>1, <1>3
  <2>2. QED BY <1>1, <2>1 DEF Following, JobRow
<1>4. QED BY <1>2, <1>3

(* What an internal step saves is well typed. *)
LEMMA InternalTables ==
    ASSUME TypeInv, NEW w \in Worker, Internal(w)
    PROVE  /\ job' \in [Job -> JobRow]
           /\ uploadOp' \in [Identity -> Operation \cup {"legacy_unknown"}]
           /\ parseOp' \in [Job -> [Generation -> Operation]]
           /\ doc' \in [Identity -> Run \cup {"absent"}]
           /\ inFlight' \in SUBSET ({"upload", "parse"} \X Identity)
           /\ uploads' \in [Identity -> Nat]
           /\ faults' \in 0 .. MaxFaults
<1>1. TypeOK /\ worker[w].pc # "idle"
  BY InternalMoves DEF TypeInv, Step, Final
<1>2. /\ worker[w].message \in Message
      /\ JobOf(w) \in Job /\ GenerationOf(w) \in Generation /\ IdOf(w) \in Identity
  BY <1>1, BusyMessage
<1>3. /\ job[JobOf(w)] \in JobRow /\ ParseOp(w) \in Operation
      /\ uploadOp[IdOf(w)] \in Operation \cup {"legacy_unknown"}
  BY <1>1, <1>2 DEF TypeOK, ParseOp
<1>4. job' \in [Job -> JobRow]
  <2>1. CASE MarkRunning(w)
    <3>1. [job[JobOf(w)] EXCEPT !.status = "running"] \in JobRow
      BY <1>3 DEF JobRow, Status
    <3>2. job' = [job EXCEPT ![JobOf(w)] = [job[JobOf(w)] EXCEPT !.status = "running"]]
      BY <1>1, <1>2, <1>3, <2>1 DEF MarkRunning, TypeOK
    <3>3. QED BY <1>1, <1>2, <3>1, <3>2 DEF TypeOK
  <2>2. CASE PlanParse(w)
    <3>1. Planned(job[JobOf(w)], worker[w].message) \in JobRow
      BY <1>2, <1>3, CursorTypes
    <3>2. QED BY <1>1, <1>2, <2>2, <3>1 DEF PlanParse, TypeOK
  <2>3. CASE UNCHANGED job
    BY <1>1, <2>3 DEF TypeOK
  <2>4. UNCHANGED job \/ MarkRunning(w) \/ PlanParse(w)
    BY DEF Internal, LoadObsolete, LoadJob, TimedOut, Error, ReadFailed,
           Ambiguous, UploadIntent, UploadKnown, FindDocument, ClaimUpload,
           AssertUpload, UploadDocument, UploadUnknown, ConfirmUpload,
           PlanPoll, LookAtDocument, CheckParse, ClaimParse, AssertParse,
           ParseDocument, ParseUnknown, ConfirmParse, Observe, Conclude, tables
  <2>5. QED BY <2>1, <2>2, <2>3, <2>4
<1>5. \/ UNCHANGED uploadOp
      \/ \E state \in Operation \cup {"legacy_unknown"} :
            uploadOp' = [uploadOp EXCEPT ![IdOf(w)] = state]
  <2>1. CASE UploadIntent(w)
    BY <1>1, <1>2, <1>3, <2>1 DEF UploadIntent, Operation, TypeOK
  <2>2. CASE ClaimUpload(w)
    BY <2>2 DEF ClaimUpload, Operation
  <2>3. CASE UploadUnknown(w)
    BY <1>1, <1>2, <1>3, <2>3 DEF UploadUnknown, Unresolved, Operation, TypeOK
  <2>4. CASE ConfirmUpload(w)
    BY <2>4 DEF ConfirmUpload, Operation
  <2>5. QED
    BY <2>1, <2>2, <2>3, <2>4
    DEF Internal, LoadObsolete, LoadJob, MarkRunning, TimedOut, Error, ReadFailed,
        Ambiguous, UploadKnown, FindDocument, AssertUpload, UploadDocument,
        PlanParse, PlanPoll, LookAtDocument, CheckParse, ClaimParse, AssertParse,
        ParseDocument, ParseUnknown, ConfirmParse, Observe, Conclude, tables
<1>6. \/ UNCHANGED parseOp
      \/ \E state \in Operation :
            parseOp' = [parseOp EXCEPT ![JobOf(w)][GenerationOf(w)] = state]
  <2>1. CASE PlanParse(w)
    BY <1>3, <2>1 DEF PlanParse, SetParseOp, Operation
  <2>2. CASE ClaimParse(w)
    BY <2>2 DEF ClaimParse, SetParseOp, Operation
  <2>3. CASE ParseUnknown(w)
    BY <1>3, <2>3 DEF ParseUnknown, SetParseOp, Unresolved, Operation
  <2>4. CASE ConfirmParse(w)
    BY <2>4 DEF ConfirmParse, SetParseOp, Operation
  <2>5. QED
    BY <2>1, <2>2, <2>3, <2>4
    DEF Internal, LoadObsolete, LoadJob, MarkRunning, TimedOut, Error, ReadFailed,
        Ambiguous, UploadIntent, UploadKnown, FindDocument, ClaimUpload,
        AssertUpload, UploadDocument, UploadUnknown, ConfirmUpload, PlanPoll,
        LookAtDocument, CheckParse, AssertParse, ParseDocument, Observe,
        Conclude, tables
<1>7. uploadOp' \in [Identity -> Operation \cup {"legacy_unknown"}]
  BY <1>1, <1>2, <1>5 DEF TypeOK
<1>8. parseOp' \in [Job -> [Generation -> Operation]]
  <2>1. CASE UNCHANGED parseOp
    BY <1>1, <2>1 DEF TypeOK
  <2>2. ASSUME NEW state \in Operation,
               parseOp' = [parseOp EXCEPT ![JobOf(w)][GenerationOf(w)] = state]
        PROVE  parseOp' \in [Job -> [Generation -> Operation]]
    <3> DEFINE ops == [parseOp[JobOf(w)] EXCEPT ![GenerationOf(w)] = state]
    <3>1. ops \in [Generation -> Operation]
      BY <1>1, <1>2 DEF TypeOK
    <3>2. parseOp' = [parseOp EXCEPT ![JobOf(w)] = ops]
      BY <2>2
    <3>3. QED BY <1>1, <3>1, <3>2 DEF TypeOK
  <2>3. QED BY <1>6, <2>1, <2>2
<1>9. /\ doc' \in [Identity -> Run \cup {"absent"}]
      /\ inFlight' \in SUBSET ({"upload", "parse"} \X Identity)
      /\ uploads' \in [Identity -> Nat]
      /\ faults' \in 0 .. MaxFaults
  <2>1. CASE UploadDocument(w)
    BY <1>1, <1>2, <2>1 DEF UploadDocument, TypeOK, Fault, Run
  <2>2. CASE ParseDocument(w)
    BY <1>1, <1>2, <2>2 DEF ParseDocument, TypeOK, Fault, Run
  <2>3. CASE UNCHANGED <<doc, inFlight, uploads, faults>>
    BY <1>1, <2>3 DEF TypeOK
  <2>4. QED
    BY <2>1, <2>2, <2>3
    DEF Internal, LoadObsolete, LoadJob, MarkRunning, TimedOut, Error, ReadFailed,
        Ambiguous, UploadIntent, UploadKnown, FindDocument, ClaimUpload,
        AssertUpload, UploadUnknown, ConfirmUpload, PlanParse, PlanPoll,
        LookAtDocument, CheckParse, ClaimParse, AssertParse, ParseUnknown,
        ConfirmParse, Observe, Conclude, provider, bounds
<1>10. QED BY <1>4, <1>7, <1>8, <1>9

(* The row a commit saves, the successor it enqueues, what it acknowledges. *)
LEMMA CommitTables ==
    ASSUME TypeInv, NEW w \in Worker, Commit(w)
    PROVE  /\ job' \in [Job -> JobRow]
           /\ sent' \in SUBSET Message
           /\ sent \subseteq sent'
           /\ inbox' \in SUBSET (inbox \cup {worker[w].message})
           /\ inbox \subseteq inbox'
           /\ indexed' \in SUBSET Identity
<1>1. TypeOK /\ worker[w].pc # "idle"
  BY CommitLeaves DEF TypeInv, Step, Final
<1>2. /\ worker[w].message \in Message
      /\ JobOf(w) \in Job /\ GenerationOf(w) \in Generation /\ IdOf(w) \in Identity
      /\ StepOf(w) \in 0 .. MaxStep
  BY <1>1, BusyMessage
<1>3. job[JobOf(w)] \in JobRow /\ worker[w].phase \in {"prepare", "poll"}
  BY <1>1, <1>2 DEF TypeOK, WorkerState
<1>4. ASSUME NEW status \in Status, End(w, status)
      PROVE  job' \in [Job -> JobRow]
  <2>1. job' = [job EXCEPT ![JobOf(w)] = [job[JobOf(w)] EXCEPT
                              !.status = status, !.phase = worker[w].phase]]
    BY <1>1, <1>2, <1>3, <1>4 DEF End, TypeOK
  <2>2. [job[JobOf(w)] EXCEPT !.status = status, !.phase = worker[w].phase] \in JobRow
    BY <1>1, <1>2, <1>3, RowTypes
  <2>3. QED BY <1>1, <1>2, <2>1, <2>2 DEF TypeOK
<1>5. job' \in [Job -> JobRow]
  <2>1. CASE Reconcile(w) \/ FailJob(w) \/ CompleteIngestion(w)
    BY <1>4, <2>1 DEF Reconcile, FailJob, CompleteIngestion, Status, Terminal
  <2>2. CASE AckObsolete(w)
    BY <1>1, <2>2 DEF AckObsolete, TypeOK
  <2>3. CASE SchedulePoll(w) /\ Overdue(w)
    BY <1>4, <2>3 DEF SchedulePoll, Status, Terminal
  <2>4. CASE SchedulePoll(w) /\ ~Overdue(w)
    <3>1. Following(job[JobOf(w)], worker[w].message, worker[w].phase) \in JobRow
      BY <1>2, <1>3, <2>4, CursorTypes DEF SchedulePoll, StepOf
    <3>2. QED BY <1>1, <1>2, <2>4, <3>1 DEF SchedulePoll, TypeOK
  <2>5. QED BY <2>1, <2>2, <2>3, <2>4 DEF Commit
<1>6. sent' \in SUBSET Message /\ sent \subseteq sent'
  <2>1. CASE SchedulePoll(w) /\ ~Overdue(w)
    <3>1. StepOf(w) + 1 \in 0 .. MaxStep
      BY <1>2, <2>1 DEF SchedulePoll
    <3>2. Command(JobOf(w), GenerationOf(w), StepOf(w) + 1) \in Message
      BY <1>2, <3>1 DEF Command, Message
    <3>3. QED BY <1>1, <2>1, <3>2 DEF SchedulePoll, TypeOK
  <2>2. CASE UNCHANGED sent
    BY <1>1, <2>2 DEF TypeOK
  <2>3. QED BY <2>1, <2>2
        DEF Commit, Reconcile, FailJob, CompleteIngestion, AckObsolete, SchedulePoll
<1>7. inbox' \in SUBSET (inbox \cup {worker[w].message}) /\ inbox \subseteq inbox'
  BY DEF Commit, Reconcile, FailJob, CompleteIngestion, AckObsolete, SchedulePoll,
         Acknowledge
<1>8. indexed' \in SUBSET Identity
  BY <1>1, <1>2
  DEF Commit, Reconcile, FailJob, CompleteIngestion, AckObsolete, SchedulePoll, TypeOK
<1>9. QED BY <1>5, <1>6, <1>7, <1>8

(* Every step of the handler preserves TypeInv. *)
LEMMA HandlerType ==
    ASSUME TypeInv, NEW w \in Worker, HandlerStep(w)
    PROVE  TypeInv'
<1>0. Internal(w) \/ Commit(w)
  BY DEF HandlerStep, Internal, Commit
<1>1. CASE Internal(w)
  <2>1. TypeOK'
    BY <1>1, InternalMoves, InternalTables DEF TypeInv, TypeOK, Moves
  <2>2. Busy'
    BY <1>1, InternalMoves, BusyMessage DEF TypeInv, Busy, Moves, Step, Final
  <2>3. QED BY <2>1, <2>2 DEF TypeInv
<1>2. CASE Commit(w)
  <2>1. worker[w].message \in sent
    BY <1>2, CommitLeaves, BusyMessage DEF Step, Final
  <2>2. TypeOK'
    BY <1>2, <2>1, CommitLeaves, CommitTables
    DEF TypeInv, TypeOK, Leaves, provider, bounds
  <2>3. Busy'
    BY <1>2, CommitLeaves, CommitTables DEF TypeInv, Busy, Leaves, Idle
  <2>4. QED BY <2>2, <2>3 DEF TypeInv
<1>3. QED BY <1>0, <1>1, <1>2

(* A new row in the job table, and a message for its generation. *)
LEMMA RequestType ==
    ASSUME TypeInv, NEW j \in Job, NEW row \in JobRow,
           job' = [job EXCEPT ![j] = row],
           EnqueueIngestion(j) \/ UNCHANGED sent,
           UNCHANGED <<inbox, uploadOp, parseOp, indexed, provider, holder,
                       worker, faults>>,
           admin' \in 0 .. MaxAdmin
    PROVE  TypeInv'
<1>1. job' \in [Job -> JobRow]
  BY DEF TypeInv, TypeOK
<1>2. Command(j, job'[j].generation, 0) \in Message
  BY <1>1 DEF JobRow, Command, Message
<1>3. sent' \in SUBSET Message /\ sent \subseteq sent'
  BY <1>2 DEF EnqueueIngestion, TypeInv, TypeOK
<1>4. QED BY <1>1, <1>3 DEF TypeInv, TypeOK, Busy, provider

(* A step of the delivery runtime or of the provider. *)
LEMMA RuntimeType ==
    ASSUME TypeInv, NEW w \in Worker,
           (\E m \in sent : Claim(w, m)) \/ LeaseLost(w) \/ Crash(w)
    PROVE  TypeInv'
<1>1. CASE \E m \in sent : Claim(w, m)
  <2>1. PICK m \in sent : Claim(w, m)
    BY <1>1
  <2>2. m \in Message /\ IdentityOf[m.job] \in Identity
    BY DEF TypeInv, TypeOK, Message
  <2>3. [Idle EXCEPT !.pc = "load", !.message = m] \in WorkerState
    BY <2>2 DEF Idle, WorkerState, Step, Run
  <2>4. TypeOK'
    BY <2>1, <2>2, <2>3 DEF Claim, TypeInv, TypeOK, tables, provider, bounds
  <2>5. worker'[w].message = m
    BY <2>1 DEF Claim, TypeInv, TypeOK, Idle
  <2>6. Busy'
    <3>1. sent' = sent /\ \A v \in Worker \ {w} : worker'[v] = worker[v]
      BY <2>1 DEF Claim, tables, TypeInv, TypeOK
    <3>2. QED BY <2>5, <3>1 DEF TypeInv, Busy
  <2>7. QED BY <2>4, <2>6 DEF TypeInv
<1>2. CASE LeaseLost(w) \/ Crash(w)
  <2>1. worker[w].pc # "idle" /\ Leave(w)
    BY <1>2 DEF LeaseLost, Crash, Guarded, Step, Final, At
  <2>2. Leaves(w)
    BY <2>1, LeaveLeaves
  <2>3. faults' \in 0 .. MaxFaults
    BY <1>2 DEF LeaseLost, Crash, Fault, TypeInv, TypeOK, bounds
  <2>4. QED
    BY <1>2, <2>2, <2>3
    DEF LeaseLost, Crash, Leaves, TypeInv, TypeOK, Busy, tables, provider, bounds, Idle
<1>3. QED BY <1>1, <1>2

(* TypeInv is inductive. *)
LEMMA StepType == TypeInv /\ [Next]_vars => TypeInv'
<1> SUFFICES ASSUME TypeInv, [Next]_vars PROVE TypeInv'
  OBVIOUS
<1>0. TypeOK
  BY DEF TypeInv
<1>10. \A j \in Job : job[j] \in JobRow
  BY <1>0 DEF TypeOK
<1>1. ASSUME NEW j \in Job, Submit(j) PROVE TypeInv'
  <2>1. [job[j] EXCEPT !.status = "accepted"] \in JobRow
    BY <1>10, RowTypes DEF Status
  <2>2. job' = [job EXCEPT ![j] = [job[j] EXCEPT !.status = "accepted"]]
    BY <1>0, <1>1 DEF Submit, TypeOK
  <2>3. QED BY <1>0, <1>1, <2>1, <2>2, RequestType DEF Submit, bounds, TypeOK
<1>2. ASSUME NEW j \in Job, Dispatch(j) PROVE TypeInv'
  <2>1. job[j] \in JobRow /\ job' = [job EXCEPT ![j] = job[j]]
    BY <1>0, <1>2 DEF Dispatch, TypeOK
  <2>2. QED BY <1>0, <1>2, <2>1, RequestType DEF Dispatch, bounds, TypeOK
<1>3. ASSUME NEW j \in Job, RetryIngestion(j) PROVE TypeInv'
  <2>1. NewGeneration(job[j]) \in JobRow
    BY <1>10, <1>3, RowTypes DEF RetryIngestion, Status
  <2>2. job' = [job EXCEPT ![j] = NewGeneration(job[j])]
    BY <1>3 DEF RetryIngestion
  <2>3. QED BY <1>0, <1>3, <2>1, <2>2, RequestType DEF RetryIngestion, bounds, TypeOK
<1>4. ASSUME NEW j \in Job, NEW status \in AdminStatus, UpdateStatus(j, status) PROVE TypeInv'
  <2>1. [job[j] EXCEPT !.status = status] \in JobRow
    BY <1>10, RowTypes
  <2>2. job' = [job EXCEPT ![j] = [job[j] EXCEPT !.status = status]]
    BY <1>0, <1>4 DEF UpdateStatus, TypeOK
  <2>3. admin' \in 0 .. MaxAdmin
    BY <1>0, <1>4 DEF UpdateStatus, TypeOK
  <2>4. UNCHANGED <<sent, inbox, uploadOp, parseOp, indexed, provider, holder, worker, faults>>
    BY <1>4 DEF UpdateStatus
  <2>5. QED BY <2>1, <2>2, <2>3, <2>4, RequestType
<1>5. ASSUME NEW j \in Job, DeadlinePasses(j) PROVE TypeInv'
  <2>1. [job[j] EXCEPT !.deadline = "past"] \in JobRow
    BY <1>10, RowTypes DEF Status
  <2>2. job' = [job EXCEPT ![j] = [job[j] EXCEPT !.deadline = "past"]]
    BY <1>0, <1>5 DEF DeadlinePasses, TypeOK
  <2>3. QED BY <1>0, <1>5, <2>1, <2>2, RequestType DEF DeadlinePasses, bounds, TypeOK
<1>6. ASSUME NEW i \in Identity, RecoverUpload(i) \/ Stall(i) \/ ParseEnds(i) PROVE TypeInv'
  BY <1>0, <1>6 DEF RecoverUpload, Stall, ParseEnds, TypeInv, TypeOK, Busy, tables,
     provider, bounds, Operation, Run, Fault
<1>7. ASSUME NEW i \in Identity, NEW kind \in {"upload", "parse"}, LateEffect(kind, i)
      PROVE  TypeInv'
  BY <1>0, <1>7 DEF LateEffect, TypeInv, TypeOK, Busy, tables, bounds, Run
<1>8. CASE UNCHANGED vars
  BY <1>0, <1>8 DEF vars, tables, provider, bounds, TypeInv, TypeOK, Busy
<1>9. QED BY <1>1, <1>2, <1>3, <1>4, <1>5, <1>6, <1>7, <1>8, HandlerType, RuntimeType DEF Next

(* Every reachable state is well typed, and a worker that executes has a   *)
(* message of the outbox.                                                  *)
THEOREM TypeSafety == Spec => []TypeInv
BY InitType, StepType, PTL DEF Spec

(* TypeOK holds in every reachable state of the ingestion jobs, their      *)
(* messages, the journal and the provider.                                 *)
THEOREM TypeCorrect == Spec => []TypeOK
<1>1. TypeInv => TypeOK
  BY DEF TypeInv
<1>2. QED BY <1>1, TypeSafety, PTL

-----------------------------------------------------------------------------
(* A source version is uploaded at most once. *)

(* Where the upload has its intent, and where it has been started. *)
Intended == {"find", "claimUpload", "assertUpload", "upload", "uploadLost",
             "confirmUpload"}
Started == {"assertUpload", "upload"}

(* The journal knows of every upload that is intended or started, one      *)
(* worker at most has started the upload of an identity, and while one has *)
(* there has been none.                                                    *)
UploadInv ==
    /\ \A w \in Worker :
          worker[w].pc \in Intended => uploadOp[IdOf(w)] \notin {"none", "legacy_unknown"}
    /\ \A w \in Worker :
          worker[w].pc \in Started => uploadOp[IdOf(w)] # "intent" /\ uploads[IdOf(w)] = 0
    /\ \A v, w \in Worker :
          worker[v].pc \in Started /\ worker[w].pc \in Started /\ IdOf(v) = IdOf(w) => v = w
    /\ \A i \in Identity :
          uploadOp[i] \in {"none", "intent", "legacy_unknown"} => uploads[i] = 0
    /\ \A i \in Identity : uploads[i] <= 1

(* A step that starts no upload and leaves journal and count alone. *)
NoUpload(w) ==
    /\ UNCHANGED <<uploadOp, uploads>>
    /\ \A v \in Worker \ {w} : worker'[v] = worker[v]
    /\ worker'[w].pc \notin Started
    /\ worker'[w].pc \in Intended =>
          worker[w].pc \in Intended /\ worker'[w].message = worker[w].message

(* Such a step preserves the invariant. *)
LEMMA NoUploadKeeps ==
    ASSUME UploadInv, NEW w \in Worker, NoUpload(w)
    PROVE  UploadInv'
<1>1. \A v \in Worker : worker'[v].pc \in Intended =>
         worker[v].pc \in Intended /\ IdOf(v)' = IdOf(v)
  BY DEF NoUpload, IdOf, JobOf
<1>2. \A v \in Worker : worker'[v].pc \in Started =>
         v # w /\ worker[v].pc \in Started /\ IdOf(v)' = IdOf(v)
  BY DEF NoUpload, IdOf, JobOf
<1>3. UNCHANGED <<uploadOp, uploads>>
  BY DEF NoUpload
<1>4. QED BY <1>1, <1>2, <1>3 DEF UploadInv

(* Most internal steps are of that kind. *)
LEMMA InternalNoUpload ==
    ASSUME TypeInv, NEW w \in Worker, Internal(w)
    PROVE  \/ NoUpload(w) \/ UploadIntent(w) \/ ClaimUpload(w) \/ AssertUpload(w)
           \/ UploadDocument(w) \/ UploadUnknown(w) \/ ConfirmUpload(w)
<1>0. TypeOK /\ Moves(w)
  BY InternalMoves DEF TypeInv
<1>1. ASSUME NEW pc \in Step \ (Started \cup Intended \cup {"load"}), Go(w, pc),
             UNCHANGED <<uploadOp, uploads>>
      PROVE  NoUpload(w)
  BY <1>0, <1>1, GoMoves DEF Moves, NoUpload
<1>2. CASE LoadObsolete(w) \/ MarkRunning(w) \/ TimedOut(w) \/ Error(w)
           \/ ReadFailed(w) \/ Ambiguous(w) \/ UploadKnown(w)
  BY <1>1, <1>2
  DEF LoadObsolete, MarkRunning, TimedOut, Error, ReadFailed, Ambiguous,
      UploadKnown, Step, Final, Started, Intended, tables, provider
<1>3. CASE PlanParse(w) \/ PlanPoll(w) \/ CheckParse(w) \/ ClaimParse(w)
           \/ AssertParse(w) \/ ParseDocument(w) \/ ParseUnknown(w)
  BY <1>1, <1>3
  DEF PlanParse, PlanPoll, CheckParse, ClaimParse, AssertParse, ParseDocument,
      ParseUnknown, Step, Final, Started, Intended, tables, provider
<1>4. CASE Conclude(w)
  <2>1. worker[w].run \in Run
    BY <1>0 DEF TypeOK, WorkerState
  <2>2. \E pc \in {"complete", "fail", "schedule"} : Go(w, pc)
    BY <2>1, <1>4 DEF Conclude, Run
  <2>3. UNCHANGED <<uploadOp, uploads>>
    BY <1>4 DEF Conclude, tables, provider
  <2>4. QED BY <1>1, <2>2, <2>3 DEF Step, Final, Started, Intended
<1>5. CASE FindDocument(w)
  <2>1. \E pc \in {"claimUpload", "confirmUpload"} : Go(w, pc)
    BY <1>5 DEF FindDocument
  <2>2. worker'[w].pc \in {"claimUpload", "confirmUpload"}
    BY <1>0, <2>1, GoMoves DEF Step
  <2>3. QED BY <1>0, <1>5, <2>2
        DEF FindDocument, At, Moves, NoUpload, Started, Intended, tables, provider
<1>6. CASE LoadJob(w) \/ LookAtDocument(w) \/ Observe(w) \/ ConfirmParse(w)
  <2>1. worker'[w].pc \in {"provide", "begin", "checkParse", "adopt", "conclude", "observe"}
    BY <1>0, <1>6 DEF LoadJob, LookAtDocument, Observe, ConfirmParse, TypeOK, WorkerState
  <2>2. UNCHANGED <<uploadOp, uploads>>
    BY <1>6 DEF LoadJob, LookAtDocument, Observe, ConfirmParse, tables, provider
  <2>3. QED BY <1>0, <2>1, <2>2 DEF Moves, NoUpload, Started, Intended
<1>7. QED BY <1>2, <1>3, <1>4, <1>5, <1>6 DEF Internal

(* The steps of the upload preserve the invariant. *)
LEMMA UploadKeeps ==
    ASSUME TypeInv, UploadInv, NEW w \in Worker,
           \/ UploadIntent(w) \/ ClaimUpload(w) \/ AssertUpload(w)
           \/ UploadDocument(w) \/ UploadUnknown(w) \/ ConfirmUpload(w)
    PROVE  UploadInv'
<1>0. TypeOK /\ worker[w].pc \in Step
  BY DEF TypeInv, UploadIntent, ClaimUpload, AssertUpload, UploadDocument,
         UploadUnknown, ConfirmUpload, At, Step
<1>1. Moves(w)
  BY InternalMoves DEF Internal
<1>2. IdOf(w) \in Identity
  BY <1>0, BusyMessage DEF Step, Final
<1>3. \A v \in Worker : IdOf(v)' = IdOf(v)
  BY <1>1 DEF Moves, IdOf, JobOf
<1>4. \A v \in Worker \ {w} : worker'[v] = worker[v]
  BY <1>1 DEF Moves
<1>5. /\ uploadOp \in [Identity -> Operation \cup {"legacy_unknown"}]
      /\ uploads \in [Identity -> Nat]
  BY <1>0 DEF TypeOK
<1>6. CASE UploadIntent(w)
  <2>1. worker'[w].pc = "find"
    BY <1>0, <1>6, GoMoves DEF UploadIntent, Step
  <2>2. /\ uploadOp[IdOf(w)] # "legacy_unknown" /\ uploads' = uploads
        /\ uploadOp' = [uploadOp EXCEPT ![IdOf(w)] =
                            IF @ = "none" THEN "intent" ELSE @]
    BY <1>6 DEF UploadIntent, provider
  <2>3. QED BY <1>2, <1>3, <1>4, <1>5, <2>1, <2>2 DEF UploadInv, Intended, Started
<1>7. CASE ClaimUpload(w) /\ uploadOp[IdOf(w)] = "intent"
  <2>1. worker'[w].pc = "assertUpload"
    BY <1>0, <1>7, GoMoves DEF ClaimUpload, Startable, Step
  <2>2. /\ uploadOp' = [uploadOp EXCEPT ![IdOf(w)] = "executing"]
        /\ uploads' = uploads
    BY <1>7 DEF ClaimUpload, Startable, provider
  <2>3. uploads[IdOf(w)] = 0
    BY <1>2, <1>7 DEF UploadInv
  <2>4. \A v \in Worker : worker[v].pc \in Started => IdOf(v) # IdOf(w)
    BY <1>7 DEF UploadInv
  <2>5. QED BY <1>2, <1>3, <1>4, <1>5, <2>1, <2>2, <2>3, <2>4
        DEF UploadInv, Intended, Started
<1>8. CASE ClaimUpload(w) /\ uploadOp[IdOf(w)] # "intent"
  <2>1. worker'[w].pc = "reconcile"
    BY <1>0, <1>8, GoMoves DEF ClaimUpload, Startable, Step
  <2>2. UNCHANGED <<uploadOp, uploads>>
    BY <1>8 DEF ClaimUpload, Startable, provider
  <2>3. NoUpload(w)
    BY <1>4, <2>1, <2>2 DEF NoUpload, Intended, Started
  <2>4. QED BY <2>3, NoUploadKeeps
<1>9. CASE AssertUpload(w)
  <2>1. worker'[w].pc = "upload" /\ worker[w].pc = "assertUpload"
    BY <1>0, <1>9, GoMoves DEF AssertUpload, Step, At
  <2>2. UNCHANGED <<uploadOp, uploads>>
    BY <1>9 DEF AssertUpload, tables, provider
  <2>3. \A v \in Worker : /\ worker'[v].pc \in Started => worker[v].pc \in Started
                          /\ worker'[v].pc \in Intended => worker[v].pc \in Intended
    BY <1>4, <2>1 DEF Started, Intended
  <2>4. QED BY <1>3, <2>2, <2>3 DEF UploadInv
<1>10. CASE UploadDocument(w)
  <2>1. worker'[w].pc \in {"confirmUpload", "uploadLost"} /\ worker[w].pc = "upload"
    BY <1>0, <1>10, GoMoves DEF UploadDocument, Step, At
  <2>2. uploadOp' = uploadOp /\ uploads' = [uploads EXCEPT ![IdOf(w)] = @ + 1]
    BY <1>10 DEF UploadDocument, tables
  <2>3. /\ uploads[IdOf(w)] = 0
        /\ uploadOp[IdOf(w)] \notin {"none", "intent", "legacy_unknown"}
    BY <2>1 DEF UploadInv, Intended, Started
  <2>4. \A v \in Worker \ {w} : worker[v].pc \in Started => IdOf(v) # IdOf(w)
    BY <2>1 DEF UploadInv, Started
  <2>5. \A v \in Worker : /\ worker'[v].pc \in Started => v # w /\ worker[v].pc \in Started
                          /\ worker'[v].pc \in Intended => worker[v].pc \in Intended
    BY <1>4, <2>1 DEF Started, Intended
  <2>6. uploads'[IdOf(w)] = 1 /\ \A i \in Identity : i # IdOf(w) => uploads'[i] = uploads[i]
    BY <1>2, <1>5, <2>2, <2>3
  <2>7. \A i \in Identity : uploads'[i] <= 1
    BY <2>6 DEF UploadInv
  <2>8. \A i \in Identity :
           uploadOp'[i] \in {"none", "intent", "legacy_unknown"} => uploads'[i] = 0
    BY <2>2, <2>3, <2>6 DEF UploadInv
  <2>9. \A v \in Worker : worker'[v].pc \in Started =>
           uploadOp'[IdOf(v)'] # "intent" /\ uploads'[IdOf(v)'] = 0
    <3> SUFFICES ASSUME NEW v \in Worker, worker'[v].pc \in Started
                 PROVE  uploadOp'[IdOf(v)'] # "intent" /\ uploads'[IdOf(v)'] = 0
      OBVIOUS
    <3>1. v # w /\ worker[v].pc \in Started
      BY <2>5
    <3>2. IdOf(v) \in Identity /\ IdOf(v) # IdOf(w)
      BY <2>4, <3>1, BusyMessage DEF Started
    <3>3. QED BY <1>3, <2>2, <2>6, <3>1, <3>2 DEF UploadInv
  <2>10. QED BY <1>3, <2>2, <2>5, <2>7, <2>8, <2>9 DEF UploadInv
<1>11. CASE UploadUnknown(w) \/ ConfirmUpload(w)
  <2>1. worker'[w].pc \in {"reconcile", "plan"} /\ worker[w].pc \in Intended
    BY <1>0, <1>11, GoMoves DEF UploadUnknown, ConfirmUpload, Step, At, Intended
  <2>2. /\ uploads' = uploads
        /\ \/ uploadOp' = uploadOp
           \/ /\ uploadOp[IdOf(w)] = "executing"
              /\ uploadOp' = [uploadOp EXCEPT ![IdOf(w)] = "unknown"]
           \/ uploadOp' = [uploadOp EXCEPT ![IdOf(w)] = "confirmed"]
    BY <1>2, <1>5, <1>11 DEF UploadUnknown, ConfirmUpload, Unresolved, provider
  <2>3. uploadOp[IdOf(w)] \notin {"none", "legacy_unknown"}
    BY <2>1 DEF UploadInv
  <2>4. \A i \in Identity : uploadOp'[i] \in {uploadOp[i], "unknown", "confirmed"}
    BY <1>2, <1>5, <2>2
  <2>5. \A v \in Worker : worker'[v].pc \in Intended =>
           worker[v].pc \in Intended /\ IdOf(v) \in Identity
    BY <1>4, <2>1, BusyMessage DEF Intended
  <2>6. \A v \in Worker : worker'[v].pc \in Started => worker[v].pc \in Started
    BY <1>4, <2>1 DEF Started
  <2>7. Started \subseteq Intended
    BY DEF Started, Intended
  <2>8. QED BY <1>3, <2>2, <2>3, <2>4, <2>5, <2>6, <2>7 DEF UploadInv
<1>12. QED BY <1>6, <1>7, <1>8, <1>9, <1>10, <1>11

(* UploadInv is inductive relative to TypeInv. *)
LEMMA StepUpload == TypeInv /\ UploadInv /\ [Next]_vars => UploadInv'
<1> SUFFICES ASSUME TypeInv, UploadInv, [Next]_vars PROVE UploadInv'
  OBVIOUS
<1>0. TypeOK
  BY DEF TypeInv
<1>1. ASSUME UNCHANGED <<uploadOp, uploads, worker>> PROVE UploadInv'
  BY <1>1 DEF UploadInv, IdOf, JobOf
<1>2. ASSUME NEW j \in Job,
             \/ Submit(j) \/ Dispatch(j) \/ RetryIngestion(j) \/ DeadlinePasses(j)
             \/ \E status \in AdminStatus : UpdateStatus(j, status)
      PROVE  UploadInv'
  BY <1>1, <1>2
  DEF Submit, Dispatch, RetryIngestion, DeadlinePasses, UpdateStatus, provider
<1>3. ASSUME NEW i \in Identity,
             Stall(i) \/ ParseEnds(i) \/ \E kind \in {"upload", "parse"} : LateEffect(kind, i)
      PROVE  UploadInv'
  BY <1>1, <1>3 DEF Stall, ParseEnds, LateEffect, tables, provider
<1>4. ASSUME NEW i \in Identity, RecoverUpload(i) PROVE UploadInv'
  <2>1. /\ uploadOp' = [uploadOp EXCEPT ![i] = "confirmed"] /\ uploads' = uploads
        /\ \A v \in Worker : worker'[v] = worker[v] /\ IdOf(v)' = IdOf(v)
    BY <1>4 DEF RecoverUpload, provider, IdOf, JobOf
  <2>2. \A k : uploadOp[k] # "none" /\ uploadOp[k] # "legacy_unknown" /\ k \in Identity =>
              uploadOp'[k] # "none" /\ uploadOp'[k] # "legacy_unknown"
    BY <1>0, <2>1 DEF TypeOK
  <2>3. \A v \in Worker : worker[v].pc \in Intended \cup Started => IdOf(v) \in Identity
    BY BusyMessage DEF Intended, Started
  <2>4. \A k \in Identity : uploadOp'[k] \in {uploadOp[k], "confirmed"}
    BY <1>0, <2>1 DEF TypeOK
  <2>5. QED BY <2>1, <2>2, <2>3, <2>4 DEF UploadInv
<1>5. ASSUME NEW w \in Worker, Internal(w) PROVE UploadInv'
  BY <1>5, InternalNoUpload, NoUploadKeeps, UploadKeeps
<1>6. ASSUME NEW w \in Worker, Commit(w) \/ LeaseLost(w) \/ Crash(w) PROVE UploadInv'
  <2>1. Leaves(w)
    BY <1>6, CommitLeaves, LeaveLeaves DEF LeaseLost, Crash, Guarded, Step, Final, At
  <2>2. UNCHANGED <<uploadOp, uploads>>
    BY <1>6, CommitLeaves DEF LeaseLost, Crash, tables, provider
  <2>3. QED BY <2>1, <2>2, NoUploadKeeps DEF Leaves, NoUpload, Idle, Started, Intended
<1>7. ASSUME NEW w \in Worker, NEW m \in sent, Claim(w, m) PROVE UploadInv'
  <2>1. NoUpload(w)
    BY <1>0, <1>7 DEF Claim, tables, provider, NoUpload, TypeOK, Idle, Started, Intended
  <2>2. QED BY <2>1, NoUploadKeeps
<1>8. CASE UNCHANGED vars
  BY <1>1, <1>8 DEF vars, tables, provider
<1>9. QED BY <1>2, <1>3, <1>4, <1>5, <1>6, <1>7, <1>8
      DEF Next, HandlerStep, Internal, Commit

(* However many jobs, retries, crashes, stalled workers and lost responses *)
(* there are, a source version is uploaded at most once, and never when    *)
(* the migration could not vouch for it.                                   *)
THEOREM UploadOnce == Spec => []UploadedOnce
<1>1. Init => UploadInv
  BY DEF Init, UploadInv, Idle, Intended, Started
<1>2. TypeInv /\ UploadInv => UploadedOnce
  BY DEF TypeInv, TypeOK, UploadInv, UploadedOnce
<1>3. QED BY <1>1, <1>2, StepUpload, TypeSafety, PTL DEF Spec

-----------------------------------------------------------------------------
(* The cursor and the messages. *)

(* Past the load of the job and not on the way to an acknowledgement. *)
Handling == Step \ {"load", "ack"}

(* A worker that handles a message under its lease, with the generation    *)
(* still the message's, stands at the cursor's step, and not in an earlier *)
(* phase than the cursor.                                                  *)
CursorHeld ==
    \A w \in Worker :
        worker[w].pc \in Handling /\ Current(w) =>
            /\ job[JobOf(w)].step = StepOf(w)
            /\ job[JobOf(w)].phase = "poll" => worker[w].phase = "poll"

CursorInv == NeverAhead /\ CursorHeld

(* The part of a row that no step but the last commit and a new generation *)
(* changes.                                                                *)
SameCursor(old, new) ==
    /\ new.generation = old.generation
    /\ new.step = old.step
    /\ new.phase = old.phase
    /\ old.upload => new.upload
    /\ old.deadline # None => new.deadline \in {old.deadline, "past"}

(* What CursorOnlyAdvances says of one row. *)
Advances(old, new) ==
    \/ new.generation > old.generation
    \/ /\ new.generation = old.generation
       /\ new.step >= old.step
       /\ old.phase = "poll" => new.phase = "poll"
       /\ old.upload => new.upload
       /\ old.deadline # None => new.deadline \in {old.deadline, "past"}

(* A row whose cursor stays has not gone back. *)
LEMMA SameAdvances ==
    ASSUME NEW old \in JobRow, NEW new \in JobRow, SameCursor(old, new)
    PROVE  Advances(old, new)
BY DEF SameCursor, Advances, JobRow

(* An internal step keeps the cursor, and the worker's phase does not go   *)
(* back.                                                                   *)
LEMMA InternalCursor ==
    ASSUME TypeInv, NEW w \in Worker, Internal(w)
    PROVE  /\ \A j \in Job : SameCursor(job[j], job'[j])
           /\ \/ /\ worker[w].pc \in Handling
                 /\ worker'[w].phase \in {worker[w].phase, "poll"}
              \/ worker'[w].pc = "ack" /\ LoadObsolete(w)
              \/ /\ AtCursor(w)
                 /\ worker'[w].phase = job[JobOf(w)].phase
<1>1. TypeOK /\ worker[w].pc # "idle"
  BY InternalMoves DEF TypeInv, Step, Final
<1>2. /\ worker[w].message \in Message
      /\ JobOf(w) \in Job
      /\ job[JobOf(w)] \in JobRow
      /\ worker[w] \in WorkerState
  BY <1>1, BusyMessage DEF TypeOK
<1>3. \A j \in Job : SameCursor(job[j], job'[j])
  <2>1. CASE MarkRunning(w)
    BY <1>1, <1>2, <2>1 DEF MarkRunning, SameCursor, TypeOK, JobRow
  <2>2. CASE PlanParse(w)
    <3>1. job' = [job EXCEPT ![JobOf(w)] = Planned(job[JobOf(w)], worker[w].message)]
      BY <1>1, <1>2, <2>2 DEF PlanParse, TypeOK
    <3>2. worker[w].message.generation = job[JobOf(w)].generation
      BY <2>2 DEF PlanParse, Current, GenerationOf
    <3>3. SameCursor(job[JobOf(w)], Planned(job[JobOf(w)], worker[w].message))
      BY <1>2, <3>2 DEF Planned, SameCursor, JobRow
    <3>4. \A j \in Job \ {JobOf(w)} : job'[j] = job[j]
      BY <1>1, <3>1 DEF TypeOK
    <3>5. QED BY <1>1, <1>2, <3>1, <3>3, <3>4 DEF SameCursor, TypeOK
  <2>3. CASE UNCHANGED job
    BY <2>3 DEF SameCursor
  <2>4. UNCHANGED job \/ MarkRunning(w) \/ PlanParse(w)
    BY DEF Internal, LoadObsolete, LoadJob, TimedOut, Error, ReadFailed,
           Ambiguous, UploadIntent, UploadKnown, FindDocument, ClaimUpload,
           AssertUpload, UploadDocument, UploadUnknown, ConfirmUpload,
           PlanPoll, LookAtDocument, CheckParse, ClaimParse, AssertParse,
           ParseDocument, ParseUnknown, ConfirmParse, Observe, Conclude, tables
  <2>5. QED BY <2>1, <2>2, <2>3, <2>4
<1>4. CASE LoadObsolete(w)
  BY <1>1, <1>4, GoMoves, <1>3 DEF LoadObsolete, Step, Final
<1>5. CASE LoadJob(w)
  <2>1. worker'[w].phase = job[JobOf(w)].phase
    BY <1>1, <1>2, <1>5 DEF LoadJob, TypeOK, WorkerState
  <2>2. QED BY <1>3, <1>5, <2>1 DEF LoadJob
<1>6. CASE LookAtDocument(w) \/ Observe(w) \/ ConfirmParse(w)
  <2>1. worker[w].pc \in Handling
    BY <1>6 DEF LookAtDocument, Observe, ConfirmParse, At, Handling, Step
  <2>2. worker'[w].phase \in {worker[w].phase, "poll"}
    BY <1>1, <1>2, <1>6 DEF LookAtDocument, Observe, ConfirmParse, TypeOK, WorkerState
  <2>3. QED BY <1>3, <2>1, <2>2
<1>7. ASSUME worker[w].pc \in Handling, NEW pc \in Step \ {"load"}, Go(w, pc)
      PROVE  worker[w].pc \in Handling /\ worker'[w].phase \in {worker[w].phase, "poll"}
  BY <1>1, <1>7, GoMoves
<1>8. CASE MarkRunning(w) \/ TimedOut(w) \/ Error(w) \/ ReadFailed(w) \/ Ambiguous(w)
           \/ UploadIntent(w) \/ UploadKnown(w) \/ FindDocument(w) \/ ClaimUpload(w)
           \/ AssertUpload(w) \/ UploadDocument(w) \/ UploadUnknown(w) \/ ConfirmUpload(w)
  BY <1>3, <1>7, <1>8
  DEF MarkRunning, TimedOut, Error, ReadFailed, Ambiguous, UploadIntent, UploadKnown,
      FindDocument, ClaimUpload, AssertUpload, UploadDocument, UploadUnknown,
      ConfirmUpload, At, Handling, Step, Final
<1>9. CASE PlanParse(w) \/ PlanPoll(w) \/ CheckParse(w) \/ ClaimParse(w)
           \/ AssertParse(w) \/ ParseDocument(w) \/ ParseUnknown(w)
  BY <1>3, <1>7, <1>9
  DEF PlanParse, PlanPoll, CheckParse, ClaimParse, AssertParse, ParseDocument,
      ParseUnknown, At, Handling, Step, Final
<1>10. CASE Conclude(w)
  <2>1. worker[w].run \in Run
    BY <1>2 DEF WorkerState
  <2>2. worker[w].pc \in Handling /\ \E pc \in Step \ {"load"} : Go(w, pc)
    BY <2>1, <1>10 DEF Conclude, Run, Step, Final, Handling, At
  <2>3. QED BY <1>3, <1>7, <2>2
<1>11. QED BY <1>4, <1>5, <1>6, <1>8, <1>9, <1>10 DEF Internal

(* A commit changes only the row of its own job, under the lease and in    *)
(* the message's generation, and enqueues at most a message at the cursor. *)
LEMMA CommitCursor ==
    ASSUME TypeInv, CursorHeld, NEW w \in Worker, Commit(w)
    PROVE  /\ HoldsLease(w)
           /\ \A j \in Job \ {JobOf(w)} : job'[j] = job[j]
           /\ \A j \in Job : job'[j].generation = job[j].generation /\ Advances(job[j], job'[j])
           /\ \A m \in sent' \ sent : /\ m.job = JobOf(w)
                                      /\ m.generation = job'[m.job].generation
                                      /\ m.step = job'[m.job].step
<1>1. TypeOK /\ worker[w].pc # "idle"
  BY CommitLeaves DEF TypeInv, Step, Final
<1>2. /\ worker[w].message \in Message
      /\ JobOf(w) \in Job
      /\ job[JobOf(w)] \in JobRow
      /\ worker[w] \in WorkerState
      /\ StepOf(w) \in Nat
  BY <1>1, BusyMessage DEF TypeOK
<1>3. HoldsLease(w)
  BY DEF Commit, Reconcile, FailJob, CompleteIngestion, AckObsolete, SchedulePoll, Current
<1>4. \A j \in Job : Advances(job[j], job[j])
  BY <1>1, SameAdvances DEF TypeOK, SameCursor
<1>5. CASE UNCHANGED <<job, sent>>
  BY <1>3, <1>4, <1>5
<1>6. ASSUME Current(w), worker[w].pc \in Handling
      PROVE  /\ job[JobOf(w)].step = StepOf(w)
             /\ job[JobOf(w)].phase = "poll" => worker[w].phase = "poll"
             /\ job[JobOf(w)].generation = GenerationOf(w)
  BY <1>6 DEF CursorHeld, Current
<1>7. ASSUME NEW status \in Status, End(w, status), UNCHANGED sent, Current(w),
             worker[w].pc \in Handling
      PROVE  /\ \A j \in Job \ {JobOf(w)} : job'[j] = job[j]
             /\ job'[JobOf(w)].generation = job[JobOf(w)].generation
             /\ Advances(job[JobOf(w)], job'[JobOf(w)])
  <2> DEFINE row == [job[JobOf(w)] EXCEPT !.status = status, !.phase = worker[w].phase]
  <2>1. job' = [job EXCEPT ![JobOf(w)] = row]
    BY <1>1, <1>2, <1>7 DEF End, TypeOK
  <2>2. job[JobOf(w)].phase = "poll" => worker[w].phase = "poll"
    BY <1>6, <1>7
  <2>3. Advances(job[JobOf(w)], row)
    BY <1>2, <2>2 DEF Advances, JobRow
  <2>4. row.generation = job[JobOf(w)].generation
    BY <1>2 DEF JobRow
  <2>5. job'[JobOf(w)] = row /\ \A j \in Job \ {JobOf(w)} : job'[j] = job[j]
    BY <1>1, <1>2, <2>1 DEF TypeOK
  <2>6. QED BY <2>3, <2>4, <2>5
<1>8. CASE Reconcile(w) \/ FailJob(w) \/ CompleteIngestion(w) \/ (SchedulePoll(w) /\ Overdue(w))
  <2>1. /\ \E status \in Status : End(w, status)
        /\ UNCHANGED sent /\ Current(w) /\ worker[w].pc \in Handling
    BY <1>8 DEF Reconcile, FailJob, CompleteIngestion, SchedulePoll, Status, Terminal,
                At, Handling, Step, Final
  <2>2. QED BY <1>3, <1>4, <1>7, <2>1
<1>9. CASE SchedulePoll(w) /\ ~Overdue(w)
  <2> DEFINE row == Following(job[JobOf(w)], worker[w].message, worker[w].phase)
  <2>1. job' = [job EXCEPT ![JobOf(w)] = row]
    BY <1>1, <1>2, <1>9 DEF SchedulePoll, TypeOK
  <2>2. Current(w) /\ worker[w].pc \in Handling
    BY <1>9 DEF SchedulePoll, At, Handling, Step, Final
  <2>3. /\ row.generation = GenerationOf(w) /\ row.step = StepOf(w) + 1
        /\ row.phase = worker[w].phase
        /\ row.upload = job[JobOf(w)].upload /\ row.deadline = job[JobOf(w)].deadline
    BY <1>2 DEF Following, JobRow, GenerationOf, StepOf
  <2>4. Advances(job[JobOf(w)], row) /\ row.generation = job[JobOf(w)].generation
    BY <1>2, <1>6, <2>2, <2>3 DEF Advances
  <2>5. job'[JobOf(w)] = row /\ \A j \in Job \ {JobOf(w)} : job'[j] = job[j]
    BY <1>1, <1>2, <2>1 DEF TypeOK
  <2>6. \A m \in sent' \ sent : m = Command(JobOf(w), GenerationOf(w), StepOf(w) + 1)
    BY <1>9 DEF SchedulePoll
  <2>7. QED BY <1>3, <1>4, <2>3, <2>4, <2>5, <2>6 DEF Command
<1>10. CASE AckObsolete(w)
  BY <1>5, <1>10 DEF AckObsolete
<1>11. QED BY <1>8, <1>9, <1>10 DEF Commit

(* Messages stay behind the cursor when no row goes back and every new     *)
(* message is at the cursor or at the first step of its generation.        *)
LEMMA AheadKeeps ==
    ASSUME TypeInv, TypeInv', NeverAhead,
           \A j \in Job : Advances(job[j], job'[j]),
           \A m \in sent' \ sent : /\ m.generation = job'[m.job].generation
                                   /\ m.step \in {0, job'[m.job].step}
    PROVE  NeverAhead'
<1> SUFFICES ASSUME NEW m \in sent'
             PROVE  \/ m.generation < job'[m.job].generation
                    \/ /\ m.generation = job'[m.job].generation
                       /\ m.step <= job'[m.job].step
  BY DEF NeverAhead
<1>1. m \in Message
  BY DEF TypeInv, TypeOK
<1>2. /\ m.job \in Job /\ m.generation \in Nat /\ m.step \in Nat
      /\ job[m.job] \in JobRow /\ job'[m.job] \in JobRow
  BY <1>1 DEF Message, Generation, TypeInv, TypeOK
<1>3. /\ job[m.job].generation \in Nat /\ job[m.job].step \in Nat
      /\ job'[m.job].generation \in Nat /\ job'[m.job].step \in Nat
  BY <1>2 DEF JobRow, Generation
<1>4. CASE m \in sent
  BY <1>2, <1>3, <1>4 DEF NeverAhead, Advances
<1>5. CASE m \notin sent
  BY <1>3, <1>5
<1>6. QED BY <1>4, <1>5

(* What the others hold, when w is the only one that moves. *)
LEMMA HeldKeeps ==
    ASSUME TypeInv, TypeInv', CursorHeld, NEW v \in Worker,
           worker'[v] = worker[v],
           HoldsLease(v)' => HoldsLease(v),
           worker[v].pc \in Handling =>
              \/ SameCursor(job[JobOf(v)], job'[JobOf(v)])
              \/ ~HoldsLease(v)'
              \/ job'[JobOf(v)].generation # GenerationOf(v),
           worker'[v].pc \in Handling, Current(v)'
    PROVE  /\ job'[JobOf(v)'].step = StepOf(v)'
           /\ job'[JobOf(v)'].phase = "poll" => worker'[v].phase = "poll"
<1>1. /\ JobOf(v)' = JobOf(v) /\ StepOf(v)' = StepOf(v)
      /\ GenerationOf(v)' = GenerationOf(v) /\ IdOf(v)' = IdOf(v)
  BY DEF JobOf, StepOf, GenerationOf, IdOf
<1>2. HoldsLease(v)' /\ job'[JobOf(v)].generation = GenerationOf(v)
  BY <1>1 DEF Current
<1>3. SameCursor(job[JobOf(v)], job'[JobOf(v)]) /\ HoldsLease(v)
  BY <1>2
<1>4. Current(v)
  BY <1>2, <1>3 DEF Current, SameCursor
<1>5. QED BY <1>1, <1>3, <1>4 DEF CursorHeld, SameCursor

(* What a request, the runtime or the provider does to cursors: a row      *)
(* keeps its cursor or starts a new generation, with its message; leases   *)
(* are only lost.                                                          *)
Outside ==
    /\ UNCHANGED <<worker, inbox>>
    /\ \A v \in Worker, i \in Identity : holder'[i] = v => holder[i] = v
    /\ \A j \in Job : \/ SameCursor(job[j], job'[j])
                      \/ job'[j].generation = job[j].generation + 1
    /\ sent \subseteq sent'
    /\ \A m \in sent' \ sent : m.generation = job'[m.job].generation /\ m.step = 0

(* Every step that is not a worker's is of that kind. *)
LEMMA OutsideSteps ==
    ASSUME TypeInv,
           \/ UNCHANGED vars
           \/ \E j \in Job : \/ Submit(j) \/ Dispatch(j) \/ RetryIngestion(j)
                             \/ \E status \in AdminStatus : UpdateStatus(j, status)
                             \/ DeadlinePasses(j)
           \/ \E i \in Identity : \/ RecoverUpload(i) \/ Stall(i) \/ ParseEnds(i)
                                  \/ \E kind \in {"upload", "parse"} : LateEffect(kind, i)
    PROVE  Outside
<1>0. TypeOK /\ \A j \in Job : job[j] \in JobRow
  BY DEF TypeInv, TypeOK
<1>1. \A j \in Job : SameCursor(job[j], job[j])
  BY DEF SameCursor
<1>2. ASSUME UNCHANGED <<job, sent, inbox, worker>>,
             \A v \in Worker, i \in Identity : holder'[i] = v => holder[i] = v
      PROVE  Outside
  BY <1>1, <1>2 DEF Outside
<1>3. ASSUME NEW j \in Job, UNCHANGED <<worker, inbox, holder>>,
             NEW row, job' = [job EXCEPT ![j] = row],
             SameCursor(job[j], row) \/ row.generation = job[j].generation + 1,
             EnqueueIngestion(j) \/ UNCHANGED sent
      PROVE  Outside
  <2>1. job'[j] = row /\ \A k \in Job \ {j} : job'[k] = job[k]
    BY <1>0, <1>3 DEF TypeOK
  <2>2. /\ sent \subseteq sent'
        /\ \A m \in sent' \ sent : m = Command(j, job'[j].generation, 0)
    BY <1>3 DEF EnqueueIngestion
  <2>3. \A m \in sent' \ sent : m.generation = job'[m.job].generation /\ m.step = 0
    BY <2>2 DEF Command
  <2>4. \A k \in Job : SameCursor(job[k], job'[k]) \/ job'[k].generation = job[k].generation + 1
    BY <1>1, <1>3, <2>1
  <2>5. QED BY <1>3, <2>2, <2>3, <2>4 DEF Outside
<1>4. ASSUME NEW j \in Job, NEW status \in Status
      PROVE  SameCursor(job[j], [job[j] EXCEPT !.status = status])
  BY <1>0 DEF SameCursor, JobRow
<1>5. ASSUME NEW j \in Job, Submit(j) PROVE Outside
  <2>1. job' = [job EXCEPT ![j] = [job[j] EXCEPT !.status = "accepted"]]
    BY <1>0, <1>5 DEF Submit, TypeOK
  <2>2. QED BY <1>3, <1>4, <1>5, <2>1 DEF Submit, Status
<1>6. ASSUME NEW j \in Job, Dispatch(j) PROVE Outside
  <2>1. job' = [job EXCEPT ![j] = job[j]]
    BY <1>0, <1>6 DEF Dispatch, TypeOK
  <2>2. QED BY <1>1, <1>3, <1>6, <2>1 DEF Dispatch
<1>7. ASSUME NEW j \in Job, RetryIngestion(j) PROVE Outside
  <2>1. NewGeneration(job[j]).generation = job[j].generation + 1
    BY DEF NewGeneration, AbsentJob
  <2>2. QED BY <1>3, <1>7, <2>1 DEF RetryIngestion
<1>8. ASSUME NEW j \in Job, NEW status \in AdminStatus, UpdateStatus(j, status) PROVE Outside
  <2>1. job' = [job EXCEPT ![j] = [job[j] EXCEPT !.status = status]]
    BY <1>0, <1>8 DEF UpdateStatus, TypeOK
  <2>2. QED BY <1>3, <1>4, <1>8, <2>1 DEF UpdateStatus
<1>9. ASSUME NEW j \in Job, DeadlinePasses(j) PROVE Outside
  <2>1. SameCursor(job[j], [job[j] EXCEPT !.deadline = "past"])
    BY <1>0 DEF SameCursor, JobRow
  <2>2. job' = [job EXCEPT ![j] = [job[j] EXCEPT !.deadline = "past"]]
    BY <1>0, <1>9 DEF DeadlinePasses, TypeOK
  <2>3. QED BY <1>3, <1>9, <2>1, <2>2 DEF DeadlinePasses
<1>10. ASSUME NEW i \in Identity, Stall(i) PROVE Outside
  BY <1>0, <1>2, <1>10 DEF Stall, tables, TypeOK
<1>11. ASSUME NEW i \in Identity, RecoverUpload(i) \/ ParseEnds(i)
                 \/ \E kind \in {"upload", "parse"} : LateEffect(kind, i)
       PROVE  Outside
  BY <1>2, <1>11 DEF RecoverUpload, ParseEnds, LateEffect, tables
<1>12. CASE UNCHANGED vars
  BY <1>2, <1>12 DEF vars, tables
<1>13. QED BY <1>5, <1>6, <1>7, <1>8, <1>9, <1>10, <1>11, <1>12

(* A worker that is idle or has just got its message handles nothing. *)
LEMMA NotHandling ==
    ASSUME TypeInv, NEW w \in Worker,
           Commit(w) \/ LeaseLost(w) \/ Crash(w) \/ \E m \in sent : Claim(w, m)
    PROVE  /\ worker'[w].pc \notin Handling
           /\ \A v \in Worker \ {w} :
                 /\ worker'[v] = worker[v]
                 /\ worker[v].pc \in Handling => (HoldsLease(v)' => HoldsLease(v))
<1>1. CASE Commit(w) \/ LeaseLost(w) \/ Crash(w)
  <2>1. Leaves(w)
    BY <1>1, CommitLeaves, LeaveLeaves DEF LeaseLost, Crash, Guarded, Step, Final, At
  <2>2. ASSUME NEW v \in Worker \ {w}, worker[v].pc \in Handling, HoldsLease(v)'
        PROVE  HoldsLease(v)
    <3>1. IdOf(v) \in Identity /\ IdOf(v)' = IdOf(v)
      BY <2>1, <2>2, BusyMessage DEF Handling, Step, Final, Leaves, IdOf, JobOf
    <3>2. QED BY <2>1, <2>2, <3>1 DEF Leaves, HoldsLease
  <2>3. QED BY <2>1, <2>2 DEF Leaves, Idle, Handling, Step, Final
<1>2. CASE \E m \in sent : Claim(w, m)
  <2>1. /\ worker'[w].pc = "load"
        /\ \A v \in Worker \ {w} : worker'[v] = worker[v]
        /\ \A v \in Worker \ {w}, i \in Identity : holder'[i] = v => holder[i] = v
    <3>1. PICK m \in sent : Claim(w, m)
      BY <1>2
    <3>2. worker \in [Worker -> WorkerState] /\ holder \in [Identity -> Worker \cup {None}]
      BY DEF TypeInv, TypeOK
    <3>3. worker' = [worker EXCEPT ![w] = [Idle EXCEPT !.pc = "load", !.message = m]]
      BY <3>1 DEF Claim
    <3>4. [Idle EXCEPT !.pc = "load", !.message = m].pc = "load"
      BY DEF Idle
    <3>5. holder' = [holder EXCEPT ![IdentityOf[m.job]] = w]
      BY <3>1 DEF Claim
    <3>6. QED BY <3>2, <3>3, <3>4, <3>5
  <2>2. ASSUME NEW v \in Worker \ {w}, worker[v].pc \in Handling, HoldsLease(v)'
        PROVE  HoldsLease(v)
    <3>1. IdOf(v) \in Identity /\ IdOf(v)' = IdOf(v)
      BY <2>1, <2>2, BusyMessage DEF Handling, Step, Final, IdOf, JobOf
    <3>2. QED BY <2>1, <2>2, <3>1 DEF HoldsLease
  <2>3. QED BY <2>1, <2>2 DEF Handling
<1>3. QED BY <1>1, <1>2

(* No row goes back in any step, and every new message is at the cursor or *)
(* at the first step of its generation.                                    *)
LEMMA StepAdvances ==
    ASSUME TypeInv, TypeInv', CursorInv, [Next]_vars
    PROVE  /\ \A j \in Job : Advances(job[j], job'[j])
           /\ \A m \in sent' \ sent : /\ m.generation = job'[m.job].generation
                                      /\ m.step \in {0, job'[m.job].step}
<1>1. CASE Outside
  <2>1. \A j \in Job : job[j] \in JobRow /\ job'[j] \in JobRow
    BY DEF TypeInv, TypeOK
  <2>2. \A j \in Job : job'[j].generation = job[j].generation + 1 => Advances(job[j], job'[j])
    BY <2>1 DEF Advances, JobRow, Generation
  <2>3. QED BY <1>1, <2>1, <2>2, SameAdvances DEF Outside
<1>2. ASSUME NEW w \in Worker, Internal(w)
      PROVE  sent' = sent /\ \A j \in Job : Advances(job[j], job'[j])
  BY <1>2, InternalMoves, InternalCursor, SameAdvances DEF TypeInv, TypeOK
<1>3. ASSUME NEW w \in Worker, Commit(w)
      PROVE  /\ \A j \in Job : Advances(job[j], job'[j])
             /\ \A m \in sent' \ sent : /\ m.generation = job'[m.job].generation
                                        /\ m.step \in {0, job'[m.job].step}
  BY <1>3, CommitCursor DEF CursorInv
<1>4. ASSUME NEW w \in Worker, LeaseLost(w) \/ Crash(w) \/ \E m \in sent : Claim(w, m)
      PROVE  sent' = sent /\ \A j \in Job : Advances(job[j], job'[j])
  <2>1. job' = job /\ sent' = sent
    BY <1>4 DEF LeaseLost, Crash, Claim, tables
  <2>2. QED BY <2>1, SameAdvances DEF SameCursor, TypeInv, TypeOK
<1>5. QED BY <1>1, <1>2, <1>3, <1>4, OutsideSteps DEF Next, HandlerStep, Internal, Commit

(* The cursor a worker holds under its lease stays where it is. *)
LEMMA StepHeld ==
    ASSUME TypeInv, TypeInv', CursorInv, [Next]_vars
    PROVE  CursorHeld'
<1> SUFFICES ASSUME NEW v \in Worker, worker'[v].pc \in Handling, Current(v)'
             PROVE  /\ job'[JobOf(v)'].step = StepOf(v)'
                    /\ job'[JobOf(v)'].phase = "poll" => worker'[v].phase = "poll"
  BY DEF CursorHeld
<1>0. CursorHeld /\ NeverAhead
  BY DEF CursorInv
<1>1. CASE Outside
  <2>1. worker'[v] = worker[v]
    BY <1>1 DEF Outside
  <2>2. worker[v].message \in sent /\ IdOf(v) \in Identity /\ JobOf(v) \in Job
    BY <2>1, BusyMessage DEF Handling, Step, Final
  <2>3. HoldsLease(v)' => HoldsLease(v)
    BY <1>1, <2>1, <2>2 DEF Outside, HoldsLease, IdOf, JobOf
  <2>4. GenerationOf(v) \in Nat /\ job[JobOf(v)].generation \in Nat
    <3>1. worker[v].message \in Message /\ job[JobOf(v)] \in JobRow
      BY <2>2 DEF TypeInv, TypeOK
    <3>2. GenerationOf(v) \in Generation /\ job[JobOf(v)].generation \in Generation
      BY <3>1 DEF Message, JobRow, GenerationOf
    <3>3. QED BY <3>2 DEF Generation
  <2>5. GenerationOf(v) <= job[JobOf(v)].generation
    BY <1>0, <2>2, <2>4 DEF NeverAhead, GenerationOf, JobOf
  <2>6. SameCursor(job[JobOf(v)], job'[JobOf(v)]) \/ job'[JobOf(v)].generation # GenerationOf(v)
    BY <1>1, <2>2, <2>4, <2>5 DEF Outside
  <2>7. QED BY <1>0, <2>1, <2>3, <2>6, HeldKeeps
<1>2. ASSUME NEW w \in Worker, Internal(w)
      PROVE  /\ job'[JobOf(v)'].step = StepOf(v)'
             /\ job'[JobOf(v)'].phase = "poll" => worker'[v].phase = "poll"
  <2>1. Moves(w) /\ holder' = holder /\ worker[w].pc \in Step
    BY <1>2, InternalMoves
  <2>2. \A j \in Job : SameCursor(job[j], job'[j])
    BY <1>2, InternalCursor
  <2>3. CASE v # w
    <3>1. worker'[v] = worker[v]
      BY <2>1, <2>3 DEF Moves
    <3>2. JobOf(v) \in Job
      BY <3>1, BusyMessage DEF Handling, Step, Final
    <3>3. HoldsLease(v)' => HoldsLease(v)
      BY <2>1, <3>1 DEF HoldsLease, IdOf, JobOf
    <3>4. QED BY <1>0, <2>2, <3>1, <3>2, <3>3, HeldKeeps
  <2>4. CASE v = w
    <3>1. /\ JobOf(w)' = JobOf(w) /\ StepOf(w)' = StepOf(w)
          /\ GenerationOf(w)' = GenerationOf(w) /\ IdOf(w)' = IdOf(w)
      BY <2>1 DEF Moves, JobOf, StepOf, GenerationOf, IdOf
    <3>2. JobOf(w) \in Job
      BY <2>1, BusyMessage DEF Step, Final
    <3>3. Current(w)
      BY <2>1, <2>2, <2>4, <3>1, <3>2 DEF Current, HoldsLease, SameCursor
    <3>4. worker'[w].pc # "ack"
      BY <2>4 DEF Handling
    <3>5. /\ job[JobOf(w)].step = StepOf(w)
          /\ job[JobOf(w)].phase = "poll" => worker'[w].phase = "poll"
      BY <1>0, <1>2, <3>3, <3>4, InternalCursor DEF CursorHeld, AtCursor
    <3>6. QED BY <2>2, <2>4, <3>1, <3>2, <3>5 DEF SameCursor
  <2>5. QED BY <2>3, <2>4
<1>3. ASSUME NEW w \in Worker, Commit(w) \/ LeaseLost(w) \/ Crash(w) \/ \E m \in sent : Claim(w, m)
      PROVE  /\ job'[JobOf(v)'].step = StepOf(v)'
             /\ job'[JobOf(v)'].phase = "poll" => worker'[v].phase = "poll"
  <2>1. v # w /\ worker'[v] = worker[v]
    BY <1>3, NotHandling
  <2>2. HoldsLease(v)' => HoldsLease(v)
    BY <1>3, <2>1, NotHandling
  <2>3. JobOf(v) \in Job
    BY <2>1, BusyMessage DEF Handling, Step, Final
  <2>4. \/ SameCursor(job[JobOf(v)], job'[JobOf(v)])
        \/ ~HoldsLease(v)'
    <3>1. CASE Commit(w)
      <4>1. ASSUME JobOf(v) = JobOf(w), HoldsLease(v)' PROVE FALSE
        <5>1. HoldsLease(v) /\ HoldsLease(w)
          BY <1>0, <2>2, <3>1, <4>1, CommitCursor
        <5>2. QED BY <2>1, <4>1, <5>1 DEF HoldsLease, IdOf
      <4>2. JobOf(v) # JobOf(w) => job'[JobOf(v)] = job[JobOf(v)]
        BY <1>0, <2>3, <3>1, CommitCursor
      <4>3. QED BY <4>1, <4>2 DEF SameCursor
    <3>2. CASE LeaseLost(w) \/ Crash(w) \/ \E m \in sent : Claim(w, m)
      BY <3>2 DEF LeaseLost, Crash, Claim, tables, SameCursor
    <3>3. QED BY <1>3, <3>1, <3>2
  <2>5. QED BY <1>0, <2>1, <2>2, <2>4, HeldKeeps
<1>4. QED BY <1>1, <1>2, <1>3, OutsideSteps DEF Next, HandlerStep, Internal, Commit

(* CursorInv is inductive relative to TypeInv. *)
LEMMA StepCursor == TypeInv /\ TypeInv' /\ CursorInv /\ [Next]_vars => CursorInv'
BY StepAdvances, StepHeld, AheadKeeps DEF CursorInv

(* CursorInv holds in every reachable state. *)
THEOREM CursorSafety == Spec => []CursorInv
<1>1. Init => CursorInv
  BY DEF Init, CursorInv, NeverAhead, CursorHeld, Idle, Handling, Step, Final
<1>2. QED BY <1>1, StepCursor, TypeSafety, PTL DEF Spec

(* process_ingestion_job refuses none of the runtime's own messages: no    *)
(* command is ahead of its job's cursor.                                   *)
THEOREM CommandsBehind == Spec => []NeverAhead
<1>1. CursorInv => NeverAhead
  BY DEF CursorInv
<1>2. QED BY <1>1, CursorSafety, PTL

(* No stale worker, late timer or retry takes a job's cursor back.         *)
THEOREM CursorAdvances == Spec => CursorOnlyAdvances
<1> DEFINE Step1 == \A j \in Job : Advances(job[j], job'[j])
<1>1. TypeInv /\ TypeInv' /\ CursorInv /\ [Next]_vars => [Step1]_vars
  BY StepAdvances
<1>2. [][Step1]_vars <=> CursorOnlyAdvances
  <2>1. Step1 <=> \A j \in Job :
          LET old == job[j]  new == job'[j] IN
          \/ new.generation > old.generation
          \/ /\ new.generation = old.generation
             /\ new.step >= old.step
             /\ old.phase = "poll" => new.phase = "poll"
             /\ old.upload => new.upload
             /\ old.deadline # None => new.deadline \in {old.deadline, "past"}
    BY DEF Advances
  <2>2. QED BY <2>1, PTL DEF CursorOnlyAdvances
<1> HIDE DEF Step1
<1>3. QED BY <1>1, <1>2, TypeSafety, CursorSafety, PTL DEF Spec

-----------------------------------------------------------------------------
(* A job that is not terminal has an open message at its cursor, if        *)
(* administrators only end jobs.                                           *)

(* A job that was not accepted has neither cursor nor messages; who holds  *)
(* the lease of an identity has a message that nobody has acknowledged,    *)
(* and is about to acknowledge it unread only when it is obsolete.         *)
ContinueInv ==
    /\ \A j \in Job : job[j].status = "absent" =>
          job[j] = AbsentJob /\ \A m \in sent : m.job # j
    /\ \A w \in Worker : worker[w].pc # "idle" /\ HoldsLease(w) =>
          /\ worker[w].message \notin inbox
          /\ worker[w].pc = "ack" => Obsolete(w)
    /\ Continues

(* What a step outside the workers does to a row's status.                 *)
Requested(j) ==
    \/ job'[j] = job[j]
    \/ /\ SameCursor(job[j], job'[j])
       /\ job[j].status # "absent"
       /\ job'[j].status \in {job[j].status} \cup Terminal
    \/ /\ job'[j].status = "accepted"
       /\ Command(j, job'[j].generation, job'[j].step) \in sent'
       /\ \/ /\ job[j].status = "absent" /\ job'[j].generation = job[j].generation
             /\ job'[j].step = 0
          \/ /\ job[j].status # "absent" /\ job'[j].generation = job[j].generation + 1
             /\ job'[j].step = 0

(* Every such step does that, and messages are those of accepted jobs. *)
LEMMA OutsideStatus ==
    ASSUME AdminStatus \subseteq Terminal, TypeInv, ContinueInv,
           \/ UNCHANGED vars
           \/ \E j \in Job : \/ Submit(j) \/ Dispatch(j) \/ RetryIngestion(j)
                             \/ \E status \in AdminStatus : UpdateStatus(j, status)
                             \/ DeadlinePasses(j)
           \/ \E i \in Identity : \/ RecoverUpload(i) \/ Stall(i) \/ ParseEnds(i)
                                  \/ \E kind \in {"upload", "parse"} : LateEffect(kind, i)
    PROVE  /\ \A j \in Job : Requested(j)
           /\ \A m \in sent' \ sent : job'[m.job].status # "absent"
<1>0. TypeOK /\ \A j \in Job : job[j] \in JobRow
  BY DEF TypeInv, TypeOK
<1>1. CASE UNCHANGED <<job, sent>>
  BY <1>1 DEF Requested
<1>2. ASSUME NEW j \in Job, NEW row, job' = [job EXCEPT ![j] = row]
      PROVE  job'[j] = row /\ \A k \in Job \ {j} : job'[k] = job[k]
  BY <1>0, <1>2 DEF TypeOK
<1>3. ASSUME NEW j \in Job, EnqueueIngestion(j)
      PROVE  /\ Command(j, job'[j].generation, 0) \in sent'
             /\ \A m \in sent' \ sent : m.job = j
  BY <1>3 DEF EnqueueIngestion, Command
<1>4. ASSUME NEW j \in Job, Submit(j)
      PROVE  /\ \A k \in Job : Requested(k)
             /\ \A m \in sent' \ sent : job'[m.job].status # "absent"
  <2>1. job[j].status = "absent" /\ job[j] = AbsentJob
    BY <1>4 DEF Submit, ContinueInv
  <2>2. job' = [job EXCEPT ![j] = [job[j] EXCEPT !.status = "accepted"]]
    BY <1>0, <1>4 DEF Submit, TypeOK
  <2>3. /\ job'[j].status = "accepted" /\ job'[j].step = 0
        /\ job'[j].generation = job[j].generation
    <3>1. job'[j] = [job[j] EXCEPT !.status = "accepted"]
      BY <1>2, <2>2
    <3>2. AbsentJob.step = 0
      BY DEF AbsentJob
    <3>3. QED BY <1>0, <2>1, <3>1, <3>2 DEF JobRow
  <2>4. EnqueueIngestion(j)
    BY <1>4 DEF Submit
  <2>5. QED BY <1>2, <1>3, <2>1, <2>2, <2>3, <2>4 DEF Requested
<1>5. ASSUME NEW j \in Job, Dispatch(j)
      PROVE  /\ \A k \in Job : Requested(k)
             /\ \A m \in sent' \ sent : job'[m.job].status # "absent"
  BY <1>3, <1>5 DEF Dispatch, Requested
<1>6. ASSUME NEW j \in Job, RetryIngestion(j)
      PROVE  /\ \A k \in Job : Requested(k)
             /\ \A m \in sent' \ sent : job'[m.job].status # "absent"
  <2>1. job[j].status # "absent" /\ EnqueueIngestion(j)
    BY <1>6 DEF RetryIngestion
  <2>2. /\ job'[j].status = "accepted" /\ job'[j].step = 0
        /\ job'[j].generation = job[j].generation + 1
        /\ \A k \in Job \ {j} : job'[k] = job[k]
    <3>1. job' = [job EXCEPT ![j] = NewGeneration(job[j])]
      BY <1>6 DEF RetryIngestion
    <3>2. /\ NewGeneration(job[j]).status = "accepted"
          /\ NewGeneration(job[j]).step = 0
          /\ NewGeneration(job[j]).generation = job[j].generation + 1
      BY DEF NewGeneration, AbsentJob
    <3>3. QED BY <1>2, <3>1, <3>2
  <2>3. QED BY <1>3, <2>1, <2>2 DEF Requested
<1>7. ASSUME NEW j \in Job, NEW status \in AdminStatus, UpdateStatus(j, status)
      PROVE  /\ \A k \in Job : Requested(k)
             /\ \A m \in sent' \ sent : job'[m.job].status # "absent"
  <2> DEFINE row == [job[j] EXCEPT !.status = status]
  <2>1. /\ job[j].status # "absent" /\ sent' = sent
        /\ job' = [job EXCEPT ![j] = row]
    BY <1>0, <1>7 DEF UpdateStatus, TypeOK
  <2>2. SameCursor(job[j], row) /\ row.status \in Terminal
    BY <1>0 DEF SameCursor, JobRow
  <2>3. QED BY <1>2, <2>1, <2>2 DEF Requested
<1>8. ASSUME NEW j \in Job, DeadlinePasses(j)
      PROVE  /\ \A k \in Job : Requested(k)
             /\ \A m \in sent' \ sent : job'[m.job].status # "absent"
  <2> DEFINE row == [job[j] EXCEPT !.deadline = "past"]
  <2>1. sent' = sent /\ job' = [job EXCEPT ![j] = row] /\ job[j].deadline = "future"
    BY <1>0, <1>8 DEF DeadlinePasses, TypeOK
  <2>2. SameCursor(job[j], row) /\ row.status = job[j].status
    BY <1>0 DEF SameCursor, JobRow
  <2>3. CASE job[j].status # "absent"
    BY <1>2, <2>1, <2>2, <2>3 DEF Requested
  <2>4. CASE job[j].status = "absent"
    <3>1. job[j] = AbsentJob
      BY <2>4 DEF ContinueInv
    <3>2. AbsentJob.deadline = None
      BY DEF AbsentJob
    <3>3. QED BY <2>1, <3>1, <3>2
  <2>5. QED BY <2>3, <2>4
<1>9. ASSUME NEW i \in Identity, RecoverUpload(i) \/ Stall(i) \/ ParseEnds(i)
                 \/ \E kind \in {"upload", "parse"} : LateEffect(kind, i)
      PROVE  UNCHANGED <<job, sent>>
  BY <1>9 DEF RecoverUpload, Stall, ParseEnds, LateEffect, tables
<1>10. UNCHANGED vars => UNCHANGED <<job, sent>>
  BY DEF vars, tables
<1>11. QED BY <1>1, <1>4, <1>5, <1>6, <1>7, <1>8, <1>9, <1>10

(* What a worker's step does to a row's status: it changes the status only *)
(* of the job of its message, under the lease, and never to absent.        *)
LEMMA WorkerStatus ==
    ASSUME TypeInv, CursorInv, ContinueInv, NEW w \in Worker, Internal(w) \/ Commit(w)
    PROVE  /\ worker[w].message \in sent /\ JobOf(w) \in Job
           /\ job[JobOf(w)].status # "absent"
           /\ \A j \in Job \ {JobOf(w)} : job'[j] = job[j]
           /\ job'[JobOf(w)].status # "absent"
           /\ ~HoldsLease(w) => job'[JobOf(w)].status = job[JobOf(w)].status
<1>1. TypeOK /\ worker[w].pc # "idle"
  BY InternalMoves, CommitLeaves DEF TypeInv, Step, Final
<1>2. worker[w].message \in sent /\ JobOf(w) \in Job
  BY <1>1, BusyMessage
<1>3. job[JobOf(w)].status # "absent"
  BY <1>2 DEF ContinueInv, JobOf
<1>4. job[JobOf(w)] \in JobRow /\ worker[w].message \in Message
  BY <1>1, <1>2 DEF TypeOK
<1>5. ASSUME NEW row, job' = [job EXCEPT ![JobOf(w)] = row]
      PROVE  job'[JobOf(w)] = row /\ \A j \in Job \ {JobOf(w)} : job'[j] = job[j]
  BY <1>1, <1>2, <1>5 DEF TypeOK
<1>6. CASE MarkRunning(w)
  <2>1. job' = [job EXCEPT ![JobOf(w)] = [job[JobOf(w)] EXCEPT !.status = "running"]]
    BY <1>1, <1>2, <1>6 DEF MarkRunning, TypeOK
  <2>2. [job[JobOf(w)] EXCEPT !.status = "running"].status = "running"
    BY <1>4 DEF JobRow
  <2>3. HoldsLease(w)
    BY <1>6 DEF MarkRunning, Current
  <2>4. QED BY <1>2, <1>3, <1>5, <2>1, <2>2, <2>3
<1>7. CASE PlanParse(w)
  <2>1. job' = [job EXCEPT ![JobOf(w)] = Planned(job[JobOf(w)], worker[w].message)]
    BY <1>1, <1>2, <1>7 DEF PlanParse, TypeOK
  <2>2. Planned(job[JobOf(w)], worker[w].message).status = job[JobOf(w)].status
    BY <1>4 DEF Planned, JobRow
  <2>3. QED BY <1>2, <1>3, <1>5, <2>1, <2>2
<1>8. ASSUME NEW status \in Status \ {"absent"}, End(w, status), HoldsLease(w)
      PROVE  /\ \A j \in Job \ {JobOf(w)} : job'[j] = job[j]
             /\ job'[JobOf(w)].status # "absent"
  <2>1. job' = [job EXCEPT ![JobOf(w)] = [job[JobOf(w)] EXCEPT
                              !.status = status, !.phase = worker[w].phase]]
    BY <1>1, <1>2, <1>8 DEF End, TypeOK
  <2>2. [job[JobOf(w)] EXCEPT !.status = status, !.phase = worker[w].phase].status = status
    BY <1>4 DEF JobRow
  <2>3. QED BY <1>5, <1>8, <2>1, <2>2
<1>9. CASE Reconcile(w) \/ FailJob(w) \/ CompleteIngestion(w) \/ (SchedulePoll(w) /\ Overdue(w))
  <2>1. HoldsLease(w) /\ \E status \in Status \ {"absent"} : End(w, status)
    BY <1>9 DEF Reconcile, FailJob, CompleteIngestion, SchedulePoll, Status, Terminal, Current
  <2>2. QED BY <1>2, <1>3, <1>8, <2>1
<1>10. CASE SchedulePoll(w) /\ ~Overdue(w)
  <2>1. job' = [job EXCEPT ![JobOf(w)] =
                   Following(job[JobOf(w)], worker[w].message, worker[w].phase)]
    BY <1>1, <1>2, <1>10 DEF SchedulePoll, TypeOK
  <2>2. Following(job[JobOf(w)], worker[w].message, worker[w].phase).status = job[JobOf(w)].status
    BY <1>4 DEF Following, JobRow
  <2>3. QED BY <1>2, <1>3, <1>5, <2>1, <2>2
<1>11. CASE UNCHANGED job
  BY <1>2, <1>3, <1>11
<1>12. UNCHANGED job \/ MarkRunning(w) \/ PlanParse(w) \/ Reconcile(w) \/ FailJob(w)
         \/ CompleteIngestion(w) \/ SchedulePoll(w)
  BY DEF Internal, Commit, AckObsolete, LoadObsolete, LoadJob, TimedOut, Error, ReadFailed,
         Ambiguous, UploadIntent, UploadKnown, FindDocument, ClaimUpload,
         AssertUpload, UploadDocument, UploadUnknown, ConfirmUpload,
         PlanPoll, LookAtDocument, CheckParse, ClaimParse, AssertParse,
         ParseDocument, ParseUnknown, ConfirmParse, Observe, Conclude, tables
<1>13. QED BY <1>6, <1>7, <1>9, <1>10, <1>11, <1>12

(* A message is the command of its fields. *)
LEMMA MessageCommand ==
    ASSUME TypeInv, NEW w \in Worker, worker[w].pc # "idle"
    PROVE  worker[w].message = Command(JobOf(w), GenerationOf(w), StepOf(w))
BY BusyMessage DEF Message, Command, JobOf, GenerationOf, StepOf

(* A command the cursor has left behind, or of a terminal job, stays so    *)
(* until the job gets a new generation.                                    *)
LEMMA ObsoleteKeeps ==
    ASSUME TypeInv, TypeInv', NeverAhead, NEW v \in Worker, worker[v].pc # "idle",
           worker'[v].message = worker[v].message, Obsolete(v),
           Advances(job[JobOf(v)], job'[JobOf(v)]),
           \/ job'[JobOf(v)].status \in Terminal
           \/ job'[JobOf(v)].status = job[JobOf(v)].status
           \/ job'[JobOf(v)].generation > job[JobOf(v)].generation
    PROVE  Obsolete(v)'
<1>1. /\ JobOf(v)' = JobOf(v) /\ StepOf(v)' = StepOf(v) /\ GenerationOf(v)' = GenerationOf(v)
  BY DEF JobOf, StepOf, GenerationOf
<1>2. /\ JobOf(v) \in Job /\ worker[v].message \in sent
      /\ GenerationOf(v) \in Nat /\ StepOf(v) \in Nat
  BY BusyMessage DEF Generation
<1>3. job[JobOf(v)] \in JobRow /\ job'[JobOf(v)] \in JobRow
  BY <1>2 DEF TypeInv, TypeOK
<1>4. /\ job[JobOf(v)].generation \in Nat /\ job[JobOf(v)].step \in Nat
      /\ job'[JobOf(v)].generation \in Nat /\ job'[JobOf(v)].step \in Nat
  BY <1>3 DEF JobRow, Generation
<1>5. GenerationOf(v) <= job[JobOf(v)].generation
  BY <1>2, <1>4 DEF NeverAhead, GenerationOf, JobOf
<1>6. QED BY <1>1, <1>2, <1>4, <1>5 DEF Obsolete, Advances

(* Unaccepted jobs stay without cursor and messages. *)
LEMMA StepAbsent ==
    ASSUME AdminStatus \subseteq Terminal, TypeInv, TypeInv', CursorInv, ContinueInv, [Next]_vars
    PROVE  \A j \in Job : job'[j].status = "absent" =>
              job'[j] = AbsentJob /\ \A m \in sent' : m.job # j
<1> SUFFICES ASSUME NEW j \in Job, job'[j].status = "absent"
             PROVE  job'[j] = AbsentJob /\ \A m \in sent' : m.job # j
  OBVIOUS
<1>1. ASSUME job'[j] = job[j], \A m \in sent' \ sent : job'[m.job].status # "absent"
      PROVE  job'[j] = AbsentJob /\ \A m \in sent' : m.job # j
  BY <1>1 DEF ContinueInv
<1>2. ASSUME \A k \in Job : Requested(k), \A m \in sent' \ sent : job'[m.job].status # "absent"
      PROVE  job'[j] = AbsentJob /\ \A m \in sent' : m.job # j
  <2>1. Requested(j)
    BY <1>2
  <2>2. job'[j] = job[j]
    BY <2>1 DEF Requested, Terminal
  <2>3. QED BY <1>1, <1>2, <2>2
<1>3. ASSUME NEW w \in Worker, Internal(w) \/ Commit(w)
      PROVE  job'[j] = AbsentJob /\ \A m \in sent' : m.job # j
  <2>1. job'[j] = job[j] /\ job'[JobOf(w)].status # "absent"
    BY <1>3, WorkerStatus
  <2>2. \A m \in sent' \ sent : m.job = JobOf(w)
    BY <1>3, InternalMoves, CommitCursor DEF CursorInv
  <2>3. QED BY <1>1, <2>1, <2>2
<1>4. ASSUME NEW w \in Worker, LeaseLost(w) \/ Crash(w) \/ \E m \in sent : Claim(w, m)
      PROVE  job'[j] = AbsentJob /\ \A m \in sent' : m.job # j
  BY <1>1, <1>4 DEF LeaseLost, Crash, Claim, tables
<1>5. QED BY <1>2, <1>3, <1>4, OutsideStatus DEF Next, HandlerStep, Internal, Commit

(* Who takes the way to an acknowledgement has seen an obsolete command. *)
LEMMA AckIsObsolete ==
    ASSUME TypeInv, NEW w \in Worker, Internal(w), worker'[w].pc = "ack"
    PROVE  Obsolete(w) /\ job' = job
<1>0. TypeOK /\ worker[w] \in WorkerState
  BY DEF TypeInv, TypeOK
<1>1. ASSUME NEW pc \in Step \ {"load", "ack"}, Go(w, pc)
      PROVE  FALSE
  BY <1>0, <1>1, GoMoves
<1>2. LoadObsolete(w)
  <2>1. ~(LoadJob(w) \/ LookAtDocument(w) \/ Observe(w) \/ ConfirmParse(w))
    BY <1>0 DEF LoadJob, LookAtDocument, Observe, ConfirmParse, TypeOK, WorkerState
  <2>2. ~Conclude(w)
    <3>1. worker[w].run \in Run
      BY <1>0 DEF WorkerState
    <3>2. Conclude(w) => \E pc \in {"complete", "fail", "schedule"} : Go(w, pc)
      BY <3>1 DEF Conclude, Run
    <3>3. QED BY <1>1, <3>2 DEF Step, Final
  <2>3. ~(MarkRunning(w) \/ TimedOut(w) \/ Error(w) \/ ReadFailed(w) \/ Ambiguous(w)
          \/ UploadIntent(w) \/ UploadKnown(w) \/ FindDocument(w) \/ ClaimUpload(w)
          \/ AssertUpload(w) \/ UploadDocument(w) \/ UploadUnknown(w) \/ ConfirmUpload(w))
    BY <1>1
    DEF MarkRunning, TimedOut, Error, ReadFailed, Ambiguous, UploadIntent, UploadKnown,
        FindDocument, ClaimUpload, AssertUpload, UploadDocument, UploadUnknown,
        ConfirmUpload, Step, Final
  <2>4. ~(PlanParse(w) \/ PlanPoll(w) \/ CheckParse(w) \/ ClaimParse(w)
          \/ AssertParse(w) \/ ParseDocument(w) \/ ParseUnknown(w))
    BY <1>1
    DEF PlanParse, PlanPoll, CheckParse, ClaimParse, AssertParse, ParseDocument,
        ParseUnknown, Step, Final
  <2>5. QED BY <2>1, <2>2, <2>3, <2>4 DEF Internal
<1>3. QED BY <1>2 DEF LoadObsolete, tables

(* What the holder of a lease has is open, and read unless obsolete. *)
LEMMA StepOpen ==
    ASSUME AdminStatus \subseteq Terminal, TypeInv, TypeInv', CursorInv, ContinueInv, [Next]_vars
    PROVE  \A v \in Worker : worker'[v].pc # "idle" /\ HoldsLease(v)' =>
              /\ worker'[v].message \notin inbox'
              /\ worker'[v].pc = "ack" => Obsolete(v)'
<1> SUFFICES ASSUME NEW v \in Worker, worker'[v].pc # "idle", HoldsLease(v)'
             PROVE  /\ worker'[v].message \notin inbox'
                    /\ worker'[v].pc = "ack" => Obsolete(v)'
  OBVIOUS
<1>0. NeverAhead /\ \A j \in Job : Advances(job[j], job'[j])
  BY StepAdvances DEF CursorInv
<1>1. ASSUME worker'[v] = worker[v], HoldsLease(v),
             worker[v].message \in inbox' => worker[v].message \in inbox,
             \/ job'[JobOf(v)].status \in Terminal
             \/ job'[JobOf(v)].status = job[JobOf(v)].status
             \/ job'[JobOf(v)].generation > job[JobOf(v)].generation
      PROVE  /\ worker'[v].message \notin inbox'
             /\ worker'[v].pc = "ack" => Obsolete(v)'
  <2>1. JobOf(v) \in Job
    BY <1>1, BusyMessage
  <2>2. worker'[v].message \notin inbox'
    BY <1>1 DEF ContinueInv
  <2>3. worker'[v].pc = "ack" => Obsolete(v)
    BY <1>1 DEF ContinueInv
  <2>4. QED BY <1>0, <1>1, <2>1, <2>2, <2>3, ObsoleteKeeps
<1>2. ASSUME Outside, \A j \in Job : Requested(j)
      PROVE  /\ worker'[v].message \notin inbox'
             /\ worker'[v].pc = "ack" => Obsolete(v)'
  <2>1. worker'[v] = worker[v] /\ inbox' = inbox
    BY <1>2 DEF Outside
  <2>2. JobOf(v) \in Job /\ IdOf(v) \in Identity /\ worker[v].message \in sent
    BY <2>1, BusyMessage
  <2>3. HoldsLease(v)
    BY <1>2, <2>1, <2>2 DEF Outside, HoldsLease, IdOf, JobOf
  <2>4. job[JobOf(v)].status # "absent" /\ job[JobOf(v)].generation \in Nat
    BY <2>2 DEF ContinueInv, JobOf, TypeInv, TypeOK, JobRow, Generation
  <2>5. \/ job'[JobOf(v)].status \in Terminal
        \/ job'[JobOf(v)].status = job[JobOf(v)].status
        \/ job'[JobOf(v)].generation > job[JobOf(v)].generation
    <3>1. Requested(JobOf(v))
      BY <1>2, <2>2
    <3>2. QED BY <2>4, <3>1 DEF Requested
  <2>6. QED BY <1>1, <2>1, <2>3, <2>5
<1>3. ASSUME NEW w \in Worker, Internal(w) \/ Commit(w), v # w
      PROVE  /\ worker'[v].message \notin inbox'
             /\ worker'[v].pc = "ack" => Obsolete(v)'
  <2>1. worker'[v] = worker[v]
    BY <1>3, InternalMoves, CommitLeaves DEF Moves, Leaves
  <2>2. IdOf(v) \in Identity /\ IdOf(v)' = IdOf(v) /\ JobOf(v) \in Job
    BY <2>1, BusyMessage DEF IdOf, JobOf
  <2>3. HoldsLease(v)
    BY <1>3, <2>1, <2>2, InternalMoves, CommitLeaves DEF HoldsLease, Leaves
  <2>4. HoldsLease(w) => IdOf(w) # IdOf(v)
    BY <1>3, <2>3 DEF HoldsLease
  <2>5. worker[v].message \in inbox' => worker[v].message \in inbox
    <3>1. CASE Internal(w)
      BY <3>1, InternalMoves
    <3>2. CASE Commit(w)
      <4>1. HoldsLease(w) /\ inbox' \in SUBSET (inbox \cup {worker[w].message})
        BY <3>2, CommitCursor, CommitTables DEF CursorInv
      <4>2. worker[v].message # worker[w].message
        BY <2>4, <4>1 DEF IdOf, JobOf
      <4>3. QED BY <4>1, <4>2
    <3>3. QED BY <1>3, <3>1, <3>2
  <2>6. job'[JobOf(v)].status = job[JobOf(v)].status
    <3>1. HoldsLease(w) => JobOf(w) # JobOf(v)
      BY <2>4 DEF IdOf
    <3>2. QED BY <1>3, <2>2, <3>1, WorkerStatus
  <2>7. QED BY <1>1, <2>1, <2>3, <2>5, <2>6
<1>4. ASSUME Internal(v)
      PROVE  /\ worker'[v].message \notin inbox'
             /\ worker'[v].pc = "ack" => Obsolete(v)'
  <2>1. /\ worker'[v].message = worker[v].message /\ worker[v].pc \in Step
        /\ inbox' = inbox /\ holder' = holder
    BY <1>4, InternalMoves DEF Moves
  <2>2. HoldsLease(v) /\ worker[v].pc # "idle"
    BY <2>1 DEF HoldsLease, IdOf, JobOf, Step, Final
  <2>3. worker'[v].message \notin inbox'
    BY <2>1, <2>2 DEF ContinueInv
  <2>4. worker'[v].pc = "ack" => Obsolete(v)'
    <3> SUFFICES ASSUME worker'[v].pc = "ack" PROVE Obsolete(v)'
      OBVIOUS
    <3>1. Obsolete(v) /\ job' = job
      BY <1>4, AckIsObsolete
    <3>2. QED BY <2>1, <3>1 DEF Obsolete, JobOf, GenerationOf, StepOf
  <2>5. QED BY <2>3, <2>4
<1>5. ASSUME NEW w \in Worker, LeaseLost(w) \/ Crash(w)
      PROVE  /\ worker'[v].message \notin inbox'
             /\ worker'[v].pc = "ack" => Obsolete(v)'
  <2>1. Leaves(w) /\ job' = job /\ inbox' = inbox
    BY <1>5, LeaveLeaves DEF LeaseLost, Crash, Guarded, Step, Final, At, tables
  <2>2. v # w /\ worker'[v] = worker[v]
    BY <2>1 DEF Leaves, Idle
  <2>3. IdOf(v) \in Identity /\ IdOf(v)' = IdOf(v)
    BY <2>2, BusyMessage DEF IdOf, JobOf
  <2>4. HoldsLease(v)
    BY <2>1, <2>2, <2>3 DEF Leaves, HoldsLease
  <2>5. QED BY <1>1, <2>1, <2>2, <2>4
<1>6. ASSUME NEW w \in Worker, NEW m \in sent, Claim(w, m)
      PROVE  /\ worker'[v].message \notin inbox'
             /\ worker'[v].pc = "ack" => Obsolete(v)'
  <2>0. /\ worker \in [Worker -> WorkerState] /\ holder \in [Identity -> Worker \cup {None}]
        /\ m \in Message
    BY DEF TypeInv, TypeOK
  <2>1. /\ worker' = [worker EXCEPT ![w] = [Idle EXCEPT !.pc = "load", !.message = m]]
        /\ holder' = [holder EXCEPT ![IdentityOf[m.job]] = w]
        /\ m \notin inbox /\ inbox' = inbox /\ job' = job
    BY <1>6 DEF Claim, tables
  <2>2. CASE v = w
    <3>1. worker'[v] = [Idle EXCEPT !.pc = "load", !.message = m]
      BY <2>0, <2>1, <2>2
    <3>2. worker'[v].pc = "load" /\ worker'[v].message = m
      BY <3>1 DEF Idle
    <3>3. QED BY <2>1, <3>2
  <2>3. CASE v # w
    <3>1. worker'[v] = worker[v]
      BY <2>0, <2>1, <2>3
    <3>2. IdOf(v) \in Identity /\ IdOf(v)' = IdOf(v)
      BY <3>1, BusyMessage DEF IdOf, JobOf
    <3>3. HoldsLease(v)
      BY <2>0, <2>1, <2>3, <3>1, <3>2 DEF HoldsLease
    <3>4. QED BY <1>1, <2>1, <3>1, <3>3
  <2>4. QED BY <2>2, <2>3
<1>7. ASSUME Commit(v) PROVE FALSE
  BY <1>7, CommitLeaves DEF Leaves, Idle
<1>8. QED
  BY <1>2, <1>3, <1>4, <1>5, <1>6, <1>7, OutsideSteps, OutsideStatus
  DEF Next, HandlerStep, Internal, Commit

(* The command at the cursor of a job. *)
Due(j) == Command(j, job[j].generation, job[j].step)

(* A worker that handles a message under its lease handles the one due,    *)
(* and nobody has acknowledged it.                                         *)
LEMMA HandlesDue ==
    ASSUME TypeInv, CursorInv, ContinueInv, NEW w \in Worker,
           worker[w].pc \in Handling, Current(w)
    PROVE  worker[w].message = Due(JobOf(w)) /\ worker[w].message \in sent \ inbox
<1>1. /\ worker[w].message = Command(JobOf(w), GenerationOf(w), StepOf(w))
      /\ worker[w].message \in sent
  BY MessageCommand, BusyMessage DEF Handling, Step, Final
<1>2. job[JobOf(w)].step = StepOf(w) /\ job[JobOf(w)].generation = GenerationOf(w)
  BY DEF CursorInv, CursorHeld, Current
<1>3. worker[w].message \notin inbox
  BY DEF ContinueInv, Handling, Step, Final, Current
<1>4. QED BY <1>1, <1>2, <1>3 DEF Due

(* What a commit does to the job of its message. *)
LEMMA CommitDue ==
    ASSUME TypeInv, CursorInv, ContinueInv, NEW w \in Worker, Commit(w),
           job'[JobOf(w)].status \notin Terminal \cup {"absent"}
    PROVE  Command(JobOf(w), job'[JobOf(w)].generation, job'[JobOf(w)].step)
              \in sent' \ inbox'
<1>0. TypeOK /\ worker[w].pc # "idle"
  BY CommitLeaves DEF TypeInv, Step, Final
<1>1. /\ JobOf(w) \in Job /\ worker[w].message \in Message
      /\ worker[w].message = Command(JobOf(w), GenerationOf(w), StepOf(w))
      /\ StepOf(w) \in Nat
  BY <1>0, BusyMessage, MessageCommand
<1>2. job[JobOf(w)] \in JobRow /\ worker[w] \in WorkerState
  BY <1>0, <1>1 DEF TypeOK
<1>3. ASSUME NEW row, job' = [job EXCEPT ![JobOf(w)] = row]
      PROVE  job'[JobOf(w)] = row
  BY <1>0, <1>1, <1>3 DEF TypeOK
<1>4. ASSUME NEW status \in Status, End(w, status)
      PROVE  /\ job'[JobOf(w)].status = status
             /\ job'[JobOf(w)].generation = job[JobOf(w)].generation
             /\ job'[JobOf(w)].step = job[JobOf(w)].step
  <2>1. job' = [job EXCEPT ![JobOf(w)] = [job[JobOf(w)] EXCEPT
                              !.status = status, !.phase = worker[w].phase]]
    BY <1>0, <1>1, <1>2, <1>4 DEF End, TypeOK
  <2>2. job'[JobOf(w)] = [job[JobOf(w)] EXCEPT !.status = status, !.phase = worker[w].phase]
    BY <1>3, <2>1
  <2>3. QED BY <1>2, <2>2 DEF JobRow
<1>5. CASE FailJob(w) \/ CompleteIngestion(w) \/ (SchedulePoll(w) /\ Overdue(w))
  <2>1. \E status \in Terminal : End(w, status)
    BY <1>5 DEF FailJob, CompleteIngestion, SchedulePoll, Terminal
  <2>2. QED BY <1>4, <2>1 DEF Status
<1>6. CASE Reconcile(w)
  <2>1. worker[w].pc \in Handling /\ Current(w) /\ UNCHANGED <<sent, inbox>>
    BY <1>6 DEF Reconcile, At, Handling, Step, Final
  <2>2. Due(JobOf(w)) \in sent \ inbox
    BY <2>1, HandlesDue
  <2>3. End(w, "reconciliation_required")
    BY <1>6 DEF Reconcile
  <2>4. /\ job'[JobOf(w)].generation = job[JobOf(w)].generation
        /\ job'[JobOf(w)].step = job[JobOf(w)].step
    BY <1>4, <2>3 DEF Status
  <2>5. Command(JobOf(w), job'[JobOf(w)].generation, job'[JobOf(w)].step) = Due(JobOf(w))
    BY <2>4 DEF Due
  <2>6. QED BY <2>1, <2>2, <2>5
<1>7. CASE AckObsolete(w)
  <2>1. Obsolete(w) /\ job' = job /\ sent' = sent /\ inbox' = inbox \cup {worker[w].message}
    BY <1>7 DEF AckObsolete, At, Acknowledge, ContinueInv
  <2>2. Due(JobOf(w)) \in sent \ inbox
    BY <1>1, <2>1 DEF ContinueInv, Continues, Due
  <2>3. /\ job[JobOf(w)].generation \in Nat /\ job[JobOf(w)].step \in Nat
        /\ GenerationOf(w) \in Nat
    BY <1>0, <1>2, BusyMessage DEF JobRow, Generation
  <2>4. \/ GenerationOf(w) # job[JobOf(w)].generation
        \/ StepOf(w) # job[JobOf(w)].step
    BY <1>1, <2>1, <2>3 DEF Obsolete
  <2>5. Due(JobOf(w)) # worker[w].message
    BY <1>1, <2>4 DEF Due, Command
  <2>6. QED BY <2>1, <2>2, <2>5 DEF Due
<1>8. CASE SchedulePoll(w) /\ ~Overdue(w)
  <2>1. worker[w].pc \in Handling /\ Current(w)
    BY <1>8 DEF SchedulePoll, At, Handling, Step, Final
  <2>2. job'[JobOf(w)] = Following(job[JobOf(w)], worker[w].message, worker[w].phase)
    <3>1. job' = [job EXCEPT ![JobOf(w)] =
                     Following(job[JobOf(w)], worker[w].message, worker[w].phase)]
      BY <1>0, <1>1, <1>8 DEF SchedulePoll, TypeOK
    <3>2. QED BY <1>3, <3>1
  <2>3. /\ job'[JobOf(w)].generation = GenerationOf(w)
        /\ job'[JobOf(w)].step = StepOf(w) + 1
    BY <1>2, <2>2 DEF Following, JobRow, GenerationOf, StepOf
  <2> DEFINE next == Command(JobOf(w), GenerationOf(w), StepOf(w) + 1)
  <2>4. next \in sent' /\ inbox' = inbox \cup {worker[w].message}
    BY <1>8 DEF SchedulePoll, Acknowledge
  <2>5. next # worker[w].message
    BY <1>1 DEF Command
  <2>6. /\ job[JobOf(w)].step = StepOf(w) /\ job[JobOf(w)].generation = GenerationOf(w)
        /\ GenerationOf(w) \in Nat
    BY <1>0, <2>1, BusyMessage DEF CursorInv, CursorHeld, Current, Generation
  <2>7. next.job = JobOf(w) /\ next.generation = GenerationOf(w) /\ next.step = StepOf(w) + 1
    BY DEF Command
  <2>8. next \notin sent
    <3> SUFFICES ASSUME next \in sent PROVE FALSE
      OBVIOUS
    <3>1. \/ next.generation < job[next.job].generation
          \/ next.generation = job[next.job].generation /\ next.step <= job[next.job].step
      BY DEF CursorInv, NeverAhead
    <3> HIDE DEF next
    <3>2. QED BY <1>1, <2>6, <2>7, <3>1
  <2>9. next \notin inbox
    BY <1>0, <2>8 DEF TypeOK
  <2>10. QED BY <2>3, <2>4, <2>5, <2>9
<1>9. QED BY <1>5, <1>6, <1>7, <1>8 DEF Commit

(* Every open job has its due command, unacknowledged. *)
LEMMA StepContinues ==
    ASSUME AdminStatus \subseteq Terminal, TypeInv, TypeInv', CursorInv, ContinueInv, [Next]_vars
    PROVE  Continues'
<1> SUFFICES ASSUME NEW j \in Job, job'[j].status \notin Terminal \cup {"absent"}
             PROVE  Command(j, job'[j].generation, job'[j].step) \in sent' \ inbox'
  BY DEF Continues
<1>0. job[j] \in JobRow /\ inbox \subseteq sent
  BY DEF TypeInv, TypeOK
<1>1. ASSUME job[j].status \notin Terminal \cup {"absent"},
             job'[j].generation = job[j].generation, job'[j].step = job[j].step,
             sent \subseteq sent', Due(j) \in inbox' => Due(j) \in inbox
      PROVE  Command(j, job'[j].generation, job'[j].step) \in sent' \ inbox'
  BY <1>1 DEF ContinueInv, Continues, Due
<1>2. ASSUME Outside, \A k \in Job : Requested(k)
      PROVE  Command(j, job'[j].generation, job'[j].step) \in sent' \ inbox'
  <2>1. Requested(j) /\ sent \subseteq sent' /\ inbox' = inbox
    BY <1>2 DEF Outside
  <2>2. CASE \/ job'[j] = job[j]
             \/ SameCursor(job[j], job'[j]) /\ job'[j].status = job[j].status
    BY <1>1, <2>1, <2>2 DEF SameCursor
  <2>3. ASSUME Command(j, job'[j].generation, job'[j].step) \in sent',
               \/ job[j].status = "absent"
               \/ job'[j].generation = job[j].generation + 1
        PROVE  Command(j, job'[j].generation, job'[j].step) \in sent' \ inbox'
    <3> DEFINE m == Command(j, job'[j].generation, job'[j].step)
    <3>1. m.job = j /\ m.generation = job'[j].generation
      BY DEF Command
    <3>2. m \notin sent
      <4>1. CASE job[j].status = "absent"
        BY <3>1, <4>1 DEF ContinueInv
      <4>2. CASE job'[j].generation = job[j].generation + 1
        <5>1. job[j].generation \in Nat
          BY <1>0 DEF JobRow, Generation
        <5>2. m \in sent => m.generation <= job[j].generation
          BY <3>1, <4>2, <5>1 DEF CursorInv, NeverAhead
        <5>3. QED BY <3>1, <4>2, <5>1, <5>2
      <4>3. QED BY <2>3, <4>1, <4>2
    <3>3. QED BY <1>0, <2>1, <2>3, <3>2
  <2>4. QED BY <2>1, <2>2, <2>3 DEF Requested
<1>3. ASSUME NEW w \in Worker, Internal(w)
      PROVE  Command(j, job'[j].generation, job'[j].step) \in sent' \ inbox'
  <2>1. sent' = sent /\ inbox' = inbox /\ SameCursor(job[j], job'[j])
    BY <1>3, InternalMoves, InternalCursor
  <2>2. CASE job'[j].status = job[j].status
    BY <1>1, <2>1, <2>2 DEF SameCursor
  <2>3. CASE job'[j].status # job[j].status
    <3>1. j = JobOf(w) /\ HoldsLease(w)
      BY <1>3, <2>3, WorkerStatus
    <3>2. MarkRunning(w)
      <4>1. ~PlanParse(w)
        <5>1. PlanParse(w) => job'[JobOf(w)] = Planned(job[JobOf(w)], worker[w].message)
          BY <3>1 DEF PlanParse, TypeInv, TypeOK
        <5>2. Planned(job[JobOf(w)], worker[w].message).status = job[JobOf(w)].status
          BY <1>0, <3>1 DEF Planned, JobRow
        <5>3. QED BY <2>3, <3>1, <5>1, <5>2
      <4>2. UNCHANGED job \/ MarkRunning(w) \/ PlanParse(w)
        BY <1>3
        DEF Internal, LoadObsolete, LoadJob, TimedOut, Error, ReadFailed,
           Ambiguous, UploadIntent, UploadKnown, FindDocument, ClaimUpload,
           AssertUpload, UploadDocument, UploadUnknown, ConfirmUpload,
           PlanPoll, LookAtDocument, CheckParse, ClaimParse, AssertParse,
           ParseDocument, ParseUnknown, ConfirmParse, Observe, Conclude, tables
      <4>3. QED BY <2>3, <4>1, <4>2
    <3>3. worker[w].pc \in Handling /\ Current(w)
      BY <3>2 DEF MarkRunning, At, Handling, Step, Final
    <3>4. Due(j) \in sent \ inbox
      BY <3>1, <3>3, HandlesDue
    <3>5. QED BY <2>1, <3>4 DEF Due, SameCursor
  <2>4. QED BY <2>2, <2>3
<1>4. ASSUME NEW w \in Worker, Commit(w)
      PROVE  Command(j, job'[j].generation, job'[j].step) \in sent' \ inbox'
  <2>1. CASE j = JobOf(w)
    BY <1>4, <2>1, CommitDue
  <2>2. CASE j # JobOf(w)
    <3>1. /\ job'[j] = job[j] /\ sent \subseteq sent'
          /\ inbox' \in SUBSET (inbox \cup {worker[w].message})
      BY <1>4, <2>2, WorkerStatus, CommitTables
    <3>2. Due(j) # worker[w].message
      BY <2>2 DEF Due, Command, JobOf
    <3>3. QED BY <1>1, <3>1, <3>2
  <2>3. QED BY <2>1, <2>2
<1>5. ASSUME NEW w \in Worker, LeaseLost(w) \/ Crash(w) \/ \E m \in sent : Claim(w, m)
      PROVE  Command(j, job'[j].generation, job'[j].step) \in sent' \ inbox'
  BY <1>1, <1>5 DEF LeaseLost, Crash, Claim, tables
<1>6. QED
  BY <1>2, <1>3, <1>4, <1>5, OutsideSteps, OutsideStatus
  DEF Next, HandlerStep, Internal, Commit

(* ContinueInv is inductive relative to the others. *)
LEMMA StepContinue ==
    ASSUME AdminStatus \subseteq Terminal
    PROVE  TypeInv /\ TypeInv' /\ CursorInv /\ ContinueInv /\ [Next]_vars => ContinueInv'
BY StepAbsent, StepOpen, StepContinues DEF ContinueInv

(* Where administrators only end jobs, whatever races with whatever, a job *)
(* that is not terminal has an unacknowledged message at its cursor to     *)
(* carry it on.                                                            *)
THEOREM JobsContinue ==
    ASSUME AdminStatus \subseteq Terminal
    PROVE  Spec => []Continues
<1>1. Init => ContinueInv
  BY DEF Init, ContinueInv, Continues, AbsentJob, Idle
<1>2. TypeInv /\ TypeInv' /\ CursorInv /\ ContinueInv /\ [Next]_vars => ContinueInv'
  BY StepContinue
<1>3. ContinueInv => Continues
  BY DEF ContinueInv
<1>4. QED BY <1>1, <1>2, <1>3, TypeSafety, CursorSafety, PTL DEF Spec

-----------------------------------------------------------------------------
(* What is indexed stays parsed. *)

(* A parse whose outcome nobody knows, and the document it may restart.    *)
Open(j, g) == parseOp[j][g] \in {"executing", "unknown"}
Uncertain(i) == \E j \in Job, g \in Generation : IdentityOf[j] = i /\ Open(j, g)

(* The worker may still send its request, or the provider may still act on *)
(* one whose answer was lost.                                              *)
Restarting == {"assertParse", "parse"}
Calm(i) ==
    /\ <<"parse", i>> \notin inFlight
    /\ \A w \in Worker : worker[w].pc \in Restarting => IdOf(w) # i

(* An upload takes effect once, and before there is a document to parse.   *)
UploadsFirst ==
    \A i \in Identity :
        /\ uploads[i] = 0 => doc[i] = "absent" /\ <<"upload", i>> \notin inFlight
        /\ <<"upload", i>> \in inFlight => doc[i] = "absent"

(* There is one parse request of an identity at a time, from the check     *)
(* before it to its last possible effect; the journal knows of it, and the *)
(* document is not being parsed nor parsed.                                *)
OneRestart ==
    /\ \A i \in Identity : <<"parse", i>> \in inFlight => doc[i] \in Restartable /\ Uncertain(i)
    /\ \A w \in Worker : worker[w].pc \in Restarting =>
          /\ doc[IdOf(w)] \in Restartable /\ Open(JobOf(w), GenerationOf(w))
          /\ <<"parse", IdOf(w)>> \notin inFlight
    /\ \A v, w \in Worker :
          worker[v].pc \in Restarting /\ worker[w].pc \in Restarting /\ IdOf(v) = IdOf(w) => v = w

(* What a holder of the lease has found on its way to a new parse, and on  *)
(* the way to confirm one.                                                 *)
Holds(w, pc) == worker[w].pc = pc /\ HoldsLease(w)

HolderKnows ==
    \A w \in Worker :
        /\ Holds(w, "checkParse") => doc[IdOf(w)] \in Restartable \/ Uncertain(IdOf(w))
        /\ Holds(w, "claimParse") => doc[IdOf(w)] \in Restartable /\ ~Uncertain(IdOf(w))
        /\ Holds(w, "confirmParse") => Calm(IdOf(w))
        /\ Holds(w, "adopt") => Calm(IdOf(w)) \/ ParseOp(w) = "confirmed"

ParseInv == UploadsFirst /\ OneRestart /\ HolderKnows

(* A step that leaves requests, documents and outcomes as they are.        *)
Tracked == Restarting \cup {"checkParse", "claimParse", "confirmParse", "adopt"}

NoParse ==
    /\ UNCHANGED <<doc, inFlight, uploads>>
    /\ \A j \in Job, g \in Generation :
          /\ Open(j, g)' <=> Open(j, g)
          /\ parseOp[j][g] = "confirmed" => parseOp'[j][g] = "confirmed"
    /\ \A v \in Worker : worker'[v].pc \in Tracked =>
          /\ worker'[v].message = worker[v].message
          /\ \/ worker'[v].pc = worker[v].pc
             \/ worker'[v].pc \in Restarting /\ worker[v].pc \in Restarting
          /\ HoldsLease(v)' => HoldsLease(v)

(* Such a step keeps the invariant.                                        *)
LEMMA NoParseKeeps ==
    ASSUME TypeInv, ParseInv, NoParse
    PROVE  ParseInv'
<1>1. UNCHANGED <<doc, inFlight, uploads>>
  BY DEF NoParse
<1>2. ASSUME NEW v \in Worker, worker'[v].pc \in Tracked
      PROVE  /\ worker[v].pc \in Tracked /\ IdOf(v)' = IdOf(v) /\ IdOf(v) \in Identity
             /\ JobOf(v)' = JobOf(v) /\ GenerationOf(v)' = GenerationOf(v)
             /\ JobOf(v) \in Job /\ GenerationOf(v) \in Generation
             /\ HoldsLease(v)' => HoldsLease(v)
  <2>1. worker'[v].message = worker[v].message /\ worker[v].pc \in Tracked
    BY <1>2 DEF NoParse, Tracked, Restarting
  <2>2. QED BY <1>2, <2>1, BusyMessage DEF NoParse, IdOf, JobOf, GenerationOf, Tracked, Restarting
<1>3. \A v \in Worker : worker'[v].pc \in Restarting =>
         worker[v].pc \in Restarting /\ IdOf(v)' = IdOf(v)
  BY <1>2 DEF NoParse, Tracked, Restarting
<1>4. \A i : Uncertain(i)' <=> Uncertain(i)
  BY DEF Uncertain, NoParse
<1>5. \A i : Calm(i) => Calm(i)'
  BY <1>1, <1>3 DEF Calm
<1>6. UploadsFirst'
  BY <1>1 DEF ParseInv, UploadsFirst
<1>7. OneRestart'
  <2>1. \A i \in Identity : <<"parse", i>> \in inFlight' => doc'[i] \in Restartable /\ Uncertain(i)'
    BY <1>1, <1>4 DEF ParseInv, OneRestart
  <2>2. ASSUME NEW w \in Worker, worker'[w].pc \in Restarting
        PROVE  /\ doc'[IdOf(w)'] \in Restartable /\ Open(JobOf(w), GenerationOf(w))'
               /\ <<"parse", IdOf(w)'>> \notin inFlight'
    <3>1. Open(JobOf(w), GenerationOf(w))
      BY <1>3, <2>2 DEF ParseInv, OneRestart
    <3>2. JobOf(w) \in Job /\ GenerationOf(w) \in Generation
          /\ JobOf(w)' = JobOf(w) /\ GenerationOf(w)' = GenerationOf(w)
      BY <1>2, <2>2 DEF Tracked
    <3>3. Open(JobOf(w), GenerationOf(w))'
      BY <3>1, <3>2 DEF NoParse, Open
    <3>4. QED BY <1>1, <1>3, <2>2, <3>3 DEF ParseInv, OneRestart
  <2>3. QED BY <1>3, <2>1, <2>2 DEF ParseInv, OneRestart
<1>8. HolderKnows'
  <2> SUFFICES ASSUME NEW w \in Worker, HoldsLease(w)',
                      worker'[w].pc \in {"checkParse", "claimParse", "confirmParse", "adopt"}
               PROVE  /\ Holds(w, "checkParse")' => doc'[IdOf(w)'] \in Restartable \/ Uncertain(IdOf(w))'
                      /\ Holds(w, "claimParse")' => doc'[IdOf(w)'] \in Restartable /\ ~Uncertain(IdOf(w))'
                      /\ Holds(w, "confirmParse")' => Calm(IdOf(w))'
                      /\ Holds(w, "adopt")' => Calm(IdOf(w))' \/ ParseOp(w)' = "confirmed"
    BY DEF HolderKnows, Holds
  <2>1. worker'[w].pc = worker[w].pc
    BY DEF NoParse, Tracked, Restarting
  <2>2. /\ HoldsLease(w) /\ IdOf(w)' = IdOf(w)
        /\ JobOf(w)' = JobOf(w) /\ GenerationOf(w)' = GenerationOf(w)
        /\ JobOf(w) \in Job /\ GenerationOf(w) \in Generation
    BY <1>2 DEF Tracked
  <2>3. ParseOp(w) = "confirmed" => ParseOp(w)' = "confirmed"
    BY <2>2 DEF ParseOp, NoParse
  <2>4. Calm(IdOf(w)) => Calm(IdOf(w))'
    BY <1>5, <2>2
  <2>5. Uncertain(IdOf(w))' <=> Uncertain(IdOf(w))
    BY <1>4, <2>2
  <2>6. QED BY <1>1, <2>1, <2>2, <2>3, <2>4, <2>5 DEF ParseInv, HolderKnows, Holds
<1>9. QED BY <1>6, <1>7, <1>8 DEF ParseInv

(* Nobody is about to restart a parsed document, or one whose outcomes are *)
(* all known.                                                              *)
LEMMA NoneRestarts ==
    ASSUME TypeInv, ParseInv, NEW i \in Identity, doc[i] \notin Restartable \/ ~Uncertain(i)
    PROVE  Calm(i)
<1>1. <<"parse", i>> \notin inFlight
  BY DEF ParseInv, OneRestart
<1>2. ASSUME NEW w \in Worker, worker[w].pc \in Restarting PROVE IdOf(w) # i
  <2>1. JobOf(w) \in Job /\ GenerationOf(w) \in Generation
    BY <1>2, BusyMessage DEF Restarting
  <2>2. doc[IdOf(w)] \in Restartable /\ Uncertain(IdOf(w))
    BY <1>2, <2>1 DEF ParseInv, OneRestart, Uncertain, IdOf
  <2>3. QED BY <2>2
<1>3. QED BY <1>1, <1>2 DEF Calm

(* Where a step of the handler only moves its worker, what the worker has  *)
(* found is all there is to show.                                          *)
LEMMA LookKeeps ==
    ASSUME TypeInv, ParseInv, NEW w \in Worker, Moves(w), worker[w].pc # "idle",
           UNCHANGED <<uploads, doc, inFlight, parseOp, holder>>,
           worker'[w].pc \notin Restarting \cup {"confirmParse"},
           worker'[w].pc = "checkParse" => doc[IdOf(w)] \in Restartable,
           worker'[w].pc = "claimParse" /\ HoldsLease(w) =>
              doc[IdOf(w)] \in Restartable /\ ~Uncertain(IdOf(w)),
           worker'[w].pc = "adopt" => Calm(IdOf(w)) \/ ParseOp(w) = "confirmed"
    PROVE  ParseInv'
<1>1. \A v \in Worker : /\ IdOf(v)' = IdOf(v) /\ JobOf(v)' = JobOf(v)
                        /\ GenerationOf(v)' = GenerationOf(v)
                        /\ HoldsLease(v)' = HoldsLease(v) /\ ParseOp(v)' = ParseOp(v)
  BY DEF Moves, IdOf, JobOf, GenerationOf, HoldsLease, ParseOp
<1>2. \A v \in Worker \ {w} : worker'[v] = worker[v]
  BY DEF Moves
<1>3. \A v \in Worker : worker'[v].pc \in Restarting => v # w /\ worker[v].pc \in Restarting
  BY <1>2
<1>4. /\ \A i : Uncertain(i)' <=> Uncertain(i)
      /\ \A j, g : Open(j, g)' <=> Open(j, g)
  BY DEF Uncertain, Open
<1>5. \A v \in Worker : Uncertain(IdOf(v))' <=> Uncertain(IdOf(v))
  BY <1>1, <1>4 DEF Uncertain, Open
<1>6. \A v \in Worker : Calm(IdOf(v)) => Calm(IdOf(v))'
  BY <1>1, <1>3 DEF Calm
<1>7. UploadsFirst'
  BY DEF ParseInv, UploadsFirst
<1>8. OneRestart'
  <2>1. \A i \in Identity : <<"parse", i>> \in inFlight' => doc'[i] \in Restartable /\ Uncertain(i)'
    BY <1>4 DEF ParseInv, OneRestart
  <2>2. \A v \in Worker : worker'[v].pc \in Restarting =>
           /\ doc'[IdOf(v)'] \in Restartable /\ Open(JobOf(v), GenerationOf(v))'
           /\ <<"parse", IdOf(v)'>> \notin inFlight'
    BY <1>1, <1>3 DEF ParseInv, OneRestart, Open
  <2>3. QED BY <1>1, <1>3, <2>1, <2>2 DEF ParseInv, OneRestart
<1>9. HolderKnows'
  <2>1. ASSUME NEW v \in Worker \ {w}
        PROVE  /\ Holds(v, "checkParse")' => doc'[IdOf(v)'] \in Restartable \/ Uncertain(IdOf(v))'
               /\ Holds(v, "claimParse")' => doc'[IdOf(v)'] \in Restartable /\ ~Uncertain(IdOf(v))'
               /\ Holds(v, "confirmParse")' => Calm(IdOf(v))'
               /\ Holds(v, "adopt")' => Calm(IdOf(v))' \/ ParseOp(v)' = "confirmed"
    BY <1>1, <1>2, <1>5, <1>6 DEF ParseInv, HolderKnows, Holds
  <2>2. /\ Holds(w, "checkParse")' => doc'[IdOf(w)'] \in Restartable \/ Uncertain(IdOf(w))'
        /\ Holds(w, "claimParse")' => doc'[IdOf(w)'] \in Restartable /\ ~Uncertain(IdOf(w))'
        /\ Holds(w, "confirmParse")' => Calm(IdOf(w))'
        /\ Holds(w, "adopt")' => Calm(IdOf(w))' \/ ParseOp(w)' = "confirmed"
    BY <1>1, <1>5, <1>6 DEF Holds
  <2>3. QED BY <2>1, <2>2 DEF HolderKnows
<1>10. QED BY <1>7, <1>8, <1>9 DEF ParseInv

(* What the holder of a lease writes of its own operation, while no        *)
(* request of its identity is under way.                                   *)
LEMMA JournalKeeps ==
    ASSUME TypeInv, ParseInv, NEW w \in Worker, Moves(w), worker[w].pc # "idle",
           UNCHANGED <<uploads, doc, inFlight, holder>>,
           NEW state, SetParseOp(w, state), HoldsLease(w), Calm(IdOf(w)),
           worker'[w].pc \notin {"checkParse", "claimParse", "confirmParse", "adopt"},
           worker'[w].pc \in Restarting =>
              state = "executing" /\ doc[IdOf(w)] \in Restartable
    PROVE  ParseInv'
<1>1. \A v \in Worker : /\ IdOf(v)' = IdOf(v) /\ JobOf(v)' = JobOf(v)
                        /\ GenerationOf(v)' = GenerationOf(v)
                        /\ HoldsLease(v)' = HoldsLease(v)
  BY DEF Moves, IdOf, JobOf, GenerationOf, HoldsLease
<1>2. \A v \in Worker \ {w} : worker'[v] = worker[v]
  BY DEF Moves
<1>3. JobOf(w) \in Job /\ GenerationOf(w) \in Generation
  BY BusyMessage
<1>4. /\ parseOp'[JobOf(w)][GenerationOf(w)] = state
      /\ \A j \in Job, g \in Generation : j # JobOf(w) => parseOp'[j][g] = parseOp[j][g]
  <2>1. parseOp' = [parseOp EXCEPT ![JobOf(w)][GenerationOf(w)] = state]
    BY DEF SetParseOp
  <2>2. parseOp \in [Job -> [Generation -> Operation]]
    BY DEF TypeInv, TypeOK
  <2>3. QED BY <1>3, <2>1, <2>2
<1>5. ASSUME NEW i, i # IdOf(w) PROVE Uncertain(i)' <=> Uncertain(i)
  <2>1. \A j \in Job, g \in Generation : IdentityOf[j] = i => (Open(j, g)' <=> Open(j, g))
    BY <1>4, <1>5 DEF Open, IdOf
  <2>2. QED BY <2>1 DEF Uncertain
<1>6. ASSUME NEW v \in Worker, worker'[v].pc \in Tracked, IdOf(v) # IdOf(w)
      PROVE  ParseOp(v)' = ParseOp(v) /\ (Open(JobOf(v), GenerationOf(v))' <=> Open(JobOf(v), GenerationOf(v)))
  <2>1. v # w /\ worker[v].pc # "idle"
    BY <1>2, <1>6 DEF Tracked, Restarting
  <2>2. JobOf(v) # JobOf(w) /\ JobOf(v) \in Job /\ GenerationOf(v) \in Generation
    BY <1>6, <2>1, BusyMessage DEF IdOf
  <2>3. QED BY <1>1, <1>4, <2>2 DEF ParseOp, Open
<1>7. UploadsFirst'
  BY DEF ParseInv, UploadsFirst
<1>8. \A v \in Worker : worker[v].pc \in Restarting => IdOf(v) # IdOf(w)
  BY DEF Calm
<1>9. OneRestart'
  <2>1. \A i \in Identity : <<"parse", i>> \in inFlight' => doc'[i] \in Restartable /\ Uncertain(i)'
    BY <1>5 DEF ParseInv, OneRestart, Calm
  <2>2. ASSUME NEW v \in Worker \ {w}, worker'[v].pc \in Restarting
        PROVE  /\ doc'[IdOf(v)'] \in Restartable /\ Open(JobOf(v), GenerationOf(v))'
               /\ <<"parse", IdOf(v)'>> \notin inFlight'
    BY <1>1, <1>2, <1>6, <1>8, <2>2 DEF ParseInv, OneRestart, Tracked
  <2>3. ASSUME worker'[w].pc \in Restarting
        PROVE  /\ doc'[IdOf(w)'] \in Restartable /\ Open(JobOf(w), GenerationOf(w))'
               /\ <<"parse", IdOf(w)'>> \notin inFlight'
    BY <1>1, <1>4, <2>3 DEF Open, Calm
  <2>4. QED BY <1>1, <1>2, <1>8, <2>1, <2>2, <2>3 DEF ParseInv, OneRestart
<1>10. HolderKnows'
  <2> SUFFICES ASSUME NEW v \in Worker, HoldsLease(v)',
                      worker'[v].pc \in {"checkParse", "claimParse", "confirmParse", "adopt"}
               PROVE  /\ Holds(v, "checkParse")' => doc'[IdOf(v)'] \in Restartable \/ Uncertain(IdOf(v))'
                      /\ Holds(v, "claimParse")' => doc'[IdOf(v)'] \in Restartable /\ ~Uncertain(IdOf(v))'
                      /\ Holds(v, "confirmParse")' => Calm(IdOf(v))'
                      /\ Holds(v, "adopt")' => Calm(IdOf(v))' \/ ParseOp(v)' = "confirmed"
    BY DEF HolderKnows, Holds
  <2>1. v # w /\ worker'[v] = worker[v] /\ HoldsLease(v)
    BY <1>1, <1>2
  <2>2. IdOf(v) # IdOf(w) /\ IdOf(v)' = IdOf(v)
    BY <1>1, <2>1 DEF HoldsLease
  <2>3. Uncertain(IdOf(v))' <=> Uncertain(IdOf(v))
    BY <1>5, <2>2
  <2>4. Calm(IdOf(v)) => Calm(IdOf(v))'
    BY <1>1, <1>2, <2>2 DEF Calm
  <2>5. ParseOp(v)' = ParseOp(v)
    BY <1>6, <2>2 DEF Tracked
  <2>6. QED BY <2>1, <2>2, <2>3, <2>4, <2>5 DEF ParseInv, HolderKnows, Holds
<1>11. QED BY <1>7, <1>9, <1>10 DEF ParseInv

(* What the provider does with the document of i; a worker may go on, but  *)
(* not to a parse.                                                         *)
Others(i) ==
    /\ UNCHANGED <<parseOp, holder>>
    /\ \A k \in Identity \ {i} : doc'[k] = doc[k] /\ uploads'[k] = uploads[k]
    /\ \A k \in Identity \ {i}, kind \in {"upload", "parse"} :
          <<kind, k>> \in inFlight' <=> <<kind, k>> \in inFlight
    /\ \A v \in Worker :
          /\ worker'[v].message = worker[v].message
          /\ \/ worker'[v].pc = worker[v].pc
             \/ worker'[v].pc \notin Tracked
             \/ worker'[v].pc = "confirmParse" /\ IdOf(v) = i /\ worker[v].pc = "parse"

(* Where the parse of i cannot be restarted afterwards, the others are as  *)
(* they were.                                                              *)
LEMMA ProviderKeeps ==
    ASSUME TypeInv, ParseInv, NEW i \in Identity, Others(i),
           Calm(i)',
           uploads'[i] = 0 => doc'[i] = "absent" /\ <<"upload", i>> \notin inFlight',
           <<"upload", i>> \in inFlight' => doc'[i] = "absent",
           doc[i] \in Restartable /\ ~Uncertain(i) => doc'[i] \in Restartable
    PROVE  ParseInv'
<1>1. \A v \in Worker : /\ IdOf(v)' = IdOf(v) /\ JobOf(v)' = JobOf(v)
                        /\ GenerationOf(v)' = GenerationOf(v)
                        /\ HoldsLease(v)' = HoldsLease(v) /\ ParseOp(v)' = ParseOp(v)
  BY DEF IdOf, JobOf, GenerationOf, HoldsLease, ParseOp, Others
<1>2. \A v \in Worker : worker'[v].pc \in Tracked => worker[v].pc \in Tracked
  BY DEF Tracked, Restarting, Others
<1>3. \A v \in Worker : worker'[v].pc \in Restarting =>
         worker[v].pc \in Restarting /\ IdOf(v) # i /\ IdOf(v) \in Identity
  BY <1>1, BusyMessage DEF Calm, Tracked, Restarting, Others
<1>4. /\ \A k : Uncertain(k)' <=> Uncertain(k)
      /\ \A j, g : Open(j, g)' <=> Open(j, g)
  BY DEF Uncertain, Open, Others
<1>5. \A v \in Worker : Uncertain(IdOf(v))' <=> Uncertain(IdOf(v))
  BY <1>1, <1>4 DEF Uncertain, Open
<1>6. UploadsFirst'
  <2>1. ASSUME NEW k \in Identity \ {i}
        PROVE  /\ uploads'[k] = 0 => doc'[k] = "absent" /\ <<"upload", k>> \notin inFlight'
               /\ <<"upload", k>> \in inFlight' => doc'[k] = "absent"
    BY DEF ParseInv, UploadsFirst, Others
  <2>2. QED BY <2>1 DEF UploadsFirst
<1>7. OneRestart'
  <2>1. \A k \in Identity : <<"parse", k>> \in inFlight' => doc'[k] \in Restartable /\ Uncertain(k)'
    BY <1>4 DEF ParseInv, OneRestart, Calm, Others
  <2>2. ASSUME NEW v \in Worker, worker'[v].pc \in Restarting
        PROVE  /\ doc'[IdOf(v)'] \in Restartable /\ Open(JobOf(v), GenerationOf(v))'
               /\ <<"parse", IdOf(v)'>> \notin inFlight'
    <3>1. worker[v].pc \in Restarting /\ IdOf(v) \in Identity \ {i}
      BY <1>3, <2>2
    <3>2. doc'[IdOf(v)] = doc[IdOf(v)] /\ (<<"parse", IdOf(v)>> \in inFlight' <=> <<"parse", IdOf(v)>> \in inFlight)
      BY <3>1 DEF Others
    <3>3. Open(JobOf(v), GenerationOf(v))' <=> Open(JobOf(v), GenerationOf(v))
      BY <1>1, <1>4 DEF Open
    <3>4. QED BY <1>1, <3>1, <3>2, <3>3 DEF ParseInv, OneRestart
  <2>3. QED BY <1>1, <1>3, <2>1, <2>2 DEF ParseInv, OneRestart
<1>8. HolderKnows'
  <2> SUFFICES ASSUME NEW v \in Worker, HoldsLease(v)',
                      worker'[v].pc \in {"checkParse", "claimParse", "confirmParse", "adopt"}
               PROVE  /\ Holds(v, "checkParse")' => doc'[IdOf(v)'] \in Restartable \/ Uncertain(IdOf(v))'
                      /\ Holds(v, "claimParse")' => doc'[IdOf(v)'] \in Restartable /\ ~Uncertain(IdOf(v))'
                      /\ Holds(v, "confirmParse")' => Calm(IdOf(v))'
                      /\ Holds(v, "adopt")' => Calm(IdOf(v))' \/ ParseOp(v)' = "confirmed"
    BY DEF HolderKnows, Holds
  <2>1. /\ IdOf(v)' = IdOf(v) /\ IdOf(v) \in Identity /\ HoldsLease(v) /\ ParseOp(v)' = ParseOp(v)
        /\ Uncertain(IdOf(v))' <=> Uncertain(IdOf(v))
    BY <1>1, <1>2, <1>5, BusyMessage DEF Tracked, Restarting
  <2>2. worker'[v].pc = worker[v].pc \/ (worker'[v].pc = "confirmParse" /\ IdOf(v) = i)
    BY DEF Tracked, Others
  <2>3. Calm(IdOf(v)) \/ IdOf(v) = i => Calm(IdOf(v))'
    <3>1. CASE IdOf(v) = i
      BY <2>1, <3>1 DEF Calm
    <3>2. CASE IdOf(v) # i /\ Calm(IdOf(v))
      <4>1. <<"parse", IdOf(v)>> \in inFlight' <=> <<"parse", IdOf(v)>> \in inFlight
        BY <2>1, <3>2 DEF Others
      <4>2. QED BY <1>1, <1>3, <2>1, <3>2, <4>1 DEF Calm
    <3>3. QED BY <3>1, <3>2
  <2>4. CASE IdOf(v) # i
    <3>1. doc'[IdOf(v)] = doc[IdOf(v)]
      BY <2>1, <2>4 DEF Others
    <3>2. QED BY <2>1, <2>2, <2>3, <2>4, <3>1 DEF ParseInv, HolderKnows, Holds
  <2>5. CASE IdOf(v) = i
    BY <2>1, <2>2, <2>3, <2>5 DEF ParseInv, HolderKnows, Holds
  <2>6. QED BY <2>4, <2>5
<1>9. QED BY <1>6, <1>7, <1>8 DEF ParseInv

(* A request whose answer is lost is the only one, and may come late.      *)
LEMMA LostKeeps ==
    ASSUME TypeInv, ParseInv, NEW w \in Worker, Moves(w), worker[w].pc = "parse",
           worker'[w].pc \notin Tracked, UNCHANGED <<parseOp, holder, doc, uploads>>,
           inFlight' = inFlight \cup {<<"parse", IdOf(w)>>}
    PROVE  ParseInv'
<1>1. \A v \in Worker : /\ IdOf(v)' = IdOf(v) /\ JobOf(v)' = JobOf(v)
                        /\ GenerationOf(v)' = GenerationOf(v)
                        /\ HoldsLease(v)' = HoldsLease(v) /\ ParseOp(v)' = ParseOp(v)
  BY DEF Moves, IdOf, JobOf, GenerationOf, HoldsLease, ParseOp
<1>2. \A v \in Worker : worker'[v].pc \in Tracked => v # w /\ worker'[v] = worker[v]
  BY DEF Moves
<1>3. /\ IdOf(w) \in Identity /\ JobOf(w) \in Job /\ GenerationOf(w) \in Generation
  BY BusyMessage
<1>4. /\ doc[IdOf(w)] \in Restartable /\ Uncertain(IdOf(w))
      /\ \A v \in Worker : worker'[v].pc \in Restarting =>
            worker[v].pc \in Restarting /\ IdOf(v) # IdOf(w)
  BY <1>2, <1>3 DEF ParseInv, OneRestart, Restarting, Uncertain, IdOf, Tracked
<1>5. /\ \A k : Uncertain(k)' <=> Uncertain(k)
      /\ \A v \in Worker : Uncertain(IdOf(v))' <=> Uncertain(IdOf(v))
      /\ \A v \in Worker : Open(JobOf(v), GenerationOf(v))' <=> Open(JobOf(v), GenerationOf(v))
  BY <1>1 DEF Uncertain, Open
<1>6. UploadsFirst'
  BY DEF ParseInv, UploadsFirst
<1>7. OneRestart'
  <2>1. \A k \in Identity : <<"parse", k>> \in inFlight' => doc'[k] \in Restartable /\ Uncertain(k)'
    BY <1>4, <1>5 DEF ParseInv, OneRestart
  <2>2. \A v \in Worker : worker'[v].pc \in Restarting =>
           /\ doc'[IdOf(v)'] \in Restartable /\ Open(JobOf(v), GenerationOf(v))'
           /\ <<"parse", IdOf(v)'>> \notin inFlight'
    BY <1>1, <1>4, <1>5 DEF ParseInv, OneRestart
  <2>3. QED BY <1>1, <1>4, <2>1, <2>2 DEF ParseInv, OneRestart
<1>8. HolderKnows'
  <2> SUFFICES ASSUME NEW v \in Worker, HoldsLease(v)',
                      worker'[v].pc \in {"checkParse", "claimParse", "confirmParse", "adopt"}
               PROVE  /\ Holds(v, "checkParse")' => doc'[IdOf(v)'] \in Restartable \/ Uncertain(IdOf(v))'
                      /\ Holds(v, "claimParse")' => doc'[IdOf(v)'] \in Restartable /\ ~Uncertain(IdOf(v))'
                      /\ Holds(v, "confirmParse")' => Calm(IdOf(v))'
                      /\ Holds(v, "adopt")' => Calm(IdOf(v))' \/ ParseOp(v)' = "confirmed"
    BY DEF HolderKnows, Holds
  <2>1. worker'[v] = worker[v]
    BY <1>2 DEF Tracked
  <2>2. Calm(IdOf(v)) => Calm(IdOf(v))'
    <3>1. ASSUME Calm(IdOf(v)) PROVE IdOf(v) # IdOf(w)
      BY <3>1 DEF Calm, Restarting
    <3>2. QED BY <1>1, <1>4, <3>1 DEF Calm
  <2>3. QED BY <1>1, <1>5, <2>1, <2>2 DEF ParseInv, HolderKnows, Holds
<1>9. QED BY <1>6, <1>7, <1>8 DEF ParseInv

-----------------------------------------------------------------------------
(* Most steps of the handler leave the parse as it is.                     *)
LEMMA InternalNoParse ==
    ASSUME TypeInv, NEW w \in Worker, Internal(w)
    PROVE  \/ NoParse \/ LookAtDocument(w) \/ CheckParse(w) \/ ClaimParse(w)
           \/ ParseDocument(w) \/ ConfirmParse(w) \/ UploadDocument(w)
<1>0. TypeOK /\ Moves(w) /\ holder' = holder
  BY InternalMoves DEF TypeInv
<1>1. \A v \in Worker : HoldsLease(v)' = HoldsLease(v)
  BY <1>0 DEF Moves, HoldsLease, IdOf, JobOf
<1>2. ASSUME UNCHANGED <<doc, inFlight, uploads>>,
             \A j \in Job, g \in Generation :
                /\ Open(j, g)' <=> Open(j, g)
                /\ parseOp[j][g] = "confirmed" => parseOp'[j][g] = "confirmed",
             worker'[w].pc \notin Tracked
      PROVE  NoParse
  BY <1>0, <1>1, <1>2 DEF NoParse, Moves
<1>3. UNCHANGED parseOp => \A j \in Job, g \in Generation :
         /\ Open(j, g)' <=> Open(j, g)
         /\ parseOp[j][g] = "confirmed" => parseOp'[j][g] = "confirmed"
  BY DEF Open
<1>4. ASSUME NEW pc \in Step \ (Tracked \cup {"load"}), Go(w, pc),
             UNCHANGED <<doc, inFlight, uploads, parseOp>>
      PROVE  NoParse
  <2>1. worker'[w].pc = pc
    BY <1>0, <1>4, GoMoves
  <2>2. QED BY <1>2, <1>3, <1>4, <2>1
<1>5. CASE LoadObsolete(w) \/ MarkRunning(w) \/ TimedOut(w) \/ Error(w)
           \/ ReadFailed(w) \/ Ambiguous(w) \/ UploadKnown(w) \/ UploadIntent(w)
  BY <1>4, <1>5
  DEF LoadObsolete, MarkRunning, TimedOut, Error, ReadFailed, Ambiguous,
      UploadKnown, UploadIntent, Step, Final, Tracked, Restarting, tables, provider
<1>6. CASE FindDocument(w) \/ ClaimUpload(w) \/ AssertUpload(w) \/ UploadUnknown(w)
           \/ ConfirmUpload(w) \/ PlanPoll(w)
  BY <1>4, <1>6
  DEF FindDocument, ClaimUpload, AssertUpload, UploadUnknown, ConfirmUpload, PlanPoll,
      Step, Final, Tracked, Restarting, tables, provider
<1>7. CASE Conclude(w)
  <2>1. worker[w].run \in Run
    BY <1>0 DEF TypeOK, WorkerState
  <2>2. \E pc \in {"complete", "fail", "schedule"} : Go(w, pc)
    BY <2>1, <1>7 DEF Conclude, Run
  <2>3. UNCHANGED <<doc, inFlight, uploads, parseOp>>
    BY <1>7 DEF Conclude, tables, provider
  <2>4. QED BY <1>4, <2>2, <2>3 DEF Step, Final, Tracked, Restarting
<1>8. CASE LoadJob(w) \/ Observe(w)
  <2>1. worker'[w].pc \in {"provide", "begin", "conclude"}
    BY <1>0, <1>8 DEF LoadJob, Observe, TypeOK, WorkerState
  <2>2. UNCHANGED <<doc, inFlight, uploads, parseOp>>
    BY <1>8 DEF LoadJob, Observe, tables, provider
  <2>3. QED BY <1>2, <1>3, <2>1, <2>2 DEF Tracked, Restarting
<1>9. CASE AssertParse(w)
  <2>1. worker[w].pc = "assertParse" /\ worker'[w].pc \in {"parseLost", "parse"}
        /\ worker'[w].message = worker[w].message
    BY <1>0, <1>9, GoMoves DEF AssertParse, At, Step, Moves
  <2>2. UNCHANGED <<doc, inFlight, uploads, parseOp>>
    BY <1>9 DEF AssertParse, tables, provider
  <2>3. QED BY <1>0, <1>1, <1>3, <2>1, <2>2 DEF NoParse, Moves, Tracked, Restarting
<1>10. CASE PlanParse(w) \/ ParseUnknown(w)
  <2>1. worker'[w].pc \in {"look", "reconcile"} /\ worker[w].pc # "idle"
    BY <1>0, <1>10, GoMoves DEF PlanParse, ParseUnknown, At, Step, Final
  <2>2. UNCHANGED <<doc, inFlight, uploads>>
    BY <1>10 DEF PlanParse, ParseUnknown, provider
  <2>3. JobOf(w) \in Job /\ GenerationOf(w) \in Generation
    BY <2>1, BusyMessage
  <2>4. PICK state : /\ SetParseOp(w, state)
                     /\ \/ state = ParseOp(w)
                        \/ ParseOp(w) = "none" /\ state = "intent"
                        \/ ParseOp(w) = "executing" /\ state = "unknown"
    BY <1>10 DEF PlanParse, ParseUnknown, Unresolved
  <2>5. parseOp' = [parseOp EXCEPT ![JobOf(w)][GenerationOf(w)] = state]
    BY <2>4 DEF SetParseOp
  <2>6. parseOp \in [Job -> [Generation -> Operation]]
    BY <1>0 DEF TypeOK
  <2>7. \A j \in Job, g \in Generation :
           \/ parseOp'[j][g] = parseOp[j][g]
           \/ parseOp[j][g] = "none" /\ parseOp'[j][g] = "intent"
           \/ parseOp[j][g] = "executing" /\ parseOp'[j][g] = "unknown"
    BY <2>3, <2>4, <2>5, <2>6 DEF ParseOp
  <2>8. \A j \in Job, g \in Generation :
           /\ Open(j, g)' <=> Open(j, g)
           /\ parseOp[j][g] = "confirmed" => parseOp'[j][g] = "confirmed"
    BY <2>7 DEF Open
  <2>9. QED BY <1>2, <2>1, <2>2, <2>8 DEF Tracked, Restarting
<1>11. QED BY <1>5, <1>6, <1>7, <1>8, <1>9, <1>10 DEF Internal

(* The steps of the parse keep the invariant.                              *)
LEMMA ParseKeeps ==
    ASSUME TypeInv, UploadInv, ParseInv, NEW w \in Worker,
           \/ LookAtDocument(w) \/ CheckParse(w) \/ ClaimParse(w)
           \/ ParseDocument(w) \/ ConfirmParse(w) \/ UploadDocument(w)
    PROVE  ParseInv'
<1>0. TypeOK /\ Moves(w) /\ holder' = holder
  BY InternalMoves DEF Internal, TypeInv
<1>1. worker[w].pc # "idle" /\ worker[w].pc \in Step
  BY DEF LookAtDocument, CheckParse, ClaimParse, ParseDocument, ConfirmParse, UploadDocument, At, Step
<1>2. IdOf(w) \in Identity /\ JobOf(w) \in Job /\ GenerationOf(w) \in Generation
  BY <1>1, BusyMessage
<1>3. CASE LookAtDocument(w)
  <2>1. UNCHANGED <<uploads, doc, inFlight, parseOp>>
    BY <1>3 DEF LookAtDocument, tables, provider
  <2>2. worker'[w].pc = IF doc[IdOf(w)] \in Restartable /\ ParseOp(w) # "confirmed"
                        THEN "checkParse" ELSE "adopt"
    BY <1>0, <1>3 DEF LookAtDocument, TypeOK, WorkerState
  <2>3. QED BY <1>0, <1>1, <1>2, <2>1, <2>2, LookKeeps, NoneRestarts DEF Restarting
<1>4. CASE CheckParse(w)
  <2>1. UNCHANGED <<uploads, doc, inFlight, parseOp>> /\ worker[w].pc = "checkParse"
    BY <1>4 DEF CheckParse, tables, provider, At
  <2>2. worker'[w].pc = IF Unfinished(w) THEN "reconcile" ELSE "claimParse"
    BY <1>0, <1>4, GoMoves DEF CheckParse, Step, Final
  <2>3. Unfinished(w) <=> Uncertain(IdOf(w))
    BY DEF Unfinished, Uncertain, Open
  <2>4. HoldsLease(w) => doc[IdOf(w)] \in Restartable \/ Uncertain(IdOf(w))
    BY <2>1 DEF ParseInv, HolderKnows, Holds
  <2>5. QED BY <1>0, <1>1, <2>1, <2>2, <2>3, <2>4, LookKeeps DEF Restarting
<1>5. CASE ClaimParse(w)
  <2>1. UNCHANGED <<uploads, doc, inFlight>> /\ worker[w].pc = "claimParse" /\ HoldsLease(w)
    BY <1>5 DEF ClaimParse, provider, At, Current
  <2>2. doc[IdOf(w)] \in Restartable /\ ~Uncertain(IdOf(w))
    BY <2>1 DEF ParseInv, HolderKnows, Holds
  <2>3. CASE Startable(ParseOp(w))
    <3>1. worker'[w].pc = "assertParse" /\ SetParseOp(w, "executing")
      BY <1>0, <1>5, <2>3, GoMoves DEF ClaimParse, Step
    <3>2. Calm(IdOf(w))
      BY <1>2, <2>2, NoneRestarts
    <3>3. QED BY <1>0, <1>1, <2>1, <2>2, <3>1, <3>2, JournalKeeps DEF Restarting
  <2>4. CASE ~Startable(ParseOp(w))
    <3>1. worker'[w].pc = "reconcile" /\ UNCHANGED parseOp
      BY <1>0, <1>5, <2>4, GoMoves DEF ClaimParse, Step, Final
    <3>2. QED BY <1>0, <1>1, <2>1, <3>1, LookKeeps DEF Restarting
  <2>5. QED BY <2>3, <2>4
<1>6. CASE ParseDocument(w)
  <2>1. UNCHANGED <<parseOp, uploads>> /\ worker[w].pc = "parse"
    BY <1>6 DEF ParseDocument, tables, At
  <2>2. CASE doc' = [doc EXCEPT ![IdOf(w)] = "RUNNING"] /\ Go(w, "confirmParse") /\ UNCHANGED inFlight
    <3>1. worker'[w].pc = "confirmParse"
      BY <1>0, <2>2, GoMoves DEF Step
    <3>2. /\ doc[IdOf(w)] \in Restartable /\ Uncertain(IdOf(w)) /\ <<"parse", IdOf(w)>> \notin inFlight
          /\ \A v \in Worker \ {w} : worker[v].pc \in Restarting => IdOf(v) # IdOf(w)
      BY <1>2, <2>1 DEF ParseInv, OneRestart, Restarting, Uncertain, IdOf
    <3>3. doc'[IdOf(w)] = "RUNNING" /\ \A k \in Identity \ {IdOf(w)} : doc'[k] = doc[k]
      BY <1>0, <1>2, <2>2 DEF TypeOK
    <3>5. \A v \in Worker : worker'[v].message = worker[v].message /\ (v # w => worker'[v] = worker[v])
      BY <1>0 DEF Moves
    <3>6. \A v \in Worker : worker'[v].pc \in Restarting => IdOf(v)' # IdOf(w)
      BY <3>1, <3>2, <3>5 DEF Restarting, IdOf, JobOf
    <3>7. uploads[IdOf(w)] # 0 /\ <<"upload", IdOf(w)>> \notin inFlight
      BY <1>2, <3>2 DEF ParseInv, UploadsFirst, Restartable
    <3>8. PICK i \in Identity : i = IdOf(w)
      BY <1>2
    <3>9. Calm(i)'
      BY <2>2, <3>2, <3>6, <3>8 DEF Calm
    <3>10. \A v \in Worker : \/ worker'[v].pc = worker[v].pc
                             \/ worker'[v].pc = "confirmParse" /\ IdOf(v) = i /\ worker[v].pc = "parse"
      BY <2>1, <3>1, <3>5, <3>8
    <3>11. Others(i)
      BY <1>0, <2>1, <2>2, <3>3, <3>5, <3>8, <3>10 DEF Others
    <3>12. uploads'[i] # 0 /\ <<"upload", i>> \notin inFlight' /\ Uncertain(i)
      BY <2>1, <2>2, <3>2, <3>7, <3>8
    <3>13. QED BY <3>9, <3>11, <3>12, ProviderKeeps
  <2>3. CASE inFlight' = inFlight \cup {<<"parse", IdOf(w)>>} /\ UNCHANGED doc
             /\ Go(w, IF Overdue(w) THEN "fail" ELSE "parseLost")
    <3>1. worker'[w].pc \in {"fail", "parseLost"}
      BY <1>0, <2>3, GoMoves DEF Step, Final
    <3>2. QED BY <1>0, <2>1, <2>3, <3>1, LostKeeps DEF Tracked, Restarting
  <2>4. QED BY <1>6, <2>2, <2>3 DEF ParseDocument
<1>7. CASE ConfirmParse(w)
  <2>1. /\ UNCHANGED <<uploads, doc, inFlight>> /\ HoldsLease(w)
        /\ worker[w].pc \in {"confirmParse", "adopt"} /\ SetParseOp(w, "confirmed")
    BY <1>7 DEF ConfirmParse, provider, Current
  <2>2. worker'[w].pc \in {"conclude", "observe"}
    BY <1>0, <1>7 DEF ConfirmParse, TypeOK, WorkerState
  <2>3. CASE Calm(IdOf(w))
    BY <1>0, <1>1, <2>1, <2>2, <2>3, JournalKeeps DEF Restarting
  <2>4. CASE ParseOp(w) = "confirmed"
    <3>1. parseOp' = parseOp
      BY <1>0, <1>2, <2>1, <2>4 DEF SetParseOp, ParseOp, TypeOK
    <3>2. QED BY <1>0, <1>1, <2>1, <2>2, <3>1, LookKeeps DEF Restarting
  <2>5. QED BY <2>1, <2>3, <2>4 DEF ParseInv, HolderKnows, Holds
<1>8. CASE UploadDocument(w)
  <2>1. UNCHANGED parseOp /\ worker[w].pc = "upload" /\ uploads' = [uploads EXCEPT ![IdOf(w)] = @ + 1]
    BY <1>8 DEF UploadDocument, tables, At
  <2>2. worker'[w].pc \in {"confirmUpload", "uploadLost"}
    BY <1>0, <1>8, GoMoves DEF UploadDocument, Step
  <2>3. uploads[IdOf(w)] = 0
    BY <2>1 DEF UploadInv, Started
  <2>4. doc[IdOf(w)] = "absent" /\ <<"upload", IdOf(w)>> \notin inFlight
    BY <1>2, <2>3 DEF ParseInv, UploadsFirst
  <2>5. PICK i \in Identity : i = IdOf(w)
    BY <1>2
  <2>6. uploads'[i] = 1 /\ \A k \in Identity \ {i} : uploads'[k] = uploads[k]
    BY <1>0, <2>1, <2>3, <2>5 DEF TypeOK
  <2>7. \A k \in Identity \ {i} : doc'[k] = doc[k]
    BY <1>0, <1>8, <2>5 DEF UploadDocument, TypeOK
  <2>8. /\ \A k \in Identity \ {i} : <<"upload", k>> \in inFlight' <=> <<"upload", k>> \in inFlight
        /\ \A k \in Identity : <<"parse", k>> \in inFlight' <=> <<"parse", k>> \in inFlight
        /\ <<"upload", i>> \in inFlight' => doc'[i] = "absent"
    BY <1>8, <2>4, <2>5 DEF UploadDocument
  <2>10. Calm(i) /\ doc[i] \notin Restartable
    BY <2>4, <2>5, NoneRestarts DEF Restartable
  <2>11. \A v \in Worker : /\ worker'[v].message = worker[v].message
                           /\ worker'[v].pc = worker[v].pc \/ worker'[v].pc \notin Tracked
    BY <1>0, <2>2 DEF Moves, Tracked, Restarting
  <2>12. \A v \in Worker : worker'[v].pc \in Restarting => worker[v].pc \in Restarting /\ IdOf(v)' = IdOf(v)
    BY <2>11 DEF Tracked, Restarting, IdOf, JobOf
  <2>13. Calm(i)'
    BY <2>8, <2>10, <2>12 DEF Calm
  <2>9. Others(i)
    BY <1>0, <2>1, <2>6, <2>7, <2>8, <2>11 DEF Others
  <2>14. QED BY <2>6, <2>8, <2>9, <2>10, <2>13, ProviderKeeps
<1>9. QED BY <1>3, <1>4, <1>5, <1>6, <1>7, <1>8

(* A late effect, and a parse that ends.                                   *)
LEMMA ProviderSteps ==
    ASSUME TypeInv, ParseInv, NEW i \in Identity,
           ParseEnds(i) \/ \E kind \in {"upload", "parse"} : LateEffect(kind, i)
    PROVE  ParseInv'
<1>0. /\ doc \in [Identity -> Run \cup {"absent"}]
      /\ UNCHANGED <<parseOp, holder, uploads, worker>>
  BY DEF TypeInv, TypeOK, ParseEnds, LateEffect, tables
<1>1. \A k \in Identity \ {i} : doc'[k] = doc[k]
  BY <1>0 DEF ParseEnds, LateEffect
<1>2. \A v \in Worker : worker'[v].pc \in Restarting => worker[v].pc \in Restarting /\ IdOf(v)' = IdOf(v)
  BY <1>0 DEF IdOf, JobOf
<1>3. CASE ParseEnds(i)
  <2>1. doc[i] = "RUNNING" /\ doc'[i] # "absent" /\ inFlight' = inFlight
    BY <1>0, <1>3 DEF ParseEnds
  <2>2. Calm(i)
    BY <2>1, NoneRestarts DEF Restartable
  <2>3. Calm(i)'
    BY <1>2, <2>1, <2>2 DEF Calm
  <2>4. /\ uploads'[i] # 0 /\ <<"upload", i>> \notin inFlight' /\ doc[i] \notin Restartable
    BY <1>0, <2>1 DEF ParseInv, UploadsFirst, Restartable
  <2>5. Others(i)
    BY <1>0, <1>1, <2>1 DEF Others
  <2>6. QED BY <1>0, <2>3, <2>4, <2>5, ProviderKeeps
<1>4. CASE LateEffect("upload", i)
  <2>1. /\ <<"upload", i>> \in inFlight /\ inFlight' = inFlight \ {<<"upload", i>>} /\ doc'[i] = "UNSTART"
    BY <1>0, <1>4 DEF LateEffect
  <2>2. doc[i] = "absent" /\ uploads[i] # 0
    BY <2>1 DEF ParseInv, UploadsFirst
  <2>3. Calm(i)
    BY <2>2, NoneRestarts DEF Restartable
  <2>4. Calm(i)'
    BY <1>2, <2>1, <2>3 DEF Calm
  <2>5. Others(i)
    BY <1>0, <1>1, <2>1 DEF Others
  <2>6. doc'[i] \in Restartable /\ uploads'[i] # 0 /\ <<"upload", i>> \notin inFlight'
    BY <1>0, <2>1, <2>2 DEF Restartable
  <2>7. QED BY <1>0, <2>4, <2>5, <2>6, ProviderKeeps
<1>5. CASE LateEffect("parse", i)
  <2>1. /\ <<"parse", i>> \in inFlight /\ inFlight' = inFlight \ {<<"parse", i>>} /\ doc'[i] = "RUNNING"
    BY <1>0, <1>5 DEF LateEffect
  <2>2. doc[i] \in Restartable /\ Uncertain(i)
    BY <2>1 DEF ParseInv, OneRestart
  <2>3. Calm(i)'
    BY <1>2, <2>1 DEF ParseInv, OneRestart, Calm
  <2>4. uploads'[i] # 0 /\ <<"upload", i>> \notin inFlight'
    BY <1>0, <2>1, <2>2 DEF ParseInv, UploadsFirst, Restartable
  <2>5. Others(i)
    BY <1>0, <1>1, <2>1 DEF Others
  <2>6. QED BY <1>0, <2>2, <2>3, <2>4, <2>5, ProviderKeeps
<1>6. QED BY <1>3, <1>4, <1>5

(* The parse invariant is inductive relative to those of types and uploads. *)
LEMMA StepParse == TypeInv /\ UploadInv /\ ParseInv /\ [Next]_vars => ParseInv'
<1> SUFFICES ASSUME TypeInv, UploadInv, ParseInv, [Next]_vars PROVE ParseInv'
  OBVIOUS
<1>1. ASSUME UNCHANGED <<doc, inFlight, uploads, parseOp, worker>>,
             \A v \in Worker, i \in Identity : holder'[i] = v => holder[i] = v
      PROVE  ParseInv'
  <2>1. ASSUME NEW v \in Worker, worker'[v].pc \in Tracked, HoldsLease(v)' PROVE HoldsLease(v)
    <3>1. IdOf(v) \in Identity /\ IdOf(v)' = IdOf(v)
      BY <1>1, <2>1, BusyMessage DEF IdOf, JobOf, Tracked, Restarting
    <3>2. QED BY <1>1, <2>1, <3>1 DEF HoldsLease
  <2>2. NoParse
    BY <1>1, <2>1 DEF NoParse, Open
  <2>3. QED BY <2>2, NoParseKeeps
<1>2. ASSUME NEW j \in Job,
             \/ Submit(j) \/ Dispatch(j) \/ RetryIngestion(j) \/ DeadlinePasses(j)
             \/ \E status \in AdminStatus : UpdateStatus(j, status)
      PROVE  ParseInv'
  BY <1>1, <1>2 DEF Submit, Dispatch, RetryIngestion, DeadlinePasses, UpdateStatus, provider
<1>3. ASSUME NEW i \in Identity, RecoverUpload(i) PROVE ParseInv'
  BY <1>1, <1>3 DEF RecoverUpload, provider
<1>4. ASSUME NEW i \in Identity, Stall(i) PROVE ParseInv'
  <2>1. \A v \in Worker, k \in Identity : holder'[k] = v => holder[k] = v
    <3>1. holder \in [Identity -> Worker \cup {None}] /\ holder' = [holder EXCEPT ![i] = None]
      BY <1>4 DEF Stall, TypeInv, TypeOK
    <3>2. None \notin Worker
      BY JobAssumption
    <3>3. ASSUME NEW v \in Worker, NEW k \in Identity, holder'[k] = v PROVE holder[k] = v
      BY <1>4, <3>1, <3>2, <3>3
    <3>4. QED BY <3>3
  <2>2. QED BY <1>1, <1>4, <2>1 DEF Stall, tables, provider
<1>5. ASSUME NEW i \in Identity, ParseEnds(i) \/ \E kind \in {"upload", "parse"} : LateEffect(kind, i)
      PROVE  ParseInv'
  BY <1>5, ProviderSteps
<1>6. ASSUME NEW w \in Worker, Internal(w) PROVE ParseInv'
  BY <1>6, InternalNoParse, NoParseKeeps, ParseKeeps
<1>7. ASSUME NEW w \in Worker, Commit(w) \/ LeaseLost(w) \/ Crash(w) \/ \E m \in sent : Claim(w, m)
      PROVE  ParseInv'
  <2>1. UNCHANGED <<doc, inFlight, uploads, parseOp>>
    BY <1>7, CommitLeaves DEF LeaseLost, Crash, Claim, tables, provider
  <2>2. Tracked \subseteq Handling
    BY DEF Tracked, Restarting, Handling, Step
  <2>3. NoParse
    BY <1>7, <2>1, <2>2, NotHandling DEF NoParse, Open
  <2>4. QED BY <2>3, NoParseKeeps
<1>8. CASE UNCHANGED vars
  BY <1>1, <1>8 DEF vars, tables, provider
<1>9. QED BY <1>2, <1>3, <1>4, <1>5, <1>6, <1>7, <1>8
      DEF Next, HandlerStep, Internal, Commit

-----------------------------------------------------------------------------
(* Where the document has been verified.                                   *)
Uploaded == {"plan", "look", "checkParse", "claimParse", "assertParse", "parse",
             "confirmParse", "adopt", "observe", "conclude", "complete"}

(* A worker past the upload has its confirmed receipt, and one that has    *)
(* seen the parse done will still find it done.                            *)
IndexInv ==
    /\ \A w \in Worker : worker[w].pc \in Uploaded => uploadOp[IdOf(w)] = "confirmed"
    /\ \A w \in Worker :
          /\ worker[w].pc \in {"adopt", "conclude"} /\ worker[w].run = "DONE" => doc[IdOf(w)] = "DONE"
          /\ worker[w].pc = "complete" => doc[IdOf(w)] = "DONE"
    /\ IndexedParsed

(* A confirmed upload stays confirmed, and a parsed document parsed.       *)
LEMMA ReceiptStays ==
    ASSUME TypeInv, [Next]_vars
    PROVE  \A i \in Identity : uploadOp[i] = "confirmed" => uploadOp'[i] = "confirmed"
<1>0. uploadOp \in [Identity -> Operation \cup {"legacy_unknown"}]
  BY DEF TypeInv, TypeOK
<1>1. ASSUME NEW w \in Worker, Internal(w)
      PROVE  \A i \in Identity : uploadOp[i] = "confirmed" => uploadOp'[i] = "confirmed"
  <2>1. CASE UploadIntent(w)
    BY <1>0, <2>1 DEF UploadIntent
  <2>2. CASE ClaimUpload(w)
    BY <1>0, <2>2 DEF ClaimUpload, Startable
  <2>3. CASE UploadUnknown(w)
    BY <1>0, <2>3 DEF UploadUnknown, Unresolved
  <2>4. CASE ConfirmUpload(w)
    BY <1>0, <2>4 DEF ConfirmUpload
  <2>5. CASE UNCHANGED uploadOp
    BY <2>5
  <2>6. QED BY <1>1, <2>1, <2>2, <2>3, <2>4, <2>5
        DEF Internal, LoadObsolete, LoadJob, MarkRunning, TimedOut, Error, ReadFailed,
            Ambiguous, UploadKnown, FindDocument, AssertUpload, UploadDocument,
            PlanParse, PlanPoll, LookAtDocument, CheckParse, ClaimParse, AssertParse,
            ParseDocument, ParseUnknown, ConfirmParse, Observe, Conclude, tables
<1>2. ASSUME NEW i \in Identity, RecoverUpload(i)
      PROVE  \A k \in Identity : uploadOp[k] = "confirmed" => uploadOp'[k] = "confirmed"
  BY <1>0, <1>2 DEF RecoverUpload
<1>3. ASSUME NEW w \in Worker, Commit(w) PROVE UNCHANGED uploadOp
  BY <1>3, CommitLeaves
<1>4. \/ UNCHANGED uploadOp \/ \E i \in Identity : RecoverUpload(i)
      \/ \E w \in Worker : Internal(w) \/ Commit(w)
  BY DEF Next, HandlerStep, Internal, Commit, vars, tables, Submit, Dispatch, RetryIngestion,
         UpdateStatus, DeadlinePasses, Stall, ParseEnds, LateEffect, Claim, LeaseLost, Crash
<1>5. QED BY <1>1, <1>2, <1>3, <1>4

(* No request that may still take effect is for a parsed document.         *)
LEMMA ParsedStays ==
    ASSUME TypeInv, UploadInv, ParseInv, [Next]_vars
    PROVE  \A i \in Identity : doc[i] = "DONE" => doc'[i] = "DONE"
<1>0. doc \in [Identity -> Run \cup {"absent"}]
  BY DEF TypeInv, TypeOK
<1>1. ASSUME NEW w \in Worker, UploadDocument(w), NEW i \in Identity, doc[i] = "DONE" PROVE doc'[i] = "DONE"
  <2>1. worker[w].pc = "upload"
    BY <1>1 DEF UploadDocument, At
  <2>2. IdOf(w) \in Identity
    BY <2>1, BusyMessage
  <2>3. doc[IdOf(w)] = "absent"
    BY <2>1, <2>2 DEF UploadInv, Started, ParseInv, UploadsFirst
  <2>4. QED BY <1>0, <1>1, <2>2, <2>3 DEF UploadDocument
<1>2. ASSUME NEW w \in Worker, ParseDocument(w), NEW i \in Identity, doc[i] = "DONE" PROVE doc'[i] = "DONE"
  <2>1. worker[w].pc = "parse"
    BY <1>2 DEF ParseDocument, At
  <2>2. IdOf(w) \in Identity
    BY <2>1, BusyMessage
  <2>3. doc[IdOf(w)] # "DONE"
    BY <2>1, <2>2 DEF ParseInv, OneRestart, Restarting, Restartable
  <2>4. QED BY <1>0, <1>2, <2>2, <2>3 DEF ParseDocument
<1>3. ASSUME NEW k \in Identity, NEW kind \in {"upload", "parse"}, LateEffect(kind, k),
             NEW i \in Identity, doc[i] = "DONE"
      PROVE  doc'[i] = "DONE"
  <2>1. doc[k] # "DONE"
    BY <1>3 DEF LateEffect, ParseInv, UploadsFirst, OneRestart, Restartable
  <2>2. QED BY <1>0, <1>3, <2>1 DEF LateEffect
<1>4. ASSUME NEW k \in Identity, ParseEnds(k), NEW i \in Identity, doc[i] = "DONE" PROVE doc'[i] = "DONE"
  BY <1>0, <1>4 DEF ParseEnds
<1>5. ASSUME NEW w \in Worker, Internal(w) PROVE UNCHANGED doc \/ UploadDocument(w) \/ ParseDocument(w)
  BY <1>5
  DEF Internal, LoadObsolete, LoadJob, MarkRunning, TimedOut, Error, ReadFailed,
      Ambiguous, UploadIntent, UploadKnown, FindDocument, ClaimUpload, AssertUpload,
      UploadUnknown, ConfirmUpload, PlanParse, PlanPoll, LookAtDocument, CheckParse,
      ClaimParse, AssertParse, ParseUnknown, ConfirmParse, Observe, Conclude, provider
<1>6. ASSUME NEW w \in Worker, Commit(w) PROVE UNCHANGED doc
  BY <1>6, CommitLeaves DEF provider
<1>7. \/ UNCHANGED doc
      \/ \E w \in Worker : Internal(w) \/ Commit(w)
      \/ \E i \in Identity : ParseEnds(i) \/ \E kind \in {"upload", "parse"} : LateEffect(kind, i)
  BY DEF Next, HandlerStep, Internal, Commit, vars, provider, Submit, Dispatch, RetryIngestion,
         UpdateStatus, DeadlinePasses, Stall, RecoverUpload, Claim, LeaseLost, Crash
<1>8. QED BY <1>1, <1>2, <1>3, <1>4, <1>5, <1>6, <1>7

(* What an internal step has learnt of the document.                       *)
LEMMA InternalIndex ==
    ASSUME TypeInv, NEW w \in Worker, Internal(w)
    PROVE  /\ worker'[w].pc \in Uploaded =>
                 worker[w].pc \in Uploaded \/ uploadOp'[IdOf(w)] = "confirmed"
           /\ worker'[w].pc \in {"adopt", "conclude"} /\ worker'[w].run = "DONE" =>
                 doc[IdOf(w)] = "DONE" \/ (worker[w].pc = "adopt" /\ worker[w].run = "DONE")
           /\ worker'[w].pc = "complete" => worker[w].pc = "conclude" /\ worker[w].run = "DONE"
<1>0. TypeOK /\ worker[w].pc \in Step /\ worker[w] \in WorkerState
  BY InternalMoves DEF TypeInv, TypeOK
<1> DEFINE Learnt ==
      /\ worker'[w].pc \in Uploaded =>
            worker[w].pc \in Uploaded \/ uploadOp'[IdOf(w)] = "confirmed"
      /\ worker'[w].pc \in {"adopt", "conclude"} /\ worker'[w].run = "DONE" =>
            doc[IdOf(w)] = "DONE" \/ (worker[w].pc = "adopt" /\ worker[w].run = "DONE")
      /\ worker'[w].pc = "complete" => worker[w].pc = "conclude" /\ worker[w].run = "DONE"
<1>1. ASSUME NEW pc \in Step \ {"load"}, Go(w, pc),
             pc \in Uploaded => worker[w].pc \in Uploaded, pc \notin {"adopt", "conclude", "complete"}
      PROVE  Learnt
  BY <1>0, <1>1, GoMoves
<1>2. CASE LoadObsolete(w) \/ MarkRunning(w) \/ TimedOut(w) \/ Error(w)
           \/ ReadFailed(w) \/ Ambiguous(w) \/ UploadIntent(w)
  BY <1>1, <1>2
  DEF LoadObsolete, MarkRunning, TimedOut, Error, ReadFailed, Ambiguous, UploadIntent,
      Step, Final, Uploaded
<1>3. CASE FindDocument(w) \/ ClaimUpload(w) \/ AssertUpload(w)
           \/ UploadDocument(w) \/ UploadUnknown(w)
  BY <1>1, <1>3
  DEF FindDocument, ClaimUpload, AssertUpload, UploadDocument, UploadUnknown, Step, Final, Uploaded
<1>4. CASE PlanParse(w) \/ PlanPoll(w) \/ CheckParse(w) \/ ClaimParse(w)
           \/ AssertParse(w) \/ ParseDocument(w) \/ ParseUnknown(w)
  BY <1>1, <1>4
  DEF PlanParse, PlanPoll, CheckParse, ClaimParse, AssertParse, ParseDocument, ParseUnknown,
      At, Step, Final, Uploaded
<1>5. CASE UploadKnown(w)
  <2>1. worker'[w].pc = "plan" /\ uploadOp'[IdOf(w)] = "confirmed"
    <3>1. worker'[w].pc = "plan"
      BY <1>0, <1>5, GoMoves DEF UploadKnown, Step
    <3>2. uploadOp' = uploadOp /\ uploadOp[IdOf(w)] = "confirmed"
      BY <1>5 DEF UploadKnown, tables
    <3>3. QED BY <3>1, <3>2
  <2>2. QED BY <2>1
<1>6. CASE ConfirmUpload(w)
  <2>1. worker'[w].pc = "plan"
    BY <1>0, <1>6, GoMoves DEF ConfirmUpload, Step
  <2>2. IdOf(w) \in Identity
    BY <1>6, BusyMessage DEF ConfirmUpload, At
  <2>3. uploadOp'[IdOf(w)] = "confirmed"
    BY <1>0, <1>6, <2>2 DEF ConfirmUpload, TypeOK
  <2>4. QED BY <2>1, <2>3
<1>7. CASE LoadJob(w)
  <2>1. worker'[w].pc \in {"provide", "begin"}
    BY <1>0, <1>7 DEF LoadJob, TypeOK, WorkerState
  <2>2. QED BY <2>1 DEF Uploaded
<1>8. CASE LookAtDocument(w) \/ Observe(w)
  <2>1. /\ worker[w].pc \in Uploaded /\ worker'[w].run = doc[IdOf(w)]
        /\ worker'[w].pc \in {"checkParse", "adopt", "conclude"}
    BY <1>0, <1>8 DEF LookAtDocument, Observe, At, TypeOK, WorkerState, Uploaded
  <2>2. QED BY <2>1
<1>9. CASE ConfirmParse(w)
  <2>1. /\ worker[w].pc \in Uploaded /\ worker'[w].run = worker[w].run
        /\ worker'[w].pc = IF worker[w].pc = "adopt" THEN "conclude" ELSE "observe"
    BY <1>0, <1>9 DEF ConfirmParse, TypeOK, WorkerState, Uploaded
  <2>2. QED BY <2>1
<1>10. CASE Conclude(w)
  <2>1. worker[w].pc = "conclude" /\ worker[w].run \in Run
    BY <1>0, <1>10 DEF Conclude, At, WorkerState
  <2>2. CASE worker[w].run = "DONE"
    <3>1. Go(w, "complete")
      BY <1>10, <2>2 DEF Conclude
    <3>2. worker'[w].pc = "complete"
      BY <1>0, <3>1, GoMoves DEF Step, Final
    <3>3. QED BY <2>1, <2>2, <3>2 DEF Uploaded
  <2>3. CASE worker[w].run # "DONE"
    <3>1. \E pc \in {"fail", "schedule"} : Go(w, pc)
      BY <1>10, <2>1, <2>3 DEF Conclude, Run
    <3>2. QED BY <1>1, <3>1 DEF Step, Final, Uploaded
  <2>4. QED BY <2>2, <2>3
<1>11. Learnt
  BY <1>2, <1>3, <1>4, <1>5, <1>6, <1>7, <1>8, <1>9, <1>10 DEF Internal
<1>12. QED BY <1>11

(* IndexInv is inductive relative to the other invariants.                 *)
LEMMA StepIndex ==
    TypeInv /\ UploadInv /\ ParseInv /\ IndexInv /\ [Next]_vars => IndexInv'
<1> SUFFICES ASSUME TypeInv, UploadInv, ParseInv, IndexInv, [Next]_vars PROVE IndexInv'
  OBVIOUS
<1>1. \A i \in Identity : /\ uploadOp[i] = "confirmed" => uploadOp'[i] = "confirmed"
                          /\ doc[i] = "DONE" => doc'[i] = "DONE"
  BY ReceiptStays, ParsedStays
<1>2. \A v \in Worker : worker[v].pc \in Uploaded => IdOf(v) \in Identity
  BY BusyMessage DEF Uploaded
<1>3. ASSUME NEW v \in Worker, worker'[v] = worker[v]
      PROVE  /\ worker'[v].pc \in Uploaded => uploadOp'[IdOf(v)'] = "confirmed"
             /\ worker'[v].pc \in {"adopt", "conclude"} /\ worker'[v].run = "DONE" => doc'[IdOf(v)'] = "DONE"
             /\ worker'[v].pc = "complete" => doc'[IdOf(v)'] = "DONE"
  <2>1. IdOf(v)' = IdOf(v)
    BY <1>3 DEF IdOf, JobOf
  <2>2. QED BY <1>1, <1>2, <1>3, <2>1 DEF IndexInv, Uploaded
<1>4. ASSUME NEW w \in Worker, Internal(w) PROVE IndexInv'
  <2>1. Moves(w) /\ worker[w].pc \in Step /\ indexed' = indexed
    BY <1>4, InternalMoves
  <2>2. /\ IdOf(w)' = IdOf(w) /\ \A v \in Worker \ {w} : worker'[v] = worker[v]
    BY <2>1 DEF Moves, IdOf, JobOf
  <2>3. IdOf(w) \in Identity
    BY <2>1, BusyMessage DEF Step, Final
  <2>4. /\ worker'[w].pc \in Uploaded => uploadOp'[IdOf(w)'] = "confirmed"
        /\ worker'[w].pc \in {"adopt", "conclude"} /\ worker'[w].run = "DONE" => doc'[IdOf(w)'] = "DONE"
        /\ worker'[w].pc = "complete" => doc'[IdOf(w)'] = "DONE"
    BY <1>1, <1>4, <2>2, <2>3, InternalIndex DEF IndexInv
  <2>5. IndexedParsed'
    BY <1>1, <2>1 DEF IndexInv, IndexedParsed, TypeInv, TypeOK
  <2>6. QED BY <1>3, <2>2, <2>4, <2>5 DEF IndexInv
<1>5. ASSUME NEW w \in Worker, worker'[w].pc \in {"idle", "load"},
             \A v \in Worker \ {w} : worker'[v] = worker[v],
             \/ indexed' = indexed
             \/ worker[w].pc = "complete" /\ indexed' = indexed \cup {IdOf(w)}
      PROVE  IndexInv'
  <2>1. IndexedParsed'
    <3>1. CASE indexed' = indexed
      BY <1>1, <3>1 DEF IndexInv, IndexedParsed, TypeInv, TypeOK
    <3>2. CASE worker[w].pc = "complete" /\ indexed' = indexed \cup {IdOf(w)}
      <4>1. uploadOp[IdOf(w)] = "confirmed" /\ doc[IdOf(w)] = "DONE" /\ IdOf(w) \in Identity
        BY <1>2, <3>2 DEF IndexInv, Uploaded
      <4>2. \A i \in indexed : i \in Identity /\ uploadOp[i] = "confirmed" /\ doc[i] = "DONE"
        BY DEF IndexInv, IndexedParsed, TypeInv, TypeOK
      <4>3. QED BY <1>1, <3>2, <4>1, <4>2 DEF IndexedParsed
    <3>3. QED BY <1>5, <3>1, <3>2
  <2>2. QED BY <1>3, <1>5, <2>1 DEF IndexInv, Uploaded
<1>6. ASSUME NEW w \in Worker, Commit(w) PROVE IndexInv'
  <2>1. worker'[w].pc = "idle" /\ \A v \in Worker \ {w} : worker'[v] = worker[v]
    BY <1>6, CommitLeaves DEF Leaves, Idle
  <2>2. \/ indexed' = indexed
        \/ worker[w].pc = "complete" /\ indexed' = indexed \cup {IdOf(w)}
    BY <1>6 DEF Commit, Reconcile, AckObsolete, FailJob, SchedulePoll, CompleteIngestion, At
  <2>3. QED BY <1>5, <2>1, <2>2
<1>7. ASSUME NEW w \in Worker, LeaseLost(w) \/ Crash(w) \/ \E m \in sent : Claim(w, m) PROVE IndexInv'
  <2>1. worker'[w].pc \in {"idle", "load"} /\ \A v \in Worker \ {w} : worker'[v] = worker[v]
    <3>1. worker \in [Worker -> WorkerState]
      BY DEF TypeInv, TypeOK
    <3>2. CASE LeaseLost(w) \/ Crash(w)
      BY <3>1, <3>2 DEF LeaseLost, Crash, Leave, Idle
    <3>3. CASE \E m \in sent : Claim(w, m)
      BY <3>1, <3>3 DEF Claim, Idle
    <3>4. QED BY <1>7, <3>2, <3>3
  <2>2. indexed' = indexed
    BY <1>7 DEF LeaseLost, Crash, Claim, tables
  <2>3. QED BY <1>5, <2>1, <2>2
<1>8. CASE UNCHANGED <<worker, indexed>>
  <2>1. IndexedParsed'
    BY <1>1, <1>8 DEF IndexInv, IndexedParsed, TypeInv, TypeOK
  <2>2. QED BY <1>3, <1>8, <2>1 DEF IndexInv
<1>9. UNCHANGED <<worker, indexed>> \/ \E w \in Worker :
         Internal(w) \/ Commit(w) \/ LeaseLost(w) \/ Crash(w) \/ \E m \in sent : Claim(w, m)
  BY DEF Next, HandlerStep, Internal, Commit, vars, tables, Submit, Dispatch, RetryIngestion,
         UpdateStatus, DeadlinePasses, Stall, RecoverUpload, ParseEnds, LateEffect
<1>10. QED BY <1>4, <1>6, <1>7, <1>8, <1>9

(* What is indexed stays parsed and confirmed: no request that is still    *)
(* under way, of this or another job or generation, of a worker that has   *)
(* lost its lease or with a lost answer, restarts the parse of a document  *)
(* that retrieval already serves, for every number of jobs, retries,       *)
(* workers, stalls and crashes.                                            *)
THEOREM IndexedStays == Spec => []IndexedParsed
<1>1. Init => UploadInv /\ ParseInv /\ IndexInv
  <2> SUFFICES ASSUME Init PROVE UploadInv /\ ParseInv /\ IndexInv
    OBVIOUS
  <2>1. \A w \in Worker : worker[w].pc = "idle"
    BY DEF Init, Idle
  <2>2. UploadInv
    BY <2>1 DEF Init, UploadInv, Intended, Started
  <2>3. ParseInv
    BY <2>1 DEF Init, ParseInv, UploadsFirst, OneRestart, Restarting, HolderKnows, Holds
  <2>4. IndexInv
    BY <2>1 DEF Init, IndexInv, IndexedParsed, Uploaded
  <2>5. QED BY <2>2, <2>3, <2>4
<1>2. IndexInv => IndexedParsed
  BY DEF IndexInv
<1>3. QED BY <1>1, <1>2, StepUpload, StepParse, StepIndex, TypeSafety, PTL DEF Spec
===============================================================================
