--------------------------- MODULE DurableDelivery ---------------------------
(***************************************************************************)
(* The publishing half of the durable delivery runtime: the PostgreSQL     *)
(* outbox, its publisher leases, the reconciler, the dead-letter journal   *)
(* and the operator's replay (class DurableDelivery, SqlOutboxRepository,  *)
(* and the Celery pump that drives them).                                  *)
(*                                                                         *)
(* Every timestamp in the code is only ever compared with the database     *)
(* clock, so a timestamp is represented by the outcome of that comparison: *)
(* it lies in the Future, in the Past, or it is '-infinity' (NegInf),      *)
(* which no movement of the clock can ever bring back into the Future.     *)
(* The passage of time moves Future to Past; a correction of the wall      *)
(* clock may move Past back to Future.                                     *)
(***************************************************************************)
EXTENDS Naturals, FiniteSets

CONSTANTS
    Msg,            \* outbox message identities
    Resource,       \* execution lease keys (topic plus aggregate key)
    Pub,            \* pump processes
    Worker,         \* consumer processes
    ResourceOf,     \* the resource a message is serialized on
    None,           \* SQL NULL
    MaxAttempts,    \* the delivery policy's max_attempts
    PumpLimit,      \* deliveries one pump run makes at most
    MaxFaults,      \* bound: crashes, stalls, losses and clock corrections
    Schedule,       \* the not_before producers ask for: none, or a later time
    MaxReplays,     \* bound: dead letters an operator replays
    ClockMaySlip    \* whether the database's wall clock may be set back

ASSUME MessageAssumption ==
    /\ ResourceOf \in [Msg -> Resource]
    /\ None \notin Msg \cup Pub \cup Worker

ASSUME PolicyAssumption ==
    /\ MaxAttempts \in Nat \ {0}
    /\ PumpLimit \in Nat \ {0}
    /\ MaxFaults \in Nat
    /\ MaxReplays \in Nat
    /\ Schedule \subseteq {"-infinity", "future"}
    /\ ClockMaySlip \in BOOLEAN

VARIABLES
    outbox,     \* table outbox_message joined with its outbox_dead_letter row
    inbox,      \* table inbox_message: the acknowledged messages
    execution,  \* table outbox_execution: one lease row per resource
    broker,     \* copies of a task hint the broker has yet to hand out
    pub,        \* local state of every pump process
    faults,     \* environment faults so far
    replays     \* operator replays so far

deliveryVars == <<outbox, inbox, execution, broker, pub, faults, replays>>

NegInf == "-infinity"
Past   == "past"
Future == "future"

Timestamp == {NegInf, Past, Future}

Status == {"absent", "pending", "delivering", "published"}

(* dead is "none" without a journal row, "dead" while replayed_at IS NULL. *)
OutboxRow ==
    [status       : Status,
     attempt      : Nat,
     available_at : Timestamp,
     not_before   : Timestamp,
     lease_owner  : Pub \cup {None},
     lease        : Timestamp,
     published_at : Timestamp,
     dead         : {"none", "dead", "replayed"}]

ExecutionRow ==
    [message : Msg \cup {None},
     owner   : Worker \cup {None},
     epoch   : Nat,
     expires : Timestamp]

PumpState ==
    [pc      : {"idle", "reconcile", "loop", "publish", "finish"},
     message : Msg \cup {None},
     attempt : Nat,
     error   : BOOLEAN,
     count   : Nat,
     rows    : SUBSET Msg]

IdlePump == [pc |-> "idle", message |-> None, attempt |-> 0,
             error |-> FALSE, count |-> 0, rows |-> {}]

AbsentRow == [status |-> "absent", attempt |-> 0, available_at |-> NegInf,
              not_before |-> NegInf, lease_owner |-> None, lease |-> NegInf,
              published_at |-> NegInf, dead |-> "none"]

(* A lease row that was never inserted: epoch 0, not live. *)
NoExecution == [message |-> None, owner |-> None, epoch |-> 0,
                expires |-> NegInf]

DeliveryTypeOK ==
    /\ outbox \in [Msg -> OutboxRow]
    /\ inbox \in SUBSET Msg
    /\ execution \in [Resource -> ExecutionRow]
    /\ broker \in [Msg -> Nat]
    /\ pub \in [Pub -> PumpState]
    /\ faults \in Nat
    /\ replays \in Nat

DeliveryInit ==
    /\ outbox = [m \in Msg |-> AbsentRow]
    /\ inbox = {}
    /\ execution = [r \in Resource |-> NoExecution]
    /\ broker = [m \in Msg |-> 0]
    /\ pub = [p \in Pub |-> IdlePump]
    /\ faults = 0
    /\ replays = 0

-----------------------------------------------------------------------------
(* Predicates of the SQL statements. *)

Live(t) == t = Future        \* expires_at > clock_timestamp()
Due(t)  == t # Future        \* ts <= clock_timestamp()

DeadLettered(m) == outbox[m].dead = "dead"

(* NOT_BEFORE_DUE_SQL: the immutable schedule, never its projection. *)
NotBeforeDue(m) == Due(outbox[m].not_before)

(* Rows another transaction holds FOR UPDATE; claims SKIP LOCKED. *)
Locked(m) == \E p \in Pub : m \in pub[p].rows

(* Mutant of ActiveExecution: the lease row without its expiry. *)
HasExecutionRow(m) == \E r \in Resource : execution[r].message = m

(* active_execution_sql *)
ActiveExecution(m) ==
    \E r \in Resource : execution[r].message = m /\ Live(execution[r].expires)

(* A row whose publication may be (re)attempted. *)
Unpublished(m) ==
    \/ outbox[m].status = "pending"
    \/ outbox[m].status = "delivering" /\ Due(outbox[m].lease)

(* The candidate query of claim_delivery. *)
Claimable(m) ==
    /\ Due(outbox[m].available_at)
    /\ NotBeforeDue(m)
    /\ Unpublished(m)
    /\ ~DeadLettered(m)
    /\ ~Locked(m)

(* reconcile's first query: publishers kept dying after the claim. *)
Exhausted(m) ==
    /\ outbox[m].attempt >= MaxAttempts
    /\ Unpublished(m)
    /\ ~DeadLettered(m)
    /\ ~Locked(m)

(* reconcile's second query: published longer than a lease ago, no         *)
(* acknowledgement and nobody executing it.                                *)
Unacknowledged(m) ==
    /\ outbox[m].status = "published"
    /\ Due(outbox[m].published_at)
    /\ m \notin inbox
    /\ ~ActiveExecution(m)
    /\ ~DeadLettered(m)
    /\ ~Locked(m)

-----------------------------------------------------------------------------
(* Producer. *)

(* enqueue inserts the message with the caller's transaction.  An enqueue  *)
(* that reuses the deduplication key with the same intent returns the      *)
(* existing row unchanged, with another intent it raises: both stutter.    *)
Enqueue(m, when) ==
    /\ outbox[m].status = "absent"
    /\ outbox' = [outbox EXCEPT ![m] =
                    [AbsentRow EXCEPT !.status = "pending",
                                      !.available_at = when,
                                      !.not_before = when]]
    /\ UNCHANGED <<inbox, execution, broker, pub, faults, replays>>

-----------------------------------------------------------------------------
(* The pump: reconcile, then claim, publish and finish until none is left. *)

(* The two SELECT ... FOR UPDATE SKIP LOCKED of reconcile. *)
ReconcileSelect(p) ==
    /\ pub[p].pc = "idle"
    /\ pub' = [pub EXCEPT ![p] =
                [IdlePump EXCEPT !.pc = "reconcile",
                                 !.rows = {m \in Msg : \/ Exhausted(m)
                                                       \/ Unacknowledged(m)}]]
    /\ UNCHANGED <<outbox, inbox, execution, broker, faults, replays>>

(* What reconcile writes for one selected row. *)
Reconciled(row) ==
    IF row.attempt >= MaxAttempts
    THEN [row EXCEPT !.dead = "dead"]
    ELSE [row EXCEPT !.status = "pending", !.available_at = NegInf]

(* The selected rows are locked until the transaction commits, but neither *)
(* the inbox nor the execution leases are.                                 *)
ReconcileCommit(p) ==
    /\ pub[p].pc = "reconcile"
    /\ outbox' = [m \in Msg |-> IF m \in pub[p].rows
                                THEN Reconciled(outbox[m])
                                ELSE outbox[m]]
    /\ pub' = [pub EXCEPT ![p] = [IdlePump EXCEPT !.pc = "loop"]]
    /\ UNCHANGED <<inbox, execution, broker, faults, replays>>

ClaimDelivery(p, m) ==
    /\ pub[p].pc = "loop"
    /\ pub[p].count < PumpLimit
    /\ Claimable(m)
    /\ outbox' = [outbox EXCEPT ![m].status = "delivering",
                                ![m].lease_owner = p,
                                ![m].lease = Future,
                                ![m].attempt = @ + 1]
    /\ pub' = [pub EXCEPT ![p] =
                [pub[p] EXCEPT !.pc = "publish", !.message = m,
                               !.attempt = outbox[m].attempt + 1]]
    /\ UNCHANGED <<inbox, execution, broker, faults, replays>>

(* claim_delivery found nothing, or the loop limit was reached. *)
PumpEnd(p) ==
    /\ pub[p].pc = "loop"
    /\ pub[p].count = PumpLimit \/ \A m \in Msg : ~Claimable(m)
    /\ pub' = [pub EXCEPT ![p] = IdlePump]
    /\ UNCHANGED <<outbox, inbox, execution, broker, faults, replays>>

(* apply_async: the broker has the task and the call returned. *)
Publish(p) ==
    /\ pub[p].pc = "publish"
    /\ broker' = [broker EXCEPT ![pub[p].message] = @ + 1]
    /\ pub' = [pub EXCEPT ![p].pc = "finish", ![p].error = FALSE]
    /\ UNCHANGED <<outbox, inbox, execution, faults, replays>>

(* apply_async raised; the task may have reached the broker all the same. *)
PublishError(p) ==
    /\ pub[p].pc = "publish"
    /\ broker' \in {broker, [broker EXCEPT ![pub[p].message] = @ + 1]}
    /\ pub' = [pub EXCEPT ![p].pc = "finish", ![p].error = TRUE]
    /\ UNCHANGED <<outbox, inbox, execution, faults, replays>>

(* The publisher lease finish_delivery's UPDATE is conditional on. *)
HoldsDelivery(p) ==
    LET m == pub[p].message IN
    /\ outbox[m].lease_owner = p
    /\ outbox[m].status = "delivering"
    /\ Live(outbox[m].lease)

(* Mutant of Finished: dead-letters one attempt too late. *)
FinishedLate(row, error, attempt) ==
    [row EXCEPT
        !.status       = IF error THEN "pending" ELSE "published",
        !.published_at = IF error THEN @ ELSE Future,
        !.lease_owner  = None,
        !.lease        = NegInf,
        !.available_at = Future,
        !.dead = IF error /\ attempt > MaxAttempts THEN "dead" ELSE @]

(* What finish_delivery writes to its row. *)
Finished(row, error, attempt) ==
    [row EXCEPT
        !.status       = IF error THEN "pending" ELSE "published",
        !.published_at = IF error THEN @ ELSE Future,
        !.lease_owner  = None,
        !.lease        = NegInf,
        !.available_at = Future,
        !.dead = IF error /\ attempt >= MaxAttempts THEN "dead" ELSE @]

NextRound(pump) == [IdlePump EXCEPT !.pc = "loop", !.count = pump.count + 1]

FinishDelivery(p) ==
    /\ pub[p].pc = "finish"
    /\ HoldsDelivery(p)
    /\ ~Locked(pub[p].message)
    /\ outbox' = [outbox EXCEPT ![pub[p].message] =
                    Finished(@, pub[p].error, pub[p].attempt)]
    /\ pub' = [pub EXCEPT ![p] = NextRound(@)]
    /\ UNCHANGED <<inbox, execution, broker, faults, replays>>

(* DeliveryLeaseLost: a later owner is authoritative, nothing is written. *)
FinishLost(p) ==
    /\ pub[p].pc = "finish"
    /\ ~HoldsDelivery(p)
    /\ pub' = [pub EXCEPT ![p] = NextRound(@)]
    /\ UNCHANGED <<outbox, inbox, execution, broker, faults, replays>>

-----------------------------------------------------------------------------
(* Operator. *)

(* What replay writes; the inbox marker is kept. *)
Replayed(row) ==
    [row EXCEPT !.dead = "replayed", !.status = "pending", !.attempt = 0,
                !.available_at = NegInf, !.lease_owner = None,
                !.lease = NegInf]

Replay(m) ==
    /\ replays < MaxReplays
    /\ DeadLettered(m)
    /\ ~Locked(m)
    /\ outbox' = [outbox EXCEPT ![m] = Replayed(@)]
    /\ replays' = replays + 1
    /\ UNCHANGED <<inbox, execution, broker, pub, faults>>

-----------------------------------------------------------------------------
(* Environment: process death, lost hints and the database clock. *)

Fault == faults < MaxFaults /\ faults' = faults + 1

(* The pump's process dies: its open transaction rolls back, its publisher *)
(* lease stays in the row.                                                 *)
PumpCrash(p) ==
    /\ pub[p].pc # "idle"
    /\ Fault
    /\ pub' = [pub EXCEPT ![p] = IdlePump]
    /\ UNCHANGED <<outbox, inbox, execution, broker, replays>>

(* The broker drops a task hint, or delivers it a second time (external). *)
BrokerFault(m) ==
    /\ broker[m] > 0
    /\ Fault
    /\ \E n \in {broker[m] - 1, broker[m] + 1} :
          broker' = [broker EXCEPT ![m] = n]
    /\ UNCHANGED <<outbox, inbox, execution, pub, replays>>

(* Time passes one of the timers of a message.  A finite available_at is   *)
(* never earlier than not_before: it starts out equal and only grows.      *)
TimerDue(m) ==
    /\ \E f \in {"available_at", "not_before", "published_at"} :
          /\ outbox[m][f] = Future
          /\ f = "available_at" => outbox[m].not_before # Future
          /\ outbox' = [outbox EXCEPT ![m][f] = Past]
    /\ UNCHANGED <<inbox, execution, broker, pub, faults, replays>>

Publishing(p, m) == pub[p].pc \in {"publish", "finish"} /\ pub[p].message = m

(* A publisher lease runs out: by itself when its holder is gone, as a     *)
(* fault (a stall longer than the lease) while the holder still runs.      *)
LeaseLapse(m) ==
    /\ outbox[m].lease = Future
    /\ outbox' = [outbox EXCEPT ![m].lease = Past]
    /\ IF \E p \in Pub : Publishing(p, m) /\ HoldsDelivery(p)
       THEN Fault
       ELSE UNCHANGED faults
    /\ UNCHANGED <<inbox, execution, broker, pub, replays>>

(* The wall clock is set back: a timestamp that had passed lies ahead      *)
(* again.  '-infinity' never does.                                         *)
ClockSlip ==
    /\ ClockMaySlip
    /\ Fault
    /\ \/ /\ \E m \in Msg, f \in {"available_at", "not_before",
                                  "published_at", "lease"} :
                /\ outbox[m][f] = Past
                /\ outbox' = [outbox EXCEPT ![m][f] = Future]
          /\ UNCHANGED execution
       \/ /\ \E r \in Resource :
                /\ execution[r].expires = Past
                /\ execution' = [execution EXCEPT ![r].expires = Future]
          /\ UNCHANGED outbox
    /\ UNCHANGED <<inbox, broker, pub, replays>>

DeliveryNext ==
    \/ \E m \in Msg, when \in Schedule : Enqueue(m, when)
    \/ \E p \in Pub : \/ ReconcileSelect(p)
                      \/ ReconcileCommit(p)
                      \/ \E m \in Msg : ClaimDelivery(p, m)
                      \/ PumpEnd(p)
                      \/ Publish(p)
                      \/ PublishError(p)
                      \/ FinishDelivery(p)
                      \/ FinishLost(p)
                      \/ PumpCrash(p)
    \/ \E m \in Msg : \/ Replay(m)
                      \/ BrokerFault(m)
                      \/ TimerDue(m)
                      \/ LeaseLapse(m)
    \/ ClockSlip
=============================================================================
