----------------------------- MODULE DurableTasks -----------------------------
(***************************************************************************)
(* The consuming half of the durable delivery runtime, composed with the   *)
(* publishing half (class DurableTasks extends class DurableDelivery).     *)
(* A worker that is handed a message id claims the execution lease of the  *)
(* message's resource, runs the registered handler under a before_commit   *)
(* guard that fences every commit of the session, and acknowledges in the  *)
(* inbox together with the handler's last changes.                         *)
(***************************************************************************)
EXTENDS DurableDelivery

VARIABLES
    worker,     \* local state of every consumer process
    effects,    \* ghost: committed final transactions per message
    released,   \* ghost: per resource, the epoch released last
    turn        \* ghost: per resource, the execution that committed last

ghosts == <<effects, released, turn>>
taskVars == <<worker, ghosts>>
vars == <<deliveryVars, taskVars>>

WorkerState ==
    [pc      : {"idle", "checked", "claimed", "running",
                "guardedStep", "guardedLast", "closing"},
     message : Msg \cup {None},
     epoch   : Nat]

(* closed: the last commit of the turn was the acknowledging one. *)
Turn == [epoch : Nat, message : Msg \cup {None}, closed : BOOLEAN]

IdleWorker == [pc |-> "idle", message |-> None, epoch |-> 0]

NoTurn == [epoch |-> 0, message |-> None, closed |-> TRUE]

(* Every variable has its type. *)
TypeOK ==
    /\ DeliveryTypeOK
    /\ worker \in [Worker -> WorkerState]
    /\ effects \in [Msg -> Nat]
    /\ released \in [Resource -> Nat]
    /\ turn \in [Resource -> Turn]

Init ==
    /\ DeliveryInit
    /\ worker = [w \in Worker |-> IdleWorker]
    /\ effects = [m \in Msg |-> 0]
    /\ released = [r \in Resource |-> 0]
    /\ turn = [r \in Resource |-> NoTurn]

-----------------------------------------------------------------------------
ResourceHeld(w) == ResourceOf[worker[w].message]

(* The exact owner, message and epoch of the lease row. *)
OwnsLease(w) ==
    LET row == execution[ResourceHeld(w)] IN
    /\ row.message = worker[w].message
    /\ row.owner = w
    /\ row.epoch = worker[w].epoch

(* Mutant of LeaseCurrent: a live lease on the resource, whoever holds it. *)
ResourceLeased(w) == Live(execution[ResourceHeld(w)].expires)

(* CHECK_LEASE *)
LeaseCurrent(w) == OwnsLease(w) /\ Live(execution[ResourceHeld(w)].expires)

(* Mutant of RowLocked: CHECK_LEASE without FOR UPDATE. *)
NeverLocked(r) == FALSE

(* The lease row of a resource is locked from the commit guard's SELECT    *)
(* ... FOR UPDATE to the end of the transaction it guards.                 *)
RowLocked(r) ==
    \E w \in Worker : /\ worker[w].pc \in {"guardedStep", "guardedLast"}
                      /\ ResourceHeld(w) = r

(* The first SELECT of claim_execution. *)
Consumable(m) ==
    /\ outbox[m].status # "absent"
    /\ NotBeforeDue(m)
    /\ m \notin inbox
    /\ ~DeadLettered(m)

TaskEnd(w) == worker' = [worker EXCEPT ![w] = IdleWorker]

(* A worker is handed a copy of a hint and the message qualifies. *)
ClaimCheck(w, m) ==
    /\ worker[w].pc = "idle"
    /\ broker[m] > 0
    /\ Consumable(m)
    /\ broker' = [broker EXCEPT ![m] = @ - 1]
    /\ worker' = [worker EXCEPT ![w] =
                    [IdleWorker EXCEPT !.pc = "checked", !.message = m]]
    /\ UNCHANGED <<outbox, inbox, execution, pub, faults, replays, ghosts>>

(* Mutant of ClaimRefused: acknowledges a hint it was never handed. *)
RefusedUnasked(w, m) ==
    /\ worker[w].pc = "idle"
    /\ ~Consumable(m)
    /\ broker' = [broker EXCEPT ![m] = @ - 1]
    /\ UNCHANGED <<outbox, inbox, execution, pub, faults, replays, taskVars>>

(* A hint for a message that does not qualify: consume returns False. *)
ClaimRefused(w, m) ==
    /\ worker[w].pc = "idle"
    /\ broker[m] > 0
    /\ ~Consumable(m)
    /\ broker' = [broker EXCEPT ![m] = @ - 1]
    /\ UNCHANGED <<outbox, inbox, execution, pub, faults, replays, taskVars>>

(* The row the upsert of claim_execution leaves behind. *)
LeaseRow(w, expires) ==
    [message |-> worker[w].message,
     owner   |-> w,
     epoch   |-> execution[ResourceHeld(w)].epoch + 1,
     expires |-> expires]

(* The upsert waits for the row lock, then takes a lease that has run out. *)
LeaseFree(w) ==
    /\ ~RowLocked(ResourceHeld(w))
    /\ Due(execution[ResourceHeld(w)].expires)

(* The second inbox check found no marker: the execution is claimed. *)
ClaimLease(w) ==
    /\ worker[w].pc = "checked"
    /\ LeaseFree(w)
    /\ worker[w].message \notin inbox
    /\ execution' = [execution EXCEPT ![ResourceHeld(w)] = LeaseRow(w, Future)]
    /\ worker' = [worker EXCEPT ![w].pc = "claimed",
                                ![w].epoch =
                                    execution[ResourceHeld(w)].epoch + 1]
    /\ UNCHANGED <<outbox, inbox, broker, pub, faults, replays, ghosts>>

(* The previous execution committed while this one waited for the row:     *)
(* the lease is given back in the transaction that took it.                *)
ClaimDone(w) ==
    /\ worker[w].pc = "checked"
    /\ LeaseFree(w)
    /\ worker[w].message \in inbox
    /\ execution' = [execution EXCEPT ![ResourceHeld(w)] = LeaseRow(w, NegInf)]
    /\ released' = [released EXCEPT ![ResourceHeld(w)] =
                        execution[ResourceHeld(w)].epoch + 1]
    /\ TaskEnd(w)
    /\ UNCHANGED <<outbox, inbox, broker, pub, faults, replays, effects, turn>>

(* Somebody else holds a live lease on the resource. *)
ClaimBusy(w) ==
    /\ worker[w].pc = "checked"
    /\ ~RowLocked(ResourceHeld(w))
    /\ Live(execution[ResourceHeld(w)].expires)
    /\ TaskEnd(w)
    /\ UNCHANGED <<deliveryVars, ghosts>>

(* execute: assert_execution_current, then enter the handler. *)
Execute(w) ==
    /\ worker[w].pc = "claimed"
    /\ LeaseCurrent(w)
    /\ worker' = [worker EXCEPT ![w].pc = "running"]
    /\ UNCHANGED <<deliveryVars, ghosts>>

(* The heartbeat extends a lease that is still live.  An extended deadline *)
(* is still in the future; what a heartbeat buys is that the lease of a    *)
(* running worker only lapses by a fault.                                  *)
Renew(w) ==
    /\ worker[w].pc \in {"claimed", "running"}
    /\ LeaseCurrent(w)
    /\ execution' = [execution EXCEPT ![ResourceHeld(w)].expires = Future]
    /\ UNCHANGED <<outbox, inbox, broker, pub, faults, replays, taskVars>>

(* DeliveryLeaseLost, raised by the entry check, by the heartbeat or by    *)
(* the commit guard.                                                       *)
LeaseLost(w) ==
    /\ worker[w].pc \in {"claimed", "running"}
    /\ ~LeaseCurrent(w)
    /\ worker' = [worker EXCEPT ![w].pc = "closing"]
    /\ UNCHANGED <<deliveryVars, ghosts>>

(* Mutant of Guard: the before_commit listener is not registered. *)
Unguarded(w, kind) ==
    /\ worker[w].pc = "running"
    /\ worker' = [worker EXCEPT ![w].pc = kind]
    /\ UNCHANGED <<deliveryVars, ghosts>>

(* before_commit: of a commit the handler makes itself, or of the last one *)
(* that carries the inbox marker.                                          *)
Guard(w, kind) ==
    /\ worker[w].pc = "running"
    /\ LeaseCurrent(w)
    /\ worker' = [worker EXCEPT ![w].pc = kind]
    /\ UNCHANGED <<deliveryVars, ghosts>>

(* The handler's intermediate progress is durable and the row unlocked. *)
CommitStep(w) ==
    /\ worker[w].pc = "guardedStep"
    /\ turn' = [turn EXCEPT ![ResourceHeld(w)] =
                    [epoch |-> worker[w].epoch,
                     message |-> worker[w].message, closed |-> FALSE]]
    /\ worker' = [worker EXCEPT ![w].pc = "running"]
    /\ UNCHANGED <<deliveryVars, effects, released>>

(* The handler's remaining changes and the inbox marker are durable.  The  *)
(* result of claim_inbox_once is ignored: only the lease stands between a  *)
(* second execution and a second set of effects.                           *)
CommitLast(w) ==
    /\ worker[w].pc = "guardedLast"
    /\ inbox' = inbox \cup {worker[w].message}
    /\ effects' = [effects EXCEPT ![worker[w].message] = @ + 1]
    /\ turn' = [turn EXCEPT ![ResourceHeld(w)] =
                    [epoch |-> worker[w].epoch,
                     message |-> worker[w].message, closed |-> TRUE]]
    /\ worker' = [worker EXCEPT ![w].pc = "closing"]
    /\ UNCHANGED <<outbox, execution, broker, pub, faults, replays, released>>

(* The entry check, the handler or the commit raises: the open transaction *)
(* rolls back.                                                             *)
HandlerFail(w) ==
    /\ worker[w].pc \in {"claimed", "running", "guardedStep", "guardedLast"}
    /\ worker' = [worker EXCEPT ![w].pc = "closing"]
    /\ UNCHANGED <<deliveryVars, ghosts>>

(* Mutant of ReleasedRow: the deadline is pulled back to the clock. *)
ExpiredNow(row) == [row EXCEPT !.expires = Past]

(* What release writes: the epoch stays behind as a tombstone. *)
ReleasedRow(row) == [row EXCEPT !.expires = NegInf]

(* Mutant of Release: whoever holds the resource now is released. *)
ReleaseResource(w) ==
    /\ worker[w].pc = "closing"
    /\ execution' = [execution EXCEPT ![ResourceHeld(w)] = ReleasedRow(@)]
    /\ TaskEnd(w)
    /\ UNCHANGED <<outbox, inbox, broker, pub, faults, replays, ghosts>>

(* consume's finally: only the exact owner's row is released. *)
Release(w) ==
    /\ worker[w].pc = "closing"
    /\ execution' = IF OwnsLease(w)
                    THEN [execution EXCEPT ![ResourceHeld(w)] = ReleasedRow(@)]
                    ELSE execution
    /\ released' = IF OwnsLease(w)
                   THEN [released EXCEPT ![ResourceHeld(w)] = worker[w].epoch]
                   ELSE released
    /\ TaskEnd(w)
    /\ UNCHANGED <<outbox, inbox, broker, pub, faults, replays, effects, turn>>

(* The worker's process dies: no release, its transaction rolls back.  The *)
(* broker may hand the hint out again, if the task was to be acknowledged  *)
(* at its end and was not; where the environment turns task_acks_late off, *)
(* or only the child of the worker is lost, the hint is gone.              *)
WorkerCrash(w) ==
    /\ worker[w].pc # "idle"
    /\ Fault
    /\ broker' \in {broker, [broker EXCEPT ![worker[w].message] = @ + 1]}
    /\ TaskEnd(w)
    /\ UNCHANGED <<outbox, inbox, execution, pub, replays, ghosts>>

Executing(w) ==
    worker[w].pc \in {"claimed", "running", "guardedStep", "guardedLast",
                      "closing"}

(* An execution lease runs out: by itself when its owner is gone, as a     *)
(* fault (heartbeats missed for a whole lease) while the owner runs.       *)
ExecutionLapse(r) ==
    /\ execution[r].expires = Future
    /\ execution' = [execution EXCEPT ![r].expires = Past]
    /\ IF \E w \in Worker : /\ Executing(w)
                            /\ ResourceHeld(w) = r
                            /\ OwnsLease(w)
       THEN Fault
       ELSE UNCHANGED faults
    /\ UNCHANGED <<outbox, inbox, broker, pub, replays, taskVars>>

TaskNext ==
    \/ \E w \in Worker : \/ \E m \in Msg : \/ ClaimCheck(w, m)
                                           \/ ClaimRefused(w, m)
                         \/ ClaimLease(w)
                         \/ ClaimDone(w)
                         \/ ClaimBusy(w)
                         \/ Execute(w)
                         \/ Renew(w)
                         \/ LeaseLost(w)
                         \/ \E kind \in {"guardedStep", "guardedLast"} :
                                Guard(w, kind)
                         \/ CommitStep(w)
                         \/ CommitLast(w)
                         \/ HandlerFail(w)
                         \/ Release(w)
                         \/ WorkerCrash(w)
    \/ \E r \in Resource : ExecutionLapse(r)

Next ==
    \/ DeliveryNext /\ UNCHANGED taskVars
    \/ TaskNext

Spec == Init /\ [][Next]_vars

-----------------------------------------------------------------------------
(* Properties. *)

(* A message takes effect at most once, and exactly when it is             *)
(* acknowledged: whatever crashes, lapses, duplicate hints, replays and    *)
(* clock corrections happen, no second consume commits the handler's       *)
(* changes again (consume ignores claim_inbox_once's verdict).             *)
ExactlyOnce == \A m \in Msg : effects[m] = IF m \in inbox THEN 1 ELSE 0

(* Fencing: a commit never comes from an execution older than one that     *)
(* already committed for the same resource, nor from one that has already  *)
(* acknowledged, so a stalled worker cannot write over its successor's     *)
(* progress (the before_commit guard, its row lock, and the epoch that     *)
(* claim_execution never resets).                                          *)
FencedCommits ==
    [][\A r \in Resource :
          turn'[r] # turn[r]
          => \/ turn'[r].epoch > turn[r].epoch
             \/ /\ turn'[r].epoch = turn[r].epoch
                /\ turn'[r].message = turn[r].message
                /\ ~turn[r].closed]_vars

(* A released lease stays released: release writes '-infinity', so a clock *)
(* set back must neither resurrect an ended execution nor let it block its *)
(* resource again.                                                         *)
ReleasedStaysReleased ==
    \A r \in Resource :
        execution[r].epoch = released[r] => ~Live(execution[r].expires)

(* A worker still inside consume is never released by somebody else:       *)
(* neither release nor claim_execution's give-back (whose UPDATE names     *)
(* only the resource) ends an execution that owns its row.                 *)
NobodyElseReleases ==
    \A w \in Worker :
        Executing(w) /\ OwnsLease(w)
        => execution[ResourceHeld(w)].expires # NegInf

(* Publication attempts are bounded: claim_delivery does not look at       *)
(* attempt_count, yet only a crashed or stalled publisher can push it past *)
(* max_attempts, once per fault, before the reconciler parks the message.  *)
AttemptsBounded ==
    \A m \in Msg : outbox[m].attempt <= MaxAttempts + faults

(* What was promised to the producer: the runtime implements TaskContract. *)
Contract ==
    INSTANCE TaskContract WITH
        requested <- {m \in Msg : outbox[m].status # "absent"},
        parked    <- {m \in Msg : DeadLettered(m)},
        applied   <- effects

ImplementsContract == Contract!Spec

-----------------------------------------------------------------------------
(* The inductive invariant behind the safety properties. *)

Working(w) == worker[w].pc \in {"claimed", "running", "guardedStep", "guardedLast"}

(* Whoever is busy is busy with an enqueued message. *)
BusyInv ==
    /\ \A w \in Worker :
          worker[w].pc # "idle" =>
              /\ worker[w].message \in Msg
              /\ outbox[worker[w].message].status # "absent"
    /\ \A p \in Pub : /\ pub[p].pc \in {"publish", "finish"} =>
                            pub[p].message \in Msg
                      /\ \A m \in pub[p].rows : outbox[m].status # "absent"

(* Epochs only grow, an epoch has one owner, and the guard's row lock      *)
(* keeps its row: two executions never hold the same lease.                *)
EpochInv ==
    \A w \in Worker :
        /\ Executing(w) =>
              /\ worker[w].epoch > 0
              /\ worker[w].epoch <= execution[ResourceHeld(w)].epoch
              /\ worker[w].epoch = execution[ResourceHeld(w)].epoch
                    => OwnsLease(w)
        /\ worker[w].pc \in {"guardedStep", "guardedLast"} => OwnsLease(w)

(* An execution that still owns its lease is for an unacknowledged message *)
(* and is the only one that can have committed under its epoch.            *)
OwnerInv ==
    \A w \in Worker :
        Working(w) /\ OwnsLease(w) =>
            /\ worker[w].message \notin inbox
            /\ turn[ResourceHeld(w)].epoch = worker[w].epoch =>
                  /\ turn[ResourceHeld(w)].message = worker[w].message
                  /\ ~turn[ResourceHeld(w)].closed

(* Neither a commit nor a release is ahead of the lease row. *)
GhostInv ==
    \A r \in Resource :
        /\ turn[r].epoch <= execution[r].epoch
        /\ released[r] <= execution[r].epoch
        /\ released[r] = execution[r].epoch => execution[r].expires = NegInf

(* A row awaiting a claim has attempts left; one whose publisher is gone   *)
(* or stalled has used a fault.                                            *)
AttemptOK(m) ==
    /\ outbox[m].attempt <= MaxAttempts + faults
    /\ outbox[m].status \in {"absent", "pending"} /\ ~DeadLettered(m)
          => outbox[m].attempt < MaxAttempts
    /\ outbox[m].status = "delivering"
          => \/ outbox[m].attempt < MaxAttempts + faults
             \/ \E p \in Pub : Publishing(p, m) /\ HoldsDelivery(p)
    /\ \A p \in Pub :
          /\ Publishing(p, m)
          /\ outbox[m].lease_owner = p
          /\ outbox[m].status = "delivering"
          => pub[p].attempt = outbox[m].attempt

AttemptInv == \A m \in Msg : AttemptOK(m)

(* The conjunction is inductive: every safety property above follows. *)
IInv ==
    /\ BusyInv /\ EpochInv /\ OwnerInv /\ GhostInv /\ AttemptInv
    /\ ExactlyOnce /\ NobodyElseReleases

-----------------------------------------------------------------------------
(* Fairness: beat starts a pump every five seconds, a live pump or worker  *)
(* process keeps executing its own steps, and time passes.  Nothing is     *)
(* assumed of faults, of the operator or of what the handler decides.      *)

PumpStep(p) ==
    \/ ReconcileSelect(p) \/ ReconcileCommit(p) \/ PumpEnd(p)
    \/ \E m \in Msg : ClaimDelivery(p, m)
    \/ Publish(p) \/ PublishError(p)
    \/ FinishDelivery(p) \/ FinishLost(p)

WorkerStep(w) ==
    \/ \E m \in Msg : ClaimCheck(w, m) \/ ClaimRefused(w, m)
    \/ ClaimLease(w) \/ ClaimDone(w) \/ ClaimBusy(w)
    \/ Execute(w) \/ LeaseLost(w) \/ Guard(w, "guardedLast")
    \/ CommitStep(w) \/ CommitLast(w) \/ HandlerFail(w) \/ Release(w)

(* A handler commits its own progress only finitely often. *)
HandlerEnds(w) ==
    LeaseLost(w) \/ HandlerFail(w) \/ Guard(w, "guardedLast")

Fairness ==
    /\ \A p \in Pub : WF_vars(PumpStep(p) /\ UNCHANGED taskVars)
    /\ \A w \in Worker : WF_vars(WorkerStep(w)) /\ SF_vars(HandlerEnds(w))
    /\ \A m \in Msg : /\ WF_vars(TimerDue(m) /\ UNCHANGED taskVars)
                      /\ WF_vars(LeaseLapse(m) /\ UNCHANGED <<faults, taskVars>>)
    /\ \A r \in Resource : WF_vars(ExecutionLapse(r) /\ UNCHANGED faults)

FairSpec == Spec /\ Fairness

(* No message is lost: whatever was enqueued is eventually acknowledged or *)
(* parked in the dead-letter journal, although hints are lost, processes   *)
(* die and handlers fail.  A clock set back strands nothing either: a hint *)
(* that has become early is dropped by the worker that is handed it        *)
(* (claim_execution returns None), so the message must be published again. *)
NothingLost ==
    \A m \in Msg :
        outbox[m].status # "absent" ~> (m \in inbox \/ DeadLettered(m))
=============================================================================
