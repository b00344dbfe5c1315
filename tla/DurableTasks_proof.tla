-------------------------- MODULE DurableTasks_proof --------------------------
(***************************************************************************)
(* Machine-checked proofs about DurableTasks, for every number of          *)
(* messages, resources, pumps, workers, attempts, faults and replays.      *)
(***************************************************************************)
EXTENDS DurableTasks, TLAPS

USE MessageAssumption, PolicyAssumption

(* Types and BusyInv are inductive together. *)
TypeInv == TypeOK /\ BusyInv

-----------------------------------------------------------------------------
(* The types of the record-valued expressions the actions store. *)

(* The empty tables and idle processes are well typed. *)
LEMMA InitType == Init => TypeInv
<1> SUFFICES ASSUME Init PROVE TypeInv
  OBVIOUS
<1>1. AbsentRow \in OutboxRow
  BY DEF AbsentRow, OutboxRow, Status, Timestamp, NegInf
<1>2. IdlePump \in PumpState
  BY DEF IdlePump, PumpState
<1>3. NoExecution \in ExecutionRow
  BY DEF NoExecution, ExecutionRow, Timestamp, NegInf
<1>4. IdleWorker \in WorkerState
  BY DEF IdleWorker, WorkerState
<1>5. NoTurn \in Turn
  BY DEF NoTurn, Turn
<1>6. TypeOK
  BY <1>1, <1>2, <1>3, <1>4, <1>5
  DEF Init, DeliveryInit, TypeOK, DeliveryTypeOK
<1>7. BusyInv
  BY DEF Init, DeliveryInit, BusyInv, IdleWorker, IdlePump
<1>8. QED BY <1>6, <1>7 DEF TypeInv

(* finish_delivery leaves a well-typed row. *)
LEMMA FinishedType ==
    ASSUME NEW row \in OutboxRow, NEW e \in BOOLEAN, NEW n \in Nat
    PROVE  Finished(row, e, n) \in OutboxRow /\ Finished(row, e, n).status # "absent"
BY DEF Finished, OutboxRow, Status, Timestamp, NegInf, Future

(* replay leaves a well-typed row. *)
LEMMA ReplayedType ==
    ASSUME NEW row \in OutboxRow
    PROVE  Replayed(row) \in OutboxRow /\ Replayed(row).status = "pending"
<1>1. Replayed(row).status = "pending"
  BY DEF Replayed, OutboxRow
<1>2. Replayed(row) \in OutboxRow
  BY DEF Replayed, OutboxRow, Status, Timestamp, NegInf
<1>3. QED BY <1>1, <1>2

(* A pump that goes on to its next delivery is well typed. *)
LEMMA NextRoundType ==
    ASSUME NEW pump \in PumpState
    PROVE  /\ NextRound(pump) \in PumpState
           /\ NextRound(pump).pc = "loop"
           /\ NextRound(pump).rows = {}
<1>1. pump.count + 1 \in Nat
  BY DEF PumpState
<1>2. NextRound(pump) \in PumpState
  BY <1>1 DEF NextRound, IdlePump, PumpState
<1>3. NextRound(pump).pc = "loop" /\ NextRound(pump).rows = {}
  BY DEF NextRound, IdlePump
<1>4. QED BY <1>2, <1>3

(* An enqueued row never disappears, so whoever is busy with it stays busy *)
(* with an enqueued message as long as it keeps to the same message.       *)
StillEnqueued ==
    \A m \in Msg : outbox[m].status # "absent" => outbox'[m].status # "absent"

(* Setting one timestamp column of a row. *)
LEMMA StampType ==
    ASSUME NEW row \in OutboxRow, NEW t \in Timestamp,
           NEW f \in {"available_at", "not_before", "published_at", "lease"}
    PROVE  /\ [row EXCEPT ![f] = t] \in OutboxRow
           /\ [row EXCEPT ![f] = t].status = row.status
<1>1. CASE f = "available_at"
  BY <1>1 DEF OutboxRow
<1>2. CASE f = "not_before"
  BY <1>2 DEF OutboxRow
<1>3. CASE f = "published_at"
  BY <1>3 DEF OutboxRow
<1>4. CASE f = "lease"
  BY <1>4 DEF OutboxRow
<1>5. QED BY <1>1, <1>2, <1>3, <1>4

(* The table with one timestamp column of one row set is well typed. *)
LEMMA StampedType ==
    ASSUME outbox \in [Msg -> OutboxRow], NEW m \in Msg, NEW t \in Timestamp,
           NEW f \in {"available_at", "not_before", "published_at", "lease"},
           outbox' = [outbox EXCEPT ![m][f] = t]
    PROVE  /\ outbox' \in [Msg -> OutboxRow]
           /\ \A n \in Msg : outbox'[n].status = outbox[n].status
<1> DEFINE new == [outbox[m] EXCEPT ![f] = t]
<1>1. new \in OutboxRow /\ new.status = outbox[m].status
  BY StampType
<1>2. outbox' = [outbox EXCEPT ![m] = new]
  OBVIOUS
<1> HIDE DEF new
<1>3. QED BY <1>1, <1>2

(* A claimed row, and the state of the pump that claimed it. *)
LEMMA ClaimedType ==
    ASSUME NEW row \in OutboxRow, NEW pump \in PumpState,
           NEW p \in Pub, NEW m \in Msg
    PROVE  /\ [row EXCEPT !.status = "delivering", !.lease_owner = p,
                          !.lease = Future, !.attempt = @ + 1] \in OutboxRow
           /\ [pump EXCEPT !.pc = "publish", !.message = m,
                           !.attempt = row.attempt + 1] \in PumpState
<1>1. row.attempt \in Nat /\ row.attempt + 1 \in Nat
  BY DEF OutboxRow
<1>2. [row EXCEPT !.status = "delivering", !.lease_owner = p,
                  !.lease = Future, !.attempt = @ + 1] \in OutboxRow
  BY <1>1 DEF OutboxRow, Status, Timestamp, Future
<1>3. [pump EXCEPT !.pc = "publish", !.message = m,
                   !.attempt = row.attempt + 1] \in PumpState
  BY <1>1 DEF PumpState
<1>4. QED BY <1>2, <1>3

(* An execution lease whose deadline has passed. *)
LEMMA LapsedType ==
    ASSUME NEW row \in ExecutionRow
    PROVE  [row EXCEPT !.expires = Past] \in ExecutionRow
  BY DEF ExecutionRow, Timestamp, Past

(* No worker moves and every pump stays as it is or drops what it holds. *)
LEMMA BusyKept ==
    ASSUME TypeInv, StillEnqueued, UNCHANGED worker,
           \A p \in Pub : \/ pub'[p] = pub[p]
                          \/ /\ pub'[p].pc \notin {"publish", "finish"}
                             /\ pub'[p].rows = {}
    PROVE  BusyInv'
<1>1. ASSUME NEW w \in Worker, worker[w].pc # "idle"
      PROVE  /\ worker[w].message \in Msg
             /\ outbox'[worker[w].message].status # "absent"
  BY <1>1 DEF TypeInv, BusyInv, StillEnqueued
<1>2. ASSUME NEW p \in Pub
      PROVE  /\ pub'[p].pc \in {"publish", "finish"} => pub'[p].message \in Msg
             /\ \A m \in pub'[p].rows : outbox'[m].status # "absent"
  <2>1. CASE pub'[p] = pub[p]
    <3>1. pub[p].rows \subseteq Msg
      BY DEF TypeInv, TypeOK, DeliveryTypeOK, PumpState
    <3>2. QED BY <2>1, <3>1 DEF TypeInv, BusyInv, StillEnqueued
  <2>2. CASE pub'[p].pc \notin {"publish", "finish"} /\ pub'[p].rows = {}
    BY <2>2
  <2>3. QED BY <2>1, <2>2
<1>3. QED BY <1>1, <1>2 DEF BusyInv

(* A publishing step keeps the types. *)
LEMMA DeliveryType ==
    ASSUME TypeInv, DeliveryNext, UNCHANGED taskVars
    PROVE  TypeInv' /\ StillEnqueued
<1> USE DEF TypeInv, TypeOK, DeliveryTypeOK, taskVars, ghosts
<1>1. ASSUME NEW m \in Msg, NEW when \in Schedule, Enqueue(m, when)
      PROVE  TypeInv' /\ StillEnqueued
  <2>1. [AbsentRow EXCEPT !.status = "pending", !.available_at = when,
                          !.not_before = when] \in OutboxRow
    BY DEF AbsentRow, OutboxRow, Status, Timestamp, NegInf, Past, Future
  <2>2. TypeOK'
    BY <1>1, <2>1 DEF Enqueue
  <2>3. StillEnqueued
    BY <1>1 DEF Enqueue, StillEnqueued
  <2>4. BusyInv'
    BY <1>1, <2>3 DEF Enqueue, BusyInv, StillEnqueued
  <2>5. QED BY <2>2, <2>3, <2>4
<1>2. ASSUME NEW p \in Pub, ReconcileSelect(p)
      PROVE  TypeInv' /\ StillEnqueued
  <2> DEFINE selected == {m \in Msg : Exhausted(m) \/ Unacknowledged(m)}
  <2>1. [IdlePump EXCEPT !.pc = "reconcile", !.rows = selected] \in PumpState
    BY DEF IdlePump, PumpState
  <2>2. \A m \in selected : outbox[m].status # "absent"
    BY DEF Exhausted, Unacknowledged, Unpublished
  <2>3. TypeOK'
    BY <1>2, <2>1 DEF ReconcileSelect
  <2>4. BusyInv'
    BY <1>2, <2>2 DEF ReconcileSelect, BusyInv, IdlePump, PumpState
  <2>5. QED BY <1>2, <2>3, <2>4 DEF ReconcileSelect, StillEnqueued
<1>3. ASSUME NEW p \in Pub, ReconcileCommit(p)
      PROVE  TypeInv' /\ StillEnqueued
  <2>1. \A row \in OutboxRow : Reconciled(row) \in OutboxRow
    BY DEF Reconciled, OutboxRow, Status, Timestamp, NegInf
  <2>2. [IdlePump EXCEPT !.pc = "loop"] \in PumpState
    BY DEF IdlePump, PumpState
  <2>3. TypeOK'
    BY <1>3, <2>1, <2>2 DEF ReconcileCommit
  <2>4. \A row \in OutboxRow :
           row.status # "absent" => Reconciled(row).status # "absent"
    BY DEF Reconciled, OutboxRow
  <2>5. StillEnqueued
    BY <1>3, <2>4 DEF ReconcileCommit, StillEnqueued
  <2>6. BusyInv'
    BY <1>3, <2>5 DEF ReconcileCommit, BusyInv, StillEnqueued, IdlePump, PumpState
  <2>7. QED BY <2>3, <2>5, <2>6
<1>4. ASSUME NEW p \in Pub, NEW m \in Msg, ClaimDelivery(p, m)
      PROVE  TypeInv' /\ StillEnqueued
  <2>0. /\ outbox' \in [Msg -> OutboxRow]
        /\ pub' \in [Pub -> PumpState]
    <3>1. outbox' = [outbox EXCEPT ![m] =
                       [outbox[m] EXCEPT !.status = "delivering",
                                         !.lease_owner = p, !.lease = Future,
                                         !.attempt = @ + 1]]
      BY <1>4 DEF ClaimDelivery
    <3>2. outbox \in [Msg -> OutboxRow] /\ pub \in [Pub -> PumpState]
      OBVIOUS
    <3>3. pub' = [pub EXCEPT ![p] =
                    [pub[p] EXCEPT !.pc = "publish", !.message = m,
                                   !.attempt = outbox[m].attempt + 1]]
      BY <1>4 DEF ClaimDelivery
    <3>4. outbox[m] \in OutboxRow /\ pub[p] \in PumpState
      BY <3>2
    <3>5. QED BY <1>4, <3>1, <3>2, <3>3, <3>4, ClaimedType
  <2>1. TypeOK'
    BY <1>4, <2>0 DEF ClaimDelivery
  <2>2. StillEnqueued
    BY <1>4 DEF ClaimDelivery, StillEnqueued, OutboxRow
  <2>3. BusyInv'
    BY <1>4, <2>2 DEF ClaimDelivery, BusyInv, StillEnqueued, PumpState
  <2>4. QED BY <2>1, <2>2, <2>3
<1>5. ASSUME NEW p \in Pub, PumpEnd(p) \/ PumpCrash(p)
      PROVE  TypeInv' /\ StillEnqueued
  <2>1. IdlePump \in PumpState
    BY DEF IdlePump, PumpState
  <2>2. TypeOK'
    BY <1>5, <2>1 DEF PumpEnd, PumpCrash, Fault
  <2>3. BusyInv' /\ StillEnqueued
    BY <1>5 DEF PumpEnd, PumpCrash, BusyInv, StillEnqueued, IdlePump
  <2>4. QED BY <2>2, <2>3
<1>6. ASSUME NEW p \in Pub, Publish(p) \/ PublishError(p)
      PROVE  TypeInv' /\ StillEnqueued
  <2>1. TypeOK'
    BY <1>6 DEF Publish, PublishError, PumpState
  <2>2. BusyInv' /\ StillEnqueued
    BY <1>6 DEF Publish, PublishError, BusyInv, StillEnqueued, PumpState
  <2>3. QED BY <2>1, <2>2
<1>7. ASSUME NEW p \in Pub, FinishDelivery(p) \/ FinishLost(p)
      PROVE  TypeInv' /\ StillEnqueued
  <2>1. pub[p] \in PumpState /\ pub[p].error \in BOOLEAN /\ pub[p].attempt \in Nat
    BY DEF PumpState
  <2>2. NextRound(pub[p]) \in PumpState
    BY <2>1, NextRoundType
  <2>3. \A m \in Msg : Finished(outbox[m], pub[p].error, pub[p].attempt) \in OutboxRow
    BY <2>1, FinishedType
  <2>4. outbox' \in [Msg -> OutboxRow]
    BY <1>7, <2>3 DEF FinishDelivery, FinishLost
  <2>5. TypeOK'
    BY <1>7, <2>2, <2>4 DEF FinishDelivery, FinishLost
  <2>6. StillEnqueued
    <3>1. \A m \in Msg :
             Finished(outbox[m], pub[p].error, pub[p].attempt).status # "absent"
      BY <2>1, FinishedType
    <3>2. QED BY <1>7, <3>1 DEF FinishDelivery, FinishLost, StillEnqueued
  <2>7. pub' = [pub EXCEPT ![p] = NextRound(@)] /\ UNCHANGED worker
    BY <1>7 DEF FinishDelivery, FinishLost
  <2>8. BusyInv'
    BY <2>1, <2>6, <2>7, NextRoundType, BusyKept
  <2>9. QED BY <2>5, <2>6, <2>8
<1>8. ASSUME NEW m \in Msg, Replay(m) \/ TimerDue(m) \/ LeaseLapse(m)
      PROVE  TypeInv' /\ StillEnqueued
  <2>1. /\ outbox' \in [Msg -> OutboxRow]
        /\ \A n \in Msg : outbox'[n].status = outbox[n].status
                          \/ outbox'[n].status = "pending"
    <3>1. CASE Replay(m)
      BY <3>1, ReplayedType DEF Replay
    <3>2. CASE TimerDue(m)
      <4> PICK f \in {"available_at", "not_before", "published_at"} :
                outbox' = [outbox EXCEPT ![m][f] = Past]
        BY <3>2 DEF TimerDue
      <4>1. Past \in Timestamp
        BY DEF Timestamp
      <4>2. QED BY <4>1, StampedType
    <3>3. CASE LeaseLapse(m)
      <4>1. outbox' = [outbox EXCEPT ![m]["lease"] = Past] /\ Past \in Timestamp
        BY <3>3 DEF LeaseLapse, Timestamp
      <4>2. QED BY <4>1, StampedType
    <3>4. QED BY <1>8, <3>1, <3>2, <3>3
  <2>2. /\ UNCHANGED <<inbox, execution, broker, pub, worker>>
        /\ faults' \in Nat /\ replays' \in Nat
    BY <1>8 DEF Replay, TimerDue, LeaseLapse, Fault
  <2>3. TypeOK'
    BY <2>1, <2>2
  <2>4. StillEnqueued
    BY <2>1 DEF StillEnqueued
  <2>5. BusyInv'
    BY <2>2, <2>4, BusyKept
  <2>6. QED BY <2>3, <2>4, <2>5
<1>9. ASSUME NEW m \in Msg, BrokerFault(m)
      PROVE  TypeInv' /\ StillEnqueued
  BY <1>9 DEF BrokerFault, Fault, BusyInv, StillEnqueued
<1>10. ASSUME ClockSlip
       PROVE  TypeInv' /\ StillEnqueued
  <2>1. /\ outbox' \in [Msg -> OutboxRow]
        /\ \A n \in Msg : outbox'[n].status = outbox[n].status
    <3>1. CASE UNCHANGED outbox
      BY <3>1
    <3>2. ASSUME NEW m \in Msg,
                 NEW f \in {"available_at", "not_before", "published_at", "lease"},
                 outbox' = [outbox EXCEPT ![m][f] = Future]
          PROVE  <2>1
      <4>1. Future \in Timestamp
        BY DEF Timestamp
      <4>2. QED BY <3>2, <4>1, StampedType
    <3>3. QED BY <1>10, <3>1, <3>2 DEF ClockSlip
  <2>2. execution' \in [Resource -> ExecutionRow]
    <3>1. \A row \in ExecutionRow : [row EXCEPT !.expires = Future] \in ExecutionRow
      BY DEF ExecutionRow, Timestamp, Future
    <3>2. QED BY <1>10, <3>1 DEF ClockSlip
  <2>3. UNCHANGED <<inbox, broker, pub, worker, replays>> /\ faults' \in Nat
    BY <1>10 DEF ClockSlip, Fault
  <2>4. TypeOK'
    BY <2>1, <2>2, <2>3
  <2>5. StillEnqueued
    BY <2>1 DEF StillEnqueued
  <2>6. BusyInv'
    BY <2>3, <2>5, BusyKept
  <2>7. QED BY <2>4, <2>5, <2>6
<1>11. QED
  BY <1>1, <1>2, <1>3, <1>4, <1>5, <1>6, <1>7, <1>8, <1>9, <1>10 DEF DeliveryNext

(* A consuming step keeps the types. *)
LEMMA TaskType ==
    ASSUME TypeInv, TaskNext
    PROVE  TypeInv' /\ StillEnqueued
<1> USE DEF TypeInv, TypeOK, DeliveryTypeOK
<1>0. IdleWorker \in WorkerState
  BY DEF IdleWorker, WorkerState
<1>1. ASSUME NEW w \in Worker, NEW m \in Msg, ClaimCheck(w, m) \/ ClaimRefused(w, m)
      PROVE  TypeInv' /\ StillEnqueued
  <2>1. [IdleWorker EXCEPT !.pc = "checked", !.message = m] \in WorkerState
    BY DEF IdleWorker, WorkerState
  <2>2. broker' \in [Msg -> Nat]
    BY <1>1 DEF ClaimCheck, ClaimRefused
  <2>3. TypeOK'
    BY <1>1, <2>1, <2>2 DEF ClaimCheck, ClaimRefused, taskVars, ghosts
  <2>4. BusyInv'
    <3>1. CASE ClaimCheck(w, m)
      <4>1. /\ worker' = [worker EXCEPT ![w] =
                            [IdleWorker EXCEPT !.pc = "checked", !.message = m]]
            /\ outbox[m].status # "absent" /\ UNCHANGED <<outbox, pub>>
        BY <3>1 DEF ClaimCheck, Consumable
      <4>2. worker'[w].message = m
        BY <4>1 DEF IdleWorker
      <4>3. \A v \in Worker \ {w} : worker'[v] = worker[v]
        BY <4>1
      <4>4. QED BY <4>1, <4>2, <4>3 DEF BusyInv
    <3>2. CASE ClaimRefused(w, m)
      BY <3>2 DEF ClaimRefused, BusyInv, taskVars
    <3>3. QED BY <1>1, <3>1, <3>2
  <2>5. QED BY <1>1, <2>3, <2>4 DEF ClaimCheck, ClaimRefused, StillEnqueued
<1>2. ASSUME NEW w \in Worker, ClaimLease(w)
      PROVE  TypeInv' /\ StillEnqueued
  <2>1. worker[w].message \in Msg /\ ResourceHeld(w) \in Resource
    BY <1>2 DEF ClaimLease, BusyInv, ResourceHeld
  <2>2. execution[ResourceHeld(w)].epoch + 1 \in Nat
    BY <2>1 DEF ExecutionRow
  <2>3. LeaseRow(w, Future) \in ExecutionRow
    BY <2>1, <2>2 DEF LeaseRow, ExecutionRow, Timestamp
  <2>4. execution' \in [Resource -> ExecutionRow]
    BY <1>2, <2>3 DEF ClaimLease
  <2>5. worker' \in [Worker -> WorkerState]
    <3> DEFINE new == [worker[w] EXCEPT !.pc = "claimed",
                          !.epoch = execution[ResourceHeld(w)].epoch + 1]
    <3>1. new \in WorkerState
      <4>1. \A x \in WorkerState, n \in Nat :
               [x EXCEPT !.pc = "claimed", !.epoch = n] \in WorkerState
        BY DEF WorkerState
      <4>2. worker[w] \in WorkerState
        OBVIOUS
      <4>3. QED BY <2>2, <4>1, <4>2
    <3>2. worker' = [worker EXCEPT ![w] = new]
      BY <1>2 DEF ClaimLease
    <3> HIDE DEF new
    <3>3. QED BY <3>1, <3>2
  <2>6. TypeOK'
    BY <1>2, <2>4, <2>5 DEF ClaimLease, ghosts
  <2>7. BusyInv'
    BY <1>2, <2>1 DEF ClaimLease, BusyInv, WorkerState
  <2>8. QED BY <1>2, <2>6, <2>7 DEF ClaimLease, StillEnqueued
<1>3. ASSUME NEW w \in Worker, ClaimDone(w)
      PROVE  TypeInv' /\ StillEnqueued
  <2>1. worker[w].message \in Msg /\ ResourceHeld(w) \in Resource
    BY <1>3 DEF ClaimDone, BusyInv, ResourceHeld
  <2>2. execution[ResourceHeld(w)].epoch + 1 \in Nat
    BY <2>1 DEF ExecutionRow
  <2>3. LeaseRow(w, NegInf) \in ExecutionRow
    BY <2>1, <2>2 DEF LeaseRow, ExecutionRow, Timestamp
  <2>4. execution' \in [Resource -> ExecutionRow] /\ released' \in [Resource -> Nat]
    BY <1>3, <2>2, <2>3 DEF ClaimDone
  <2>5. TypeOK'
    BY <1>0, <1>3, <2>4 DEF ClaimDone, TaskEnd
  <2>6. BusyInv'
    BY <1>3 DEF ClaimDone, TaskEnd, BusyInv, IdleWorker
  <2>7. QED BY <1>3, <2>5, <2>6 DEF ClaimDone, StillEnqueued
<1>4. ASSUME NEW w \in Worker, ClaimBusy(w) \/ WorkerCrash(w)
      PROVE  TypeInv' /\ StillEnqueued
  <2>1. TypeOK'
    BY <1>0, <1>4
    DEF ClaimBusy, WorkerCrash, TaskEnd, Fault, deliveryVars, ghosts
  <2>2. BusyInv'
    BY <1>4
    DEF ClaimBusy, WorkerCrash, TaskEnd, deliveryVars, BusyInv, IdleWorker
  <2>3. QED
    BY <1>4, <2>1, <2>2
    DEF ClaimBusy, WorkerCrash, deliveryVars, StillEnqueued
<1>5. ASSUME NEW w \in Worker,
             NEW pc \in {"running", "guardedStep", "guardedLast", "closing"},
             worker[w].pc # "idle",
             worker' = [worker EXCEPT ![w].pc = pc],
             UNCHANGED <<outbox, pub>>
      PROVE  worker' \in [Worker -> WorkerState] /\ BusyInv' /\ StillEnqueued
  BY <1>5 DEF WorkerState, BusyInv, StillEnqueued
<1>6. ASSUME NEW w \in Worker,
             \/ Execute(w) \/ LeaseLost(w) \/ HandlerFail(w)
             \/ \E kind \in {"guardedStep", "guardedLast"} : Guard(w, kind)
      PROVE  TypeInv' /\ StillEnqueued
  <2>1. PICK pc \in {"running", "guardedStep", "guardedLast", "closing"} :
            worker' = [worker EXCEPT ![w].pc = pc]
    BY <1>6 DEF Execute, LeaseLost, HandlerFail, Guard
  <2>2. worker[w].pc # "idle" /\ UNCHANGED <<deliveryVars, ghosts>>
    BY <1>6 DEF Execute, LeaseLost, HandlerFail, Guard
  <2>3. QED BY <1>5, <2>1, <2>2 DEF deliveryVars, ghosts
<1>7. ASSUME NEW w \in Worker, CommitStep(w) \/ CommitLast(w)
      PROVE  TypeInv' /\ StillEnqueued
  <2>1. worker[w].message \in Msg /\ worker[w].epoch \in Nat
    BY <1>7 DEF CommitStep, CommitLast, BusyInv, WorkerState
  <2>2. turn' \in [Resource -> Turn]
    <3>1. \A b \in BOOLEAN : [epoch |-> worker[w].epoch,
                              message |-> worker[w].message, closed |-> b] \in Turn
      BY <2>1 DEF Turn
    <3>2. QED BY <1>7, <3>1 DEF CommitStep, CommitLast
  <2>3. inbox' \in SUBSET Msg /\ effects' \in [Msg -> Nat]
    BY <1>7, <2>1 DEF CommitStep, CommitLast, deliveryVars
  <2>4. UNCHANGED <<outbox, execution, broker, pub, faults, replays, released>>
    BY <1>7 DEF CommitStep, CommitLast, deliveryVars
  <2>5. PICK pc \in {"running", "closing"} : worker' = [worker EXCEPT ![w].pc = pc]
    BY <1>7 DEF CommitStep, CommitLast
  <2>6. worker[w].pc # "idle"
    BY <1>7 DEF CommitStep, CommitLast
  <2>7. QED BY <1>5, <2>2, <2>3, <2>4, <2>5, <2>6
<1>8. ASSUME NEW w \in Worker, Renew(w) \/ Release(w)
      PROVE  TypeInv' /\ StillEnqueued
  <2>1. execution' \in [Resource -> ExecutionRow]
    <3>1. \A row \in ExecutionRow, t \in Timestamp :
             [row EXCEPT !.expires = t] \in ExecutionRow
      BY DEF ExecutionRow
    <3>2. NegInf \in Timestamp /\ Future \in Timestamp
      BY DEF Timestamp
    <3>3. QED BY <1>8, <3>1, <3>2 DEF Renew, Release, ReleasedRow
  <2>2. released' \in [Resource -> Nat]
    BY <1>8 DEF Renew, Release, taskVars, ghosts, WorkerState
  <2>3. TypeOK'
    BY <1>0, <1>8, <2>1, <2>2 DEF Renew, Release, TaskEnd, taskVars, ghosts
  <2>4. BusyInv'
    BY <1>8 DEF Renew, Release, TaskEnd, taskVars, BusyInv, IdleWorker
  <2>5. QED BY <1>8, <2>3, <2>4 DEF Renew, Release, StillEnqueued
<1>9. ASSUME NEW r \in Resource, ExecutionLapse(r)
      PROVE  TypeInv' /\ StillEnqueued
  <2>1. execution' \in [Resource -> ExecutionRow]
    <3>1. execution' = [execution EXCEPT ![r] =
                          [execution[r] EXCEPT !.expires = Past]]
      BY <1>9 DEF ExecutionLapse
    <3>2. execution \in [Resource -> ExecutionRow] /\ execution[r] \in ExecutionRow
      BY <1>9
    <3>3. QED BY <1>9, <3>1, <3>2, LapsedType
  <2>2. TypeOK'
    BY <1>9, <2>1 DEF ExecutionLapse, Fault, taskVars, ghosts
  <2>3. BusyInv' /\ StillEnqueued
    BY <1>9 DEF ExecutionLapse, taskVars, BusyInv, StillEnqueued
  <2>4. QED BY <2>2, <2>3
<1>10. QED
  BY <1>1, <1>2, <1>3, <1>4, <1>6, <1>7, <1>8, <1>9 DEF TaskNext

(* A stuttering step keeps the types. *)
LEMMA StutterType ==
    ASSUME TypeInv, UNCHANGED vars
    PROVE  TypeInv' /\ StillEnqueued
BY DEF TypeInv, TypeOK, DeliveryTypeOK, BusyInv, StillEnqueued,
       vars, deliveryVars, taskVars, ghosts

(* Every step keeps the types. *)
LEMMA StepType ==
    ASSUME TypeInv, [Next]_vars
    PROVE  TypeInv' /\ StillEnqueued
BY DeliveryType, TaskType, StutterType DEF Next

(* Every variable keeps its type, whatever the constants. *)
THEOREM TypeCorrect == Spec => []TypeOK
<1>1. TypeInv /\ [Next]_vars => TypeInv'
  BY StepType
<1>2. TypeInv => TypeOK
  BY DEF TypeInv
<1>3. QED BY InitType, <1>1, <1>2, PTL DEF Spec
-----------------------------------------------------------------------------
(* Leases: exactly once, fencing and release. *)

SafeInv ==
    EpochInv /\ OwnerInv /\ GhostInv /\ ExactlyOnce /\ NobodyElseReleases

(* Nobody holds a lease at the start. *)
LEMMA InitSafe == Init => SafeInv
BY DEF Init, DeliveryInit, SafeInv, EpochInv, OwnerInv, GhostInv, ExactlyOnce,
       NobodyElseReleases, Executing, Working, IdleWorker, NoExecution, NoTurn

(* Time, heartbeats and clock corrections move deadlines and nothing else. *)
LEMMA DeadlinesMove ==
    ASSUME TypeInv, SafeInv, UNCHANGED <<worker, inbox, effects, released, turn>>,
           \A r \in Resource :
              /\ execution'[r].message = execution[r].message
              /\ execution'[r].owner = execution[r].owner
              /\ execution'[r].epoch = execution[r].epoch
              /\ execution'[r].expires = NegInf <=> execution[r].expires = NegInf
    PROVE  SafeInv'
<1>1. \A w \in Worker : worker[w].pc # "idle" => ResourceHeld(w) \in Resource
  BY DEF TypeInv, BusyInv, ResourceHeld
<1>2. \A w \in Worker :
         /\ ResourceHeld(w)' = ResourceHeld(w)
         /\ worker[w].pc # "idle" => (OwnsLease(w)' <=> OwnsLease(w))
  BY <1>1 DEF OwnsLease, ResourceHeld
<1>3. \A w \in Worker : (Executing(w) \/ Working(w)) => worker[w].pc # "idle"
  BY DEF Executing, Working
<1>4. EpochInv'
  BY <1>1, <1>2, <1>3 DEF SafeInv, EpochInv, Executing
<1>5. OwnerInv'
  BY <1>1, <1>2, <1>3 DEF SafeInv, OwnerInv, Working
<1>6. GhostInv'
  BY DEF SafeInv, GhostInv
<1>7. ExactlyOnce' /\ NobodyElseReleases'
  BY <1>1, <1>2, <1>3 DEF SafeInv, ExactlyOnce, NobodyElseReleases, Executing
<1>8. QED BY <1>4, <1>5, <1>6, <1>7 DEF SafeInv

(* One worker moves on, back or out, without touching a lease. *)
LEMMA WorkerMoves ==
    ASSUME TypeInv, SafeInv, NEW w \in Worker,
           UNCHANGED <<execution, inbox, effects, released, turn>>,
           \A v \in Worker \ {w} : worker'[v] = worker[v],
           \/ worker'[w].pc \in {"idle", "checked"}
           \/ /\ worker'[w].message = worker[w].message
              /\ worker'[w].epoch = worker[w].epoch
              /\ Executing(w)
              /\ Working(w)' => Working(w)
              /\ worker'[w].pc \in {"guardedStep", "guardedLast"} => OwnsLease(w)
    PROVE  SafeInv'
<1>1. ASSUME NEW v \in Worker, worker'[v].pc \notin {"idle", "checked"}
      PROVE  /\ ResourceHeld(v)' = ResourceHeld(v)
             /\ OwnsLease(v)' <=> OwnsLease(v)
             /\ worker'[v].message = worker[v].message
             /\ worker'[v].epoch = worker[v].epoch
             /\ Executing(v)' => Executing(v)
             /\ Working(v)' => Working(v)
             /\ worker'[v].pc \in {"guardedStep", "guardedLast"} => OwnsLease(v)
  BY <1>1 DEF OwnsLease, ResourceHeld, Executing, Working, SafeInv, EpochInv
<1>2. \A v \in Worker : (Executing(v)' \/ Working(v)') =>
                           worker'[v].pc \notin {"idle", "checked"}
  BY DEF Executing, Working
<1>3. EpochInv'
  BY <1>1, <1>2 DEF SafeInv, EpochInv
<1>4. OwnerInv'
  BY <1>1, <1>2 DEF SafeInv, OwnerInv
<1>5. GhostInv' /\ ExactlyOnce'
  BY DEF SafeInv, GhostInv, ExactlyOnce
<1>6. NobodyElseReleases'
  BY <1>1, <1>2 DEF SafeInv, NobodyElseReleases
<1>7. QED BY <1>3, <1>4, <1>5, <1>6 DEF SafeInv

(* The upsert of claim_execution: a new epoch makes every other execution  *)
(* of the resource an old one; none of them is inside the row lock.        *)
LEMMA UpsertSafe ==
    ASSUME TypeInv, SafeInv, NEW w \in Worker, worker[w].pc = "checked",
           LeaseFree(w), NEW t \in Timestamp,
           execution' = [execution EXCEPT ![ResourceHeld(w)] = LeaseRow(w, t)],
           UNCHANGED <<inbox, effects, turn>>,
           \A v \in Worker \ {w} : worker'[v] = worker[v],
           \/ /\ worker'[w].pc = "idle"
              /\ t = NegInf
              /\ released' = [released EXCEPT ![ResourceHeld(w)] =
                                 execution[ResourceHeld(w)].epoch + 1]
           \/ /\ worker'[w].pc = "claimed"
              /\ worker'[w].message = worker[w].message
              /\ worker'[w].epoch = execution[ResourceHeld(w)].epoch + 1
              /\ worker[w].message \notin inbox
              /\ t = Future
              /\ UNCHANGED released
    PROVE  SafeInv'
<1> DEFINE r == ResourceHeld(w)
<1>1. r \in Resource /\ worker[w].message \in Msg
  BY DEF TypeInv, BusyInv, ResourceHeld
<1>2. execution[r].epoch \in Nat
  BY <1>1 DEF TypeInv, TypeOK, DeliveryTypeOK, ExecutionRow
<1>3. /\ execution'[r].message = worker[w].message
      /\ execution'[r].owner = w
      /\ execution'[r].epoch = execution[r].epoch + 1
      /\ execution'[r].expires = t
      /\ \A q \in Resource \ {r} : execution'[q] = execution[q]
  BY <1>1 DEF LeaseRow, TypeInv, TypeOK, DeliveryTypeOK
<1> HIDE DEF r
<1>4. \A v \in Worker \ {w} :
         Executing(v) => ResourceHeld(v) \in Resource /\ worker[v].epoch \in Nat
  BY DEF TypeInv, TypeOK, BusyInv, ResourceHeld, Executing, WorkerState
<1>5. \A v \in Worker \ {w} :
         /\ ResourceHeld(v)' = ResourceHeld(v)
         /\ Executing(v)' = Executing(v)
         /\ Working(v)' = Working(v)
  BY DEF ResourceHeld, Executing, Working
<1>6. \A v \in Worker \ {w} : Executing(v) /\ ResourceHeld(v) = r =>
         /\ worker[v].epoch <= execution[r].epoch
         /\ worker[v].pc \notin {"guardedStep", "guardedLast"}
         /\ ~OwnsLease(v)'
  BY <1>3, <1>4, <1>5
  DEF SafeInv, EpochInv, LeaseFree, RowLocked, OwnsLease, r
<1>7. \A v \in Worker \ {w} : Executing(v) /\ ResourceHeld(v) # r =>
         (OwnsLease(v)' <=> OwnsLease(v))
  BY <1>3, <1>4, <1>5 DEF OwnsLease
<1>8. \A v \in Worker : Working(v) => Executing(v)
  BY DEF Working, Executing
<1>9. worker'[w].pc = "claimed" =>
         /\ ResourceHeld(w)' = r
         /\ OwnsLease(w)'
         /\ worker'[w].epoch = execution'[r].epoch
  BY <1>3 DEF ResourceHeld, OwnsLease, r
<1>10. GhostInv'
  <2>1. turn[r].epoch \in Nat /\ released[r] \in Nat
    BY <1>1 DEF TypeInv, TypeOK, Turn
  <2>2. turn'[r].epoch <= execution'[r].epoch
    BY <1>1, <1>2, <1>3, <2>1 DEF SafeInv, GhostInv
  <2>3. /\ released'[r] <= execution'[r].epoch
        /\ released'[r] = execution'[r].epoch => execution'[r].expires = NegInf
    BY <1>1, <1>2, <1>3, <2>1 DEF SafeInv, GhostInv, TypeInv, TypeOK, r
  <2>4. \A q \in Resource \ {r} : released'[q] = released[q]
    BY DEF TypeInv, TypeOK, r
  <2>5. QED BY <1>3, <2>2, <2>3, <2>4 DEF SafeInv, GhostInv
<1>11. EpochInv'
  <2>1. \A v \in Worker \ {w} :
           /\ Executing(v)' =>
                 /\ worker'[v].epoch > 0
                 /\ worker'[v].epoch <= execution'[ResourceHeld(v)'].epoch
                 /\ worker'[v].epoch = execution'[ResourceHeld(v)'].epoch
                       => OwnsLease(v)'
           /\ worker'[v].pc \in {"guardedStep", "guardedLast"} => OwnsLease(v)'
    BY <1>2, <1>3, <1>4, <1>5, <1>6, <1>7 DEF SafeInv, EpochInv, Executing
  <2>2. /\ Executing(w)' =>
              /\ worker'[w].epoch > 0
              /\ worker'[w].epoch <= execution'[ResourceHeld(w)'].epoch
              /\ OwnsLease(w)'
        /\ worker'[w].pc \notin {"guardedStep", "guardedLast"}
    BY <1>2, <1>3, <1>9 DEF Executing, r
  <2>3. QED BY <2>1, <2>2 DEF EpochInv
<1>12. OwnerInv'
  <2>1. \A v \in Worker \ {w} : Working(v)' /\ OwnsLease(v)' =>
           /\ Working(v) /\ OwnsLease(v)
           /\ ResourceHeld(v)' = ResourceHeld(v)
    BY <1>5, <1>6, <1>7, <1>8
  <2>2. Working(w)' =>
           /\ worker'[w].message \notin inbox
           /\ turn'[ResourceHeld(w)'].epoch # worker'[w].epoch
    <3>1. turn[r].epoch \in Nat /\ turn[r].epoch <= execution[r].epoch
      BY <1>1 DEF TypeInv, TypeOK, Turn, SafeInv, GhostInv
    <3>2. QED BY <1>2, <1>9, <3>1 DEF Working, r
  <2>3. QED BY <2>1, <2>2 DEF SafeInv, OwnerInv
<1>13. NobodyElseReleases'
  <2>1. \A v \in Worker \ {w} : Executing(v)' /\ OwnsLease(v)' =>
           /\ Executing(v) /\ OwnsLease(v)
           /\ ResourceHeld(v)' = ResourceHeld(v)
           /\ execution'[ResourceHeld(v)] = execution[ResourceHeld(v)]
    BY <1>3, <1>4, <1>5, <1>6, <1>7
  <2>2. Executing(w)' => execution'[ResourceHeld(w)'].expires # NegInf
    BY <1>3, <1>9 DEF Executing, NegInf, Future
  <2>3. QED BY <2>1, <2>2 DEF SafeInv, NobodyElseReleases
<1>14. ExactlyOnce'
  BY DEF SafeInv, ExactlyOnce
<1>15. QED BY <1>10, <1>11, <1>12, <1>13, <1>14 DEF SafeInv

(* Inside the guard a worker owns its lease and nobody else does. *)
LEMMA GuardedOwns ==
    ASSUME TypeInv, SafeInv, NEW w \in Worker,
           worker[w].pc \in {"guardedStep", "guardedLast"}
    PROVE  /\ OwnsLease(w)
           /\ ResourceHeld(w) \in Resource
           /\ worker[w].message \in Msg
           /\ worker[w].epoch = execution[ResourceHeld(w)].epoch
           /\ worker[w].epoch \in Nat
           /\ worker[w].message \notin inbox
           /\ \A v \in Worker \ {w} :
                 ResourceHeld(v) = ResourceHeld(w) => ~OwnsLease(v)
<1>1. OwnsLease(w) /\ Working(w)
  BY DEF SafeInv, EpochInv, Working
<1>2. worker[w].message \in Msg /\ worker[w].epoch \in Nat
  BY DEF TypeInv, TypeOK, BusyInv, WorkerState
<1>3. ResourceHeld(w) \in Resource
  BY <1>2 DEF ResourceHeld
<1>4. worker[w].message \notin inbox
  BY <1>1 DEF SafeInv, OwnerInv
<1>5. QED BY <1>1, <1>2, <1>3, <1>4 DEF OwnsLease

(* A guarded commit, intermediate or acknowledging. *)
LEMMA CommitSafe ==
    ASSUME TypeInv, SafeInv, NEW w \in Worker, CommitStep(w) \/ CommitLast(w)
    PROVE  SafeInv'
<1> DEFINE r == ResourceHeld(w)
           m == worker[w].message
<1>1. /\ OwnsLease(w) /\ r \in Resource /\ m \in Msg /\ m \notin inbox
      /\ worker[w].epoch = execution[r].epoch /\ worker[w].epoch \in Nat
      /\ \A v \in Worker \ {w} : ResourceHeld(v) = r => ~OwnsLease(v)
  BY GuardedOwns DEF CommitStep, CommitLast
<1>2. /\ UNCHANGED <<execution, released>>
      /\ \A v \in Worker \ {w} : worker'[v] = worker[v]
      /\ worker'[w].message = m /\ worker'[w].epoch = worker[w].epoch
      /\ Executing(w)
  BY DEF CommitStep, CommitLast, deliveryVars, TypeInv, TypeOK, WorkerState,
         Executing
<1>3. /\ turn'[r].epoch = worker[w].epoch /\ turn'[r].message = m
      /\ \A q \in Resource \ {r} : turn'[q] = turn[q]
  BY <1>1 DEF CommitStep, CommitLast, TypeInv, TypeOK
<1>4. \/ worker'[w].pc = "running" /\ ~turn'[r].closed /\ UNCHANGED <<inbox, effects>>
      \/ /\ worker'[w].pc = "closing"
         /\ inbox' = inbox \cup {m}
         /\ effects' = [effects EXCEPT ![m] = @ + 1]
  BY <1>1 DEF CommitStep, CommitLast, TypeInv, TypeOK, WorkerState, deliveryVars
<1>5. \A v \in Worker :
         /\ ResourceHeld(v)' = ResourceHeld(v)
         /\ OwnsLease(v)' <=> OwnsLease(v)
         /\ Executing(v)' => Executing(v)
         /\ Working(v)' => Working(v) \/ v = w
  BY <1>2 DEF ResourceHeld, OwnsLease, Executing, Working
<1>6. \A v \in Worker : Working(v)' => ResourceHeld(v) \in Resource
  BY <1>1, <1>5 DEF TypeInv, BusyInv, Working, ResourceHeld
<1> HIDE DEF r, m
<1>7. EpochInv'
  BY <1>1, <1>2, <1>4, <1>5 DEF SafeInv, EpochInv
<1>8. OwnerInv'
  <2>1. ASSUME NEW v \in Worker \ {w}, Working(v)', OwnsLease(v)'
        PROVE  /\ worker'[v].message \notin inbox'
               /\ turn'[ResourceHeld(v)'] = turn[ResourceHeld(v)]
               /\ Working(v) /\ OwnsLease(v)
    <3>1. ResourceHeld(v) # r /\ ResourceHeld(v) \in Resource /\ Working(v)
      BY <1>1, <1>5, <1>6, <2>1
    <3>2. worker[v].message # m
      BY <3>1 DEF ResourceHeld, r, m
    <3>3. worker[v].message \notin inbox
      BY <1>5, <2>1, <3>1 DEF SafeInv, OwnerInv
    <3>4. QED BY <1>2, <1>3, <1>4, <1>5, <2>1, <3>1, <3>2, <3>3
  <2>2. Working(w)' => /\ worker'[w].message \notin inbox'
                       /\ turn'[ResourceHeld(w)'].message = worker'[w].message
                       /\ ~turn'[ResourceHeld(w)'].closed
    <3>1. ASSUME Working(w)' PROVE worker'[w].pc # "closing"
      BY <3>1 DEF Working
    <3>2. ResourceHeld(w)' = r
      BY <1>5 DEF r
    <3>3. QED BY <1>1, <1>2, <1>3, <1>4, <3>1, <3>2
  <2>3. QED BY <1>2, <1>5, <2>1, <2>2 DEF SafeInv, OwnerInv
<1>9. GhostInv'
  BY <1>1, <1>2, <1>3 DEF SafeInv, GhostInv
<1>10. ExactlyOnce'
  <2>1. effects[m] = 0
    BY <1>1 DEF SafeInv, ExactlyOnce
  <2>2. QED BY <1>1, <1>4, <2>1 DEF SafeInv, ExactlyOnce, TypeInv, TypeOK
<1>11. NobodyElseReleases'
  BY <1>2, <1>5 DEF SafeInv, NobodyElseReleases
<1>12. QED BY <1>7, <1>8, <1>9, <1>10, <1>11 DEF SafeInv

(* release touches a lease only if it is the releasing worker's own. *)
LEMMA ReleaseSafe ==
    ASSUME TypeInv, SafeInv, NEW w \in Worker, Release(w)
    PROVE  SafeInv'
<1> DEFINE r == ResourceHeld(w)
<1>1. r \in Resource /\ worker[w].epoch \in Nat
  BY DEF Release, TypeInv, TypeOK, BusyInv, ResourceHeld, WorkerState
<1>2. CASE ~OwnsLease(w)
  <2>1. UNCHANGED <<execution, inbox, effects, released, turn>>
    BY <1>2 DEF Release
  <2>2. worker'[w].pc = "idle" /\ \A v \in Worker \ {w} : worker'[v] = worker[v]
    BY DEF Release, TaskEnd, IdleWorker, TypeInv, TypeOK
  <2>3. QED BY <2>1, <2>2, WorkerMoves
<1>3. CASE OwnsLease(w)
  <2>1. /\ worker'[w].pc = "idle"
        /\ \A v \in Worker \ {w} : worker'[v] = worker[v]
        /\ UNCHANGED <<inbox, effects, turn>>
    BY DEF Release, TaskEnd, IdleWorker, TypeInv, TypeOK
  <2>2. /\ execution'[r].message = execution[r].message
        /\ execution'[r].owner = execution[r].owner
        /\ execution'[r].epoch = execution[r].epoch
        /\ execution'[r].expires = NegInf
        /\ \A q \in Resource \ {r} : execution'[q] = execution[q]
    BY <1>1, <1>3
    DEF Release, ReleasedRow, TypeInv, TypeOK, DeliveryTypeOK, ExecutionRow
  <2>3. released'[r] = execution[r].epoch
    BY <1>1, <1>3 DEF Release, OwnsLease, TypeInv, TypeOK
  <2>4. \A q \in Resource \ {r} : released'[q] = released[q]
    BY <1>3 DEF Release, TypeInv, TypeOK
  <2>5. execution[r].owner = w
    BY <1>3 DEF OwnsLease
  <2> HIDE DEF r
  <2>6. \A v \in Worker \ {w} : Executing(v) =>
           /\ ResourceHeld(v)' = ResourceHeld(v)
           /\ OwnsLease(v)' <=> OwnsLease(v)
           /\ ResourceHeld(v) \in Resource
           /\ OwnsLease(v) => ResourceHeld(v) # r
    BY <2>1, <2>2, <2>5
    DEF ResourceHeld, OwnsLease, Executing, TypeInv, BusyInv
  <2>7. \A v \in Worker : /\ Executing(v)' => v # w /\ Executing(v)
                          /\ Working(v)' => v # w /\ Working(v) /\ Executing(v)
    BY <2>1 DEF Executing, Working
  <2>8. EpochInv'
    BY <2>1, <2>2, <2>6, <2>7 DEF SafeInv, EpochInv, Executing
  <2>9. OwnerInv'
    BY <2>1, <2>6, <2>7 DEF SafeInv, OwnerInv
  <2>10. GhostInv'
    <3>1. execution[r].epoch \in Nat
      BY <1>1 DEF TypeInv, TypeOK, DeliveryTypeOK, ExecutionRow, r
    <3>2. QED BY <2>1, <2>2, <2>3, <2>4, <3>1 DEF SafeInv, GhostInv
  <2>11. ExactlyOnce' /\ NobodyElseReleases'
    BY <2>1, <2>2, <2>6, <2>7 DEF SafeInv, ExactlyOnce, NobodyElseReleases
  <2>12. QED BY <2>8, <2>9, <2>10, <2>11 DEF SafeInv
<1>4. QED BY <1>2, <1>3

(* Every step preserves the lease invariant. *)
LEMMA StepSafe ==
    ASSUME TypeInv, SafeInv, [Next]_vars
    PROVE  SafeInv'
<1>1. CASE DeliveryNext /\ UNCHANGED taskVars
  <2>1. UNCHANGED <<worker, inbox, effects, released, turn>>
    BY <1>1
    DEF DeliveryNext, Enqueue, ReconcileSelect, ReconcileCommit, ClaimDelivery,
        PumpEnd, Publish, PublishError, FinishDelivery, FinishLost, PumpCrash,
        Replay, BrokerFault, TimerDue, LeaseLapse, ClockSlip, taskVars, ghosts
  <2>2. \/ UNCHANGED execution
        \/ \E q \in Resource :
              /\ execution[q].expires = Past
              /\ execution' = [execution EXCEPT ![q].expires = Future]
    BY <1>1
    DEF DeliveryNext, Enqueue, ReconcileSelect, ReconcileCommit, ClaimDelivery,
        PumpEnd, Publish, PublishError, FinishDelivery, FinishLost, PumpCrash,
        Replay, BrokerFault, TimerDue, LeaseLapse, ClockSlip
  <2>3. \A r \in Resource :
           /\ execution'[r].message = execution[r].message
           /\ execution'[r].owner = execution[r].owner
           /\ execution'[r].epoch = execution[r].epoch
           /\ execution'[r].expires = NegInf <=> execution[r].expires = NegInf
    BY <2>2 DEF TypeInv, TypeOK, DeliveryTypeOK, ExecutionRow, NegInf, Past, Future
  <2>4. QED BY <2>1, <2>3, DeadlinesMove
<1>2. ASSUME NEW w \in Worker, Renew(w)
      PROVE  SafeInv'
  <2>1. UNCHANGED <<worker, inbox, effects, released, turn>>
    BY <1>2 DEF Renew, taskVars, ghosts
  <2>2. execution' = [execution EXCEPT ![ResourceHeld(w)].expires = Future]
        /\ execution[ResourceHeld(w)].expires = Future
    BY <1>2 DEF Renew, LeaseCurrent, Live
  <2>3. \A r \in Resource :
           /\ execution'[r].message = execution[r].message
           /\ execution'[r].owner = execution[r].owner
           /\ execution'[r].epoch = execution[r].epoch
           /\ execution'[r].expires = NegInf <=> execution[r].expires = NegInf
    BY <2>2 DEF TypeInv, TypeOK, DeliveryTypeOK, ExecutionRow
  <2>4. QED BY <2>1, <2>3, DeadlinesMove
<1>3. ASSUME NEW q \in Resource, ExecutionLapse(q)
      PROVE  SafeInv'
  <2>1. UNCHANGED <<worker, inbox, effects, released, turn>>
    BY <1>3 DEF ExecutionLapse, taskVars, ghosts
  <2>2. \A r \in Resource :
           /\ execution'[r].message = execution[r].message
           /\ execution'[r].owner = execution[r].owner
           /\ execution'[r].epoch = execution[r].epoch
           /\ execution'[r].expires = NegInf <=> execution[r].expires = NegInf
    BY <1>3
    DEF ExecutionLapse, TypeInv, TypeOK, DeliveryTypeOK, ExecutionRow,
        NegInf, Past, Future
  <2>3. QED BY <2>1, <2>2, DeadlinesMove
<1>4. ASSUME NEW w \in Worker,
             \/ \E m \in Msg : ClaimCheck(w, m) \/ ClaimRefused(w, m)
             \/ ClaimBusy(w) \/ WorkerCrash(w)
      PROVE  SafeInv'
  <2>1. UNCHANGED <<execution, inbox, effects, released, turn>>
    BY <1>4
    DEF ClaimCheck, ClaimRefused, ClaimBusy, WorkerCrash, deliveryVars,
        taskVars, ghosts
  <2>2. /\ worker'[w].pc \in {"idle", "checked"}
        /\ \A v \in Worker \ {w} : worker'[v] = worker[v]
    <3> USE DEF TypeInv, TypeOK
    <3>1. CASE \E m \in Msg : ClaimCheck(w, m)
      <4>1. PICK m \in Msg : worker' = [worker EXCEPT ![w] =
                [IdleWorker EXCEPT !.pc = "checked", !.message = m]]
        BY <3>1 DEF ClaimCheck
      <4>2. QED BY <4>1 DEF IdleWorker
    <3>2. CASE \E m \in Msg : ClaimRefused(w, m)
      BY <3>2 DEF ClaimRefused, taskVars
    <3>3. CASE ClaimBusy(w) \/ WorkerCrash(w)
      BY <3>3 DEF ClaimBusy, WorkerCrash, TaskEnd, IdleWorker
    <3>4. QED BY <1>4, <3>1, <3>2, <3>3
  <2>3. QED BY <2>1, <2>2, WorkerMoves
<1>5. ASSUME NEW w \in Worker,
             \/ Execute(w) \/ LeaseLost(w) \/ HandlerFail(w)
             \/ \E kind \in {"guardedStep", "guardedLast"} : Guard(w, kind)
      PROVE  SafeInv'
  <2>1. UNCHANGED <<execution, inbox, effects, released, turn>>
    BY <1>5 DEF Execute, LeaseLost, HandlerFail, Guard, deliveryVars, ghosts
  <2>2. /\ worker'[w].message = worker[w].message
        /\ worker'[w].epoch = worker[w].epoch
        /\ Executing(w)
        /\ Working(w)
        /\ worker'[w].pc \in {"guardedStep", "guardedLast"} => OwnsLease(w)
        /\ \A v \in Worker \ {w} : worker'[v] = worker[v]
    BY <1>5
    DEF Execute, LeaseLost, HandlerFail, Guard, LeaseCurrent, Executing,
        Working, TypeInv, TypeOK, WorkerState
  <2>3. QED BY <2>1, <2>2, WorkerMoves
<1>6. ASSUME NEW w \in Worker, ClaimLease(w)
      PROVE  SafeInv'
  <2>1. /\ worker'[w].pc = "claimed"
        /\ worker'[w].message = worker[w].message
        /\ worker'[w].epoch = execution[ResourceHeld(w)].epoch + 1
        /\ \A v \in Worker \ {w} : worker'[v] = worker[v]
    BY <1>6 DEF ClaimLease, TypeInv, TypeOK, WorkerState
  <2>2. Future \in Timestamp
    BY DEF Timestamp
  <2>3. QED BY <1>6, <2>1, <2>2, UpsertSafe DEF ClaimLease, ghosts
<1>7. ASSUME NEW w \in Worker, ClaimDone(w)
      PROVE  SafeInv'
  <2>1. worker'[w].pc = "idle" /\ \A v \in Worker \ {w} : worker'[v] = worker[v]
    BY <1>7 DEF ClaimDone, TaskEnd, IdleWorker, TypeInv, TypeOK
  <2>2. NegInf \in Timestamp
    BY DEF Timestamp
  <2>3. QED BY <1>7, <2>1, <2>2, UpsertSafe DEF ClaimDone
<1>8. CASE UNCHANGED vars
  BY <1>8
  DEF vars, deliveryVars, taskVars, ghosts, SafeInv, EpochInv, OwnerInv,
      GhostInv, ExactlyOnce, NobodyElseReleases, Executing, Working, OwnsLease,
      ResourceHeld
<1>9. QED
  BY <1>1, <1>2, <1>3, <1>4, <1>5, <1>6, <1>7, <1>8, CommitSafe, ReleaseSafe
  DEF Next, TaskNext

(* The lease invariant holds in every reachable state. *)
LEMMA SafeAlways == Spec => [](TypeInv /\ SafeInv)
<1>1. Init => TypeInv /\ SafeInv
  BY InitType, InitSafe
<1>2. TypeInv /\ SafeInv /\ [Next]_vars => (TypeInv /\ SafeInv)'
  BY StepType, StepSafe
<1>3. QED BY <1>1, <1>2, PTL DEF Spec

(* A message takes effect at most once, exactly when it is acknowledged. *)
THEOREM ExactlyOnceHolds == Spec => []ExactlyOnce
<1>1. TypeInv /\ SafeInv => ExactlyOnce
  BY DEF SafeInv
<1>2. QED BY <1>1, SafeAlways, PTL

(* No worker's lease is ended by anybody else's release. *)
THEOREM NobodyElseReleasesHolds == Spec => []NobodyElseReleases
<1>1. TypeInv /\ SafeInv => NobodyElseReleases
  BY DEF SafeInv
<1>2. QED BY <1>1, SafeAlways, PTL

(* A released lease stays released, whatever the clock does. *)
THEOREM ReleasedHolds == Spec => []ReleasedStaysReleased
<1>1. TypeInv /\ SafeInv => ReleasedStaysReleased
  BY DEF SafeInv, GhostInv, ReleasedStaysReleased, Live, NegInf, Future
<1>2. QED BY <1>1, SafeAlways, PTL

-----------------------------------------------------------------------------
(* Fencing and refinement: what a step does to the committed turns. *)

(* Only the two commits touch turn, and only the guarded resource's.       *)
LEMMA CommitTurn ==
    ASSUME TypeInv, SafeInv, NEW w \in Worker, CommitStep(w) \/ CommitLast(w)
    PROVE  LET r == ResourceHeld(w) IN
           /\ r \in Resource
           /\ worker[w].message \in Msg
           /\ r = ResourceOf[worker[w].message]
           /\ effects[worker[w].message] = 0
           /\ outbox[worker[w].message].status # "absent"
           /\ turn'[r].message = worker[w].message
           /\ turn'[r].closed = (worker[w].pc = "guardedLast")
           /\ turn' = [turn EXCEPT ![r] = turn'[r]]
           /\ \/ turn'[r].epoch > turn[r].epoch
              \/ /\ turn'[r].epoch = turn[r].epoch
                 /\ turn[r].message = worker[w].message
                 /\ ~turn[r].closed
<1> DEFINE r == ResourceHeld(w)
           m == worker[w].message
<1>1. /\ OwnsLease(w) /\ r \in Resource /\ m \in Msg /\ m \notin inbox
      /\ worker[w].epoch = execution[r].epoch /\ worker[w].epoch \in Nat
  BY GuardedOwns DEF CommitStep, CommitLast
<1>2. Working(w)
  BY DEF CommitStep, CommitLast, Working
<1>3. effects[m] = 0
  BY <1>1 DEF SafeInv, ExactlyOnce
<1>4. outbox[m].status # "absent"
  BY DEF CommitStep, CommitLast, TypeInv, BusyInv
<1>5. turn[r].epoch \in Nat /\ turn[r].epoch <= execution[r].epoch
  BY <1>1 DEF SafeInv, GhostInv, TypeInv, TypeOK, Turn
<1>6. turn[r].epoch = worker[w].epoch => turn[r].message = m /\ ~turn[r].closed
  BY <1>1, <1>2 DEF SafeInv, OwnerInv
<1>7. /\ turn'[r].epoch = worker[w].epoch
      /\ turn'[r].message = m
      /\ turn'[r].closed = (worker[w].pc = "guardedLast")
      /\ turn' = [turn EXCEPT ![r] = turn'[r]]
  <2>1. PICK b \in BOOLEAN :
           /\ b = (worker[w].pc = "guardedLast")
           /\ turn' = [turn EXCEPT ![r] =
                          [epoch |-> worker[w].epoch, message |-> m, closed |-> b]]
    BY DEF CommitStep, CommitLast
  <2>2. turn \in [Resource -> Turn]
    BY DEF TypeInv, TypeOK
  <2> HIDE DEF r, m
  <2>3. turn'[r] = [epoch |-> worker[w].epoch, message |-> m, closed |-> b]
    BY <1>1, <2>1, <2>2
  <2>4. turn' = [turn EXCEPT ![r] = turn'[r]]
    BY <2>1, <2>3
  <2>5. QED BY <2>1, <2>3, <2>4
<1>8. r = ResourceOf[m]
  BY DEF ResourceHeld
<1> HIDE DEF r, m
<1>9. turn'[r].epoch > turn[r].epoch \/ turn'[r].epoch = turn[r].epoch
  BY <1>1, <1>5, <1>7
<1>10. QED BY <1>1, <1>3, <1>4, <1>6, <1>7, <1>8, <1>9 DEF r, m

(* A step that is neither commit leaves every turn alone. *)
LEMMA NoCommitNoTurn ==
    ASSUME [Next]_vars, \A w \in Worker : ~CommitStep(w) /\ ~CommitLast(w)
    PROVE  UNCHANGED <<turn, effects>>
<1>1. CASE DeliveryNext /\ UNCHANGED taskVars
  BY <1>1 DEF taskVars, ghosts
<1>2. CASE TaskNext
  BY <1>2
  DEF TaskNext, ClaimCheck, ClaimRefused, ClaimLease, ClaimDone, ClaimBusy,
      Execute, Renew, LeaseLost, Guard, HandlerFail, Release, WorkerCrash,
      ExecutionLapse, taskVars, ghosts
<1>3. CASE UNCHANGED vars
  BY <1>3 DEF vars, taskVars, ghosts
<1>4. QED BY <1>1, <1>2, <1>3 DEF Next

(* A stalled execution never commits after its successor has, and none     *)
(* commits after it has acknowledged.                                      *)
THEOREM Fencing == Spec => FencedCommits
<1> DEFINE Fenced ==
      \A r \in Resource :
          turn'[r] # turn[r]
          => \/ turn'[r].epoch > turn[r].epoch
             \/ /\ turn'[r].epoch = turn[r].epoch
                /\ turn'[r].message = turn[r].message
                /\ ~turn[r].closed
<1>1. ASSUME TypeInv, SafeInv, [Next]_vars
      PROVE  Fenced
  <2>1. CASE \A w \in Worker : ~CommitStep(w) /\ ~CommitLast(w)
    BY <1>1, <2>1, NoCommitNoTurn
  <2>2. ASSUME NEW w \in Worker, CommitStep(w) \/ CommitLast(w)
        PROVE  Fenced
    <3>1. \A q \in Resource \ {ResourceHeld(w)} : turn'[q] = turn[q]
      BY <1>1, <2>2, CommitTurn DEF TypeInv, TypeOK
    <3>2. QED BY <1>1, <2>2, <3>1, CommitTurn
  <2>3. QED BY <2>1, <2>2
<1>2. TypeInv /\ SafeInv /\ [Next]_vars => [Fenced]_vars
  BY <1>1
<1>3. QED BY <1>2, SafeAlways, PTL DEF Spec, FencedCommits

(* Only an enqueued message is ever in the journal. *)
JournalInv == \A m \in Msg : DeadLettered(m) => outbox[m].status # "absent"

(* The journal as a set, for the refinement. *)
Requested == {m \in Msg : outbox[m].status # "absent"}
Parked == {m \in Msg : DeadLettered(m)}

(* What a publishing step means to the producer. *)
LEMMA DeliveryContract ==
    ASSUME TypeInv, JournalInv, DeliveryNext
    PROVE  /\ JournalInv'
           /\ \/ \E m \in Msg : /\ m \notin Requested
                                /\ Requested' = Requested \cup {m}
                                /\ Parked' = Parked
              \/ \E ms \in SUBSET Msg : /\ ms \subseteq Requested \ Parked
                                        /\ Parked' = Parked \cup ms
                                        /\ Requested' = Requested
              \/ \E m \in Msg : /\ m \in Parked
                                /\ Parked' = Parked \ {m}
                                /\ Requested' = Requested
<1> DEFINE Goal ==
      /\ JournalInv'
      /\ \/ \E m \in Msg : /\ m \notin Requested
                           /\ Requested' = Requested \cup {m}
                           /\ Parked' = Parked
         \/ \E ms \in SUBSET Msg : /\ ms \subseteq Requested \ Parked
                                   /\ Parked' = Parked \cup ms
                                   /\ Requested' = Requested
         \/ \E m \in Msg : /\ m \in Parked
                           /\ Parked' = Parked \ {m}
                           /\ Requested' = Requested
<1>0. outbox \in [Msg -> OutboxRow]
  BY DEF TypeInv, TypeOK, DeliveryTypeOK
<1>1. ASSUME \A m \in Msg : /\ outbox'[m].status = "absent" <=> outbox[m].status = "absent"
                            /\ outbox'[m].dead = "dead" <=> outbox[m].dead = "dead"
      PROVE  Goal
  <2>1. Requested' = Requested /\ Parked' = Parked /\ JournalInv'
    BY <1>1 DEF Requested, Parked, JournalInv, DeadLettered
  <2>2. /\ {} \in SUBSET Msg
        /\ {} \subseteq Requested \ Parked
        /\ Parked' = Parked \cup {}
    BY <2>1
  <2>3. \E ms \in SUBSET Msg : /\ ms \subseteq Requested \ Parked
                               /\ Parked' = Parked \cup ms
                               /\ Requested' = Requested
    BY <2>1, <2>2
  <2>4. QED BY <2>1, <2>3
<1>2. ASSUME NEW m \in Msg, NEW when \in Schedule, Enqueue(m, when)
      PROVE  Goal
  <2>1. outbox'[m].status = "pending" /\ outbox'[m].dead = "none"
    BY <1>0, <1>2 DEF Enqueue, AbsentRow
  <2>2. \A n \in Msg \ {m} : outbox'[n] = outbox[n]
    BY <1>0, <1>2 DEF Enqueue
  <2>3. m \notin Requested /\ m \notin Parked
    BY <1>2 DEF Enqueue, Requested, Parked, JournalInv
  <2>4. Requested' = Requested \cup {m} /\ Parked' = Parked /\ JournalInv'
    BY <2>1, <2>2, <2>3 DEF Requested, Parked, DeadLettered, JournalInv
  <2>5. QED BY <2>3, <2>4
<1>3. ASSUME NEW p \in Pub, ReconcileCommit(p)
      PROVE  Goal
  <2> DEFINE ms == {m \in pub[p].rows : /\ outbox[m].attempt >= MaxAttempts
                                        /\ ~DeadLettered(m)}
  <2>1. pub[p].rows \subseteq Msg
    BY DEF TypeInv, TypeOK, DeliveryTypeOK, PumpState
  <2>2. \A m \in pub[p].rows : outbox[m].status # "absent"
    BY DEF TypeInv, BusyInv
  <2>3. \A row \in OutboxRow :
           /\ row.status # "absent" => Reconciled(row).status # "absent"
           /\ Reconciled(row).dead =
                 IF row.attempt >= MaxAttempts THEN "dead" ELSE row.dead
    BY DEF Reconciled, OutboxRow
  <2>4. \A m \in Msg :
           /\ outbox'[m].status # "absent" <=> outbox[m].status # "absent"
           /\ outbox'[m].dead = "dead" <=> outbox[m].dead = "dead" \/ m \in ms
    BY <1>0, <1>3, <2>2, <2>3 DEF ReconcileCommit, DeadLettered
  <2>5. ms \subseteq Requested \ Parked
    BY <2>1, <2>2 DEF Requested, Parked
  <2>6. ms \in SUBSET Msg /\ \A m \in ms : outbox[m].status # "absent"
    BY <2>1, <2>2
  <2> HIDE DEF ms
  <2>7. Requested' = Requested /\ Parked' = Parked \cup ms /\ JournalInv'
    BY <2>4, <2>6 DEF Requested, Parked, DeadLettered, JournalInv
  <2>8. QED BY <2>5, <2>6, <2>7
<1>4. ASSUME NEW p \in Pub, FinishDelivery(p)
      PROVE  Goal
  <2> DEFINE m == pub[p].message
             ms == IF outbox'[m].dead = "dead" THEN {m} \ Parked ELSE {}
  <2>1. m \in Msg /\ pub[p].error \in BOOLEAN /\ pub[p].attempt \in Nat
    BY <1>4 DEF FinishDelivery, TypeInv, BusyInv, TypeOK, DeliveryTypeOK, PumpState
  <2>2. outbox[m].status = "delivering"
    BY <1>4 DEF FinishDelivery, HoldsDelivery
  <2>3. /\ outbox'[m] = Finished(outbox[m], pub[p].error, pub[p].attempt)
        /\ \A n \in Msg \ {m} : outbox'[n] = outbox[n]
    BY <1>0, <1>4, <2>1 DEF FinishDelivery
  <2>4. \A row \in OutboxRow, e \in BOOLEAN, k \in Nat :
           /\ Finished(row, e, k).status # "absent"
           /\ Finished(row, e, k).dead \in {"dead", row.dead}
    BY DEF Finished, OutboxRow
  <2>5. outbox'[m].status # "absent" /\ outbox'[m].dead \in {"dead", outbox[m].dead}
    BY <1>0, <2>1, <2>3, <2>4
  <2>6. ms \subseteq Requested \ Parked /\ ms \in SUBSET Msg
    BY <2>1, <2>2 DEF Requested
  <2> HIDE DEF m
  <2>7. Requested' = Requested /\ Parked' = Parked \cup ms /\ JournalInv'
    BY <2>1, <2>2, <2>3, <2>5 DEF Requested, Parked, DeadLettered, JournalInv
  <2>8. QED BY <2>6, <2>7
<1>5. ASSUME NEW m \in Msg, Replay(m)
      PROVE  Goal
  <2>1. \A row \in OutboxRow :
           Replayed(row).status = "pending" /\ Replayed(row).dead = "replayed"
    BY DEF Replayed, OutboxRow
  <2>2. /\ outbox'[m].status = "pending" /\ outbox'[m].dead = "replayed"
        /\ \A n \in Msg \ {m} : outbox'[n] = outbox[n]
    BY <1>0, <1>5, <2>1 DEF Replay
  <2>3. m \in Parked /\ outbox[m].status # "absent"
    BY <1>5 DEF Replay, Parked, JournalInv
  <2>4. Requested' = Requested /\ Parked' = Parked \ {m} /\ JournalInv'
    BY <2>2, <2>3 DEF Requested, Parked, DeadLettered, JournalInv
  <2>5. QED BY <2>3, <2>4
<1>6. ASSUME NEW p \in Pub, NEW m \in Msg, ClaimDelivery(p, m)
      PROVE  Goal
  <2>1. \A n \in Msg : /\ outbox'[n].status = "absent" <=> outbox[n].status = "absent"
                       /\ outbox'[n].dead = "dead" <=> outbox[n].dead = "dead"
    BY <1>0, <1>6
    DEF ClaimDelivery, Claimable, Unpublished, OutboxRow
  <2>2. QED BY <1>1, <2>1
<1>7. ASSUME NEW m \in Msg, NEW t \in Timestamp,
             NEW f \in {"available_at", "not_before", "published_at", "lease"},
             outbox' = [outbox EXCEPT ![m][f] = t]
      PROVE  Goal
  <2>1. \A row \in OutboxRow : /\ [row EXCEPT ![f] = t].status = row.status
                               /\ [row EXCEPT ![f] = t].dead = row.dead
    BY DEF OutboxRow
  <2>2. QED BY <1>0, <1>1, <1>7, <2>1
<1>8. ASSUME NEW m \in Msg, TimerDue(m) \/ LeaseLapse(m)
      PROVE  Goal
  <2>1. \E f \in {"available_at", "not_before", "published_at", "lease"} :
           outbox' = [outbox EXCEPT ![m][f] = Past]
    BY <1>8 DEF TimerDue, LeaseLapse
  <2>2. Past \in Timestamp
    BY DEF Timestamp
  <2>3. QED BY <1>7, <2>1, <2>2
<1>9. ASSUME ClockSlip
      PROVE  Goal
  <2>1. Future \in Timestamp
    BY DEF Timestamp
  <2>2. QED BY <1>1, <1>7, <1>9, <2>1 DEF ClockSlip
<1>10. ASSUME UNCHANGED outbox
       PROVE  Goal
  BY <1>1, <1>10
<1>11. ASSUME NEW p \in Pub,
              \/ ReconcileSelect(p) \/ PumpEnd(p) \/ Publish(p)
              \/ PublishError(p) \/ FinishLost(p) \/ PumpCrash(p)
       PROVE  UNCHANGED outbox
  BY <1>11
  DEF ReconcileSelect, PumpEnd, Publish, PublishError, FinishLost, PumpCrash
<1>12. ASSUME NEW m \in Msg, BrokerFault(m)
       PROVE  UNCHANGED outbox
  BY <1>12 DEF BrokerFault
<1> HIDE DEF Goal
<1>13. Goal
  BY <1>2, <1>3, <1>4, <1>5, <1>6, <1>8, <1>9, <1>10, <1>11, <1>12
  DEF DeliveryNext
<1>14. QED BY <1>13 DEF Goal

(* A step of the runtime is a step of the contract, or invisible to it. *)
LEMMA StepContract ==
    ASSUME TypeInv, SafeInv, JournalInv, [Next]_vars
    PROVE  JournalInv' /\ [Contract!Next]_(Contract!contractVars)
<1>1. CASE DeliveryNext /\ UNCHANGED taskVars
  <2>1. UNCHANGED <<effects, turn>>
    BY <1>1 DEF taskVars, ghosts
  <2>2. ASSUME NEW m \in Msg, m \notin Requested,
               Requested' = Requested \cup {m}, Parked' = Parked
        PROVE  Contract!Request(m)
    BY <2>1, <2>2 DEF Contract!Request, Requested, Parked
  <2>3. ASSUME NEW ms \in SUBSET Msg, ms \subseteq Requested \ Parked,
               Parked' = Parked \cup ms, Requested' = Requested
        PROVE  Contract!Park(ms)
    BY <2>1, <2>3 DEF Contract!Park, Requested, Parked
  <2>4. ASSUME NEW m \in Msg, m \in Parked,
               Parked' = Parked \ {m}, Requested' = Requested
        PROVE  Contract!Unpark(m)
    BY <2>1, <2>4 DEF Contract!Unpark, Requested, Parked
  <2>5. QED BY <1>1, <2>2, <2>3, <2>4, DeliveryContract DEF Contract!Next
<1>2. CASE TaskNext
  <2>1. UNCHANGED outbox
    BY <1>2
    DEF TaskNext, ClaimCheck, ClaimRefused, ClaimLease, ClaimDone, ClaimBusy,
        Execute, Renew, LeaseLost, Guard, CommitStep, CommitLast, HandlerFail,
        Release, WorkerCrash, ExecutionLapse, deliveryVars
  <2>2. JournalInv' /\ Requested' = Requested /\ Parked' = Parked
    BY <2>1 DEF JournalInv, Requested, Parked, DeadLettered
  <2>3. CASE \A w \in Worker : ~CommitStep(w) /\ ~CommitLast(w)
    <3>1. UNCHANGED <<turn, effects>>
      BY <2>3, NoCommitNoTurn
    <3>2. QED BY <2>2, <3>1 DEF Contract!contractVars, Requested, Parked
  <2>4. ASSUME NEW w \in Worker, CommitStep(w)
        PROVE  Contract!Progress(worker[w].message)
    <3>1. worker[w].pc = "guardedStep" /\ UNCHANGED effects
      BY <2>4 DEF CommitStep
    <3>2. QED
      BY <2>2, <2>4, <3>1, CommitTurn
      DEF Contract!Progress, Contract!TakesTurn, Requested, Parked
  <2>5. ASSUME NEW w \in Worker, CommitLast(w)
        PROVE  Contract!Apply(worker[w].message)
    <3> DEFINE m == worker[w].message
    <3>1. /\ worker[w].pc = "guardedLast"
          /\ effects' = [effects EXCEPT ![m] = @ + 1]
      BY <2>5 DEF CommitLast
    <3>2. m \in Msg /\ effects[m] = 0
      BY <2>5, CommitTurn
    <3>3. effects' = [effects EXCEPT ![m] = 1]
      BY <3>1, <3>2
    <3>4. QED
      BY <2>2, <2>5, <3>1, <3>3, CommitTurn
      DEF Contract!Apply, Contract!TakesTurn, Requested, Parked
  <2>6. \A w \in Worker : CommitStep(w) \/ CommitLast(w) => worker[w].message \in Msg
    BY CommitTurn
  <2>7. QED BY <2>2, <2>3, <2>4, <2>5, <2>6 DEF Contract!Next
<1>3. CASE UNCHANGED vars
  BY <1>3
  DEF vars, deliveryVars, taskVars, ghosts, JournalInv, DeadLettered,
      Contract!contractVars
<1>4. QED BY <1>1, <1>2, <1>3 DEF Next

(* The runtime with its leases, retries and crashes implements the         *)
(* contract it gives producers and handlers.                               *)
THEOREM Refinement == Spec => ImplementsContract
<1>1. Init => Contract!Init
  BY DEF Init, DeliveryInit, Contract!Init, AbsentRow, NoTurn, DeadLettered
<1>2. Init => JournalInv
  BY DEF Init, DeliveryInit, JournalInv, DeadLettered, AbsentRow
<1>3. TypeInv /\ SafeInv /\ JournalInv /\ [Next]_vars
      => JournalInv' /\ [Contract!Next]_(Contract!contractVars)
  BY StepContract
<1>4. QED
  BY <1>1, <1>2, <1>3, SafeAlways, PTL DEF Spec, ImplementsContract, Contract!Spec

-----------------------------------------------------------------------------
(* Publication attempts. *)

(* No message has been attempted at the start. *)
LEMMA InitAttempts == Init => AttemptInv
BY DEF Init, DeliveryInit, AttemptInv, AttemptOK, AbsentRow, IdlePump,
       Publishing, DeadLettered

(* A row whose publication state stays, or only moves into the journal,    *)
(* stays within bounds if the lease of a running publisher is only ever    *)
(* lost at the price of a fault.                                           *)
LEMMA RowKept ==
    ASSUME TypeInv, AttemptInv, NEW m \in Msg,
           faults' \in Nat, faults' >= faults,
           outbox'[m].status = outbox[m].status,
           outbox'[m].attempt = outbox[m].attempt,
           outbox'[m].lease_owner = outbox[m].lease_owner,
           outbox[m].dead = "dead" => outbox'[m].dead = "dead",
           \A p \in Pub : Publishing(p, m)' =>
              Publishing(p, m) /\ pub'[p].attempt = pub[p].attempt,
           \A p \in Pub : Publishing(p, m) /\ HoldsDelivery(p) =>
              \/ Publishing(p, m)' /\ outbox'[m].lease = outbox[m].lease
              \/ faults' > faults
    PROVE  AttemptOK(m)'
<1>1. AttemptOK(m) /\ outbox[m].attempt \in Nat /\ faults \in Nat
  BY DEF AttemptInv, TypeInv, TypeOK, DeliveryTypeOK, OutboxRow
<1>2. outbox'[m].status = "delivering"
          => \/ outbox'[m].attempt < MaxAttempts + faults'
             \/ \E p \in Pub : Publishing(p, m)' /\ HoldsDelivery(p)'
  <2> SUFFICES ASSUME outbox'[m].status = "delivering",
                      ~(outbox'[m].attempt < MaxAttempts + faults')
               PROVE  \E p \in Pub : Publishing(p, m)' /\ HoldsDelivery(p)'
    OBVIOUS
  <2>1. ~(outbox[m].attempt < MaxAttempts + faults) /\ ~(faults' > faults)
    BY <1>1 DEF AttemptOK
  <2>2. PICK p \in Pub : Publishing(p, m) /\ HoldsDelivery(p)
    BY <1>1, <2>1 DEF AttemptOK
  <2>3. Publishing(p, m)' /\ outbox'[m].lease = outbox[m].lease
    BY <2>1, <2>2
  <2>4. HoldsDelivery(p)'
    BY <2>2, <2>3 DEF HoldsDelivery, Publishing, Live
  <2>5. QED BY <2>3, <2>4
<1>3. \A p \in Pub :
          /\ Publishing(p, m)'
          /\ outbox'[m].lease_owner = p
          /\ outbox'[m].status = "delivering"
          => pub'[p].attempt = outbox'[m].attempt
  BY <1>1 DEF AttemptOK
<1>4. /\ outbox'[m].attempt <= MaxAttempts + faults'
      /\ outbox'[m].status \in {"absent", "pending"} /\ ~DeadLettered(m)'
            => outbox'[m].attempt < MaxAttempts
  BY <1>1 DEF AttemptOK, DeadLettered
<1>5. QED BY <1>2, <1>3, <1>4 DEF AttemptOK

(* Steps that change neither a row nor what a pump publishes. *)
LEMMA RowsKept ==
    ASSUME TypeInv, AttemptInv, faults' \in Nat, faults' >= faults,
           UNCHANGED outbox,
           \A p \in Pub : \/ /\ pub'[p].message = pub[p].message
                             /\ pub'[p].attempt = pub[p].attempt
                             /\ (pub'[p].pc \in {"publish", "finish"})
                                   = (pub[p].pc \in {"publish", "finish"})
                          \/ /\ pub'[p].pc \notin {"publish", "finish"}
                             /\ \/ faults' > faults
                                \/ pub[p].pc \notin {"publish", "finish"}
                                \/ ~HoldsDelivery(p)
    PROVE  AttemptInv'
<1> SUFFICES ASSUME NEW m \in Msg PROVE AttemptOK(m)'
  BY DEF AttemptInv
<1>1. \A p \in Pub : Publishing(p, m)' =>
              Publishing(p, m) /\ pub'[p].attempt = pub[p].attempt
  BY DEF Publishing
<1>2. \A p \in Pub : Publishing(p, m) /\ HoldsDelivery(p) =>
              Publishing(p, m)' \/ faults' > faults
  BY DEF Publishing
<1>3. QED BY <1>1, <1>2, RowKept

(* Every step keeps every message's attempts within its allowance. *)
LEMMA StepAttempts ==
    ASSUME TypeInv, AttemptInv, [Next]_vars
    PROVE  AttemptInv'
<1>0. /\ outbox \in [Msg -> OutboxRow] /\ pub \in [Pub -> PumpState]
      /\ faults \in Nat
  BY DEF TypeInv, TypeOK, DeliveryTypeOK
<1>1. ASSUME NEW m \in Msg, NEW when \in Schedule, Enqueue(m, when)
      PROVE  AttemptInv'
  <2>1. /\ outbox'[m].status = "pending" /\ outbox'[m].attempt = 0
        /\ \A n \in Msg \ {m} : outbox'[n] = outbox[n]
        /\ UNCHANGED <<pub, faults>>
    BY <1>0, <1>1 DEF Enqueue, AbsentRow
  <2>2. AttemptOK(m)'
    BY <1>0, <2>1 DEF AttemptOK
  <2>3. \A n \in Msg \ {m} : AttemptOK(n)'
    BY <1>0, <2>1, RowKept DEF Publishing
  <2>4. QED BY <2>2, <2>3 DEF AttemptInv
<1>2. ASSUME NEW p \in Pub,
             \/ ReconcileSelect(p) \/ PumpEnd(p) \/ PumpCrash(p)
             \/ Publish(p) \/ PublishError(p) \/ FinishLost(p)
      PROVE  AttemptInv'
  <2>1. UNCHANGED outbox /\ faults' \in Nat /\ faults' >= faults
    BY <1>0, <1>2
    DEF ReconcileSelect, PumpEnd, PumpCrash, Publish, PublishError, FinishLost,
        Fault
  <2>2. \A q \in Pub \ {p} : pub'[q] = pub[q]
    BY <1>0, <1>2
    DEF ReconcileSelect, PumpEnd, PumpCrash, Publish, PublishError, FinishLost
  <2>3. CASE ReconcileSelect(p) \/ PumpEnd(p) \/ FinishLost(p)
    <3>1. /\ pub'[p].pc \notin {"publish", "finish"}
          /\ pub[p].pc \notin {"publish", "finish"} \/ ~HoldsDelivery(p)
      <4>1. CASE ReconcileSelect(p) \/ PumpEnd(p)
        <5>1. CASE ReconcileSelect(p)
          <6>1. \A ms : [IdlePump EXCEPT !.pc = "reconcile", !.rows = ms].pc
                           = "reconcile"
            BY DEF IdlePump
          <6>2. QED BY <1>0, <5>1, <6>1 DEF ReconcileSelect
        <5>2. CASE PumpEnd(p)
          BY <1>0, <5>2 DEF PumpEnd, IdlePump
        <5>3. QED BY <4>1, <5>1, <5>2
      <4>2. CASE FinishLost(p)
        <5>1. NextRound(pub[p]).pc = "loop"
          BY <1>0, NextRoundType
        <5>2. pub' = [pub EXCEPT ![p] = NextRound(pub[p])] /\ ~HoldsDelivery(p)
          BY <4>2 DEF FinishLost
        <5>3. QED BY <1>0, <5>1, <5>2
      <4>3. QED BY <2>3, <4>1, <4>2
    <3>2. QED BY <2>1, <2>2, <3>1, RowsKept
  <2>4. CASE PumpCrash(p)
    <3>1. pub'[p].pc = "idle" /\ faults' > faults
      BY <1>0, <2>4 DEF PumpCrash, Fault, IdlePump
    <3>2. QED BY <2>1, <2>2, <3>1, RowsKept
  <2>5. CASE Publish(p) \/ PublishError(p)
    <3>1. /\ pub[p].pc = "publish" /\ pub'[p].pc = "finish"
          /\ pub'[p].message = pub[p].message /\ pub'[p].attempt = pub[p].attempt
      BY <1>0, <2>5 DEF Publish, PublishError, PumpState
    <3>2. QED BY <2>1, <2>2, <3>1, RowsKept
  <2>6. QED BY <1>2, <2>3, <2>4, <2>5
<1>3. ASSUME NEW p \in Pub, ReconcileCommit(p)
      PROVE  AttemptInv'
  <2>1. pub[p].pc = "reconcile" /\ pub'[p].pc = "loop" /\ UNCHANGED faults
    BY <1>0, <1>3 DEF ReconcileCommit, IdlePump
  <2>2. \A q \in Pub \ {p} : pub'[q] = pub[q]
    BY <1>0, <1>3 DEF ReconcileCommit
  <2>3. \A m \in Msg : \A q \in Pub :
           Publishing(q, m)' = Publishing(q, m) /\ (Publishing(q, m) => q # p)
    BY <2>1, <2>2 DEF Publishing
  <2>4. \A row \in OutboxRow :
           /\ Reconciled(row).attempt = row.attempt
           /\ Reconciled(row).lease_owner = row.lease_owner
           /\ Reconciled(row).lease = row.lease
           /\ row.attempt >= MaxAttempts => /\ Reconciled(row).status = row.status
                                            /\ Reconciled(row).dead = "dead"
           /\ row.attempt < MaxAttempts => Reconciled(row).status = "pending"
    BY DEF Reconciled, OutboxRow
  <2>5. ASSUME NEW m \in Msg
        PROVE  AttemptOK(m)'
    <3>1. outbox'[m] = outbox[m] \/ outbox'[m] = Reconciled(outbox[m])
      BY <1>3 DEF ReconcileCommit
    <3>2. outbox[m] \in OutboxRow /\ outbox[m].attempt \in Nat
      BY <1>0 DEF OutboxRow
    <3>3. CASE outbox'[m] = Reconciled(outbox[m]) /\ outbox[m].attempt < MaxAttempts
      BY <1>0, <2>1, <2>4, <3>2, <3>3 DEF AttemptOK
    <3>4. CASE \/ outbox'[m] = outbox[m]
               \/ outbox'[m] = Reconciled(outbox[m]) /\ outbox[m].attempt >= MaxAttempts
      BY <1>0, <2>1, <2>2, <2>3, <2>4, <3>2, <3>4, RowKept
    <3>5. QED BY <3>1, <3>2, <3>3, <3>4
  <2>6. QED BY <2>5 DEF AttemptInv
<1>4. ASSUME NEW p \in Pub, NEW m \in Msg, ClaimDelivery(p, m)
      PROVE  AttemptInv'
  <2>1. /\ pub[p].pc = "loop" /\ pub'[p].pc = "publish" /\ pub'[p].message = m
        /\ pub'[p].attempt = outbox[m].attempt + 1
        /\ \A q \in Pub \ {p} : pub'[q] = pub[q]
        /\ UNCHANGED faults
    BY <1>0, <1>4 DEF ClaimDelivery, PumpState
  <2>2. /\ outbox'[m].status = "delivering" /\ outbox'[m].lease_owner = p
        /\ outbox'[m].lease = Future /\ outbox'[m].attempt = outbox[m].attempt + 1
        /\ \A n \in Msg \ {m} : outbox'[n] = outbox[n]
    BY <1>0, <1>4 DEF ClaimDelivery, OutboxRow
  <2>3. outbox[m].attempt < MaxAttempts + faults
    <3>1. AttemptOK(m) /\ outbox[m].attempt \in Nat
      BY <1>0 DEF AttemptInv, OutboxRow
    <3>2. CASE outbox[m].status = "pending"
      BY <1>0, <1>4, <3>1, <3>2 DEF ClaimDelivery, Claimable, AttemptOK
    <3>3. CASE outbox[m].status = "delivering" /\ Due(outbox[m].lease)
      <4>1. \A q \in Pub : Publishing(q, m) => ~HoldsDelivery(q)
        BY <3>3 DEF Publishing, HoldsDelivery, Due, Live
      <4>2. QED BY <3>1, <3>3, <4>1 DEF AttemptOK
    <3>4. QED BY <1>4, <3>2, <3>3 DEF ClaimDelivery, Claimable, Unpublished
  <2>4. AttemptOK(m)'
    <3>1. outbox[m].attempt \in Nat
      BY <1>0 DEF OutboxRow
    <3>2. outbox'[m].attempt <= MaxAttempts + faults'
      BY <1>0, <2>1, <2>2, <2>3, <3>1
    <3>3. Publishing(p, m)' /\ HoldsDelivery(p)'
      BY <2>1, <2>2 DEF Publishing, HoldsDelivery, Live
    <3>4. pub'[p].attempt = outbox'[m].attempt
      BY <2>1, <2>2
    <3>5. QED BY <2>2, <3>2, <3>3, <3>4 DEF AttemptOK
  <2>5. ASSUME NEW n \in Msg \ {m}
        PROVE  AttemptOK(n)'
    <3>1. \A q \in Pub : Publishing(q, n)' <=> Publishing(q, n)
      BY <2>1 DEF Publishing
    <3>2. \A q \in Pub : Publishing(q, n) => pub'[q] = pub[q]
      BY <2>1 DEF Publishing
    <3>3. QED BY <1>0, <2>1, <2>2, <3>1, <3>2, RowKept
  <2>6. QED BY <2>4, <2>5 DEF AttemptInv
<1>5. ASSUME NEW p \in Pub, FinishDelivery(p)
      PROVE  AttemptInv'
  <2> PICK m \in Msg : m = pub[p].message
    BY <1>5 DEF FinishDelivery, TypeInv, BusyInv
  <2>1. /\ pub[p].pc = "finish" /\ HoldsDelivery(p)
        /\ pub[p].error \in BOOLEAN /\ pub[p].attempt \in Nat
    BY <1>0, <1>5 DEF FinishDelivery, TypeInv, BusyInv, PumpState
  <2>2. /\ outbox'[m] = Finished(outbox[m], pub[p].error, pub[p].attempt)
        /\ \A n \in Msg \ {m} : outbox'[n] = outbox[n]
        /\ UNCHANGED faults
    BY <1>0, <1>5, <2>1 DEF FinishDelivery
  <2>3. /\ pub'[p].pc = "loop"
        /\ \A q \in Pub \ {p} : pub'[q] = pub[q]
    BY <1>0, <1>5, NextRoundType DEF FinishDelivery
  <2>4. \A row \in OutboxRow, e \in BOOLEAN, k \in Nat :
           /\ Finished(row, e, k).attempt = row.attempt
           /\ Finished(row, e, k).status = IF e THEN "pending" ELSE "published"
           /\ e /\ k >= MaxAttempts => Finished(row, e, k).dead = "dead"
    BY DEF Finished, OutboxRow
  <2>5. pub[p].attempt = outbox[m].attempt
    BY <2>1 DEF AttemptInv, AttemptOK, HoldsDelivery, Publishing
  <2>6. AttemptOK(m) /\ outbox[m] \in OutboxRow /\ outbox[m].attempt \in Nat
    BY <1>0, <2>1 DEF AttemptInv, OutboxRow
  <2>7. AttemptOK(m)'
    <3>1. /\ outbox'[m].attempt = outbox[m].attempt
          /\ outbox'[m].status = IF pub[p].error THEN "pending" ELSE "published"
          /\ pub[p].error /\ pub[p].attempt >= MaxAttempts => outbox'[m].dead = "dead"
      BY <2>1, <2>2, <2>4, <2>6
    <3>2. outbox'[m].attempt <= MaxAttempts + faults'
      BY <2>2, <2>6, <3>1 DEF AttemptOK
    <3>3. CASE pub[p].error
      BY <2>5, <2>6, <3>1, <3>2, <3>3 DEF AttemptOK, DeadLettered
    <3>4. CASE ~pub[p].error
      BY <3>1, <3>2, <3>4 DEF AttemptOK
    <3>5. QED BY <3>3, <3>4
  <2>8. ASSUME NEW n \in Msg \ {m}
        PROVE  AttemptOK(n)'
    <3>1. \A q \in Pub : Publishing(q, n)' <=> Publishing(q, n)
      BY <2>1, <2>3 DEF Publishing
    <3>2. \A q \in Pub : Publishing(q, n) => pub'[q] = pub[q]
      BY <2>1, <2>3 DEF Publishing
    <3>3. outbox'[n] = outbox[n] /\ faults' = faults
      BY <2>2
    <3>4. QED BY <1>0, <3>1, <3>2, <3>3, RowKept
  <2>9. QED BY <2>7, <2>8 DEF AttemptInv
<1>6. ASSUME NEW m \in Msg, Replay(m)
      PROVE  AttemptInv'
  <2>1. \A row \in OutboxRow :
           Replayed(row).status = "pending" /\ Replayed(row).attempt = 0
    BY DEF Replayed, OutboxRow
  <2>2. /\ outbox'[m].status = "pending" /\ outbox'[m].attempt = 0
        /\ \A n \in Msg \ {m} : outbox'[n] = outbox[n]
        /\ UNCHANGED <<pub, faults>>
    BY <1>0, <1>6, <2>1 DEF Replay
  <2>3. AttemptOK(m)'
    BY <1>0, <2>2 DEF AttemptOK
  <2>4. \A n \in Msg \ {m} : AttemptOK(n)'
    BY <1>0, <2>2, RowKept DEF Publishing
  <2>5. QED BY <2>3, <2>4 DEF AttemptInv
<1>7. ASSUME NEW m \in Msg, NEW t \in Timestamp,
             NEW f \in {"available_at", "not_before", "published_at", "lease"},
             outbox' = [outbox EXCEPT ![m][f] = t],
             UNCHANGED pub, faults' \in Nat, faults' >= faults,
             \/ f # "lease"
             \/ faults' > faults
             \/ ~ \E p \in Pub : Publishing(p, m) /\ HoldsDelivery(p)
      PROVE  AttemptInv'
  <2>1. \A row \in OutboxRow :
           /\ [row EXCEPT ![f] = t].status = row.status
           /\ [row EXCEPT ![f] = t].attempt = row.attempt
           /\ [row EXCEPT ![f] = t].lease_owner = row.lease_owner
           /\ [row EXCEPT ![f] = t].dead = row.dead
           /\ f # "lease" => [row EXCEPT ![f] = t].lease = row.lease
    BY DEF OutboxRow
  <2>2. ASSUME NEW n \in Msg
        PROVE  /\ outbox'[n].status = outbox[n].status
               /\ outbox'[n].attempt = outbox[n].attempt
               /\ outbox'[n].lease_owner = outbox[n].lease_owner
               /\ outbox'[n].dead = outbox[n].dead
               /\ n # m \/ f # "lease" => outbox'[n].lease = outbox[n].lease
    BY <1>0, <1>7, <2>1
  <2>3. \A n \in Msg : AttemptOK(n)'
    BY <1>7, <2>2, RowKept DEF Publishing
  <2>4. QED BY <2>3 DEF AttemptInv
<1>8. ASSUME NEW m \in Msg, TimerDue(m) \/ LeaseLapse(m)
      PROVE  AttemptInv'
  <2>1. Past \in Timestamp
    BY DEF Timestamp
  <2>2. QED BY <1>0, <1>7, <1>8, <2>1 DEF TimerDue, LeaseLapse, Fault
<1>9. ASSUME ClockSlip
      PROVE  AttemptInv'
  <2>1. Future \in Timestamp
    BY DEF Timestamp
  <2>2. CASE UNCHANGED outbox
    BY <1>0, <1>9, <2>2, RowsKept DEF ClockSlip, Fault
  <2>3. CASE \E m \in Msg, f \in {"available_at", "not_before",
                                  "published_at", "lease"} :
                outbox' = [outbox EXCEPT ![m][f] = Future]
    <3> PICK m \in Msg,
             f \in {"available_at", "not_before", "published_at", "lease"} :
                outbox' = [outbox EXCEPT ![m][f] = Future]
      BY <2>3
    <3>1. UNCHANGED pub /\ faults' \in Nat /\ faults' > faults /\ faults' >= faults
      BY <1>0, <1>9 DEF ClockSlip, Fault
    <3>2. QED BY <1>7, <2>1, <3>1
  <2>4. QED BY <1>9, <2>2, <2>3 DEF ClockSlip
<1>10. ASSUME UNCHANGED <<outbox, pub>>, faults' \in Nat, faults' >= faults
       PROVE  AttemptInv'
  BY <1>10, RowsKept
<1>11. ASSUME NEW m \in Msg, BrokerFault(m)
       PROVE  AttemptInv'
  BY <1>0, <1>10, <1>11 DEF BrokerFault, Fault
<1>12. CASE TaskNext
  <2>1. UNCHANGED <<outbox, pub>> /\ faults' \in Nat /\ faults' >= faults
    <3>1. CASE \/ \E w \in Worker : WorkerCrash(w)
               \/ \E r \in Resource : ExecutionLapse(r)
      BY <1>0, <3>1 DEF WorkerCrash, ExecutionLapse, Fault
    <3>2. CASE ~ \/ \E w \in Worker : WorkerCrash(w)
                 \/ \E r \in Resource : ExecutionLapse(r)
      <4>1. UNCHANGED <<outbox, pub, faults>>
        BY <1>12, <3>2
        DEF TaskNext, ClaimCheck, ClaimRefused, ClaimLease, ClaimDone,
            ClaimBusy, Execute, Renew, LeaseLost, Guard, CommitStep, CommitLast,
            HandlerFail, Release, deliveryVars
      <4>2. QED BY <1>0, <4>1
    <3>3. QED BY <3>1, <3>2
  <2>2. QED BY <1>10, <2>1
<1>13. CASE UNCHANGED vars
  BY <1>0, <1>10, <1>13 DEF vars, deliveryVars
<1>14. QED
  BY <1>1, <1>2, <1>3, <1>4, <1>5, <1>6, <1>8, <1>9, <1>11, <1>12, <1>13
  DEF Next, DeliveryNext

(* A message is published at most once more than the policy allows for     *)
(* every crash, stall or clock correction.                                 *)
THEOREM AttemptsBoundedHolds == Spec => []AttemptsBounded
<1>1. Init => TypeInv /\ AttemptInv
  BY InitType, InitAttempts
<1>2. TypeInv /\ AttemptInv /\ [Next]_vars => (TypeInv /\ AttemptInv)'
  BY StepType, StepAttempts
<1>3. TypeInv /\ AttemptInv => AttemptsBounded
  BY DEF AttemptInv, AttemptOK, AttemptsBounded
<1>4. QED BY <1>1, <1>2, <1>3, PTL DEF Spec

(* The conjunction the runs check is an invariant of every instance. *)
THEOREM InductiveInvariant == Spec => []IInv
<1>1. Init => TypeInv /\ AttemptInv
  BY InitType, InitAttempts
<1>2. TypeInv /\ AttemptInv /\ [Next]_vars => (TypeInv /\ AttemptInv)'
  BY StepType, StepAttempts
<1>3. TypeInv /\ SafeInv /\ AttemptInv => IInv
  BY DEF TypeInv, SafeInv, IInv
<1>4. QED BY <1>1, <1>2, <1>3, SafeAlways, PTL DEF Spec
=============================================================================
