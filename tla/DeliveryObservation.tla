-------------------------- MODULE DeliveryObservation --------------------------
(***************************************************************************)
(* The read-only gauges over the delivery tables and the endpoint that     *)
(* serves them (infrastructure/messaging/delivery_observation.py,          *)
(* interfaces/http/internal/delivery_metrics.py), beside the publishing    *)
(* and consuming processes of DurableTasks.                                *)
(*                                                                         *)
(* A collection reads one REPEATABLE READ snapshot and compares times with *)
(* the clock at its start, except for execution leases, which the shared   *)
(* active_execution_sql compares with the clock of the query: a lease that *)
(* is live in the snapshot may have run out by then.  A gauge is the set   *)
(* of messages it counts.                                                  *)
(***************************************************************************)
EXTENDS DurableTasks

CONSTANTS Scraper,      \* scrapes, each of them made again and again
          Observed      \* messages of the topics of the observed policies

VARIABLES slot,         \* _collection_slot: is the semaphore taken?
          scan,         \* [pc, tables] of every request
          overdue,      \* ghost: unacknowledged ever since the snapshot was taken
          waiting,      \* ghost: publishable ever since the snapshot was taken
          missed        \* ghost: what an answer left out of them

observerVars == <<slot, scan, overdue, waiting, missed>>
allVars == <<vars, observerVars>>

NoScan == [pc |-> "ended", tables |-> None]
Tables == [outbox |-> outbox, inbox |-> inbox, execution |-> execution]

-----------------------------------------------------------------------------
(* The columns of the facts query, for a message of the tables t. *)
Done(t, m) == m \in t.inbox
Dead(t, m) == t.outbox[m].dead = "dead"
LeaseLive(t, m) == \E r \in Resource : t.execution[r].message = m /\ Live(t.execution[r].expires)

Unsent(row) == \/ row.status = "pending"
               \/ row.status = "delivering" /\ Due(row.lease)

(* Mutant of Publishable: a publisher that left its lease is waited for. *)
PublishablePending(t, executing, m) ==
    ~Done(t, m) /\ ~Dead(t, m) /\ m \notin executing
    /\ Due(t.outbox[m].not_before) /\ Due(t.outbox[m].available_at)
    /\ t.outbox[m].status = "pending"
(* publishable_messages *)
Publishable(t, executing, m) ==
    ~Done(t, m) /\ ~Dead(t, m) /\ m \notin executing
    /\ Due(t.outbox[m].not_before) /\ Due(t.outbox[m].available_at) /\ Unsent(t.outbox[m])

(* reconcile_candidates *)
Candidate(t, executing, m) ==
    ~Done(t, m) /\ ~Dead(t, m) /\ m \notin executing
    /\ t.outbox[m].status = "published" /\ Due(t.outbox[m].published_at)

Stored(t) == {m \in Observed : t.outbox[m].status # "absent"}

(* One row of the snapshot; executing as the query finds it. *)
Gauges(t, executing) ==
    LET open == {m \in Stored(t) : ~Done(t, m)}
    IN [messages     |-> Stored(t),
        receipts     |-> Stored(t) \ open,
        incomplete   |-> open,
        scheduled    |-> {m \in open : ~Due(t.outbox[m].not_before)},
        publishable  |-> {m \in open : Publishable(t, executing, m)},
        awaiting     |-> {m \in open : t.outbox[m].status = "published"},
        active       |-> open \cap executing,
        expired      |-> {m \in open : t.outbox[m].status = "delivering" /\ Due(t.outbox[m].lease)},
        dead         |-> {m \in Stored(t) : Dead(t, m)},
        candidates   |-> {m \in open : Candidate(t, executing, m)},
        unregistered |-> {m \in Msg \ Observed : t.outbox[m].status # "absent"}]

LiveIn(t) == {m \in Observed : LeaseLive(t, m)}

-----------------------------------------------------------------------------
Goto(q, pc) == scan' = [scan EXCEPT ![q] = [NoScan EXCEPT !.pc = pc]]
Collecting(q) == scan[q].pc \in {"begin", "query"}

(* Mutant of Scrape: a scrape waits for the one before it. *)
ScrapeQueued(q) ==
    /\ ~Collecting(q)
    /\ IF slot THEN Goto(q, "queued") /\ UNCHANGED slot ELSE Goto(q, "begin") /\ slot' = TRUE
    /\ UNCHANGED <<vars, overdue, waiting, missed>>

(* delivery_metrics: admission at once or not at all. *)
Scrape(q) ==
    /\ ~Collecting(q)
    /\ ~slot                     \* or the answer is 503, delivery_observation_busy
    /\ Goto(q, "begin") /\ slot' = TRUE
    /\ UNCHANGED <<vars, overdue, waiting, missed>>

(* The transaction takes its snapshot. *)
Begin(q) ==
    /\ scan[q].pc = "begin"
    /\ scan' = [scan EXCEPT ![q] = [NoScan EXCEPT !.pc = "query", !.tables = Tables]]
    /\ overdue' = {m \in Observed : Candidate(Tables, LiveIn(Tables), m)}
    /\ waiting' = {m \in Observed : Claimable(m) /\ m \notin inbox /\ ~ActiveExecution(m)}
    /\ UNCHANGED <<vars, slot, missed>>

(* Mutant of Query: a lease row counts whatever its deadline. *)
QueryAnyLease(q) ==
    /\ scan[q].pc = "query"
    /\ LET t == scan[q].tables
           g == Gauges(t, {m \in Observed : \E r \in Resource : t.execution[r].message = m})
       IN missed' = (overdue \ g.candidates) \cup (waiting \ g.publishable)
    /\ Goto(q, "ended") /\ slot' = FALSE /\ overdue' = {} /\ waiting' = {}
    /\ UNCHANGED vars

Query(q) ==
    /\ scan[q].pc = "query"
    /\ \E lapsed \in SUBSET LiveIn(scan[q].tables) :
          LET g == Gauges(scan[q].tables, LiveIn(scan[q].tables) \ lapsed)
          IN missed' = (overdue \ g.candidates) \cup (waiting \ g.publishable)
    /\ Goto(q, "ended") /\ slot' = FALSE /\ overdue' = {} /\ waiting' = {}
    /\ UNCHANGED vars

(* Mutant of Fail: the semaphore is released on success alone. *)
FailHolding(q) ==
    /\ Collecting(q) /\ Goto(q, "ended") /\ overdue' = {} /\ waiting' = {}
    /\ UNCHANGED <<vars, slot, missed>>

(* The budget runs out, the database fails or the client goes: finally.    *)
Fail(q) ==
    /\ Collecting(q) /\ Goto(q, "ended") /\ slot' = FALSE /\ overdue' = {} /\ waiting' = {}
    /\ UNCHANGED <<vars, missed>>

(* The delivery runtime goes on while a collection runs. *)
Deliver ==
    /\ Next
    /\ overdue' = {m \in overdue : Unacknowledged(m)'}
    /\ waiting' = {m \in waiting : Claimable(m)' /\ m \notin inbox' /\ ~ActiveExecution(m)'}
    /\ UNCHANGED <<slot, scan, missed>>

ObserveInit == /\ Init /\ slot = FALSE /\ scan = [q \in Scraper |-> NoScan]
               /\ overdue = {} /\ waiting = {} /\ missed = {}

ObserveNext == Deliver \/ \E q \in Scraper : Scrape(q) \/ Begin(q) \/ Query(q) \/ Fail(q)

ObserveSpec == ObserveInit /\ [][ObserveNext]_allVars

-----------------------------------------------------------------------------
(* Every variable of the observer has its type. *)
ObserverTypeOK ==
    /\ slot \in BOOLEAN
    /\ \A q \in Scraper : scan[q].pc \in {"ended", "begin", "query"}
    /\ overdue \cup waiting # {} => \E q \in Scraper : scan[q].pc = "query"

(* delivery_metrics: one collection at a time, and no way out of one keeps *)
(* the next one out.                                                       *)
OneScan == Cardinality({q \in Scraper : Collecting(q)}) = IF slot THEN 1 ELSE 0

(* The gauges speak of the messages the pump will act on: what they call   *)
(* publishable the publisher's claim would take, and what it would take    *)
(* but they do not count is acknowledged or being executed; the reconcile  *)
(* candidates are those of the reconciler, rows locked by a pump aside.    *)
PumpAgrees ==
    LET g == Gauges(Tables, LiveIn(Tables))
    IN \A m \in Observed : ~Locked(m) =>
          /\ m \in g.publishable <=> Claimable(m) /\ m \notin inbox /\ ~ActiveExecution(m)
          /\ m \in g.candidates <=> Unacknowledged(m)

(* collect_delivery_snapshot: a message that was overdue, or waited for a  *)
(* publisher, from the snapshot to the answer is in the answer, whatever   *)
(* crashes, commits or lapses while the gauges are computed.               *)
MissesNothing == missed = {}

(* What holds of the observer at every moment: one collection at a time,   *)
(* gauges that name what the pump and the reconciler would take, and none  *)
(* of it left out.                                                         *)
GaugesRight == ObserverTypeOK /\ OneScan /\ PumpAgrees /\ MissesNothing
=============================================================================
