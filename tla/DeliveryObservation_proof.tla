---------------------- MODULE DeliveryObservation_proof ----------------------
(***************************************************************************)
(* Machine-checked proofs about DeliveryObservation, for every set of      *)
(* scrapes and of observed messages, beside any delivery runtime.          *)
(***************************************************************************)
EXTENDS DeliveryObservation, FiniteSetTheorems, TLAPS

(* The semaphore counts: its place is taken by the one scrape that         *)
(* collects.                                                               *)
Placed ==
    /\ slot \in {TRUE, FALSE}
    /\ slot = FALSE => \A q \in Scraper : scan[q].pc = "ended"
    /\ slot = TRUE => \E q \in Scraper : /\ scan[q].pc \in {"begin", "query"}
                                         /\ \A p \in Scraper \ {q} : scan[p].pc = "ended"

(* What is still overdue or still waits was so in the snapshot.            *)
Overdue(t) == {m \in Observed : Candidate(t, LiveIn(t), m)}
Waiting(t) == {m \in Observed : Publishable(t, LiveIn(t), m)}

Seen ==
    /\ \A q \in Scraper : scan[q].pc = "query" =>
          overdue \subseteq Overdue(scan[q].tables) /\ waiting \subseteq Waiting(scan[q].tables)
    /\ (\A q \in Scraper : scan[q].pc # "query") => overdue = {} /\ waiting = {}

ObserverInv ==
    /\ DOMAIN scan = Scraper /\ Placed /\ Seen /\ missed = {}

-----------------------------------------------------------------------------
(* A collection that ends, or begins, changes the step of one scrape.      *)
LEMMA Going ==
    ASSUME DOMAIN scan = Scraper, scan = [q \in Scraper |-> scan[q]], NEW q \in Scraper, NEW pc, Goto(q, pc)
    PROVE  /\ DOMAIN scan' = Scraper /\ scan' = [p \in Scraper |-> scan'[p]] /\ scan'[q].pc = pc
           /\ \A p \in Scraper : p # q => scan'[p] = scan[p]
BY DEF Goto, NoScan

(* The gauges of any moment of the query name all that was overdue or      *)
(* waited in the snapshot: leases may only have run out since.             *)
LEMMA Named ==
    ASSUME NEW t, NEW lapsed \in SUBSET LiveIn(t)
    PROVE  /\ Overdue(t) \subseteq Gauges(t, LiveIn(t) \ lapsed).candidates
           /\ Waiting(t) \subseteq Gauges(t, LiveIn(t) \ lapsed).publishable
<1>1. ASSUME NEW m \in Overdue(t) PROVE m \in Gauges(t, LiveIn(t) \ lapsed).candidates
  BY DEF Overdue, Candidate, Gauges, Stored
<1>2. ASSUME NEW m \in Waiting(t) PROVE m \in Gauges(t, LiveIn(t) \ lapsed).publishable
  BY DEF Waiting, Publishable, Gauges, Stored, Unsent
<1>3. QED BY <1>1, <1>2

(* The queries of the observer and those of the pump and the reconciler    *)
(* say the same of a row nobody locks.                                     *)
LEMMA Agreement == PumpAgrees
<1> SUFFICES ASSUME NEW m \in Observed, ~Locked(m)
             PROVE  LET g == Gauges(Tables, LiveIn(Tables)) IN
                    /\ m \in g.publishable <=> Claimable(m) /\ m \notin inbox /\ ~ActiveExecution(m)
                    /\ m \in g.candidates <=> Unacknowledged(m)
  BY DEF PumpAgrees
<1>1. m \in LiveIn(Tables) <=> ActiveExecution(m)
  BY DEF LiveIn, LeaseLive, Tables, ActiveExecution
<1>2. Publishable(Tables, LiveIn(Tables), m) <=>
        Claimable(m) /\ m \notin inbox /\ ~ActiveExecution(m)
  BY <1>1 DEF Publishable, Claimable, Unsent, Unpublished, NotBeforeDue, DeadLettered, Done, Dead, Tables
<1>3. Candidate(Tables, LiveIn(Tables), m) <=> Unacknowledged(m)
  BY <1>1 DEF Candidate, Unacknowledged, DeadLettered, Done, Dead, Tables
<1>4. Publishable(Tables, LiveIn(Tables), m) => m \in Stored(Tables) /\ ~Done(Tables, m)
  BY DEF Publishable, Unsent, Stored, Tables
<1>5. Candidate(Tables, LiveIn(Tables), m) => m \in Stored(Tables) /\ ~Done(Tables, m)
  BY DEF Candidate, Stored, Tables
<1>6. QED BY <1>2, <1>3, <1>4, <1>5 DEF Gauges

-----------------------------------------------------------------------------
LEMMA ObserverStart == ObserveInit => ObserverInv
<1> SUFFICES ASSUME ObserveInit PROVE ObserverInv
  OBVIOUS
<1>1. DOMAIN scan = Scraper /\ \A q \in Scraper : scan[q].pc = "ended"
  BY DEF ObserveInit, NoScan
<1>2. slot = FALSE /\ overdue = {} /\ waiting = {} /\ missed = {}
  BY DEF ObserveInit
<1>3. QED BY <1>1, <1>2 DEF ObserverInv, Placed, Seen

LEMMA DeliverKeeps == ASSUME ObserverInv, Deliver PROVE ObserverInv'
<1>1. slot' = slot /\ scan' = scan /\ missed' = missed
  BY DEF Deliver
<1>2. overdue' \subseteq overdue /\ waiting' \subseteq waiting
  BY DEF Deliver
<1>3. Seen'
  <2>1. ASSUME NEW q \in Scraper, scan'[q].pc = "query"
        PROVE  overdue' \subseteq Overdue(scan'[q].tables) /\ waiting' \subseteq Waiting(scan'[q].tables)
    BY <1>1, <1>2, <2>1 DEF ObserverInv, Seen
  <2>2. (\A q \in Scraper : scan'[q].pc # "query") => overdue' = {} /\ waiting' = {}
    BY <1>1, <1>2 DEF ObserverInv, Seen
  <2>3. QED BY <2>1, <2>2 DEF Seen, Overdue, Waiting
<1>4. QED BY <1>1, <1>3 DEF ObserverInv, Placed

LEMMA ScrapeKeeps == ASSUME ObserverInv, NEW q \in Scraper, Scrape(q) PROVE ObserverInv'
<1> USE DEF ObserverInv
<1>1. \A p \in Scraper : scan[p].pc = "ended"
  BY DEF Scrape, Placed
<1>2. /\ DOMAIN scan' = Scraper /\ scan'[q].pc = "begin"
      /\ \A p \in Scraper : p # q => scan'[p] = scan[p]
  BY DEF Scrape, Goto, NoScan
<1>3. slot' = TRUE /\ overdue' = {} /\ waiting' = {} /\ missed' = {}
  BY <1>1 DEF Scrape, Seen
<1>4. \A p \in Scraper : scan'[p].pc # "query"
  BY <1>1, <1>2
<1>5. Placed'
  BY <1>1, <1>2, <1>3 DEF Placed
<1>6. QED BY <1>2, <1>3, <1>4, <1>5 DEF Seen

LEMMA BeginKeeps == ASSUME ObserverInv, NEW q \in Scraper, Begin(q) PROVE ObserverInv'
<1> USE DEF ObserverInv
<1>1. scan[q].pc = "begin" /\ slot = TRUE /\ \A p \in Scraper \ {q} : scan[p].pc = "ended"
  BY DEF Begin, Placed
<1>2. /\ DOMAIN scan' = Scraper /\ scan'[q].pc = "query" /\ scan'[q].tables = Tables
      /\ \A p \in Scraper : p # q => scan'[p] = scan[p]
  BY DEF Begin, NoScan
<1>3. slot' = TRUE /\ missed' = {}
  BY <1>1 DEF Begin
<1>4. Placed'
  BY <1>1, <1>2, <1>3 DEF Placed
<1>5. overdue' = Overdue(Tables)
  BY DEF Begin, Overdue
<1>6. waiting' \subseteq Waiting(Tables)
  <2>1. ASSUME NEW m \in Observed, Claimable(m), m \notin inbox, ~ActiveExecution(m)
        PROVE  m \in Waiting(Tables)
    <3>1. m \notin LiveIn(Tables)
      BY <2>1 DEF LiveIn, LeaseLive, Tables, ActiveExecution
    <3>2. Publishable(Tables, LiveIn(Tables), m)
      BY <2>1, <3>1 DEF Publishable, Claimable, Unsent, Unpublished, NotBeforeDue, DeadLettered, Done, Dead, Tables
    <3>3. QED BY <3>2 DEF Waiting
  <2>2. QED BY <2>1 DEF Begin
<1>7. Seen'
  BY <1>1, <1>2, <1>5, <1>6 DEF Seen, Overdue, Waiting
<1>8. QED BY <1>2, <1>3, <1>4, <1>7

(* A collection that answers or fails leaves nobody collecting.            *)
LEMMA Over ==
    ASSUME ObserverInv, NEW q \in Scraper, Collecting(q), Goto(q, "ended"),
           slot' = FALSE, overdue' = {}, waiting' = {}
    PROVE  DOMAIN scan' = Scraper /\ Placed' /\ Seen'
<1>1. \A p \in Scraper \ {q} : scan[p].pc = "ended"
  BY DEF ObserverInv, Placed, Collecting
<1>2. /\ DOMAIN scan' = Scraper /\ scan'[q].pc = "ended"
      /\ \A p \in Scraper : p # q => scan'[p] = scan[p]
  BY DEF ObserverInv, Goto, NoScan
<1>3. \A p \in Scraper : scan'[p].pc = "ended"
  BY <1>1, <1>2
<1>4. QED BY <1>2, <1>3 DEF Placed, Seen

LEMMA QueryKeeps == ASSUME ObserverInv, NEW q \in Scraper, Query(q) PROVE ObserverInv'
<1>1. overdue \subseteq Overdue(scan[q].tables) /\ waiting \subseteq Waiting(scan[q].tables)
  BY DEF ObserverInv, Seen, Query
<1>2. missed' = {}
  <2> DEFINE t == scan[q].tables
  <2>1. PICK lapsed \in SUBSET LiveIn(t) :
          missed' = (overdue \ Gauges(t, LiveIn(t) \ lapsed).candidates)
                       \cup (waiting \ Gauges(t, LiveIn(t) \ lapsed).publishable)
    BY DEF Query
  <2>2. /\ Overdue(t) \subseteq Gauges(t, LiveIn(t) \ lapsed).candidates
        /\ Waiting(t) \subseteq Gauges(t, LiveIn(t) \ lapsed).publishable
    BY Named
  <2>3. QED BY <1>1, <2>1, <2>2
<1>3. Collecting(q)
  BY DEF Query, Collecting
<1>4. QED BY <1>2, <1>3, Over DEF Query, ObserverInv

LEMMA FailKeeps == ASSUME ObserverInv, NEW q \in Scraper, Fail(q) PROVE ObserverInv'
BY Over DEF Fail, ObserverInv

LEMMA ObserverStep == ObserverInv /\ [ObserveNext]_allVars => ObserverInv'
<1> SUFFICES ASSUME ObserverInv, [ObserveNext]_allVars PROVE ObserverInv'
  OBVIOUS
<1>1. CASE Deliver
  BY <1>1, DeliverKeeps
<1>2. ASSUME NEW q \in Scraper, Scrape(q) PROVE ObserverInv'
  BY <1>2, ScrapeKeeps
<1>3. ASSUME NEW q \in Scraper, Begin(q) PROVE ObserverInv'
  BY <1>3, BeginKeeps
<1>4. ASSUME NEW q \in Scraper, Query(q) PROVE ObserverInv'
  BY <1>4, QueryKeeps
<1>5. ASSUME NEW q \in Scraper, Fail(q) PROVE ObserverInv'
  BY <1>5, FailKeeps
<1>6. CASE UNCHANGED allVars
  BY <1>6 DEF allVars, observerVars, ObserverInv, Placed, Seen, Overdue, Waiting
<1>7. QED BY <1>1, <1>2, <1>3, <1>4, <1>5, <1>6 DEF ObserveNext

-----------------------------------------------------------------------------
LEMMA ObserverTyped == ObserverInv => ObserverTypeOK
<1> SUFFICES ASSUME ObserverInv PROVE ObserverTypeOK
  OBVIOUS
<1>1. slot \in BOOLEAN
  BY DEF ObserverInv, Placed
<1>2. \A q \in Scraper : scan[q].pc \in {"ended", "begin", "query"}
  BY DEF ObserverInv, Placed
<1>3. overdue \cup waiting # {} => \E q \in Scraper : scan[q].pc = "query"
  BY DEF ObserverInv, Seen
<1>4. QED BY <1>1, <1>2, <1>3 DEF ObserverTypeOK

LEMMA OneCollects == ObserverInv => OneScan
<1> SUFFICES ASSUME ObserverInv PROVE OneScan
  OBVIOUS
<1> DEFINE C == {q \in Scraper : Collecting(q)}
<1>1. CASE slot = FALSE
  <2>1. C = {}
    BY <1>1 DEF ObserverInv, Placed, Collecting
  <2>2. Cardinality(C) = 0
    BY <2>1, FS_EmptySet
  <2>3. QED BY <1>1, <2>2 DEF OneScan
<1>2. CASE slot = TRUE
  <2>1. PICK q \in Scraper : scan[q].pc \in {"begin", "query"} /\ \A p \in Scraper \ {q} : scan[p].pc = "ended"
    BY <1>2 DEF ObserverInv, Placed
  <2>2. C = {q}
    BY <2>1 DEF Collecting
  <2>3. Cardinality(C) = 1
    BY <2>2, FS_Singleton
  <2>4. QED BY <1>2, <2>3 DEF OneScan
<1>3. QED BY <1>1, <1>2 DEF ObserverInv, Placed

(* delivery_metrics, collect_delivery_snapshot: one collection at a time,  *)
(* its place given back however it ends; gauges that name exactly what the *)
(* pump and the reconciler would take of the rows nobody locks; and no     *)
(* answer that leaves out a message which was overdue, or waited for a     *)
(* publisher, from the snapshot to the answer, whatever the runtime does   *)
(* and whichever leases lapse in between.                                  *)
THEOREM GaugesKept == ObserveSpec => []GaugesRight
<1>1. ObserverInv => GaugesRight
  BY ObserverTyped, OneCollects, Agreement DEF GaugesRight, MissesNothing, ObserverInv
<1>2. QED BY ObserverStart, ObserverStep, <1>1, PTL DEF ObserveSpec
==============================================================================
