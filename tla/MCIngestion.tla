----------------------------- MODULE MCIngestion -----------------------------
(***************************************************************************)
(* Jobs of one source version under three bounds: one job and two workers  *)
(* with many faults; one job and two workers while an administrator fails  *)
(* the job and it is retried; two jobs and one worker.  Whoever is away    *)
(* does nothing throughout a behaviour.                                    *)
(***************************************************************************)
EXTENDS KnowledgeIngestion, TLC

CONSTANTS j1, j2, i1, w1, w2

VARIABLES part, away

SameSource == [j \in Job |-> i1]

Absent == /\ \A j \in Job \cap away : job[j].status = "absent"
          /\ \A w \in Worker \cap away : worker[w] = Idle
Unretried == admin = 0 /\ \A j \in Job : job[j].generation = 0
Bound == CASE part = "faults"  -> Unretried
           [] part = "retries" -> faults <= 1
           [] part = "shared"  -> Unretried /\ faults <= 2

PartsInit == /\ Init
             /\ \/ part \in {"faults", "retries"} /\ away \in {{j} : j \in Job}
                \/ part = "shared" /\ away \in {{w} : w \in Worker}
PartsNext == Next /\ UNCHANGED <<part, away>> /\ Absent' /\ Bound'
PartsSpec == PartsInit /\ [][PartsNext]_<<vars, part, away>>

Symmetry == Permutations(Job) \cup Permutations(Worker)
=============================================================================
