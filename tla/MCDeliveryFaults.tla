-------------------------- MODULE MCDeliveryFaults --------------------------
(***************************************************************************)
(* One message, two pumps and two workers, of which one is away throughout *)
(* a behaviour: two workers contend under one pump, two pumps under one    *)
(* worker.  Faults, replays and the clock are bounded for each case.       *)
(***************************************************************************)
EXTENDS DurableTasks, TLC

CONSTANTS m1, p1, p2, w1, w2, r1

VARIABLE away    \* the process that never runs

OneResource == [m \in Msg |-> r1]
AnySchedule == {NegInf, Future}

Absent == /\ \A p \in Pub \cap away : pub[p].pc = "idle"
          /\ \A w \in Worker \cap away : worker[w].pc = "idle"
TwoWorkers == away \subseteq Pub => replays = 0
TwoPumps == away \subseteq Worker => faults <= 1

FaultsInit == Init /\ away \in {{x} : x \in Pub \cup Worker}
FaultsNext == Next /\ UNCHANGED away /\ Absent' /\ TwoWorkers' /\ TwoPumps'
FaultsSpec == FaultsInit /\ [][FaultsNext]_<<vars, away>>

Symmetry == Permutations(Pub) \cup Permutations(Worker)
=============================================================================
