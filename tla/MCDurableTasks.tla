--------------------------- MODULE MCDurableTasks ---------------------------
(* Instances of DurableTasks for TLC. *)
EXTENDS DurableTasks, TLC

CONSTANTS m1, m2, p1, p2, w1, w2, r1

(* Every message is serialized on the same resource. *)
OneResource == [m \in Msg |-> r1]

Immediate == {NegInf}
AnySchedule == {NegInf, Future}

Symmetry ==
    Permutations(Msg) \cup Permutations(Pub) \cup Permutations(Worker)
=============================================================================
