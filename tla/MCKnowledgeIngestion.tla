------------------------ MODULE MCKnowledgeIngestion ------------------------
(* Instances of KnowledgeIngestion for TLC. *)
EXTENDS KnowledgeIngestion, TLC

CONSTANTS j1, j2, i1, w1, w2

(* Every job ingests the same source version. *)
SameSource == [j \in Job |-> i1]

Symmetry == Permutations(Job) \cup Permutations(Worker)
=============================================================================
