------------------------------ MODULE MCProgress ------------------------------
(***************************************************************************)
(* Four parts of the service that must come to an end of what they do: the *)
(* dataset files, the DuckDB cache built from one, a browser on a run's    *)
(* event stream, and the readiness probe.  They share nothing.  A          *)
(* behaviour is one of part's; the other parts rest at a state in which    *)
(* their fairness asks for nothing.                                        *)
(***************************************************************************)
EXTENDS DatasetFiles, SemanticCache, WebInteraction, WorkerReadiness, TLC

CONSTANTS t1, t2, p1, p2, c1, c2, c3

VARIABLE part

allVars == <<part, filesVars, semanticVars, webVars, probeVars>>

(* DatasetFiles: one fetcher with every mishap, two that share a registered *)
(* file, two behind the lock of the default dataset, nobody.                *)
Mishaps(d, k, c, h) == [download |-> d, disk |-> k, crash |-> c, damage |-> h]
UseTable == {[registered |-> TRUE, fetchers |-> {t1}, limit |-> Mishaps(2, 1, 2, 2)],
             [registered |-> TRUE, fetchers |-> {t1, t2}, limit |-> Mishaps(1, 1, 1, 1)],
             [registered |-> FALSE, fetchers |-> {t1, t2}, limit |-> Mishaps(2, 1, 2, 1)],
             [registered |-> TRUE, fetchers |-> {}, limit |-> Mishaps(0, 0, 0, 0)]}
FilesRest == FilesInit /\ use.fetchers = {}

(* SemanticCache: datasets of two tables, two of them of the same row       *)
(* counts.  One replacement of the file: a pinned file is replaced by a     *)
(* restart at most.                                                         *)
RowTable == c1 :> 1 @@ c2 :> 1 @@ c3 :> 2
SemanticMishapTable == [change |-> 1, crash |-> 1, damage |-> 2]
SemanticRest == /\ source = c1 /\ db = [c \in Contents |-> <<c, c>>]
                /\ stage = [p \in Processes |-> "serving"]
                /\ desc = [p \in Processes |-> c1] /\ name = desc /\ input = desc
                /\ copied = [p \in Processes |-> <<>>] /\ served = [p \in Processes |-> <<c1, c1>>]
                /\ overtaken = {} /\ mislabelled = {}
                /\ semanticSpent = [k \in SemanticMishaps |-> 0]

(* WebInteraction: a browser user, an administrator, another application's. *)
Who(s, a, k) == [surface |-> s, app |-> a, actor |-> k]
Askers == {Who("web", "own", "user"), Who("admin", "own", "user"), Who("web", "other", "user")}
WebRest == principal = Who("web", "own", "user") /\ WebInit

(* WorkerReadiness: the configured queue alone, beside another, a transient *)
(* one of the same name, none.                                              *)
Q(n, f) == [name |-> n, exchange |-> n, flags |-> f]
QueueTables == {{}, {Q("q", "durable_direct")}, {Q("q", "transient")},
                {Q("q", "durable_direct"), Q("old", "durable_direct")}, {Q("default", "durable_direct")}}
Found == {[queue |-> "q", env |-> "old", default |-> None], [queue |-> None, env |-> None, default |-> None],
          [queue |-> None, env |-> "q", default |-> "old"]}
Images == {{"ping"}, {"ping", "ingest", "backend_cleanup"}}
ProbeRest == settings = [queue |-> None, env |-> None, default |-> None] /\ ProbeInit

Init == \/ part = "files" /\ FilesInit /\ SemanticRest /\ WebRest /\ ProbeRest
        \/ part = "semantic" /\ FilesRest /\ SemanticInit /\ WebRest /\ ProbeRest
        \/ part = "web" /\ FilesRest /\ SemanticRest /\ WebInit /\ ProbeRest
        \/ part = "probe" /\ FilesRest /\ SemanticRest /\ WebRest /\ ProbeInit

Next == \/ part = "files" /\ FilesNext /\ UNCHANGED <<part, semanticVars, webVars, probeVars>>
        \/ part = "semantic" /\ SemanticNext /\ UNCHANGED <<part, filesVars, webVars, probeVars>>
        \/ part = "web" /\ WebNext /\ UNCHANGED <<part, filesVars, semanticVars, probeVars>>
        \/ part = "probe" /\ ProbeNext /\ UNCHANGED <<part, filesVars, semanticVars, webVars>>

Spec == /\ Init /\ [][Next]_allVars
        /\ FilesFairness /\ SemanticFairness /\ WebFairness /\ ProbeFairness
=============================================================================
