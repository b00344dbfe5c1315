--------------------------- MODULE IngestionBinding ---------------------------
(***************************************************************************)
(* Which provider dataset an ingestion job may write to: the binding that  *)
(* is copied into the job when it is accepted, checked by the worker that  *)
(* executes it, looked up page by page at the provider and recorded in the *)
(* journal of provider operations (ingestion_authorization.py,             *)
(* RAGFlowClient.find_datasets, provider_delivery.dataset).                *)
(*                                                                         *)
(* The API and the worker are deployed one after the other, so they may    *)
(* run with different settings.  All jobs name the same dataset key: they  *)
(* share one journal row.                                                  *)
(***************************************************************************)
EXTENDS Naturals, Sequences, FiniteSets, SequencesExt

CONSTANTS Jobs,
          Configs,     \* settings: [id, name, endpoint] bound to the key
          Initial,     \* the provider's datasets, oldest first: sequences of [id, name]
          Names,       \* names of new datasets
          Tenants,
          PageSize,    \* 100 in the code
          MaxPages,    \* 100 in the code
          MaxDeploys, MaxCreated, MaxDeleted, MaxRuns, MaxUpdates,   \* bounds
          Unset

(* The journal row of the dataset, once it is there. *)
OpRow == [scope : [endpoint : {c.endpoint : c \in Configs}, tenant : Tenants],
          receipt : {c.id : c \in Configs} \cup {Unset}]

(* What the provider lists. *)
Listed == [id : Nat, name : STRING]

ASSUME BindingAssumption ==
  /\ Unset \notin OpRow /\ MaxPages \in Nat \ {0} /\ PageSize \in Nat \ {0}
  /\ Initial \subseteq Seq(Listed) /\ Names \subseteq STRING

VARIABLES settings,    \* of "api" and of "worker"
          history,     \* status_history of every job: entries [status, snapshot]
          target,      \* dataset a job's upload goes to, or Unset
          op,          \* journal row of the dataset: [scope, receipt], or Unset
          tenant,      \* tenant of the provider's key
          datasets,    \* the provider's datasets, oldest first
          run,         \* the worker's execution: [job, pc, scope, page, seen, matches];
                       \* a match is a place in the listing and the id found there
          throughout,  \* ghost: ids of the datasets of that name since the lookup began
          deploys, created, deleted, runs, updates

count == <<deploys, created, deleted, runs, updates>>
bindingVars == <<settings, history, target, op, tenant, datasets, run, throughout, count>>

NoRun == [job |-> Unset, pc |-> "idle", scope |-> Unset, page |-> 0, seen |-> 0, matches |-> {}]
Ids == ToSet([i \in DOMAIN datasets |-> datasets[i].id])

BindingInit == /\ \E c \in Configs : settings = [p \in {"api", "worker"} |-> c]
               /\ history = [j \in Jobs |-> <<>>] /\ target = [j \in Jobs |-> Unset] /\ op = Unset
               /\ tenant \in Tenants /\ datasets \in Initial /\ run = NoRun /\ throughout = {}
               /\ deploys = 0 /\ created = 0 /\ deleted = 0 /\ runs = 0 /\ updates = 0

\* submit_ingestion: binding_snapshot goes into the first history entry.
Submit(j) ==
  /\ history[j] = <<>>
  /\ history' = [history EXCEPT ![j] = <<[status |-> "accepted", snapshot |-> settings["api"]]>>]
  /\ UNCHANGED <<settings, target, op, tenant, datasets, run, throughout, count>>

\* update_ingestion_status appends what the administrator sends.
AdminUpdate(j) ==
  /\ history[j] # <<>> /\ updates < MaxUpdates
  /\ \E c \in Configs : history' = [history EXCEPT ![j] = Append(@, [status |-> "accepted", snapshot |-> c])]
  /\ updates' = updates + 1
  /\ UNCHANGED <<settings, target, op, tenant, datasets, run, throughout, deploys, created, deleted, runs>>

\* A process starts again with other settings; the worker's execution ends.
Deploy(p) ==
  /\ deploys < MaxDeploys
  /\ \E c \in Configs : settings' = [settings EXCEPT ![p] = c]
  /\ run' = IF p = "worker" THEN NoRun ELSE run
  /\ deploys' = deploys + 1
  /\ UNCHANGED <<history, target, op, tenant, datasets, throughout, created, deleted, runs, updates>>

-----------------------------------------------------------------------------
Trusted(j) == history[j][1]
Latest(j) == Last(history[j])                                        \* mutant of First
First(j) == history[j][1]
Goto(pc) == run' = [run EXCEPT !.pc = pc]

\* require_job_binding
BindingHolds(j) == First(j).status = "accepted" /\ First(j).snapshot = settings["worker"]

Begin(j) ==
  /\ run.pc = "idle" /\ history[j] # <<>> /\ target[j] = Unset /\ runs < MaxRuns
  /\ run' = IF BindingHolds(j) THEN [NoRun EXCEPT !.job = j, !.pc = "scope"] ELSE NoRun
  /\ runs' = runs + 1
  /\ UNCHANGED <<settings, history, target, op, tenant, datasets, throughout,
                 deploys, created, deleted, updates>>

\* A request fails, or its answer is refused: the execution ends.
Fail ==
  /\ run.pc \in {"scope", "page"} /\ run' = NoRun
  /\ UNCHANGED <<settings, history, target, op, tenant, datasets, throughout, count>>

IgnoresTenant(scope) == op # Unset /\ op.scope.endpoint # scope.endpoint   \* mutant of Conflicts
Conflicts(scope) == op # Unset /\ op.scope # scope

\* scope: endpoint and tenant; operation: the journal row, or its conflict.
Scope ==
  /\ run.pc = "scope"
  /\ LET scope == [endpoint |-> settings["worker"].endpoint, tenant |-> tenant]
     IN IF Conflicts(scope)
        THEN run' = NoRun /\ UNCHANGED <<op, throughout>>
        ELSE /\ op' = IF op = Unset THEN [scope |-> scope, receipt |-> Unset] ELSE op
             /\ run' = [run EXCEPT !.pc = "page", !.scope = scope, !.page = 1]
             /\ throughout' = {i \in Ids : [id |-> i, name |-> settings["worker"].name] \in ToSet(datasets)}
  /\ UNCHANGED <<settings, history, target, tenant, datasets, count>>

Before(n) == (n - 1) * PageSize
Items(n) == LET end == Before(n) + PageSize
            IN SubSeq(datasets, Before(n) + 1, IF end > Len(datasets) THEN Len(datasets) ELSE end)

\* What this page adds to the matches: one for each place, even of one dataset.
Matching(items, name) ==
  {[at |-> Before(run.page) + i, id |-> items[i].id] : i \in {k \in DOMAIN items : items[k].name = name}}

FirstPage(seen) == TRUE                                              \* mutant of Complete
Complete(seen) == seen >= Len(datasets)

\* One page of find_datasets.
Page ==
  /\ run.pc = "page"
  /\ LET items == Items(run.page)
         seen == run.seen + Len(items)
         found == run.matches \cup Matching(items, settings["worker"].name)
     IN CASE Complete(seen) -> run' = [run EXCEPT !.pc = "conclude", !.matches = found]
          [] ~Complete(seen) /\ items # <<>> /\ run.page < MaxPages ->
               run' = [run EXCEPT !.page = @ + 1, !.seen = seen, !.matches = found]
          [] OTHER -> run' = NoRun
  /\ UNCHANGED <<settings, history, target, op, tenant, datasets, throughout, count>>

\* confirm: a confirmed row keeps its receipt.
Overwrites(id) == TRUE                                               \* mutant of Confirmable
Confirmable(id) == op.receipt \in {Unset, id}

IdentifiedDataset(ms) == \E m \in ms : ms = {m} /\ m.id = settings["worker"].id

Conclude ==
  /\ run.pc = "conclude"
  /\ LET id == settings["worker"].id IN
     IF IdentifiedDataset(run.matches) /\ Confirmable(id)
     THEN /\ op' = [op EXCEPT !.receipt = id]
          /\ target' = [target EXCEPT ![run.job] = [dataset |-> id, scope |-> run.scope]]
     ELSE UNCHANGED <<op, target>>
  /\ run' = NoRun
  /\ UNCHANGED <<settings, history, tenant, datasets, throughout, count>>

-----------------------------------------------------------------------------
\* Others at the provider: a new dataset is the youngest, a deleted one closes up.
Create ==
  /\ created < MaxCreated
  /\ \E name \in Names :
       datasets' = Append(datasets, [id |-> 10 + created, name |-> name])
  /\ created' = created + 1
  /\ UNCHANGED <<settings, history, target, op, tenant, run, throughout, deploys, deleted, runs, updates>>

Delete ==
  /\ deleted < MaxDeleted
  /\ \E i \in DOMAIN datasets :
       /\ datasets' = RemoveAt(datasets, i) /\ throughout' = throughout \ {datasets[i].id}
  /\ deleted' = deleted + 1
  /\ UNCHANGED <<settings, history, target, op, tenant, run, deploys, created, runs, updates>>

\* The key of the endpoint is replaced by one of another tenant.
OtherTenant ==
  /\ run.pc = "idle" /\ deploys < MaxDeploys
  /\ tenant' \in Tenants /\ deploys' = deploys + 1
  /\ UNCHANGED <<settings, history, target, op, datasets, run, throughout, created, deleted, runs, updates>>

BindingNext == \/ \E j \in Jobs : Submit(j) \/ AdminUpdate(j) \/ Begin(j)
               \/ \E p \in {"api", "worker"} : Deploy(p)
               \/ Fail \/ Scope \/ Page \/ Conclude \/ Create \/ Delete \/ OtherTenant
BindingSpec == BindingInit /\ [][BindingNext]_bindingVars

-----------------------------------------------------------------------------
BindingTypeOK == /\ run.pc \in {"idle", "scope", "page", "conclude"}
                 /\ run.page \in 0..MaxPages
                 /\ \A j \in Jobs : target[j] # Unset => op # Unset /\ target[j].scope = op.scope

\* require_job_binding, dataset: whatever is deployed, appended to the job's history
\* or created under the same name at the provider, a job writes to the dataset and
\* the endpoint it was accepted for.
BoundAsAccepted == \A j \in Jobs : target[j] # Unset =>
  /\ target[j].dataset = Trusted(j).snapshot.id
  /\ target[j].scope.endpoint = Trusted(j).snapshot.endpoint

\* confirm: the jobs of a dataset key share one receipt, and once it is confirmed
\* no later job, setting or lookup replaces it.
ReceiptKept ==
  [][op # Unset /\ op.receipt # Unset => op'.receipt = op.receipt /\ op'.scope = op.scope]_bindingVars

\* find_datasets: a lookup that returns has seen every dataset of the name, however
\* many pages it takes and whatever is created meanwhile, if nothing is deleted.
NoneHidden == run.pc = "conclude" /\ deleted = 0 =>
  throughout \subseteq {m.id : m \in run.matches}

\* What holds of the targets of jobs at every moment: they are of the journal's scope
\* and of the dataset the job was accepted for, and no lookup leaves a dataset out.
BindingRight == BindingTypeOK /\ BoundAsAccepted /\ NoneHidden
=============================================================================
