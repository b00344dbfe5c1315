---------------------------- MODULE WorkerReadiness ----------------------------
(***************************************************************************)
(* The readiness probe of a Celery worker (cli/worker_readiness.py): a     *)
(* child process asks the node which queues it consumes and then which     *)
(* tasks it has registered, and the parent kills the child when it takes   *)
(* too long.  The two answers are two looks at a worker that may start,    *)
(* stop, lose a consumer or hang between them, and another worker may go   *)
(* by the same node name.  A broadcast to one destination ends with the    *)
(* first reply; the broker may keep the child waiting.                     *)
(***************************************************************************)
EXTENDS Naturals, FiniteSets

CONSTANTS Workers,      \* processes that answer to the node name
          Settings,     \* what configure_celery may find: [queue, env, default]
          Consumed,     \* sets of queues a worker may consume: [name, exchange, flags]
          Required,     \* names of the image's app.tasks.*
          TaskSets,   \* sets of tasks a worker may have registered
          Budget,       \* PROBE_TIMEOUT_SECONDS
          ReplyTimeout, \* REPLY_TIMEOUT_SECONDS
          MaxChanges,   \* changes to the workers (bound)
          None

ASSUME ProbeAssumption == Budget \in Nat \ {0} /\ ReplyTimeout \in Nat \ {0}

VARIABLES settings,
          worker,       \* [up, hangs, queues, tasks] of every worker
          probe,        \* [pc, reply, asked]
          elapsed,      \* of the probe
          result,       \* "none", "ready", "not_ready"
          changes,
          consumed, registered, right   \* ghosts of the probe: see Watch

probeVars == <<settings, worker, probe, elapsed, result, changes, consumed, registered, right>>

\* configure_celery: the first of three names that is set, or "default".
Queue == IF settings.queue # None THEN settings.queue
         ELSE IF settings.env # None THEN settings.env
         ELSE IF settings.default # None THEN settings.default ELSE "default"
Configured == [name |-> Queue, exchange |-> Queue, flags |-> "durable_direct"]

Down == [up |-> FALSE, hangs |-> FALSE, queues |-> {}, tasks |-> {}]
NoProbe == [pc |-> "idle", reply |-> None, asked |-> 0]

Exactly(w) == worker[w].up /\ worker[w].queues = {Configured}
HasTasks(w) == worker[w].up /\ Required \subseteq worker[w].tasks
Answers(w) == worker[w].up /\ ~worker[w].hangs

\* Since the probe began: was there a moment with exactly the queue, one with every
\* task, and has every worker been right and answered all along?
Watch == /\ consumed' = (consumed \/ \E w \in Workers : Exactly(w)')
         /\ registered' = (registered \/ \E w \in Workers : HasTasks(w)')
         /\ right' = (right /\ \A w \in Workers : (Exactly(w) /\ HasTasks(w) /\ Answers(w))')

ProbeInit == /\ settings \in Settings /\ worker = [w \in Workers |-> Down]
             /\ probe = NoProbe /\ elapsed = 0 /\ result = "none" /\ changes = 0
             /\ consumed = FALSE /\ registered = FALSE /\ right = FALSE

\* A worker starts, is given or loses a consumer, hangs, comes back or goes.
ChangeWorker(w) ==
  /\ changes < MaxChanges
  /\ \E up, hangs \in BOOLEAN, qs \in Consumed, ts \in TaskSets :
       /\ worker' = [worker EXCEPT ![w] =
            IF up THEN [up |-> TRUE, hangs |-> hangs, tasks |-> IF @.up THEN @.tasks ELSE ts,
                        queues |-> qs]
                  ELSE Down]
       /\ worker'[w] # worker[w]
  /\ changes' = changes + 1
  /\ UNCHANGED <<settings, probe, elapsed, result>>
  /\ Watch

-----------------------------------------------------------------------------
Start ==
  /\ probe.pc = "idle"
  /\ probe' = [pc |-> "connect", reply |-> None, asked |-> 0] /\ elapsed' = 0 /\ result' = "none"
  /\ consumed' = \E w \in Workers : Exactly(w)
  /\ registered' = \E w \in Workers : HasTasks(w)
  /\ right' = \A w \in Workers : Exactly(w) /\ HasTasks(w) /\ Answers(w)
  /\ UNCHANGED <<settings, worker, changes>>

\* The broker lets the child in, or it fails; control.broadcast goes out.
Ask(pc, next) ==
  /\ probe.pc = pc
  /\ probe' = [pc |-> next, reply |-> None, asked |-> elapsed]
  /\ UNCHANGED <<settings, worker, elapsed, result, changes, consumed, registered, right>>

EndProbe(verdict) == /\ probe' = NoProbe /\ result' = verdict /\ elapsed' = 0
                     /\ UNCHANGED <<settings, worker, changes, consumed, registered, right>>

BrokerFails == probe.pc # "idle" /\ right' = FALSE /\ probe' = NoProbe /\ result' = "not_ready" /\ elapsed' = 0
               /\ UNCHANGED <<settings, worker, changes, consumed, registered>>

\* The first reply to arrive is what broadcast returns.
Reply(w) ==
  /\ probe.pc \in {"queues", "tasks"} /\ Answers(w) /\ elapsed - probe.asked < ReplyTimeout
  /\ probe' = [probe EXCEPT !.reply = IF probe.pc = "queues" THEN worker[w].queues ELSE worker[w].tasks,
                            !.pc = IF probe.pc = "queues" THEN "judge_queues" ELSE "judge_tasks"]
  /\ UNCHANGED <<settings, worker, elapsed, result, changes, consumed, registered, right>>

Silence ==                              \* replies = []: not one reply
  /\ probe.pc \in {"queues", "tasks"} /\ elapsed - probe.asked >= ReplyTimeout
  /\ EndProbe("not_ready")

AmongOthers(qs) == Configured \in qs                                 \* mutants
NothingElse(ts) == ts = Required
QueuesRight(qs) == qs = {Configured}
TasksRight(ts) == Required \subseteq ts

JudgeQueues ==
  /\ probe.pc = "judge_queues"
  /\ IF QueuesRight(probe.reply) THEN Ask("judge_queues", "tasks") ELSE EndProbe("not_ready")

JudgeTasks ==
  /\ probe.pc = "judge_tasks"
  /\ EndProbe(IF TasksRight(probe.reply) THEN "ready" ELSE "not_ready")

\* Time passes; when the budget is used up the parent kills the child.
OverdueLate == elapsed > Budget                                      \* mutant of Overdue
Overdue == elapsed >= Budget

ProbeTick ==
  /\ probe.pc # "idle" /\ ~Overdue /\ elapsed' = elapsed + 1
  /\ probe.pc \in {"queues", "tasks"} => elapsed - probe.asked < ReplyTimeout
  /\ right' = FALSE                     \* somebody was slow
  /\ UNCHANGED <<settings, worker, probe, result, changes, consumed, registered>>

KillWaiting ==                                                       \* mutant of Kill
  probe.pc \in {"queues", "tasks"} /\ Overdue /\ EndProbe("not_ready")
Kill == probe.pc # "idle" /\ Overdue /\ EndProbe("not_ready")

Probe == \/ Start \/ Ask("connect", "queues") \/ BrokerFails \/ Silence
         \/ JudgeQueues \/ JudgeTasks \/ ProbeTick \/ Kill
ProbeNext == Probe \/ \E w \in Workers : Reply(w) \/ ChangeWorker(w)
ProbeSpec == ProbeInit /\ [][ProbeNext]_probeVars

\* Time passes and the parent kills; nothing is asked of the broker or the worker.
ProbeFairness == /\ WF_probeVars(ProbeTick) /\ WF_probeVars(Kill) /\ WF_probeVars(Silence)
                 /\ WF_probeVars(JudgeQueues) /\ WF_probeVars(JudgeTasks)

-----------------------------------------------------------------------------
ProbeTypeOK == /\ elapsed \in 0..Budget
               /\ probe.pc \in {"idle", "connect", "queues", "judge_queues", "tasks", "judge_tasks"}
               /\ result \in {"none", "ready", "not_ready"}

\* check_worker: "ready" says that since the probe began there was a moment at which
\* a worker of that name consumed exactly the configured durable queue, and one at
\* which one had every task of the image: no answer of an earlier probe is used.
ReadyWasTrue == result = "ready" => consumed /\ registered

\* A worker that is right and answers at once throughout the probe is not reported
\* unready.
NoFalseAlarm == result = "not_ready" => ~right

\* main: whatever the broker or the worker do, the probe ends.
Ends == (probe.pc # "idle") ~> (probe.pc = "idle")

\* What the probe says is true either way.
ProbeRight == ProbeTypeOK /\ ReadyWasTrue /\ NoFalseAlarm
=============================================================================
