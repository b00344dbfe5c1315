--------------------------- MODULE SchedulerActivity ---------------------------
(***************************************************************************)
(* The file by which Celery Beat shows that its loop runs, and the command *)
(* that reads it (infrastructure/messaging/scheduler_activity.py).         *)
(*                                                                         *)
(* Beat may be killed, stopped and continued, the machine suspended or     *)
(* booted again, process numbers are used again, writes fail; the reader   *)
(* reads the file first and looks at the process afterwards.  A process    *)
(* start is the number of processes started since the machine was booted.  *)
(***************************************************************************)
EXTENDS Integers

CONSTANTS Pids,
          MaxAge,      \* --max-age
          Interval,    \* WRITE_INTERVAL_SECONDS
          MaxClock, MaxStarts, MaxBoots, MaxSuspends, MaxTicks, MaxSends,   \* bounds
          None

\* /proc of a process; what tick writes into the file.
Process == [start : Nat, state : {"R", "T", "Z"}, beat : BOOLEAN]
Written == [pid : Pids, start : Nat, boot : Nat, at : Nat, ticks : Nat, returns : Nat, errors : Nat]

ASSUME ActivityAssumption == /\ MaxAge \in Nat /\ Interval \in Nat /\ MaxTicks \in Nat
                             /\ None \notin Pids \cup Int \cup Process \cup Written

VARIABLES boot,        \* boot id
          clock,       \* CLOCK_BOOTTIME
          asleep,      \* time the machine was suspended since it was booted
          starts,      \* processes started since then
          proc,        \* pid -> [start, state, beat] or None
          beat,        \* Beat's own state: [pid, pc, ticks, returns, errors, attempt, snapshot]
          file,        \* the activity file, or None
          reader,      \* [pc, snapshot, at]
          report,      \* the last answer of the command
          suspends,
          finished,    \* ghost: when Beat last came out of tick()
          disturbed    \* ghost: a fault that may keep the file old

activityVars == <<boot, clock, asleep, starts, proc, beat, file, reader, report, suspends, finished, disturbed>>

NoBeat == [pid |-> None, pc |-> "gone", ticks |-> 0, returns |-> 0, errors |-> 0,
           attempt |-> None, snapshot |-> None]
NoReader == [pc |-> "idle", snapshot |-> None, at |-> 0]
NoReport == [kind |-> "none"]

ActivityInit == /\ boot = 0 /\ clock = 0 /\ asleep = 0 /\ starts = 0
                /\ proc = [p \in Pids |-> None] /\ beat = NoBeat /\ file = None
                /\ reader = NoReader /\ report = NoReport
                /\ suspends = 0 /\ finished = None /\ disturbed = FALSE

Machine == <<boot, clock, asleep, suspends>>
Watching == <<reader, report>>
Monotonic == clock - asleep
Runs == beat.pid # None /\ proc[beat.pid].state = "R"

-----------------------------------------------------------------------------
\* Beat starts (ObservedScheduler.__init__), or another process takes the number.
Start(p) ==
  /\ proc[p] = None /\ starts < MaxStarts
  /\ starts' = starts + 1
  /\ \E isBeat \in BOOLEAN :
       /\ isBeat => beat.pid = None
       /\ proc' = [proc EXCEPT ![p] = [start |-> starts, state |-> "R", beat |-> isBeat]]
       /\ IF isBeat THEN beat' = [NoBeat EXCEPT !.pid = p, !.pc = "loop"] /\ finished' = None
                    ELSE UNCHANGED <<beat, finished>>
  /\ UNCHANGED <<Machine, file, Watching, disturbed>>

\* super().tick sends what is due; apply_async counts how the sending ended.
Publish ==
  /\ Runs /\ beat.pc = "loop" /\ beat.returns + beat.errors < MaxSends
  /\ \E r \in {"returns", "errors"} : beat' = [beat EXCEPT ![r] = @ + 1]
  /\ UNCHANGED <<Machine, starts, proc, file, Watching, finished, disturbed>>

WrittenOnce == beat.attempt = None                                   \* mutant of Due
Due == beat.attempt = None \/ Monotonic - beat.attempt >= Interval

TickReturns ==
  /\ Runs /\ beat.pc = "loop" /\ beat.ticks < MaxTicks
  /\ IF Due
     THEN beat' = [beat EXCEPT !.pc = "stamp", !.ticks = @ + 1, !.attempt = Monotonic] /\ UNCHANGED finished
     ELSE beat' = [beat EXCEPT !.ticks = @ + 1] /\ finished' = clock
  /\ UNCHANGED <<Machine, starts, proc, file, Watching, disturbed>>

CountedLate ==                                                       \* mutant of Snapshot
  [pid |-> beat.pid, start |-> proc[beat.pid].start, boot |-> boot, at |-> clock,
   ticks |-> beat.ticks - 1, returns |-> beat.returns, errors |-> beat.errors]
Snapshot == [pid |-> beat.pid, start |-> proc[beat.pid].start, boot |-> boot, at |-> clock,
             ticks |-> beat.ticks, returns |-> beat.returns, errors |-> beat.errors]

\* The time is taken and the temporary file written; then it replaces the file.
Stamp ==
  /\ Runs /\ beat.pc = "stamp"
  /\ beat' = [beat EXCEPT !.pc = "replace", !.snapshot = Snapshot]
  /\ UNCHANGED <<Machine, starts, proc, file, Watching, finished, disturbed>>

ReplaceAndReset ==                                                   \* mutant of ReplaceFile
  /\ Runs /\ beat.pc = "replace"
  /\ file' = beat.snapshot
  /\ beat' = [beat EXCEPT !.pc = "loop", !.snapshot = None, !.returns = 0, !.errors = 0]
  /\ finished' = clock
  /\ UNCHANGED <<Machine, starts, proc, Watching, disturbed>>

ReplaceFile ==
  /\ Runs /\ beat.pc = "replace"
  /\ file' = beat.snapshot
  /\ beat' = [beat EXCEPT !.pc = "loop", !.snapshot = None] /\ finished' = clock
  /\ UNCHANGED <<Machine, starts, proc, Watching, disturbed>>

WriteFails ==
  /\ Runs /\ beat.pc \in {"stamp", "replace"}
  /\ beat' = [beat EXCEPT !.pc = "loop", !.snapshot = None] /\ finished' = clock
  /\ disturbed' = TRUE
  /\ UNCHANGED <<Machine, starts, proc, file, Watching>>

-----------------------------------------------------------------------------
\* Signals: stop, continue, kill; a killed process stays a zombie until it is reaped.
Signal(p, from, to) == proc[p] # None /\ proc[p].state = from /\ proc' = [proc EXCEPT ![p].state = to]

Stop(p) == /\ Signal(p, "R", "T") /\ disturbed' = TRUE
           /\ UNCHANGED <<Machine, starts, beat, file, Watching, finished>>
Continue(p) == /\ Signal(p, "T", "R")
               /\ UNCHANGED <<Machine, starts, beat, file, Watching, finished, disturbed>>
Kill(p) == /\ proc[p] # None /\ proc[p].state # "Z"
           /\ proc' = [proc EXCEPT ![p].state = "Z"] /\ disturbed' = TRUE
           /\ UNCHANGED <<Machine, starts, beat, file, Watching, finished>>
Reap(p) == /\ proc[p] # None /\ proc[p].state = "Z" /\ proc' = [proc EXCEPT ![p] = None]
           /\ beat' = IF beat.pid = p THEN NoBeat ELSE beat
           /\ UNCHANGED <<Machine, starts, file, Watching, finished, disturbed>>

Tick ==
  /\ clock < MaxClock /\ clock' = clock + 1
  /\ disturbed' = (disturbed \/ beat.pc \in {"stamp", "replace"})
  /\ UNCHANGED <<boot, asleep, suspends, starts, proc, beat, file, Watching, finished>>

Suspend ==
  /\ suspends < MaxSuspends /\ clock < MaxClock
  /\ clock' = clock + 1 /\ asleep' = asleep + 1 /\ suspends' = suspends + 1 /\ disturbed' = TRUE
  /\ UNCHANGED <<boot, starts, proc, beat, file, Watching, finished>>

Reboot ==
  /\ boot < MaxBoots /\ boot' = boot + 1
  /\ clock' = 0 /\ asleep' = 0 /\ starts' = 0 /\ proc' = [p \in Pids |-> None]
  /\ beat' = NoBeat /\ reader' = NoReader /\ report' = NoReport
  /\ finished' = None /\ disturbed' = TRUE
  /\ UNCHANGED <<file, suspends>>

-----------------------------------------------------------------------------
\* read_activity: the file, its age and its boot first.
Fresh(s) == clock - s.at \in 0..MaxAge /\ s.boot = boot

Read ==
  /\ reader.pc = "idle"
  /\ IF file # None /\ Fresh(file)
     THEN reader' = [pc |-> "check", snapshot |-> file, at |-> clock] /\ UNCHANGED report
     ELSE reader' = NoReader /\ report' = [kind |-> "unavailable"]
  /\ UNCHANGED <<Machine, starts, proc, beat, file, finished, disturbed>>

\* process_identity: state and start of the process of that number.
AnyProcess(s) == proc[s.pid] # None /\ proc[s.pid].state = "R"       \* mutant of Identified
Identified(s) == proc[s.pid] # None /\ proc[s.pid].state = "R" /\ proc[s.pid].start = s.start

CheckProcess ==
  /\ reader.pc = "check"
  /\ LET s == reader.snapshot
     IN report' = IF Identified(s) THEN [kind |-> "active", of |-> s, at |-> reader.at]
                                   ELSE [kind |-> "unavailable"]
  /\ reader' = NoReader
  /\ UNCHANGED <<Machine, starts, proc, beat, file, finished, disturbed>>

Beat == Publish \/ TickReturns \/ Stamp \/ ReplaceFile \/ WriteFails
ActivityNext == \/ \E p \in Pids : Start(p) \/ Stop(p) \/ Continue(p) \/ Kill(p) \/ Reap(p)
                \/ Beat \/ Tick \/ Suspend \/ Reboot \/ Read \/ CheckProcess
ActivitySpec == ActivityInit /\ [][ActivityNext]_activityVars

-----------------------------------------------------------------------------
ActivityTypeOK == /\ beat.pc \in {"gone", "loop", "stamp", "replace"}
                  /\ beat.pid # None => proc[beat.pid] # None /\ proc[beat.pid].beat
                  /\ file # None => file.ticks \in 1..MaxTicks
                  /\ beat.attempt # None => Monotonic >= beat.attempt

\* read_activity: when the command answers "active", the process is the very Beat
\* that wrote the file, it is there and not stopped, and it was in its loop at most
\* MaxAge before the file was read; no process number used again, no file left by an
\* earlier boot and no zombie passes for it.
ActiveIsAlive == [][report' # report /\ report'.kind = "active" =>
  LET s == report'.of
  IN /\ beat.pid = s.pid /\ proc[s.pid].start = s.start /\ proc[s.pid].state = "R"
     /\ beat.ticks >= s.ticks /\ s.boot = boot /\ report'.at - s.at \in 0..MaxAge]_activityVars

\* ObservedScheduler: two answers about one Beat never show its counters going back.
Incarnation(r) == <<r.of.boot, r.of.pid, r.of.start>>
CountersGrow == [][
  (report.kind = "active" /\ report'.kind = "active" /\ Incarnation(report) = Incarnation(report')) =>
    /\ report.of.ticks <= report'.of.ticks
    /\ report.of.returns <= report'.of.returns
    /\ report.of.errors <= report'.of.errors]_activityVars

\* tick: the limit on writing never makes a Beat look dead.  Undisturbed, one that
\* has come out of a tick less than MaxAge - Interval ago is not reported unavailable.
NotMissed == [][report' # report /\ report'.kind = "unavailable" /\ ~disturbed /\ finished # None =>
  clock - finished > MaxAge - Interval]_activityVars

\* What an answer about Beat says is true: of a Beat that is reported active, of its
\* counters, and of one that is not reported.
ReportsTrue == []ActivityTypeOK /\ ActiveIsAlive /\ CountersGrow /\ NotMissed
=============================================================================
