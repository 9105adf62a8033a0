------------------------------ MODULE SystemClock ------------------------------
(***************************************************************************)
(* The cooperative scheduler (signal_agent/core/clock/clock.py): tasks run  *)
(* one after the other, in the order they were registered, when their time *)
(* has come.  A clock can be run again after it stopped, and keeps its      *)
(* tasks, its tick count and the last time it read.                         *)
(*                                                                         *)
(* Time is the monotonic function it is given: it moves while callbacks     *)
(* and sleeps go on, can stand still, and can jump back, which the clock    *)
(* refuses.  A stop is asked for by a callback or, at any moment, by a      *)
(* signal.  The command line's run stops earlier: it imports task           *)
(* definitions that are not in the repository.                              *)
(***************************************************************************)
EXTENDS Integers, Sequences, SequencesExt

CONSTANTS
    Tasks,       \* the names that can be registered
    Interval,    \* [Tasks -> Nat]: interval_seconds
    Resolution,  \* resolution_seconds
    Hooks,       \* number of shutdown hooks
    Limits,      \* max_ticks of the runs, Never for none
    Never,       \* no time
    MaxTime,     \* bound: the time that can be read
    MaxTicks     \* bound: ticks of all runs

ASSUME IntervalAssumption == Interval \in [Tasks -> Nat \ {0}]
ASSUME ResolutionAssumption == Resolution \in Nat \ {0}
ASSUME SchedulerBoundAssumption == MaxTime \in Nat /\ MaxTicks \in Nat
ASSUME NeverAssumption == Never \notin Nat /\ Limits \subseteq Nat \cup {Never}

VARIABLES
    time,            \* what the monotonic function says
    tasks,           \* the tasks in registration order
    next_run_at,     \* the time from which a task is due
    stop_requested,  \* _stop_requested
    last_now,        \* _last_now
    tick_count,      \* ticks so far
    run,             \* where the run is: pc, position, tick_advanced, max_ticks
    completed        \* history: when a task last returned, by time and tick

scheduler_vars == <<time, tasks, next_run_at, stop_requested, last_now, tick_count, run, completed>>

NoRun == [pc |-> "stopped", at |-> 0, advanced |-> TRUE, limit |-> Never]
NotYet == [time |-> Never, tick |-> 0]

SchedulerInit ==
    /\ time = 0
    /\ tasks = <<>>
    /\ next_run_at = [t \in Tasks |-> 0]
    /\ stop_requested = FALSE
    /\ last_now = Never
    /\ tick_count = 0
    /\ run = NoRun
    /\ completed = [t \in Tasks |-> NotYet]

Running(pc) == run.pc = pc
Enter(pc) == run' = [run EXCEPT !.pc = pc, !.at = 1]

(* A name is registered once, and is due at once.                           *)
RegisterTask(t) ==
    /\ Running("stopped")
    /\ ~Contains(tasks, t)
    /\ tasks' = Append(tasks, t)
    /\ next_run_at' = [next_run_at EXCEPT ![t] = time]
    /\ UNCHANGED <<time, stop_requested, last_now, tick_count, run, completed>>

(* The signal handlers, installed before the run and restored after it.     *)
RequestStop ==
    /\ stop_requested' = TRUE
    /\ UNCHANGED <<time, tasks, next_run_at, last_now, tick_count, run, completed>>

(* A stop asked for before the run is forgotten here.                       *)
StartRun ==
    /\ Running("stopped")
    /\ stop_requested' = FALSE
    /\ \E limit \in Limits : run' = [NoRun EXCEPT !.pc = "tick", !.limit = limit]
    /\ UNCHANGED <<time, tasks, next_run_at, last_now, tick_count, completed>>

----------------------------------------------------------------------------
LeaveLoop ==
    /\ Running("tick")
    /\ stop_requested
    /\ Enter("hooks")
    /\ UNCHANGED <<time, tasks, next_run_at, stop_requested, last_now, tick_count, completed>>

BackInTime == last_now # Never /\ time < last_now

RefuseTick ==
    /\ Running("tick")
    /\ ~stop_requested
    /\ BackInTime
    /\ stop_requested' = TRUE
    /\ Enter("hooks")
    /\ UNCHANGED <<time, tasks, next_run_at, last_now, tick_count, completed>>

BeginTick ==
    /\ Running("tick")
    /\ ~stop_requested
    /\ ~BackInTime
    /\ tick_count < MaxTicks
    /\ tick_count' = tick_count + 1
    /\ last_now' = time
    /\ run' = [run EXCEPT !.pc = "tasks", !.at = 1, !.advanced = last_now = Never \/ time > last_now]
    /\ UNCHANGED <<time, tasks, next_run_at, stop_requested, completed>>

Current == tasks[run.at]

(* When time stands still between two ticks, tasks with an interval within  *)
(* the resolution run once per tick.                                        *)
Due(t) ==
    \/ last_now >= next_run_at[t]
    \/ ~run.advanced /\ Interval[t] <= Resolution

SkipTask ==
    /\ Running("tasks")
    /\ run.at <= Len(tasks)
    /\ ~Due(Current)
    /\ run' = [run EXCEPT !.at = @ + 1]
    /\ UNCHANGED <<time, tasks, next_run_at, stop_requested, last_now, tick_count, completed>>

(* The callback may ask for a stop; after one, the tasks behind it wait.    *)
TaskReturns(again) ==
    /\ Running("tasks")
    /\ run.at <= Len(tasks)
    /\ Due(Current)
    /\ \E asks \in BOOLEAN : stop_requested' = (stop_requested \/ asks)
    /\ next_run_at' = [next_run_at EXCEPT ![Current] = again]
    /\ completed' = [completed EXCEPT ![Current] = [time |-> last_now, tick |-> tick_count]]
    /\ run' = [run EXCEPT !.at = IF stop_requested' THEN Len(tasks) + 1 ELSE @ + 1]
    /\ UNCHANGED <<time, tasks, last_now, tick_count>>

(* Mutant: missed runs are caught up with. *)
CatchUp == Running("tasks") /\ run.at <= Len(tasks) /\ TaskReturns(next_run_at[Current] + Interval[Current])

(* No burst: the next run is counted from this tick.                        *)
ExecuteTask == Running("tasks") /\ run.at <= Len(tasks) /\ TaskReturns(last_now + Interval[Current])

(* A callback that raises ends the run with its task still due: an          *)
(* interrupt is caught, anything else goes on once the hooks have run.      *)
TaskRaises ==
    /\ Running("tasks")
    /\ run.at <= Len(tasks)
    /\ Due(Current)
    /\ \E interrupt \in BOOLEAN : stop_requested' = (stop_requested \/ interrupt)
    /\ Enter("hooks")
    /\ UNCHANGED <<time, tasks, next_run_at, last_now, tick_count, completed>>

(* max_ticks is compared with the ticks of all runs.                        *)
EndTick ==
    /\ Running("tasks")
    /\ run.at > Len(tasks)
    /\ IF run.limit # Never /\ tick_count >= run.limit
       THEN stop_requested' = TRUE /\ Enter("hooks")
       ELSE UNCHANGED stop_requested /\ Enter("tick")
    /\ UNCHANGED <<time, tasks, next_run_at, last_now, tick_count, completed>>

(* A hook that raises keeps those behind it from running.                   *)
ShutdownHook ==
    /\ Running("hooks")
    /\ \/ run.at <= Hooks /\ run' = [run EXCEPT !.at = @ + 1]
       \/ run' = NoRun
    /\ UNCHANGED <<time, tasks, next_run_at, stop_requested, last_now, tick_count, completed>>

(* Time goes on, or jumps back.  It is read when a tick begins and when a   *)
(* task is registered, so it moves before those.                            *)
TimeMoves ==
    /\ run.pc \in {"stopped", "tick"}
    /\ time' \in 0..MaxTime \ {time}
    /\ UNCHANGED <<tasks, next_run_at, stop_requested, last_now, tick_count, run, completed>>

SchedulerNext ==
    \/ \E t \in Tasks : RegisterTask(t)
    \/ StartRun \/ LeaveLoop \/ RefuseTick \/ BeginTick
    \/ SkipTask \/ ExecuteTask \/ TaskRaises \/ EndTick \/ ShutdownHook
    \/ RequestStop \/ TimeMoves

SchedulerSpec == SchedulerInit /\ [][SchedulerNext]_scheduler_vars

----------------------------------------------------------------------------
(* Times, ticks and positions are what the clock's attributes hold.         *)
SchedulerTypeOK ==
    /\ time \in 0..MaxTime
    /\ \A i \in DOMAIN tasks : tasks[i] \in Tasks
    /\ next_run_at \in [Tasks -> Nat]
    /\ stop_requested \in BOOLEAN
    /\ last_now \in 0..MaxTime \cup {Never}
    /\ tick_count \in 0..MaxTicks
    /\ run.pc \in {"stopped", "tick", "tasks", "hooks"} /\ run.limit \in Limits \cup {Never}
    /\ completed \in [Tasks -> [time : 0..MaxTime \cup {Never}, tick : 0..MaxTicks]]

Served(t) == next_run_at[t] > last_now

(* The guarantees of the class's docstring, over runs that are stopped,     *)
(* interrupted, refused and started again.  No burst: a task that returned  *)
(* before returns in a later tick, an interval later at the least, unless   *)
(* time stands still and the task is one of high cadence.  Stable order: it *)
(* returns when every task registered before it has been served in this     *)
(* tick.  And nobody is left out: while no stop is asked for, the next tick *)
(* is only reached with every task served.                                  *)
ScheduleIsKept ==
    [][/\ \A t \in Tasks : completed'[t] # completed[t] =>
            /\ completed[t] # NotYet =>
                 /\ completed'[t].tick > completed[t].tick
                 /\ \/ completed'[t].time - completed[t].time >= Interval[t]
                    \/ ~run.advanced /\ Interval[t] <= Resolution
            /\ \A i \in 1..(run.at - 1) : Served(tasks[i])
       /\ Running("tasks") /\ run'.pc = "tick" /\ ~stop_requested =>
            \A t \in ToSet(tasks) : Served(t)
      ]_scheduler_vars
=============================================================================
