------------------------------ MODULE DaemonClock ------------------------------
(***************************************************************************)
(* The daemon's tick (app/daemon/clock.py) with what it goes through: the  *)
(* lock file, the activation governor, the kernel's regime, the breaker,   *)
(* and the evaluation that leaves preflight, postflight and contract_eval  *)
(* (app/pipeline/contract_evaluator.py, engine.py).  The audit commands    *)
(* (app/audit/runtime_audit.py) write files of the same names.             *)
(*                                                                         *)
(* A lock file is its owner and whether its mtime is older than            *)
(* stale_after_s.  Nobody refreshes the mtime, so a lock can grow stale    *)
(* while its owner works.  A kernel is a parameter of tick_once: its       *)
(* regime is any, and FAILURE ends the loop.                               *)
(***************************************************************************)
EXTENDS ActivationGovernor

CONSTANTS
    Daemons,     \* the processes that tick; the others are at the command line
    TickScope,   \* "daemon.tick"
    Nobody,      \* no lock file
    Nothing,     \* what no report says
    MaxRequests, \* bound: evaluations begun
    MaxDeaths    \* bound: daemons killed

ASSUME DaemonAssumption == Daemons \subseteq Procs /\ Nobody \notin Procs
ASSUME NothingAssumption == Nothing \notin BOOLEAN
ASSUME ClockBoundAssumption == MaxRequests \in Nat /\ MaxDeaths \in Nat
ASSUME TickAssumption   == TickScope \in Scopes \ NonMutating

VARIABLES
    clock_lock,   \* data/state/clock.lock
    clk,          \* what each daemon is doing
    flight,       \* preflight.json, postflight.json and contract_eval.json
    requests,     \* evaluations begun
    deaths,       \* daemons that were killed
    takeovers     \* history: a lock was judged stale and is being removed

clock_vars == <<clock_lock, clk, flight, requests, deaths, takeovers>>
daemon_vars == <<gov_vars, clock_vars>>

Files == {"pre", "post", "eval"}
NoLock == [owner |-> Nobody, stale |-> FALSE]
Outside == [pc |-> "out", request |-> 0, ok |-> FALSE]

(* A report is of the request it was written for, or an audit's (request 0).*)
(* What it says is whether things went well.                                *)
Report(r, said) == [request |-> r, says |-> said]

DaemonStart(s) ==
    /\ GovernorStart(s)
    /\ clock_lock = NoLock
    /\ clk = [d \in Daemons |-> Outside]
    /\ flight = [f \in Files |-> Report(0, Nothing)]
    /\ requests = 0
    /\ deaths = 0
    /\ takeovers = FALSE

DaemonInit == DaemonStart(NoState)

At(d, pc)   == clk[d].pc = pc
Goto(d, pc) == clk' = [clk EXCEPT ![d].pc = pc]
Inside(d)   == clk[d].pc \notin {"out", "unlink", "create", "dead", "halted"}

----------------------------------------------------------------------------
(* Mutant: the age of the lock file is not looked at. *)
NeverStale(d) ==
    /\ At(d, "out")
    /\ Goto(d, "create")
    /\ UNCHANGED <<gov_vars, clock_lock, flight, requests, deaths, takeovers>>

(* FileLock.acquire: stat the file, unlink it by its path if it is stale,   *)
(* create it exclusively.                                                   *)
CheckStale(d) ==
    /\ At(d, "out")
    /\ Goto(d, IF clock_lock.stale THEN "unlink" ELSE "create")
    /\ takeovers' = (takeovers \/ clock_lock.stale)
    /\ UNCHANGED <<gov_vars, clock_lock, flight, requests, deaths>>

UnlinkStale(d) ==
    /\ At(d, "unlink")
    /\ clock_lock' = NoLock
    /\ Goto(d, "create")
    /\ UNCHANGED <<gov_vars, flight, requests, deaths, takeovers>>

(* Mutant: the file is opened without O_EXCL. *)
CreateAnyway(d) ==
    /\ At(d, "create")
    /\ clock_lock' = [owner |-> d, stale |-> FALSE]
    /\ Goto(d, "governor")
    /\ UNCHANGED <<gov_vars, flight, requests, deaths, takeovers>>

(* Mutant: a tick that finds the lock taken cleans up after itself. *)
OverlapCleansUp(d) ==
    /\ At(d, "create")
    /\ clock_lock' = IF clock_lock = NoLock THEN [owner |-> d, stale |-> FALSE] ELSE NoLock
    /\ Goto(d, IF clock_lock = NoLock THEN "governor" ELSE "out")
    /\ UNCHANGED <<gov_vars, flight, requests, deaths, takeovers>>

(* Either the lock, or NO_OP_OVERLAP_LOCK.                                  *)
CreateLock(d) ==
    /\ At(d, "create")
    /\ IF clock_lock = NoLock
       THEN clock_lock' = [owner |-> d, stale |-> FALSE] /\ Goto(d, "governor")
       ELSE Goto(d, "out") /\ UNCHANGED clock_lock
    /\ UNCHANGED <<gov_vars, flight, requests, deaths, takeovers>>

(* Leaving the with-block: the file goes, whoever's it is.                  *)
ReleaseLock(d) ==
    /\ clk[d].pc \in {"release", "release_halt"}
    /\ clock_lock' = NoLock
    /\ clk' = [clk EXCEPT ![d] =
           [Outside EXCEPT !.pc = IF At(d, "release") THEN "out" ELSE "halted"]]
    /\ UNCHANGED <<gov_vars, flight, requests, deaths, takeovers>>

----------------------------------------------------------------------------
(* The gates of tick_once, in their order.                                  *)
AskGovernor(d) ==
    /\ At(d, "governor")
    /\ \/ BeginEnforce(d, TickScope) \/ EnforceStep(d)
    /\ UNCHANGED clock_vars

GovernorGate(d) ==
    /\ At(d, "governor")
    /\ gov_job[d].pc = "done"
    /\ Goto(d, IF Allows(d) THEN "kernel" ELSE "release")
    /\ gov_job' = [gov_job EXCEPT ![d] = NoJob]
    /\ UNCHANGED <<gov_state, gov_expired, gov_issued, tree, used_events, spent>>
    /\ UNCHANGED <<clock_lock, flight, requests, deaths, takeovers>>

(* In the regime FAILURE SystemHalt is raised through the lock's finally.   *)
KernelGate(d) ==
    /\ At(d, "kernel")
    /\ \/ Goto(d, "breaker") \/ Goto(d, "release_halt")
    /\ UNCHANGED <<gov_vars, clock_lock, flight, requests, deaths, takeovers>>

(* The stored breaker is OPEN or not; nothing in the program sets it.       *)
BreakerGate(d) ==
    /\ At(d, "breaker")
    /\ \/ Goto(d, "evaluate") \/ Goto(d, "release")
    /\ UNCHANGED <<gov_vars, clock_lock, flight, requests, deaths, takeovers>>

(* evaluate_cycle: no contract or provider raises, and the loop ends;       *)
(* otherwise preflight.json and the line of kernel_history.jsonl.           *)
EvaluateRaises(d) ==
    /\ At(d, "evaluate")
    /\ Goto(d, "release_halt")
    /\ UNCHANGED <<gov_vars, clock_lock, flight, requests, deaths, takeovers>>

WritePreflight(d) ==
    /\ At(d, "evaluate")
    /\ requests < MaxRequests
    /\ requests' = requests + 1
    /\ flight' = [flight EXCEPT !["pre"] = Report(requests + 1, Nothing)]
    /\ clk' = [clk EXCEPT ![d] = [@ EXCEPT !.pc = "pipeline", !.request = requests + 1]]
    /\ UNCHANGED <<gov_vars, clock_lock, deaths, takeovers>>

(* run_pipeline_cycle catches everything: its stages succeed or do not.     *)
RunPipeline(d) ==
    /\ At(d, "pipeline")
    /\ \E ok \in BOOLEAN : clk' = [clk EXCEPT ![d] = [@ EXCEPT !.pc = "postflight", !.ok = ok]]
    /\ UNCHANGED <<gov_vars, clock_lock, flight, requests, deaths, takeovers>>

WritePostflight(d) ==
    /\ At(d, "postflight")
    /\ flight' = [flight EXCEPT !["post"] = Report(clk[d].request, clk[d].ok)]
    /\ Goto(d, "verdict")
    /\ UNCHANGED <<gov_vars, clock_lock, requests, deaths, takeovers>>

(* Mutant: the verdict is taken from the postflight on file. *)
VerdictOfFile(d) ==
    /\ At(d, "verdict")
    /\ flight' = [flight EXCEPT !["eval"] = Report(clk[d].request, flight["post"].says)]
    /\ Goto(d, "release")
    /\ UNCHANGED <<gov_vars, clock_lock, requests, deaths, takeovers>>

(* verify_contract looks at the postflight just built, not at the file.     *)
WriteEval(d) ==
    /\ At(d, "verdict")
    /\ flight' = [flight EXCEPT !["eval"] = Report(clk[d].request, clk[d].ok)]
    /\ Goto(d, "release")
    /\ UNCHANGED <<gov_vars, clock_lock, requests, deaths, takeovers>>

----------------------------------------------------------------------------
(* A daemon dies anywhere in a tick and leaves its lock behind.             *)
Die(d) ==
    /\ clk[d].pc \notin {"out", "dead", "halted"}
    /\ deaths < MaxDeaths
    /\ deaths' = deaths + 1
    /\ clk' = [clk EXCEPT ![d] = [Outside EXCEPT !.pc = "dead"]]
    /\ gov_job' = [gov_job EXCEPT ![d] = NoJob]
    /\ UNCHANGED <<gov_state, gov_expired, gov_issued, tree, used_events, spent>>
    /\ UNCHANGED <<clock_lock, flight, requests, takeovers>>

StartAgain(d) ==
    /\ clk[d].pc \in {"dead", "halted"}
    /\ clk' = [clk EXCEPT ![d] = Outside]
    /\ UNCHANGED <<gov_vars, clock_lock, flight, requests, deaths, takeovers>>

(* An hour goes by since the lock file was written.                         *)
LockAges ==
    /\ clock_lock.owner # Nobody /\ ~clock_lock.stale
    /\ clock_lock' = [clock_lock EXCEPT !.stale = TRUE]
    /\ UNCHANGED <<gov_vars, clk, flight, requests, deaths, takeovers>>

(* audit.preflight and audit.postflight write files of the same names and   *)
(* take no lock.  What they measure is left out.                            *)
Audit ==
    /\ \/ flight' = [flight EXCEPT !["pre"] = Report(0, Nothing)]
       \/ flight' = [flight EXCEPT !["post"] = Report(0, Nothing), !["eval"] = Report(0, Nothing)]
    /\ UNCHANGED <<gov_vars, clock_lock, clk, requests, deaths, takeovers>>

TickStep(d) ==
    \/ CheckStale(d) \/ UnlinkStale(d) \/ CreateLock(d) \/ ReleaseLock(d)
    \/ AskGovernor(d) \/ GovernorGate(d) \/ KernelGate(d) \/ BreakerGate(d)
    \/ EvaluateRaises(d) \/ WritePreflight(d) \/ RunPipeline(d)
    \/ WritePostflight(d) \/ WriteEval(d)

ClockNext ==
    \/ \E d \in Daemons : TickStep(d) \/ Die(d) \/ StartAgain(d)
    \/ LockAges \/ Audit

DaemonNext ==
    \/ ClockNext
    \/ \E p \in Procs \ Daemons : Command(p) /\ UNCHANGED clock_vars
    \/ GovernorEnvironment /\ UNCHANGED clock_vars

DaemonSpec == DaemonInit /\ [][DaemonNext]_daemon_vars

(* The loops run on, and whoever supervises a daemon starts it again; hours *)
(* go by.                                                                   *)
DaemonFairness ==
    /\ \A d \in Daemons : WF_daemon_vars(TickStep(d)) /\ WF_daemon_vars(StartAgain(d))
    /\ WF_daemon_vars(LockAges)

----------------------------------------------------------------------------
Steps == {"out", "unlink", "create", "governor", "kernel", "breaker", "evaluate", "pipeline",
          "postflight", "verdict", "release", "release_halt", "halted", "dead"}

(* The lock, the daemons and the reports hold values of the kind the code   *)
(* writes.                                                                  *)
DaemonTypeOK ==
    /\ GovernorTypeOK
    /\ clock_lock \in [owner : Daemons \cup {Nobody}, stale : BOOLEAN]
    /\ clk \in [Daemons -> [pc : Steps, request : 0..MaxRequests, ok : BOOLEAN]]
    /\ flight \in [Files -> [request : 0..MaxRequests, says : BOOLEAN \cup {Nothing}]]
    /\ requests \in 0..MaxRequests
    /\ deaths \in 0..MaxDeaths
    /\ takeovers \in BOOLEAN

(* One tick at a time, through deaths, restarts and every way out of a tick,*)
(* as long as no lock was judged stale: after that two daemons can hold it. *)
(* And no early return, halt or exception leaves the lock behind: a lock    *)
(* file is that of a daemon inside its tick, or of one that was killed.     *)
TicksExclude ==
    /\ ~takeovers => \A d, e \in Daemons : Inside(d) /\ Inside(e) => d = e
    /\ LET d == clock_lock.owner
       IN  d # Nobody => Inside(d) \/ deaths > 0

(* Without a takeover a tick that ends in success leaves three reports of   *)
(* its own request that agree, save where an audit has replaced one.        *)
SuccessLeavesOneRecord ==
    \A d \in Daemons : ~takeovers /\ At(d, "release") /\ clk[d].request # 0 =>
        \A f \in Files : \/ flight[f].request = 0
                         \/ /\ flight[f].request = clk[d].request
                            /\ f # "pre" => flight[f].says = clk[d].ok

(* The lock of a daemon that was killed does not stop the clock for good.   *)
LockIsFreed == (clock_lock # NoLock) ~> (clock_lock = NoLock)
(* The lock file as the lock it is meant to be, of which nothing is said    *)
(* after a takeover.                                                        *)
Holder == IF takeovers THEN Nobody ELSE clock_lock.owner
Working == {d \in Daemons : ~takeovers /\ Inside(d)}

Lock == INSTANCE TickLock WITH
    Users  <- Daemons,
    holder <- Holder,
    inside <- Working,
    broken <- takeovers

(* Stat, unlink and exclusive create of a file (clock.py:29), and leaving   *)
(* the with-block, which removes the file whoever's it is, are a lock until *)
(* one is judged stale: it is given back by the daemon that has it only, on *)
(* every way out of a tick, and one that died is never taken for a free one.*)
ImplementsTickLock == Lock!Spec
=============================================================================
