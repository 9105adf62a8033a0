---------------------------- MODULE OperatorRuntime ----------------------------
(***************************************************************************)
(* The internal operator (signal_agent/operator): a command is planned from*)
(* the registry and executed in this process.  Write workflows pass the    *)
(* transition gate once per sub-workflow; each tool then runs between two  *)
(* looks at the surfaces it may touch, and a tool that changed what it did *)
(* not declare, or nothing of what it did, is reported as a violation.     *)
(* What it wrote stays.  A run ends with its record, its ledger line, the  *)
(* canonical decision and the session state, in this order.                *)
(*                                                                         *)
(* There is no lock across a run: commands overlap, and one may be killed  *)
(* between any two steps.  The read-only workflows differ in what they     *)
(* read: two stand for them, one that looks at the ledgers and the one that*)
(* continues the last run, named by the session.                           *)
(***************************************************************************)
EXTENDS TransitionGate, FormalGovernance, FiniteSets

CONSTANTS
    Operators,   \* commands that may overlap
    OpTargets,   \* targets a command may name
    NoTarget,
    MaxRuns,     \* bound: commands started
    MaxRunKills  \* bound: commands killed, and snapshots that fail

ASSUME OperatorAssumption == MaxRuns \in Nat

VARIABLES
    intake_log,     \* data/intake/intake.jsonl
    state_records,  \* data/state/artifact_registry.jsonl, by run
    session_state,  \* data/operator/state/session_state.json
    tx_snapshots,   \* runs with a directory below data/operator/state/snapshots/
    run_records,    \* run -> record file
    run_ledger,     \* operator_runs.jsonl
    op_canonical,   \* canonical ledger, when one is configured
    run_events,     \* transition events: run, allowed
    operator_run,   \* command -> what it is doing
    runs_started, run_kills

op_vars == <<intake_log, state_records, session_state, tx_snapshots, run_records, run_ledger,
             op_canonical, run_events, operator_run, runs_started, run_kills>>

(* Workflows and their tools, in the order they run.                        *)
ToolsOf(wf) ==
    CASE wf = "intake_append_and_stage_session" -> <<"intake_log_append", "session_state_overwrite">>
      [] OTHER                                  -> <<wf>>
WriteTools == {"record_state_append", "intake_log_append", "session_state_overwrite"}
OperatorWorkflows == WriteTools \cup {"intake_append_and_stage_session", "inspect_system_state",
                                      "continue_operator_task"}
is_write_mode(wf) == wf \notin {"inspect_system_state", "continue_operator_task"}

LifecycleWrites(tool) ==
    CASE tool = "record_state_append"     -> {"state_records"}
      [] tool = "intake_log_append"       -> {"intake_log"}
      [] tool = "session_state_overwrite" -> {"session_state"}
      [] OTHER                            -> {}

(* Directories of declared files are watched with all they contain.         *)
ObservationScope(tool) ==
    CASE tool = "session_state_overwrite" -> {"session_state", "tx_snapshots"}
      [] tool = "inspect_system_state"    -> {"intake_log", "state_records"}
      [] tool = "continue_operator_task"  -> {"run_ledger", "run_records", "session_state", "tx_snapshots"}
      [] OTHER                            -> LifecycleWrites(tool)

(* Every write leaves another length or content behind.                     *)
Surfaces == [intake_log |-> Len(intake_log), state_records |-> state_records, session_state |-> session_state,
             tx_snapshots |-> tx_snapshots, run_ledger |-> Len(run_ledger), run_records |-> DOMAIN run_records]

NoSession == [run |-> 0, transactional |-> FALSE]

(* `alone' is history: no other command has run since this one began.       *)
NoRun == [run |-> 0, wf |-> "none", target |-> NoTarget, tools |-> <<>>, completed |-> 0, status |-> "ok",
          pc |-> "idle", pre |-> <<>>, checked |-> 0, prev |-> 0, governed |-> FALSE,
          consistency |-> "unknown", continues |-> NoSession, found |-> FALSE, alone |-> TRUE]

OpInit ==
    /\ intake_log = <<>> /\ state_records = {} /\ tx_snapshots = {}
    /\ session_state = NoSession
    /\ run_records = <<>> /\ run_ledger = <<>> /\ run_events = {}
    /\ op_canonical = EmptyLedger
    /\ operator_run = [o \in Operators |-> NoRun]
    /\ runs_started = 0 /\ run_kills = 0

OpFiles == <<intake_log, state_records, session_state, tx_snapshots, run_records, run_ledger, op_canonical, run_events>>
SetRun(o, job) == operator_run' = [operator_run EXCEPT ![o] = job]
Doing(o, pc) == operator_run[o].pc = pc

----------------------------------------------------------------------------
(* A plan that is not bound to the registry, unsupported or ambiguous runs  *)
(* nothing; it is recorded with its status, for which one stands, whatever  *)
(* its workflow.  Only tools that write look at the target.                 *)
StartOperatorRun(o, wf, target, governed, plan) ==
    /\ Doing(o, "idle")
    /\ runs_started < MaxRuns
    /\ runs_started' = runs_started + 1
    /\ LET planned == [NoRun EXCEPT !.run = runs_started + 1, !.wf = wf, !.tools = ToolsOf(wf),
                                !.target = IF is_write_mode(wf) THEN target ELSE NoTarget,
                                !.governed = governed /\ is_write_mode(wf),
                                !.alone = \A other \in Operators : Doing(other, "idle"),
                                !.pc = CASE plan # "ready"                      -> "record"
                                         [] plan = "ready" /\ is_write_mode(wf) -> "gate"
                                         [] OTHER                               -> "observe",
                                !.status = IF plan = "ready" THEN "ok" ELSE plan]
       IN  operator_run' = [other \in Operators |->
               IF other = o THEN planned
               ELSE [operator_run[other] EXCEPT !.alone = @ /\ Doing(other, "idle")]]
    /\ UNCHANGED <<OpFiles, run_kills>>

(* The gate of the first tool left, then for an intake record the look for  *)
(* one of the same target.  A compound workflow requires a target.          *)
Compound(job) == Len(ToolsOf(job.wf)) > 1
GateVerdict(job) ==
    LET tool    == job.tools[1]
        context == IF job.target = NoTarget THEN {} ELSE {"input_reference"}
    IN  CASE Compound(job) /\ job.target = NoTarget -> "rejected"
          [] ~(Compound(job) /\ job.target = NoTarget)
                /\ ~validate_transition("captured", "normalized", "volatile_capture", context, TRUE) -> "held"
          [] OTHER -> IF tool = "intake_log_append" /\ \E i \in DOMAIN intake_log : intake_log[i].target = job.target
                      THEN "rejected" ELSE "allowed"

DenialStatus(job, denied) ==
    CASE job.completed > 0                      -> "partial_success"
      [] job.completed = 0 /\ Compound(job)     -> "rejected"
      [] OTHER                                  -> denied

PassGate(o) ==
    /\ Doing(o, "gate")
    /\ LET job     == operator_run[o]
           verdict == GateVerdict(job)
       IN  IF verdict = "allowed"
           THEN /\ SetRun(o, [job EXCEPT !.checked = Len(intake_log),
                      !.pc = IF job.tools[1] = "session_state_overwrite" THEN "snapshot" ELSE "observe"])
                /\ UNCHANGED run_events
           ELSE /\ SetRun(o, [job EXCEPT !.pc = "record", !.status = DenialStatus(job, verdict)])
                /\ run_events' = IF Compound(job) /\ job.target = NoTarget THEN run_events
                                  ELSE run_events \cup {[run |-> job.run, allowed |-> FALSE]}
    /\ UNCHANGED <<intake_log, state_records, session_state, tx_snapshots, run_records, run_ledger, op_canonical,
                   runs_started, run_kills>>

(* The tool is aborted when its snapshot cannot be taken.                   *)
TakeSnapshot(o) ==
    /\ Doing(o, "snapshot")
    /\ \/ /\ tx_snapshots' = tx_snapshots \cup {operator_run[o].run}
          /\ SetRun(o, [operator_run[o] EXCEPT !.pc = "observe"])
          /\ UNCHANGED run_kills
       \/ /\ run_kills < MaxRunKills
          /\ run_kills' = run_kills + 1
          /\ SetRun(o, [operator_run[o] EXCEPT !.pc = "emit",
                 !.status = IF operator_run[o].completed > 0 THEN "partial_success" ELSE "snapshot_failed"])
          /\ UNCHANGED tx_snapshots
    /\ UNCHANGED <<intake_log, state_records, session_state, run_records, run_ledger, op_canonical, run_events,
                   runs_started>>

ObserveBefore(o) ==
    /\ Doing(o, "observe")
    /\ SetRun(o, [operator_run[o] EXCEPT !.pc = "handle", !.pre = Surfaces])
    /\ UNCHANGED <<OpFiles, runs_started, run_kills>>

HandleTool(o) ==
    /\ Doing(o, "handle")
    /\ LET job == operator_run[o]
           tool == job.tools[1]
       IN  /\ intake_log' = IF tool = "intake_log_append"
                            THEN Append(intake_log, [run |-> job.run, target |-> job.target, checked |-> job.checked])
                            ELSE intake_log
           /\ state_records' = state_records \cup (IF tool = "record_state_append" THEN {job.run} ELSE {})
           /\ session_state' = IF tool = "session_state_overwrite"
                               THEN [run |-> job.run, transactional |-> TRUE] ELSE session_state
           /\ SetRun(o, IF tool = "continue_operator_task"
                        THEN [job EXCEPT !.pc = "lookup", !.continues = session_state]
                        ELSE [job EXCEPT !.pc = "compare"])
    /\ UNCHANGED <<tx_snapshots, run_records, run_ledger, op_canonical, run_events, runs_started, run_kills>>

(* The record of the run to continue is looked for after the session was    *)
(* read.  A run id named in the command is left out.                        *)
LookUpRun(o) ==
    /\ Doing(o, "lookup")
    /\ SetRun(o, [operator_run[o] EXCEPT !.pc = "compare",
                      !.found = operator_run[o].continues.run \in DOMAIN run_records])
    /\ UNCHANGED <<OpFiles, runs_started, run_kills>>

(* What changed of a tool's declared surfaces, or of all it watches when it *)
(* declares none.                                                           *)
Changed(job, surfaces) == {s \in surfaces : job.pre[s] # Surfaces[s]}

classify_consistency(declared, changed) ==
    CASE declared # {} /\ changed # {} -> "observed_as_declared"
      [] declared # {} /\ changed = {} -> "no_effect_observed"
      [] declared = {} /\ changed # {} -> "undeclared_mutation"
      [] declared = {} /\ changed = {} -> "consistent_read_only"

classify_transactional_consistency(declared, changed) ==
    CASE changed = {}       -> "no_effect_observed"
      [] changed = declared -> "observed_as_declared_transactional"
      [] OTHER              -> "partial_mutation_detected"

(* What changed in the scope of a writing tool beyond what it declares.     *)
undeclared_scope_changes(job, tool) ==
    IF LifecycleWrites(tool) = {} THEN {}
    ELSE Changed(job, ObservationScope(tool)) \ LifecycleWrites(tool)

consistency_status(job) ==
    LET tool     == job.tools[1]
        declared == LifecycleWrites(tool)
        changed  == Changed(job, IF declared = {} THEN ObservationScope(tool) ELSE declared)
    IN  CASE undeclared_scope_changes(job, tool) # {} -> "undeclared_extra_mutation"
          [] undeclared_scope_changes(job, tool) = {} /\ tool = "session_state_overwrite" ->
                 classify_transactional_consistency(declared, changed)
          [] OTHER -> classify_consistency(declared, changed)

(* A mismatch turns the tool's result into a violation of its contract.     *)
requires_rejection(consistency) ==
    consistency \in {"no_effect_observed", "undeclared_mutation", "undeclared_extra_mutation",
                     "partial_mutation_detected"}
consistent(job) == ~requires_rejection(consistency_status(job))

CompareAfter(o) ==
    /\ Doing(o, "compare")
    /\ LET job == operator_run[o]
       IN  SetRun(o, [job EXCEPT !.pre = <<>>, !.consistency = consistency_status(job),
                !.pc = IF is_write_mode(job.wf) THEN "emit" ELSE "record",
                !.completed = IF consistent(job) THEN @ + 1 ELSE @,
                !.status = CASE consistent(job)                         -> @
                             [] ~consistent(job) /\ job.completed > 0   -> "partial_success"
                             [] OTHER                                   -> "contract_violation"])
    /\ UNCHANGED <<OpFiles, runs_started, run_kills>>

(* The event of an allowed transition follows its tool.                     *)
EmitAllowed(o) ==
    /\ Doing(o, "emit")
    /\ run_events' = run_events \cup {[run |-> operator_run[o].run, allowed |-> TRUE]}
    /\ LET job == operator_run[o]
       IN  SetRun(o, IF job.status = "ok" /\ Len(job.tools) > 1
                     THEN [job EXCEPT !.pc = "gate", !.tools = Tail(@)] ELSE [job EXCEPT !.pc = "record"])
    /\ UNCHANGED <<intake_log, state_records, session_state, tx_snapshots, run_records, run_ledger, op_canonical,
                   runs_started, run_kills>>

----------------------------------------------------------------------------
(* Mutant: the session state is written first. *)
SessionFirst == <<"record", "session", "ledger", "read", "write">>

FinishOrder == <<"record", "ledger", "read", "write", "session">>
After(job) ==
    LET at    == CHOOSE i \in DOMAIN FinishOrder : FinishOrder[i] = job.pc
        later == {i \in DOMAIN FinishOrder : i > at /\ (FinishOrder[i] \in {"read", "write"} => job.governed)}
    IN  IF later = {} THEN NoRun
        ELSE [job EXCEPT !.pc = FinishOrder[CHOOSE i \in later : \A j \in later : i <= j]]

WriteRunRecord(o) ==
    /\ Doing(o, "record")
    /\ run_records' = [r \in DOMAIN run_records \cup {operator_run[o].run} |->
           IF r = operator_run[o].run
           THEN [field \in {"wf", "status", "consistency", "continues", "found", "alone"} |-> operator_run[o][field]]
           ELSE run_records[r]]
    /\ SetRun(o, After(operator_run[o]))
    /\ UNCHANGED <<intake_log, state_records, session_state, tx_snapshots, run_ledger, op_canonical, run_events,
                   runs_started, run_kills>>

AppendRunLedger(o) ==
    /\ Doing(o, "ledger")
    /\ run_ledger' = Append(run_ledger, operator_run[o].run)
    /\ SetRun(o, After(operator_run[o]))
    /\ UNCHANGED <<intake_log, state_records, session_state, tx_snapshots, run_records, op_canonical, run_events,
                   runs_started, run_kills>>

(* A canonical ledger that cannot be read ends the command.                 *)
ReadOpCanonical(o) ==
    /\ Doing(o, "read")
    /\ SetRun(o, IF Readable(op_canonical)
                 THEN [After(operator_run[o]) EXCEPT !.prev = Len(op_canonical.entries)] ELSE NoRun)
    /\ UNCHANGED <<OpFiles, runs_started, run_kills>>

operator_decision_outcome(status) == IF status = "ok" THEN Promote ELSE "MANUAL_REVIEW_REQUIRED"

AppendOpDecision(o) ==
    /\ Doing(o, "write")
    /\ op_canonical' = WriteEntry(op_canonical, build_ledger_entry(operator_run[o].run,
           operator_decision_outcome(operator_run[o].status), operator_run[o].wf, operator_run[o].prev))
    /\ SetRun(o, After(operator_run[o]))
    /\ UNCHANGED <<intake_log, state_records, session_state, tx_snapshots, run_records, run_ledger, run_events,
                   runs_started, run_kills>>

WriteSessionState(o) ==
    /\ Doing(o, "session")
    /\ session_state' = [run |-> operator_run[o].run, transactional |-> FALSE]
    /\ SetRun(o, After(operator_run[o]))
    /\ UNCHANGED <<intake_log, state_records, tx_snapshots, run_records, run_ledger, op_canonical, run_events,
                   runs_started, run_kills>>

RunKilled(o) ==
    /\ ~Doing(o, "idle")
    /\ run_kills < MaxRunKills
    /\ run_kills' = run_kills + 1
    /\ \/ UNCHANGED op_canonical
       \/ Doing(o, "write") /\ op_canonical' = TornWrite(op_canonical)
    /\ SetRun(o, NoRun)
    /\ UNCHANGED <<intake_log, state_records, session_state, tx_snapshots, run_records, run_ledger, run_events, runs_started>>

OpNext ==
    \E o \in Operators :
        \/ \E wf \in OperatorWorkflows, governed \in BOOLEAN :
              \E target \in OpTargets \cup {NoTarget} : StartOperatorRun(o, wf, target, governed, "ready")
        \/ \E wf \in {"record_state_append", "inspect_system_state"}, governed \in BOOLEAN :
              StartOperatorRun(o, wf, NoTarget, governed, "contract_violation")
        \/ PassGate(o) \/ TakeSnapshot(o) \/ ObserveBefore(o) \/ HandleTool(o) \/ LookUpRun(o) \/ CompareAfter(o) \/ EmitAllowed(o)
        \/ WriteRunRecord(o) \/ AppendRunLedger(o) \/ ReadOpCanonical(o) \/ AppendOpDecision(o)
        \/ WriteSessionState(o) \/ RunKilled(o)

OpSpec == OpInit /\ [][OpNext]_op_vars

----------------------------------------------------------------------------
OpTypeOK ==
    /\ \A i \in DOMAIN intake_log : intake_log[i].target \in OpTargets \cup {NoTarget}
    /\ state_records \cup tx_snapshots \cup DOMAIN run_records \subseteq 1..MaxRuns
    /\ \A o \in Operators : operator_run[o].run \in 0..MaxRuns /\ Len(operator_run[o].tools) <= 2

Wrote(run) == {"intake_log_append" : i \in {j \in DOMAIN intake_log : intake_log[j].run = run}}
                  \cup {"record_state_append" : r \in state_records \cap {run}}

(* With commands overlapping and killed anywhere: a run reported as rejected*)
(* or held has written nothing and one reported as ok all it was asked to;  *)
(* a second intake record of a target was checked before the first was in   *)
(* the log; the canonical decision and the session of a run that got that   *)
(* far name a run whose ledger line and record are there (the transactional *)
(* overwrite names its own run before that), and only such an overwrite     *)
(* makes the run to be continued one that is not found.  A command that ran *)
(* alone is never accused of touching what it did not declare.              *)
RunsTellTheTruth ==
    /\ \A r \in DOMAIN run_records :
          /\ run_records[r].status \in {"rejected", "held"} => Wrote(r) = {} /\ ~(session_state.run = r /\ session_state.transactional)
          /\ run_records[r].status = "ok" =>
                LET tools == ToolsOf(run_records[r].wf)
                IN  \A i \in DOMAIN tools : tools[i] \in WriteTools \ {"session_state_overwrite"} => tools[i] \in Wrote(r)
    /\ \A j \in DOMAIN intake_log : \A i \in 1..(j - 1) :
          intake_log[i].target = intake_log[j].target /\ intake_log[j].target # NoTarget => intake_log[j].checked < i
    /\ \A k \in DOMAIN op_canonical.entries : \E i \in DOMAIN run_ledger : run_ledger[i] = op_canonical.entries[k].id
    /\ session_state.run # 0 /\ ~session_state.transactional =>
          session_state.run \in DOMAIN run_records /\ \E i \in DOMAIN run_ledger : run_ledger[i] = session_state.run
    /\ \A r \in DOMAIN run_records :
          /\ run_records[r].continues.run # 0 /\ ~run_records[r].found => run_records[r].continues.transactional
          /\ requires_rejection(run_records[r].consistency) => ~run_records[r].alone
=============================================================================
