----------------------------- MODULE GovernedShell -----------------------------
(***************************************************************************)
(* The governed shell (app/governed_shell): a proposal file is reviewed    *)
(* under the policy, approved with the hash of what was reviewed, sealed as*)
(* a plan, and the plan is simulated; reviews and simulations append to one*)
(* audit log.  Commands overlap, files are edited between any two of their *)
(* steps, and a command may be killed, also in the middle of an append.    *)
(*                                                                         *)
(* A proposal stands for its canonical form and its hash.  What is wrong   *)
(* with it is a set of flaws, of the proposal and of each of its operations*)
(* in order; the policy is the one in config/policies.                     *)
(***************************************************************************)
EXTENDS Naturals, Sequences, FiniteSets

CONSTANTS
    Shells,             \* commands that may run at the same time
    Proposals,          \* what the proposal file may hold
    NoProposal,
    MaxShellCommands    \* bound: commands started

ASSUME ShellAssumption == IsFiniteSet(Shells)

VARIABLES
    proposal_file,  \* the proposal in the file given to review and approve
    plan_file,      \* the sealed plan: its body and the proposal of its seal
    shell_log,      \* audit ledger
    torn,           \* whether its last line is a fragment
    snapshots,      \* plans with a snapshot manifest
    shell,          \* what each command is doing
    reviewed,       \* proposals whose hash a review has printed
    commands        \* commands started

shell_vars == <<proposal_file, plan_file, shell_log, torn, snapshots, shell, reviewed, commands>>
file_vars  == <<proposal_file, plan_file, snapshots>>

NoPlanFile == [body |-> NoProposal, sealed |-> NoProposal]
ShellIdle  == [pc |-> "idle", proposal |-> NoProposal, type |-> "none", index |-> 0]

ShellInit ==
    /\ proposal_file \in Proposals
    /\ plan_file = NoPlanFile
    /\ shell_log = <<>> /\ torn = FALSE
    /\ snapshots = {}
    /\ shell = [s \in Shells |-> ShellIdle]
    /\ reviewed = {} /\ commands = 0

----------------------------------------------------------------------------
(* evaluate_policy: the first reason in this order, over the proposal and   *)
(* then over its operations one after the other.                            *)
ProposalReasons  == <<"forbidden_field", "forbidden_token", "root_not_allowed">>
OperationReasons == <<"unsupported_operation_type", "duplicate_parameter", "network_denied_mvp",
                      "privilege_denied_mvp", "write_not_allowed", "native_denied_mvp",
                      "unknown_binding", "disabled_binding", "unknown_parameter",
                      "unknown_path_ref", "binding_root_not_allowed", "missing_parameter">>
FirstReason(order, flaws) ==
    LET hit == SelectSeq(order, LAMBDA r : r \in flaws)
    IN  IF hit = <<>> THEN "none" ELSE hit[1]

(* derive_effective_risk on the one binding enabled; the proposer's own     *)
(* estimate is ignored.                                                     *)
effective_risk(p) == IF \E i \in DOMAIN p.ops : p.ops[i].recurse THEN "medium" ELSE "low"
confirmation_required(risk) == risk # "low"

evaluate_policy(p) ==
    LET bad == SelectSeq(p.ops, LAMBDA o : FirstReason(OperationReasons, o.flaws) # "none")
    IN  IF FirstReason(ProposalReasons, p.flaws) # "none"
        THEN [decision |-> "deny", reason |-> FirstReason(ProposalReasons, p.flaws)]
        ELSE IF bad # <<>>
        THEN [decision |-> "deny", reason |-> FirstReason(OperationReasons, bad[1].flaws)]
        ELSE IF confirmation_required(effective_risk(p))
        THEN [decision |-> "require_confirmation", reason |-> "risk_requires_confirmation"]
        ELSE [decision |-> "allow", reason |-> "allowed"]

(* Schema and path errors are raised before the policy is asked.            *)
Normalizable(p) == p.flaws \cap {"schema", "path_invalid"} = {}

(* A hash that is supplied must match, needed or not.                       *)
confirmed(p, supplied) ==
    /\ supplied # NoProposal => supplied = p
    /\ confirmation_required(effective_risk(p)) => supplied # NoProposal

----------------------------------------------------------------------------
ShellStart(s, job) ==
    /\ shell[s].pc = "idle"
    /\ commands < MaxShellCommands
    /\ commands' = commands + 1
    /\ shell' = [shell EXCEPT ![s] = job]
ShellGoto(s, job) == shell' = [shell EXCEPT ![s] = job] /\ UNCHANGED commands
ShellReturn(s) == ShellGoto(s, ShellIdle)

(* review; without --audit the report is printed at once.                   *)
ReviewStart(s) ==
    /\ Normalizable(proposal_file)
    /\ \/ /\ ShellStart(s, [ShellIdle EXCEPT !.pc = "index", !.proposal = proposal_file,
                                             !.type = "proposal_reviewed"])
          /\ UNCHANGED reviewed
       \/ /\ ShellStart(s, ShellIdle)
          /\ reviewed' = reviewed \cup {proposal_file}
    /\ UNCHANGED <<file_vars, shell_log, torn>>

(* The index of the next event is counted without the lock...               *)
CountEvents(s) ==
    /\ shell[s].pc = "index"
    /\ IF torn THEN ShellReturn(s)
       ELSE ShellGoto(s, [shell[s] EXCEPT !.pc = "append", !.index = Len(shell_log)])
    /\ UNCHANGED <<file_vars, shell_log, torn, reviewed>>

ShellEvent(s) ==
    [type |-> shell[s].type, index |-> shell[s].index, proposal |-> shell[s].proposal,
     prev |-> IF shell_log = <<>> THEN 0 ELSE Len(shell_log)]

Appended(s) ==
    /\ shell_log' = Append(shell_log, ShellEvent(s))
    /\ CASE shell[s].type = "proposal_reviewed" ->
               /\ reviewed' = reviewed \cup {shell[s].proposal}
               /\ ShellReturn(s)
         [] shell[s].type = "simulation_started" ->
               /\ ShellGoto(s, [shell[s] EXCEPT !.pc = "index", !.type = "simulation_finished"])
               /\ UNCHANGED reviewed
         [] OTHER -> ShellReturn(s) /\ UNCHANGED reviewed

(* ... and compared under the lock: an append in between is an error.       *)
AppendEvent(s) ==
    /\ shell[s].pc = "append"
    /\ IF torn \/ shell[s].index # Len(shell_log)
       THEN ShellReturn(s) /\ UNCHANGED <<shell_log, reviewed>>
       ELSE Appended(s)
    /\ UNCHANGED <<file_vars, torn>>

(* approve: reads the proposal once and writes the plan it seals.           *)
ApproveStart(s, supplied) ==
    /\ Normalizable(proposal_file)
    /\ evaluate_policy(proposal_file).decision # "deny"
    /\ confirmed(proposal_file, supplied)
    /\ ShellStart(s, [ShellIdle EXCEPT !.pc = "seal", !.proposal = proposal_file])
    /\ UNCHANGED <<file_vars, shell_log, torn, reviewed>>

(* Mutant: the plan is built from the file as it is now. *)
SealReread(s) ==
    /\ shell[s].pc = "seal"
    /\ plan_file' = [body |-> proposal_file, sealed |-> proposal_file]
    /\ ShellReturn(s)
    /\ UNCHANGED <<proposal_file, snapshots, shell_log, torn, reviewed>>

SealPlan(s) ==
    /\ shell[s].pc = "seal"
    /\ plan_file' = [body |-> shell[s].proposal, sealed |-> shell[s].proposal]
    /\ ShellReturn(s)
    /\ UNCHANGED <<proposal_file, snapshots, shell_log, torn, reviewed>>

(* simulate: a plan whose hash does not match its body is refused.          *)
verify_execution_plan == plan_file.body = plan_file.sealed

SimulateStart(s) ==
    /\ plan_file # NoPlanFile
    /\ verify_execution_plan
    /\ ShellStart(s, [ShellIdle EXCEPT !.pc = "snapshot", !.proposal = plan_file.body,
                                       !.type = "simulation_started"])
    /\ UNCHANGED <<file_vars, shell_log, torn, reviewed>>

WriteSnapshot(s) ==
    /\ shell[s].pc = "snapshot"
    /\ snapshots' = snapshots \cup {shell[s].proposal}
    /\ ShellGoto(s, [shell[s] EXCEPT !.pc = "index"])
    /\ UNCHANGED <<proposal_file, plan_file, shell_log, torn, reviewed>>

(* A command is killed; inside an append it may leave part of its line.     *)
ShellKilled(s) ==
    /\ shell[s].pc # "idle"
    /\ \/ UNCHANGED torn
       \/ shell[s].pc = "append" /\ ~torn /\ torn' = TRUE
    /\ ShellReturn(s)
    /\ UNCHANGED <<file_vars, shell_log, reviewed>>

(* Somebody edits a file.                                                   *)
EditFiles ==
    /\ \/ proposal_file' \in Proposals /\ UNCHANGED plan_file
       \/ /\ plan_file # NoPlanFile
          /\ \E p \in Proposals : plan_file' = [plan_file EXCEPT !.body = p]
          /\ UNCHANGED proposal_file
    /\ UNCHANGED <<snapshots, shell_log, torn, shell, reviewed, commands>>

ShellNext ==
    \/ \E s \in Shells :
          \/ ReviewStart(s) \/ CountEvents(s) \/ AppendEvent(s)
          \/ \E supplied \in reviewed \cup {NoProposal} : ApproveStart(s, supplied)
          \/ SealPlan(s) \/ SimulateStart(s) \/ WriteSnapshot(s) \/ ShellKilled(s)
    \/ EditFiles

ShellSpec == ShellInit /\ [][ShellNext]_shell_vars

----------------------------------------------------------------------------
(* verify_audit_chain and replay_session.                                   *)
verify_audit_chain ==
    /\ ~torn
    /\ \A i \in DOMAIN shell_log : shell_log[i].index = i - 1 /\ shell_log[i].prev = i - 1

OfPlan(type, p, n) ==
    Cardinality({i \in 1..n : shell_log[i].type = type /\ shell_log[i].proposal = p})

ShellTypeOK ==
    /\ proposal_file \in Proposals
    /\ plan_file.sealed \in Proposals \cup {NoProposal}
    /\ snapshots \cup reviewed \subseteq Proposals
    /\ \A i \in DOMAIN shell_log : shell_log[i].proposal \in Proposals

(* Whatever is edited while reviews, approvals and simulations overlap, the *)
(* audit log shows no simulation of a proposal the policy denies, nor of    *)
(* one that needs a confirmation and whose hash no review had printed; and, *)
(* unless a killed append tore its last line, the log verifies and a replay *)
(* of any part of it finds no simulation finished that was not started.     *)
SimulatedWasApproved ==
    /\ \A i \in DOMAIN shell_log : shell_log[i].type # "proposal_reviewed" =>
           LET p == shell_log[i].proposal
           IN  /\ evaluate_policy(p).decision # "deny"
               /\ confirmation_required(effective_risk(p)) => p \in reviewed
    /\ ~torn =>
           /\ verify_audit_chain
           /\ \A n \in DOMAIN shell_log, p \in Proposals :
                  OfPlan("simulation_finished", p, n) <= OfPlan("simulation_started", p, n)
=============================================================================
