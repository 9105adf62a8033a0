--------------------------- MODULE GovernedAuthoring ---------------------------
(***************************************************************************)
(* Governed authoring (signal_agent/governed_authoring): exported packets  *)
(* are normalised, put through the authoring gates, optionally recorded in *)
(* the canonical ledger of the workspace, and answered with a result file. *)
(* The router's commands refuse to overwrite a file, but look only once, at*)
(* the start; the plain verify-static-export does not look at all.  A      *)
(* result is written in place, so a killed command leaves part of one.     *)
(*                                                                         *)
(* A command is the packets it has left and the steps left for the first of*)
(* them; the demo bundle is one command over all of its fixtures.          *)
(***************************************************************************)
EXTENDS FormalGovernance, FiniteSets

CONSTANTS
    Commands,        \* commands that may overlap
    Exports,         \* packets an export may hold
    Fixtures,        \* result file -> the packet of the demo fixture behind it
    MaxCommands,     \* bound: commands started
    MaxCommandKills  \* bound: commands killed

(* The wording of a request that makes a difference, and some that does not.*)
Wordings == {"approved", "publication_ready", "provisional", "draft", "unverified", "rejected", "deferred",
             "final", "whatever", ""}
Statuses == {"approved", "provisional", "deferred", "rejected"}
ExportPackets == [bridged : BOOLEAN, requested : Wordings, mode : Wordings, material : BOOLEAN, refs : BOOLEAN,
                  blocking : BOOLEAN, review : {"none", "self", "unapproved", "approved"}, expected : Statuses]
ASSUME AuthoringAssumption ==
    Exports \subseteq ExportPackets /\ Fixtures \in Seq(ExportPackets) /\ Fixtures # <<>>

VARIABLES
    result,        \* result file -> what it holds
    auth_ledger,   \* canonical ledger in ledgers/
    demo_summary,  \* "absent", "passed" or "failed": the proof summary
    command, issued, command_kills

auth_vars == <<result, auth_ledger, demo_summary, command, issued, command_kills>>

ResultFiles == DOMAIN Fixtures

----------------------------------------------------------------------------
(* Wording the bridge understands; anything else it takes for provisional.  *)
normalize_requested(s) == IF s \in {"approved", "rejected", "deferred"} THEN s
                          ELSE IF s = "publication_ready" THEN "approved" ELSE "provisional"
normalize_mode(m, requested) ==
    IF m \notin {"approved", "publication_ready"} /\ (m \in {"provisional", "draft"} \/ requested # "approved")
    THEN "provisional" ELSE "publication_ready"

(* An export that already is a source packet is taken as it is.             *)
source_packet(p) ==
    IF p.bridged
    THEN [p EXCEPT !.requested = normalize_requested(@),
                   !.mode = normalize_mode(@, normalize_requested(p.requested))]
    ELSE p

is_provisional_request(p)       == {p.requested, p.mode} \cap {"provisional", "unverified"} # {}
is_publication_ready_request(p) == {p.requested, p.mode} \cap {"approved", "publication_ready"} # {}

(* review: "none", "self", "unapproved" or "approved".                      *)
AuthoringGates(p) == <<
    [blocks |-> ~p.material, decision |-> "REJECT_MISSING_SOURCE", status |-> "rejected"],
    [blocks |-> is_provisional_request(p) /\ ~is_publication_ready_request(p),
     decision |-> "EMIT_PROVISIONAL_DRAFT", status |-> "provisional"],
    [blocks |-> ~p.refs, decision |-> "REJECT_MISSING_EVIDENCE", status |-> "rejected"],
    [blocks |-> p.blocking, decision |-> "DEFER_UNRESOLVED_TENSION", status |-> "deferred"],
    [blocks |-> p.review = "none", decision |-> "REJECT_MISSING_HUMAN_REVIEW", status |-> "rejected"],
    [blocks |-> p.review = "self", decision |-> "REJECT_SELF_APPROVAL", status |-> "rejected"],
    [blocks |-> p.review # "approved", decision |-> "REJECT_MISSING_HUMAN_REVIEW", status |-> "rejected"],
    [blocks |-> TRUE, decision |-> "APPROVE_OUTPUT", status |-> "approved"]>>

authoring_outcome(p) ==
    LET gates == AuthoringGates(source_packet(p))
    IN  gates[CHOOSE i \in DOMAIN gates : gates[i].blocks /\ \A j \in 1..(i - 1) : ~gates[j].blocks]

----------------------------------------------------------------------------
(* A result file: absent, cut off, or the manifest's verdict on a packet    *)
(* and whether it names a canonical ledger entry.                           *)
Absent == [holds |-> "absent", packet |-> 0, status |-> "none", entry |-> FALSE]
CutOff == [Absent EXCEPT !.holds = "part"]
ResultOf(p, governed) == [holds |-> "all", packet |-> p, status |-> authoring_outcome(p).status, entry |-> governed]

Resting == [left |-> <<>>, todo |-> <<>>, governed |-> FALSE, bundle |-> FALSE, prev |-> 0, passed |-> TRUE]

(* Mutant: the result is written before the decision is recorded. *)
ResultFirst == <<"write", "read", "append", "next">>

PacketSteps == <<"read", "append", "write", "next">>
StepsFor(governed) == IF governed THEN PacketSteps ELSE <<"write", "next">>

AuthInit ==
    /\ result = [f \in ResultFiles |-> Absent]
    /\ auth_ledger = EmptyLedger
    /\ demo_summary = "absent"
    /\ command = [c \in Commands |-> Resting]
    /\ issued = 0 /\ command_kills = 0

Issue(c, job) ==
    /\ command[c] = Resting
    /\ issued < MaxCommands
    /\ issued' = issued + 1
    /\ command' = [command EXCEPT ![c] = [job EXCEPT !.todo = StepsFor(job.governed)]]
    /\ UNCHANGED <<result, auth_ledger, demo_summary, command_kills>>

(* verify-static-export of the router or, unguarded, of the plain command.  *)
verify_static_export(c, p, f, governed, guarded) ==
    /\ guarded => result[f].holds = "absent"
    /\ Issue(c, [Resting EXCEPT !.left = <<[packet |-> p, file |-> f]>>, !.governed = governed])

FixtureList == [i \in 1..Cardinality(ResultFiles) |-> [packet |-> Fixtures[i], file |-> i]]

run_demo_bundle(c, governed) ==
    /\ \A f \in ResultFiles : result[f].holds = "absent"
    /\ demo_summary = "absent"
    /\ Issue(c, [Resting EXCEPT !.left = FixtureList, !.governed = governed, !.bundle = TRUE])

Awaits(c, step) == command[c].todo # <<>> /\ Head(command[c].todo) = step
Packet(c) == Head(command[c].left).packet
Target(c) == Head(command[c].left).file
Advance(c) == command' = [command EXCEPT ![c].todo = Tail(@)]

(* An unreadable ledger raises.                                             *)
ReadAuthLedger(c) ==
    /\ Awaits(c, "read")
    /\ command' = [command EXCEPT ![c] = IF Readable(auth_ledger)
           THEN [command[c] EXCEPT !.todo = Tail(@), !.prev = Len(auth_ledger.entries)] ELSE Resting]
    /\ UNCHANGED <<result, auth_ledger, demo_summary, issued, command_kills>>

AppendAuthDecision(c) ==
    /\ Awaits(c, "append")
    /\ auth_ledger' = WriteEntry(auth_ledger,
           build_ledger_entry(Target(c), authoring_outcome(Packet(c)).decision, Packet(c), command[c].prev))
    /\ Advance(c)
    /\ UNCHANGED <<result, demo_summary, issued, command_kills>>

write_static_import_packet(c) ==
    /\ Awaits(c, "write")
    /\ result' = [result EXCEPT ![Target(c)] = ResultOf(Packet(c), command[c].governed)]
    /\ Advance(c)
    /\ UNCHANGED <<auth_ledger, demo_summary, issued, command_kills>>

(* The next fixture; behind the last of a bundle its summary.               *)
NextPacket(c) ==
    /\ Awaits(c, "next")
    /\ LET job == [command[c] EXCEPT !.left = Tail(@),
                       !.passed = @ /\ authoring_outcome(Packet(c)).status = Packet(c).expected]
       IN  IF job.left = <<>>
           THEN /\ demo_summary' = IF ~job.bundle THEN demo_summary
                                   ELSE IF job.passed THEN "passed" ELSE "failed"
                /\ command' = [command EXCEPT ![c] = Resting]
           ELSE /\ command' = [command EXCEPT ![c] = [job EXCEPT !.todo = StepsFor(job.governed)]]
                /\ UNCHANGED demo_summary
    /\ UNCHANGED <<result, auth_ledger, issued, command_kills>>

CommandKilled(c) ==
    /\ command[c] # Resting
    /\ command_kills < MaxCommandKills
    /\ command_kills' = command_kills + 1
    /\ \/ UNCHANGED <<auth_ledger, result>>
       \/ Awaits(c, "append") /\ auth_ledger' = TornWrite(auth_ledger) /\ UNCHANGED result
       \/ Awaits(c, "write") /\ result' = [result EXCEPT ![Target(c)] = CutOff] /\ UNCHANGED auth_ledger
    /\ command' = [command EXCEPT ![c] = Resting]
    /\ UNCHANGED <<demo_summary, issued>>

AuthNext ==
    \E c \in Commands :
        \/ \E p \in Exports, f \in ResultFiles, governed, guarded \in BOOLEAN :
               verify_static_export(c, p, f, governed, guarded)
        \/ \E governed \in BOOLEAN : run_demo_bundle(c, governed)
        \/ ReadAuthLedger(c) \/ AppendAuthDecision(c) \/ write_static_import_packet(c)
        \/ NextPacket(c) \/ CommandKilled(c)

AuthSpec == AuthInit /\ [][AuthNext]_auth_vars

----------------------------------------------------------------------------
AuthTypeOK ==
    /\ \A f \in ResultFiles : result[f].holds \in {"absent", "part", "all"}
    /\ demo_summary \in {"absent", "passed", "failed"}
    /\ \A c \in Commands : Len(command[c].left) <= Cardinality(ResultFiles)

(* Whatever is killed and whoever overwrites whom: a file that says approved*)
(* answers a packet with source, evidence, no blocking tension and an       *)
(* approved human review, and if it names a canonical entry, a ledger that  *)
(* can still be read holds that approval.                                   *)
ApprovedIsBacked ==
    \A f \in ResultFiles :
        LET r == result[f] IN r.status = "approved" =>
            /\ r.packet.material /\ r.packet.refs /\ ~r.packet.blocking /\ r.packet.review = "approved"
            /\ r.entry /\ Readable(auth_ledger) =>
                 \E k \in DOMAIN auth_ledger.entries :
                     /\ auth_ledger.entries[k].about = r.packet
                     /\ auth_ledger.entries[k].decision = "APPROVE_OUTPUT"
=============================================================================
