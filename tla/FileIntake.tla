------------------------------ MODULE FileIntake ------------------------------
(***************************************************************************)
(* The batch intake of files (app/intake/intake.py).  A scan reads once    *)
(* what the ledger calls ingested, then takes every file: it is hashed,    *)
(* skipped when that hash is the last one ingested, else extracted, stored *)
(* under the hash of its text unless a file of that name exists, and noted *)
(* in the ledger.  Scans overlap, files are rewritten meanwhile, and the   *)
(* operator's intake tool appends to the same ledger.                      *)
(*                                                                         *)
(* A document stands for its hash, and its text for the name it is stored  *)
(* under; several documents may have one text.  Left out: directories that *)
(* are ignored, the posture event, the summary, and the two stamps in the  *)
(* gate's ledger, which are best effort and nobody reads.                  *)
(***************************************************************************)
EXTENDS Naturals, Sequences, FiniteSetsExt

CONSTANTS
    Scanners,        \* scans that may overlap
    Paths,
    Documents,       \* records of class and text
    NoDocument,
    OperatorHash,    \* the operator's source_sha256: a hash of the path
    MaxScans,        \* bound: scans started
    MaxSourceEdits,  \* bound: files rewritten
    MaxIntakeFaults  \* bound: scans killed, appends that fail

ASSUME IntakeAssumption == NoDocument \notin Documents

VARIABLES
    source,           \* path -> document
    snapshot,         \* text -> "absent", "part" or "whole": the files in text/
    intake_events,    \* intake.jsonl
    operator_intake,  \* path -> how far the operator's intake of it has got
    scanner, scans, source_edits, intake_faults

intake_vars == <<source, snapshot, intake_events, operator_intake, scanner, scans, source_edits, intake_faults>>

Snapshots == {d.text : d \in Documents}
IdleScanner == [pc |-> "idle", left |-> {}, since |-> 0, ledger_cache |-> <<>>, path |-> "",
                sha |-> NoDocument, text |-> "", status |-> "", mixed |-> FALSE]

IntakeInit ==
    /\ source \in [Paths -> Documents]
    /\ snapshot = [t \in Snapshots |-> "absent"]
    /\ intake_events = <<>>
    /\ operator_intake = [p \in Paths |-> "none"]
    /\ scanner = [s \in Scanners |-> IdleScanner]
    /\ scans = 0 /\ source_edits = 0 /\ intake_faults = 0

IsDoing(s, step) == scanner[s].pc = step
Goes(s, job) == scanner' = [scanner EXCEPT ![s] = job]

(* Of each path the hash of its last success. *)
Successes(p) == {i \in DOMAIN intake_events : intake_events[i].path = p /\ intake_events[i].status = "success"}
(* Mutant: the first success of a path wins. *)
load_first == [p \in Paths |-> IF Successes(p) = {} THEN NoDocument ELSE intake_events[Min(Successes(p))].sha]
load_ledger == [p \in Paths |-> IF Successes(p) = {} THEN NoDocument ELSE intake_events[Max(Successes(p))].sha]

StartScan(s) ==
    /\ IsDoing(s, "idle")
    /\ scans < MaxScans
    /\ scans' = scans + 1
    /\ Goes(s, [IdleScanner EXCEPT !.pc = "next", !.left = Paths, !.since = Len(intake_events),
                                   !.ledger_cache = load_ledger])
    /\ UNCHANGED <<source, snapshot, intake_events, operator_intake, source_edits, intake_faults>>

FinishScan(s) ==
    /\ IsDoing(s, "next") /\ scanner[s].left = {}
    /\ Goes(s, IdleScanner)
    /\ UNCHANGED <<source, snapshot, intake_events, operator_intake, scans, source_edits, intake_faults>>

(* process_file: size and type are looked at before the hash; a file too    *)
(* large stands for every file that is only noted.                          *)
TakeFile(s, p) ==
    /\ IsDoing(s, "next") /\ p \in scanner[s].left
    /\ LET job == [scanner[s] EXCEPT !.left = @ \ {p}, !.path = p, !.text = "", !.mixed = FALSE]
           noted(status, sha) == [job EXCEPT !.pc = "log", !.status = status, !.sha = sha]
       IN  \/ source[p].class = "too_large" /\ Goes(s, noted("skipped_too_large", NoDocument))
           \/ /\ source[p].class # "too_large" /\ source[p] = job.ledger_cache[p]
              /\ Goes(s, noted("skipped_unchanged", source[p]))
           \/ /\ source[p].class # "too_large" /\ source[p] # job.ledger_cache[p]
              /\ Goes(s, [job EXCEPT !.pc = "extract", !.sha = source[p]])
    /\ UNCHANGED <<source, snapshot, intake_events, operator_intake, scans, source_edits, intake_faults>>

(* The file is read again for its text; a text that is empty, or cannot be  *)
(* extracted, is an error.                                                  *)
Extract(s) ==
    /\ IsDoing(s, "extract")
    /\ LET found == source[scanner[s].path]
       IN  Goes(s, IF found.class = "empty"
                   THEN [scanner[s] EXCEPT !.pc = "log", !.status = "error", !.sha = NoDocument]
                   ELSE [scanner[s] EXCEPT !.pc = "look", !.text = found.text, !.status = "success"])
    /\ UNCHANGED <<source, snapshot, intake_events, operator_intake, scans, source_edits, intake_faults>>

(* Storage: a name that exists is taken for the text; otherwise the file is *)
(* opened for writing, which empties it, and filled.                        *)
LookForSnapshot(s) ==
    /\ IsDoing(s, "look")
    /\ Goes(s, [scanner[s] EXCEPT !.pc = IF snapshot[scanner[s].text] = "absent" THEN "open" ELSE "log"])
    /\ UNCHANGED <<source, snapshot, intake_events, operator_intake, scans, source_edits, intake_faults>>

StoreSnapshot(s) ==
    /\ \/ /\ IsDoing(s, "open")
          /\ snapshot' = [snapshot EXCEPT ![scanner[s].text] = "part"]
          /\ Goes(s, [scanner[s] EXCEPT !.pc = "fill"])
       \/ /\ IsDoing(s, "fill")
          /\ snapshot' = [snapshot EXCEPT ![scanner[s].text] = "whole"]
          /\ Goes(s, [scanner[s] EXCEPT !.pc = "log"])
    /\ UNCHANGED <<source, intake_events, operator_intake, scans, source_edits, intake_faults>>

Event(job) == [path |-> job.path, sha |-> job.sha, text |-> job.text, status |-> job.status,
               since |-> job.since, mixed |-> job.mixed]

CacheAfter(job) == IF job.status = "success" THEN [job.ledger_cache EXCEPT ![job.path] = job.sha] ELSE job.ledger_cache

append_event(s) ==
    /\ IsDoing(s, "log")
    /\ intake_events' = Append(intake_events, Event(scanner[s]))
    /\ Goes(s, [scanner[s] EXCEPT !.pc = "next", !.ledger_cache = CacheAfter(scanner[s])])
    /\ UNCHANGED <<source, snapshot, operator_intake, scans, source_edits, intake_faults>>

(* An append that fails inside the try of process_file is itself noted as   *)
(* an error; outside of it, it ends the scan.                               *)
AppendFails(s) ==
    /\ IsDoing(s, "log")
    /\ intake_faults < MaxIntakeFaults
    /\ intake_faults' = intake_faults + 1
    /\ Goes(s, IF scanner[s].status \in {"success", "skipped_unchanged"}
               THEN [scanner[s] EXCEPT !.status = "error", !.sha = NoDocument, !.text = ""] ELSE IdleScanner)
    /\ UNCHANGED <<source, snapshot, intake_events, operator_intake, scans, source_edits>>

ScanKilled(s) ==
    /\ ~IsDoing(s, "idle")
    /\ intake_faults < MaxIntakeFaults
    /\ intake_faults' = intake_faults + 1
    /\ Goes(s, IdleScanner)
    /\ UNCHANGED <<source, snapshot, intake_events, operator_intake, scans, source_edits>>

RewriteSource(p, d) ==
    /\ source_edits < MaxSourceEdits
    /\ source_edits' = source_edits + 1
    /\ source' = [source EXCEPT ![p] = d]
    /\ scanner' = [s \in Scanners |-> [scanner[s] EXCEPT !.mixed = @ \/ (IsDoing(s, "extract") /\ scanner[s].path = p)]]
    /\ UNCHANGED <<snapshot, intake_events, operator_intake, scans, intake_faults>>

(* The operator's intake tool: refused when the ledger names the path with  *)
(* whatever status, which is looked up before the tool runs.                *)
OperatorIntake(p) ==
    /\ \/ /\ operator_intake[p] = "none"
          /\ \A i \in DOMAIN intake_events : intake_events[i].path # p
          /\ operator_intake' = [operator_intake EXCEPT ![p] = "allowed"]
          /\ UNCHANGED intake_events
       \/ /\ operator_intake[p] = "allowed"
          /\ operator_intake' = [operator_intake EXCEPT ![p] = "done"]
          /\ intake_events' = Append(intake_events, Event([IdleScanner EXCEPT !.path = p, !.sha = OperatorHash,
                                                                              !.status = "success"]))
    /\ UNCHANGED <<source, snapshot, scanner, scans, source_edits, intake_faults>>

IntakeNext ==
    \/ \E s \in Scanners :
        \/ StartScan(s) \/ FinishScan(s) \/ (\E p \in Paths : TakeFile(s, p))
        \/ Extract(s) \/ LookForSnapshot(s) \/ StoreSnapshot(s) \/ append_event(s)
        \/ AppendFails(s) \/ ScanKilled(s)
    \/ \E p \in Paths : OperatorIntake(p) \/ \E d \in Documents \ {source[p]} : RewriteSource(p, d)

IntakeSpec == IntakeInit /\ [][IntakeNext]_intake_vars

-----------------------------------------------------------------------------
IntakeTypeOK ==
    /\ source \in [Paths -> Documents]
    /\ snapshot \in [Snapshots -> {"absent", "part", "whole"}]
    /\ \A i \in DOMAIN intake_events : intake_events[i].path \in Paths
    /\ \A s \in Scanners : scanner[s].left \subseteq Paths

(* However scans overlap, fail or are killed and files change under them: a *)
(* document noted as ingested has its whole text in the store, unless that  *)
(* file is being written again or a scan was killed; the text is that of    *)
(* the document unless the file changed between its hash and its text; a    *)
(* file is skipped only when what it holds is the last thing ingested from  *)
(* it when the scan began; and a scan leaves an event for every file it has *)
(* passed (process_file, "Idempotency Check" and "Storage (CAS)").          *)
IngestedIsStored ==
    /\ \A i \in DOMAIN intake_events :
           LET e == intake_events[i]
           IN  /\ e.status = "success" /\ e.sha # OperatorHash =>
                      /\ \/ snapshot[e.text] = "whole"
                         \/ /\ snapshot[e.text] = "part"
                            /\ intake_faults > 0 \/ \E s \in Scanners : IsDoing(s, "fill") /\ scanner[s].text = e.text
                      /\ e.text = e.sha.text \/ e.mixed
               /\ e.status = "skipped_unchanged" =>
                      \E j \in Successes(e.path) : /\ j <= e.since /\ intake_events[j].sha = e.sha
                                                   /\ \A k \in Successes(e.path) : k <= j \/ k > e.since
    /\ \A s \in Scanners : ~IsDoing(s, "idle") =>
           \A p \in Paths \ (scanner[s].left \cup {scanner[s].path}) :
               \E i \in (scanner[s].since + 1)..Len(intake_events) : intake_events[i].path = p
=============================================================================
