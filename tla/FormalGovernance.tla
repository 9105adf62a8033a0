---------------------------- MODULE FormalGovernance ----------------------------
(***************************************************************************)
(* Formal governance (signal_agent/formal_governance): a proposed transition*)
(* is put through nine gates in a fixed order and the decision is appended *)
(* to a hash-chained ledger.  An append reads the ledger, builds the entry *)
(* on its last line and writes it, without a lock; a ledger whose last line*)
(* was torn by a killed writer cannot be read again.                       *)
(*                                                                         *)
(* The proof pack runs the gates over the fixtures of a directory, one     *)
(* after the other, on one ledger per output directory.  It is run again,  *)
(* also at the same time, and fixtures are edited between the runs.        *)
(*                                                                         *)
(* A proposal is the transition it is about, the decision it requests, what*)
(* the gates find missing, and a version of everything its identity leaves *)
(* out: timestamps, evidence, trigger, wording.                            *)
(***************************************************************************)
EXTENDS Naturals, Sequences, FiniteSets

CONSTANTS
    Packs,           \* runs of the proof pack that may overlap
    FixtureFiles,    \* 1..n, in run order
    FixtureContents, \* proposals a fixture may hold
    MaxPackRuns,     \* bound: runs started
    MaxTorn          \* bound: writers killed inside a write

ASSUME FixtureAssumption ==
    /\ IsFiniteSet(FixtureFiles) /\ FixtureFiles = 1..Cardinality(FixtureFiles)
    /\ FixtureContents # {}

Promote == "PROMOTE_TO_STATE"
Requests == {Promote, "ADMIT_ARTIFACT", "CONSOLIDATE_ONLY"}

(* The gates in order.  `always' is FALSE for those that only look at       *)
(* promotions.                                                              *)
Gates == <<
    [lacks |-> "lineage",             always |-> TRUE,  outcome |-> "REJECT_INVALID_LINEAGE"],
    [lacks |-> "invariant",           always |-> TRUE,  outcome |-> "REJECT_MISSING_INVARIANT"],
    [lacks |-> "branch_vector",       always |-> TRUE,  outcome |-> "REJECT_INVALID_LINEAGE"],
    [lacks |-> "consolidation",       always |-> FALSE, outcome |-> "REJECT_RAW_ARTIFACT_SELF_PROMOTION"],
    [lacks |-> "evidence",            always |-> FALSE, outcome |-> "REJECT_MISSING_EVIDENCE"],
    [lacks |-> "evidence_for_claims", always |-> TRUE,  outcome |-> "REJECT_MISSING_EVIDENCE"],
    [lacks |-> "settled_tensions",    always |-> FALSE, outcome |-> "DEFER_UNRESOLVED_TENSION"],
    [lacks |-> "human_trigger",       always |-> FALSE, outcome |-> "REJECT_MISSING_AUTHORITY"],
    [lacks |-> "independent_trigger", always |-> FALSE, outcome |-> "REJECT_SELF_CERTIFICATION"],
    [lacks |-> "approved_trigger",    always |-> FALSE, outcome |-> "REJECT_MISSING_AUTHORITY"],
    [lacks |-> "rollback",            always |-> FALSE, outcome |-> "REJECT_MISSING_ROLLBACK"]>>

is_state_promotion(p) == p.request = Promote

(* Mutant: the identity covers the whole content of the proposal. *)
ContentIdentity(p) == <<p.transition, p.request, p.version>>

deterministic_transition_id(p) == <<p.transition, p.request>>

duplicate(p, prior) ==
    /\ is_state_promotion(p)
    /\ \E i \in DOMAIN prior : /\ prior[i].id = deterministic_transition_id(p)
                               /\ prior[i].decision = Promote

evaluate_transition(p, prior) ==
    LET blocking == {i \in DOMAIN Gates : /\ Gates[i].lacks \in p.lacks
                                          /\ Gates[i].always \/ is_state_promotion(p)}
        first    == CHOOSE i \in blocking : \A j \in blocking : i <= j
    IN  CASE blocking # {}                        -> Gates[first].outcome
          [] blocking = {} /\ duplicate(p, prior) -> "BLOCK_DUPLICATE"
          [] OTHER -> IF p.request \in Requests THEN p.request ELSE "MANUAL_REVIEW_REQUIRED"

----------------------------------------------------------------------------
(* A ledger file: its entries, and whether a fragment follows them.         *)
EmptyLedger == [entries |-> <<>>, torn |-> FALSE]
Readable(ledger) == ~ledger.torn

(* `prev' is the number of entries the append had read, standing for the    *)
(* hash of the last of them.                                                *)
build_ledger_entry(id, decision, about, prev) ==
    [id |-> id, decision |-> decision, about |-> about, prev |-> prev]
(* A line written behind a fragment is part of it.                          *)
WriteEntry(ledger, entry) ==
    IF Readable(ledger) THEN [ledger EXCEPT !.entries = Append(@, entry)] ELSE ledger
TornWrite(ledger) == [ledger EXCEPT !.torn = TRUE]

----------------------------------------------------------------------------
VARIABLES
    fixture,      \* file -> proposal
    pack_ledger,  \* governed_transition_ledger.jsonl
    pack,         \* run -> what it is doing
    pack_rows,    \* decisions.jsonl, rewritten by each completed run
    pack_runs,
    torn_writes

pack_vars == <<fixture, pack_ledger, pack, pack_rows, pack_runs, torn_writes>>

IdlePack == [pc |-> "idle", next |-> 0, proposal |-> CHOOSE p \in FixtureContents : TRUE,
             decision |-> "none", seen |-> 0, prev |-> 0, rows |-> <<>>]

PackInit ==
    /\ fixture \in [FixtureFiles -> FixtureContents]
    /\ pack_ledger = EmptyLedger
    /\ pack = [k \in Packs |-> IdlePack]
    /\ pack_rows = <<>>
    /\ pack_runs = 0
    /\ torn_writes = 0

SetPack(k, job) == pack' = [pack EXCEPT ![k] = job]

StartPack(k) ==
    /\ pack[k].pc = "idle"
    /\ pack_runs < MaxPackRuns
    /\ pack_runs' = pack_runs + 1
    /\ SetPack(k, [IdlePack EXCEPT !.pc = "evaluate", !.next = 1])
    /\ UNCHANGED <<fixture, pack_ledger, pack_rows, torn_writes>>

(* Reads fixture and ledger and decides; an unreadable ledger ends the run. *)
EvaluateFixture(k) ==
    /\ pack[k].pc = "evaluate"
    /\ pack[k].next \in FixtureFiles
    /\ LET p == fixture[pack[k].next]
       IN  IF Readable(pack_ledger)
           THEN SetPack(k, [pack[k] EXCEPT !.pc = "read", !.proposal = p,
                                           !.seen = Len(pack_ledger.entries),
                                           !.decision = evaluate_transition(p, pack_ledger.entries)])
           ELSE SetPack(k, IdlePack)
    /\ UNCHANGED <<fixture, pack_ledger, pack_rows, pack_runs, torn_writes>>

(* append_ledger_entry reads the ledger again for the hash to chain to.     *)
ReadForAppend(k) ==
    /\ pack[k].pc = "read"
    /\ IF Readable(pack_ledger)
       THEN SetPack(k, [pack[k] EXCEPT !.pc = "write", !.prev = Len(pack_ledger.entries)])
       ELSE SetPack(k, IdlePack)
    /\ UNCHANGED <<fixture, pack_ledger, pack_rows, pack_runs, torn_writes>>

AppendDecision(k) ==
    /\ pack[k].pc = "write"
    /\ pack_ledger' = WriteEntry(pack_ledger,
           build_ledger_entry(deterministic_transition_id(pack[k].proposal), pack[k].decision,
                              [transition |-> pack[k].proposal.transition, seen |-> pack[k].seen], pack[k].prev))
    /\ SetPack(k, [pack[k] EXCEPT !.pc = "evaluate", !.next = @ + 1, !.rows = Append(@, pack[k].decision)])
    /\ UNCHANGED <<fixture, pack_rows, pack_runs, torn_writes>>

FinishPack(k) ==
    /\ pack[k].pc = "evaluate"
    /\ pack[k].next \notin FixtureFiles
    /\ pack_rows' = pack[k].rows
    /\ SetPack(k, IdlePack)
    /\ UNCHANGED <<fixture, pack_ledger, pack_runs, torn_writes>>

PackKilled(k) ==
    /\ pack[k].pc # "idle"
    /\ torn_writes < MaxTorn
    /\ torn_writes' = torn_writes + 1
    /\ \/ UNCHANGED pack_ledger
       \/ pack[k].pc = "write" /\ pack_ledger' = TornWrite(pack_ledger)
    /\ SetPack(k, IdlePack)
    /\ UNCHANGED <<fixture, pack_rows, pack_runs>>

EditFixture(f) ==
    /\ \A k \in Packs : pack[k].pc = "idle"
    /\ \E p \in FixtureContents : fixture' = [fixture EXCEPT ![f] = p]
    /\ UNCHANGED <<pack_ledger, pack, pack_rows, pack_runs, torn_writes>>

PackNext ==
    \/ \E k \in Packs : \/ StartPack(k) \/ EvaluateFixture(k) \/ ReadForAppend(k)
                        \/ AppendDecision(k) \/ FinishPack(k) \/ PackKilled(k)
    \/ \E f \in FixtureFiles : EditFixture(f)

PackSpec == PackInit /\ [][PackNext]_pack_vars

----------------------------------------------------------------------------
PackTypeOK ==
    /\ fixture \in [FixtureFiles -> FixtureContents]
    /\ \A k \in Packs : pack[k].proposal \in FixtureContents /\ pack[k].seen <= Len(pack_ledger.entries)
    /\ Len(pack_rows) \in {0, Cardinality(FixtureFiles)}

(* However often the pack runs, dies and finds its fixtures edited, a       *)
(* transition is promoted a second time only by an evaluation that had read *)
(* the ledger before the first promotion was in it.                         *)
PromotedOnce ==
    \A j \in DOMAIN pack_ledger.entries :
        LET e == pack_ledger.entries[j]
        IN  \A i \in 1..(j - 1) :
              LET d == pack_ledger.entries[i]
              IN  d.decision = Promote /\ e.decision = Promote
                      /\ d.about.transition = e.about.transition => e.about.seen < i
=============================================================================
