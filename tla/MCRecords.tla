------------------------------ MODULE MCRecords ------------------------------
(***************************************************************************)
(* Small instances of the modules that keep records: formal governance,    *)
(* claims, governed authoring, the operator runtime, publications,         *)
(* reflective records, the review of reports, and imports into the         *)
(* retention ledgers.  One at a time, the others at rest.                  *)
(***************************************************************************)
EXTENDS ClaimEngine, GovernedAuthoring, OperatorRuntime, WtpuPublication, ReflectiveLedgers, ReviewLoop, TLC

VARIABLE part

(* FormalGovernance: two versions of a promotion, one without an approved   *)
(* trigger, one that is only admitted.                                      *)
PackFixture(transition, request, lacks, version) ==
    [transition |-> transition, request |-> request, lacks |-> lacks, version |-> version]
PackFixtures == {
    PackFixture(1, Promote, {}, 1), PackFixture(1, Promote, {}, 2),
    PackFixture(1, Promote, {"approved_trigger", "rollback"}, 1),
    PackFixture(2, "ADMIT_ARTIFACT", {"rollback"}, 1)}

(* GovernedAuthoring: approved, self-approved, blocked, vague.              *)
Export(bridged, requested, mode, refs, blocking, review, expected) ==
    [bridged |-> bridged, requested |-> requested, mode |-> mode, material |-> TRUE, refs |-> refs,
     blocking |-> blocking, review |-> review, expected |-> expected]
GoodExport == Export(TRUE, "publication_ready", "", TRUE, FALSE, "approved", "approved")
SelfExport == Export(TRUE, "approved", "provisional", TRUE, FALSE, "self", "rejected")
AuthoringExports == {
    GoodExport, SelfExport,
    Export(FALSE, "final", "final", TRUE, TRUE, "approved", "deferred"),
    Export(TRUE, "whatever", "", FALSE, FALSE, "none", "provisional")}
DemoFixtures == <<GoodExport, SelfExport>>

(* RetentionLedger: two imports and additions of one contact.               *)
CONSTANT NoEmail
VARIABLES events, transitions, contacts, dispatches, batches, writing, lost
TheContact == "c1"
ASSUME AddressAssumption == NoEmail # TheContact
OneFile == {<<[contact |-> TheContact, status |-> "unsubscribed"]>>}
Ledgers == INSTANCE RetentionLedger WITH
    Writers <- Operators, Contacts <- {TheContact}, CliKey <- "cli",
    Keys <- {"cli", "active", "pending", "unsubscribed", "other"}, PlanFlags <- {TRUE, FALSE},
    CliConsents <- {"opted_in"}, CsvFiles <- OneFile, MaxEvents <- 3, job <- writing
ledger_vars == <<events, transitions, contacts, dispatches, batches, writing, lost>>

(* Two actors, whatever they run, are interchangeable.                     *)
Actors == Permutations(Operators)

all_vars == <<part, pack_vars, claim_vars, auth_vars, op_vars, pub_vars, reflect_vars, review_vars, ledger_vars>>

Init ==
    /\ part \in {"packs", "claims", "authoring", "operator", "publication", "reflective", "corpus", "review", "imports"}
    /\ PackInit /\ ClaimInit /\ AuthInit /\ OpInit /\ PubInit /\ ReviewInit /\ Ledgers!Init
    /\ ReflectInit(IF part = "reflective" THEN {PressureHistory}
                   ELSE IF part = "corpus" THEN {<<>>, CorpusHistory, DetectedHistory} ELSE {<<>>})
    /\ part # "packs" => fixture = [f \in FixtureFiles |-> CHOOSE p \in FixtureContents : TRUE]
    /\ part # "claims" => inbox = {}
    /\ part # "review" => artifacts[1] = "whole"
    /\ part # "publication" => pub = EmptyProjection

Next ==
    \/ /\ part = "packs" /\ PackNext
       /\ UNCHANGED <<part, claim_vars, auth_vars, op_vars, pub_vars, reflect_vars, review_vars, ledger_vars>>
    \/ /\ part = "claims" /\ ClaimNext
       /\ UNCHANGED <<part, pack_vars, auth_vars, op_vars, pub_vars, reflect_vars, review_vars, ledger_vars>>
    \/ /\ part = "authoring" /\ AuthNext
       /\ UNCHANGED <<part, pack_vars, claim_vars, op_vars, pub_vars, reflect_vars, review_vars, ledger_vars>>
    \/ /\ part = "operator" /\ OpNext
       /\ UNCHANGED <<part, pack_vars, claim_vars, auth_vars, pub_vars, reflect_vars, review_vars, ledger_vars>>
    \/ /\ part = "publication" /\ PubNext
       /\ UNCHANGED <<part, pack_vars, claim_vars, auth_vars, op_vars, reflect_vars, review_vars, ledger_vars>>
    \/ /\ part = "imports" /\ Ledgers!Next
       /\ UNCHANGED <<part, pack_vars, claim_vars, auth_vars, op_vars, pub_vars, reflect_vars, review_vars>>
    \/ /\ part = "reflective" /\ PressureNext
       /\ UNCHANGED <<part, pack_vars, claim_vars, auth_vars, op_vars, pub_vars, review_vars, ledger_vars>>
    \/ /\ part = "corpus" /\ CorpusNext
       /\ UNCHANGED <<part, pack_vars, claim_vars, auth_vars, op_vars, pub_vars, review_vars, ledger_vars>>
    \/ /\ part = "review" /\ ReviewNext
       /\ UNCHANGED <<part, pack_vars, claim_vars, auth_vars, op_vars, pub_vars, reflect_vars, ledger_vars>>

Spec == Init /\ [][Next]_all_vars

TypeOK == PackTypeOK /\ ClaimTypeOK /\ AuthTypeOK /\ OpTypeOK /\ PubTypeOK /\ ReflectTypeOK /\ ReviewTypeOK

(* RetentionLedger's property, for two processes at a time.                 *)
LostAppendStaysReported == Ledgers!LostAppendStaysReported
=============================================================================
