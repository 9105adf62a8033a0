------------------------------ MODULE ReviewLoop ------------------------------
(***************************************************************************)
(* The review of self-observation reports in signal_agent/analytics: a     *)
(* report is written (self_observation.py), a review artifact is created   *)
(* from a candidate it names, decisions about the artifact are appended    *)
(* to decisions.jsonl (review_loop.py), and an artifact whose latest       *)
(* decision accepts it (review_state.py) is handed on as an intake         *)
(* candidate (proposal_intake.py).  No command takes a lock.               *)
(*                                                                         *)
(* An artifact is named by a hash of the report and of the options it was  *)
(* created with; one candidate and one set of options are followed, so the *)
(* version of the report names it.  The Markdown beside a JSON file is     *)
(* left out: it is written second and nobody reads it.                     *)
(***************************************************************************)
EXTENDS Naturals, Sequences

CONSTANTS
    Reviewers,
    DecisionStates,  \* some of ALLOWED_DECISION_STATES
    Moments,         \* values of --decided-at, which the caller chooses
    MaxReports,      \* bound: versions of the report
    MaxReviews,      \* bound: commands
    MaxReviewKills   \* bound: commands killed

ASSUME ReviewAssumption == MaxReports \in Nat \ {0} /\ "malformed" \notin DecisionStates

VARIABLES
    report,          \* version of the report on file, and whether it is whole
    artifacts,       \* version -> its artifact: "none", "torn" or "whole"
    decisions,       \* lines of decisions.jsonl
    intakes,         \* candidates created, with the length of the log before
    reviewing,       \* command in progress
    recorded,        \* decisions whose command succeeded
    twins,           \* the same decision was being recorded twice at once
    reviews, review_kills

review_vars == <<report, artifacts, decisions, intakes, reviewing, recorded, twins, reviews, review_kills>>

Accepted == "accepted_for_proposal"
Versions == 1..MaxReports
DecisionRow(v, s, t) == [version |-> v, state |-> s, at |-> t]
TornLine == DecisionRow(0, "malformed", 0)
IsTorn(line) == line.state = "malformed"
IdleReview == [op |-> "none", pc |-> "idle", decision |-> TornLine, line |-> 0, began |-> 0]

ReviewInit ==
    /\ report = [version |-> 1, whole |-> TRUE]
    /\ artifacts \in {[v \in Versions |-> IF v = 1 THEN file ELSE "none"] : file \in {"none", "whole"}}
    /\ decisions = <<>> /\ intakes = {} /\ recorded = {} /\ twins = FALSE
    /\ reviewing = [r \in Reviewers |-> IdleReview]
    /\ reviews = 0 /\ review_kills = 0

----------------------------------------------------------------------------
(* Reading decisions.jsonl.                                                 *)
Malformed(log) == \E i \in 1..Len(log) : IsTorn(log[i])
DuplicateId(log) == \E i, j \in 1..Len(log) : i < j /\ log[i] = log[j]
Matching(log, v) == {i \in 1..Len(log) : log[i].version = v}

(* resolve_review_state: the line of the decision that counts, or 0 when    *)
(* only the initial state of the artifact does.                             *)
(* Mutant: the first decision counts. *)
EarliestDecision(log, v) ==
    IF Matching(log, v) = {} THEN 0 ELSE CHOOSE i \in Matching(log, v) : \A j \in Matching(log, v) : i <= j
LatestDecision(log, v) ==
    IF Matching(log, v) = {} THEN 0 ELSE CHOOSE i \in Matching(log, v) : \A j \in Matching(log, v) : j <= i

Resolvable(log) == ~Malformed(log) /\ ~DuplicateId(log)

----------------------------------------------------------------------------
(* A report, or one that is read or killed while it is being written; what  *)
(* it says changes with the logs it observes.                               *)
NextReport(whole) ==
    [version |-> IF report.version < MaxReports THEN report.version + 1 ELSE report.version, whole |-> whole]

WriteReport(whole) ==
    /\ report.version < MaxReports \/ (~report.whole /\ whole)
    /\ report' = NextReport(whole)
    /\ UNCHANGED <<artifacts, decisions, intakes, reviewing, recorded, twins, reviews, review_kills>>

Goto(r, pc) == reviewing' = [reviewing EXCEPT ![r].pc = pc]
End(r) == reviewing' = [reviewing EXCEPT ![r] = IdleReview]
Untouched == UNCHANGED <<report, recorded, twins, reviews, review_kills>>

(* What the command starts with: the report, or the artifact.               *)
Startable(op, v) == IF op = "create" THEN report.whole /\ report.version = v ELSE artifacts[v] = "whole"
FirstStep(op) == CASE op = "create" -> "exists" [] op = "decide" -> "check" [] OTHER -> "resolve"

BeginReview(r, op, decision) ==
    /\ reviewing[r].pc = "idle"
    /\ reviews < MaxReviews
    /\ reviews' = reviews + 1
    /\ Startable(op, decision.version)
    /\ reviewing' = [reviewing EXCEPT ![r] = [op |-> op, pc |-> FirstStep(op), decision |-> decision,
                                       line |-> 0, began |-> Len(decisions)]]
    /\ twins' = (twins \/ (op = "decide" /\ \E s \in Reviewers \ {r} :
                               reviewing[s].op = "decide" /\ reviewing[s].decision = decision))
    /\ UNCHANGED <<report, artifacts, decisions, intakes, recorded, review_kills>>

(* create_review_artifact: the file is written in place.                    *)
ArtifactExists(r) ==
    /\ reviewing[r].pc = "exists"
    /\ IF artifacts[reviewing[r].decision.version] = "none" THEN Goto(r, "open") ELSE End(r)
    /\ UNCHANGED <<artifacts, decisions, intakes>> /\ Untouched

OpenArtifact(r) ==
    /\ reviewing[r].pc = "open"
    /\ artifacts' = [artifacts EXCEPT ![reviewing[r].decision.version] = "torn"]
    /\ Goto(r, "fill")
    /\ UNCHANGED <<decisions, intakes>> /\ Untouched

FillArtifact(r) ==
    /\ reviewing[r].pc = "fill"
    /\ artifacts' = [artifacts EXCEPT ![reviewing[r].decision.version] = "whole"]
    /\ End(r)
    /\ UNCHANGED <<decisions, intakes>> /\ Untouched

(* _append_decision_event: the check reads every line, the append follows;  *)
(* a line appended behind a fragment becomes part of it.                    *)
CheckDecision(r) ==
    /\ reviewing[r].pc = "check"
    /\ IF Malformed(decisions) \/ \E i \in 1..Len(decisions) : decisions[i] = reviewing[r].decision
       THEN End(r) ELSE Goto(r, "append")
    /\ UNCHANGED <<artifacts, decisions, intakes>> /\ Untouched

Appended(line) ==
    IF decisions # <<>> /\ IsTorn(decisions[Len(decisions)]) THEN decisions ELSE Append(decisions, line)

AppendReviewDecision(r) ==
    /\ reviewing[r].pc = "append"
    /\ decisions' = Appended(reviewing[r].decision)
    /\ recorded' = recorded \cup {reviewing[r].decision}
    /\ End(r)
    /\ UNCHANGED <<report, artifacts, intakes, twins, reviews, review_kills>>

(* build_intake_candidate resolves the state, then reads the log again for  *)
(* the decision it resolved to.                                             *)
ResolveForIntake(r) ==
    LET v == reviewing[r].decision.version
        line == LatestDecision(decisions, v)
        accepted == Resolvable(decisions) /\ line # 0 /\ decisions[line].state = Accepted
    IN  /\ reviewing[r].pc = "resolve"
        /\ IF accepted
           THEN reviewing' = [reviewing EXCEPT ![r].pc = "reread", ![r].line = line, ![r].decision = decisions[line]]
           ELSE End(r)
        /\ UNCHANGED <<artifacts, decisions, intakes>> /\ Untouched

RereadDecision(r) ==
    /\ reviewing[r].pc = "reread"
    /\ IF Malformed(decisions) THEN End(r) ELSE Goto(r, "intake")
    /\ UNCHANGED <<artifacts, decisions, intakes>> /\ Untouched

(* create_intake_candidate: a candidate on file is not written again.       *)
IntakeCandidate(job) == [decision |-> job.decision, line |-> job.line, began |-> job.began]

WriteIntake(r) ==
    LET candidate == IntakeCandidate(reviewing[r])
    IN  /\ reviewing[r].pc = "intake"
        /\ intakes' = IF \E c \in intakes : c.line = candidate.line THEN intakes ELSE intakes \cup {candidate}
        /\ End(r)
        /\ UNCHANGED <<artifacts, decisions>> /\ Untouched

(* A death while a line is written may leave a part of it.                  *)
ReviewKilled(r) ==
    /\ reviewing[r].pc # "idle"
    /\ review_kills < MaxReviewKills
    /\ review_kills' = review_kills + 1
    /\ End(r)
    /\ decisions' \in {decisions} \cup (IF reviewing[r].pc = "append" THEN {Appended(TornLine)} ELSE {})
    /\ UNCHANGED <<report, artifacts, intakes, recorded, twins, reviews>>

ReviewNext ==
    \/ \E whole \in BOOLEAN : WriteReport(whole)
    \/ \E r \in Reviewers :
        \/ \E v \in Versions :
            \/ BeginReview(r, "create", DecisionRow(v, Accepted, 0))
            \/ BeginReview(r, "intake", DecisionRow(v, Accepted, 0))
            \/ \E state \in DecisionStates : \E at \in Moments : BeginReview(r, "decide", DecisionRow(v, state, at))
        \/ ArtifactExists(r) \/ OpenArtifact(r) \/ FillArtifact(r)
        \/ CheckDecision(r) \/ AppendReviewDecision(r)
        \/ ResolveForIntake(r) \/ RereadDecision(r) \/ WriteIntake(r)
        \/ ReviewKilled(r)

ReviewSpec == ReviewInit /\ [][ReviewNext]_review_vars

----------------------------------------------------------------------------
ReviewTypeOK ==
    /\ report.version \in Versions
    /\ \A v \in Versions : artifacts[v] \in {"none", "torn", "whole"}
    /\ \A i \in 1..Len(decisions) : decisions[i].version \in Versions \cup {0}
    /\ \A r \in Reviewers : reviewing[r].line <= Len(decisions)

(* However commands overlap and wherever they are killed: a proposal is     *)
(* taken in on a decision on file that accepted an artifact on file and     *)
(* that no later decision had overruled when the command started; a         *)
(* recorded decision can be read again unless a death tore a line; and the  *)
(* log resolves, for every artifact, unless a death tore a line or the same *)
(* decision was being recorded twice at once (a repeated decision ends the  *)
(* resolution of all artifacts, for ever).                                  *)
IntakeIsFounded ==
    /\ \A c \in intakes :
           /\ c.line \in 1..Len(decisions) /\ decisions[c.line] = c.decision
           /\ c.decision.state = Accepted /\ artifacts[c.decision.version] # "none"
           /\ \A i \in (c.line + 1)..c.began : decisions[i].version # c.decision.version
    /\ ~Malformed(decisions) => \A d \in recorded : \E i \in 1..Len(decisions) : decisions[i] = d
    /\ Malformed(decisions) => review_kills > 0
    /\ DuplicateId(decisions) => twins
=============================================================================
