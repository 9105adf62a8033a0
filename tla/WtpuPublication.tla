---------------------------- MODULE WtpuPublication ----------------------------
(***************************************************************************)
(* The civic publication ledger (signal_agent/wtpu_publication).  A command*)
(* replays the ledger into a projection, derives one event from it, looks  *)
(* whether its command id is already there, and appends; only the append is*)
(* under the lock.  An essay event carries the whole essay.  An event the  *)
(* replay rejects stays in the ledger and stops every later replay, a      *)
(* record the validation rejects stops every later read.                   *)
(*                                                                         *)
(* One section, issue, source packet, essay, campaign link and adaptation. *)
(* The projection is kept, not the sequence it is replayed from: replay is *)
(* a fold over the events.  Claims and summaries are one text.             *)
(***************************************************************************)
EXTENDS Naturals

CONSTANTS
    Editors,         \* commands that may overlap
    PacketContents,  \* what the source packet may hold
    MaxPubCommands   \* bound: commands and retries

ASSUME PacketAssumption == PacketContents # {} /\ "none" \notin PacketContents
ASSUME PublicationBoundAssumption == MaxPubCommands \in Nat

VARIABLES
    pub,         \* the projection
    pub_events,  \* events on the ledger: command id, kind, payload
    pub_rows,    \* their number
    pub_state,   \* "replays", "unreplayable" or "invalid"
    pub_cause,   \* what made it so
    pub_job,     \* editor -> command in progress
    pub_commands

pub_vars == <<pub, pub_events, pub_rows, pub_state, pub_cause, pub_job, pub_commands>>

NoEssay == [status |-> "none", packet |-> FALSE, text |-> "incomplete", approved |-> <<>>]
content_hash(essay) == <<essay.packet, essay.text>>

EmptyProjection == [section |-> FALSE, issue |-> FALSE, source |-> "none", essay |-> NoEssay,
                    link |-> FALSE, adaptation |-> FALSE, corrections |-> {}, dossier |-> "none"]

NoEvent == [kind |-> "none", essay |-> NoEssay, value |-> "none"]
Event(kind, value) == [NoEvent EXCEPT !.kind = kind, !.value = value]
EssayEvent(kind, essay) == [NoEvent EXCEPT !.kind = kind, !.essay = essay]

----------------------------------------------------------------------------
(* canonical_essay_governance: a registered packet, a text with evidence    *)
(* and interpretation apart, the approved hash that of the content.         *)
canonical_essay_governance(essay, p) ==
    essay.packet /\ p.source # "none" /\ essay.text # "incomplete" /\ essay.approved = content_hash(essay)

archive_readiness(p) == p.essay.status = "canonical" /\ p.essay.packet

(* Mutant: approval asks for any essay that left the draft. *)
ApprovableEarly(essay) == essay.status \notin {"none", "draft"}
Approvable(essay) == essay.status = "reviewed"

(* The events a command may derive from a projection.  New records:         *)
Creations(p) ==
    {Event("section", "any")} \cup {Event("source", s) : s \in PacketContents}
        \cup (IF p.section THEN {Event("issue", "any")} ELSE {})
Drafts(p) == IF p.issue THEN {EssayEvent("draft", [NoEssay EXCEPT !.status = "draft"])} ELSE {}

(* Edits, which accept any essay, whatever its status.                      *)
Texts == {"draft", "final"}
EssayEdits(p) ==
    {EssayEvent("attach", [p.essay EXCEPT !.packet = TRUE]) : x \in {s \in {p.source} : s # "none"}}
        \cup {EssayEvent("edit", [p.essay EXCEPT !.text = t]) : t \in Texts}

EssayReviews(p) ==
    {EssayEvent("request", [p.essay EXCEPT !.status = "review_requested"]) : x \in {s \in {p.essay.status} : s = "draft"}}
        \cup {EssayEvent("review", [p.essay EXCEPT !.status = "reviewed"]) : x \in {s \in {p.essay.status} : s = "review_requested"}}
        \cup {EssayEvent("approve", [p.essay EXCEPT !.status = "canonical", !.approved = content_hash(p.essay)]) :
                  x \in {e \in {p.essay} : Approvable(e)
                                          /\ canonical_essay_governance([e EXCEPT !.approved = content_hash(e)], p)}}

CampaignLinks(p) == IF p.essay.status = "canonical" THEN {Event("link", "any")} ELSE {}
Adaptations == {Event("adaptation", "any")}

CorrectionStatuses == {"correction_pending", "corrected"}
Correction(hash, status) == [hash |-> hash, status |-> status]
Corrections(p) == {[NoEvent EXCEPT !.kind = "correction", !.essay = p.essay, !.value = s] : s \in CorrectionStatuses}

Dossiers(p) == IF p.issue THEN {Event("dossier", IF archive_readiness(p) THEN "archive_ready" ELSE "draft")} ELSE {}

Derivable(p) ==
    Creations(p) \cup Drafts(p) \cup Dossiers(p) \cup CampaignLinks(p)
        \cup (IF p.essay.status = "none" THEN {} ELSE EssayEdits(p) \cup EssayReviews(p) \cup Adaptations \cup Corrections(p))

(* They need no projection to be derived.                                   *)
Unread == {"section", "source"}

----------------------------------------------------------------------------
(* The replay of one event.                                                 *)
CorrectionOf(event) == Correction(content_hash(event.essay), event.value)
Rejects(p, event) ==
    CASE event.kind = "section"    -> p.section
      [] event.kind = "issue"      -> ~p.section \/ p.issue
      [] event.kind = "source"     -> p.source \notin {"none", event.value}
      [] event.kind = "draft"      -> ~p.issue \/ p.essay.status # "none"
      [] event.kind = "link"       -> p.link \/ p.essay.status = "none"
      [] event.kind = "adaptation" -> p.adaptation \/ p.essay.status = "none"
      [] event.kind = "correction" -> CorrectionOf(event) \in p.corrections
                                          \/ content_hash(event.essay) # content_hash(p.essay)
      [] event.kind = "dossier"    -> ~p.issue
      [] OTHER                     -> event.essay.packet /\ p.source = "none"

Applied(p, event) ==
    CASE event.kind = "section"    -> [p EXCEPT !.section = TRUE]
      [] event.kind = "issue"      -> [p EXCEPT !.issue = TRUE]
      [] event.kind = "source"     -> [p EXCEPT !.source = event.value]
      [] event.kind = "link"       -> [p EXCEPT !.link = TRUE]
      [] event.kind = "adaptation" -> [p EXCEPT !.adaptation = TRUE]
      [] event.kind = "correction" -> [p EXCEPT !.corrections = @ \cup {CorrectionOf(event)}, !.essay.status = event.value]
      [] event.kind = "dossier"    -> [p EXCEPT !.dossier = event.value]
      [] OTHER                     -> [p EXCEPT !.essay = event.essay]

----------------------------------------------------------------------------
IdleEditor == [pc |-> "idle", id |-> 0, event |-> NoEvent, seen |-> 0, again |-> FALSE]

(* Nothing, or what a service recorded up to the request for a review.      *)
RequestedProjection ==
    [EmptyProjection EXCEPT !.section = TRUE, !.issue = TRUE, !.source = CHOOSE s \in PacketContents : TRUE,
                            !.essay = [NoEssay EXCEPT !.status = "review_requested", !.packet = TRUE, !.text = "draft"]]
History(kinds) == {[id |-> 0, event |-> Event(k, "earlier")] : k \in kinds}

PubInit ==
    /\ \/ pub = EmptyProjection /\ pub_events = {}
       \/ pub = RequestedProjection /\ pub_events = History({"request"})
    /\ pub_rows = 0
    /\ pub_state = "replays" /\ pub_cause = "none"
    /\ pub_job = [e \in Editors |-> IdleEditor]
    /\ pub_commands = 0

(* A command with a new id, or with one that was used before.  Unless it    *)
(* needs none, it replays first and raises if it cannot.                    *)
Exists(p, event) == event.kind \in {"section", "issue", "source", "draft", "link", "adaptation", "correction"}
                        /\ Rejects(p, event)
BeginCommand(e, id, event) ==
    /\ pub_job[e].pc = "idle"
    /\ pub_commands < MaxPubCommands
    /\ id \in 1..(pub_commands + 1)
    /\ pub_state = "replays" \/ (event.kind \in Unread /\ pub_state = "unreplayable")
    /\ event \in Derivable(pub)
    /\ pub_commands' = pub_commands + 1
    /\ pub_job' = [pub_job EXCEPT ![e] = [pc |-> "check", id |-> id, event |-> event, seen |-> pub_rows,
                                          again |-> Exists(pub, event)]]
    /\ UNCHANGED <<pub, pub_events, pub_rows, pub_state, pub_cause>>

(* An id that is on the ledger ends the command: with that event if it is   *)
(* the same, with a conflict if not.                                        *)
CheckCommand(e) ==
    /\ pub_job[e].pc = "check"
    /\ pub_job' = [pub_job EXCEPT ![e] =
           IF pub_state = "invalid" \/ \E r \in pub_events : r.id = @.id THEN IdleEditor
           ELSE [@ EXCEPT !.pc = "append"]]
    /\ UNCHANGED <<pub, pub_events, pub_rows, pub_state, pub_cause, pub_commands>>

(* Under the lock, but without looking at the ledger again.  A second event *)
(* of one id makes it invalid if the kind is the same, since event ids are  *)
(* derived from both, and unreplayable if not.                              *)
AppendEvent(e) ==
    /\ pub_job[e].pc = "append"
    /\ LET job   == pub_job[e]
           again == {r \in pub_events : r.id = job.id}
           same  == \E r \in again : r.event.kind = job.event.kind
           fits  == again = {} /\ ~Rejects(pub, job.event)
           late  == job.seen < pub_rows
       IN  /\ pub_events' = pub_events \cup {[id |-> job.id, event |-> job.event]}
           /\ pub_rows' = pub_rows + 1
           /\ \/ /\ pub_state = "replays" /\ fits
                 /\ pub' = Applied(pub, job.event)
                 /\ UNCHANGED <<pub_state, pub_cause>>
              \/ /\ pub_state = "replays" /\ ~fits /\ ~same
                 /\ pub_state' = "unreplayable"
                 /\ pub_cause' = IF job.again THEN "created again" ELSE IF late THEN "overtaken" ELSE "itself"
                 /\ UNCHANGED pub
              \/ /\ pub_state # "invalid" /\ same
                 /\ pub_state' = "invalid"
                 /\ pub_cause' = IF late THEN "overtaken" ELSE "itself"
                 /\ UNCHANGED pub
              \/ /\ pub_state = "invalid" \/ (pub_state = "unreplayable" /\ ~same)
                 /\ UNCHANGED <<pub, pub_state, pub_cause>>
    /\ pub_job' = [pub_job EXCEPT ![e] = IdleEditor]
    /\ UNCHANGED pub_commands

EditorKilled(e) ==
    /\ pub_job[e].pc # "idle"
    /\ pub_job' = [pub_job EXCEPT ![e] = IdleEditor]
    /\ UNCHANGED <<pub, pub_events, pub_rows, pub_state, pub_cause, pub_commands>>

PubNext ==
    \E e \in Editors :
        \/ \E id \in 1..(pub_commands + 1) : \E event \in Derivable(pub) : BeginCommand(e, id, event)
        \/ CheckCommand(e) \/ AppendEvent(e) \/ EditorKilled(e)

PubSpec == PubInit /\ [][PubNext]_pub_vars

----------------------------------------------------------------------------
PubTypeOK ==
    /\ pub.source \in {"none"} \cup PacketContents
    /\ pub.essay.text \in {"incomplete", "draft", "final"}
    /\ pub_rows <= MaxPubCommands

(* Whatever overlaps, is retried or killed: a ledger that cannot be replayed*)
(* or read got its last good record before a second creation of the same    *)
(* thing, or before an event derived from fewer records than it follows; and*)
(* an essay is canonical, and linked to a campaign, only after a request, a *)
(* review and an approval of a content the governance accepts.              *)
PublicationIsEarned ==
    LET kinds == {r.event.kind : r \in pub_events}
    IN  /\ pub_cause \in {"none", "created again", "overtaken"}
        /\ pub.essay.status = "canonical" \/ pub.link => {"request", "review", "approve"} \subseteq kinds
        /\ \A r \in pub_events : r.event.kind = "approve" => canonical_essay_governance(r.event.essay, pub)
=============================================================================
