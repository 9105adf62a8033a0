------------------------------ MODULE ClaimEngine ------------------------------
(***************************************************************************)
(* Claims (signal_agent/content): a claim is built from text, put through  *)
(* the evidence gate, recorded in the claims ledger, anchored as markdown  *)
(* and distributed as four platform files.  Callers that pass a canonical  *)
(* ledger get the gate's decision appended to it first.  Each write is a   *)
(* step of its own; a caller may be killed at any of them, and two callers *)
(* may work on one canonical ledger at the same time.                      *)
(*                                                                         *)
(* A call is the list of the steps it has left.  Claim ids are unique: the *)
(* number of the call that built the claim stands for its id.              *)
(***************************************************************************)
EXTENDS FormalGovernance

CONSTANTS
    Callers,
    MaxClaimCalls,   \* bound: calls begun
    MaxClaimFaults   \* bound: callers killed, or failing writes

ASSUME ClaimAssumption == MaxClaimCalls \in Nat

VARIABLES
    inbox,            \* texts waiting in data/claims/inbox/
    drafts,           \* claims handed back to a caller
    claims_ledger,    \* claims_ledger.jsonl
    anchored,         \* ids with an anchored markdown
    distributed,      \* id -> platform files written
    distribution_log,
    canonical,        \* canonical ledger
    claim_call, claim_calls, claim_faults

claim_vars == <<inbox, drafts, claims_ledger, anchored, distributed, distribution_log, canonical,
                claim_call, claim_calls, claim_faults>>

ClaimIds == 1..MaxClaimCalls
Platforms == {"substack", "linkedin", "facebook", "x"}
Provisional == {"provisional", "unverified"}
EvidenceRequired == {"anchor", "promote", "export", "publication_ready"}

(* refs: whether evidence_refs is non-empty; self: self-certified.          *)
NoClaim == [id |-> 0, refs |-> FALSE, self |-> FALSE, status |-> "none", canonical |-> FALSE, source |-> "none"]
NoCall == [todo |-> <<>>, claim |-> NoClaim, action |-> "none", prev |-> 0, ok |-> {}]

AnchorSteps     == <<"read", "write", "gate", "ledger", "anchor", "return">>
DraftSteps      == <<"read", "write", "gate", "return">>
DistributeSteps == <<"read", "write", "gate", "substack", "linkedin", "facebook", "x", "log">>

(* Mutant: the decision is recorded once its writes are done. *)
RecordLast(steps) == SubSeq(steps, 3, Len(steps) - 1) \o SubSeq(steps, 1, 2) \o <<steps[Len(steps)]>>

(* A call without a canonical ledger skips its two steps.                   *)
CallSteps(steps) == steps
StepsOf(steps, governed) == IF governed THEN CallSteps(steps) ELSE SubSeq(steps, 3, Len(steps))

ClaimInit ==
    /\ inbox \in SUBSET {"text"}
    /\ drafts = {} /\ claims_ledger = {} /\ anchored = {}
    /\ distributed = [i \in ClaimIds |-> {}]
    /\ distribution_log = {}
    /\ canonical = EmptyLedger
    /\ claim_call = [c \in Callers |-> NoCall]
    /\ claim_calls = 0 /\ claim_faults = 0

evaluate_claim_evidence(claim, action) ==
    CASE claim.refs /\ claim.self -> "REJECT_SELF_CERTIFICATION"
      [] ~claim.refs /\ action = "draft" /\ claim.status \in Provisional -> "CONSOLIDATE_ONLY"
      [] ~claim.refs /\ (action \in EvidenceRequired \/ claim.status \notin Provisional) -> "REJECT_MISSING_EVIDENCE"
      [] OTHER -> Promote

Rejecting == {"REJECT_MISSING_EVIDENCE", "REJECT_SELF_CERTIFICATION"}

Begin(c, claim, action, steps) ==
    claim_call' = [claim_call EXCEPT ![c] = [NoCall EXCEPT !.claim = claim, !.action = action,
                                                           !.todo = StepsOf(steps, claim.canonical)]]

(* build_claim and generate_claim: provisional claims ask the gate once as  *)
(* a draft and are only returned; all others ask to be anchored.            *)
GenerateClaim(c, refs, self, status, governed, source) ==
    /\ claim_call[c] = NoCall
    /\ claim_calls < MaxClaimCalls
    /\ claim_calls' = claim_calls + 1
    /\ LET claim == [id |-> claim_calls + 1, refs |-> refs, self |-> self, status |-> status,
                     canonical |-> governed, source |-> source]
       IN  IF status \in Provisional THEN Begin(c, claim, "draft", DraftSteps)
                                     ELSE Begin(c, claim, "anchor", AnchorSteps)
    /\ UNCHANGED <<inbox, drafts, claims_ledger, anchored, distributed, distribution_log, canonical, claim_faults>>

(* process_inbox passes neither evidence nor a status.                      *)
ProcessInbox(c) == "text" \in inbox /\ GenerateClaim(c, FALSE, FALSE, "anchored", FALSE, "inbox")

(* distribute_claim takes a claim a caller holds or finds in the ledger.    *)
DistributeClaim(c, claim) ==
    /\ claim_call[c] = NoCall
    /\ claim_calls < MaxClaimCalls
    /\ claim_calls' = claim_calls + 1
    /\ claim \in drafts \cup claims_ledger
    /\ Begin(c, claim, "publication_ready", DistributeSteps)
    /\ UNCHANGED <<inbox, drafts, claims_ledger, anchored, distributed, distribution_log, canonical, claim_faults>>

----------------------------------------------------------------------------
Todo(c, step) == claim_call[c].todo # <<>> /\ Head(claim_call[c].todo) = step
Rest(call) == IF Len(call.todo) = 1 THEN NoCall ELSE [call EXCEPT !.todo = Tail(@)]
Done(c) == claim_call' = [claim_call EXCEPT ![c] = Rest(claim_call[c])]
Raise(c) == claim_call' = [claim_call EXCEPT ![c] = NoCall]
Decision(c) == evaluate_claim_evidence(claim_call[c].claim, claim_call[c].action)

ReadCanonical(c) ==
    /\ Todo(c, "read")
    /\ IF Readable(canonical)
       THEN claim_call' = [claim_call EXCEPT ![c].todo = Tail(@), ![c].prev = Len(canonical.entries)]
       ELSE Raise(c)
    /\ UNCHANGED <<inbox, drafts, claims_ledger, anchored, distributed, distribution_log, canonical>>

WriteCanonical(c) ==
    /\ Todo(c, "write")
    /\ canonical' = WriteEntry(canonical, build_ledger_entry(claim_call[c].claim.id, Decision(c),
                                                             claim_call[c].action, claim_call[c].prev))
    /\ Done(c)
    /\ UNCHANGED <<inbox, drafts, claims_ledger, anchored, distributed, distribution_log>>

RequireEvidence(c) ==
    /\ Todo(c, "gate")
    /\ IF Decision(c) \in Rejecting THEN Raise(c) ELSE Done(c)
    /\ UNCHANGED <<inbox, drafts, claims_ledger, anchored, distributed, distribution_log, canonical>>

AppendClaim(c) ==
    /\ Todo(c, "ledger")
    /\ claims_ledger' = claims_ledger \cup {claim_call[c].claim}
    /\ Done(c)
    /\ UNCHANGED <<inbox, drafts, anchored, distributed, distribution_log, canonical>>

WriteAnchored(c) ==
    /\ Todo(c, "anchor")
    /\ anchored' = anchored \cup {claim_call[c].claim.id}
    /\ Done(c)
    /\ UNCHANGED <<inbox, drafts, claims_ledger, distributed, distribution_log, canonical>>

(* The claim is handed back; a file of the inbox that became one is removed.*)
ReturnClaim(c) ==
    /\ Todo(c, "return")
    /\ drafts' = drafts \cup {claim_call[c].claim}
    /\ inbox' = IF claim_call[c].claim.source = "inbox" THEN inbox \ {"text"} ELSE inbox
    /\ Done(c)
    /\ UNCHANGED <<claims_ledger, anchored, distributed, distribution_log, canonical>>

(* A platform that fails does not stop the others.                          *)
WritePlatform(c, platform) ==
    /\ Todo(c, platform)
    /\ \/ /\ distributed' = [distributed EXCEPT ![claim_call[c].claim.id] = @ \cup {platform}]
          /\ claim_call' = [claim_call EXCEPT ![c].todo = Tail(@), ![c].ok = @ \cup {platform}]
          /\ UNCHANGED claim_faults
       \/ /\ claim_faults < MaxClaimFaults
          /\ claim_faults' = claim_faults + 1
          /\ Done(c)
          /\ UNCHANGED distributed
    /\ UNCHANGED <<inbox, drafts, claims_ledger, anchored, distribution_log, canonical>>

LogDistribution(c) ==
    /\ Todo(c, "log")
    /\ distribution_log' = distribution_log \cup
           {[id |-> claim_call[c].claim.id,
             status |-> IF claim_call[c].ok = Platforms THEN "complete" ELSE "partial"]}
    /\ Done(c)
    /\ UNCHANGED <<inbox, drafts, claims_ledger, anchored, distributed, canonical>>

(* Killed; inside the write of the canonical ledger it may tear the line.   *)
CallerKilled(c) ==
    /\ claim_call[c] # NoCall
    /\ claim_faults < MaxClaimFaults
    /\ claim_faults' = claim_faults + 1
    /\ \/ UNCHANGED canonical
       \/ Todo(c, "write") /\ canonical' = TornWrite(canonical)
    /\ Raise(c)
    /\ UNCHANGED <<inbox, drafts, claims_ledger, anchored, distributed, distribution_log, claim_calls>>

ClaimStep(c) ==
    /\ \/ UNCHANGED claim_faults /\ (\/ ReadCanonical(c) \/ WriteCanonical(c) \/ RequireEvidence(c) \/ AppendClaim(c)
                                     \/ WriteAnchored(c) \/ ReturnClaim(c) \/ LogDistribution(c))
       \/ \E platform \in Platforms : WritePlatform(c, platform)
    /\ UNCHANGED claim_calls

ClaimNext ==
    \E c \in Callers :
        \/ ClaimStep(c) \/ CallerKilled(c) \/ ProcessInbox(c)
        \/ \E refs, self, governed \in BOOLEAN, status \in {"anchored", "provisional"} :
               GenerateClaim(c, refs, self, status, governed, "manual")
        \/ \E claim \in drafts \cup claims_ledger : DistributeClaim(c, claim)

ClaimSpec == ClaimInit /\ [][ClaimNext]_claim_vars

----------------------------------------------------------------------------
ClaimTypeOK ==
    /\ \A claim \in drafts \cup claims_ledger : claim.id \in ClaimIds
    /\ anchored \subseteq ClaimIds
    /\ distributed \in [ClaimIds -> SUBSET Platforms]

(* Nothing is anchored or distributed without evidence of somebody else, an *)
(* anchored claim is in the claims ledger, "complete" in the log means four *)
(* files, and what was done under a canonical ledger that can still be read *)
(* has its decision in there ("ledgered before optional downstream writes", *)
(* adapters.py), whoever was killed in between.                             *)
Admitted(i, action) ==
    \E k \in DOMAIN canonical.entries : /\ canonical.entries[k].id = i
                                        /\ canonical.entries[k].about = action
                                        /\ canonical.entries[k].decision = Promote
ClaimsCarryEvidence ==
    /\ \A i \in anchored : \E claim \in claims_ledger : claim.id = i
    /\ \A claim \in drafts \cup claims_ledger :
          /\ claim.id \in anchored \/ distributed[claim.id] # {} => claim.refs /\ ~claim.self
          /\ claim.canonical /\ Readable(canonical) =>
                /\ claim.id \in anchored => Admitted(claim.id, "anchor")
                /\ distributed[claim.id] # {} => Admitted(claim.id, "publication_ready")
    /\ \A e \in distribution_log : e.status = "complete" => distributed[e.id] = Platforms
=============================================================================
