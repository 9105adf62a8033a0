---------------------------- MODULE TransitionGate ----------------------------
(***************************************************************************)
(* The canonical transition gate (app/hq/governance/transition_gate.py)    *)
(* over the state machine, lanes and policies of config/.  An evaluation is*)
(* pure: callers emit the event and record the state themselves.           *)
(*                                                                         *)
(* A context is the set of facts its policy checks look for.  `installed'  *)
(* says whether config/policies holds the four policies: only then the gate*)
(* of a transition names one, otherwise it is taken from the context.      *)
(* Hold times are left out: no caller passes entered_at.                   *)
(***************************************************************************)
EXTENDS Naturals, Sequences

WorkingOrder == <<"captured", "normalized", "classified", "constrained", "promoted", "routed",
                  "transformed", "compiled", "staged", "emitted", "audited">>
Working     == {WorkingOrder[i] : i \in 1..11}
MachineStates == Working \cup {"held", "rejected", "failed", "aborted"}
Missing     == "missing"

(* transitions; the resume targets of held and failed are not states.       *)
Transitions ==
    {<<Missing, "captured">>, <<Missing, "promoted">>}
        \cup {<<WorkingOrder[i], WorkingOrder[i + 1]>> : i \in 1..10}
        \cup {<<s, t>> : s \in Working \ {"audited"}, t \in {"held", "rejected", "failed", "aborted"}}
        \cup {<<"held", "aborted">>, <<"failed", "aborted">>}

Downstream == {"transformed", "compiled", "staged", "emitted", "audited"}
Forbidden(from) ==
    CASE from \in {"captured", "normalized"} -> {"promoted", "routed"} \cup Downstream
      [] from = "classified"                 -> {"routed"} \cup Downstream
      [] from = "promoted"                   -> Downstream \ {"transformed"}
      [] from = "routed"                     -> {"staged", "emitted", "audited"}
      [] from \in {"held", "failed"}         -> {"emitted", "audited"}
      [] from \in {"rejected", "aborted"}    -> MachineStates
      [] OTHER                               -> {}

Gate(next) ==
    CASE next \in {"captured", "normalized", "classified"} -> "intake_policy"
      [] next = "promoted"                                 -> "promotion_policy"
      [] next = "routed"                                   -> "routing_policy"
      [] next \in {"staged", "emitted"}                    -> "publication_policy"
      [] OTHER                                             -> "other_gate"

(* What the checks of a policy require of the context.                      *)
Required(policy) ==
    CASE policy = "intake_policy"      -> {"input_reference"}
      [] policy = "promotion_policy"   -> {"candidate_cluster_members", "bundle_identity"}
      [] policy = "routing_policy"     -> {"bundle_reference", "router_ruleset_hash"}
      [] policy = "publication_policy" -> {"durable_identity", "final_path", "route_key"}
      [] OTHER                         -> {}

NoLane == "none"
OperationalLanes == {"volatile_capture", "content_publishing", "ai_stability_diagnostic",
                     "concept_formalization", "video_packaging", "misc_review", "wtpu_content"}
ReservedLanes == {"social_field_theory", "logistics_ops"}

LaneFailures(lane) ==
    CASE lane = NoLane \/ lane \in OperationalLanes -> {}
      [] lane \in ReservedLanes                     -> {"lane_not_operational"}
      [] OTHER                                      -> {"lane_not_registered"}

(* Why the gate rejects the transition, {} when it allows it.               *)
rejections(current, next, lane, context, installed) ==
    LET known == IF current = Missing THEN <<Missing, next>> \in Transitions
                 ELSE current \in MachineStates
    IN  CASE ~known                            -> {"invalid_current_state"}
          [] known /\ next \notin MachineStates       -> {"invalid_next_state"}
          [] known /\ next \in MachineStates /\ next \in Forbidden(current) -> {"forbidden_transition"}
          [] known /\ next \in MachineStates \ Forbidden(current)
                   /\ <<current, next>> \notin Transitions -> {"transition_not_defined"}
          [] OTHER -> LaneFailures(lane) \cup
                      (IF installed THEN Required(Gate(next)) \ context ELSE {})

validate_transition(current, next, lane, context, installed) ==
    rejections(current, next, lane, context, installed) = {}

(* The category an emitted rejection is filed under, first match.           *)
denial_category(reasons) ==
    CASE reasons = {}                                                   -> "none"
      [] reasons \cap {"invalid_current_state", "invalid_next_state"} # {} -> "state_integrity"
      [] "forbidden_transition" \in reasons                             -> "forbidden_transition"
      [] "transition_not_defined" \in reasons                           -> "undefined_transition"
      [] reasons \cap UNION {Required(p) : p \in {"intake_policy", "promotion_policy",
                             "routing_policy", "publication_policy"}} # {} -> "missing_prerequisite"
      [] OTHER                                                          -> "policy_rejection"

(* The gate's event for one evaluation, as the transition ledger keeps it.  *)
transition_event(artifact, current, next, reasons) ==
    [artifact |-> artifact, from |-> current, to |-> next, category |-> denial_category(reasons)]
=============================================================================
