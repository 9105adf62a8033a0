--------------------------- MODULE CapturePipeline ----------------------------
(***************************************************************************)
(* The volatile capture layer (app/hq/capture): fragments are captured into*)
(* raw/, similar ones are promoted to a bundle, the bundle is routed to the*)
(* incoming directory of a spine, its fragments are archived; old fragments*)
(* decay.  What happened is spread over directories, an append-only        *)
(* registry of states, the gate's ledger and three logs, written one after *)
(* the other by a process that may die or meet a failing write anywhere.   *)
(* Every promotion is given the canonical ledger it may be given: it writes*)
(* its decision there last and reads nothing back, so one without a ledger *)
(* is the same with that step unseen.  The best-effort stream of events,   *)
(* which nothing here reads either, is left out.                           *)
(*                                                                         *)
(* Fragments are numbered in the order of their names.  Clustering is      *)
(* abstracted to a topic per fragment; a bundle is named by the day and its*)
(* members.  One promotion or routing command runs at a time.              *)
(***************************************************************************)
EXTENDS TransitionGate, FiniteSets, FiniteSetsExt

CONSTANTS
    Fragments,      \* 1..n
    TopicOf,        \* fragment -> what it is similar to
    SpineOf,        \* topic -> the spine that scores best
    MinCluster,     \* min_cluster_size
    LastDay,        \* bound: days
    DecayDays,      \* decay_run: days
    WindowDays,     \* scan_instability: window_days
    MaxWriteFaults  \* bound: failing writes

ASSUME FragmentAssumption == Fragments \subseteq Nat /\ IsFiniteSet(Fragments)
ASSUME DayAssumption == LastDay \in Nat \ {0} /\ DecayDays \in Nat /\ WindowDays \in Nat
ASSUME ClusterAssumption == MinCluster \in Nat \ {0} /\ MaxWriteFaults \in Nat

VARIABLES
    installed,    \* whether config/policies is installed
    today,
    place,        \* fragment -> the directory it is in
    captured_on,  \* fragment -> day
    bundles,      \* promoted/
    incoming,     \* constraints/spines/<spine>/incoming/
    registry,     \* latest state of every artifact
    gate_events,  \* transition_gate_events.jsonl
    decisions,    \* the canonical ledger
    promo_log,    \* promotion_log.jsonl: bundle and routed_spine
    routing_log,  \* routing_log.jsonl
    cap_job,      \* a capture_add in progress
    hq_job,       \* a promote_run or a route command in progress
    write_faults

cap_vars == <<installed, today, place, captured_on, bundles, incoming, registry, gate_events,
              decisions, promo_log, routing_log, cap_job, hq_job, write_faults>>
disk_vars == <<place, bundles, incoming>>
log_vars  == <<gate_events, decisions, promo_log, routing_log>>

Days      == 1..LastDay
Spines    == {SpineOf[t] : t \in {TopicOf[f] : f \in Fragments}}
BundleIds == [day : Days, members : {S \in SUBSET Fragments : S # {}}]
AsFile(f) == [day |-> 0, members |-> {f}]   \* a fragment as an artifact
Artifacts == {AsFile(f) : f \in Fragments} \cup BundleIds
NoBundle  == [day |-> 0, members |-> {}]
NoValidation == [current |-> Missing, reasons |-> {}]
NoHqJob   == [pc |-> "idle", todo |-> {}, bundle |-> NoBundle, promoting |-> FALSE, spine |-> NoLane,
              validation |-> NoValidation]

CaptureInit ==
    /\ installed \in BOOLEAN
    /\ today = 1
    /\ place = [f \in Fragments |-> "nowhere"]
    /\ captured_on = [f \in Fragments |-> 0]
    /\ bundles = {} /\ incoming = {}
    /\ registry = [a \in Artifacts |-> Missing]
    /\ gate_events = {} /\ decisions = {} /\ promo_log = {} /\ routing_log = {}
    /\ cap_job = [pc |-> "idle", fragment |-> 0]
    /\ hq_job = NoHqJob
    /\ write_faults = 0

Gated(artifact, next, reasons) ==
    gate_events' = gate_events \cup {transition_event(artifact, registry[artifact], next, reasons)}

----------------------------------------------------------------------------
(* capture_add: the file, its telemetry, the gate's event, the registry.    *)
CaptureWrite(f) ==
    /\ cap_job.pc = "idle"
    /\ place[f] = "nowhere"
    /\ \A g \in Fragments : g < f => place[g] # "nowhere"
    /\ place' = [place EXCEPT ![f] = "raw"]
    /\ captured_on' = [captured_on EXCEPT ![f] = today]
    /\ cap_job' = [pc |-> "event", fragment |-> f]
    /\ UNCHANGED <<installed, today, bundles, incoming, registry, log_vars, hq_job, write_faults>>

CaptureEvent ==
    /\ cap_job.pc = "event"
    /\ Gated(AsFile(cap_job.fragment), "captured", rejections(Missing, "captured", "volatile_capture", {"input_reference"}, installed))
    /\ cap_job' = [cap_job EXCEPT !.pc = "record"]
    /\ UNCHANGED <<installed, today, captured_on, disk_vars, registry, decisions, promo_log, routing_log, hq_job, write_faults>>

CaptureRecord ==
    /\ cap_job.pc = "record"
    /\ registry' = [registry EXCEPT ![AsFile(cap_job.fragment)] = "captured"]
    /\ cap_job' = [pc |-> "idle", fragment |-> 0]
    /\ UNCHANGED <<installed, today, captured_on, disk_vars, log_vars, hq_job, write_faults>>

(* It dies, or an append fails, which it raises.                            *)
CaptureStops ==
    /\ cap_job.pc # "idle"
    /\ write_faults < MaxWriteFaults
    /\ write_faults' = write_faults + 1
    /\ cap_job' = [pc |-> "idle", fragment |-> 0]
    /\ UNCHANGED <<installed, today, captured_on, disk_vars, registry, log_vars, hq_job>>

----------------------------------------------------------------------------
(* promote_run                                                              *)
In(dir) == {f \in Fragments : place[f] = dir}
Clusters == {c \in {{f \in In("raw") : TopicOf[f] = t} : t \in {TopicOf[f] : f \in Fragments}} :
                 Cardinality(c) >= MinCluster}

(* It reads raw/ once and clusters what it read.                            *)
PromoteStart ==
    /\ hq_job.pc = "idle"
    /\ Clusters # {}
    /\ hq_job' = [NoHqJob EXCEPT !.pc = "next", !.todo = Clusters, !.promoting = TRUE]
    /\ UNCHANGED <<installed, today, captured_on, disk_vars, registry, log_vars, cap_job, write_faults>>

FirstCluster == CHOOSE c \in hq_job.todo : \A d \in hq_job.todo : Min(c) <= Min(d)

PromotionContext == {"candidate_cluster_members", "bundle_identity"}

(* A bundle that exists is skipped; one the gate rejects ends the run, once *)
(* the canonical ledger holds the refusal.                                  *)
NextCluster(force) ==
    /\ hq_job.pc = "next" /\ hq_job.todo # {}
    /\ LET b == [day |-> today, members |-> FirstCluster]
           reasons == rejections(registry[b], "promoted", "volatile_capture", PromotionContext, installed)
       IN  \/ /\ b \in bundles /\ ~force
              /\ hq_job' = [hq_job EXCEPT !.todo = @ \ {FirstCluster}]
              /\ UNCHANGED gate_events
           \/ /\ b \notin bundles \/ force
              /\ reasons # {}
              /\ Gated(b, "promoted", reasons)
              /\ hq_job' = [NoHqJob EXCEPT !.bundle = b, !.pc = "refused",
                                            !.validation = [current |-> registry[b], reasons |-> reasons]]
           \/ /\ b \notin bundles \/ force
              /\ reasons = {}
              /\ hq_job' = [hq_job EXCEPT !.todo = @ \ {FirstCluster}, !.bundle = b, !.pc = "write",
                                                  !.validation = [current |-> registry[b], reasons |-> {}]]
              /\ UNCHANGED gate_events
    /\ UNCHANGED <<installed, today, captured_on, disk_vars, registry, decisions, promo_log, routing_log, cap_job, write_faults>>

PromoteDone ==
    /\ hq_job.pc = "next" /\ hq_job.todo = {}
    /\ hq_job' = NoHqJob
    /\ UNCHANGED <<installed, today, captured_on, disk_vars, registry, log_vars, cap_job, write_faults>>

WriteBundle ==
    /\ hq_job.pc = "write"
    /\ bundles' = bundles \cup {hq_job.bundle}
    /\ hq_job' = [hq_job EXCEPT !.pc = "event"]
    /\ UNCHANGED <<installed, today, captured_on, place, incoming, registry, log_vars, cap_job, write_faults>>

PromoteEvent ==
    /\ hq_job.pc = "event"
    /\ Gated(hq_job.bundle, "promoted", {})
    /\ hq_job' = [hq_job EXCEPT !.pc = "record"]
    /\ UNCHANGED <<installed, today, captured_on, disk_vars, registry, decisions, promo_log, routing_log, cap_job, write_faults>>

PromoteRecord ==
    /\ hq_job.pc = "record"
    /\ registry' = [registry EXCEPT ![hq_job.bundle] = "promoted"]
    /\ hq_job' = [hq_job EXCEPT !.pc = "route"]
    /\ UNCHANGED <<installed, today, captured_on, disk_vars, log_vars, cap_job, write_faults>>

----------------------------------------------------------------------------
(* route_bundle, called by promote_run or by the route command              *)
Spine(b) == SpineOf[TopicOf[Min(b.members)]]
AfterRoute(spine) ==
    hq_job' = IF hq_job.promoting THEN [hq_job EXCEPT !.pc = "archive", !.spine = spine] ELSE NoHqJob

RouteCommand(b) ==
    /\ hq_job.pc = "idle"
    /\ b \in bundles
    /\ hq_job' = [NoHqJob EXCEPT !.pc = "route", !.bundle = b]
    /\ UNCHANGED <<installed, today, captured_on, disk_vars, registry, log_vars, cap_job, write_faults>>

(* Contract, coherence and lifecycle rules; these ask the gate without lane *)
(* and with an empty context.                                               *)
routing_blocked(b) ==
    \/ registry[b] # "promoted"
    \/ ~validate_transition("promoted", "routed", NoLane, {}, installed)

RoutingContext == {"bundle_reference", "router_ruleset_hash"}

RouteBlocked ==
    /\ hq_job.pc = "route"
    /\ routing_blocked(hq_job.bundle)
    /\ routing_log' = routing_log \cup {[bundle |-> hq_job.bundle, spine |-> Spine(hq_job.bundle), ok |-> FALSE]}
    /\ AfterRoute(NoLane)
    /\ UNCHANGED <<installed, today, captured_on, disk_vars, registry, gate_events, decisions, promo_log, cap_job, write_faults>>

RouteGate ==
    /\ hq_job.pc = "route"
    /\ ~routing_blocked(hq_job.bundle)
    /\ LET b == hq_job.bundle
           reasons == rejections(registry[b], "routed", Spine(b), RoutingContext, installed)
       IN  /\ Gated(b, "routed", reasons)
           /\ hq_job' = [hq_job EXCEPT !.pc = IF reasons = {} THEN "copy" ELSE "unlink"]
    /\ UNCHANGED <<installed, today, captured_on, disk_vars, registry, decisions, promo_log, routing_log, cap_job, write_faults>>

CopyOf(b) == [bundle |-> b, spine |-> Spine(b)]

(* Mutant: the state is recorded before the copy is made. *)
RecordThenCopy ==
    /\ \/ /\ hq_job.pc = "copy"
          /\ registry' = [registry EXCEPT ![hq_job.bundle] = "routed"]
          /\ hq_job' = [hq_job EXCEPT !.pc = "routed"]
          /\ UNCHANGED incoming
       \/ /\ hq_job.pc = "routed"
          /\ incoming' = incoming \cup {CopyOf(hq_job.bundle)}
          /\ hq_job' = [hq_job EXCEPT !.pc = "log"]
          /\ UNCHANGED registry
    /\ UNCHANGED <<installed, today, captured_on, place, bundles, log_vars, cap_job, write_faults>>

CopyThenRecord ==
    /\ \/ /\ hq_job.pc = "copy"
          /\ incoming' = incoming \cup {CopyOf(hq_job.bundle)}
          /\ hq_job' = [hq_job EXCEPT !.pc = "routed"]
          /\ UNCHANGED registry
       \/ /\ hq_job.pc = "routed"
          /\ registry' = [registry EXCEPT ![hq_job.bundle] = "routed"]
          /\ hq_job' = [hq_job EXCEPT !.pc = "log"]
          /\ UNCHANGED incoming
    /\ UNCHANGED <<installed, today, captured_on, place, bundles, log_vars, cap_job, write_faults>>

(* Mutant: a failed route takes the bundle's registration back. *)
UnlinkAndForget ==
    /\ hq_job.pc = "unlink"
    /\ incoming' = incoming \ {CopyOf(hq_job.bundle)}
    /\ registry' = [registry EXCEPT ![hq_job.bundle] = Missing]
    /\ routing_log' = routing_log \cup {[bundle |-> hq_job.bundle, spine |-> Spine(hq_job.bundle), ok |-> FALSE]}
    /\ AfterRoute(Spine(hq_job.bundle))
    /\ UNCHANGED <<installed, today, captured_on, place, bundles, gate_events, decisions, promo_log, cap_job, write_faults>>

(* A rejection or an exception removes the copy.                            *)
RouteUnlink ==
    /\ hq_job.pc = "unlink"
    /\ incoming' = incoming \ {CopyOf(hq_job.bundle)}
    /\ routing_log' = routing_log \cup {[bundle |-> hq_job.bundle, spine |-> Spine(hq_job.bundle), ok |-> FALSE]}
    /\ AfterRoute(Spine(hq_job.bundle))
    /\ UNCHANGED <<installed, today, captured_on, place, bundles, registry, gate_events, decisions, promo_log, cap_job, write_faults>>

RouteLog ==
    /\ hq_job.pc = "log"
    /\ routing_log' = routing_log \cup {[bundle |-> hq_job.bundle, spine |-> Spine(hq_job.bundle), ok |-> TRUE]}
    /\ AfterRoute(Spine(hq_job.bundle))
    /\ UNCHANGED <<installed, today, captured_on, disk_vars, registry, gate_events, decisions, promo_log, cap_job, write_faults>>

(* A write of the routing fails: before the record it is undone, the log's  *)
(* own failure is only a warning.                                           *)
RouteFault ==
    /\ hq_job.pc \in {"copy", "routed", "unlink", "log"}
    /\ write_faults < MaxWriteFaults
    /\ write_faults' = write_faults + 1
    /\ \/ hq_job.pc \in {"copy", "routed"} /\ hq_job' = [hq_job EXCEPT !.pc = "unlink"] /\ UNCHANGED incoming
       \/ hq_job.pc = "unlink" /\ AfterRoute(NoLane) /\ incoming' = incoming \ {CopyOf(hq_job.bundle)}
       \/ hq_job.pc = "log" /\ AfterRoute(NoLane) /\ UNCHANGED incoming
    /\ UNCHANGED <<installed, today, captured_on, place, bundles, registry, log_vars, cap_job>>

----------------------------------------------------------------------------
(* The fragments of a bundle are archived one by one, then it is logged.    *)
ToArchive == hq_job.bundle.members \cap In("raw")

(* Mutant: the fragments are moved as soon as the gate agreed. *)
ArchiveEarly ==
    /\ hq_job.pc \in {"write", "archive"} /\ ToArchive # {}
    /\ place' = [place EXCEPT ![Min(ToArchive)] = "archive"]
    /\ UNCHANGED <<installed, today, captured_on, bundles, incoming, registry, log_vars, cap_job, hq_job, write_faults>>

Archive ==
    /\ hq_job.pc = "archive" /\ ToArchive # {}
    /\ place' = [place EXCEPT ![Min(ToArchive)] = "archive"]
    /\ UNCHANGED <<installed, today, captured_on, bundles, incoming, registry, log_vars, cap_job, hq_job, write_faults>>

PromoteLog ==
    /\ hq_job.pc = "archive" /\ ToArchive = {}
    /\ promo_log' = promo_log \cup {[bundle |-> hq_job.bundle, routed_spine |-> hq_job.spine]}
    /\ hq_job' = [hq_job EXCEPT !.pc = "decided"]
    /\ UNCHANGED <<installed, today, captured_on, disk_vars, registry, gate_events, decisions, routing_log, cap_job, write_faults>>

(* append_hq_promotion_entry: the decision with the results of its gates and*)
(* what it says of the other stores.                                        *)
hq_promotion_decision(reasons) == IF reasons = {} THEN "PROMOTE_TO_STATE" ELSE "MANUAL_REVIEW_REQUIRED"
hq_gate_results(reasons) ==
    IF reasons = {} THEN {[reason_code |-> "transition_allowed", status |-> "PASS"]}
    ELSE {[reason_code |-> x, status |-> "FAIL"] : x \in reasons}
hq_subsystem_refs(reasons) == IF reasons = {} THEN {"materialized", "success_logged", "state_updated"} ELSE {}
hq_promotion_entry(b, validation) ==
    [proposal |-> b, origin |-> validation.current, decision |-> hq_promotion_decision(validation.reasons),
     gates |-> hq_gate_results(validation.reasons), refs |-> hq_subsystem_refs(validation.reasons)]

NextPromotion == [hq_job EXCEPT !.pc = "next", !.bundle = NoBundle, !.spine = NoLane, !.validation = NoValidation]

AppendHqDecision ==
    /\ hq_job.pc \in {"refused", "decided"}
    /\ decisions' = decisions \cup {hq_promotion_entry(hq_job.bundle, hq_job.validation)}
    /\ hq_job' = IF hq_job.pc = "refused" THEN NoHqJob ELSE NextPromotion
    /\ UNCHANGED <<installed, today, captured_on, disk_vars, registry, gate_events, promo_log, routing_log, cap_job, write_faults>>

(* The command dies, or a write of the promotion fails, which it raises.    *)
HqStops ==
    /\ hq_job.pc # "idle"
    /\ write_faults < MaxWriteFaults
    /\ write_faults' = write_faults + 1
    /\ hq_job' = NoHqJob
    /\ UNCHANGED <<installed, today, captured_on, disk_vars, registry, log_vars, cap_job>>

----------------------------------------------------------------------------
(* decay_run moves what is older than DecayDays, unless promoted.           *)
Exempt == In("archive") \cup UNION {e.bundle.members : e \in promo_log}

Decay(f) ==
    /\ \/ /\ place[f] = "raw" /\ f \notin Exempt
          /\ today - captured_on[f] > DecayDays
          /\ place' = [place EXCEPT ![f] = "expired_stage1"]
       \/ /\ place[f] = "expired_stage1"
          /\ place' = [place EXCEPT ![f] = "expired_stage2"]
    /\ UNCHANGED <<installed, today, captured_on, bundles, incoming, registry, log_vars, cap_job, hq_job, write_faults>>

NextDay ==
    /\ today < LastDay
    /\ today' = today + 1
    /\ UNCHANGED <<installed, captured_on, disk_vars, registry, log_vars, cap_job, hq_job, write_faults>>

Promotion == PromoteStart \/ (\E force \in BOOLEAN : NextCluster(force)) \/ PromoteDone
                 \/ WriteBundle \/ PromoteEvent \/ PromoteRecord \/ Archive \/ PromoteLog \/ AppendHqDecision
Routing   == RouteBlocked \/ RouteGate \/ CopyThenRecord \/ RouteUnlink \/ RouteLog \/ RouteFault

CaptureNext ==
    \/ \E f \in Fragments : CaptureWrite(f) \/ Decay(f)
    \/ CaptureEvent \/ CaptureRecord \/ CaptureStops
    \/ Promotion \/ Routing \/ (\E b \in BundleIds : RouteCommand(b)) \/ HqStops
    \/ NextDay

CaptureSpec == CaptureInit /\ [][CaptureNext]_cap_vars

----------------------------------------------------------------------------
(* What the operator's reports compute from the logs and directories.  The  *)
(* queue backlog: a promotion that names its spine waits for a route there, *)
(* any other for a route anywhere.                                          *)
routed_to(s) == {r.bundle : r \in {q \in routing_log : q.ok /\ q.spine = s}}
successful_routes == UNION {routed_to(s) : s \in Spines}
backlog_of(s) == {e.bundle : e \in {p \in promo_log : p.routed_spine = s}} \ routed_to(s)
unassigned_backlog == {e.bundle : e \in {p \in promo_log : p.routed_spine = NoLane}} \ successful_routes
routing_backlog == unassigned_backlog \cup UNION {backlog_of(s) : s \in Spines}

(* The routing status: here a failed route counts too.                      *)
queue_of(s) == {c.bundle : c \in {d \in incoming : d.spine = s}}
promoted_without_route == {e.bundle : e \in promo_log} \ {r.bundle : r \in routing_log}

(* The drilldown into one bundle; it has no artifact downstream here.  A    *)
(* set of log entries cannot tell two successes of a bundle apart, but the  *)
(* registry lets none of them happen twice.                                 *)
queue_copies(b) == {c \in incoming : c.bundle = b}
candidate_destinations(b) ==
    {c.spine : c \in queue_copies(b)} \cup {r.spine : r \in {q \in routing_log : q.bundle = b}}
        \cup {e.routed_spine : e \in {p \in promo_log : p.bundle = b /\ p.routed_spine # NoLane}}
condition_labels(b) ==
    LET logged == \E e \in promo_log \cup routing_log : e.bundle = b
        queued == queue_copies(b) # {}
    IN  (IF b \in successful_routes THEN {"routed"} ELSE {})
        \cup (IF Cardinality(queue_copies(b)) > 1 THEN {"duplicated"} ELSE {})
        \cup (IF queued /\ ~logged THEN {"orphaned"} ELSE {})
        \cup (IF queued THEN {"waiting"} ELSE {})

(* Fragments a scan for instability counts for a topic and a day.           *)
(* Mutant: only raw/ is scanned. *)
CountInRaw(t, d) == Cardinality({f \in In("raw") : TopicOf[f] = t /\ captured_on[f] = d})
topic_count(t, d) ==
    Cardinality({f \in In("raw") \cup In("archive") : TopicOf[f] = t /\ captured_on[f] = d})

----------------------------------------------------------------------------
CaptureTypeOK ==
    /\ today \in Days
    /\ place \in [Fragments -> {"nowhere", "raw", "archive", "expired_stage1", "expired_stage2"}]
    /\ captured_on \in [Fragments -> 0..LastDay]
    /\ bundles \subseteq BundleIds
    /\ \A c \in incoming : c.bundle \in BundleIds /\ c.spine \in Spines
    /\ registry \in [Artifacts -> {Missing, "captured", "promoted", "routed"}]
    /\ hq_job.todo \subseteq SUBSET Fragments

(* A bundle the registry calls routed lies in the incoming directory of its *)
(* spine, still exists, and the gate's ledger shows both its transitions;   *)
(* every other logged bundle is in the operator's backlog, and so is what   *)
(* the routing status lists as never routed.  The drilldown into a bundle   *)
(* says "routed" of none the registry does not, never finds two copies, and *)
(* an orphan only while it is routed or after a write failed; without such  *)
(* failures and between commands a queue holds what the log routed to it.   *)
RoutedHasCopy ==
    /\ \A b \in BundleIds : registry[b] = "routed" =>
           /\ b \in bundles /\ CopyOf(b) \in incoming
           /\ {transition_event(b, Missing, "promoted", {}),
               transition_event(b, "promoted", "routed", {})} \subseteq gate_events
    /\ \A e \in promo_log : registry[e.bundle] # "routed" => e.bundle \in routing_backlog
    /\ promoted_without_route \subseteq routing_backlog
    /\ \A b \in bundles :
           /\ "routed" \in condition_labels(b) =>
                  registry[b] = "routed" /\ candidate_destinations(b) = {Spine(b)} /\ "waiting" \in condition_labels(b)
           /\ "orphaned" \in condition_labels(b) => write_faults > 0 \/ hq_job.bundle = b
           /\ "duplicated" \notin condition_labels(b)
    /\ write_faults = 0 /\ hq_job.pc = "idle" => \A s \in Spines : queue_of(s) = routed_to(s)

(* A fragment leaves raw/ for the archive only once a registered bundle     *)
(* holds it, whatever dies in between.  What the canonical ledger says of a *)
(* promotion is true: a decision to promote is of a bundle that is written, *)
(* registered and logged, with the gate's event and no member left in raw/; *)
(* a refusal has the gate's event of the same kind.                         *)
ConsumedIsBundled ==
    /\ \A f \in In("archive") : \E b \in bundles : f \in b.members /\ registry[b] # Missing
    /\ \A d \in decisions :
           /\ transition_event(d.proposal, d.origin, "promoted",
                  {g.reason_code : g \in {h \in d.gates : h.status = "FAIL"}}) \in gate_events
           /\ "materialized" \in d.refs => d.proposal \in bundles
           /\ "state_updated" \in d.refs => registry[d.proposal] \in {"promoted", "routed"}
           /\ "success_logged" \in d.refs => \E e \in promo_log : e.bundle = d.proposal
           /\ d.decision = "PROMOTE_TO_STATE" => d.proposal.members \cap In("raw") = {}

(* Within the window of the instability scan the count of a topic and day   *)
(* never goes down, whatever is promoted, archived or decays meanwhile.     *)
CountsOnlyGrow ==
    [][\A t \in {TopicOf[f] : f \in Fragments}, d \in Days :
           today - d < WindowDays => topic_count(t, d)' >= topic_count(t, d)]_place
(* The stores as the life of fragments and bundles.                         *)
Kept == [f \in Fragments |-> IF place[f] \in {"expired_stage1", "expired_stage2"} THEN "forgotten" ELSE place[f]]
Stage == [b \in BundleIds |-> IF registry[b] = Missing THEN "unknown" ELSE registry[b]]
Delivered == {b \in BundleIds : CopyOf(b) \in incoming}

Lifecycle == INSTANCE BundleLifecycle WITH
    Bundles   <- BundleIds,
    kept      <- Kept,
    stage     <- Stage,
    delivered <- Delivered

(* Bundle, gate event, registration, copy, route and the moves of fragments *)
(* are writes of their own (promote.py:616, router.py:470), repeated, rolled*)
(* back and forced: together they take no bundle back, route none without   *)
(* its copy, and archive no fragment for a bundle that does not exist.      *)
ImplementsLifecycle == Lifecycle!Spec
=============================================================================
