-------------------------- MODULE RetentionLedger --------------------------
(***************************************************************************)
(* The retention ledgers of app/retention: four append-only JSONL files    *)
(* written by short-lived command line processes.  `add-contact` records   *)
(* one seed event; `ingest-substack-csv` records one event per row of an   *)
(* export.  Each appends, in this order and each under that file's own     *)
(* lock, an event, the decision the state machine took on it, the new      *)
(* contact snapshot (when the decision applied) and a dispatch plan (when  *)
(* asked for).  Nothing spans the four appends: a process can stop between *)
(* any two of them, and another process can run there.                     *)
(*                                                                         *)
(* An event's id is a hash of its fields, so the model uses the record of  *)
(* those fields as the id.  Hash chains, timestamps, scores and tags are   *)
(* left out.                                                               *)
(***************************************************************************)
EXTENDS Naturals, Sequences, FiniteSets

CONSTANTS
    Writers,      \* the processes that may run at the same time
    Contacts,     \* contact ids
    Keys,         \* what tells two events of the same fields apart (event_key)
    CliKey,       \* the key of an event built by add-contact: it passes none
    PlanFlags,    \* whether the commands are run with --plan-dispatch
    CliConsents,  \* consents the operator passes to add-contact
    CsvFiles,     \* exports that may be imported: sequences of rows
    NoEmail,      \* stands for the address of a row that has no valid one
    MaxEvents     \* bound on the length of events.jsonl

Consents == {"opted_in", "soft_opt_in", "unknown", "import_pending_verification"}
States   == {"none", "aware", "subscribed", "suppressed"}
Statuses == {"active", "pending", "unsubscribed", "other"}

DISPATCHABLE_CONSENT_STATUSES == {"opted_in", "soft_opt_in"}
AWARE_CONSENT_STATUSES == {"unknown", "import_pending_verification"}
SUPPRESSION_EVENT_TYPES ==
    {"unsubscribe", "hard_bounce", "spam_complaint", "objection", "lawful_objection"}

Event == [kind : {"contact_seeded"} \cup SUPPRESSION_EVENT_TYPES,
          contact : Contacts, consent : Consents, key : Keys]
Row   == [contact : Contacts \cup {NoEmail}, status : Statuses]

ASSUME PlanAssumption    == PlanFlags \subseteq BOOLEAN
ASSUME ConsentAssumption == CliConsents \subseteq Consents
ASSUME KeyAssumption     == CliKey \in Keys /\ Statuses \subseteq Keys
ASSUME FileAssumption    == CsvFiles \subseteq Seq(Row)
ASSUME EmailAssumption   == NoEmail \notin Contacts
ASSUME BoundAssumption   == MaxEvents \in Nat

Elements(s) == {s[i] : i \in DOMAIN s}

----------------------------------------------------------------------------
(* The pure part: what is written is a function of the event and of the    *)
(* contact's latest snapshot.  No snapshot is version 0 in state "none".   *)

NoEvent    == [kind |-> "none"]
NoSnapshot == [version |-> 0, state |-> "none"]

Snapshot == [contact : Contacts, version : Nat \ {0},
             state : States \ {"none"}, consent : Consents,
             first : Event, last : Event]

(* The last snapshot of contact c in file order. *)
LastOf(rows, c, i) ==
    /\ rows[i].contact = c
    /\ \A j \in DOMAIN rows : rows[j].contact = c => j <= i

(* Mutant: the scan keeps the first matching line. *)
FirstSnapshot(rows, c) ==
    IF \E i \in DOMAIN rows : rows[i].contact = c
    THEN rows[CHOOSE i \in DOMAIN rows : /\ rows[i].contact = c
                                        /\ \A j \in 1..(i - 1) : rows[j].contact # c]
    ELSE NoSnapshot

load_latest_contact_snapshot(rows, c) ==
    IF \E i \in DOMAIN rows : LastOf(rows, c, i)
    THEN rows[CHOOSE i \in DOMAIN rows : LastOf(rows, c, i)]
    ELSE NoSnapshot

(* The event a row of an export stands for.                                *)
RowEvent(row) ==
    LET Seeded(consent) == [kind |-> "contact_seeded", contact |-> row.contact,
                            consent |-> consent, key |-> row.status]
    IN  CASE row.status = "active"  -> Seeded("opted_in")
          [] row.status = "pending" -> Seeded("import_pending_verification")
          [] row.status = "unsubscribed" ->
               [Seeded("unknown") EXCEPT !.kind = "unsubscribe"]
          [] OTHER -> Seeded("unknown")

SeedEvent(c, consent) ==
    [kind |-> "contact_seeded", contact |-> c, consent |-> consent, key |-> CliKey]

TargetState(e) ==
    CASE e.kind \in SUPPRESSION_EVENT_TYPES -> "suppressed"
      [] e.kind = "contact_seeded" /\ e.consent \in DISPATCHABLE_CONSENT_STATUSES -> "subscribed"
      [] e.kind = "contact_seeded" /\ e.consent \in AWARE_CONSENT_STATUSES -> "aware"
      [] OTHER -> "none"

(* Mutant: the sticky rule is missing. *)
TransitionWithoutSticky(e, prior) ==
    LET target == TargetState(e)
    IN  [event |-> e, to |-> target,
         decision |-> IF target = prior.state THEN "noop" ELSE "applied"]

(* Mutant: an unsubscribe of a contact nobody seeded is set aside. *)
TransitionOfKnownContacts(e, prior) ==
    LET target == TargetState(e)
        sticky == prior.state = "suppressed" /\ e.kind \notin SUPPRESSION_EVENT_TYPES
    IN  [event |-> e,
         to |-> IF sticky THEN prior.state ELSE target,
         decision |-> CASE sticky \/ target = prior.state -> "noop"
                        [] target = "suppressed" /\ prior.version = 0 -> "quarantined"
                        [] OTHER -> "applied"]

evaluate_transition(e, prior) ==
    IF prior.state = "suppressed" /\ e.kind \notin SUPPRESSION_EVENT_TYPES
    THEN [event |-> e, decision |-> "noop", to |-> "suppressed"]
    ELSE LET target == TargetState(e)
             answer(decision, to) == [event |-> e, decision |-> decision, to |-> to]
         IN  IF target = "none" THEN answer("quarantined", prior.state)
             ELSE IF target = prior.state THEN answer("noop", target)
             ELSE answer("applied", target)

(* Built only for a decision that applied. *)
build_contact_snapshot(prior, e) ==
    [contact |-> e.contact,
     version |-> prior.version + 1,
     state   |-> evaluate_transition(e, prior).to,
     consent |-> e.consent,
     first   |-> IF prior.version = 0 THEN e ELSE prior.first,
     last    |-> e]

(* The dispatch a snapshot calls for; channel and template follow the type. *)
plan_dispatch(snap) ==
    CASE snap.state = "subscribed" /\ snap.consent \in DISPATCHABLE_CONSENT_STATUSES
           -> "orientation_email"
      [] snap.state = "aware" -> "internal_task"
      [] OTHER -> "blocked"

DispatchOf(snap) == [contact |-> snap.contact, version |-> snap.version,
                     state |-> snap.state, type |-> plan_dispatch(snap)]

Transition == [event : Event, decision : {"applied", "noop", "quarantined"}, to : States]
Dispatch   == [contact : Contacts, version : Nat \ {0},
               state : States \ {"none"}, type : {"orientation_email", "internal_task"}]

----------------------------------------------------------------------------
(* What `reconcile` and the dispatch gate conclude from the four files.    *)
(* The files are parameters: these commands read them one after another.   *)

Rows(s, Test(_)) == Cardinality({i \in DOMAIN s : Test(s[i])})

(* Mutant: one decision settles every occurrence of its event. *)
EventNeverDecided(evs, trs) ==
    \E e \in Elements(evs) : \A t \in Elements(trs) : t.event # e

(* Some event has fewer decisions than occurrences. *)
event_transition_gap(evs, trs) ==
    \E e \in Elements(evs) :
        Rows(evs, LAMBDA r : r = e) > Rows(trs, LAMBDA r : r.event = e)

(* Mutant: one snapshot settles every occurrence of its decision. *)
DecisionNeverApplied(trs, snaps) ==
    \E t \in Elements(trs) :
        /\ t.decision = "applied"
        /\ \A r \in Elements(snaps) : r.last # t.event \/ r.state # t.to

(* Some applied decision has fewer snapshots than occurrences. *)
transition_snapshot_gap(trs, snaps) ==
    \E t \in Elements(trs) :
        /\ t.decision = "applied"
        /\ Rows(trs, LAMBDA r : r = t)
             > Rows(snaps, LAMBDA r : r.last = t.event /\ r.state = t.to)

contact_without_event(evs, snaps) ==
    \E r \in Elements(snaps) : {r.first, r.last} \ Elements(evs) # {}

(* Of several snapshots with the same version the last one counts. *)
Referenced(snaps, d) ==
    {i \in DOMAIN snaps : /\ snaps[i].contact = d.contact
                          /\ snaps[i].version = d.version
                          /\ \A j \in DOMAIN snaps :
                                (snaps[j].contact = d.contact /\ snaps[j].version = d.version)
                                    => j <= i}

SamePlan(snap, d) == plan_dispatch(snap) = d.type /\ snap.state = d.state

dispatch_state_gap(snaps, ds) ==
    \E d \in Elements(ds) : ~ \E i \in Referenced(snaps, d) : SamePlan(snaps[i], d)

reconcile_state(evs, trs, snaps, ds) ==
    ~ \/ event_transition_gap(evs, trs)
      \/ transition_snapshot_gap(trs, snaps)
      \/ contact_without_event(evs, snaps)
      \/ dispatch_state_gap(snaps, ds)

(* The gate's own idea of the latest snapshot: the highest version.        *)
latest_contact_by_id(snaps, c) ==
    {i \in DOMAIN snaps :
        /\ snaps[i].contact = c
        /\ \A j \in DOMAIN snaps : snaps[j].contact = c =>
              \/ snaps[j].version < snaps[i].version
              \/ snaps[j].version = snaps[i].version /\ j <= i}

AllowedState(type) == IF type = "orientation_email" THEN "subscribed" ELSE "aware"

(* Mutant: the snapshot the dispatch was planned from is consulted, not the *)
(* latest one.                                                             *)
EligibleWhenPlanned(snaps, d) ==
    \E i \in Referenced(snaps, d) :
        snaps[i].state = AllowedState(d.type) /\ SamePlan(snaps[i], d)

(* Whether the gate finds planned dispatch d eligible, the ledgers having   *)
(* reconciled.                                                             *)
DispatchEligible(snaps, d) ==
    /\ Referenced(snaps, d) # {}
    /\ \E i \in latest_contact_by_id(snaps, d.contact) :
          /\ snaps[i].state = AllowedState(d.type)
          /\ d.type = "orientation_email" => snaps[i].consent \in DISPATCHABLE_CONSENT_STATUSES
          /\ SamePlan(snaps[i], d)

----------------------------------------------------------------------------
VARIABLES
    events, transitions, contacts, dispatches,   \* the four ledgers
    batches,   \* the exports source_batches.jsonl has a manifest of
    job,       \* what each process is doing
    lost       \* history: the appends that an interrupted process left out

vars == <<events, transitions, contacts, dispatches, batches, job, lost>>

Idle == [pc |-> "idle", event |-> NoEvent, prior |-> NoSnapshot, plan |-> FALSE,
         file |-> <<>>, left |-> <<>>, seen |-> {}]

Init ==
    /\ events = <<>> /\ transitions = <<>> /\ contacts = <<>> /\ dispatches = <<>>
    /\ batches = {}
    /\ job = [w \in Writers |-> Idle]
    /\ lost = {}

ledgers == <<events, transitions, contacts, dispatches, batches>>

Importing(w) == job[w].file # <<>>
Outcome(w) == evaluate_transition(job[w].event, job[w].prior)
NewSnapshot(w) == build_contact_snapshot(job[w].prior, job[w].event)

(* Mutant: the plan is appended without looking at its decision. *)
NextAppendAnyPlan(w, done) ==
    CASE done = "event" -> "transition"
      [] done = "transition" /\ Outcome(w).decision = "applied" -> "contact"
      [] done = "contact" /\ job[w].plan -> "dispatch"
      [] OTHER -> "done"

(* What is left to do with the current event once `done' has been appended. *)
NextAppend(w, done) ==
    CASE done = "event" -> "transition"
      [] done = "transition" /\ Outcome(w).decision = "applied" -> "contact"
      [] done = "contact" /\ job[w].plan /\ plan_dispatch(NewSnapshot(w)) # "blocked" -> "dispatch"
      [] OTHER -> "done"

(* A process that is done with its event exits, or returns to its rows.     *)
Proceed(w, done) ==
    job' = [job EXCEPT ![w] =
        IF NextAppend(w, done) # "done" THEN [@ EXCEPT !.pc = NextAppend(w, done)]
        ELSE IF Importing(w)
             THEN [@ EXCEPT !.pc = "rows", !.event = NoEvent, !.prior = NoSnapshot,
                            !.seen = job[w].seen \cup {job[w].event}]
             ELSE Idle]

(* add-contact builds its event, reads the latest snapshot and decides.     *)
run_add_contact(w) ==
    /\ job[w].pc = "idle"
    /\ \E c \in Contacts, consent \in CliConsents, plan \in PlanFlags :
          job' = [job EXCEPT ![w] =
                    [Idle EXCEPT !.pc = "event", !.plan = plan,
                                 !.event = SeedEvent(c, consent),
                                 !.prior = load_latest_contact_snapshot(contacts, c)]]
    /\ UNCHANGED <<ledgers, lost>>

(* An import reads the event ids on file once, before its first row.        *)
ingest_substack_csv(w) ==
    /\ job[w].pc = "idle"
    /\ \E f \in CsvFiles, plan \in PlanFlags :
          job' = [job EXCEPT ![w] =
                    [Idle EXCEPT !.pc = "rows", !.plan = plan, !.file = f, !.left = f,
                                 !.seen = Elements(events)]]
    /\ UNCHANGED <<ledgers, lost>>

Usable(row, seen) == row.contact # NoEmail /\ RowEvent(row) \notin seen

SkipRow(w) ==
    /\ job[w].pc = "rows" /\ job[w].left # <<>>
    /\ ~Usable(Head(job[w].left), job[w].seen)
    /\ job' = [job EXCEPT ![w].left = Tail(@)]
    /\ UNCHANGED <<ledgers, lost>>

ImportRow(w) ==
    /\ job[w].pc = "rows" /\ job[w].left # <<>>
    /\ LET row == Head(job[w].left)
       IN  /\ Usable(row, job[w].seen)
           /\ job' = [job EXCEPT ![w] =
                        [@ EXCEPT !.pc = "event", !.left = Tail(job[w].left),
                                  !.event = RowEvent(row),
                                  !.prior = load_latest_contact_snapshot(contacts, row.contact)]]
    /\ UNCHANGED <<ledgers, lost>>

AppendEvent(w) ==
    /\ job[w].pc = "event" /\ Len(events) < MaxEvents
    /\ events' = Append(events, job[w].event)
    /\ Proceed(w, "event")
    /\ UNCHANGED <<transitions, contacts, dispatches, batches, lost>>

AppendTransition(w) ==
    /\ job[w].pc = "transition"
    /\ transitions' = Append(transitions, Outcome(w))
    /\ Proceed(w, "transition")
    /\ UNCHANGED <<events, contacts, dispatches, batches, lost>>

AppendContact(w) ==
    /\ job[w].pc = "contact"
    /\ contacts' = Append(contacts, NewSnapshot(w))
    /\ Proceed(w, "contact")
    /\ UNCHANGED <<events, transitions, dispatches, batches, lost>>

AppendDispatch(w) ==
    /\ job[w].pc = "dispatch"
    /\ dispatches' = Append(dispatches, DispatchOf(NewSnapshot(w)))
    /\ Proceed(w, "dispatch")
    /\ UNCHANGED <<events, transitions, contacts, batches, lost>>

AppendManifest(w) ==
    /\ job[w].pc = "rows" /\ job[w].left = <<>>
    /\ batches' = batches \cup {job[w].file}
    /\ job' = [job EXCEPT ![w] = Idle]
    /\ UNCHANGED <<events, transitions, contacts, dispatches, lost>>

(* The process is killed, or its next append raises (the lock stays busy    *)
(* for all retries, the disk is full).  What is on file stays there.        *)
Interrupt(w) ==
    /\ job[w].pc # "idle"
    /\ lost' = IF job[w].pc \in {"transition", "contact", "dispatch"}
               THEN lost \cup {[event |-> job[w].event, missing |-> job[w].pc]}
               ELSE lost
    /\ job' = [job EXCEPT ![w] = Idle]
    /\ UNCHANGED ledgers

Step(w) ==
    \/ run_add_contact(w) \/ ingest_substack_csv(w) \/ SkipRow(w) \/ ImportRow(w)
    \/ AppendEvent(w) \/ AppendTransition(w) \/ AppendContact(w) \/ AppendDispatch(w)
    \/ AppendManifest(w) \/ Interrupt(w)

Next == \E w \in Writers : Step(w)

Spec == Init /\ [][Next]_vars

----------------------------------------------------------------------------
Job == [pc : {"idle", "rows", "event", "transition", "contact", "dispatch"},
        event : Event \cup {NoEvent}, prior : Snapshot \cup {NoSnapshot},
        plan : BOOLEAN, file : Seq(Row), left : Seq(Row), seen : SUBSET Event]

(* Every ledger holds records of its own shape, complete ones only.         *)
TypeOK ==
    /\ events \in Seq(Event)
    /\ transitions \in Seq(Transition)
    /\ contacts \in Seq(Snapshot)
    /\ dispatches \in Seq(Dispatch)
    /\ batches \subseteq CsvFiles
    /\ job \in [Writers -> Job]
    /\ lost \subseteq [event : Event, missing : {"transition", "contact", "dispatch"}]

Clean == reconcile_state(events, transitions, contacts, dispatches)
Quiet == \A w \in Writers : job[w].pc \in {"idle", "rows", "event"}

(* Sticky suppression (transitions.py:93): a contact that was suppressed    *)
(* gets no later snapshot, so nothing can bring it back.                    *)
StickySuppression ==
    \A i, j \in DOMAIN contacts :
        (i < j /\ contacts[i].contact = contacts[j].contact)
            => contacts[i].state # "suppressed"

(* The writers take the last line of contacts.jsonl for the latest snapshot *)
(* (jsonl_store.py:83), the gate the highest version (dispatch_gate.py:64): *)
(* they must mean the same row.                                             *)
WritersAndGateAgree ==
    \A c \in Contacts : \A i \in latest_contact_by_id(contacts, c) :
        load_latest_contact_snapshot(contacts, c) = contacts[i]

(* What an interrupted process left out of transitions.jsonl or             *)
(* contacts.jsonl is reported by every later reconciliation: no later       *)
(* append, of a retry or of another process, covers the gap up.             *)
LostAppendStaysReported ==
    (\E x \in lost : x.missing # "dispatch") => ~Clean

(* With no process between its appends, reconciliation is clean exactly     *)
(* when no required append was left out: no gap missed, no false alarm.     *)
ReconcileIsExact ==
    Quiet => (Clean <=> \A x \in lost : x.missing = "dispatch")

(* If the gate would release an email, the contact has never unsubscribed,  *)
(* whichever export said so and whatever was interrupted since.             *)
EligibleNeverUnsubscribed ==
    Clean => \A d \in Elements(dispatches) :
        (d.type = "orientation_email" /\ DispatchEligible(contacts, d))
            => \A e \in Elements(events) :
                  e.contact = d.contact => e.kind \notin SUPPRESSION_EVENT_TYPES

(* An export with a manifest, on ledgers that reconcile, has had its        *)
(* unsubscribes obeyed, also when earlier imports of it were interrupted    *)
(* and its rows then skipped as duplicates (substack_csv.py:221).           *)
ManifestMeansObeyed ==
    (Clean /\ Quiet) => \A f \in batches : \A i \in DOMAIN f :
        (f[i].status = "unsubscribed" /\ f[i].contact # NoEmail)
            => load_latest_contact_snapshot(contacts, f[i].contact).state = "suppressed"

(* What the ledgers say of a contact, as its register (ContactRegister): an *)
(* event is heard once its process has come to the end of it, by the append *)
(* that makes the change or by the decision that there is none.             *)
Deciding == \E w \in Writers : job[w].pc \in {"transition", "contact"}

Heard == IF Deciding THEN SubSeq(events, 1, Len(events) - 1) ELSE events

EntryOf(snap) == [version |-> snap.version, state |-> snap.state,
                  because |-> IF snap.version = 0 THEN NoEvent ELSE snap.last]

Entries == [c \in Contacts |-> EntryOf(load_latest_contact_snapshot(contacts, c))]

Missed == {x.event : x \in {y \in lost : y.missing # "dispatch"}}

Register == INSTANCE ContactRegister WITH
    Events      <- Event,
    Withdrawals <- {e \in Event : e.kind \in SUPPRESSION_EVENT_TYPES},
    Grants      <- {e \in Event : /\ e.kind = "contact_seeded"
                                  /\ e.consent \in DISPATCHABLE_CONSENT_STATUSES},
    heard       <- Heard,
    register    <- Entries,
    missed      <- Missed

(* Four appends that nothing spans, whose decision rests on what was read   *)
(* before the first of them (cli.py:124, substack_csv.py:236), are seen by  *)
(* every reader of the ledgers as one change, in the order of the events,   *)
(* wherever the process that made them was stopped.                         *)
ImplementsRegister == Register!Spec
=============================================================================
