----------------------- MODULE RetentionLedgerProofs -----------------------
(* Proofs about RetentionLedger, for every set of contacts, exports and     *)
(* bounds: types, and what one writer at a time guarantees, up to the       *)
(* contact register that it implements.                                     *)
EXTENDS RetentionLedger, FiniteSetTheorems, TLAPS

Prior == Snapshot \cup {NoSnapshot}

(* What a process that is about to append knows about its event.            *)
Planned(j) ==
    /\ j.pc \in {"event", "transition", "contact", "dispatch"} => j.event \in Event
    /\ j.pc \in {"contact", "dispatch"} =>
          evaluate_transition(j.event, j.prior).decision = "applied"
    /\ j.pc = "rows" \/ j.file # <<>> => j.file \in CsvFiles
    /\ j.pc = "dispatch" =>
          plan_dispatch(build_contact_snapshot(j.prior, j.event)) # "blocked"

TypeInv == TypeOK /\ \A w \in Writers : Planned(job[w])

----------------------------------------------------------------------------
(* The pure operators return records of the right shape.                    *)

LEMMA RowEventType ==
    ASSUME NEW row \in Row, row.contact # NoEmail
    PROVE  RowEvent(row) \in Event
  BY KeyAssumption DEF RowEvent, Row, Event, Statuses, Consents, SUPPRESSION_EVENT_TYPES

(* The latest row of a contact is a row or none.                             *)
LEMMA LatestType ==
    ASSUME NEW rows \in Seq(Snapshot), NEW c
    PROVE  load_latest_contact_snapshot(rows, c) \in Prior
  BY DEF load_latest_contact_snapshot, LastOf, Prior

(* The state an event asks for.                                              *)
LEMMA TargetType ==
    ASSUME NEW e \in Event
    PROVE  TargetState(e) \in States
  BY DEF TargetState, States

(* The decision on an event.                                                 *)
LEMMA DecisionType ==
    ASSUME NEW e \in Event, NEW prior \in Prior
    PROVE  /\ evaluate_transition(e, prior) \in Transition
           /\ evaluate_transition(e, prior).event = e
           /\ evaluate_transition(e, prior).decision = "applied" =>
                 /\ evaluate_transition(e, prior).to = TargetState(e)
                 /\ evaluate_transition(e, prior).to # "none"
                 /\ evaluate_transition(e, prior).to # prior.state
                 /\ prior.state = "suppressed" => e.kind \in SUPPRESSION_EVENT_TYPES
  <1>1. prior.state \in States
    BY DEF Prior, Snapshot, NoSnapshot, States
  <1>2. TargetState(e) \in States
    BY TargetType
  <1> QED
    BY <1>1, <1>2 DEF evaluate_transition, Transition, States

(* The row built from an applied decision.                                   *)
LEMMA SnapshotType ==
    ASSUME NEW e \in Event, NEW prior \in Prior,
           evaluate_transition(e, prior).decision = "applied"
    PROVE  build_contact_snapshot(prior, e) \in Snapshot
  <1>1. evaluate_transition(e, prior).to \in States \ {"none"}
    BY DecisionType DEF Transition
  <1>2. prior.version \in Nat /\ (prior.version # 0 => prior.first \in Event)
    BY DEF Prior, Snapshot, NoSnapshot
  <1>3. e.contact \in Contacts /\ e.consent \in Consents
    BY DEF Event
  <1> QED
    BY <1>1, <1>2, <1>3 DEF build_contact_snapshot, Snapshot

(* The dispatch planned for a row.                                           *)
LEMMA DispatchType ==
    ASSUME NEW snap \in Snapshot, plan_dispatch(snap) # "blocked"
    PROVE  DispatchOf(snap) \in Dispatch
  BY DEF DispatchOf, plan_dispatch, Snapshot, Dispatch

(* Elements of a sequence over a set.                                        *)
LEMMA ElementsType ==
    ASSUME NEW S, NEW s \in Seq(S)
    PROVE  Elements(s) \subseteq S
  BY DEF Elements

----------------------------------------------------------------------------
(* The types at the beginning.                                               *)
LEMMA InitType == Init => TypeInv
  BY DEF Init, TypeInv, TypeOK, Idle, Job, Planned, NoEvent, NoSnapshot, Event, Snapshot

(* A step that gives one process a well-formed job, and leaves the ledgers   *)
(* well formed, keeps the invariant.                                        *)
LEMMA JobStepType ==
    ASSUME TypeInv, NEW w \in Writers, NEW k \in Job, Planned(k),
           job' = [job EXCEPT ![w] = k],
           events' \in Seq(Event), transitions' \in Seq(Transition),
           contacts' \in Seq(Snapshot), dispatches' \in Seq(Dispatch),
           batches' \subseteq CsvFiles, UNCHANGED lost
    PROVE  TypeInv'
  <1>1. job' \in [Writers -> Job] /\ \A v \in Writers : Planned(job'[v])
    BY DEF TypeInv, TypeOK
  <1>2. TypeOK'
    BY <1>1 DEF TypeInv, TypeOK
  <1> QED
    BY <1>1, <1>2 DEF TypeInv, Planned

(* A process between two rows.                                               *)
LEMMA IdleType == Idle \in Job /\ Planned(Idle) /\ Idle.pc = "idle"
  <1>1. <<>> \in Seq(Row)
    OBVIOUS
  <1> QED
    BY <1>1 DEF Idle, Job, Planned, NoEvent, NoSnapshot

(* Moving on after an append leaves a well-formed job.                      *)
LEMMA ProceedType ==
    ASSUME TypeInv, NEW w \in Writers, NEW done \in {"event", "transition", "contact", "dispatch"},
           job[w].pc = done, Proceed(w, done)
    PROVE  \E k \in Job : Planned(k) /\ job' = [job EXCEPT ![w] = k]
  <1> DEFINE j == job[w]
  <1>1. j \in Job /\ Planned(j) /\ j.event \in Event
    BY DEF TypeInv, TypeOK, Planned
  <1>3. NextAppend(w, done) \in {"transition", "contact", "dispatch", "done"}
    BY DEF NextAppend
  <1>4. CASE NextAppend(w, done) # "done"
    <2> DEFINE k == [j EXCEPT !.pc = NextAppend(w, done)]
    <2>1. job' = [job EXCEPT ![w] = k]
      BY <1>4 DEF Proceed
    <2>2. /\ k \in Job /\ k.event = j.event /\ k.prior = j.prior
          /\ k.pc = NextAppend(w, done) /\ k.file = j.file
      BY <1>1, <1>3, <1>4 DEF Job
    <2>3. k.pc \in {"contact", "dispatch"} =>
             evaluate_transition(j.event, j.prior).decision = "applied"
      BY <1>1, <2>2 DEF NextAppend, Outcome, Planned
    <2>4. k.pc = "dispatch" =>
             plan_dispatch(build_contact_snapshot(j.prior, j.event)) # "blocked"
      BY <2>2 DEF NextAppend, NewSnapshot
    <2>5. Planned(k)
      BY <1>1, <1>3, <1>4, <2>2, <2>3, <2>4 DEF Planned
    <2> QED
      BY <2>1, <2>2, <2>5
  <1>5. CASE NextAppend(w, done) = "done"
    <2> DEFINE r == [j EXCEPT !.pc = "rows", !.event = NoEvent, !.prior = NoSnapshot,
                              !.seen = j.seen \cup {j.event}]
    <2>1. \/ job' = [job EXCEPT ![w] = r] /\ j.file # <<>>
          \/ job' = [job EXCEPT ![w] = Idle]
      BY <1>5 DEF Proceed, Importing
    <2>2. r \in Job /\ r.pc = "rows" /\ r.file = j.file
      BY <1>1 DEF Job
    <2>3. j.file # <<>> => Planned(r)
      BY <1>1, <2>2 DEF Planned
    <2> QED
      BY <2>1, <2>2, <2>3, IdleType
  <1> QED
    BY <1>4, <1>5

(* Every append keeps the types.                                             *)
LEMMA StepType ==
    ASSUME TypeInv, Next
    PROVE  TypeInv'
  <1>1. PICK w \in Writers : Step(w)
    BY DEF Next
  <1> DEFINE j == job[w]
  <1>2. /\ j \in Job /\ Planned(j) /\ job \in [Writers -> Job]
        /\ \A v \in Writers : Planned(job[v])
    BY DEF TypeInv, TypeOK
  <1>2a. /\ events \in Seq(Event) /\ transitions \in Seq(Transition)
         /\ contacts \in Seq(Snapshot) /\ dispatches \in Seq(Dispatch)
         /\ batches \subseteq CsvFiles
    BY DEF TypeInv, TypeOK
  <1>3. j.event \in Event \cup {NoEvent} /\ j.prior \in Prior /\ j.left \in Seq(Row)
    BY <1>2 DEF Job, Prior
  <1>4. Idle \in Job /\ Planned(Idle) /\ Idle.pc = "idle"
    BY IdleType
  <1>5. CASE run_add_contact(w)
    <2>1. PICK c \in Contacts, consent \in CliConsents, plan \in PlanFlags :
             job' = [job EXCEPT ![w] =
                       [Idle EXCEPT !.pc = "event", !.plan = plan,
                                    !.event = SeedEvent(c, consent),
                                    !.prior = load_latest_contact_snapshot(contacts, c)]]
      BY <1>5 DEF run_add_contact
    <2> DEFINE k == [Idle EXCEPT !.pc = "event", !.plan = plan,
                                 !.event = SeedEvent(c, consent),
                                 !.prior = load_latest_contact_snapshot(contacts, c)]
    <2>2. SeedEvent(c, consent) \in Event
      BY ConsentAssumption, KeyAssumption DEF SeedEvent, Event
    <2>3. load_latest_contact_snapshot(contacts, c) \in Prior
      BY LatestType DEF TypeInv, TypeOK
    <2>4. k \in Job /\ k.pc = "event" /\ k.event \in Event /\ k.file = Idle.file
      BY <1>4, <2>2, <2>3, PlanAssumption DEF Job, Prior
    <2>5. Planned(k)
      BY <1>4, <2>4 DEF Planned
    <2>6. job' = [job EXCEPT ![w] = k]
      BY <2>1
    <2>7. UNCHANGED <<events, transitions, contacts, dispatches, batches, lost>>
      BY <1>5 DEF run_add_contact, ledgers
    <2> HIDE DEF k
    <2> QED
      BY <1>2a, <2>4, <2>5, <2>6, <2>7, JobStepType
  <1>6. CASE ingest_substack_csv(w)
    <2>1. PICK f \in CsvFiles, plan \in PlanFlags :
             job' = [job EXCEPT ![w] =
                       [Idle EXCEPT !.pc = "rows", !.plan = plan, !.file = f, !.left = f,
                                    !.seen = Elements(events)]]
      BY <1>6 DEF ingest_substack_csv
    <2> DEFINE k == [Idle EXCEPT !.pc = "rows", !.plan = plan, !.file = f, !.left = f,
                                 !.seen = Elements(events)]
    <2>2. Elements(events) \subseteq Event
      BY ElementsType DEF TypeInv, TypeOK
    <2>3. f \in Seq(Row)
      BY FileAssumption
    <2>4. k \in Job /\ k.pc = "rows" /\ k.file = f
      BY <1>4, <2>2, <2>3, PlanAssumption DEF Job
    <2>5. Planned(k)
      BY <2>4 DEF Planned
    <2>6. job' = [job EXCEPT ![w] = k]
      BY <2>1
    <2>7. UNCHANGED <<events, transitions, contacts, dispatches, batches, lost>>
      BY <1>6 DEF ingest_substack_csv, ledgers
    <2> HIDE DEF k
    <2> QED
      BY <1>2a, <2>4, <2>5, <2>6, <2>7, JobStepType
  <1>7. CASE SkipRow(w)
    <2> DEFINE k == [j EXCEPT !.left = Tail(j.left)]
    <2>1. job' = [job EXCEPT ![w] = k]
      BY <1>7, <1>2 DEF SkipRow
    <2>0. Tail(j.left) \in Seq(Row) /\ j.pc = "rows"
      BY <1>3, <1>7 DEF SkipRow
    <2>2. k \in Job /\ k.pc = "rows" /\ k.file = j.file
      BY <1>2, <2>0 DEF Job
    <2>3. Planned(k)
      BY <1>2, <2>0, <2>2 DEF Planned
    <2> HIDE DEF k
    <2> QED
      BY <1>2a, <1>7, <2>1, <2>2, <2>3, JobStepType DEF SkipRow, ledgers
  <1>8. CASE ImportRow(w)
    <2> DEFINE row == Head(j.left)
    <2> DEFINE k == [j EXCEPT !.pc = "event", !.left = Tail(j.left),
                              !.event = RowEvent(row),
                              !.prior = load_latest_contact_snapshot(contacts, row.contact)]
    <2>1. job' = [job EXCEPT ![w] = k] /\ row.contact # NoEmail /\ row \in Row
      BY <1>3, <1>8 DEF ImportRow, Usable
    <2>2. RowEvent(row) \in Event
      BY <2>1, RowEventType
    <2>3. load_latest_contact_snapshot(contacts, row.contact) \in Prior
      BY LatestType DEF TypeInv, TypeOK
    <2>4. Tail(j.left) \in Seq(Row)
      BY <1>3, <1>8 DEF ImportRow
    <2>5. k \in Job /\ k.pc = "event" /\ k.event \in Event /\ k.file = j.file
      BY <1>2, <2>2, <2>3, <2>4 DEF Job, Prior
    <2>6. Planned(k)
      BY <1>2, <2>5 DEF Planned
    <2> HIDE DEF k
    <2> QED
      BY <1>2a, <1>8, <2>1, <2>5, <2>6, JobStepType DEF ImportRow, ledgers
  <1>9. CASE AppendEvent(w)
    <2>1. Append(events, j.event) \in Seq(Event)
      BY <1>2, <1>2a, <1>9 DEF AppendEvent, Planned
    <2>9. \E k \in Job : Planned(k) /\ job' = [job EXCEPT ![w] = k]
      BY <1>9, ProceedType DEF AppendEvent
    <2> QED
      BY <1>2a, <1>9, <2>1, <2>9, JobStepType DEF AppendEvent
  <1>10. CASE AppendTransition(w)
    <2>1. Outcome(w) \in Transition
      BY <1>2, <1>3, <1>10, DecisionType DEF AppendTransition, Outcome, Planned
    <2>2. Append(transitions, Outcome(w)) \in Seq(Transition)
      BY <2>1 DEF TypeInv, TypeOK
    <2>9. \E k \in Job : Planned(k) /\ job' = [job EXCEPT ![w] = k]
      BY <1>10, ProceedType DEF AppendTransition
    <2> QED
      BY <1>2a, <1>10, <2>2, <2>9, JobStepType DEF AppendTransition
  <1>11. CASE AppendContact(w)
    <2>1. NewSnapshot(w) \in Snapshot
      BY <1>2, <1>3, <1>11, SnapshotType DEF AppendContact, NewSnapshot, Planned
    <2>2. Append(contacts, NewSnapshot(w)) \in Seq(Snapshot)
      BY <2>1 DEF TypeInv, TypeOK
    <2>9. \E k \in Job : Planned(k) /\ job' = [job EXCEPT ![w] = k]
      BY <1>11, ProceedType DEF AppendContact
    <2> QED
      BY <1>2a, <1>11, <2>2, <2>9, JobStepType DEF AppendContact
  <1>12. CASE AppendDispatch(w)
    <2>1. NewSnapshot(w) \in Snapshot /\ plan_dispatch(NewSnapshot(w)) # "blocked"
      BY <1>2, <1>3, <1>12, SnapshotType DEF AppendDispatch, NewSnapshot, Planned
    <2>2. Append(dispatches, DispatchOf(NewSnapshot(w))) \in Seq(Dispatch)
      BY <2>1, DispatchType DEF TypeInv, TypeOK
    <2>9. \E k \in Job : Planned(k) /\ job' = [job EXCEPT ![w] = k]
      BY <1>12, ProceedType DEF AppendDispatch
    <2> QED
      BY <1>2a, <1>12, <2>2, <2>9, JobStepType DEF AppendDispatch
  <1>13. CASE AppendManifest(w)
    <2>1. j.file \in CsvFiles
      BY <1>2, <1>13 DEF AppendManifest, Planned
    <2> QED
      BY <1>2a, <1>4, <1>13, <2>1, JobStepType DEF AppendManifest
  <1>14. CASE Interrupt(w)
    <2>1. lost' \subseteq [event : Event, missing : {"transition", "contact", "dispatch"}]
      BY <1>2, <1>14 DEF Interrupt, Planned, TypeInv, TypeOK
    <2>2. job' \in [Writers -> Job] /\ \A v \in Writers : Planned(job'[v])
      BY <1>2, <1>4, <1>14 DEF Interrupt
    <2> QED
      BY <1>2a, <1>14, <2>1, <2>2 DEF Interrupt, ledgers, TypeInv, TypeOK, Planned
  <1> QED
    BY <1>1, <1>5, <1>6, <1>7, <1>8, <1>9, <1>10, <1>11, <1>12, <1>13, <1>14 DEF Step

(* Every ledger holds complete records of its own shape, whatever the        *)
(* processes do and wherever they are interrupted.                          *)
THEOREM TypeCorrect == Spec => []TypeOK
  <1>1. TypeInv /\ UNCHANGED vars => TypeInv'
    BY DEF TypeInv, TypeOK, vars, Planned
  <1>2. TypeInv /\ [Next]_vars => TypeInv'
    BY <1>1, StepType
  <1>3. TypeInv => TypeOK
    BY DEF TypeInv
  <1> QED
    BY InitType, <1>2, <1>3, PTL DEF Spec

(* The types hold for any number of writers.                                 *)
THEOREM TypeInvariant == Spec => []TypeInv
  <1>1. TypeInv /\ UNCHANGED vars => TypeInv'
    BY DEF TypeInv, TypeOK, vars, Planned
  <1>2. TypeInv /\ [Next]_vars => TypeInv'
    BY <1>1, StepType
  <1> QED
    BY InitType, <1>2, PTL DEF Spec

----------------------------------------------------------------------------
(* One process at a time.  This is not enforced by the code: it is how the  *)
(* commands are meant to be run, and retention_race shows it is needed.     *)
OneWriter == \A v, w \in Writers : v = w

(* What the process read before its appends is still the latest snapshot.   *)
PriorIsFresh ==
    \A w \in Writers : job[w].pc \in {"event", "transition", "contact"} =>
        job[w].prior = load_latest_contact_snapshot(contacts, job[w].event.contact)

(* A contact that has a snapshot has a last one. *)
LastExists ==
    \A i \in DOMAIN contacts : \E k \in DOMAIN contacts :
        LastOf(contacts, contacts[i].contact, k)

(* The versions of a contact grow along the file. *)
VersionsGrow ==
    \A i, j \in DOMAIN contacts :
        (i < j /\ contacts[i].contact = contacts[j].contact)
            => contacts[i].version < contacts[j].version

HistoryInv == PriorIsFresh /\ LastExists /\ VersionsGrow /\ StickySuppression

(* A contact has at most one last row, and reading it returns that row.     *)
LEMMA LatestIsLast ==
    ASSUME NEW rows \in Seq(Snapshot), NEW c, NEW k \in DOMAIN rows, LastOf(rows, c, k)
    PROVE  load_latest_contact_snapshot(rows, c) = rows[k]
  <1>1. \A i \in DOMAIN rows : LastOf(rows, c, i) => i = k
    BY DEF LastOf
  <1>2. (CHOOSE i \in DOMAIN rows : LastOf(rows, c, i)) = k
    BY <1>1
  <1> QED
    BY <1>2 DEF load_latest_contact_snapshot

(* The row a process is about to append.                                     *)
LEMMA NewSnapshotFacts ==
    ASSUME TypeInv, NEW w \in Writers, job[w].pc = "contact"
    PROVE  /\ NewSnapshot(w) \in Snapshot
           /\ NewSnapshot(w).contact = job[w].event.contact
           /\ NewSnapshot(w).version = job[w].prior.version + 1
           /\ job[w].prior.version \in Nat
           /\ job[w].prior.state # "suppressed"
  <1> DEFINE j == job[w]
  <1>1. /\ j.event \in Event /\ j.prior \in Prior
        /\ evaluate_transition(j.event, j.prior).decision = "applied"
    BY DEF TypeInv, TypeOK, Planned, Job, Prior
  <1>2. j.prior.state # "suppressed"
    <2>1. SUFFICES ASSUME j.prior.state = "suppressed" PROVE FALSE
      OBVIOUS
    <2>2. j.event.kind \in SUPPRESSION_EVENT_TYPES /\ TargetState(j.event) # "suppressed"
      BY <1>1, <2>1, DecisionType
    <2> QED
      BY <2>2 DEF TargetState, SUPPRESSION_EVENT_TYPES
  <1>3. j.prior.version \in Nat
    BY <1>1 DEF Prior, Snapshot, NoSnapshot
  <1> QED
    <2>1. NewSnapshot(w) \in Snapshot
      BY <1>1, SnapshotType DEF NewSnapshot
    <2>2. /\ NewSnapshot(w).contact = j.event.contact
          /\ NewSnapshot(w).version = j.prior.version + 1
      BY DEF NewSnapshot, build_contact_snapshot
    <2> QED
      BY <1>2, <1>3, <2>1, <2>2

(* The one step that can disturb the history: appending a snapshot.         *)
LEMMA AppendContactHistory ==
    ASSUME OneWriter, TypeInv, HistoryInv, NEW w \in Writers, AppendContact(w)
    PROVE  HistoryInv'
  <1> DEFINE n == Len(contacts)
             new == NewSnapshot(w)
             c == new.contact
  <1>1. /\ job[w].pc = "contact" /\ contacts' = Append(contacts, new)
        /\ contacts \in Seq(Snapshot) /\ n \in Nat
    BY DEF AppendContact, TypeInv, TypeOK
  <1>2. /\ new \in Snapshot /\ c = job[w].event.contact
        /\ new.version = job[w].prior.version + 1
        /\ job[w].prior.version \in Nat
        /\ job[w].prior.state # "suppressed"
    BY <1>1, NewSnapshotFacts
  <1>3. job[w].prior = load_latest_contact_snapshot(contacts, c)
    BY <1>1, <1>2 DEF HistoryInv, PriorIsFresh
  <1>4. /\ DOMAIN contacts = 1..n /\ DOMAIN contacts' = 1..(n + 1)
        /\ contacts'[n + 1] = new
        /\ \A i \in 1..n : contacts'[i] = contacts[i] /\ contacts[i] \in Snapshot
        /\ n \in Nat
    BY <1>1, <1>2
  <1> HIDE DEF n, new, c
  <1>5. \A i \in 1..n : contacts[i].contact = c =>
           contacts[i].version < new.version /\ contacts[i].state # "suppressed"
    <2> SUFFICES ASSUME NEW i \in 1..n, contacts[i].contact = c
                 PROVE  contacts[i].version < new.version /\ contacts[i].state # "suppressed"
      OBVIOUS
    <2>1. PICK k \in 1..n : LastOf(contacts, c, k)
      BY <1>4 DEF HistoryInv, LastExists
    <2>2. job[w].prior = contacts[k]
      BY <1>1, <1>3, <1>4, <2>1, LatestIsLast
    <2>3. i <= k /\ contacts[k].contact = c
      BY <1>4, <2>1 DEF LastOf
    <2>4. contacts[i].version \in Nat /\ contacts[k].version \in Nat
      BY <1>4 DEF Snapshot
    <2>5. CASE i = k
      BY <1>2, <2>2, <2>4, <2>5
    <2>6. CASE i < k
      <3>1. contacts[i].version < contacts[k].version /\ contacts[i].state # "suppressed"
        BY <1>4, <2>3, <2>6 DEF HistoryInv, VersionsGrow, StickySuppression
      <3> QED
        BY <1>2, <2>2, <2>4, <3>1
    <2> QED
      BY <1>1, <2>3, <2>5, <2>6
  <1>6. VersionsGrow'
    BY <1>1, <1>4, <1>5 DEF HistoryInv, VersionsGrow, c
  <1>7. StickySuppression'
    BY <1>1, <1>4, <1>5 DEF HistoryInv, StickySuppression, c
  <1>8. LastExists'
    <2> SUFFICES ASSUME NEW i \in 1..(n + 1)
                 PROVE  \E k \in 1..(n + 1) : LastOf(contacts', contacts'[i].contact, k)
      BY <1>4 DEF LastExists
    <2>1. CASE contacts'[i].contact = c
      <3>1. LastOf(contacts', c, n + 1)
        BY <1>1, <1>4 DEF LastOf, c
      <3> QED
        BY <1>1, <2>1, <3>1
    <2>2. CASE contacts'[i].contact # c
      <3>1. i \in 1..n
        BY <1>1, <1>4, <2>2 DEF c
      <3>2. PICK k \in 1..n : LastOf(contacts, contacts[i].contact, k)
        BY <1>4, <3>1 DEF HistoryInv, LastExists
      <3>3. LastOf(contacts', contacts'[i].contact, k)
        BY <1>1, <1>4, <2>2, <3>1, <3>2 DEF LastOf, c
      <3> QED
        BY <1>4, <3>2, <3>3
    <2> QED
      BY <2>1, <2>2
  <1>9. PriorIsFresh'
    <2>1. NextAppend(w, "contact") \in {"dispatch", "done"}
      BY DEF NextAppend
    <2>2. job[w] \in Job /\ job \in [Writers -> Job]
      BY DEF TypeInv, TypeOK
    <2>3. job'[w].pc \in {"dispatch", "rows", "idle"}
      BY <2>1, <2>2 DEF AppendContact, Proceed, Idle, Job
    <2> QED
      BY <2>3 DEF OneWriter, PriorIsFresh
  <1> QED
    BY <1>6, <1>7, <1>8, <1>9 DEF HistoryInv

(* The other steps leave contacts.jsonl alone; those that begin an event    *)
(* have just read it.                                                       *)
LEMMA OtherHistory ==
    ASSUME OneWriter, TypeInv, HistoryInv, NEW w \in Writers, Step(w), ~AppendContact(w)
    PROVE  HistoryInv'
  <1> DEFINE j == job[w]
  <1>1. job \in [Writers -> Job] /\ j \in Job
    BY DEF TypeInv, TypeOK
  <1>2. contacts' = contacts
    BY DEF Step, run_add_contact, ingest_substack_csv, SkipRow, ImportRow, AppendEvent,
           AppendTransition, AppendDispatch, AppendManifest, Interrupt, ledgers
  <1>3. LastExists' /\ VersionsGrow' /\ StickySuppression'
    BY <1>2 DEF HistoryInv, LastExists, VersionsGrow, StickySuppression
  <1>4. ASSUME job'[w].pc \in {"event", "transition", "contact"}
        PROVE  job'[w].prior = load_latest_contact_snapshot(contacts, job'[w].event.contact)
    <2>1. CASE run_add_contact(w)
      BY <1>1, <2>1 DEF run_add_contact, Idle, SeedEvent
    <2>2. CASE ImportRow(w)
      <3>1. /\ job'[w].event = RowEvent(Head(j.left))
            /\ job'[w].prior = load_latest_contact_snapshot(contacts, Head(j.left).contact)
        BY <1>1, <2>2 DEF ImportRow, Job
      <3>2. RowEvent(Head(j.left)).contact = Head(j.left).contact
        BY DEF RowEvent
      <3> QED
        BY <3>1, <3>2
    <2>3. CASE AppendEvent(w)
      <3>1. j.pc = "event" /\ job'[w].prior = j.prior /\ job'[w].event = j.event
        BY <1>1, <2>3 DEF AppendEvent, Proceed, NextAppend, Job
      <3> QED
        BY <3>1 DEF HistoryInv, PriorIsFresh
    <2>4. CASE AppendTransition(w)
      <3>1. NextAppend(w, "transition") \in {"contact", "done"}
        BY DEF NextAppend
      <3>2. job'[w].pc = "contact" => job'[w].prior = j.prior /\ job'[w].event = j.event
        BY <1>1, <2>4, <3>1 DEF AppendTransition, Proceed, Job, Idle
      <3>3. job'[w].pc = "contact" /\ j.pc = "transition"
        BY <1>1, <1>4, <2>4, <3>1 DEF AppendTransition, Proceed, Job, Idle
      <3> QED
        BY <3>2, <3>3 DEF HistoryInv, PriorIsFresh
    <2>5. CASE AppendDispatch(w)
      <3>1. NextAppend(w, "dispatch") = "done"
        BY DEF NextAppend
      <3>2. job'[w].pc \in {"rows", "idle"}
        BY <1>1, <2>5, <3>1 DEF AppendDispatch, Proceed, Job, Idle
      <3> QED
        BY <1>4, <3>2
    <2>6. CASE ingest_substack_csv(w) \/ SkipRow(w) \/ AppendManifest(w) \/ Interrupt(w)
      <3>1. CASE ingest_substack_csv(w)
        BY <1>1, <1>4, <3>1 DEF ingest_substack_csv, Idle
      <3>2. CASE SkipRow(w)
        BY <1>1, <1>4, <3>2 DEF SkipRow, Job
      <3>3. CASE AppendManifest(w) \/ Interrupt(w)
        BY <1>1, <1>4, <3>3 DEF AppendManifest, Interrupt, Idle
      <3> QED
        BY <2>6, <3>1, <3>2, <3>3
    <2> QED
      BY <2>1, <2>2, <2>3, <2>4, <2>5, <2>6 DEF Step
  <1>5. PriorIsFresh'
    BY <1>2, <1>4 DEF OneWriter, PriorIsFresh
  <1> QED
    BY <1>3, <1>5 DEF HistoryInv

(* With one writer versions count up and the row read stays the latest.      *)
LEMMA HistoryStep ==
    ASSUME OneWriter, TypeInv, HistoryInv, [Next]_vars
    PROVE  HistoryInv'
  <1>1. CASE UNCHANGED vars
    BY <1>1 DEF vars, HistoryInv, PriorIsFresh, LastExists, VersionsGrow, StickySuppression
  <1>2. CASE Next
    BY <1>2, AppendContactHistory, OtherHistory DEF Next
  <1> QED
    BY <1>1, <1>2

(* So it does for ever.                                                      *)
LEMMA HistoryInvariant ==
    ASSUME OneWriter
    PROVE  Spec => []HistoryInv
  <1>1. Init => HistoryInv
    BY DEF Init, Idle, HistoryInv, PriorIsFresh, LastExists, VersionsGrow, StickySuppression
  <1>2. HistoryInv /\ TypeInv /\ [Next]_vars => HistoryInv'
    BY HistoryStep
  <1> QED
    BY <1>1, <1>2, TypeInvariant, PTL DEF Spec

(* With one process at a time a suppressed contact is never brought back,   *)
(* for any number of events, imports and interruptions.                     *)
THEOREM SuppressionIsSticky ==
    ASSUME OneWriter
    PROVE  Spec => []StickySuppression
  <1>1. HistoryInv => StickySuppression
    BY DEF HistoryInv
  <1> QED
    BY <1>1, HistoryInvariant, PTL

(* With one process at a time the writers' latest snapshot (the last line)  *)
(* and the gate's (the highest version) are the same row.                   *)
THEOREM LatestIsAgreed ==
    ASSUME OneWriter
    PROVE  Spec => []WritersAndGateAgree
  <1>1. TypeInv /\ HistoryInv => WritersAndGateAgree
    <2> SUFFICES ASSUME TypeInv, HistoryInv, NEW c \in Contacts,
                        NEW i \in latest_contact_by_id(contacts, c)
                 PROVE  load_latest_contact_snapshot(contacts, c) = contacts[i]
      BY DEF WritersAndGateAgree
    <2>1. /\ \A j \in DOMAIN contacts : j \in Nat
          /\ \A j \in DOMAIN contacts : contacts[j].version \in Nat
      <3>1. contacts \in Seq(Snapshot)
        BY DEF TypeInv, TypeOK
      <3>2. \A j \in DOMAIN contacts : j \in Nat /\ contacts[j] \in Snapshot
        BY <3>1
      <3> QED
        BY <3>2 DEF Snapshot
    <2>2. \A j, k \in DOMAIN contacts :
             (j < k /\ contacts[j].contact = contacts[k].contact)
                => contacts[j].version < contacts[k].version
      BY DEF HistoryInv, VersionsGrow
    <2>3. i \in DOMAIN contacts /\ LastOf(contacts, c, i)
      BY <2>1, <2>2 DEF LastOf, latest_contact_by_id
    <2> QED
      BY <2>3, LatestIsLast DEF TypeInv, TypeOK
  <1> QED
    BY <1>1, TypeInvariant, HistoryInvariant, PTL

----------------------------------------------------------------------------
(* Counting the rows of a file.                                             *)
LEMMA RowsCounted ==
    ASSUME NEW n \in Nat, NEW A \in SUBSET (1..n)
    PROVE  /\ IsFiniteSet(A) /\ Cardinality(A) \in Nat
           /\ Cardinality(A \cup {n + 1}) = Cardinality(A) + 1
           /\ Cardinality(A) = 0 <=> A = {}
  <1>1. IsFiniteSet(1..n)
    BY FS_Interval
  <1>2. IsFiniteSet(A) /\ Cardinality(A) \in Nat
    BY <1>1, FS_Subset, FS_CardinalityType
  <1>3. n + 1 \notin A
    OBVIOUS
  <1>4. Cardinality(A \cup {n + 1}) = Cardinality(A) + 1
    BY <1>2, <1>3, FS_AddElement
  <1>5. Cardinality(A) = 0 <=> A = {}
    BY <1>2, FS_EmptySet
  <1> QED  BY <1>2, <1>4, <1>5

(* On ledgers without gaps an event has a decision on file, and a decision  *)
(* that applied has its snapshot.                                           *)
LEMMA EventHasDecision ==
    ASSUME NEW evs \in Seq(Event), NEW trs \in Seq(Transition), ~event_transition_gap(evs, trs), NEW i \in DOMAIN evs
    PROVE  \E k \in DOMAIN trs : trs[k].event = evs[i]
  <1> DEFINE A == {j \in DOMAIN evs : evs[j] = evs[i]}
             B == {j \in DOMAIN trs : trs[j].event = evs[i]}
  <1>1. A \in SUBSET (1..Len(evs)) /\ B \in SUBSET (1..Len(trs)) /\ A # {} /\ Len(evs) \in Nat /\ Len(trs) \in Nat
    OBVIOUS
  <1>2. ~(Cardinality(A) > Cardinality(B))
    BY DEF event_transition_gap, Rows, Elements
  <1>3. Cardinality(A) \in Nat /\ Cardinality(A) # 0 /\ Cardinality(B) \in Nat /\ (Cardinality(B) = 0 <=> B = {})
    BY <1>1, RowsCounted
  <1>4. B # {}
    BY <1>2, <1>3
  <1> QED  BY <1>4

(* Without a gap an applied decision has its row.                            *)
LEMMA DecisionHasSnapshot ==
    ASSUME NEW trs \in Seq(Transition), NEW snaps \in Seq(Snapshot), ~transition_snapshot_gap(trs, snaps),
           NEW i \in DOMAIN trs, trs[i].decision = "applied"
    PROVE  \E k \in DOMAIN snaps : snaps[k].last = trs[i].event /\ snaps[k].state = trs[i].to
  <1> DEFINE A == {j \in DOMAIN trs : trs[j] = trs[i]}
             B == {j \in DOMAIN snaps : snaps[j].last = trs[i].event /\ snaps[j].state = trs[i].to}
  <1>1. A \in SUBSET (1..Len(trs)) /\ B \in SUBSET (1..Len(snaps)) /\ A # {} /\ Len(trs) \in Nat /\ Len(snaps) \in Nat
    OBVIOUS
  <1>2. ~(Cardinality(A) > Cardinality(B))
    BY DEF transition_snapshot_gap, Rows, Elements
  <1>3. Cardinality(A) \in Nat /\ Cardinality(A) # 0 /\ Cardinality(B) \in Nat /\ (Cardinality(B) = 0 <=> B = {})
    BY <1>1, RowsCounted
  <1>4. B # {}
    BY <1>2, <1>3
  <1> QED  BY <1>4

(* A suppression event on ledgers without gaps has left a suppressed        *)
(* snapshot of its contact; the snapshots may have been read again since.   *)
Decided(t, snaps) ==
    t.event.kind \in SUPPRESSION_EVENT_TYPES =>
        /\ t.to = "suppressed" /\ t.decision \in {"applied", "noop"}
        /\ t.decision = "noop" => \E k \in DOMAIN snaps : snaps[k].contact = t.event.contact /\ snaps[k].state = "suppressed"

(* Without gaps a withdrawal on file shows on a row of its contact.          *)
LEMMA WithdrawnIsSuppressed ==
    ASSUME NEW evs \in Seq(Event), NEW trs \in Seq(Transition), NEW snaps \in Seq(Snapshot), NEW later \in Seq(Snapshot),
           ~event_transition_gap(evs, trs), ~transition_snapshot_gap(trs, snaps),
           \A k \in DOMAIN trs : Decided(trs[k], later),
           \A k \in DOMAIN snaps : k \in DOMAIN later /\ later[k] = snaps[k],
           \A k \in DOMAIN later : later[k].last.contact = later[k].contact,
           NEW i \in DOMAIN evs, evs[i].kind \in SUPPRESSION_EVENT_TYPES
    PROVE  \E k \in DOMAIN later : later[k].contact = evs[i].contact /\ later[k].state = "suppressed"
  <1>1. PICK k \in DOMAIN trs : trs[k].event = evs[i]
    BY EventHasDecision
  <1>2. trs[k].to = "suppressed" /\ trs[k].decision \in {"applied", "noop"}
    BY <1>1 DEF Decided
  <1>3. CASE trs[k].decision = "noop"
    BY <1>1, <1>3 DEF Decided
  <1>4. CASE trs[k].decision = "applied"
    <2>1. PICK m \in DOMAIN snaps : snaps[m].last = trs[k].event /\ snaps[m].state = trs[k].to
      BY <1>4, DecisionHasSnapshot
    <2> QED  BY <1>1, <1>2, <2>1
  <1> QED  BY <1>2, <1>3, <1>4

(* And such a snapshot is the latest of its contact.                        *)
LEMMA SuppressedIsLatest ==
    ASSUME NEW snaps \in Seq(Snapshot), NEW k \in DOMAIN snaps, snaps[k].state = "suppressed",
           \A i, j \in DOMAIN snaps : (i < j /\ snaps[i].contact = snaps[j].contact) =>
               snaps[i].version < snaps[j].version /\ snaps[i].state # "suppressed"
    PROVE  /\ \A i \in latest_contact_by_id(snaps, snaps[k].contact) : snaps[i].state = "suppressed"
           /\ load_latest_contact_snapshot(snaps, snaps[k].contact).state = "suppressed"
           /\ \A d : d.contact = snaps[k].contact => ~DispatchEligible(snaps, d)
  <1>1. /\ \A i \in DOMAIN snaps : i \in Nat /\ snaps[i].version \in Nat
        /\ \A i \in DOMAIN snaps : snaps[i].contact = snaps[k].contact => i <= k
    <2>1. \A i \in DOMAIN snaps : i \in Nat /\ snaps[i] \in Snapshot
      OBVIOUS
    <2> QED  BY <2>1 DEF Snapshot
  <1>2. \A i \in latest_contact_by_id(snaps, snaps[k].contact) : i = k
    BY <1>1 DEF latest_contact_by_id
  <1>3. LastOf(snaps, snaps[k].contact, k)
    BY <1>1 DEF LastOf
  <1>4. load_latest_contact_snapshot(snaps, snaps[k].contact) = snaps[k]
    BY <1>3, LatestIsLast
  <1>5. ASSUME NEW d, d.contact = snaps[k].contact PROVE ~DispatchEligible(snaps, d)
    BY <1>2, <1>5 DEF DispatchEligible, AllowedState
  <1> QED  BY <1>2, <1>4, <1>5

----------------------------------------------------------------------------
(* What suppresses a contact has been decided so, or found it suppressed.   *)
SuppressionInv ==
    /\ \A k \in DOMAIN transitions : Decided(transitions[k], contacts)
    /\ \A k \in DOMAIN contacts : contacts[k].last.contact = contacts[k].contact

(* A sequence and one more element.                                          *)
LEMMA Appended ==
    ASSUME NEW S, NEW s \in Seq(S), NEW x \in S
    PROVE  /\ DOMAIN s \subseteq DOMAIN Append(s, x)
           /\ \A k \in DOMAIN s : Append(s, x)[k] = s[k]
           /\ \A k \in DOMAIN Append(s, x) : k \in DOMAIN s \/ Append(s, x)[k] = x
           /\ Len(s) + 1 \in DOMAIN Append(s, x) /\ Append(s, x)[Len(s) + 1] = x
  OBVIOUS

(* A ledger grows by the one row its process appends.                       *)
LEMMA ContactsGrow ==
    ASSUME TypeInv, NEW w \in Writers, Step(w)
    PROVE  /\ DOMAIN contacts \subseteq DOMAIN contacts' /\ \A k \in DOMAIN contacts : contacts'[k] = contacts[k]
           /\ DOMAIN events \subseteq DOMAIN events' /\ \A k \in DOMAIN events : events'[k] = events[k]
  <1>1. contacts' = contacts \/ contacts' = Append(contacts, NewSnapshot(w))
    BY DEF Step, run_add_contact, ingest_substack_csv, SkipRow, ImportRow, AppendEvent, AppendContact,
           AppendTransition, AppendDispatch, AppendManifest, Interrupt, ledgers
  <1>2. events' = events \/ events' = Append(events, job[w].event)
    BY DEF Step, run_add_contact, ingest_substack_csv, SkipRow, ImportRow, AppendEvent, AppendContact,
           AppendTransition, AppendDispatch, AppendManifest, Interrupt, ledgers
  <1>3. contacts \in Seq(Snapshot) /\ events \in Seq(Event)
    BY DEF TypeInv, TypeOK
  <1>4. contacts' # contacts => contacts' = Append(contacts, NewSnapshot(w)) /\ NewSnapshot(w) \in Snapshot
    <2>1. contacts' # contacts => job[w].pc = "contact"
      BY DEF Step, run_add_contact, ingest_substack_csv, SkipRow, ImportRow, AppendEvent, AppendContact,
           AppendTransition, AppendDispatch, AppendManifest, Interrupt, ledgers
    <2> QED  BY <1>1, <2>1, NewSnapshotFacts
  <1>5. events' # events => events' = Append(events, job[w].event) /\ job[w].event \in Event
    <2>1. events' # events => job[w].pc = "event"
      BY DEF Step, run_add_contact, ingest_substack_csv, SkipRow, ImportRow, AppendEvent, AppendContact,
           AppendTransition, AppendDispatch, AppendManifest, Interrupt, ledgers
    <2> QED  BY <1>2, <2>1 DEF TypeInv, Planned
  <1>6. DOMAIN contacts \subseteq DOMAIN contacts' /\ \A k \in DOMAIN contacts : contacts'[k] = contacts[k]
    <2>1. CASE contacts' = contacts
      BY <2>1
    <2>2. CASE contacts' # contacts
      BY <1>3, <1>4, <2>2, Appended
    <2> QED  BY <2>1, <2>2
  <1>7. DOMAIN events \subseteq DOMAIN events' /\ \A k \in DOMAIN events : events'[k] = events[k]
    <2>1. CASE events' = events
      BY <2>1
    <2>2. CASE events' # events
      BY <1>3, <1>5, <2>2, Appended, SMTT(30)
    <2> QED  BY <2>1, <2>2
  <1> QED  BY <1>6, <1>7

(* With one writer a suppressed contact stays so.                            *)
LEMMA SuppressionStep ==
    ASSUME OneWriter, TypeInv, HistoryInv, SuppressionInv, [Next]_vars
    PROVE  SuppressionInv'
  <1>0. CASE UNCHANGED vars
    BY <1>0 DEF vars, SuppressionInv, Decided
  <1>1. ASSUME NEW w \in Writers, Step(w) PROVE SuppressionInv'
    <2> DEFINE j == job[w]
    <2>1. \A t : Decided(t, contacts) => Decided(t, contacts')
      BY <1>1, ContactsGrow DEF Decided
    <2>2. /\ contacts \in Seq(Snapshot) /\ transitions \in Seq(Transition) /\ j \in Job /\ Planned(j)
      BY DEF TypeInv, TypeOK
    <2>3. CASE AppendTransition(w)
      <3>1. j.pc = "transition" /\ transitions' = Append(transitions, Outcome(w)) /\ contacts' = contacts
        BY <2>3 DEF AppendTransition
      <3>2. j.event \in Event /\ j.prior = load_latest_contact_snapshot(contacts, j.event.contact)
        BY <2>2, <3>1 DEF Planned, HistoryInv, PriorIsFresh
      <3>3. Decided(Outcome(w), contacts)
        <4> SUFFICES ASSUME j.event.kind \in SUPPRESSION_EVENT_TYPES
                     PROVE  LET t == Outcome(w)
                            IN  /\ t.to = "suppressed" /\ t.decision \in {"applied", "noop"} /\ t.event = j.event
                                /\ t.decision = "noop" => \E k \in DOMAIN contacts : contacts[k].contact = j.event.contact /\ contacts[k].state = "suppressed"
          BY DEF Decided, Outcome, evaluate_transition
        <4>1. TargetState(j.event) = "suppressed"
          BY DEF TargetState, SUPPRESSION_EVENT_TYPES
        <4>2. /\ Outcome(w).to = "suppressed" /\ Outcome(w).event = j.event /\ Outcome(w).decision \in {"applied", "noop"}
              /\ Outcome(w).decision = "noop" => j.prior.state = "suppressed"
          BY <4>1 DEF Outcome, evaluate_transition
        <4>3. j.prior.state = "suppressed" => \E k \in DOMAIN contacts : contacts[k].contact = j.event.contact /\ contacts[k].state = "suppressed"
          BY <3>2 DEF load_latest_contact_snapshot, LastOf, NoSnapshot
        <4> QED  BY <4>2, <4>3
      <3>5. Outcome(w) \in Transition
        BY <2>2, <3>2, DecisionType DEF Outcome, Job, Prior
      <3>4. \A k \in DOMAIN transitions' : transitions'[k] = Outcome(w) \/ (k \in DOMAIN transitions /\ transitions'[k] = transitions[k])
        <4>1. \A k \in DOMAIN Append(transitions, Outcome(w)) : k \in DOMAIN transitions \/ Append(transitions, Outcome(w))[k] = Outcome(w)
          BY <2>2, <3>5, Appended
        <4>2. \A k \in DOMAIN transitions : Append(transitions, Outcome(w))[k] = transitions[k]
          BY <2>2, <3>5, Appended
        <4> QED  BY <3>1, <4>1, <4>2, Zenon
      <3> QED  BY <3>1, <3>3, <3>4 DEF SuppressionInv
    <2>4. CASE AppendContact(w)
      <3>1. contacts' = Append(contacts, NewSnapshot(w)) /\ transitions' = transitions
        BY <2>4 DEF AppendContact
      <3>2. NewSnapshot(w).last.contact = NewSnapshot(w).contact
        BY DEF NewSnapshot, build_contact_snapshot
      <3>4. NewSnapshot(w) \in Snapshot
        BY <2>4, NewSnapshotFacts DEF AppendContact
      <3>3. \A k \in DOMAIN contacts' : contacts'[k] = NewSnapshot(w) \/ (k \in DOMAIN contacts /\ contacts'[k] = contacts[k])
        <4>1. \A k \in DOMAIN Append(contacts, NewSnapshot(w)) : k \in DOMAIN contacts \/ Append(contacts, NewSnapshot(w))[k] = NewSnapshot(w)
          BY <2>2, <3>4, Appended
        <4>2. \A k \in DOMAIN contacts : Append(contacts, NewSnapshot(w))[k] = contacts[k]
          BY <2>2, <3>4, Appended
        <4> QED  BY <3>1, <4>1, <4>2, Zenon
      <3> QED  BY <2>1, <3>1, <3>2, <3>3 DEF SuppressionInv
    <2>5. CASE ~AppendTransition(w) /\ ~AppendContact(w)
      <3>1. transitions' = transitions /\ contacts' = contacts
        BY <1>1, <2>5 DEF Step, run_add_contact, ingest_substack_csv, SkipRow, ImportRow, AppendEvent,
           AppendDispatch, AppendManifest, Interrupt, ledgers
      <3> QED  BY <3>1 DEF SuppressionInv, Decided
    <2> QED  BY <2>3, <2>4, <2>5
  <1> QED  BY <1>0, <1>1 DEF Next

(* So it does for ever.                                                      *)
LEMMA SuppressionInvariant ==
    ASSUME OneWriter
    PROVE  Spec => []SuppressionInv
  <1>1. Init => SuppressionInv
    BY DEF Init, SuppressionInv
  <1>2. SuppressionInv /\ HistoryInv /\ TypeInv /\ [Next]_vars => SuppressionInv'
    BY SuppressionStep
  <1> QED
    BY <1>1, <1>2, TypeInvariant, HistoryInvariant, PTL DEF Spec

(* On ledgers that reconcile, a contact with a suppression event has been   *)
(* suppressed for good.                                                     *)
LEMMA CleanMeansSuppressed ==
    ASSUME TypeInv, HistoryInv, SuppressionInv, Clean, NEW i \in DOMAIN events, events[i].kind \in SUPPRESSION_EVENT_TYPES
    PROVE  /\ \A d : d.contact = events[i].contact => ~DispatchEligible(contacts, d)
           /\ load_latest_contact_snapshot(contacts, events[i].contact).state = "suppressed"
  <1>1. events \in Seq(Event) /\ transitions \in Seq(Transition) /\ contacts \in Seq(Snapshot)
    BY DEF TypeInv, TypeOK
  <1>2. ~event_transition_gap(events, transitions) /\ ~transition_snapshot_gap(transitions, contacts)
    BY DEF Clean, reconcile_state
  <1>3. PICK k \in DOMAIN contacts : contacts[k].contact = events[i].contact /\ contacts[k].state = "suppressed"
    BY <1>1, <1>2, WithdrawnIsSuppressed DEF SuppressionInv
  <1>4. \A m, n \in DOMAIN contacts : (m < n /\ contacts[m].contact = contacts[n].contact) =>
               contacts[m].version < contacts[n].version /\ contacts[m].state # "suppressed"
    BY DEF HistoryInv, VersionsGrow, StickySuppression
  <1> QED  BY <1>1, <1>3, <1>4, SuppressedIsLatest

(* With one process at a time, the gate never finds an email eligible for a *)
(* contact that has unsubscribed, bounced or complained, wherever imports   *)
(* and commands were interrupted.                                           *)
THEOREM EmailsAreWanted ==
    ASSUME OneWriter
    PROVE  Spec => []EligibleNeverUnsubscribed
  <1>1. TypeInv /\ HistoryInv /\ SuppressionInv => EligibleNeverUnsubscribed
    BY CleanMeansSuppressed DEF EligibleNeverUnsubscribed, Elements
  <1> QED
    BY <1>1, TypeInvariant, HistoryInvariant, SuppressionInvariant, PTL

----------------------------------------------------------------------------
(* Imports.  The rows an import has passed are on file, as events, save the *)
(* one it is about to append.                                               *)
Recorded(row, extra) == row.contact # NoEmail => RowEvent(row) \in Elements(events) \cup extra

ImportOf(j) ==
    /\ j.pc \in {"transition", "contact", "dispatch"} => j.event \in Elements(events)
    /\ j.pc # "idle" =>
          /\ j.seen \subseteq Elements(events)
          /\ Len(j.left) <= Len(j.file)
          /\ \A i \in 1..Len(j.left) : j.left[i] = j.file[Len(j.file) - Len(j.left) + i]
          /\ \A i \in 1..(Len(j.file) - Len(j.left)) : Recorded(j.file[i], IF j.pc = "event" THEN {j.event} ELSE {})

ImportInv ==
    /\ \A w \in Writers : ImportOf(job[w])
    /\ \A f \in batches : \A i \in DOMAIN f : Recorded(f[i], {})

(* More events on file back what an import has recorded.                     *)
LEMMA ImportGrows ==
    ASSUME TypeInv, Elements(events) \subseteq Elements(events'), NEW j, ImportOf(j)
    PROVE  ImportOf(j)'
  BY DEF ImportOf, Recorded

(* An import has its rows on file before its manifest.                       *)
LEMMA ImportStep ==
    ASSUME TypeInv, ImportInv, [Next]_vars
    PROVE  ImportInv'
  <1>0. CASE UNCHANGED vars
    <2>1. events' = events /\ job' = job /\ batches' = batches
      BY <1>0 DEF vars
    <2>2. \A row, extra : Recorded(row, extra)' <=> Recorded(row, extra)
      BY <2>1 DEF Recorded
    <2>3. \A j : ImportOf(j)' <=> ImportOf(j)
      BY <2>1, <2>2 DEF ImportOf
    <2> QED  BY <2>1, <2>2, <2>3 DEF ImportInv, ImportOf
  <1>1. ASSUME NEW w \in Writers, Step(w) PROVE ImportInv'
    <2>1. PICK j : j = job[w]
      OBVIOUS
    <2>2. /\ j \in Job /\ Planned(j) /\ ImportOf(j) /\ job \in [Writers -> Job]
          /\ j.file \in Seq(Row) /\ j.left \in Seq(Row) /\ Len(j.file) \in Nat /\ Len(j.left) \in Nat
      BY <2>1 DEF TypeInv, TypeOK, ImportInv, Job
    <2>3. Elements(events) \subseteq Elements(events')
      BY <1>1, ContactsGrow DEF Elements
    <2>4. ASSUME NEW k, job' = [job EXCEPT ![w] = k], ImportOf(k)', batches' = batches
          PROVE  ImportInv'
      <3>1. ASSUME NEW v \in Writers PROVE ImportOf(job[v])'
        <4>1. CASE v = w
          <5>1. job'[v] = k
            BY <2>2, <2>4, <4>1
          <5> QED  BY <2>4, <5>1 DEF ImportOf
        <4>2. CASE v # w
          <5>1. PICK old : old = job[v]
            OBVIOUS
          <5>2. job'[v] = old /\ ImportOf(old)
            BY <2>2, <2>4, <4>2, <5>1 DEF ImportInv
          <5>3. ImportOf(old)'
            BY <2>3, <5>2, ImportGrows
          <5> QED  BY <5>2, <5>3 DEF ImportOf
        <4> QED  BY <4>1, <4>2
      <3>2. (\A f \in batches : \A i \in DOMAIN f : Recorded(f[i], {}))'
        BY <2>3, <2>4 DEF ImportInv, Recorded
      <3> QED  BY <3>1, <3>2 DEF ImportInv
    <2>5. ImportOf(Idle) /\ ImportOf(Idle)'
      BY DEF ImportOf, Idle
    <2>6. CASE run_add_contact(w)
      <3>1. PICK c, consent, plan : job' = [job EXCEPT ![w] =
                       [Idle EXCEPT !.pc = "event", !.plan = plan, !.event = SeedEvent(c, consent),
                                    !.prior = load_latest_contact_snapshot(contacts, c)]]
        BY <2>6 DEF run_add_contact
      <3>2. PICK k : k = [Idle EXCEPT !.pc = "event", !.plan = plan, !.event = SeedEvent(c, consent),
                                      !.prior = load_latest_contact_snapshot(contacts, c)]
        OBVIOUS
      <3>3. k.pc = "event" /\ k.file = <<>> /\ k.left = <<>> /\ k.seen = {}
        BY <3>2 DEF Idle
      <3>4. ImportOf(k)'
        BY <3>3 DEF ImportOf
      <3> QED  BY <2>4, <2>6, <3>1, <3>2, <3>4 DEF run_add_contact, ledgers
    <2>7. CASE ingest_substack_csv(w)
      <3>1. PICK f \in CsvFiles, plan \in PlanFlags : job' = [job EXCEPT ![w] =
                       [Idle EXCEPT !.pc = "rows", !.plan = plan, !.file = f, !.left = f, !.seen = Elements(events)]]
        BY <2>7 DEF ingest_substack_csv
      <3>2. PICK k : k = [Idle EXCEPT !.pc = "rows", !.plan = plan, !.file = f, !.left = f, !.seen = Elements(events)]
        OBVIOUS
      <3>3. k.pc = "rows" /\ k.file = f /\ k.left = f /\ k.seen = Elements(events) /\ Len(f) \in Nat
        BY <3>2, FileAssumption DEF Idle
      <3>4. ImportOf(k)'
        BY <2>3, <3>3 DEF ImportOf
      <3> QED  BY <2>4, <2>7, <3>1, <3>2, <3>4 DEF ingest_substack_csv, ledgers
    <2>8. CASE SkipRow(w) \/ ImportRow(w)
      <3>1. PICK k : k = job'[w]
        OBVIOUS
      <3>2. PICK row : row = Head(j.left)
        OBVIOUS
      <3>3. /\ j.pc = "rows" /\ j.left # <<>> /\ k.file = j.file /\ k.left = Tail(j.left) /\ k.seen = j.seen
            /\ (k.pc = "rows" /\ ~Usable(row, j.seen)) \/ (k.pc = "event" /\ k.event = RowEvent(row))
            /\ job' = [job EXCEPT ![w] = k] /\ batches' = batches /\ events' = events
        <4>1. CASE SkipRow(w)
          <5>1. /\ j.pc = "rows" /\ j.left # <<>> /\ ~Usable(row, j.seen) /\ job' = [job EXCEPT ![w].left = Tail(@)]
                /\ batches' = batches /\ events' = events
            BY <2>1, <3>2, <4>1 DEF SkipRow, ledgers
          <5>2. k = [j EXCEPT !.left = Tail(j.left)] /\ job' = [job EXCEPT ![w] = k]
            BY <2>1, <2>2, <3>1, <5>1
          <5>3. k.file = j.file /\ k.left = Tail(j.left) /\ k.seen = j.seen /\ k.pc = "rows"
            BY <2>2, <5>1, <5>2 DEF Job
          <5> QED  BY <5>1, <5>2, <5>3
        <4>2. CASE ImportRow(w)
          BY <2>1, <2>2, <3>1, <3>2, <4>2 DEF ImportRow, Job, ledgers
        <4> QED  BY <2>8, <4>1, <4>2
      <3>4. PICK m \in Nat, n \in Nat : m = Len(j.file) /\ n = Len(j.left)
        BY <2>2
      <3>5. /\ n >= 1 /\ n <= m /\ Len(k.left) = n - 1 /\ Len(k.file) = m /\ row = j.left[1]
            /\ \A i \in 1..(n - 1) : k.left[i] = j.left[i + 1]
        <4>1. n <= m
          BY <2>2, <3>3, <3>4 DEF ImportOf
        <4>2. n >= 1 /\ Len(Tail(j.left)) = n - 1 /\ Head(j.left) = j.left[1] /\ \A i \in 1..(n - 1) : Tail(j.left)[i] = j.left[i + 1]
          BY <2>2, <3>3, <3>4
        <4> QED  BY <3>2, <3>3, <3>4, <4>1, <4>2
      <3>6. /\ \A i \in 1..n : j.left[i] = j.file[m - n + i]
            /\ \A i \in 1..(m - n) : Recorded(j.file[i], {})
            /\ j.seen \subseteq Elements(events)
        BY <2>2, <3>3, <3>4 DEF ImportOf
      <3>7. \A i \in 1..(n - 1) : k.left[i] = k.file[m - (n - 1) + i]
        <4> SUFFICES ASSUME NEW i \in 1..(n - 1) PROVE k.left[i] = k.file[m - (n - 1) + i]
          OBVIOUS
        <4>1. i + 1 \in 1..n /\ m - n + (i + 1) = m - (n - 1) + i
          OBVIOUS
        <4> QED  BY <3>3, <3>5, <3>6, <4>1
      <3>8. ASSUME NEW i \in 1..(m - (n - 1))
            PROVE  Recorded(k.file[i], IF k.pc = "event" THEN {k.event} ELSE {})
        <4>1. CASE i \in 1..(m - n)
          BY <3>3, <3>6, <4>1 DEF Recorded
        <4>2. CASE i \notin 1..(m - n)
          <5>1. i = m - n + 1
            BY <3>5, <3>8, <4>2
          <5>2. k.file[i] = row
            BY <3>3, <3>5, <3>6, <5>1
          <5> QED  BY <3>3, <3>6, <5>2 DEF Recorded, Usable
        <4> QED  BY <4>1, <4>2
      <3>9. ImportOf(k)
        <4>1. k.pc \in {"rows", "event"} /\ k.seen \subseteq Elements(events) /\ Len(k.left) <= Len(k.file)
          BY <3>3, <3>5, <3>6
        <4> QED  BY <3>5, <3>7, <3>8, <4>1 DEF ImportOf
      <3> QED  BY <2>3, <2>4, <3>3, <3>9, ImportGrows
    <2>9. CASE AppendManifest(w)
      <3>1. j.pc = "rows" /\ j.left = <<>> /\ batches' = batches \cup {j.file} /\ events' = events /\ job' = [job EXCEPT ![w] = Idle]
        BY <2>1, <2>9 DEF AppendManifest
      <3>2. \A i \in DOMAIN j.file : Recorded(j.file[i], {})
        BY <2>2, <3>1 DEF ImportOf
      <3>3. \A v \in Writers : ImportOf(job[v])'
        <4> SUFFICES ASSUME NEW v \in Writers PROVE ImportOf(job[v])'
          OBVIOUS
        <4>1. PICK old : old = job'[v]
          OBVIOUS
        <4>2. ImportOf(old)
          BY <2>2, <2>5, <3>1, <4>1 DEF ImportInv
        <4> QED  BY <2>3, <4>1, <4>2, ImportGrows DEF ImportOf
      <3> QED  BY <2>3, <3>1, <3>2, <3>3 DEF ImportInv, Recorded
    <2>10. CASE Interrupt(w)
      BY <2>4, <2>5, <2>10 DEF Interrupt, ledgers
    <2>11. ASSUME NEW done \in {"event", "transition", "contact", "dispatch"}, j.pc = done, Proceed(w, done),
                  j.event \in Elements(events'), batches' = batches
           PROVE  ImportInv'
      <3>1. NextAppend(w, done) \in {"transition", "contact", "dispatch", "done"}
        BY <2>11 DEF NextAppend
      <3>2. PICK k : k = job'[w]
        OBVIOUS
      <3>3. /\ \/ k = Idle
               \/ /\ k.file = j.file /\ k.left = j.left
                  /\ \/ k.pc = "rows" /\ k.seen = j.seen \cup {j.event}
                     \/ k.pc \in {"transition", "contact", "dispatch"} /\ k.seen = j.seen /\ k.event = j.event
            /\ job' = [job EXCEPT ![w] = k]
        <4>1. CASE NextAppend(w, done) # "done"
          <5>1. job' = [job EXCEPT ![w] = [@ EXCEPT !.pc = NextAppend(w, done)]]
            BY <2>11, <4>1 DEF Proceed
          <5>2. k = [j EXCEPT !.pc = NextAppend(w, done)] /\ job' = [job EXCEPT ![w] = k]
            BY <2>1, <2>2, <3>2, <5>1
          <5>3. k.pc = NextAppend(w, done) /\ k.file = j.file /\ k.left = j.left /\ k.seen = j.seen /\ k.event = j.event
            BY <2>2, <5>2 DEF Job
          <5> QED  BY <3>1, <4>1, <5>2, <5>3
        <4>2. CASE NextAppend(w, done) = "done" /\ Importing(w)
          <5>1. job' = [job EXCEPT ![w] = [@ EXCEPT !.pc = "rows", !.event = NoEvent, !.prior = NoSnapshot,
                                                   !.seen = job[w].seen \cup {job[w].event}]]
            BY <2>11, <4>2 DEF Proceed
          <5>2. k = [j EXCEPT !.pc = "rows", !.event = NoEvent, !.prior = NoSnapshot, !.seen = j.seen \cup {j.event}]
                /\ job' = [job EXCEPT ![w] = k]
            BY <2>1, <2>2, <3>2, <5>1
          <5>3. k.pc = "rows" /\ k.file = j.file /\ k.left = j.left /\ k.seen = j.seen \cup {j.event}
            BY <2>2, <5>2 DEF Job
          <5> QED  BY <5>2, <5>3
        <4>3. CASE NextAppend(w, done) = "done" /\ ~Importing(w)
          <5>1. job' = [job EXCEPT ![w] = Idle]
            BY <2>11, <4>3 DEF Proceed
          <5> QED  BY <2>2, <3>2, <5>1
        <4> QED  BY <4>1, <4>2, <4>3
      <3>4. ImportOf(j)'
        BY <2>2, <2>3, ImportGrows
      <3>5. ImportOf(k)'
        BY <2>5, <2>11, <3>3, <3>4 DEF ImportOf, Recorded
      <3> QED  BY <2>4, <2>11, <3>3, <3>5
    <2>12. CASE AppendEvent(w)
      <3>1. events' = Append(events, j.event) /\ events \in Seq(Event) /\ j.pc = "event" /\ j.event \in Event
        BY <2>1, <2>2, <2>12 DEF AppendEvent, TypeInv, TypeOK, Planned
      <3>2. events'[Len(events) + 1] = j.event /\ Len(events) + 1 \in DOMAIN events'
        BY <3>1
      <3> QED  BY <2>11, <2>12, <3>1, <3>2 DEF AppendEvent, Elements
    <2>13. CASE AppendTransition(w) \/ AppendContact(w) \/ AppendDispatch(w)
      <3>1. j.pc \in {"transition", "contact", "dispatch"} /\ Proceed(w, j.pc) /\ batches' = batches
        BY <2>1, <2>13 DEF AppendTransition, AppendContact, AppendDispatch
      <3>2. j.event \in Elements(events')
        BY <2>2, <2>3, <3>1 DEF ImportOf
      <3> QED  BY <2>11, <3>1, <3>2
    <2> QED  BY <1>1, <2>6, <2>7, <2>8, <2>9, <2>10, <2>12, <2>13 DEF Step
  <1> QED  BY <1>0, <1>1 DEF Next

(* For any number of writers.                                                *)
LEMMA ImportInvariant == Spec => []ImportInv
  <1>1. Init => ImportInv
    BY DEF Init, ImportInv, ImportOf, Idle
  <1>2. ImportInv /\ TypeInv /\ [Next]_vars => ImportInv'
    BY ImportStep
  <1> QED
    BY <1>1, <1>2, TypeInvariant, PTL DEF Spec

(* With one process at a time, an export with a manifest on ledgers that    *)
(* reconcile has had its unsubscribes obeyed.                               *)
THEOREM ManifestsAreObeyed ==
    ASSUME OneWriter
    PROVE  Spec => []ManifestMeansObeyed
  <1>1. TypeInv /\ HistoryInv /\ SuppressionInv /\ ImportInv => ManifestMeansObeyed
    <2> SUFFICES ASSUME TypeInv, HistoryInv, SuppressionInv, ImportInv, Clean, NEW f \in batches, NEW i \in DOMAIN f,
                        f[i].status = "unsubscribed", f[i].contact # NoEmail
                 PROVE  load_latest_contact_snapshot(contacts, f[i].contact).state = "suppressed"
      BY DEF ManifestMeansObeyed
    <2>1. RowEvent(f[i]) \in Elements(events)
      BY DEF ImportInv, Recorded
    <2>2. RowEvent(f[i]).kind = "unsubscribe" /\ RowEvent(f[i]).contact = f[i].contact
      BY DEF RowEvent
    <2>3. PICK k \in DOMAIN events : events[k] = RowEvent(f[i])
      BY <2>1 DEF Elements
    <2> QED  BY <2>2, <2>3, CleanMeansSuppressed DEF SUPPRESSION_EVENT_TYPES
  <1> QED
    BY <1>1, TypeInvariant, HistoryInvariant, SuppressionInvariant, ImportInvariant, PTL

----------------------------------------------------------------------------
(* Reconciliation.  What is on file goes back to what was on file before.   *)
Grounded ==
    /\ \A k \in DOMAIN transitions : transitions[k].decision = "applied" => transitions[k].to = TargetState(transitions[k].event)
    /\ \A k \in DOMAIN contacts : /\ contacts[k].state = TargetState(contacts[k].last)
                                /\ contacts[k].first \in Elements(events)
                                /\ contacts[k].last \in Elements(events)
    /\ \A w \in Writers : job[w].pc = "dispatch" => NewSnapshot(w) \in Elements(contacts)
    /\ \A k \in DOMAIN dispatches : \E i \in DOMAIN contacts :
           /\ contacts[i].contact = dispatches[k].contact /\ contacts[i].version = dispatches[k].version
           /\ SamePlan(contacts[i], dispatches[k])

(* With one writer a row rests on a decision and a decision on an event.     *)
LEMMA GroundedStep ==
    ASSUME OneWriter, TypeInv, HistoryInv, ImportInv, Grounded, [Next]_vars
    PROVE  Grounded'
  <1>0. CASE UNCHANGED vars
    BY <1>0 DEF vars, Grounded, Elements, NewSnapshot
  <1>1. ASSUME NEW w \in Writers, Step(w) PROVE Grounded'
    <2> DEFINE j == job[w]
               ReadsOf == \A k \in DOMAIN contacts : /\ contacts[k].state = TargetState(contacts[k].last)
                                                   /\ contacts[k].first \in Elements(events)
                                                   /\ contacts[k].last \in Elements(events)
    <2>1. /\ contacts \in Seq(Snapshot) /\ transitions \in Seq(Transition) /\ events \in Seq(Event) /\ dispatches \in Seq(Dispatch)
          /\ j \in Job /\ Planned(j) /\ job \in [Writers -> Job] /\ j.prior \in Prior /\ Writers = {w}
      BY DEF TypeInv, TypeOK, Job, Prior, OneWriter
    <2>2. Elements(events) \subseteq Elements(events') /\ Elements(contacts) \subseteq Elements(contacts')
      BY <1>1, ContactsGrow DEF Elements
    <2>3. (\A k \in DOMAIN dispatches : \E i \in DOMAIN contacts :
                /\ contacts[i].contact = dispatches[k].contact /\ contacts[i].version = dispatches[k].version
                /\ SamePlan(contacts[i], dispatches[k]))
          => \A k \in DOMAIN dispatches : \E i \in DOMAIN contacts' :
                /\ contacts'[i].contact = dispatches[k].contact /\ contacts'[i].version = dispatches[k].version
                /\ SamePlan(contacts'[i], dispatches[k])
      BY <1>1, ContactsGrow DEF SamePlan
    <2>4. CASE AppendTransition(w)
      <3>1. /\ transitions' = Append(transitions, Outcome(w)) /\ UNCHANGED <<events, contacts, dispatches>>
            /\ j.pc = "transition" /\ Proceed(w, "transition")
        BY <2>4 DEF AppendTransition
      <3>2. Outcome(w) \in Transition /\ (Outcome(w).decision = "applied" => Outcome(w).to = TargetState(Outcome(w).event))
        BY <2>1, <3>1, DecisionType DEF Outcome, Planned
      <3>3. \A k \in DOMAIN transitions' : transitions'[k].decision = "applied" => transitions'[k].to = TargetState(transitions'[k].event)
        <4>1. \A k \in DOMAIN Append(transitions, Outcome(w)) : k \in DOMAIN transitions \/ Append(transitions, Outcome(w))[k] = Outcome(w)
          BY <2>1, <3>2, Appended
        <4>2. \A k \in DOMAIN transitions : Append(transitions, Outcome(w))[k] = transitions[k]
          BY <2>1, <3>2, Appended
        <4> QED  BY <3>1, <3>2, <4>1, <4>2 DEF Grounded
      <3>4. job'[w].pc # "dispatch"
        <4>1. NextAppend(w, "transition") \in {"contact", "done"}
          BY DEF NextAppend
        <4> QED  BY <2>1, <3>1, <4>1 DEF Proceed, Job, Idle
      <3> QED  BY <2>1, <3>1, <3>3, <3>4 DEF Grounded, Elements
    <2>5. CASE AppendContact(w)
      <3>1. /\ contacts' = Append(contacts, NewSnapshot(w)) /\ UNCHANGED <<events, transitions, dispatches>>
            /\ j.pc = "contact" /\ Proceed(w, "contact")
        BY <2>5 DEF AppendContact
      <3>2. NewSnapshot(w) \in Snapshot
        BY <3>1, NewSnapshotFacts
      <3>3. j.event \in Elements(events) /\ j.prior = load_latest_contact_snapshot(contacts, j.event.contact)
        BY <3>1 DEF ImportInv, ImportOf, HistoryInv, PriorIsFresh
      <3>4. j.prior.version # 0 => j.prior.first \in Elements(events)
        BY <3>3 DEF load_latest_contact_snapshot, LastOf, NoSnapshot, Grounded
      <3>5. /\ NewSnapshot(w).state = TargetState(NewSnapshot(w).last)
            /\ NewSnapshot(w).first \in Elements(events) /\ NewSnapshot(w).last \in Elements(events)
        BY <2>1, <3>1, <3>3, <3>4, DecisionType DEF NewSnapshot, build_contact_snapshot, Planned
      <3>6. \A k \in DOMAIN contacts' : /\ contacts'[k].state = TargetState(contacts'[k].last)
                                      /\ contacts'[k].first \in Elements(events)
                                      /\ contacts'[k].last \in Elements(events)
        <4>1. \A k \in DOMAIN Append(contacts, NewSnapshot(w)) : k \in DOMAIN contacts \/ Append(contacts, NewSnapshot(w))[k] = NewSnapshot(w)
          BY <2>1, <3>2, Appended
        <4>2. \A k \in DOMAIN contacts : Append(contacts, NewSnapshot(w))[k] = contacts[k]
          BY <2>1, <3>2, Appended
        <4> QED  BY <3>1, <3>5, <4>1, <4>2 DEF Grounded
      <3>7. job'[w].pc = "dispatch" => NewSnapshot(w)' \in Elements(contacts')
        <4>1. NewSnapshot(w) \in Elements(Append(contacts, NewSnapshot(w)))
          BY <2>1, <3>2, Appended DEF Elements
        <4>2. NextAppend(w, "contact") \in {"dispatch", "done"}
          BY DEF NextAppend
        <4>3. job'[w].pc = "dispatch" => job'[w].prior = j.prior /\ job'[w].event = j.event
          BY <2>1, <3>1, <4>2 DEF Proceed, Job, Idle
        <4> QED  BY <3>1, <4>1, <4>3 DEF NewSnapshot
      <3>8. \A v \in Writers : job'[v].pc = "dispatch" => NewSnapshot(v)' \in Elements(contacts')
        BY <2>1, <3>7 DEF NewSnapshot
      <3>9. \A k \in DOMAIN dispatches' : \E i \in DOMAIN contacts' :
                /\ contacts'[i].contact = dispatches'[k].contact /\ contacts'[i].version = dispatches'[k].version
                /\ SamePlan(contacts'[i], dispatches'[k])
        BY <2>3, <3>1 DEF Grounded
      <3>10. Elements(contacts)' = Elements(contacts') /\ Elements(events)' = Elements(events)
        BY <3>1 DEF Elements
      <3>11. \A k \in DOMAIN transitions' : transitions'[k].decision = "applied" => transitions'[k].to = TargetState(transitions'[k].event)
        BY <3>1 DEF Grounded
      <3> QED  BY <3>6, <3>8, <3>9, <3>10, <3>11 DEF Grounded, SamePlan
    <2>6. CASE AppendDispatch(w)
      <3>1. /\ dispatches' = Append(dispatches, DispatchOf(NewSnapshot(w))) /\ UNCHANGED <<events, transitions, contacts>>
            /\ j.pc = "dispatch" /\ Proceed(w, "dispatch")
        BY <2>6 DEF AppendDispatch
      <3>2. NewSnapshot(w) \in Snapshot /\ plan_dispatch(NewSnapshot(w)) # "blocked"
        BY <2>1, <3>1, SnapshotType DEF NewSnapshot, Planned
      <3>3. PICK snap \in Snapshot : snap = NewSnapshot(w)
        BY <3>2
      <3>4. DispatchOf(snap) \in Dispatch
        BY <3>2, <3>3, DispatchType
      <3>5. PICK i \in DOMAIN contacts : contacts[i] = snap
        BY <3>1, <3>3 DEF Grounded, Elements
      <3>6. \A k \in DOMAIN dispatches' : dispatches'[k] = DispatchOf(snap) \/ (k \in DOMAIN dispatches /\ dispatches'[k] = dispatches[k])
        <4>1. \A k \in DOMAIN Append(dispatches, DispatchOf(snap)) : k \in DOMAIN dispatches \/ Append(dispatches, DispatchOf(snap))[k] = DispatchOf(snap)
          BY <2>1, <3>4, Appended
        <4>2. \A k \in DOMAIN dispatches : Append(dispatches, DispatchOf(snap))[k] = dispatches[k]
          BY <2>1, <3>4, Appended
        <4> QED  BY <3>1, <3>3, <4>1, <4>2, Zenon
      <3>7. contacts[i].contact = DispatchOf(snap).contact /\ contacts[i].version = DispatchOf(snap).version /\ SamePlan(contacts[i], DispatchOf(snap))
        BY <3>5 DEF DispatchOf, SamePlan
      <3>8. job'[w].pc # "dispatch"
        <4>1. NextAppend(w, "dispatch") = "done"
          BY DEF NextAppend
        <4> QED  BY <2>1, <3>1, <4>1 DEF Proceed, Job, Idle
      <3>9. \A k \in DOMAIN dispatches' : \E m \in DOMAIN contacts :
                /\ contacts[m].contact = dispatches'[k].contact /\ contacts[m].version = dispatches'[k].version
                /\ SamePlan(contacts[m], dispatches'[k])
        <4> SUFFICES ASSUME NEW k \in DOMAIN dispatches'
                     PROVE  \E m \in DOMAIN contacts :
                              /\ contacts[m].contact = dispatches'[k].contact /\ contacts[m].version = dispatches'[k].version
                              /\ SamePlan(contacts[m], dispatches'[k])
          OBVIOUS
        <4>1. CASE dispatches'[k] = DispatchOf(snap)
          BY <3>7, <4>1
        <4>2. CASE k \in DOMAIN dispatches /\ dispatches'[k] = dispatches[k]
          BY <4>2 DEF Grounded
        <4> QED  BY <3>6, <4>1, <4>2
      <3>10. \A v \in Writers : job'[v].pc # "dispatch"
        BY <2>1, <3>8
      <3> QED  BY <3>1, <3>9, <3>10 DEF Grounded, Elements, SamePlan
    <2>7. CASE ~AppendTransition(w) /\ ~AppendContact(w) /\ ~AppendDispatch(w)
      <3>1. transitions' = transitions /\ contacts' = contacts /\ dispatches' = dispatches
        BY <1>1, <2>7 DEF Step, run_add_contact, ingest_substack_csv, SkipRow, ImportRow, AppendEvent, AppendManifest, Interrupt, ledgers
      <3>2. job'[w].pc # "dispatch"
        <4>1. NextAppend(w, "event") = "transition"
          BY DEF NextAppend
        <4>2. CASE AppendEvent(w)
          BY <2>1, <4>1, <4>2 DEF AppendEvent, Proceed, Job
        <4>3. CASE run_add_contact(w) \/ ingest_substack_csv(w) \/ AppendManifest(w) \/ Interrupt(w)
          <5>1. CASE run_add_contact(w)
            BY <2>1, <5>1 DEF run_add_contact, Idle
          <5>2. CASE ingest_substack_csv(w)
            BY <2>1, <5>2 DEF ingest_substack_csv, Idle
          <5>3. CASE AppendManifest(w) \/ Interrupt(w)
            BY <2>1, <5>3 DEF AppendManifest, Interrupt, Idle
          <5> QED  BY <4>3, <5>1, <5>2, <5>3
        <4>4. CASE SkipRow(w)
          BY <2>1, <4>4 DEF SkipRow, Job
        <4>5. CASE ImportRow(w)
          BY <2>1, <4>5 DEF ImportRow, Job
        <4> QED  BY <1>1, <2>7, <4>2, <4>3, <4>4, <4>5 DEF Step
      <3> QED  BY <2>1, <2>2, <3>1, <3>2 DEF Grounded
    <2> QED  BY <2>4, <2>5, <2>6, <2>7
  <1> QED  BY <1>0, <1>1 DEF Next

(* So they do for ever.                                                      *)
LEMMA GroundedInvariant ==
    ASSUME OneWriter
    PROVE  Spec => []Grounded
  <1>1. Init => Grounded
    BY DEF Init, Idle, Grounded
  <1>2. Grounded /\ ImportInv /\ HistoryInv /\ TypeInv /\ [Next]_vars => Grounded'
    BY GroundedStep
  <1> QED
    BY <1>1, <1>2, TypeInvariant, HistoryInvariant, ImportInvariant, PTL DEF Spec

(* What a decision or a snapshot says follows from its event alone.         *)
Settled ==
    /\ \A k \in DOMAIN transitions : transitions[k].decision = "applied" => transitions[k].to = TargetState(transitions[k].event)
    /\ \A k \in DOMAIN contacts : contacts[k].state = TargetState(contacts[k].last)

(* A row has the state its last event asks for.                              *)
LEMMA SettledStep ==
    ASSUME TypeInv, Settled, [Next]_vars
    PROVE  Settled'
  <1>0. CASE UNCHANGED vars
    BY <1>0 DEF vars, Settled
  <1>1. ASSUME NEW w \in Writers, Step(w) PROVE Settled'
    <2>1. /\ contacts \in Seq(Snapshot) /\ transitions \in Seq(Transition)
          /\ job[w] \in Job /\ Planned(job[w]) /\ job[w].prior \in Prior
      BY DEF TypeInv, TypeOK, Job, Prior
    <2>2. CASE AppendTransition(w)
      <3>1. /\ transitions' = Append(transitions, Outcome(w)) /\ contacts' = contacts
            /\ Outcome(w) \in Transition /\ (Outcome(w).decision = "applied" => Outcome(w).to = TargetState(Outcome(w).event))
        BY <2>1, <2>2, DecisionType DEF AppendTransition, Outcome, Planned
      <3>2. \A k \in DOMAIN Append(transitions, Outcome(w)) :
               \/ Append(transitions, Outcome(w))[k] = Outcome(w)
               \/ k \in DOMAIN transitions /\ Append(transitions, Outcome(w))[k] = transitions[k]
        BY <2>1, <3>1, Appended
      <3> QED  BY <3>1, <3>2 DEF Settled
    <2>3. CASE AppendContact(w)
      <3>1. contacts' = Append(contacts, NewSnapshot(w)) /\ transitions' = transitions /\ job[w].pc = "contact"
        BY <2>3 DEF AppendContact
      <3>2. NewSnapshot(w) \in Snapshot /\ NewSnapshot(w).state = TargetState(NewSnapshot(w).last)
        BY <2>1, <3>1, NewSnapshotFacts, DecisionType DEF NewSnapshot, build_contact_snapshot, Planned
      <3>3. \A k \in DOMAIN Append(contacts, NewSnapshot(w)) :
               \/ Append(contacts, NewSnapshot(w))[k] = NewSnapshot(w)
               \/ k \in DOMAIN contacts /\ Append(contacts, NewSnapshot(w))[k] = contacts[k]
        BY <2>1, <3>2, Appended
      <3> QED  BY <3>1, <3>2, <3>3 DEF Settled
    <2>4. CASE ~AppendTransition(w) /\ ~AppendContact(w)
      <3>1. transitions' = transitions /\ contacts' = contacts
        BY <1>1, <2>4 DEF Step, run_add_contact, ingest_substack_csv, SkipRow, ImportRow, AppendEvent, AppendDispatch,
                          AppendManifest, Interrupt, ledgers
      <3> QED  BY <3>1 DEF Settled
    <2> QED  BY <2>2, <2>3, <2>4
  <1> QED  BY <1>0, <1>1 DEF Next

(* For any number of writers.                                                *)
LEMMA SettledInvariant == Spec => []Settled
  <1>1. Init => Settled
    BY DEF Init, Settled
  <1> QED  BY <1>1, SettledStep, TypeInvariant, PTL DEF Spec

(* The rows of an event in each file, and what is still to be appended for  *)
(* it: the counts differ by that and by what was lost.                      *)
EventsOf(e)    == {i \in DOMAIN events : events[i] = e}
DecisionsOf(e) == {i \in DOMAIN transitions : transitions[i].event = e}
AppliedOf(e)   == {i \in DOMAIN transitions : transitions[i].event = e /\ transitions[i].decision = "applied"}
SnapshotsOf(e) == {i \in DOMAIN contacts : contacts[i].last = e}
Waits(j, pc, e) == j.pc = pc /\ j.event = e
Waiting(pc, e)  == {w \in Writers : Waits(job[w], pc, e)}
Pending(pc, e)  == Cardinality(Waiting(pc, e))
LostFor(pc, e) == [event |-> e, missing |-> pc] \in lost
Balanced(before, after, pending, gap) ==
    IF gap THEN before > after + pending ELSE before = after + pending

CountInv ==
    \A e \in Event :
        /\ \A pc \in {"transition", "contact"} : IsFiniteSet(Waiting(pc, e))
        /\ Balanced(Cardinality(EventsOf(e)), Cardinality(DecisionsOf(e)), Pending("transition", e), LostFor("transition", e))
        /\ Balanced(Cardinality(AppliedOf(e)), Cardinality(SnapshotsOf(e)), Pending("contact", e), LostFor("contact", e))

LEMMA CountsTyped ==
    ASSUME TypeInv, NEW e
    PROVE  /\ Cardinality(EventsOf(e)) \in Nat /\ Cardinality(DecisionsOf(e)) \in Nat
           /\ Cardinality(AppliedOf(e)) \in Nat /\ Cardinality(SnapshotsOf(e)) \in Nat
           /\ EventsOf(e) \in SUBSET (1..Len(events)) /\ DecisionsOf(e) \in SUBSET (1..Len(transitions))
           /\ AppliedOf(e) \in SUBSET (1..Len(transitions)) /\ SnapshotsOf(e) \in SUBSET (1..Len(contacts))
           /\ Len(events) \in Nat /\ Len(transitions) \in Nat /\ Len(contacts) \in Nat
  <1>1. /\ events \in Seq(Event) /\ transitions \in Seq(Transition) /\ contacts \in Seq(Snapshot)
    BY DEF TypeInv, TypeOK
  <1>2. /\ EventsOf(e) \in SUBSET (1..Len(events)) /\ DecisionsOf(e) \in SUBSET (1..Len(transitions))
        /\ AppliedOf(e) \in SUBSET (1..Len(transitions)) /\ SnapshotsOf(e) \in SUBSET (1..Len(contacts))
        /\ Len(events) \in Nat /\ Len(transitions) \in Nat /\ Len(contacts) \in Nat
    BY <1>1 DEF EventsOf, DecisionsOf, AppliedOf, SnapshotsOf
  <1> QED  BY <1>2, RowsCounted

(* An append adds one to the count of its event.                            *)
LEMMA AppendedRows ==
    ASSUME NEW S, NEW s \in Seq(S), NEW x \in S
    PROVE  /\ DOMAIN Append(s, x) = (DOMAIN s) \cup {Len(s) + 1} /\ Len(s) \in Nat /\ Len(s) + 1 \notin DOMAIN s
           /\ \A k \in DOMAIN s : Append(s, x)[k] = s[k]
           /\ Append(s, x)[Len(s) + 1] = x
  OBVIOUS

(* One more event of its kind.                                               *)
LEMMA EventsCounted ==
    ASSUME TypeInv, NEW w \in Writers, job[w].event \in Event, events' = Append(events, job[w].event), NEW e
    PROVE  Cardinality(EventsOf(e)') = Cardinality(EventsOf(e)) + (IF e = job[w].event THEN 1 ELSE 0)
  <1>1. events \in Seq(Event)
    BY DEF TypeInv, TypeOK
  <1>2. EventsOf(e)' = IF e = job[w].event THEN EventsOf(e) \cup {Len(events) + 1} ELSE EventsOf(e)
    BY <1>1, AppendedRows DEF EventsOf
  <1>3. Cardinality(EventsOf(e) \cup {Len(events) + 1}) = Cardinality(EventsOf(e)) + 1 /\ Cardinality(EventsOf(e)) \in Nat
    BY CountsTyped, RowsCounted
  <1> QED  BY <1>2, <1>3

(* One more decision, applied or not.                                        *)
LEMMA DecisionsCounted ==
    ASSUME TypeInv, NEW t \in Transition, transitions' = Append(transitions, t), NEW e
    PROVE  /\ Cardinality(DecisionsOf(e)') = Cardinality(DecisionsOf(e)) + (IF e = t.event THEN 1 ELSE 0)
           /\ Cardinality(AppliedOf(e)') = Cardinality(AppliedOf(e)) + (IF e = t.event /\ t.decision = "applied" THEN 1 ELSE 0)
  <1>1. transitions \in Seq(Transition)
    BY DEF TypeInv, TypeOK
  <1>2. DecisionsOf(e)' = IF e = t.event THEN DecisionsOf(e) \cup {Len(transitions) + 1} ELSE DecisionsOf(e)
    BY <1>1, AppendedRows DEF DecisionsOf
  <1>3. AppliedOf(e)' = IF e = t.event /\ t.decision = "applied" THEN AppliedOf(e) \cup {Len(transitions) + 1} ELSE AppliedOf(e)
    BY <1>1, AppendedRows DEF AppliedOf
  <1>4. /\ Cardinality(DecisionsOf(e) \cup {Len(transitions) + 1}) = Cardinality(DecisionsOf(e)) + 1 /\ Cardinality(DecisionsOf(e)) \in Nat
        /\ Cardinality(AppliedOf(e) \cup {Len(transitions) + 1}) = Cardinality(AppliedOf(e)) + 1 /\ Cardinality(AppliedOf(e)) \in Nat
    BY CountsTyped, RowsCounted
  <1> QED  BY <1>2, <1>3, <1>4

(* One more row.                                                             *)
LEMMA SnapshotsCounted ==
    ASSUME TypeInv, NEW snap \in Snapshot, contacts' = Append(contacts, snap), NEW e
    PROVE  Cardinality(SnapshotsOf(e)') = Cardinality(SnapshotsOf(e)) + (IF e = snap.last THEN 1 ELSE 0)
  <1>1. contacts \in Seq(Snapshot)
    BY DEF TypeInv, TypeOK
  <1>2. SnapshotsOf(e)' = IF e = snap.last THEN SnapshotsOf(e) \cup {Len(contacts) + 1} ELSE SnapshotsOf(e)
    BY <1>1, AppendedRows DEF SnapshotsOf
  <1>3. Cardinality(SnapshotsOf(e) \cup {Len(contacts) + 1}) = Cardinality(SnapshotsOf(e)) + 1 /\ Cardinality(SnapshotsOf(e)) \in Nat
    BY CountsTyped, RowsCounted
  <1> QED  BY <1>2, <1>3

(* A step moves one process, which may start or stop waiting.                *)
LEMMA OthersRest ==
    ASSUME TypeInv, NEW w \in Writers, Step(w)
    PROVE  \A v \in Writers \ {w} : job'[v] = job[v]
  <1>1. job \in [Writers -> Job]
    BY DEF TypeInv, TypeOK
  <1>2. \E k : job' = [job EXCEPT ![w] = k]
    BY DEF Step, run_add_contact, ingest_substack_csv, SkipRow, ImportRow, AppendEvent, AppendTransition,
           AppendContact, AppendDispatch, AppendManifest, Interrupt, Proceed
  <1> QED  BY <1>1, <1>2

(* A process that waits no more, or begins to.                               *)
LEMMA WaitingMoves ==
    ASSUME NEW w \in Writers, NEW pc, NEW e, IsFiniteSet(Waiting(pc, e)),
           \A v \in Writers \ {w} : job'[v] = job[v]
    PROVE  /\ IsFiniteSet(Waiting(pc, e)') /\ Pending(pc, e) \in Nat /\ Pending(pc, e)' \in Nat
           /\ Pending(pc, e)' + (IF Waits(job[w], pc, e) THEN 1 ELSE 0)
                 = Pending(pc, e) + (IF Waits(job'[w], pc, e) THEN 1 ELSE 0)
  <1>1. Waiting(pc, e)' = IF Waits(job'[w], pc, e) THEN Waiting(pc, e) \cup {w} ELSE Waiting(pc, e) \ {w}
    BY DEF Waiting, Waits
  <1>2. w \in Waiting(pc, e) <=> Waits(job[w], pc, e)
    BY DEF Waiting
  <1>3. Cardinality(Waiting(pc, e)) \in Nat
    BY FS_CardinalityType
  <1>4. /\ IsFiniteSet(Waiting(pc, e) \cup {w}) /\ Cardinality(Waiting(pc, e) \cup {w}) \in Nat
        /\ Cardinality(Waiting(pc, e) \cup {w}) = IF w \in Waiting(pc, e) THEN Cardinality(Waiting(pc, e))
                                                 ELSE Cardinality(Waiting(pc, e)) + 1
    BY FS_AddElement, FS_CardinalityType
  <1>5. /\ IsFiniteSet(Waiting(pc, e) \ {w}) /\ Cardinality(Waiting(pc, e) \ {w}) \in Nat
        /\ Cardinality(Waiting(pc, e) \ {w}) = IF w \in Waiting(pc, e) THEN Cardinality(Waiting(pc, e)) - 1
                                                ELSE Cardinality(Waiting(pc, e))
    BY FS_RemoveElement, FS_CardinalityType
  <1>6. CASE Waits(job'[w], pc, e)
    BY <1>1, <1>2, <1>3, <1>4, <1>6 DEF Pending
  <1>7. CASE ~Waits(job'[w], pc, e)
    BY <1>1, <1>2, <1>3, <1>5, <1>7 DEF Pending
  <1> QED  BY <1>6, <1>7

(* Appends keep the balance of counts, an interruption moves one to the      *)
(* lost.                                                                     *)
LEMMA CountStep ==
    ASSUME TypeInv, CountInv, [Next]_vars
    PROVE  CountInv'
  <1>0. CASE UNCHANGED vars
    BY <1>0 DEF vars, CountInv, EventsOf, DecisionsOf, AppliedOf, SnapshotsOf, Pending, Waiting, Waits, LostFor
  <1>1. ASSUME NEW w \in Writers, Step(w), NEW e \in Event
        PROVE  /\ \A pc \in {"transition", "contact"} : IsFiniteSet(Waiting(pc, e)')
               /\ Balanced(Cardinality(EventsOf(e)), Cardinality(DecisionsOf(e)), Pending("transition", e), LostFor("transition", e))'
               /\ Balanced(Cardinality(AppliedOf(e)), Cardinality(SnapshotsOf(e)), Pending("contact", e), LostFor("contact", e))'
    <2>1. PICK j : j = job[w]
      OBVIOUS
    <2>2. PICK k : k = job'[w]
      OBVIOUS
    <2>3. /\ j \in Job /\ Planned(j) /\ job \in [Writers -> Job] /\ j.prior \in Prior
      BY <2>1 DEF TypeInv, TypeOK, Job, Prior
    <2>4. ASSUME NEW pc \in {"transition", "contact"}
          PROVE  /\ IsFiniteSet(Waiting(pc, e)') /\ Pending(pc, e) \in Nat /\ Pending(pc, e)' \in Nat
                 /\ Pending(pc, e)' + (IF j.pc = pc /\ j.event = e THEN 1 ELSE 0)
                       = Pending(pc, e) + (IF k.pc = pc /\ k.event = e THEN 1 ELSE 0)
      <3>1. IsFiniteSet(Waiting(pc, e))
        BY DEF CountInv
      <3>2. \A v \in Writers \ {w} : job'[v] = job[v]
        BY <1>1, OthersRest
      <3> QED  BY <2>1, <2>2, <3>1, <3>2, WaitingMoves DEF Waits
    <2>w. /\ \A pc \in {"transition", "contact"} : IsFiniteSet(Waiting(pc, e)')
          /\ Pending("transition", e) \in Nat /\ Pending("transition", e)' \in Nat
          /\ Pending("transition", e)' + (IF j.pc = "transition" /\ j.event = e THEN 1 ELSE 0)
                = Pending("transition", e) + (IF k.pc = "transition" /\ k.event = e THEN 1 ELSE 0)
          /\ Pending("contact", e) \in Nat /\ Pending("contact", e)' \in Nat
          /\ Pending("contact", e)' + (IF j.pc = "contact" /\ j.event = e THEN 1 ELSE 0)
                = Pending("contact", e) + (IF k.pc = "contact" /\ k.event = e THEN 1 ELSE 0)
      BY <2>4
    <2>5. /\ Balanced(Cardinality(EventsOf(e)), Cardinality(DecisionsOf(e)), Pending("transition", e), LostFor("transition", e))
          /\ Balanced(Cardinality(AppliedOf(e)), Cardinality(SnapshotsOf(e)), Pending("contact", e), LostFor("contact", e))
      BY DEF CountInv
    <2>c. /\ Cardinality(EventsOf(e)) \in Nat /\ Cardinality(DecisionsOf(e)) \in Nat
          /\ Cardinality(AppliedOf(e)) \in Nat /\ Cardinality(SnapshotsOf(e)) \in Nat
      BY CountsTyped
    <2>e. events' = events => EventsOf(e)' = EventsOf(e)
      BY DEF EventsOf
    <2>t. transitions' = transitions => DecisionsOf(e)' = DecisionsOf(e) /\ AppliedOf(e)' = AppliedOf(e)
      BY DEF DecisionsOf, AppliedOf
    <2>s. contacts' = contacts => SnapshotsOf(e)' = SnapshotsOf(e)
      BY DEF SnapshotsOf
    <2>l. lost' = lost => (LostFor("transition", e)' <=> LostFor("transition", e)) /\ (LostFor("contact", e)' <=> LostFor("contact", e))
      BY DEF LostFor
    <2>p. ASSUME NEW done \in {"event", "transition", "contact", "dispatch"}, j.pc = done, Proceed(w, done)
          PROVE  IF NextAppend(w, done) = "done" THEN k.pc \in {"rows", "idle"} ELSE k.pc = NextAppend(w, done) /\ k.event = j.event
      <3>1. NextAppend(w, done) \in {"transition", "contact", "dispatch", "done"}
        BY <2>p DEF NextAppend
      <3>2. CASE NextAppend(w, done) # "done"
        <4>1. job' = [job EXCEPT ![w] = [@ EXCEPT !.pc = NextAppend(w, done)]]
          BY <2>p, <3>2 DEF Proceed
        <4>2. k = [j EXCEPT !.pc = NextAppend(w, done)]
          BY <2>1, <2>2, <2>3, <4>1
        <4> QED  BY <2>3, <3>2, <4>2 DEF Job
      <3>3. CASE NextAppend(w, done) = "done"
        <4>1. k = Idle \/ k = [j EXCEPT !.pc = "rows", !.event = NoEvent, !.prior = NoSnapshot, !.seen = j.seen \cup {j.event}]
          BY <2>1, <2>2, <2>3, <2>p, <3>3 DEF Proceed
        <4>2. [j EXCEPT !.pc = "rows", !.event = NoEvent, !.prior = NoSnapshot, !.seen = j.seen \cup {j.event}].pc = "rows"
          BY <2>3 DEF Job
        <4>3. Idle.pc = "idle"
          BY DEF Idle
        <4> QED  BY <3>3, <4>1, <4>2, <4>3
      <3> QED  BY <3>2, <3>3
    <2>6. CASE AppendEvent(w)
      <3>1. events' = Append(events, j.event) /\ UNCHANGED <<transitions, contacts, lost>> /\ j.pc = "event" /\ Proceed(w, "event")
        BY <2>1, <2>6 DEF AppendEvent
      <3>2. k.pc = "transition" /\ k.event = j.event
        BY <2>p, <3>1 DEF NextAppend
      <3>3. Cardinality(EventsOf(e)') = Cardinality(EventsOf(e)) + (IF e = j.event THEN 1 ELSE 0)
        BY <2>1, <2>3, <3>1, EventsCounted DEF Planned
      <3>b. Balanced(Cardinality(EventsOf(e)), Cardinality(DecisionsOf(e)), Pending("transition", e), LostFor("transition", e))'
        BY <2>w, <2>5, <2>c, <2>t, <2>s, <2>l, <3>1, <3>2, <3>3, SMTT(30) DEF Balanced
      <3>c. Balanced(Cardinality(AppliedOf(e)), Cardinality(SnapshotsOf(e)), Pending("contact", e), LostFor("contact", e))'
        BY <2>w, <2>5, <2>c, <2>t, <2>s, <2>l, <3>1, <3>2, <3>3 DEF Balanced
      <3> QED  BY <2>w, <3>b, <3>c
    <2>7. CASE AppendTransition(w)
      <3>1. transitions' = Append(transitions, Outcome(w)) /\ UNCHANGED <<events, contacts, lost>> /\ j.pc = "transition" /\ Proceed(w, "transition")
        BY <2>1, <2>7 DEF AppendTransition
      <3>2. IF Outcome(w).decision = "applied" THEN k.pc = "contact" /\ k.event = j.event ELSE k.pc \in {"rows", "idle"}
        <4>1. NextAppend(w, "transition") = IF Outcome(w).decision = "applied" THEN "contact" ELSE "done"
          BY DEF NextAppend
        <4> QED  BY <2>p, <3>1, <4>1
      <3>3. Outcome(w) \in Transition /\ Outcome(w).event = j.event
        BY <2>1, <2>3, <3>1, DecisionType DEF Outcome, Planned
      <3>4. /\ Cardinality(DecisionsOf(e)') = Cardinality(DecisionsOf(e)) + (IF e = j.event THEN 1 ELSE 0)
            /\ Cardinality(AppliedOf(e)') = Cardinality(AppliedOf(e)) + (IF e = j.event /\ Outcome(w).decision = "applied" THEN 1 ELSE 0)
        BY <3>1, <3>3, DecisionsCounted
      <3>5. Pending("transition", e)' + (IF e = j.event THEN 1 ELSE 0) = Pending("transition", e)
        BY <2>w, <3>1, <3>2
      <3>6. Pending("contact", e)' = Pending("contact", e) + (IF e = j.event /\ Outcome(w).decision = "applied" THEN 1 ELSE 0)
        BY <2>w, <3>1, <3>2
      <3>7. /\ EventsOf(e)' = EventsOf(e) /\ SnapshotsOf(e)' = SnapshotsOf(e)
            /\ (LostFor("transition", e)' <=> LostFor("transition", e)) /\ (LostFor("contact", e)' <=> LostFor("contact", e))
        BY <2>e, <2>s, <2>l, <3>1
      <3>b. Balanced(Cardinality(EventsOf(e)), Cardinality(DecisionsOf(e)), Pending("transition", e), LostFor("transition", e))'
        BY <2>w, <2>5, <2>c, <3>4, <3>5, <3>7 DEF Balanced
      <3>c. Balanced(Cardinality(AppliedOf(e)), Cardinality(SnapshotsOf(e)), Pending("contact", e), LostFor("contact", e))'
        BY <2>w, <2>5, <2>c, <3>4, <3>6, <3>7 DEF Balanced
      <3> QED  BY <2>w, <3>b, <3>c
    <2>8. CASE AppendContact(w)
      <3>1. contacts' = Append(contacts, NewSnapshot(w)) /\ UNCHANGED <<events, transitions, lost>> /\ j.pc = "contact" /\ Proceed(w, "contact")
        BY <2>1, <2>8 DEF AppendContact
      <3>2. k.pc \in {"dispatch", "rows", "idle"}
        <4>1. NextAppend(w, "contact") \in {"dispatch", "done"}
          BY DEF NextAppend
        <4> QED  BY <2>p, <3>1, <4>1
      <3>3. NewSnapshot(w) \in Snapshot /\ NewSnapshot(w).last = j.event
        BY <2>1, <3>1, NewSnapshotFacts DEF NewSnapshot, build_contact_snapshot
      <3>4. Cardinality(SnapshotsOf(e)') = Cardinality(SnapshotsOf(e)) + (IF e = j.event THEN 1 ELSE 0)
        BY <3>1, <3>3, SnapshotsCounted
      <3>5. /\ Pending("transition", e)' = Pending("transition", e)
            /\ Pending("contact", e)' + (IF e = j.event THEN 1 ELSE 0) = Pending("contact", e)
        BY <2>w, <3>1, <3>2
      <3>b. Balanced(Cardinality(EventsOf(e)), Cardinality(DecisionsOf(e)), Pending("transition", e), LostFor("transition", e))'
        BY <2>w, <2>5, <2>c, <2>e, <2>t, <2>l, <3>1, <3>5 DEF Balanced
      <3>c. Balanced(Cardinality(AppliedOf(e)), Cardinality(SnapshotsOf(e)), Pending("contact", e), LostFor("contact", e))'
        BY <2>w, <2>5, <2>c, <2>t, <2>l, <3>1, <3>4, <3>5, SMTT(30) DEF Balanced
      <3> QED  BY <2>w, <3>b, <3>c
    <2>9. CASE Interrupt(w)
      <3>1. UNCHANGED <<events, transitions, contacts>> /\ k.pc = "idle"
        BY <2>2, <2>3, <2>9 DEF Interrupt, ledgers, Idle
      <3>2. lost' = IF j.pc \in {"transition", "contact", "dispatch"} THEN lost \cup {[event |-> j.event, missing |-> j.pc]} ELSE lost
        BY <2>1, <2>9 DEF Interrupt
      <3>3. \A pc \in {"transition", "contact"} : LostFor(pc, e)' <=> LostFor(pc, e) \/ (j.pc = pc /\ j.event = e)
        BY <3>2 DEF LostFor
      <3> QED  BY <2>w, <2>5, <2>c, <2>e, <2>t, <2>s, <3>1, <3>3 DEF Balanced
    <2>10. CASE AppendDispatch(w)
      <3>1. UNCHANGED <<events, transitions, contacts, lost>> /\ j.pc = "dispatch" /\ Proceed(w, "dispatch")
        BY <2>1, <2>10 DEF AppendDispatch
      <3>2. k.pc \in {"rows", "idle"}
        <4>1. NextAppend(w, "dispatch") = "done"
          BY DEF NextAppend
        <4> QED  BY <2>p, <3>1, <4>1
      <3> QED  BY <2>w, <2>5, <2>c, <2>e, <2>t, <2>s, <2>l, <3>1, <3>2 DEF Balanced
    <2>11. CASE run_add_contact(w) \/ ingest_substack_csv(w) \/ SkipRow(w) \/ ImportRow(w) \/ AppendManifest(w)
      <3>1. UNCHANGED <<events, transitions, contacts, lost>>
        BY <2>11 DEF run_add_contact, ingest_substack_csv, SkipRow, ImportRow, AppendManifest, ledgers
      <3>2. j.pc \in {"idle", "rows"}
        BY <2>1, <2>11 DEF run_add_contact, ingest_substack_csv, SkipRow, ImportRow, AppendManifest
      <3>3. k.pc \in {"idle", "rows", "event"}
        <4>1. CASE run_add_contact(w)
          BY <2>2, <2>3, <4>1 DEF run_add_contact, Idle
        <4>2. CASE ingest_substack_csv(w)
          BY <2>2, <2>3, <4>2 DEF ingest_substack_csv, Idle
        <4>3. CASE SkipRow(w)
          BY <2>1, <2>2, <2>3, <4>3 DEF SkipRow, Job
        <4>4. CASE ImportRow(w)
          BY <2>1, <2>2, <2>3, <4>4 DEF ImportRow, Job
        <4>5. CASE AppendManifest(w)
          BY <2>2, <2>3, <4>5 DEF AppendManifest, Idle
        <4> QED  BY <2>11, <4>1, <4>2, <4>3, <4>4, <4>5
      <3> QED  BY <2>w, <2>5, <2>c, <2>e, <2>t, <2>s, <2>l, <3>1, <3>2, <3>3 DEF Balanced
    <2> QED  BY <1>1, <2>6, <2>7, <2>8, <2>9, <2>10, <2>11 DEF Step
  <1> QED  BY <1>0, <1>1 DEF Next, CountInv

(* The balance holds for any number of writers.                              *)
LEMMA CountInvariant == Spec => []CountInv
  <1>1. Init => CountInv
    <2> SUFFICES ASSUME Init PROVE CountInv
      OBVIOUS
    <2>1. \A f \in Event : EventsOf(f) = {} /\ DecisionsOf(f) = {} /\ AppliedOf(f) = {} /\ SnapshotsOf(f) = {}
      BY DEF Init, EventsOf, DecisionsOf, AppliedOf, SnapshotsOf
    <2>2. \A f \in Event : \A pc \in {"transition", "contact"} : Waiting(pc, f) = {} /\ ~LostFor(pc, f)
      BY DEF Init, Idle, Waiting, Waits, LostFor
    <2> QED  BY <2>1, <2>2, FS_EmptySet DEF CountInv, Balanced, Pending
  <1>2. CountInv /\ TypeInv /\ [Next]_vars => CountInv'
    BY CountStep
  <1> QED
    BY <1>1, <1>2, TypeInvariant, PTL DEF Spec

(* What the two counting checks of reconciliation compare.                  *)
LEMMA EventGapCounted ==
    ASSUME TypeInv
    PROVE  event_transition_gap(events, transitions) <=>
               \E e \in Event : Cardinality(EventsOf(e)) > Cardinality(DecisionsOf(e))
  <1>1. event_transition_gap(events, transitions) <=>
            \E e \in Elements(events) : Cardinality(EventsOf(e)) > Cardinality(DecisionsOf(e))
    BY DEF event_transition_gap, Rows, EventsOf, DecisionsOf
  <1>2. Elements(events) \subseteq Event
    BY ElementsType DEF TypeInv, TypeOK
  <1>3. ASSUME NEW e \in Event, Cardinality(EventsOf(e)) > Cardinality(DecisionsOf(e)) PROVE e \in Elements(events)
    <2>1. Cardinality(EventsOf(e)) # 0
      BY <1>3, CountsTyped
    <2>2. EventsOf(e) # {}
      BY <2>1, FS_EmptySet
    <2> QED  BY <2>2 DEF EventsOf, Elements
  <1> QED  BY <1>1, <1>2, <1>3

(* The gap detector in terms of the counts.                                  *)
LEMMA SnapshotGapCounted ==
    ASSUME TypeInv, Settled
    PROVE  transition_snapshot_gap(transitions, contacts) <=>
               \E e \in Event : Cardinality(AppliedOf(e)) > Cardinality(SnapshotsOf(e))
  <1>1. transitions \in Seq(Transition) /\ contacts \in Seq(Snapshot)
    BY DEF TypeInv, TypeOK
  <1>2. ASSUME NEW m \in DOMAIN transitions, transitions[m].decision = "applied"
        PROVE  /\ transitions[m].event \in Event
               /\ {i \in DOMAIN transitions : transitions[i] = transitions[m]} = AppliedOf(transitions[m].event)
               /\ {i \in DOMAIN contacts : contacts[i].last = transitions[m].event /\ contacts[i].state = transitions[m].to}
                     = SnapshotsOf(transitions[m].event)
    <2>1. \A i \in DOMAIN transitions : transitions[i] \in Transition
      BY <1>1
    <2>2. transitions[m].to = TargetState(transitions[m].event)
      BY <1>2 DEF Settled
    <2>3. \A i \in DOMAIN transitions : transitions[i].event = transitions[m].event /\ transitions[i].decision = "applied"
                                         => transitions[i] = transitions[m]
      <3> SUFFICES ASSUME NEW i \in DOMAIN transitions, transitions[i].event = transitions[m].event, transitions[i].decision = "applied"
                   PROVE  transitions[i] = transitions[m]
        OBVIOUS
      <3>1. transitions[i].to = transitions[m].to
        BY <2>2 DEF Settled
      <3> QED  BY <1>2, <2>1, <3>1 DEF Transition
    <2>4. {i \in DOMAIN transitions : transitions[i] = transitions[m]} = AppliedOf(transitions[m].event)
      BY <1>2, <2>3 DEF AppliedOf
    <2>5. {i \in DOMAIN contacts : contacts[i].last = transitions[m].event /\ contacts[i].state = transitions[m].to}
                     = SnapshotsOf(transitions[m].event)
      BY <2>2 DEF SnapshotsOf, Settled
    <2> QED  BY <2>1, <2>4, <2>5 DEF Transition
  <1>3. transition_snapshot_gap(transitions, contacts) <=>
            \E m \in DOMAIN transitions :
                /\ transitions[m].decision = "applied"
                /\ Cardinality({i \in DOMAIN transitions : transitions[i] = transitions[m]})
                      > Cardinality({i \in DOMAIN contacts : contacts[i].last = transitions[m].event /\ contacts[i].state = transitions[m].to})
    BY DEF transition_snapshot_gap, Rows, Elements
  <1>4. ASSUME NEW e \in Event, Cardinality(AppliedOf(e)) > Cardinality(SnapshotsOf(e))
        PROVE  \E m \in DOMAIN transitions : transitions[m].decision = "applied" /\ transitions[m].event = e
    <2>1. Cardinality(AppliedOf(e)) # 0
      BY <1>4, CountsTyped
    <2>2. AppliedOf(e) # {}
      BY <2>1, FS_EmptySet
    <2> QED  BY <2>2 DEF AppliedOf
  <1>5. ASSUME NEW m \in DOMAIN transitions, transitions[m].decision = "applied"
        PROVE  (Cardinality({i \in DOMAIN transitions : transitions[i] = transitions[m]})
                  > Cardinality({i \in DOMAIN contacts : contacts[i].last = transitions[m].event /\ contacts[i].state = transitions[m].to}))
               <=> Cardinality(AppliedOf(transitions[m].event)) > Cardinality(SnapshotsOf(transitions[m].event))
    BY <1>2, <1>5
  <1>6. ASSUME transition_snapshot_gap(transitions, contacts)
        PROVE  \E e \in Event : Cardinality(AppliedOf(e)) > Cardinality(SnapshotsOf(e))
    BY <1>2, <1>3, <1>5, <1>6
  <1>7. ASSUME NEW e \in Event, Cardinality(AppliedOf(e)) > Cardinality(SnapshotsOf(e))
        PROVE  transition_snapshot_gap(transitions, contacts)
    <2>1. PICK m \in DOMAIN transitions : transitions[m].decision = "applied" /\ transitions[m].event = e
      BY <1>4, <1>7
    <2> QED  BY <1>3, <1>5, <1>7, <2>1
  <1> QED  BY <1>6, <1>7

(* Snapshots and dispatches never fail a reconciliation.                    *)
LEMMA OnlyCountsCanFail ==
    ASSUME TypeInv, HistoryInv, Grounded
    PROVE  ~contact_without_event(events, contacts) /\ ~dispatch_state_gap(contacts, dispatches)
  <1>1. \A i \in DOMAIN contacts : i \in Nat /\ contacts[i].version \in Nat
    <2>1. \A i \in DOMAIN contacts : i \in Nat /\ contacts[i] \in Snapshot
      BY DEF TypeInv, TypeOK
    <2> QED  BY <2>1 DEF Snapshot
  <1>2. ~contact_without_event(events, contacts)
    BY DEF contact_without_event, Grounded, Elements
  <1>3. ASSUME NEW k \in DOMAIN dispatches
        PROVE  \E i \in Referenced(contacts, dispatches[k]) : SamePlan(contacts[i], dispatches[k])
    <2>1. PICK i \in DOMAIN contacts : /\ contacts[i].contact = dispatches[k].contact /\ contacts[i].version = dispatches[k].version
                                      /\ SamePlan(contacts[i], dispatches[k])
      BY DEF Grounded
    <2>2. \A j \in DOMAIN contacts : (contacts[j].contact = contacts[i].contact /\ contacts[j].version = contacts[i].version) => j = i
      BY <1>1 DEF HistoryInv, VersionsGrow
    <2>3. i \in Referenced(contacts, dispatches[k])
      BY <1>1, <2>1, <2>2 DEF Referenced
    <2> QED  BY <2>1, <2>3
  <1>4. ~dispatch_state_gap(contacts, dispatches)
    BY <1>3 DEF dispatch_state_gap, Elements
  <1> QED  BY <1>2, <1>4

(* With one process at a time, and none between its appends, reconciliation *)
(* is clean exactly when no event, decision or snapshot was left out.       *)
THEOREM ReconciliationIsExact ==
    ASSUME OneWriter
    PROVE  Spec => []ReconcileIsExact
  <1>1. TypeInv /\ HistoryInv /\ Grounded /\ Settled /\ CountInv => ReconcileIsExact
    <2> SUFFICES ASSUME TypeInv, HistoryInv, Grounded, Settled, CountInv, Quiet
                 PROVE  Clean <=> \A x \in lost : x.missing = "dispatch"
      BY DEF ReconcileIsExact
    <2>1. \A e : Pending("transition", e) = 0 /\ Pending("contact", e) = 0
      <3>1. \A e : Waiting("transition", e) = {} /\ Waiting("contact", e) = {}
        BY DEF Quiet, Waiting, Waits
      <3> QED  BY <3>1, FS_EmptySet DEF Pending
    <2>2. ASSUME NEW e \in Event
          PROVE  /\ LostFor("transition", e) <=> Cardinality(EventsOf(e)) > Cardinality(DecisionsOf(e))
                 /\ LostFor("contact", e) <=> Cardinality(AppliedOf(e)) > Cardinality(SnapshotsOf(e))
      BY <2>1, CountsTyped DEF CountInv, Balanced
    <2>3. Clean <=> \A e \in Event : ~LostFor("transition", e) /\ ~LostFor("contact", e)
      BY <2>2, EventGapCounted, SnapshotGapCounted, OnlyCountsCanFail DEF Clean, reconcile_state
    <2>4. lost \subseteq [event : Event, missing : {"transition", "contact", "dispatch"}]
      BY DEF TypeInv, TypeOK
    <2>5. (\A x \in lost : x.missing = "dispatch") <=> \A e \in Event : ~LostFor("transition", e) /\ ~LostFor("contact", e)
      <3>1. ASSUME NEW x \in lost, x.missing # "dispatch"
            PROVE  x.event \in Event /\ (LostFor("transition", x.event) \/ LostFor("contact", x.event))
        <4>1. x.event \in Event /\ x.missing \in {"transition", "contact"} /\ x = [event |-> x.event, missing |-> x.missing]
          BY <2>4, <3>1
        <4> QED  BY <4>1 DEF LostFor
      <3>2. ASSUME NEW e, LostFor("transition", e) \/ LostFor("contact", e)
            PROVE  \E x \in lost : x.missing # "dispatch"
        BY <3>2 DEF LostFor
      <3> QED  BY <3>1, <3>2
    <2> QED  BY <2>3, <2>5
  <1> QED
    BY <1>1, TypeInvariant, HistoryInvariant, GroundedInvariant, SettledInvariant, CountInvariant, PTL

(* Whatever number of processes overlap: once one of them was interrupted   *)
(* before it appended a decision or a snapshot, reconciliation never is     *)
(* clean again (reconciliation.py:93, 118).                                 *)
THEOREM LostAppendsStayReported == Spec => []LostAppendStaysReported
  <1>1. TypeInv /\ Settled /\ CountInv => LostAppendStaysReported
    <2> SUFFICES ASSUME TypeInv, Settled, CountInv, NEW x \in lost, x.missing # "dispatch"
                 PROVE  ~Clean
      BY DEF LostAppendStaysReported
    <2>1. /\ x \in [event : Event, missing : {"transition", "contact", "dispatch"}]
          /\ x = [event |-> x.event, missing |-> x.missing]
      BY DEF TypeInv, TypeOK
    <2>2. x.event \in Event /\ (LostFor("transition", x.event) \/ LostFor("contact", x.event))
      BY <2>1 DEF LostFor
    <2>3. \A pc \in {"transition", "contact"} : Pending(pc, x.event) \in Nat
      BY <2>2, FS_CardinalityType DEF CountInv, Pending
    <2>4. \/ Cardinality(EventsOf(x.event)) > Cardinality(DecisionsOf(x.event))
          \/ Cardinality(AppliedOf(x.event)) > Cardinality(SnapshotsOf(x.event))
      BY <2>2, <2>3, CountsTyped DEF CountInv, Balanced
    <2> QED  BY <2>2, <2>4, EventGapCounted, SnapshotGapCounted DEF Clean, reconcile_state
  <1> QED
    BY <1>1, TypeInvariant, SettledInvariant, CountInvariant, PTL

----------------------------------------------------------------------------
(* With one writer the ledgers are a register of contacts.                  *)

(* The event that is being decided is the last one on file.                 *)
LastIsDecided ==
    \A w \in Writers : job[w].pc \in {"transition", "contact"} =>
        Len(events) > 0 /\ events[Len(events)] = job[w].event

(* A sequence is what precedes its last element, and that element.           *)
LEMMA FrontAndLast ==
    ASSUME NEW S, NEW s \in Seq(S), Len(s) > 0
    PROVE  Append(SubSeq(s, 1, Len(s) - 1), s[Len(s)]) = s
  OBVIOUS

(* What precedes an element that is appended.                                *)
LEMMA FrontOfAppend ==
    ASSUME NEW S, NEW s \in Seq(S), NEW x \in S
    PROVE  SubSeq(Append(s, x), 1, Len(Append(s, x)) - 1) = s
  OBVIOUS

(* The decision on an event is what the register makes of it.                *)
LEMMA DecisionIsEntry ==
    ASSUME NEW e \in Event, NEW prior \in Prior
    PROVE  LET d == evaluate_transition(e, prior).decision
               r == Register!EntryAfter(EntryOf(prior), e)
           IN  /\ d = "applied" => r = EntryOf(build_contact_snapshot(prior, e))
               /\ d # "applied" => r = EntryOf(prior)
  <1> DEFINE after == Register!StateAfter(EntryOf(prior), e)
             sticky == prior.state = "suppressed" /\ e.kind \notin SUPPRESSION_EVENT_TYPES
  <1>1. EntryOf(prior).state = prior.state /\ EntryOf(prior).version = prior.version
    BY DEF EntryOf
  <1>2. prior.version \in Nat
    BY DEF Prior, Snapshot, NoSnapshot
  <1>3. after = IF sticky THEN "suppressed" ELSE TargetState(e)
    <2>1. e.kind \in {"contact_seeded"} \cup SUPPRESSION_EVENT_TYPES /\ e.consent \in Consents
      BY DEF Event
    <2>2. "contact_seeded" \notin SUPPRESSION_EVENT_TYPES
      BY DEF SUPPRESSION_EVENT_TYPES
    <2>3. /\ Consents = DISPATCHABLE_CONSENT_STATUSES \cup AWARE_CONSENT_STATUSES
          /\ DISPATCHABLE_CONSENT_STATUSES \cap AWARE_CONSENT_STATUSES = {}
      BY DEF Consents, DISPATCHABLE_CONSENT_STATUSES, AWARE_CONSENT_STATUSES
    <2>4. after = IF e.kind \in SUPPRESSION_EVENT_TYPES \/ prior.state = "suppressed" THEN "suppressed"
                  ELSE IF e.kind = "contact_seeded" /\ e.consent \in DISPATCHABLE_CONSENT_STATUSES
                       THEN "subscribed" ELSE "aware"
      BY <1>1 DEF Register!StateAfter
    <2>5. CASE e.kind \in SUPPRESSION_EVENT_TYPES
      <3>1. TargetState(e) = "suppressed"
        BY <2>2, <2>5 DEF TargetState
      <3> QED  BY <2>4, <2>5, <3>1
    <2>6. CASE e.kind \notin SUPPRESSION_EVENT_TYPES
      <3>1. e.kind = "contact_seeded"
        BY <2>1, <2>6
      <3>2. TargetState(e) = IF e.consent \in DISPATCHABLE_CONSENT_STATUSES THEN "subscribed" ELSE "aware"
        BY <2>1, <2>3, <2>6, <3>1 DEF TargetState
      <3> QED  BY <2>4, <2>6, <3>1, <3>2
    <2> QED  BY <2>5, <2>6
  <1>4. evaluate_transition(e, prior).decision = "applied" <=> ~sticky /\ TargetState(e) # prior.state
    <2>1. TargetState(e) # "none"
      BY DEF TargetState, Event, Consents, DISPATCHABLE_CONSENT_STATUSES, AWARE_CONSENT_STATUSES, SUPPRESSION_EVENT_TYPES
    <2> QED  BY <2>1 DEF evaluate_transition
  <1>5. Register!EntryAfter(EntryOf(prior), e) =
           IF after = prior.state THEN EntryOf(prior)
           ELSE [version |-> prior.version + 1, state |-> after, because |-> e]
    BY <1>1 DEF Register!EntryAfter
  <1>6. evaluate_transition(e, prior).decision = "applied" => evaluate_transition(e, prior).to = TargetState(e)
    BY DecisionType
  <1> HIDE DEF after, sticky
  <1>7. CASE evaluate_transition(e, prior).decision = "applied"
    <2>1. build_contact_snapshot(prior, e).version = prior.version + 1 /\ build_contact_snapshot(prior, e).last = e
          /\ build_contact_snapshot(prior, e).state = TargetState(e)
      BY <1>6, <1>7 DEF build_contact_snapshot
    <2>2. EntryOf(build_contact_snapshot(prior, e)) = [version |-> prior.version + 1, state |-> TargetState(e), because |-> e]
      BY <1>2, <2>1 DEF EntryOf
    <2> QED  BY <1>3, <1>4, <1>5, <1>7, <2>2
  <1>8. CASE evaluate_transition(e, prior).decision # "applied"
    <2>1. after = prior.state
      BY <1>3, <1>4, <1>8 DEF sticky
    <2> QED  BY <1>5, <1>8, <2>1
  <1> QED  BY <1>7, <1>8

(* How an append moves its process on.                                       *)
LEMMA NextSteps ==
    ASSUME TypeInv, NEW w \in Writers, NEW done \in {"event", "transition", "contact", "dispatch"},
           job[w].pc = done, Proceed(w, done)
    PROVE  /\ done = "event" => job'[w].pc = "transition" /\ job'[w].event = job[w].event
           /\ done = "transition" /\ Outcome(w).decision = "applied" =>
                 job'[w].pc = "contact" /\ job'[w].event = job[w].event
           /\ done = "transition" /\ Outcome(w).decision # "applied" => job'[w].pc \in {"rows", "idle"}
           /\ done \in {"contact", "dispatch"} => job'[w].pc \in {"dispatch", "rows", "idle"}
  <1>1. job \in [Writers -> Job] /\ job[w] \in Job
    BY DEF TypeInv, TypeOK
  <1>2. job'[w] = IF NextAppend(w, done) # "done" THEN [job[w] EXCEPT !.pc = NextAppend(w, done)]
                  ELSE IF Importing(w)
                       THEN [job[w] EXCEPT !.pc = "rows", !.event = NoEvent, !.prior = NoSnapshot,
                                           !.seen = job[w].seen \cup {job[w].event}]
                       ELSE Idle
    BY <1>1 DEF Proceed
  <1>3. NextAppend(w, done) # "done" => job'[w].pc = NextAppend(w, done) /\ job'[w].event = job[w].event
    BY <1>1, <1>2 DEF Job
  <1>4. NextAppend(w, done) = "done" => job'[w].pc \in {"rows", "idle"}
    BY <1>1, <1>2 DEF Job, Idle
  <1>5. /\ done = "event" => NextAppend(w, done) = "transition"
        /\ done = "transition" /\ Outcome(w).decision = "applied" => NextAppend(w, done) = "contact"
        /\ done = "transition" /\ Outcome(w).decision # "applied" => NextAppend(w, done) = "done"
        /\ done \in {"contact", "dispatch"} => NextAppend(w, done) \in {"dispatch", "done"}
    BY DEF NextAppend
  <1> QED  BY <1>3, <1>4, <1>5

(* The latest snapshots after one more is appended.                          *)
LEMMA LatestAfterAppend ==
    ASSUME NEW rows \in Seq(Snapshot), NEW snap \in Snapshot, NEW c \in Contacts
    PROVE  load_latest_contact_snapshot(Append(rows, snap), c) =
               IF c = snap.contact THEN snap ELSE load_latest_contact_snapshot(rows, c)
  <1> DEFINE new == Append(rows, snap)
             n == Len(rows)
  <1>1. /\ n \in Nat /\ DOMAIN rows = 1..n /\ DOMAIN new = 1..(n + 1)
        /\ new[n + 1] = snap /\ \A i \in 1..n : new[i] = rows[i]
        /\ new \in Seq(Snapshot)
    OBVIOUS
  <1> HIDE DEF new, n
  <1>2. CASE c = snap.contact
    <2>1. LastOf(new, c, n + 1) /\ n + 1 \in DOMAIN new
      BY <1>1, <1>2 DEF LastOf
    <2> QED  BY <1>1, <1>2, <2>1, LatestIsLast DEF new
  <1>3. CASE c # snap.contact
    <2>1. \A i \in DOMAIN new : LastOf(new, c, i) => i \in DOMAIN rows /\ LastOf(rows, c, i)
      BY <1>1, <1>3 DEF LastOf
    <2>2. \A i \in DOMAIN rows : LastOf(rows, c, i) => i \in DOMAIN new /\ LastOf(new, c, i)
      BY <1>1, <1>3 DEF LastOf
    <2>3. CASE \E i \in DOMAIN rows : LastOf(rows, c, i)
      <3>1. PICK i \in DOMAIN rows : LastOf(rows, c, i)
        BY <2>3
      <3>2. load_latest_contact_snapshot(new, c) = new[i] /\ load_latest_contact_snapshot(rows, c) = rows[i]
        BY <1>1, <2>2, <3>1, LatestIsLast
      <3> QED  BY <1>1, <1>3, <3>1, <3>2 DEF new
    <2>4. CASE ~ \E i \in DOMAIN rows : LastOf(rows, c, i)
      <3>1. ~ \E i \in DOMAIN new : LastOf(new, c, i)
        BY <2>1, <2>4
      <3> QED  BY <1>3, <2>4, <3>1 DEF load_latest_contact_snapshot, new
    <2> QED  BY <2>3, <2>4
  <1> QED  BY <1>2, <1>3

(* Each kind of step: what it does to the process and to what is mapped.     *)
LEMMA RegisterRests ==
    ASSUME TypeInv, OneWriter, NEW w \in Writers,
           \/ run_add_contact(w) \/ ingest_substack_csv(w) \/ SkipRow(w) \/ ImportRow(w)
           \/ AppendDispatch(w) \/ AppendManifest(w)
    PROVE  /\ ~Deciding /\ ~Deciding'
           /\ UNCHANGED <<events, contacts, lost>>
  <1>1. job \in [Writers -> Job] /\ job[w] \in Job
    BY DEF TypeInv, TypeOK
  <1>2. job[w].pc \notin {"transition", "contact"} /\ job'[w].pc \notin {"transition", "contact"}
    <2>1. CASE run_add_contact(w)
      BY <1>1, <2>1 DEF run_add_contact, Idle
    <2>2. CASE ingest_substack_csv(w)
      BY <1>1, <2>2 DEF ingest_substack_csv, Idle
    <2>3. CASE SkipRow(w)
      BY <1>1, <2>3 DEF SkipRow, Job
    <2>4. CASE ImportRow(w)
      BY <1>1, <2>4 DEF ImportRow, Job
    <2>5. CASE AppendDispatch(w)
      BY <2>5, NextSteps DEF AppendDispatch
    <2>6. CASE AppendManifest(w)
      BY <1>1, <2>6 DEF AppendManifest, Idle
    <2> QED  BY <2>1, <2>2, <2>3, <2>4, <2>5, <2>6
  <1>3. UNCHANGED <<events, contacts, lost>>
    BY DEF run_add_contact, ingest_substack_csv, SkipRow, ImportRow, AppendDispatch, AppendManifest, ledgers
  <1> QED  BY <1>2, <1>3 DEF Deciding, OneWriter

(* The event being decided stays the last on file.                           *)
LEMMA LastIsDecidedStep ==
    ASSUME OneWriter, TypeInv, LastIsDecided, [Next]_vars
    PROVE  LastIsDecided'
  <1>1. CASE UNCHANGED vars
    BY <1>1 DEF vars, LastIsDecided
  <1>2. ASSUME NEW w \in Writers, Step(w)
        PROVE  LastIsDecided'
    <2>1. job \in [Writers -> Job] /\ job[w] \in Job /\ events \in Seq(Event)
      BY DEF TypeInv, TypeOK
    <2>2. CASE \/ run_add_contact(w) \/ ingest_substack_csv(w) \/ SkipRow(w) \/ ImportRow(w)
               \/ AppendDispatch(w) \/ AppendManifest(w)
      BY <2>2, RegisterRests DEF Deciding, LastIsDecided
    <2>3. CASE AppendEvent(w)
      <3>1. job'[w].event = job[w].event /\ job[w].event \in Event
        BY <2>3, NextSteps DEF AppendEvent, TypeInv, Planned
      <3>2. events' = Append(events, job[w].event)
        BY <2>3 DEF AppendEvent
      <3>3. Len(events') > 0 /\ events'[Len(events')] = job[w].event
        BY <2>1, <3>1, <3>2
      <3> QED  BY <3>1, <3>3 DEF LastIsDecided, OneWriter
    <2>4. CASE AppendTransition(w) \/ AppendContact(w)
      <3>1. job[w].pc \in {"transition", "contact"} /\ events' = events
        BY <2>4 DEF AppendTransition, AppendContact
      <3>2. job'[w].pc \in {"transition", "contact"} => job'[w].event = job[w].event
        <4>1. CASE AppendTransition(w)
          BY <4>1, NextSteps DEF AppendTransition
        <4>2. CASE AppendContact(w)
          BY <4>2, NextSteps DEF AppendContact
        <4> QED  BY <2>4, <4>1, <4>2
      <3> QED  BY <3>1, <3>2 DEF LastIsDecided, OneWriter
    <2>5. CASE Interrupt(w)
      <3>1. job'[w].pc = "idle"
        BY <2>1, <2>5 DEF Interrupt, Idle
      <3> QED  BY <3>1 DEF LastIsDecided, OneWriter
    <2> QED  BY <1>2, <2>2, <2>3, <2>4, <2>5 DEF Step
  <1> QED  BY <1>1, <1>2 DEF Next

(* So it does for ever.                                                      *)
LEMMA LastIsDecidedAlways ==
    ASSUME OneWriter
    PROVE  Spec => []LastIsDecided
  <1>1. Init => LastIsDecided
    BY DEF Init, Idle, LastIsDecided
  <1> QED  BY <1>1, LastIsDecidedStep, TypeInvariant, PTL DEF Spec

(* The step that makes an event felt, or leaves it without effect, is one of *)
(* the register; every other leaves the register as it is.                   *)
LEMMA RegisterStep ==
    ASSUME OneWriter, TypeInv, HistoryInv, HistoryInv', LastIsDecided, NEW w \in Writers, Step(w)
    PROVE  Register!Next \/ UNCHANGED <<Heard, Entries, Missed>>
  <1> DEFINE e == job[w].event
             prior == job[w].prior
  <1>1. job \in [Writers -> Job] /\ job[w] \in Job /\ events \in Seq(Event) /\ contacts \in Seq(Snapshot)
    BY DEF TypeInv, TypeOK
  <1>2. Deciding <=> job[w].pc \in {"transition", "contact"}
    BY DEF Deciding, OneWriter
  <1>3. Deciding' <=> job'[w].pc \in {"transition", "contact"}
    BY DEF Deciding, OneWriter
  <1>4. prior \in Prior
    BY <1>1 DEF Job, Prior
  <1>0. \A x : Heard' = Append(Heard, x) => Len(Heard') = Len(Heard) + 1
    <2>1. Heard \in Seq(Event)
      BY <1>1 DEF Heard
    <2> QED  BY <2>1
  <1>5. Deciding => /\ e \in Event /\ e.contact \in Contacts
                    /\ Append(Heard, e) = events
                    /\ prior = load_latest_contact_snapshot(contacts, e.contact)
    <2> SUFFICES ASSUME Deciding
                 PROVE  /\ e \in Event /\ e.contact \in Contacts
                        /\ Append(Heard, e) = events
                        /\ prior = load_latest_contact_snapshot(contacts, e.contact)
      OBVIOUS
    <2>1. e \in Event
      BY <1>2 DEF TypeInv, Planned
    <2>2. e.contact \in Contacts
      BY <2>1 DEF Event
    <2>3. Len(events) > 0 /\ events[Len(events)] = e
      BY <1>2 DEF LastIsDecided
    <2>4. Append(Heard, e) = events
      BY <1>1, <2>3, FrontAndLast DEF Heard
    <2>5. prior = load_latest_contact_snapshot(contacts, e.contact)
      BY <1>2 DEF HistoryInv, PriorIsFresh
    <2> QED  BY <2>1, <2>2, <2>4, <2>5
  <1>6. CASE \/ run_add_contact(w) \/ ingest_substack_csv(w) \/ SkipRow(w) \/ ImportRow(w)
             \/ AppendDispatch(w) \/ AppendManifest(w)
    <2>1. ~Deciding /\ ~Deciding' /\ UNCHANGED <<events, contacts, lost>>
      BY <1>6, RegisterRests
    <2> QED  BY <2>1 DEF Heard, Entries, Missed
  <1>7. CASE AppendEvent(w)
    <2>1. job'[w].pc = "transition" /\ job[w].pc = "event"
      BY <1>7, NextSteps DEF AppendEvent
    <2>2. events' = Append(events, e) /\ e \in Event /\ UNCHANGED <<contacts, lost>>
      BY <1>7 DEF AppendEvent, TypeInv, Planned
    <2>3. Heard = events /\ Heard' = SubSeq(events', 1, Len(events') - 1)
      BY <1>2, <1>3, <2>1 DEF Heard
    <2>4. Heard' = Heard
      BY <1>1, <2>2, <2>3, FrontOfAppend
    <2> QED  BY <2>2, <2>4 DEF Entries, Missed
  <1>8. CASE AppendTransition(w)
    <2>1. Deciding /\ UNCHANGED <<events, contacts, lost>>
      BY <1>2, <1>8 DEF AppendTransition
    <2>2. CASE Outcome(w).decision = "applied"
      <3>1. Deciding'
        BY <1>3, <1>8, <2>2, NextSteps DEF AppendTransition
      <3> QED  BY <2>1, <3>1 DEF Heard, Entries, Missed
    <2>3. CASE Outcome(w).decision # "applied"
      <3>1. ~Deciding'
        <4>1. job'[w].pc \in {"rows", "idle"}
          BY <1>8, <2>3, NextSteps DEF AppendTransition
        <4> QED  BY <1>3, <4>1
      <3>2. Heard' = Append(Heard, e)
        BY <1>5, <2>1, <3>1 DEF Heard
      <3>3. Register!EntryAfter(EntryOf(prior), e) = EntryOf(prior)
        BY <1>4, <1>5, <2>1, <2>3, DecisionIsEntry DEF Outcome
      <3>4. Entries[e.contact] = EntryOf(prior)
        BY <1>5, <2>1 DEF Entries
      <3>5. Entries' = [Entries EXCEPT ![e.contact] = Register!EntryAfter(@, e)]
        <4>1. Entries' = Entries
          BY <2>1 DEF Entries
        <4>2. [Entries EXCEPT ![e.contact] = Entries[e.contact]] = Entries
          BY DEF Entries
        <4> QED  BY <3>3, <3>4, <4>1, <4>2
      <3>6. Register!Obey(e)
        BY <2>1, <3>2, <3>5 DEF Register!Obey, Missed
      <3> QED  BY <1>5, <1>0, <2>1, <3>2, <3>6 DEF Register!Next
    <2> QED  BY <2>2, <2>3
  <1>9. CASE AppendContact(w)
    <2>1. Deciding /\ job[w].pc = "contact" /\ contacts' = Append(contacts, NewSnapshot(w)) /\ UNCHANGED <<events, lost>>
      BY <1>2, <1>9 DEF AppendContact
    <2>2. ~Deciding'
      BY <1>3, <1>9, NextSteps DEF AppendContact
    <2>3. Heard' = Append(Heard, e)
      BY <1>5, <2>1, <2>2 DEF Heard
    <2>4. NewSnapshot(w) \in Snapshot /\ NewSnapshot(w).contact = e.contact
      BY <2>1, NewSnapshotFacts
    <2>5. Register!EntryAfter(EntryOf(prior), e) = EntryOf(NewSnapshot(w))
      <3>1. evaluate_transition(e, prior).decision = "applied"
        BY <2>1 DEF TypeInv, Planned
      <3> QED  BY <1>4, <1>5, <2>1, <3>1, DecisionIsEntry DEF NewSnapshot
    <2>6. ASSUME NEW c \in Contacts
          PROVE  load_latest_contact_snapshot(contacts', c) =
                     IF c = e.contact THEN NewSnapshot(w) ELSE load_latest_contact_snapshot(contacts, c)
      BY <1>1, <2>1, <2>4, LatestAfterAppend
    <2>7. Entries' = [Entries EXCEPT ![e.contact] = Register!EntryAfter(@, e)]
      <3>1. Entries' = [c \in Contacts |-> EntryOf(load_latest_contact_snapshot(contacts', c))]
        BY DEF Entries
      <3>2. Entries[e.contact] = EntryOf(prior)
        BY <1>5, <2>1 DEF Entries
      <3>3. ASSUME NEW c \in Contacts
            PROVE  Entries'[c] = [Entries EXCEPT ![e.contact] = EntryOf(NewSnapshot(w))][c]
        BY <2>6, <3>1 DEF Entries
      <3> QED  BY <2>5, <3>1, <3>2, <3>3 DEF Entries
    <2>8. Register!Obey(e)
      BY <2>1, <2>3, <2>7 DEF Register!Obey, Missed
    <2> QED  BY <1>5, <1>0, <2>1, <2>3, <2>8 DEF Register!Next
  <1>10. CASE Interrupt(w)
    <2>1. UNCHANGED <<events, contacts>> /\ ~Deciding'
      BY <1>1, <1>3, <1>10 DEF Interrupt, ledgers, Idle
    <2>2. Entries' = Entries
      BY <2>1 DEF Entries
    <2>3. CASE Deciding
      <3>1. Heard' = Append(Heard, e)
        BY <1>5, <2>1, <2>3 DEF Heard
      <3>2. lost' = lost \cup {[event |-> e, missing |-> job[w].pc]} /\ job[w].pc # "dispatch"
        BY <1>2, <1>10, <2>3 DEF Interrupt
      <3>3. Missed' = Missed \cup {e}
        <4> DEFINE row == [event |-> e, missing |-> job[w].pc]
                   Gone(S) == {y \in S : y.missing # "dispatch"}
        <4>1. row.event = e /\ row.missing # "dispatch"
          BY <3>2
        <4>2. Gone(lost') = Gone(lost) \cup {row}
          BY <3>2, <4>1
        <4> HIDE DEF row, Gone
        <4>3. {x.event : x \in Gone(lost')} = {x.event : x \in Gone(lost)} \cup {e}
          BY <4>1, <4>2
        <4> QED  BY <4>3 DEF Missed, Gone
      <3>4. Register!Miss(e)
        BY <2>2, <3>1, <3>3 DEF Register!Miss
      <3> QED  BY <1>5, <1>0, <2>3, <3>1, <3>4 DEF Register!Next
    <2>4. CASE ~Deciding
      <3>1. Heard' = Heard
        BY <2>1, <2>4 DEF Heard
      <3>2. lost' = lost \/ lost' = lost \cup {[event |-> e, missing |-> "dispatch"]}
        BY <1>2, <1>10, <2>4 DEF Interrupt
      <3>3. Missed' = Missed
        BY <3>2 DEF Missed
      <3> QED  BY <2>2, <3>1, <3>3
    <2> QED  BY <2>3, <2>4
  <1> QED  BY <1>6, <1>7, <1>8, <1>9, <1>10 DEF Step

(* Readers of the ledgers see a contact register: with one process at a time*)
(* an event changes its contact in one step and in the order of the file,   *)
(* or is one of those an interruption left without effect (cli.py:124,      *)
(* substack_csv.py:236).                                                    *)
THEOREM WritersImplementRegister ==
    ASSUME OneWriter
    PROVE  Spec => ImplementsRegister
  <1>1. Init => Register!Init
    <2> SUFFICES ASSUME Init PROVE Register!Init
      OBVIOUS
    <2>1. \A c \in Contacts : EntryOf(load_latest_contact_snapshot(contacts, c)) = Register!Blank
      BY DEF Init, load_latest_contact_snapshot, EntryOf, NoSnapshot, Register!Blank
    <2>2. Heard = <<>>
      BY DEF Init, Idle, Heard, Deciding
    <2>3. Missed = {}
      BY DEF Init, Missed
    <2> QED  BY <2>1, <2>2, <2>3 DEF Entries, Register!Init
  <1>2. TypeInv /\ HistoryInv /\ HistoryInv' /\ LastIsDecided /\ [Next]_vars
            => [Register!Next]_<<Heard, Entries, Missed>>
    <2>1. ASSUME UNCHANGED vars PROVE UNCHANGED <<Heard, Entries, Missed>>
      BY <2>1 DEF vars, Heard, Deciding, Entries, Missed
    <2> QED  BY <2>1, RegisterStep DEF Next
  <1> QED
    BY <1>1, <1>2, TypeInvariant, HistoryInvariant, LastIsDecidedAlways, PTL
       DEF Spec, ImplementsRegister, Register!Spec
=============================================================================
