----------------------------- MODULE OutboundProofs -----------------------------
(***************************************************************************)
(* Proofs about RetentionOutbound: with one writer beside the outbound     *)
(* commands, what is queued and authorized respects every withdrawal that  *)
(* was on file when the projection started.                                *)
(***************************************************************************)
EXTENDS RetentionOutbound, RetentionLedgerProofs

File == [exists : BOOLEAN, clean : BOOLEAN, lines : SUBSET Nat, as_of : [events : Nat, dispatches : Nat]]

(* Beside the outbound commands the ledgers change as they do without them, *)
(* so what is proved of the writers holds here.                             *)
THEOREM WritersAreUndisturbed == OutboundSpec => Spec
  <1>1. OutboundInit => Init
    BY DEF OutboundInit
  <1>2. [OutboundNext]_allVars => [Next]_vars
    BY DEF OutboundNext, OutboundStep, allVars, StartProjection, ReadNextLedger, project_send_queue,
           preview_send_queue, authorize_send_preview
  <1> QED  BY <1>1, <1>2, PTL DEF OutboundSpec, Spec

(* The ledgers only grow.                                                   *)
LEMMA LedgersGrow ==
    ASSUME TypeInv, [Next]_vars
    PROVE  /\ Len(events) <= Len(events') /\ \A k \in 1..Len(events) : events'[k] = events[k]
           /\ Len(transitions) <= Len(transitions') /\ \A k \in 1..Len(transitions) : transitions'[k] = transitions[k]
           /\ Len(contacts) <= Len(contacts') /\ \A k \in 1..Len(contacts) : contacts'[k] = contacts[k]
           /\ Len(dispatches) <= Len(dispatches') /\ \A k \in 1..Len(dispatches) : dispatches'[k] = dispatches[k]
           /\ Len(events) \in Nat /\ Len(transitions) \in Nat /\ Len(contacts) \in Nat /\ Len(dispatches) \in Nat
  <1>1. events \in Seq(Event) /\ transitions \in Seq(Transition) /\ contacts \in Seq(Snapshot) /\ dispatches \in Seq(Dispatch)
    BY DEF TypeInv, TypeOK
  <1>2. TypeInv'
    BY StepType DEF vars, TypeInv, TypeOK, Planned
  <1>3. events' \in Seq(Event) /\ transitions' \in Seq(Transition) /\ contacts' \in Seq(Snapshot) /\ dispatches' \in Seq(Dispatch)
    BY <1>2 DEF TypeInv, TypeOK
  <1>4. /\ events' = events \/ \E x : events' = Append(events, x)
        /\ transitions' = transitions \/ \E x : transitions' = Append(transitions, x)
        /\ contacts' = contacts \/ \E x : contacts' = Append(contacts, x)
        /\ dispatches' = dispatches \/ \E x : dispatches' = Append(dispatches, x)
    BY DEF vars, Next, Step, run_add_contact, ingest_substack_csv, SkipRow, ImportRow, AppendEvent, AppendContact,
           AppendTransition, AppendDispatch, AppendManifest, Interrupt, ledgers
  <1>5. ASSUME NEW S, NEW s \in Seq(S), NEW t \in Seq(S), t = s \/ \E x : t = Append(s, x)
        PROVE  Len(s) <= Len(t) /\ Len(s) \in Nat /\ \A k \in 1..Len(s) : t[k] = s[k]
    BY <1>5
  <1> QED  BY <1>1, <1>3, <1>4, <1>5

(* A prefix of a ledger, element by element.                                 *)
LEMMA PrefixFacts ==
    ASSUME NEW S, NEW s \in Seq(S), NEW n \in Nat, n <= Len(s)
    PROVE  Prefix(s, n) \in Seq(S) /\ DOMAIN Prefix(s, n) = 1..n /\ \A k \in 1..n : Prefix(s, n)[k] = s[k]
  BY DEF Prefix

----------------------------------------------------------------------------
(* What the running projection knows.  When it reads the contacts again,    *)
(* for the gate, every decision it has read has had its effect.             *)
SettledBy(t, n) ==
    t.event.kind \in SUPPRESSION_EVENT_TYPES =>
        /\ t.to = "suppressed" /\ t.decision \in {"applied", "noop"}
        /\ t.decision = "noop" => \E k \in 1..n : contacts[k].contact = t.event.contact /\ contacts[k].state = "suppressed"

ReadsTyped == reads \in Seq(Nat) /\ Len(reads) \in 0..8 /\ began \in [events : Nat, dispatches : Nat]

ReadsBounded ==
    /\ began.events <= Len(events) /\ began.dispatches <= Len(dispatches)
    /\ Len(reads) >= 1 => reads[1] <= Len(contacts)
    /\ Len(reads) >= 2 => reads[2] <= Len(events) /\ began.events <= reads[2]
    /\ Len(reads) >= 3 => reads[3] <= Len(transitions)
    /\ Len(reads) >= 4 => reads[4] <= Len(dispatches)
    /\ Len(reads) >= 5 => reads[1] <= reads[5] /\ reads[5] <= Len(contacts)
    /\ Len(reads) >= 6 => reads[6] <= Len(dispatches) /\ began.dispatches <= reads[6]

ReadsSettled == Len(reads) >= 5 => \A k \in 1..reads[3] : SettledBy(transitions[k], reads[5])

ReadsInv == ReadsTyped /\ ReadsBounded /\ ReadsSettled

(* A read is a length.                                                       *)
LEMMA ReadsAreNumbers == ASSUME ReadsTyped, NEW k \in 1..8, k <= Len(reads) PROVE reads[k] \in Nat
  BY DEF ReadsTyped

Respectful(file) ==
    /\ file \in File
    /\ file.as_of.events <= Len(events) /\ file.as_of.dispatches <= Len(dispatches)
    /\ \A line \in file.lines : /\ line \in 1..Len(dispatches)
                                /\ ~Withdrawn(dispatches[line].contact, file.as_of.events)

OutboundInv ==
    /\ ReadsInv
    /\ Respectful(queue) /\ Respectful(preview) /\ Respectful(authorization)
    /\ QueueIsWholeOrHeld

(* A file that was never written.                                            *)
LEMMA MissingFacts == Missing \in File /\ Missing.lines = {} /\ Missing.as_of = [events |-> 0, dispatches |-> 0] /\ ~Missing.clean
  BY DEF Missing, File

LEMMA OutboundInitInv == OutboundInit => OutboundInv
  <1> SUFFICES ASSUME OutboundInit PROVE OutboundInv
    OBVIOUS
  <1>1. events = <<>> /\ dispatches = <<>> /\ reads = <<>> /\ began = Missing.as_of
        /\ queue = Missing /\ preview = Missing /\ authorization = Missing
    BY DEF OutboundInit, Init
  <1>2. Len(events) = 0 /\ Len(dispatches) = 0 /\ Len(reads) = 0 /\ reads \in Seq(Nat)
    BY <1>1
  <1>3. ReadsInv
    BY <1>1, <1>2, MissingFacts DEF ReadsInv, ReadsTyped, ReadsBounded, ReadsSettled
  <1>4. Respectful(queue) /\ Respectful(preview) /\ Respectful(authorization)
    BY <1>1, <1>2, MissingFacts DEF Respectful
  <1>5. QueueIsWholeOrHeld
    BY <1>1, MissingFacts DEF QueueIsWholeOrHeld
  <1> QED  BY <1>3, <1>4, <1>5 DEF OutboundInv

(* A step of the writers leaves all of it true.                             *)
LEMMA WritersKeep ==
    ASSUME TypeInv, OutboundInv, [Next]_vars, UNCHANGED outbound
    PROVE  OutboundInv'
  <1>1. UNCHANGED <<reads, began, queue, preview, authorization>>
    BY DEF outbound
  <1>2. ASSUME NEW c, NEW n \in Nat, n <= Len(events) PROVE Withdrawn(c, n)' <=> Withdrawn(c, n)
    <2>1. \A i \in 1..n : events'[i] = events[i]
      BY <1>2, LedgersGrow, SMTT(30)
    <2> QED  BY <2>1 DEF Withdrawn
  <1>3. ASSUME NEW file, Respectful(file) PROVE Respectful(file)'
    <2>1. file.as_of.events \in Nat /\ file.as_of.dispatches \in Nat
      BY <1>3 DEF Respectful, File
    <2>2. file.as_of.events <= Len(events') /\ file.as_of.dispatches <= Len(dispatches')
      BY <1>3, <2>1, LedgersGrow DEF Respectful
    <2>3. ASSUME NEW line \in file.lines
          PROVE  line \in 1..Len(dispatches') /\ ~Withdrawn(dispatches[line].contact, file.as_of.events)'
      <3>1. line \in 1..Len(dispatches) /\ ~Withdrawn(dispatches[line].contact, file.as_of.events)
        BY <1>3 DEF Respectful
      <3>2. line \in 1..Len(dispatches') /\ dispatches'[line] = dispatches[line]
        BY <3>1, LedgersGrow
      <3>3. PICK c : c = dispatches[line].contact
        OBVIOUS
      <3>4. ~Withdrawn(c, file.as_of.events)'
        BY <1>2, <1>3, <2>1, <3>1, <3>3 DEF Respectful
      <3> QED  BY <3>2, <3>3, <3>4 DEF Withdrawn
    <2> QED  BY <1>3, <2>2, <2>3 DEF Respectful
  <1>4. Respectful(queue)' /\ Respectful(preview)' /\ Respectful(authorization)'
    <2>1. PICK q, p, a : q = queue /\ p = preview /\ a = authorization
      OBVIOUS
    <2>2. Respectful(q)' /\ Respectful(p)' /\ Respectful(a)'
      BY <1>3, <2>1 DEF OutboundInv
    <2> QED  BY <1>1, <2>1, <2>2 DEF Respectful
  <1>5. QueueIsWholeOrHeld'
    <2>1. /\ queue.as_of.events \in Nat /\ queue.as_of.dispatches \in Nat
          /\ queue.as_of.events <= Len(events) /\ queue.as_of.dispatches <= Len(dispatches)
      BY DEF OutboundInv, Respectful, File
    <2>2. \A line \in 1..queue.as_of.dispatches : dispatches'[line] = dispatches[line]
      BY <2>1, LedgersGrow
    <2> QED  BY <1>1, <1>2, <2>1, <2>2 DEF OutboundInv, QueueIsWholeOrHeld
  <1>6. ReadsInv'
    <2>1. ReadsInv
      BY DEF OutboundInv
    <2>2. ReadsTyped' /\ Len(reads) \in 0..8
      BY <1>1, <2>1 DEF ReadsInv, ReadsTyped
    <2>3. ReadsSettled'
      <3> SUFFICES ASSUME Len(reads) >= 5 PROVE \A k \in 1..reads[3] : SettledBy(transitions[k], reads[5])'
        BY <1>1 DEF ReadsSettled
      <3>1. reads[3] \in Nat /\ reads[5] \in Nat
        BY <2>1, <2>2, ReadsAreNumbers DEF ReadsInv
      <3>2. reads[3] <= Len(transitions) /\ reads[5] <= Len(contacts)
        BY <2>1, <2>2 DEF ReadsInv, ReadsBounded
      <3>3. \A k \in 1..reads[3] : transitions'[k] = transitions[k]
        BY <3>1, <3>2, LedgersGrow
      <3>4. \A k \in 1..reads[5] : contacts'[k] = contacts[k]
        BY <3>1, <3>2, LedgersGrow
      <3>5. \A k \in 1..reads[3] : SettledBy(transitions[k], reads[5])
        BY <2>1 DEF ReadsInv, ReadsSettled
      <3> QED  BY <1>1, <3>3, <3>4, <3>5 DEF SettledBy
    <2>4. Len(events') \in Nat /\ Len(transitions') \in Nat /\ Len(contacts') \in Nat /\ Len(dispatches') \in Nat
      <3>1. TypeInv'
        BY StepType DEF vars, TypeInv, TypeOK, Planned
      <3> QED  BY <3>1 DEF TypeInv, TypeOK
    <2>5. \A k \in 1..8 : k <= Len(reads) => reads[k] \in Nat
      BY <2>1, ReadsAreNumbers DEF ReadsInv
    <2>6. began.events \in Nat /\ began.dispatches \in Nat
      BY <2>1 DEF ReadsInv, ReadsTyped
    <2>7. ReadsBounded'
      <3>1. /\ Len(events) <= Len(events') /\ Len(transitions) <= Len(transitions')
            /\ Len(contacts) <= Len(contacts') /\ Len(dispatches) <= Len(dispatches')
            /\ Len(events) \in Nat /\ Len(transitions) \in Nat /\ Len(contacts) \in Nat /\ Len(dispatches) \in Nat
        BY LedgersGrow
      <3>2. began.events <= Len(events') /\ began.dispatches <= Len(dispatches')
        BY <2>1, <2>4, <2>6, <3>1, SMTT(30) DEF ReadsInv, ReadsBounded
      <3>3. Len(reads) >= 1 => reads[1] <= Len(contacts')
        BY <2>1, <2>2, <2>4, <2>5, <3>1, SMTT(30) DEF ReadsInv, ReadsBounded
      <3>4. Len(reads) >= 2 => reads[2] <= Len(events') /\ began.events <= reads[2]
        BY <2>1, <2>2, <2>4, <2>5, <3>1, SMTT(30) DEF ReadsInv, ReadsBounded
      <3>5. Len(reads) >= 3 => reads[3] <= Len(transitions')
        BY <2>1, <2>2, <2>4, <2>5, <3>1, SMTT(30) DEF ReadsInv, ReadsBounded
      <3>6. Len(reads) >= 4 => reads[4] <= Len(dispatches')
        BY <2>1, <2>2, <2>4, <2>5, <3>1 DEF ReadsInv, ReadsBounded
      <3>7. Len(reads) >= 5 => reads[1] <= reads[5] /\ reads[5] <= Len(contacts')
        BY <2>1, <2>2, <2>4, <2>5, <3>1 DEF ReadsInv, ReadsBounded
      <3>8. Len(reads) >= 6 => reads[6] <= Len(dispatches') /\ began.dispatches <= reads[6]
        BY <2>1, <2>2, <2>4, <2>5, <3>1 DEF ReadsInv, ReadsBounded
      <3> QED  BY <1>1, <3>2, <3>3, <3>4, <3>5, <3>6, <3>7, <3>8 DEF ReadsBounded
    <2> QED  BY <2>2, <2>3, <2>7 DEF ReadsInv
  <1> QED  BY <1>4, <1>5, <1>6 DEF OutboundInv

(* Starting a projection, and reading the next ledger.                      *)
LEMMA ProjectionKeeps ==
    ASSUME TypeInv, SuppressionInv, OutboundInv, StartProjection \/ ReadNextLedger
    PROVE  OutboundInv'
  <1>1. UNCHANGED <<events, transitions, contacts, dispatches, queue, preview, authorization>>
    BY DEF StartProjection, ReadNextLedger, vars
  <1>2. /\ events \in Seq(Event) /\ transitions \in Seq(Transition) /\ contacts \in Seq(Snapshot) /\ dispatches \in Seq(Dispatch)
        /\ Len(events) \in Nat /\ Len(transitions) \in Nat /\ Len(contacts) \in Nat /\ Len(dispatches) \in Nat
    BY DEF TypeInv, TypeOK
  <1>3. ReadsTyped /\ ReadsBounded /\ ReadsSettled
    BY DEF OutboundInv, ReadsInv
  <1>4. Respectful(queue)' /\ Respectful(preview)' /\ Respectful(authorization)' /\ QueueIsWholeOrHeld'
    BY <1>1 DEF OutboundInv, Respectful, Withdrawn, QueueIsWholeOrHeld
  <1>5. CASE StartProjection
    <2>1. reads' = <<Len(contacts)>> /\ began' = [events |-> Len(events), dispatches |-> Len(dispatches)]
      BY <1>5 DEF StartProjection, LedgerLengths
    <2>2. reads' \in Seq(Nat) /\ Len(reads') = 1 /\ reads'[1] = Len(contacts)
      BY <1>2, <2>1
    <2>3. ReadsInv'
      BY <1>1, <1>2, <2>1, <2>2 DEF ReadsInv, ReadsTyped, ReadsBounded, ReadsSettled
    <2> QED  BY <1>4, <2>3 DEF OutboundInv
  <1>6. CASE ReadNextLedger
    <2>n. PICK n : n = Len(reads) /\ n \in 1..7
      BY <1>6 DEF ReadNextLedger
    <2>bounds. n \in 1..7 => n \in Nat /\ 1 <= n /\ n <= 7 /\ n + 1 \in 1..8
      OBVIOUS
    <2>1. n = Len(reads) /\ n \in Nat /\ 1 <= n /\ n <= 7 /\ n + 1 \in 1..8
      BY <2>n, <2>bounds
    <2>2. reads' = Append(reads, LedgerLengths[n + 1]) /\ began' = began
      BY <1>6, <2>1 DEF ReadNextLedger
    <2>3. /\ LedgerLengths[1] = Len(contacts) /\ LedgerLengths[2] = Len(events) /\ LedgerLengths[3] = Len(transitions)
          /\ LedgerLengths[4] = Len(dispatches) /\ LedgerLengths[5] = Len(contacts) /\ LedgerLengths[6] = Len(dispatches)
          /\ \A k \in 1..8 : LedgerLengths[k] \in Nat
      BY <1>2 DEF LedgerLengths
    <2>4. /\ reads' \in Seq(Nat) /\ Len(reads') = n + 1 /\ reads'[n + 1] = LedgerLengths[n + 1]
          /\ \A k \in 1..n : reads'[k] = reads[k]
      <3>1. reads \in Seq(Nat)
        BY <1>3 DEF ReadsTyped
      <3>2. PICK len : len = LedgerLengths[n + 1]
        OBVIOUS
      <3>3. len \in Nat
        <4>1. \A k \in 1..8 : LedgerLengths[k] \in Nat
          BY <2>3
        <4> QED  BY <2>1, <3>2, <4>1
      <3> QED  BY <2>1, <2>2, <3>1, <3>2, <3>3
    <2>5. ReadsTyped'
      BY <1>3, <2>1, <2>2, <2>4 DEF ReadsTyped
    <2>6. \A k \in 1..n : reads[k] \in Nat
      <3>1. \A k \in 1..n : k \in 1..8 /\ k <= Len(reads)
        BY <2>1
      <3> QED  BY <1>3, <3>1, ReadsAreNumbers
    <2>7. began.events \in Nat /\ began.dispatches \in Nat
      BY <1>3 DEF ReadsTyped
    <2>8. ReadsBounded'
      <3>1. /\ 1 <= n => reads'[1] = reads[1] /\ reads[1] \in Nat
            /\ 2 <= n => reads'[2] = reads[2] /\ reads[2] \in Nat
            /\ 3 <= n => reads'[3] = reads[3] /\ reads[3] \in Nat
            /\ 4 <= n => reads'[4] = reads[4] /\ reads[4] \in Nat
            /\ 5 <= n => reads'[5] = reads[5] /\ reads[5] \in Nat
            /\ 6 <= n => reads'[6] = reads[6] /\ reads[6] \in Nat
        BY <2>1, <2>4, <2>6
      <3>2. /\ n = 1 => reads'[2] = Len(events)
            /\ n = 2 => reads'[3] = Len(transitions)
            /\ n = 3 => reads'[4] = Len(dispatches)
            /\ n = 4 => reads'[5] = Len(contacts)
            /\ n = 5 => reads'[6] = Len(dispatches)
        <4>1. reads'[n + 1] = LedgerLengths[n + 1]
          BY <2>4
        <4>2. /\ n = 1 => n + 1 = 2
              /\ n = 2 => n + 1 = 3
              /\ n = 3 => n + 1 = 4
              /\ n = 4 => n + 1 = 5
              /\ n = 5 => n + 1 = 6
          OBVIOUS
        <4> QED  BY <2>3, <4>1, <4>2, Zenon
      <3>3. began.events <= Len(events) /\ began.dispatches <= Len(dispatches)
        BY <1>3 DEF ReadsBounded
      <3>4. Len(reads') = n + 1
        BY <2>4
      <3>5. Len(reads') >= 1 => reads'[1] <= Len(contacts)
        BY <1>3, <2>1, <3>1 DEF ReadsBounded
      <3>6. Len(reads') >= 2 => reads'[2] <= Len(events) /\ began.events <= reads'[2]
        <4>1. CASE n = 1
          BY <1>2, <2>7, <3>2, <3>3, <4>1
        <4>2. CASE n >= 2
          BY <1>3, <2>1, <3>1, <4>2 DEF ReadsBounded
        <4> QED  BY <2>1, <4>1, <4>2
      <3>7. Len(reads') >= 3 => reads'[3] <= Len(transitions)
        <4>1. CASE n = 2
          BY <1>2, <3>2, <4>1
        <4>2. CASE n >= 3
          BY <1>3, <2>1, <3>1, <4>2 DEF ReadsBounded
        <4>3. CASE n < 2
          BY <2>1, <3>4, <4>3
        <4> QED  BY <2>1, <4>1, <4>2, <4>3
      <3>8. Len(reads') >= 4 => reads'[4] <= Len(dispatches)
        <4>1. CASE n = 3
          BY <1>2, <3>2, <4>1
        <4>2. CASE n >= 4
          BY <1>3, <2>1, <3>1, <4>2 DEF ReadsBounded
        <4>3. CASE n < 3
          BY <2>1, <3>4, <4>3
        <4> QED  BY <2>1, <4>1, <4>2, <4>3
      <3>9. Len(reads') >= 5 => reads'[1] <= reads'[5] /\ reads'[5] <= Len(contacts)
        <4>1. CASE n = 4
          BY <1>2, <1>3, <2>1, <3>1, <3>2, <4>1 DEF ReadsBounded
        <4>2. CASE n >= 5
          BY <1>3, <2>1, <3>1, <4>2 DEF ReadsBounded
        <4>3. CASE n < 4
          BY <2>1, <3>4, <4>3
        <4> QED  BY <2>1, <4>1, <4>2, <4>3
      <3>10. Len(reads') >= 6 => reads'[6] <= Len(dispatches) /\ began.dispatches <= reads'[6]
        <4>1. CASE n = 5
          BY <1>2, <2>7, <3>2, <3>3, <4>1
        <4>2. CASE n >= 6
          BY <1>3, <2>1, <3>1, <4>2 DEF ReadsBounded
        <4>3. CASE n < 5
          BY <2>1, <3>4, <4>3
        <4> QED  BY <2>1, <4>1, <4>2, <4>3
      <3> QED  BY <1>1, <2>2, <3>3, <3>5, <3>6, <3>7, <3>8, <3>9, <3>10 DEF ReadsBounded
    <2>9. ReadsSettled'
      <3>1. CASE n <= 3
        BY <2>1, <2>4, <3>1 DEF ReadsSettled
      <3>2. CASE n = 4
        <4>1. reads'[5] = Len(contacts) /\ reads'[3] = reads[3] /\ reads[3] \in Nat /\ reads[3] <= Len(transitions)
          BY <1>3, <2>1, <2>3, <2>4, <2>6, <3>2, SMTT(30) DEF ReadsBounded
        <4>2. \A k \in 1..reads[3] : Decided(transitions[k], contacts)
          BY <1>2, <4>1 DEF SuppressionInv
        <4>3. DOMAIN contacts = 1..Len(contacts)
          BY <1>2
        <4>4. \A k \in 1..reads[3] : SettledBy(transitions[k], Len(contacts))
          BY <4>2, <4>3 DEF Decided, SettledBy
        <4> QED  BY <1>1, <4>1, <4>4 DEF ReadsSettled, SettledBy
      <3>3. CASE n >= 5
        <4>1. reads'[5] = reads[5] /\ reads'[3] = reads[3]
          BY <2>1, <2>4, <3>3
        <4> QED  BY <1>1, <1>3, <2>1, <3>3, <4>1 DEF ReadsSettled, SettledBy
      <3> QED  BY <2>1, <3>1, <3>2, <3>3
    <2> QED  BY <1>4, <2>5, <2>8, <2>9 DEF OutboundInv, ReadsInv
  <1> QED  BY <1>5, <1>6

(* What the gate finds eligible has not been withdrawn before the events    *)
(* were read.                                                               *)
LEMMA EligibleIsNotWithdrawn ==
    ASSUME TypeInv, HistoryInv, SuppressionInv, OutboundInv, Len(reads) = 8, Reconciled, NEW line \in EligibleLines
    PROVE  line \in 1..Len(dispatches) /\ ~Withdrawn(dispatches[line].contact, reads[2])
  <1>1. /\ events \in Seq(Event) /\ transitions \in Seq(Transition) /\ contacts \in Seq(Snapshot) /\ dispatches \in Seq(Dispatch)
        /\ Len(events) \in Nat /\ Len(transitions) \in Nat /\ Len(contacts) \in Nat /\ Len(dispatches) \in Nat
    BY DEF TypeInv, TypeOK
  <1>2. ReadsTyped /\ ReadsBounded /\ ReadsSettled
    BY DEF OutboundInv, ReadsInv
  <1>3. PICK r1 \in Nat, r2 \in Nat, r3 \in Nat, r5 \in Nat, r6 \in Nat :
            r1 = reads[1] /\ r2 = reads[2] /\ r3 = reads[3] /\ r5 = reads[5] /\ r6 = reads[6]
    <2>1. \A k \in 1..8 : reads[k] \in Nat
      BY <1>2, ReadsAreNumbers
    <2>2. reads[1] \in Nat /\ reads[2] \in Nat /\ reads[3] \in Nat /\ reads[5] \in Nat /\ reads[6] \in Nat
      BY <2>1
    <2> QED  BY <2>2, Zenon
  <1>4. r1 <= r5 /\ r5 <= Len(contacts) /\ r2 <= Len(events) /\ r3 <= Len(transitions) /\ r6 <= Len(dispatches)
    BY <1>2, <1>3 DEF ReadsBounded
  <1>5. PICK evs, trs, snaps, later : evs = Prefix(events, r2) /\ trs = Prefix(transitions, r3)
                                      /\ snaps = Prefix(contacts, r1) /\ later = Prefix(contacts, r5)
    OBVIOUS
  <1>6. r1 <= Len(contacts)
    BY <1>1, <1>4
  <1>7. /\ evs \in Seq(Event) /\ DOMAIN evs = 1..r2 /\ \A k \in 1..r2 : evs[k] = events[k]
        /\ trs \in Seq(Transition) /\ DOMAIN trs = 1..r3 /\ \A k \in 1..r3 : trs[k] = transitions[k]
        /\ snaps \in Seq(Snapshot) /\ DOMAIN snaps = 1..r1 /\ \A k \in 1..r1 : snaps[k] = contacts[k]
        /\ later \in Seq(Snapshot) /\ DOMAIN later = 1..r5 /\ \A k \in 1..r5 : later[k] = contacts[k]
    <2>1. evs \in Seq(Event) /\ DOMAIN evs = 1..r2 /\ \A k \in 1..r2 : evs[k] = events[k]
      BY <1>1, <1>4, <1>5, PrefixFacts
    <2>2. trs \in Seq(Transition) /\ DOMAIN trs = 1..r3 /\ \A k \in 1..r3 : trs[k] = transitions[k]
      BY <1>1, <1>4, <1>5, PrefixFacts
    <2>3. snaps \in Seq(Snapshot) /\ DOMAIN snaps = 1..r1 /\ \A k \in 1..r1 : snaps[k] = contacts[k]
      BY <1>1, <1>5, <1>6, PrefixFacts
    <2>4. later \in Seq(Snapshot) /\ DOMAIN later = 1..r5 /\ \A k \in 1..r5 : later[k] = contacts[k]
      BY <1>1, <1>4, <1>5, PrefixFacts
    <2> QED  BY <2>1, <2>2, <2>3, <2>4
  <1>8. ~event_transition_gap(evs, trs) /\ ~transition_snapshot_gap(trs, snaps)
    BY <1>3, <1>5 DEF Reconciled, reconcile_state
  <1>9. \A k \in DOMAIN trs : Decided(trs[k], later)
    <2> SUFFICES ASSUME NEW k \in 1..r3 PROVE Decided(trs[k], later)
      BY <1>7
    <2>1. trs[k] = transitions[k]
      BY <1>7
    <2>2. SettledBy(transitions[k], r5)
      BY <1>2, <1>3 DEF ReadsSettled
    <2> QED  BY <1>7, <2>1, <2>2 DEF SettledBy, Decided
  <1>10. \A k \in DOMAIN snaps : k \in DOMAIN later /\ later[k] = snaps[k]
    BY <1>4, <1>7, SMTT(30)
  <1>11. /\ \A k \in DOMAIN later : later[k].last.contact = later[k].contact
         /\ \A m, n \in DOMAIN later : (m < n /\ later[m].contact = later[n].contact) =>
               later[m].version < later[n].version /\ later[m].state # "suppressed"
    <2>1. DOMAIN contacts = 1..Len(contacts) /\ 1..r5 \subseteq 1..Len(contacts)
      BY <1>1, <1>4
    <2> QED  BY <1>7, <2>1 DEF SuppressionInv, HistoryInv, VersionsGrow, StickySuppression
  <1>12. line \in 1..r6 /\ DispatchEligible(later, dispatches[line])
    BY <1>3, <1>5 DEF EligibleLines
  <1>13. ~Withdrawn(dispatches[line].contact, r2)
    <2> SUFFICES ASSUME NEW i \in 1..r2, events[i].contact = dispatches[line].contact, events[i].kind \in SUPPRESSION_EVENT_TYPES
                 PROVE  FALSE
      BY DEF Withdrawn
    <2>1. i \in DOMAIN evs /\ evs[i] = events[i]
      BY <1>7
    <2>2. PICK k \in DOMAIN later : later[k].contact = evs[i].contact /\ later[k].state = "suppressed"
      <3>1. evs[i].kind \in SUPPRESSION_EVENT_TYPES /\ \A m \in DOMAIN later : later[m].last.contact = later[m].contact
        BY <1>11, <2>1
      <3>2. evs \in Seq(Event) /\ trs \in Seq(Transition) /\ snaps \in Seq(Snapshot) /\ later \in Seq(Snapshot)
        BY <1>7
      <3> QED  BY <1>8, <1>9, <1>10, <2>1, <3>1, <3>2, WithdrawnIsSuppressed, ZenonT(30)
    <2>3. PICK d : d = dispatches[line]
      OBVIOUS
    <2>4. later[k].contact = d.contact
      BY <2>1, <2>2, <2>3
    <2>5. ~DispatchEligible(later, d)
      BY <1>7, <1>11, <2>2, <2>4, SuppressedIsLatest
    <2> QED  BY <1>12, <2>3, <2>5
  <1> QED  BY <1>3, <1>4, <1>1, <1>12, <1>13

LEMMA QueueKeeps ==
    ASSUME TypeInv, HistoryInv, SuppressionInv, OutboundInv, project_send_queue
    PROVE  OutboundInv'
  <1>1. UNCHANGED <<events, transitions, contacts, dispatches, preview, authorization>> /\ reads' = <<>> /\ began' = Missing.as_of
        /\ Len(reads) = 8
    BY DEF project_send_queue, vars
  <1>2. Len(events) \in Nat /\ Len(dispatches) \in Nat
    BY DEF TypeInv, TypeOK
  <1>3. ReadsInv'
    BY <1>1, <1>2, MissingFacts DEF ReadsInv, ReadsTyped, ReadsBounded, ReadsSettled
  <1>4. Respectful(preview)' /\ Respectful(authorization)'
    BY <1>1 DEF OutboundInv, Respectful, Withdrawn
  <1>5. ReadsTyped /\ ReadsBounded
    BY DEF OutboundInv, ReadsInv
  <1>6. /\ began \in [events : Nat, dispatches : Nat] /\ reads[2] \in Nat /\ reads[6] \in Nat
        /\ began.events <= Len(events) /\ began.dispatches <= Len(dispatches)
        /\ began.events <= reads[2] /\ began.dispatches <= reads[6]
    BY <1>1, <1>5, ReadsAreNumbers DEF ReadsTyped, ReadsBounded
  <1>7. PICK ready \in BOOLEAN : ready = evaluate_dispatch_ready
    BY DEF evaluate_dispatch_ready, Reconciled, reconcile_state
  <1>lines. PICK lines : lines = Projected
    OBVIOUS
  <1>8. PICK clean \in BOOLEAN : clean = (ready /\ lines = EligibleLines)
    OBVIOUS
  <1>9. queue' = [exists |-> TRUE, clean |-> clean, lines |-> IF ready THEN lines ELSE {}, as_of |-> began]
    BY <1>7, <1>lines, <1>8 DEF project_send_queue
  <1>10. lines \subseteq EligibleLines /\ EligibleLines \subseteq Nat
    BY <1>lines DEF Projected, EligibleLines
  <1>11. queue' \in File /\ queue'.as_of = began /\ queue'.clean = clean /\ queue'.lines = (IF ready THEN lines ELSE {})
    BY <1>6, <1>9, <1>10 DEF File
  <1>12. ASSUME ready, NEW line \in EligibleLines
         PROVE  line \in 1..Len(dispatches) /\ ~Withdrawn(dispatches[line].contact, began.events)
    <2>1. line \in 1..Len(dispatches) /\ ~Withdrawn(dispatches[line].contact, reads[2])
      BY <1>1, <1>7, <1>12, EligibleIsNotWithdrawn DEF evaluate_dispatch_ready
    <2>2. 1..began.events \subseteq 1..reads[2]
      BY <1>6
    <2> QED  BY <2>1, <2>2 DEF Withdrawn
  <1>13. Respectful(queue)'
    BY <1>1, <1>6, <1>10, <1>11, <1>12 DEF Respectful, Withdrawn
  <1>14. ready => 1..began.dispatches \subseteq EligibleLines
    <2>1. ready => EligibleLines = 1..reads[6]
      BY <1>7 DEF evaluate_dispatch_ready
    <2> QED  BY <1>6, <2>1
  <1>15. QueueIsWholeOrHeld'
    BY <1>1, <1>8, <1>11, <1>12, <1>14 DEF QueueIsWholeOrHeld, Withdrawn
  <1> QED  BY <1>3, <1>4, <1>13, <1>15 DEF OutboundInv

(* Preview and authorization are derived from a file that respects the       *)
(* withdrawals.                                                              *)
LEMMA FilesKeep ==
    ASSUME TypeInv, OutboundInv, preview_send_queue \/ \E approve, operator \in BOOLEAN : authorize_send_preview(approve, operator)
    PROVE  OutboundInv'
  <1>1. UNCHANGED <<events, transitions, contacts, dispatches, queue, reads, began>>
    BY DEF preview_send_queue, authorize_send_preview, vars
  <1>2. ReadsInv' /\ QueueIsWholeOrHeld' /\ Respectful(queue)'
    BY <1>1 DEF OutboundInv, ReadsInv, ReadsTyped, ReadsBounded, ReadsSettled, SettledBy, QueueIsWholeOrHeld, Respectful, Withdrawn
  <1>3. ASSUME NEW old, NEW new \in File, Respectful(old), new.as_of = old.as_of, new.lines \subseteq old.lines
        PROVE  Respectful(new)'
    BY <1>1, <1>3 DEF Respectful, Withdrawn
  <1>4. CASE preview_send_queue
    <2>1. PICK new : new = [queue EXCEPT !.exists = TRUE, !.clean = validate_queue_projection]
      OBVIOUS
    <2>2. new \in File /\ new.as_of = queue.as_of /\ new.lines = queue.lines
      BY <2>1 DEF OutboundInv, Respectful, File, validate_queue_projection
    <2>3. preview' = new /\ authorization' = authorization
      BY <1>4, <2>1 DEF preview_send_queue
    <2>4. Respectful(new)'
      BY <1>3, <2>2 DEF OutboundInv
    <2>5. Respectful(authorization)'
      BY <1>1, <2>3 DEF OutboundInv, Respectful, Withdrawn
    <2> QED  BY <1>2, <2>3, <2>4, <2>5 DEF OutboundInv, Respectful
  <1>5. ASSUME NEW approve \in BOOLEAN, NEW operator \in BOOLEAN, authorize_send_preview(approve, operator)
        PROVE  OutboundInv'
    <2>1. PICK clean \in BOOLEAN : clean = (validate_preview_payload /\ operator)
      OBVIOUS
    <2>2. PICK new : new = [preview EXCEPT !.exists = TRUE, !.clean = clean, !.lines = IF approve /\ clean THEN @ ELSE {}]
      OBVIOUS
    <2>3. new \in File /\ new.as_of = preview.as_of /\ new.lines \subseteq preview.lines
      BY <2>2 DEF OutboundInv, Respectful, File
    <2>4. authorization' = new /\ preview' = preview
      BY <1>5, <2>1, <2>2 DEF authorize_send_preview
    <2>5. Respectful(new)'
      BY <1>3, <2>3 DEF OutboundInv
    <2>6. Respectful(preview)'
      BY <1>1, <2>4 DEF OutboundInv, Respectful, Withdrawn
    <2> QED  BY <1>2, <2>4, <2>5, <2>6 DEF OutboundInv, Respectful
  <1> QED  BY <1>4, <1>5

----------------------------------------------------------------------------
(* The invariant holds beside one writer.                                    *)
LEMMA OutboundInvariant ==
    ASSUME OneWriter
    PROVE  OutboundSpec => []OutboundInv
  <1>1. TypeInv /\ HistoryInv /\ SuppressionInv /\ OutboundInv /\ [OutboundNext]_allVars => OutboundInv'
    <2> SUFFICES ASSUME TypeInv, HistoryInv, SuppressionInv, OutboundInv, [OutboundNext]_allVars PROVE OutboundInv'
      OBVIOUS
    <2>1. CASE Next /\ UNCHANGED outbound
      BY <2>1, WritersKeep
    <2>2. CASE UNCHANGED allVars
      BY <2>2, WritersKeep DEF allVars
    <2>3. CASE OutboundStep
      BY <2>3, ProjectionKeeps, QueueKeeps, FilesKeep DEF OutboundStep
    <2> QED  BY <2>1, <2>2, <2>3 DEF OutboundNext
  <1> QED  BY <1>1, OutboundInitInv, WritersAreUndisturbed, TypeInvariant, HistoryInvariant, SuppressionInvariant, PTL DEF OutboundSpec

(* With one writer beside the outbound commands, nothing is authorized for  *)
(* a contact whose unsubscribe was on file when its projection started.     *)
THEOREM AuthorizationsRespectWithdrawals ==
    ASSUME OneWriter
    PROVE  OutboundSpec => []AuthorizedNotWithdrawn
  <1>1. OutboundInv => AuthorizedNotWithdrawn
    BY DEF OutboundInv, Respectful, AuthorizedNotWithdrawn
  <1> QED  BY <1>1, OutboundInvariant, PTL

(* One withdrawn contact holds the whole queue, and a queue that calls      *)
(* itself clean has every dispatch planned before its projection.           *)
THEOREM QueuesAreWholeOrHeld ==
    ASSUME OneWriter
    PROVE  OutboundSpec => []QueueIsWholeOrHeld
  <1>1. OutboundInv => QueueIsWholeOrHeld
    BY DEF OutboundInv
  <1> QED  BY <1>1, OutboundInvariant, PTL
=============================================================================
