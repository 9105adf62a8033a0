------------------------------ MODULE RecordProofs ------------------------------
(***************************************************************************)
(* Proofs about the modules that keep records - the proof pack, the        *)
(* publications, the review loop, the reflective ledgers and the claims -, *)
(* each under its own specification, for every number of processes, every  *)
(* content and every bound; and of all the record keepers side by side.    *)
(***************************************************************************)
EXTENDS MCRecords, OperatorProofs, SequenceTheorems, FiniteSetTheorems, TLAPS

----------------------------------------------------------------------------
(* The proof pack.  No gate decides to promote: only the request does, once *)
(* no gate blocks and no promotion of the same identity has been read.      *)
LEMMA GatesDoNotPromote == \A i \in DOMAIN Gates : Gates[i].outcome # Promote
  BY DEF Gates, Promote

(* The first gate that blocks is one that blocks.                            *)
LEMMA FirstOfGates ==
    ASSUME NEW blocking \in SUBSET DOMAIN Gates, blocking # {}
    PROVE  (CHOOSE i \in blocking : \A j \in blocking : i <= j) \in blocking
  <1>1. blocking \subseteq 1..11
    BY DEF Gates
  <1>2. 1 \in blocking \/ 2 \in blocking \/ 3 \in blocking \/ 4 \in blocking \/ 5 \in blocking
           \/ 6 \in blocking \/ 7 \in blocking \/ 8 \in blocking \/ 9 \in blocking
           \/ 10 \in blocking \/ 11 \in blocking
    BY <1>1
  <1>3. \E i \in blocking : \A j \in blocking : i <= j
    BY <1>1, <1>2
  <1> QED  BY <1>3

(* Only a packet that asks for a promotion nobody made is promoted.          *)
LEMMA PromotionWasAskedFor ==
    ASSUME NEW p, NEW prior, evaluate_transition(p, prior) = Promote
    PROVE  is_state_promotion(p) /\ ~duplicate(p, prior)
  <1> DEFINE blocking == {i \in DOMAIN Gates : Gates[i].lacks \in p.lacks /\ (Gates[i].always \/ is_state_promotion(p))}
             first == CHOOSE i \in blocking : \A j \in blocking : i <= j
  <1>1. blocking = {}
    <2> SUFFICES ASSUME blocking # {} PROVE FALSE
      OBVIOUS
    <2>1. evaluate_transition(p, prior) = Gates[first].outcome
      BY DEF evaluate_transition
    <2>2. first \in DOMAIN Gates
      BY FirstOfGates
    <2> QED  BY <2>1, <2>2, GatesDoNotPromote
  <1>2. ~duplicate(p, prior)
    BY <1>1 DEF evaluate_transition, Promote
  <1>3. p.request = Promote
    BY <1>1, <1>2 DEF evaluate_transition, Promote
  <1> QED  BY <1>2, <1>3 DEF is_state_promotion

(* The kinds of values a run and the ledger hold.                           *)
Outcomes == {Gates[i].outcome : i \in DOMAIN Gates} \cup Requests \cup {"BLOCK_DUPLICATE", "MANUAL_REVIEW_REQUIRED"}
Verdicts == Outcomes \cup {"none"}
PackJob == [pc : {"idle", "evaluate", "read", "write"}, next : Nat, proposal : FixtureContents, decision : Verdicts,
            seen : Nat, prev : Nat, rows : Seq(Verdicts)]
PackEntry == [id : {deterministic_transition_id(p) : p \in FixtureContents}, decision : Verdicts,
              about : [transition : {p.transition : p \in FixtureContents}, seen : Nat], prev : Nat]

PackTypes ==
    /\ fixture \in [FixtureFiles -> FixtureContents]
    /\ pack \in [Packs -> PackJob]
    /\ pack_ledger \in [entries : Seq(PackEntry), torn : BOOLEAN]
    /\ pack_rows \in Seq(Verdicts)

(* A run has a row for every fixture it is done with.                       *)
RowsKeepUp(job) ==
    job.pc # "idle" => /\ job.next \in 1..(Cardinality(FixtureFiles) + 1)
                       /\ Len(job.rows) = job.next - 1
                       /\ job.pc # "evaluate" => job.next \in FixtureFiles

(* A decision to promote, until it is on file, is about a promotion none of *)
(* whose identity was among the entries read.                               *)
Sound(job) ==
    /\ job.seen <= Len(pack_ledger.entries)
    /\ job.pc \in {"read", "write"} /\ job.decision = Promote =>
          /\ is_state_promotion(job.proposal)
          /\ \A i \in 1..job.seen : ~(/\ pack_ledger.entries[i].id = deterministic_transition_id(job.proposal)
                                      /\ pack_ledger.entries[i].decision = Promote)

(* A promotion on file has the identity of one.                             *)
PromotionsAreNamed ==
    \A j \in DOMAIN pack_ledger.entries :
        LET e == pack_ledger.entries[j] IN e.decision = Promote => e.id = <<e.about.transition, Promote>>

PackInv ==
    /\ PackTypes
    /\ \A k \in Packs : RowsKeepUp(pack[k]) /\ Sound(pack[k])
    /\ Len(pack_rows) \in {0, Cardinality(FixtureFiles)}
    /\ PromotionsAreNamed
    /\ PromotedOnce

(* A decision is one of the verdicts.                                        *)
LEMMA DecisionsAreVerdicts == ASSUME NEW p, NEW prior PROVE evaluate_transition(p, prior) \in Verdicts
  <1> DEFINE blocking == {i \in DOMAIN Gates : Gates[i].lacks \in p.lacks /\ (Gates[i].always \/ is_state_promotion(p))}
             first == CHOOSE i \in blocking : \A j \in blocking : i <= j
  <1>1. CASE blocking # {}
    <2>1. evaluate_transition(p, prior) = Gates[first].outcome
      BY <1>1 DEF evaluate_transition
    <2>2. first \in DOMAIN Gates
      BY <1>1, FirstOfGates
    <2> QED  BY <2>1, <2>2 DEF Verdicts, Outcomes
  <1>2. CASE blocking = {} /\ duplicate(p, prior)
    BY <1>2 DEF evaluate_transition, Verdicts, Outcomes
  <1>3. CASE blocking = {} /\ ~duplicate(p, prior)
    BY <1>3 DEF evaluate_transition, Verdicts, Outcomes
  <1> QED  BY <1>1, <1>2, <1>3

LEMMA IdlePackTyped == IdlePack \in PackJob /\ IdlePack.pc = "idle" /\ IdlePack.seen = 0
  <1>1. (CHOOSE p \in FixtureContents : TRUE) \in FixtureContents
    BY FixtureAssumption
  <1>2. <<>> \in Seq(Verdicts) /\ "none" \in Verdicts
    BY DEF Verdicts
  <1> QED  BY <1>1, <1>2 DEF IdlePack, PackJob

LEMMA PackInitInv == PackInit => PackInv
  <1> SUFFICES ASSUME PackInit PROVE PackInv
    OBVIOUS
  <1>1. pack_ledger.entries = <<>> /\ pack_ledger.torn = FALSE /\ pack_rows = <<>>
        /\ pack_ledger = [entries |-> <<>>, torn |-> FALSE]
    BY DEF PackInit, EmptyLedger
  <1>2. pack_ledger \in [entries : Seq(PackEntry), torn : BOOLEAN]
    BY <1>1
  <1>3. PackTypes
    BY <1>1, <1>2, IdlePackTyped DEF PackTypes, PackInit
  <1>4. \A k \in Packs : RowsKeepUp(pack[k]) /\ Sound(pack[k])
    BY <1>1, IdlePackTyped DEF PackInit, RowsKeepUp, Sound
  <1> QED  BY <1>1, <1>3, <1>4 DEF PackInv, PromotionsAreNamed, PromotedOnce

(* Steps that leave the entries alone.                                      *)
LEMMA LedgerKept ==
    ASSUME PackInv, pack_ledger'.entries = pack_ledger.entries, pack_ledger' \in [entries : Seq(PackEntry), torn : BOOLEAN],
           fixture' \in [FixtureFiles -> FixtureContents],
           pack_rows' \in Seq(Verdicts), Len(pack_rows') \in {0, Cardinality(FixtureFiles)},
           NEW k \in Packs, NEW job \in PackJob, SetPack(k, job), RowsKeepUp(job), Sound(job)
    PROVE  PackInv'
  <1>1. pack' = [pack EXCEPT ![k] = job] /\ pack \in [Packs -> PackJob]
    BY DEF SetPack, PackInv, PackTypes
  <1>2. pack'[k] = job /\ (\A m \in Packs \ {k} : pack'[m] = pack[m]) /\ pack' \in [Packs -> PackJob]
    BY <1>1
  <1>3. PackTypes'
    BY <1>2 DEF PackTypes
  <1>4. ASSUME NEW m \in Packs PROVE RowsKeepUp(pack[m])' /\ Sound(pack[m])'
    <2>1. CASE m = k  BY <2>1, <1>2 DEF Sound, RowsKeepUp
    <2>2. CASE m # k  BY <2>2, <1>2 DEF Sound, RowsKeepUp, PackInv
    <2> QED  BY <2>1, <2>2
  <1>5. PromotionsAreNamed' /\ PromotedOnce'
    BY DEF PackInv, PromotionsAreNamed, PromotedOnce
  <1> QED  BY <1>3, <1>4, <1>5 DEF PackInv

(* An entry is appended that was built from what the run had read.           *)
LEMMA AppendKeepsPackInv ==
    ASSUME PackInv, NEW k \in Packs, AppendDecision(k)
    PROVE  PackInv'
  <1> DEFINE entries == pack_ledger.entries
             p == pack[k].proposal
             e == build_ledger_entry(deterministic_transition_id(p), pack[k].decision,
                                     [transition |-> p.transition, seen |-> pack[k].seen], pack[k].prev)
             job == [pack[k] EXCEPT !.pc = "evaluate", !.next = @ + 1, !.rows = Append(@, pack[k].decision)]
  <1>t. pack[k] \in PackJob /\ entries \in Seq(PackEntry) /\ pack_ledger \in [entries : Seq(PackEntry), torn : BOOLEAN]
    BY DEF PackInv, PackTypes
  <1>j. /\ job \in PackJob /\ job.pc = "evaluate" /\ job.seen = pack[k].seen
        /\ RowsKeepUp(job)
    <2>1. pack[k].rows \in Seq(Verdicts) /\ pack[k].decision \in Verdicts /\ pack[k].next \in Nat
      BY <1>t DEF PackJob
    <2>2. Append(pack[k].rows, pack[k].decision) \in Seq(Verdicts)
          /\ Len(Append(pack[k].rows, pack[k].decision)) = Len(pack[k].rows) + 1
      BY <2>1
    <2>3. job \in PackJob /\ job.pc = "evaluate" /\ job.seen = pack[k].seen /\ job.next = pack[k].next + 1
          /\ job.rows = Append(pack[k].rows, pack[k].decision)
      <3>1. pack[k].next + 1 \in Nat /\ "evaluate" \in {"idle", "evaluate", "read", "write"}
        BY <2>1
      <3>2. PICK verdicts \in Seq(Verdicts), n \in Nat :
                verdicts = Append(pack[k].rows, pack[k].decision) /\ n = pack[k].next + 1
        BY <2>2, <3>1
      <3>3. job = [pack[k] EXCEPT !.pc = "evaluate", !.next = n, !.rows = verdicts]
        BY <3>2
      <3>4. [pack[k] EXCEPT !.pc = "evaluate", !.next = n, !.rows = verdicts] \in PackJob
        BY <1>t DEF PackJob
      <3>5. job.pc = "evaluate" /\ job.seen = pack[k].seen /\ job.next = n /\ job.rows = verdicts
        BY <1>t, <3>3 DEF PackJob
      <3> QED  BY <3>2, <3>3, <3>4, <3>5
    <2>4. pack[k].next \in FixtureFiles /\ Len(pack[k].rows) = pack[k].next - 1
      BY DEF PackInv, RowsKeepUp, AppendDecision
    <2>5. Cardinality(FixtureFiles) \in Nat
      BY FixtureAssumption, FS_CardinalityType
    <2> QED  BY <2>1, <2>2, <2>3, <2>4, <2>5, FixtureAssumption, SMTT(30) DEF RowsKeepUp
  <1>s. SetPack(k, job) /\ UNCHANGED <<fixture, pack_rows>>
    BY DEF AppendDecision
  <1>1. CASE pack_ledger.torn
    <2>1. pack_ledger' = pack_ledger
      BY <1>1 DEF AppendDecision, WriteEntry, Readable
    <2>2. Sound(job)
      BY <1>j DEF Sound, PackInv
    <2> HIDE DEF job
    <2> QED  BY <2>1, <2>2, <1>j, <1>s, LedgerKept DEF PackInv, PackTypes
  <1>2. CASE ~pack_ledger.torn
    <2>e. /\ e \in PackEntry /\ e.decision = pack[k].decision /\ e.id = deterministic_transition_id(p)
          /\ e.about.transition = p.transition /\ e.about.seen = pack[k].seen
      BY <1>t DEF PackEntry, PackJob, build_ledger_entry
    <2> HIDE DEF e, job
    <2>1. pack_ledger' = [pack_ledger EXCEPT !.entries = Append(entries, e)]
      BY <1>2 DEF AppendDecision, WriteEntry, Readable, e
    <2>2. /\ pack_ledger' \in [entries : Seq(PackEntry), torn : BOOLEAN]
          /\ Len(pack_ledger'.entries) = Len(entries) + 1
          /\ \A i \in 1..Len(entries) : pack_ledger'.entries[i] = entries[i]
          /\ pack_ledger'.entries[Len(entries) + 1] = e
      BY <2>1, <1>t, <2>e, SMTT(30)
    <2>3. SetPack(k, job) /\ job \in PackJob /\ RowsKeepUp(job)
      BY <1>s, <1>j
    <2>4. pack'[k] = job /\ (\A m \in Packs \ {k} : pack'[m] = pack[m]) /\ pack' \in [Packs -> PackJob]
      BY <2>3 DEF SetPack, PackInv, PackTypes
    <2>5. PackTypes'
      BY <2>2, <2>4, <1>s DEF PackInv, PackTypes
    <2>6. ASSUME NEW m \in Packs PROVE RowsKeepUp(pack[m])' /\ Sound(pack[m])'
      <3>1. CASE m = k
        <4>1. pack'[k].pc = "evaluate" /\ pack'[k].seen <= Len(pack_ledger'.entries)
          <5>1. pack[k].seen \in Nat /\ pack[k].seen <= Len(entries) /\ Len(entries) \in Nat
            BY <1>t DEF PackInv, Sound, PackJob
          <5> QED  BY <5>1, <2>2, <2>4, <1>j
        <4>2. Sound(pack[k])'  BY <4>1 DEF Sound
        <4>3. RowsKeepUp(pack[k])'  BY <2>3, <2>4 DEF RowsKeepUp
        <4> QED  BY <3>1, <4>2, <4>3
      <3>2. CASE m # k
        <4>1. RowsKeepUp(pack[m]) /\ Sound(pack[m]) /\ pack[m].seen \in Nat
          BY DEF PackInv, PackTypes, PackJob
        <4>2. Len(entries) \in Nat  BY <1>t
        <4>3. pack'[m] = pack[m]  BY <3>2, <2>4
        <4>4. RowsKeepUp(pack[m])'  BY <4>1, <4>3 DEF RowsKeepUp
        <4>5. pack[m].seen <= Len(pack_ledger'.entries)
              /\ \A i \in 1..pack[m].seen : pack_ledger'.entries[i] = entries[i]
          BY <4>1, <4>2, <2>2 DEF Sound
        <4>6. Sound(pack[m])'  BY <4>1, <4>3, <4>5 DEF Sound
        <4> QED  BY <4>4, <4>6
      <3> QED  BY <3>1, <3>2
    <2>7. e.decision = Promote => /\ is_state_promotion(p) /\ e.id = <<p.transition, Promote>>
                                  /\ \A i \in 1..e.about.seen : ~ (entries[i].id = e.id /\ entries[i].decision = Promote)
      BY <2>e DEF AppendDecision, PackInv, Sound, is_state_promotion, deterministic_transition_id
    <2>8. DOMAIN entries = 1..Len(entries) /\ DOMAIN pack_ledger'.entries = 1..(Len(entries) + 1) /\ Len(entries) \in Nat
      BY <2>2, <1>t
    <2>9. PromotionsAreNamed'
      BY <2>2, <2>8, <2>7, <2>e DEF PromotionsAreNamed, PackInv
    <2>10. PromotedOnce'
      <3> SUFFICES ASSUME NEW j \in 1..(Len(entries) + 1), NEW i \in 1..(j - 1),
                          pack_ledger'.entries[i].decision = Promote, pack_ledger'.entries[j].decision = Promote,
                          pack_ledger'.entries[i].about.transition = pack_ledger'.entries[j].about.transition
                   PROVE  pack_ledger'.entries[j].about.seen < i
        BY <2>8 DEF PromotedOnce
      <3>1. i \in 1..Len(entries) /\ pack_ledger'.entries[i] = entries[i]
        BY <2>2, <2>8
      <3>2. CASE j = Len(entries) + 1
        <4>1. entries[i].id = <<p.transition, Promote>>
          BY <2>2, <2>8, <2>e, <3>1, <3>2 DEF PackInv, PromotionsAreNamed
        <4>2. e.about.seen \in Nat
          BY <2>e DEF PackEntry
        <4>3. pack_ledger'.entries[j] = e /\ e.decision = Promote
          BY <2>2, <3>2
        <4>4. i \notin 1..e.about.seen
          BY <2>7, <3>1, <4>1, <4>3
        <4> QED  BY <3>1, <4>2, <4>3, <4>4, <2>8
      <3>3. CASE j # Len(entries) + 1
        <4>1. j \in 1..Len(entries) /\ pack_ledger'.entries[j] = entries[j]
          BY <2>2, <2>8, <3>3
        <4> QED  BY <2>8, <3>1, <4>1 DEF PackInv, PromotedOnce
      <3> QED  BY <3>2, <3>3
    <2> QED  BY <2>5, <2>6, <2>9, <2>10, <1>s DEF PackInv
  <1> QED  BY <1>1, <1>2

LEMMA PackStepInv == PackInv /\ [PackNext]_pack_vars => PackInv'
  <1> SUFFICES ASSUME PackInv, [PackNext]_pack_vars PROVE PackInv'
    OBVIOUS
  <1>c. Cardinality(FixtureFiles) \in Nat
    BY FixtureAssumption, FS_CardinalityType
  <1>t. /\ fixture \in [FixtureFiles -> FixtureContents] /\ pack \in [Packs -> PackJob]
        /\ pack_ledger \in [entries : Seq(PackEntry), torn : BOOLEAN]
        /\ pack_rows \in Seq(Verdicts) /\ Len(pack_rows) \in {0, Cardinality(FixtureFiles)}
        /\ Len(pack_ledger.entries) \in Nat
    BY DEF PackInv, PackTypes
  <1>i. IdlePack \in PackJob /\ RowsKeepUp(IdlePack) /\ Sound(IdlePack)
    BY <1>t, IdlePackTyped DEF RowsKeepUp, Sound
  <1>1. ASSUME NEW k \in Packs, StartPack(k) PROVE PackInv'
    <2> DEFINE job == [IdlePack EXCEPT !.pc = "evaluate", !.next = 1]
    <2>1. job \in PackJob /\ job.pc = "evaluate" /\ job.next = 1 /\ job.rows = <<>> /\ job.seen = 0
      BY IdlePackTyped DEF PackJob, IdlePack
    <2>2. RowsKeepUp(job) /\ Sound(job)
      BY <2>1, <1>c, <1>t DEF RowsKeepUp, Sound
    <2>3. SetPack(k, job) /\ UNCHANGED <<fixture, pack_ledger, pack_rows>>
      BY <1>1 DEF StartPack
    <2> HIDE DEF job
    <2> QED  BY <2>1, <2>2, <2>3, <1>t, LedgerKept
  <1>2. ASSUME NEW k \in Packs, EvaluateFixture(k) PROVE PackInv'
    <2> DEFINE p == fixture[pack[k].next]
               job == [pack[k] EXCEPT !.pc = "read", !.proposal = p, !.seen = Len(pack_ledger.entries),
                                      !.decision = evaluate_transition(p, pack_ledger.entries)]
    <2>1. CASE Readable(pack_ledger)
      <3>1. /\ job \in PackJob /\ job.pc = "read" /\ job.proposal = p /\ job.seen = Len(pack_ledger.entries)
            /\ job.decision = evaluate_transition(p, pack_ledger.entries)
            /\ job.next = pack[k].next /\ job.rows = pack[k].rows
        <4>1. PICK old \in PackJob : old = pack[k]
          BY <1>t
        <4>2. old.pc = "evaluate" /\ old.next \in FixtureFiles
          BY <1>2, <4>1 DEF EvaluateFixture
        <4>3. p \in FixtureContents /\ evaluate_transition(p, pack_ledger.entries) \in Verdicts
          BY <1>t, <4>1, <4>2, DecisionsAreVerdicts
        <4> QED  BY <1>t, <4>1, <4>3 DEF PackJob
      <3>2. RowsKeepUp(job)
        BY <1>2, <3>1 DEF RowsKeepUp, PackInv, EvaluateFixture
      <3>3. Sound(job)
        <4>1. DOMAIN pack_ledger.entries = 1..Len(pack_ledger.entries)
          BY <1>t
        <4>2. job.decision = Promote => /\ is_state_promotion(p) /\ ~duplicate(p, pack_ledger.entries)
          BY <3>1, PromotionWasAskedFor
        <4>3. Len(pack_ledger.entries) <= Len(pack_ledger.entries)  BY <1>t
        <4> HIDE DEF job
        <4> QED  BY <3>1, <4>1, <4>2, <4>3 DEF Sound, duplicate
      <3>4. SetPack(k, job) /\ UNCHANGED <<fixture, pack_ledger, pack_rows>>
        BY <1>2, <2>1 DEF EvaluateFixture
      <3> HIDE DEF job
      <3> QED  BY <3>1, <3>2, <3>3, <3>4, <1>t, LedgerKept
    <2>2. CASE ~Readable(pack_ledger)
      BY <1>2, <2>2, <1>i, <1>t, LedgerKept DEF EvaluateFixture
    <2> QED  BY <2>1, <2>2
  <1>3. ASSUME NEW k \in Packs, ReadForAppend(k) PROVE PackInv'
    <2> DEFINE job == [pack[k] EXCEPT !.pc = "write", !.prev = Len(pack_ledger.entries)]
    <2>1. CASE Readable(pack_ledger)
      <3>1. /\ job \in PackJob /\ job.pc = "write" /\ job.proposal = pack[k].proposal /\ job.seen = pack[k].seen
            /\ job.decision = pack[k].decision /\ job.next = pack[k].next /\ job.rows = pack[k].rows
        BY <1>t DEF PackJob
      <3>2. RowsKeepUp(job) /\ Sound(job)
        BY <1>3, <3>1 DEF RowsKeepUp, Sound, PackInv, ReadForAppend
      <3>3. SetPack(k, job) /\ UNCHANGED <<fixture, pack_ledger, pack_rows>>
        BY <1>3, <2>1 DEF ReadForAppend
      <3> HIDE DEF job
      <3> QED  BY <3>1, <3>2, <3>3, <1>t, LedgerKept
    <2>2. CASE ~Readable(pack_ledger)
      BY <1>3, <2>2, <1>i, <1>t, LedgerKept DEF ReadForAppend
    <2> QED  BY <2>1, <2>2
  <1>4. ASSUME NEW k \in Packs, AppendDecision(k) PROVE PackInv'
    BY <1>4, AppendKeepsPackInv
  <1>5. ASSUME NEW k \in Packs, FinishPack(k) PROVE PackInv'
    <2>1. pack[k].rows \in Seq(Verdicts)
      BY <1>t DEF PackJob
    <2>2. Len(pack[k].rows) = Cardinality(FixtureFiles)
      BY <1>5, <1>c, FixtureAssumption DEF FinishPack, PackInv, RowsKeepUp
    <2> QED  BY <1>5, <2>1, <2>2, <1>i, <1>t, LedgerKept DEF FinishPack
  <1>6. ASSUME NEW k \in Packs, PackKilled(k) PROVE PackInv'
    <2>1. pack_ledger'.entries = pack_ledger.entries /\ pack_ledger' \in [entries : Seq(PackEntry), torn : BOOLEAN]
      BY <1>6, <1>t DEF PackKilled, TornWrite
    <2> QED  BY <1>6, <2>1, <1>i, <1>t, LedgerKept DEF PackKilled
  <1>7. ASSUME NEW f \in FixtureFiles, EditFixture(f) PROVE PackInv'
    <2>1. fixture' \in [FixtureFiles -> FixtureContents]
      BY <1>7, <1>t DEF EditFixture
    <2> QED  BY <1>7, <2>1 DEF EditFixture, PackInv, PackTypes, RowsKeepUp, Sound, PromotionsAreNamed, PromotedOnce
  <1>8. CASE UNCHANGED pack_vars
    BY <1>8 DEF pack_vars, PackInv, PackTypes, RowsKeepUp, Sound, PromotionsAreNamed, PromotedOnce
  <1> QED  BY <1>1, <1>2, <1>3, <1>4, <1>5, <1>6, <1>7, <1>8 DEF PackNext

(* The invariant holds of every state of the runs.                           *)
LEMMA PackInvariant == PackSpec => []PackInv
  BY PackInitInv, PackStepInv, PTL DEF PackSpec

(* The proof pack's part of TypeOK (cli.py): what a run is at and what it   *)
(* has read, and that decisions.jsonl has a row for every fixture.          *)
THEOREM PackTypesHold == PackSpec => []PackTypeOK
  <1>1. PackInv => PackTypeOK
    BY DEF PackInv, PackTypes, PackTypeOK, PackJob, Sound
  <1> QED  BY <1>1, PackInvariant, PTL

(* duplicate_gate (gates.py): however many runs of the proof pack overlap,  *)
(* die inside a write and find their fixtures edited, a transition is       *)
(* promoted again only by an evaluation that had not read the promotion.    *)
THEOREM PromotionsAreOnce == PackSpec => []PromotedOnce
  <1>1. PackInv => PromotedOnce
    BY DEF PackInv
  <1> QED  BY <1>1, PackInvariant, PTL

----------------------------------------------------------------------------
(* Publications: what the projection and every event on its way must hold.  *)
PubTexts == {"incomplete", "draft", "final"}
Hashes == BOOLEAN \X PubTexts
EssayStatuses == {"none", "draft", "review_requested", "reviewed", "canonical"} \cup CorrectionStatuses
Essay == [status : EssayStatuses, packet : BOOLEAN, text : PubTexts, approved : {<<>>} \cup Hashes]
Projection == [section : BOOLEAN, issue : BOOLEAN, source : {"none"} \cup PacketContents, essay : Essay,
               link : BOOLEAN, adaptation : BOOLEAN, corrections : SUBSET [hash : Hashes, status : CorrectionStatuses],
               dossier : {"none", "draft", "archive_ready"}]
PubKinds == {"none", "section", "issue", "source", "draft", "attach", "edit", "request", "review", "approve",
             "link", "adaptation", "correction", "dossier"}
PubValues == {"none", "any", "earlier", "draft", "archive_ready"} \cup CorrectionStatuses \cup PacketContents
PubEvent == [kind : PubKinds, essay : Essay, value : PubValues]
EditorJob == [pc : {"idle", "check", "append"}, id : Nat, event : PubEvent, seen : Nat, again : BOOLEAN]

PubTypes ==
    /\ pub \in Projection /\ pub_rows \in Nat /\ pub_commands \in Nat
    /\ pub_events \subseteq [id : Nat, event : PubEvent]
    /\ pub_job \in [Editors -> EditorJob]

(* The events an essay with a status goes back to.                          *)
Behind(status) ==
    (IF status \in {"review_requested", "reviewed", "canonical"} THEN {"request"} ELSE {})
        \cup (IF status \in {"reviewed", "canonical"} THEN {"review"} ELSE {})
        \cup (IF status = "canonical" THEN {"approve"} ELSE {})
Earned == {"request", "review", "approve"}
KindsOf(entries) == {r.event.kind : r \in entries}

ProjectionEarned(p, kinds) ==
    /\ p.essay.packet => p.source # "none"
    /\ Behind(p.essay.status) \subseteq kinds
    /\ p.link => Earned \subseteq kinds

(* An event that was derived from this projection or an earlier one.        *)
EventEarned(event, p, kinds) ==
    /\ Behind(event.essay.status) \subseteq kinds \cup {event.kind}
    /\ event.kind = "link" => Earned \subseteq kinds
    /\ event.kind = "source" => event.value \in PacketContents
    /\ event.kind = "dossier" => event.value \in {"draft", "archive_ready"}
    /\ event.kind = "correction" => event.value \in CorrectionStatuses
    /\ event.essay.packet => p.source # "none"
    /\ event.kind = "approve" => canonical_essay_governance(event.essay, p)

(* What a command found still holds as long as nothing was appended.        *)
StillFits(job) ==
    /\ job.seen <= pub_rows
    /\ job.seen = pub_rows /\ job.pc = "append" => \A r \in pub_events : r.id # job.id
    /\ job.seen = pub_rows /\ pub_state = "replays" /\ ~job.again => ~Rejects(pub, job.event)

PubInv ==
    /\ PubTypes
    /\ pub_cause \in {"none", "created again", "overtaken"}
    /\ ProjectionEarned(pub, KindsOf(pub_events))
    /\ \A r \in pub_events : r.event.kind = "approve" => canonical_essay_governance(r.event.essay, pub)
    /\ \A e \in Editors : pub_job[e].pc # "idle" =>
           EventEarned(pub_job[e].event, pub, KindsOf(pub_events)) /\ StillFits(pub_job[e])

LEMMA EssayTyped == NoEssay \in Essay /\ EmptyProjection \in Projection /\ NoEvent \in PubEvent /\ IdleEditor \in EditorJob
  <1>1. NoEssay \in Essay
    BY DEF NoEssay, Essay, EssayStatuses, PubTexts
  <1>2. EmptyProjection \in Projection
    BY <1>1 DEF EmptyProjection, Projection
  <1>3. NoEvent \in PubEvent
    BY <1>1 DEF NoEvent, PubEvent, PubKinds, PubValues
  <1>4. IdleEditor \in EditorJob
    BY <1>3 DEF IdleEditor, EditorJob
  <1> QED  BY <1>1, <1>2, <1>3, <1>4

(* What a command may derive, kind by kind.                                 *)
LEMMA DerivedKinds ==
    ASSUME NEW p, NEW event \in Derivable(p)
    PROVE  \/ event = Event("section", "any")
           \/ \E s \in PacketContents : event = Event("source", s)
           \/ event = Event("issue", "any") \/ event = Event("adaptation", "any")
           \/ event = Event("link", "any") /\ p.essay.status = "canonical"
           \/ event \in {Event("dossier", "archive_ready"), Event("dossier", "draft")} /\ p.issue
           \/ event = EssayEvent("draft", [NoEssay EXCEPT !.status = "draft"])
           \/ event = EssayEvent("attach", [p.essay EXCEPT !.packet = TRUE]) /\ p.source # "none"
           \/ \E t \in Texts : event = EssayEvent("edit", [p.essay EXCEPT !.text = t])
           \/ event = EssayEvent("request", [p.essay EXCEPT !.status = "review_requested"])
           \/ event = EssayEvent("review", [p.essay EXCEPT !.status = "reviewed"]) /\ p.essay.status = "review_requested"
           \/ /\ event = EssayEvent("approve", [p.essay EXCEPT !.status = "canonical", !.approved = content_hash(p.essay)])
              /\ p.essay.status = "reviewed"
              /\ canonical_essay_governance([p.essay EXCEPT !.approved = content_hash(p.essay)], p)
           \/ \E s \in CorrectionStatuses : event = [NoEvent EXCEPT !.kind = "correction", !.essay = p.essay, !.value = s]
  <1>1. CASE event \in Creations(p)
    BY <1>1 DEF Creations
  <1>2. CASE event \in Drafts(p) \cup CampaignLinks(p) \cup Dossiers(p)
    BY <1>2 DEF Drafts, CampaignLinks, Dossiers
  <1>3. CASE event \in EssayEdits(p)
    BY <1>3 DEF EssayEdits
  <1>4. CASE event \in EssayReviews(p)
    BY <1>4 DEF EssayReviews, Approvable
  <1>5. CASE event \in Adaptations \cup Corrections(p)
    BY <1>5 DEF Adaptations, Corrections
  <1> QED  BY <1>1, <1>2, <1>3, <1>4, <1>5 DEF Derivable

(* A command derives from an earned projection an event that is earned as    *)
(* well.                                                                     *)
LEMMA DerivedIsEarned ==
    ASSUME NEW p \in Projection, NEW kinds, ProjectionEarned(p, kinds), NEW event \in Derivable(p)
    PROVE  event \in PubEvent /\ EventEarned(event, p, kinds) /\ (~Exists(p, event) => ~Rejects(p, event))
  <1>p. p.essay \in Essay /\ p.source \in {"none"} \cup PacketContents
    BY DEF Projection
  <1>n. NoEssay \in Essay /\ NoEssay.status = "none" /\ ~NoEssay.packet
    BY EssayTyped DEF NoEssay
  <1>1. ASSUME NEW kind \in PubKinds, NEW value \in PubValues, event = Event(kind, value)
        PROVE  event \in PubEvent /\ event.kind = kind /\ event.value = value /\ event.essay = NoEssay
    BY <1>n, <1>1 DEF Event, NoEvent, PubEvent
  <1>2. ASSUME NEW kind \in PubKinds, NEW essay \in Essay, event = EssayEvent(kind, essay)
        PROVE  event \in PubEvent /\ event.kind = kind /\ event.essay = essay
    BY <1>n, <1>2 DEF EssayEvent, NoEvent, PubEvent, PubValues
  <1>b. Behind(NoEssay.status) = {} /\ Behind("draft") = {}
    BY <1>n DEF Behind
  <1>3. CASE event = Event("section", "any") \/ event = Event("issue", "any") \/ event = Event("adaptation", "any")
    <2>1. event \in PubEvent /\ event.kind \in {"section", "issue", "adaptation"} /\ event.essay = NoEssay
      BY <1>1, <1>3 DEF PubKinds, PubValues
    <2> QED  BY <2>1, <1>n, <1>b DEF EventEarned, Exists
  <1>4. ASSUME NEW s \in PacketContents, event = Event("source", s)
        PROVE  event \in PubEvent /\ EventEarned(event, p, kinds) /\ (~Exists(p, event) => ~Rejects(p, event))
    <2>1. event \in PubEvent /\ event.kind = "source" /\ event.value = s /\ event.essay = NoEssay
      BY <1>1, <1>4 DEF PubKinds, PubValues
    <2> QED  BY <2>1, <1>n, <1>b DEF EventEarned, Exists
  <1>5. CASE event = Event("link", "any") /\ p.essay.status = "canonical"
    <2>1. event \in PubEvent /\ event.kind = "link" /\ event.essay = NoEssay
      BY <1>1, <1>5 DEF PubKinds, PubValues
    <2>2. Earned \subseteq kinds
      BY <1>5 DEF ProjectionEarned, Behind, Earned
    <2> QED  BY <2>1, <2>2, <1>n, <1>b DEF EventEarned, Exists
  <1>6. CASE event \in {Event("dossier", "archive_ready"), Event("dossier", "draft")} /\ p.issue
    <2>1. event \in PubEvent /\ event.kind = "dossier" /\ event.essay = NoEssay /\ event.value \in {"draft", "archive_ready"}
      BY <1>1, <1>6 DEF PubKinds, PubValues
    <2> QED  BY <2>1, <1>n, <1>b, <1>6 DEF EventEarned, Rejects
  <1>7. CASE event = EssayEvent("draft", [NoEssay EXCEPT !.status = "draft"])
    <2>1. PICK essay : essay = [NoEssay EXCEPT !.status = "draft"]
      OBVIOUS
    <2>2. essay \in Essay /\ essay.status = "draft" /\ ~essay.packet
      BY <1>n, <2>1 DEF Essay, EssayStatuses
    <2>3. event \in PubEvent /\ event.kind = "draft" /\ event.essay = essay
      BY <1>2, <1>7, <2>1, <2>2 DEF PubKinds
    <2> QED  BY <2>2, <2>3, <1>b DEF EventEarned, Exists
  <1>8. ASSUME NEW kind \in {"attach", "edit", "request", "review", "approve"}, NEW essay \in Essay,
               event = EssayEvent(kind, essay), essay.packet => p.source # "none",
               Behind(essay.status) \subseteq kinds \cup {kind},
               kind = "approve" => canonical_essay_governance(essay, p)
        PROVE  event \in PubEvent /\ EventEarned(event, p, kinds) /\ (~Exists(p, event) => ~Rejects(p, event))
    <2>1. event \in PubEvent /\ event.kind = kind /\ event.essay = essay
      BY <1>2, <1>8 DEF PubKinds
    <2> QED  BY <2>1, <1>8 DEF EventEarned, Rejects
  <1>q. (p.essay.packet => p.source # "none") /\ Behind(p.essay.status) \subseteq kinds
    BY DEF ProjectionEarned
  <1>9. CASE event = EssayEvent("attach", [p.essay EXCEPT !.packet = TRUE]) /\ p.source # "none"
    <2>1. PICK essay : essay = [p.essay EXCEPT !.packet = TRUE]
      OBVIOUS
    <2>2. essay \in Essay /\ essay.status = p.essay.status
      BY <1>p, <2>1 DEF Essay
    <2> QED  BY <1>8, <1>9, <1>q, <2>1, <2>2
  <1>10. ASSUME NEW t \in Texts, event = EssayEvent("edit", [p.essay EXCEPT !.text = t])
         PROVE  event \in PubEvent /\ EventEarned(event, p, kinds) /\ (~Exists(p, event) => ~Rejects(p, event))
    <2>1. PICK essay : essay = [p.essay EXCEPT !.text = t]
      OBVIOUS
    <2>2. essay \in Essay /\ essay.status = p.essay.status /\ essay.packet = p.essay.packet
      BY <1>p, <2>1 DEF Essay, Texts, PubTexts
    <2> QED  BY <1>8, <1>10, <1>q, <2>1, <2>2
  <1>11. CASE event = EssayEvent("request", [p.essay EXCEPT !.status = "review_requested"])
    <2>1. PICK essay : essay = [p.essay EXCEPT !.status = "review_requested"]
      OBVIOUS
    <2>2. essay \in Essay /\ essay.status = "review_requested" /\ essay.packet = p.essay.packet
      BY <1>p, <2>1 DEF Essay, EssayStatuses
    <2>3. Behind(essay.status) \subseteq {"request"}
      BY <2>2 DEF Behind
    <2> QED  BY <1>8, <1>11, <1>q, <2>1, <2>2, <2>3
  <1>12. CASE event = EssayEvent("review", [p.essay EXCEPT !.status = "reviewed"]) /\ p.essay.status = "review_requested"
    <2>1. PICK essay : essay = [p.essay EXCEPT !.status = "reviewed"]
      OBVIOUS
    <2>2. essay \in Essay /\ essay.status = "reviewed" /\ essay.packet = p.essay.packet
      BY <1>p, <2>1 DEF Essay, EssayStatuses
    <2>3. Behind(essay.status) \subseteq kinds \cup {"review"}
      BY <1>12, <1>q, <2>2 DEF Behind
    <2> QED  BY <1>8, <1>12, <1>q, <2>1, <2>2, <2>3
  <1>13. CASE /\ event = EssayEvent("approve", [p.essay EXCEPT !.status = "canonical", !.approved = content_hash(p.essay)])
              /\ p.essay.status = "reviewed"
              /\ canonical_essay_governance([p.essay EXCEPT !.approved = content_hash(p.essay)], p)
    <2>1. PICK hash : hash = <<p.essay.packet, p.essay.text>>
      OBVIOUS
    <2>2. hash \in Hashes /\ hash = content_hash(p.essay)
      BY <1>p, <2>1 DEF Essay, Hashes, content_hash
    <2>3. PICK essay : essay = [p.essay EXCEPT !.status = "canonical", !.approved = hash]
      OBVIOUS
    <2>4. essay \in Essay /\ essay.status = "canonical" /\ essay.packet = p.essay.packet /\ essay.text = p.essay.text
          /\ essay.approved = hash
      BY <1>p, <2>2, <2>3 DEF Essay, EssayStatuses
    <2>5. PICK old : old = [p.essay EXCEPT !.approved = hash]
      OBVIOUS
    <2>6. canonical_essay_governance(old, p) /\ old.packet = p.essay.packet /\ old.text = p.essay.text
      BY <1>13, <1>p, <2>2, <2>5 DEF Essay
    <2>7. p.essay.packet /\ p.source # "none" /\ p.essay.text # "incomplete"
      BY <2>6 DEF canonical_essay_governance
    <2>8. canonical_essay_governance(essay, p)
      BY <2>1, <2>4, <2>7 DEF canonical_essay_governance, content_hash
    <2>9. Behind(essay.status) \subseteq kinds \cup {"approve"}
      BY <1>13, <1>q, <2>4 DEF Behind
    <2> QED  BY <1>8, <1>13, <2>2, <2>3, <2>4, <2>7, <2>8, <2>9
  <1>14. ASSUME NEW s \in CorrectionStatuses,
                event = [NoEvent EXCEPT !.kind = "correction", !.essay = p.essay, !.value = s]
         PROVE  event \in PubEvent /\ EventEarned(event, p, kinds) /\ (~Exists(p, event) => ~Rejects(p, event))
    <2>1. event \in PubEvent /\ event.kind = "correction" /\ event.essay = p.essay /\ event.value = s
      BY <1>14, <1>p, EssayTyped DEF PubEvent, PubKinds, PubValues
    <2> QED  BY <2>1, <1>q DEF EventEarned, Exists
  <1> QED  BY DerivedKinds, <1>3, <1>4, <1>5, <1>6, <1>7, <1>9, <1>10, <1>11, <1>12, <1>13, <1>14

(* An event that fits advances the projection, and with its kind on the     *)
(* ledger the projection is earned again.                                   *)
LEMMA AppliedIsEarned ==
    ASSUME NEW p \in Projection, NEW kinds, ProjectionEarned(p, kinds), NEW event \in PubEvent,
           EventEarned(event, p, kinds), ~Rejects(p, event)
    PROVE  /\ Applied(p, event) \in Projection
           /\ ProjectionEarned(Applied(p, event), kinds \cup {event.kind})
           /\ p.source # "none" => Applied(p, event).source # "none"
  <1>p. p.essay \in Essay /\ p.source \in {"none"} \cup PacketContents
        /\ p.corrections \in SUBSET [hash : Hashes, status : CorrectionStatuses]
    BY DEF Projection
  <1>e. event.essay \in Essay /\ event.kind \in PubKinds
    BY DEF PubEvent
  <1>q. (p.essay.packet => p.source # "none") /\ Behind(p.essay.status) \subseteq kinds /\ (p.link => Earned \subseteq kinds)
    BY DEF ProjectionEarned
  <1>1. CASE event.kind \in {"section", "issue", "adaptation"}
    <2>1. PICK new : new = Applied(p, event)
      OBVIOUS
    <2>2. event.kind = "section" => new = [p EXCEPT !.section = TRUE]
      BY <2>1 DEF Applied
    <2>3. event.kind = "issue" => new = [p EXCEPT !.issue = TRUE]
      BY <2>1 DEF Applied
    <2>4. event.kind = "adaptation" => new = [p EXCEPT !.adaptation = TRUE]
      BY <2>1 DEF Applied
    <2>5. new \in Projection /\ new.essay = p.essay /\ new.source = p.source /\ new.link = p.link
      BY <1>1, <2>2, <2>3, <2>4 DEF Projection
    <2> QED  BY <2>1, <2>5, <1>q DEF ProjectionEarned
  <1>2. CASE event.kind = "source"
    <2>1. PICK new : new = Applied(p, event)
      OBVIOUS
    <2>2. new = [p EXCEPT !.source = event.value] /\ event.value \in PacketContents
      BY <1>2, <2>1 DEF Applied, EventEarned
    <2>3. new \in Projection /\ new.essay = p.essay /\ new.source = event.value /\ new.link = p.link
      BY <2>2 DEF Projection
    <2>4. new.source # "none"
      BY <2>2, <2>3, PacketAssumption
    <2> QED  BY <2>1, <2>3, <2>4, <1>q DEF ProjectionEarned
  <1>3. CASE event.kind = "link"
    <2>1. PICK new : new = Applied(p, event)
      OBVIOUS
    <2>2. new = [p EXCEPT !.link = TRUE] /\ Earned \subseteq kinds
      BY <1>3, <2>1 DEF Applied, EventEarned
    <2>3. new \in Projection /\ new.essay = p.essay /\ new.source = p.source
      BY <2>2 DEF Projection
    <2> QED  BY <2>1, <2>2, <2>3, <1>q DEF ProjectionEarned
  <1>4. CASE event.kind = "dossier"
    <2>1. PICK new : new = Applied(p, event)
      OBVIOUS
    <2>2. new = [p EXCEPT !.dossier = event.value] /\ event.value \in {"draft", "archive_ready"}
      BY <1>4, <2>1 DEF Applied, EventEarned
    <2>3. new \in Projection /\ new.essay = p.essay /\ new.source = p.source /\ new.link = p.link
      BY <2>2 DEF Projection
    <2> QED  BY <2>1, <2>3, <1>q DEF ProjectionEarned
  <1>5. CASE event.kind = "correction"
    <2>1. PICK new : new = Applied(p, event)
      OBVIOUS
    <2>2. event.value \in CorrectionStatuses
      BY <1>5 DEF EventEarned
    <2>3. PICK corrections : corrections = p.corrections \cup {CorrectionOf(event)}
      OBVIOUS
    <2>4. content_hash(event.essay) \in Hashes
      BY <1>e DEF content_hash, Essay, Hashes
    <2>5. corrections \in SUBSET [hash : Hashes, status : CorrectionStatuses]
      BY <1>p, <2>2, <2>3, <2>4 DEF CorrectionOf, Correction
    <2>6. new = [p EXCEPT !.corrections = corrections, !.essay.status = event.value]
      BY <1>5, <2>1, <2>3 DEF Applied
    <2>7. PICK essay : essay = [p.essay EXCEPT !.status = event.value]
      OBVIOUS
    <2>8. essay \in Essay /\ essay.status = event.value /\ essay.packet = p.essay.packet
      BY <1>p, <2>2, <2>7 DEF Essay, EssayStatuses
    <2>9. new = [p EXCEPT !.corrections = corrections, !.essay = essay]
      BY <2>6, <2>7 DEF Projection
    <2>10. new \in Projection /\ new.essay = essay /\ new.source = p.source /\ new.link = p.link
      BY <2>5, <2>8, <2>9 DEF Projection
    <2>11. Behind(essay.status) = {}
      BY <2>2, <2>8 DEF Behind, CorrectionStatuses
    <2> QED  BY <2>1, <2>8, <2>10, <2>11, <1>q DEF ProjectionEarned
  <1>6. CASE event.kind \in {"none", "draft", "attach", "edit", "request", "review", "approve"}
    <2>1. PICK new : new = Applied(p, event)
      OBVIOUS
    <2>2. new = [p EXCEPT !.essay = event.essay]
      BY <1>6, <2>1 DEF Applied
    <2>3. new \in Projection /\ new.essay = event.essay /\ new.source = p.source /\ new.link = p.link
      BY <1>e, <2>2 DEF Projection
    <2> QED  BY <2>1, <2>3, <1>q DEF ProjectionEarned, EventEarned
  <1> QED  BY <1>e, <1>1, <1>2, <1>3, <1>4, <1>5, <1>6 DEF PubKinds

(* What is earned stays earned.                                             *)
LEMMA EarnedStays ==
    ASSUME NEW p, NEW q, NEW kinds, NEW more, kinds \subseteq more, p.source # "none" => q.source # "none",
           NEW event, EventEarned(event, p, kinds)
    PROVE  EventEarned(event, q, more)
  BY DEF EventEarned, canonical_essay_governance

LEMMA PubInitInv == PubInit => PubInv
  <1> SUFFICES ASSUME PubInit PROVE PubInv
    OBVIOUS
  <1>1. pub_job = [e \in Editors |-> IdleEditor] /\ pub_rows = 0 /\ pub_commands = 0 /\ pub_cause = "none"
    BY DEF PubInit
  <1>2. pub_job \in [Editors -> EditorJob] /\ \A e \in Editors : pub_job[e].pc = "idle"
    BY <1>1, EssayTyped DEF IdleEditor
  <1>3. CASE pub = EmptyProjection /\ pub_events = {}
    <2>1. KindsOf(pub_events) = {}
      BY <1>3 DEF KindsOf
    <2>2. ProjectionEarned(pub, KindsOf(pub_events))
      BY <1>3 DEF ProjectionEarned, EmptyProjection, NoEssay, Behind
    <2> QED  BY <1>1, <1>2, <1>3, <2>2, EssayTyped DEF PubInv, PubTypes
  <1>4. CASE pub = RequestedProjection /\ pub_events = History({"request"})
    <2>1. PICK s \in PacketContents : s = CHOOSE x \in PacketContents : TRUE
      BY PacketAssumption
    <2>2. PICK essay : essay = [NoEssay EXCEPT !.status = "review_requested", !.packet = TRUE, !.text = "draft"]
      OBVIOUS
    <2>3. essay \in Essay /\ essay.status = "review_requested"
      BY <2>2, EssayTyped DEF Essay, EssayStatuses, PubTexts
    <2>4. pub = [EmptyProjection EXCEPT !.section = TRUE, !.issue = TRUE, !.source = s, !.essay = essay]
      BY <1>4, <2>1, <2>2 DEF RequestedProjection
    <2>5. pub \in Projection /\ pub.source = s /\ pub.essay = essay /\ ~pub.link
      <3>1. EmptyProjection \in Projection /\ ~EmptyProjection.link
        BY EssayTyped DEF EmptyProjection
      <3> QED  BY <2>3, <2>4, <3>1 DEF Projection
    <2>6. PICK event : event = Event("request", "earlier")
      OBVIOUS
    <2>7. event \in PubEvent /\ event.kind = "request"
      BY <2>6, EssayTyped DEF Event, PubEvent, PubKinds, PubValues
    <2>8. pub_events = {[id |-> 0, event |-> event]}
      BY <1>4, <2>6 DEF History
    <2>9. KindsOf(pub_events) = {"request"}
      BY <2>7, <2>8 DEF KindsOf
    <2>10. ProjectionEarned(pub, KindsOf(pub_events))
      BY <2>1, <2>3, <2>5, <2>9, PacketAssumption DEF ProjectionEarned, Behind
    <2>11. pub_events \subseteq [id : Nat, event : PubEvent] /\ \A r \in pub_events : r.event.kind # "approve"
      BY <2>7, <2>8
    <2> QED  BY <1>1, <1>2, <2>5, <2>10, <2>11 DEF PubInv, PubTypes
  <1> QED  BY <1>3, <1>4 DEF PubInit

(* One editor's command changes, the ledger does not.                       *)
LEMMA EditorMoves ==
    ASSUME PubInv, NEW e \in Editors, NEW job \in EditorJob, pub_job' = [pub_job EXCEPT ![e] = job],
           UNCHANGED <<pub, pub_events, pub_rows, pub_state, pub_cause>>, pub_commands' \in Nat,
           job.pc # "idle" => EventEarned(job.event, pub, KindsOf(pub_events)) /\ StillFits(job)
    PROVE  PubInv'
  <1>1. PubTypes'
    BY DEF PubInv, PubTypes
  <1>2. pub_job'[e] = job /\ \A f \in Editors \ {e} : pub_job'[f] = pub_job[f]
    BY DEF PubInv, PubTypes
  <1>3. ASSUME NEW f \in Editors, pub_job'[f].pc # "idle"
        PROVE  EventEarned(pub_job[f].event, pub, KindsOf(pub_events))' /\ StillFits(pub_job[f])'
    <2>1. CASE f = e
      BY <1>2, <1>3, <2>1 DEF EventEarned, canonical_essay_governance, StillFits, KindsOf
    <2>2. CASE f # e
      <3>1. pub_job'[f] = pub_job[f]
        BY <1>2, <2>2
      <3>2. EventEarned(pub_job[f].event, pub, KindsOf(pub_events)) /\ StillFits(pub_job[f])
        BY <1>3, <3>1 DEF PubInv
      <3> QED  BY <3>1, <3>2 DEF EventEarned, canonical_essay_governance, StillFits, KindsOf
    <2> QED  BY <2>1, <2>2
  <1>4. ProjectionEarned(pub, KindsOf(pub_events))' /\ pub_cause' \in {"none", "created again", "overtaken"}
        /\ \A r \in pub_events' : r.event.kind = "approve" => canonical_essay_governance(r.event.essay, pub')
    BY DEF PubInv, ProjectionEarned, KindsOf
  <1> QED  BY <1>1, <1>3, <1>4 DEF PubInv

(* The append under the lock: a retry, a conflict, an event that replays or  *)
(* one that stops the replay.                                                *)
LEMMA AppendKeepsPubInv ==
    ASSUME PubInv, NEW e \in Editors, AppendEvent(e)
    PROVE  PubInv'
  <1> DEFINE job   == pub_job[e]
             again == {r \in pub_events : r.id = job.id}
             same  == \E r \in again : r.event.kind = job.event.kind
             fits  == again = {} /\ ~Rejects(pub, job.event)
             late  == job.seen < pub_rows
             entry == [id |-> job.id, event |-> job.event]
             kinds == KindsOf(pub_events)
  <1>t. PubTypes
    BY DEF PubInv
  <1>j. job \in EditorJob /\ job.pc = "append" /\ job.event \in PubEvent /\ job.seen \in Nat /\ job.id \in Nat
        /\ job.again \in BOOLEAN
    BY <1>t DEF PubTypes, EditorJob, AppendEvent
  <1>s. EventEarned(job.event, pub, kinds) /\ StillFits(job)
    BY <1>j DEF PubInv
  <1>1. /\ pub_events' = pub_events \cup {entry} /\ pub_rows' = pub_rows + 1 /\ pub_commands' = pub_commands
        /\ pub_job' = [pub_job EXCEPT ![e] = IdleEditor]
    BY DEF AppendEvent
  <1>2. KindsOf(pub_events') = kinds \cup {job.event.kind}
    <2>1. entry.event.kind = job.event.kind
      OBVIOUS
    <2> HIDE DEF entry, job
    <2> QED  BY <1>1, <2>1 DEF KindsOf
  <1>3. \/ /\ fits /\ pub' = Applied(pub, job.event) /\ pub_cause' = pub_cause
        \/ /\ pub' = pub /\ pub_state = "replays" /\ ~fits /\ ~same
           /\ pub_cause' = IF job.again THEN "created again" ELSE IF late THEN "overtaken" ELSE "itself"
        \/ /\ pub' = pub /\ same /\ pub_cause' = IF late THEN "overtaken" ELSE "itself"
        \/ /\ pub' = pub /\ pub_cause' = pub_cause
    BY DEF AppendEvent
  <1>4. ~late => again = {} /\ (pub_state = "replays" /\ ~job.again => ~Rejects(pub, job.event))
    <2>1. ~late => job.seen = pub_rows
      BY <1>j, <1>s, <1>t DEF StillFits, PubTypes
    <2> QED  BY <2>1, <1>j, <1>s DEF StillFits
  <1>5. pub_cause' \in {"none", "created again", "overtaken"}
    <2>1. pub_cause \in {"none", "created again", "overtaken"}
      BY DEF PubInv
    <2>2. pub_cause' # pub_cause => pub_cause' \in {"created again", "overtaken"}
      BY <1>3, <1>4
    <2> QED  BY <2>1, <2>2
  <1>6. ProjectionEarned(pub, kinds) /\ pub \in Projection
    BY <1>t DEF PubInv, PubTypes
  <1> HIDE DEF kinds
  <1>7. /\ pub' \in Projection /\ ProjectionEarned(pub', kinds \cup {job.event.kind})
        /\ pub.source # "none" => pub'.source # "none"
    <2>1. CASE fits /\ pub' = Applied(pub, job.event)
      BY <2>1, <1>6, <1>j, <1>s, AppliedIsEarned
    <2>2. CASE pub' = pub
      BY <2>2, <1>6 DEF ProjectionEarned
    <2> QED  BY <2>1, <2>2, <1>3
  <1>8. PubTypes'
    <2>1. entry \in [id : Nat, event : PubEvent]
      BY <1>j
    <2>2. pub_job' \in [Editors -> EditorJob]
      BY <1>1, <1>t, EssayTyped DEF PubTypes
    <2> QED  BY <2>1, <2>2, <1>1, <1>7, <1>t DEF PubTypes
  <1>9. ASSUME NEW r \in pub_events', r.event.kind = "approve"
        PROVE  canonical_essay_governance(r.event.essay, pub')
    <2>1. canonical_essay_governance(r.event.essay, pub)
      <3>1. CASE r \in pub_events
        BY <1>9, <3>1 DEF PubInv
      <3>2. CASE r = entry
        BY <1>9, <3>2, <1>s DEF EventEarned
      <3> QED  BY <1>1, <3>1, <3>2
    <2> QED  BY <2>1, <1>7 DEF canonical_essay_governance
  <1>10. ASSUME NEW f \in Editors, pub_job'[f].pc # "idle"
         PROVE  EventEarned(pub_job[f].event, pub, KindsOf(pub_events))' /\ StillFits(pub_job[f])'
    <2>1. f # e /\ pub_job'[f] = pub_job[f]
      BY <1>1, <1>10, <1>t DEF PubTypes, IdleEditor
    <2>2. EventEarned(pub_job[f].event, pub, kinds) /\ StillFits(pub_job[f])
      BY <1>10, <2>1 DEF PubInv, kinds
    <2>3. PICK event : event = pub_job[f].event
      OBVIOUS
    <2>4. EventEarned(event, pub', kinds \cup {job.event.kind})
      BY <1>7, <2>2, <2>3, EarnedStays
    <2>5. EventEarned(pub_job[f].event, pub, KindsOf(pub_events))'
      BY <1>2, <2>1, <2>3, <2>4
    <2>6. pub_job[f].seen \in Nat /\ pub_rows \in Nat
      BY <1>t DEF PubTypes, EditorJob
    <2>7. pub_job'[f].seen <= pub_rows' /\ pub_job'[f].seen # pub_rows'
      BY <1>1, <2>1, <2>2, <2>6 DEF StillFits
    <2> QED  BY <2>5, <2>7 DEF StillFits
  <1> QED  BY <1>2, <1>5, <1>7, <1>8, <1>9, <1>10 DEF PubInv

LEMMA PubStepInv == PubInv /\ [PubNext]_pub_vars => PubInv'
  <1> SUFFICES ASSUME PubInv, [PubNext]_pub_vars PROVE PubInv'
    OBVIOUS
  <1>t. PubTypes
    BY DEF PubInv
  <1>i. IdleEditor \in EditorJob /\ IdleEditor.pc = "idle"
    BY EssayTyped DEF IdleEditor
  <1>1. ASSUME NEW e \in Editors, NEW id \in 1..(pub_commands + 1), NEW event \in Derivable(pub), BeginCommand(e, id, event)
        PROVE  PubInv'
    <2>1. PICK job : job = [pc |-> "check", id |-> id, event |-> event, seen |-> pub_rows, again |-> Exists(pub, event)]
      OBVIOUS
    <2>2. event \in PubEvent /\ EventEarned(event, pub, KindsOf(pub_events)) /\ (~Exists(pub, event) => ~Rejects(pub, event))
      BY <1>t, DerivedIsEarned DEF PubInv, PubTypes
    <2>3. Exists(pub, event) \in BOOLEAN
      BY DEF Exists
    <2>4. job \in EditorJob /\ job.pc = "check" /\ job.event = event /\ job.seen = pub_rows /\ job.again = Exists(pub, event)
      BY <2>1, <2>2, <2>3, <1>t DEF EditorJob, PubTypes
    <2>5. StillFits(job)
      BY <2>2, <2>4, <1>t DEF StillFits, PubTypes
    <2>6. pub_job' = [pub_job EXCEPT ![e] = job] /\ UNCHANGED <<pub, pub_events, pub_rows, pub_state, pub_cause>>
          /\ pub_commands' \in Nat
      BY <1>1, <2>1, <1>t DEF BeginCommand, PubTypes
    <2> QED  BY <2>2, <2>4, <2>5, <2>6, EditorMoves
  <1>2. ASSUME NEW e \in Editors, CheckCommand(e) PROVE PubInv'
    <2>1. UNCHANGED <<pub, pub_events, pub_rows, pub_state, pub_cause>> /\ pub_commands' \in Nat
      BY <1>2, <1>t DEF CheckCommand, PubTypes
    <2>2. CASE pub_state = "invalid" \/ \E r \in pub_events : r.id = pub_job[e].id
      <3>1. pub_job' = [pub_job EXCEPT ![e] = IdleEditor]
        BY <1>2, <2>2, <1>t DEF CheckCommand, PubTypes
      <3> QED  BY <2>1, <3>1, <1>i, EditorMoves
    <2>3. CASE ~(pub_state = "invalid" \/ \E r \in pub_events : r.id = pub_job[e].id)
      <3>1. PICK job : job = [pub_job[e] EXCEPT !.pc = "append"]
        OBVIOUS
      <3>2. pub_job' = [pub_job EXCEPT ![e] = job]
        BY <1>2, <2>3, <3>1, <1>t DEF CheckCommand, PubTypes
      <3>3. pub_job[e] \in EditorJob
        BY <1>t DEF PubTypes
      <3>4. job \in EditorJob /\ job.pc = "append" /\ job.id = pub_job[e].id /\ job.event = pub_job[e].event
            /\ job.seen = pub_job[e].seen /\ job.again = pub_job[e].again
        BY <3>1, <3>3 DEF EditorJob
      <3>5. EventEarned(pub_job[e].event, pub, KindsOf(pub_events)) /\ StillFits(pub_job[e])
        BY <1>2 DEF PubInv, CheckCommand
      <3>6. StillFits(job)
        BY <2>3, <3>4, <3>5 DEF StillFits
      <3> QED  BY <2>1, <3>2, <3>4, <3>5, <3>6, EditorMoves
    <2> QED  BY <2>2, <2>3
  <1>3. ASSUME NEW e \in Editors, AppendEvent(e) PROVE PubInv'
    BY <1>3, AppendKeepsPubInv
  <1>4. ASSUME NEW e \in Editors, EditorKilled(e) PROVE PubInv'
    <2>1. pub_job' = [pub_job EXCEPT ![e] = IdleEditor] /\ UNCHANGED <<pub, pub_events, pub_rows, pub_state, pub_cause>>
          /\ pub_commands' \in Nat
      BY <1>4, <1>t DEF EditorKilled, PubTypes
    <2> QED  BY <2>1, <1>i, EditorMoves
  <1>5. CASE UNCHANGED pub_vars
    BY <1>5 DEF pub_vars, PubInv, PubTypes, ProjectionEarned, EventEarned, canonical_essay_governance, StillFits, KindsOf
  <1> QED  BY <1>1, <1>2, <1>3, <1>4, <1>5 DEF PubNext

(* The invariant holds of every state of the editors.                        *)
LEMMA PubInvariant == PubSpec => []PubInv
  BY PubInitInv, PubStepInv, PTL DEF PubSpec

(* Every event on file and every command under way was begun once.          *)
BusyEditors == {e \in Editors : pub_job[e].pc # "idle"}
PubCounted ==
    /\ IsFiniteSet(BusyEditors)
    /\ pub_rows + Cardinality(BusyEditors) <= pub_commands /\ pub_commands <= MaxPubCommands

(* An append ends the command it was begun for.                              *)
LEMMA PubCountStep == PubInv /\ PubCounted /\ [PubNext]_pub_vars => PubCounted'
  <1> SUFFICES ASSUME PubInv, PubCounted, [PubNext]_pub_vars PROVE PubCounted'
    OBVIOUS
  <1>t. PubTypes /\ pub_rows \in Nat /\ pub_commands \in Nat /\ pub_job \in [Editors -> EditorJob] /\ MaxPubCommands \in Nat
    BY PublicationBoundAssumption DEF PubInv, PubTypes
  <1>b. IsFiniteSet(BusyEditors) /\ Cardinality(BusyEditors) \in Nat
        /\ pub_rows + Cardinality(BusyEditors) <= pub_commands /\ pub_commands <= MaxPubCommands
    BY FS_CardinalityType DEF PubCounted
  <1>1. ASSUME NEW e \in Editors, NEW id \in 1..(pub_commands + 1), NEW event \in Derivable(pub), BeginCommand(e, id, event)
        PROVE  PubCounted'
    <2>1. BusyEditors' = BusyEditors \cup {e} /\ e \notin BusyEditors
      BY <1>1, <1>t DEF BeginCommand, BusyEditors
    <2>2. pub_rows' = pub_rows /\ pub_commands' = pub_commands + 1 /\ pub_commands < MaxPubCommands
      BY <1>1 DEF BeginCommand
    <2>3. IsFiniteSet(BusyEditors') /\ Cardinality(BusyEditors') = Cardinality(BusyEditors) + 1
      BY <1>b, <2>1, FS_AddElement
    <2>4. IsFiniteSet(BusyEditors)' /\ Cardinality(BusyEditors)' = Cardinality(BusyEditors) + 1
      BY <2>3
    <2> QED  BY <1>b, <1>t, <2>2, <2>4 DEF PubCounted
  <1>2. ASSUME NEW e \in Editors, CheckCommand(e) PROVE PubCounted'
    <2>1. pub_rows' = pub_rows /\ pub_commands' = pub_commands /\ e \in BusyEditors
      BY <1>2 DEF CheckCommand, BusyEditors
    <2>2. \A f \in Editors \ {e} : pub_job'[f] = pub_job[f]
      BY <1>2, <1>t DEF CheckCommand
    <2>3. BusyEditors' = BusyEditors \/ BusyEditors' = BusyEditors \ {e}
      BY <2>1, <2>2 DEF BusyEditors
    <2>4. IsFiniteSet(BusyEditors') /\ Cardinality(BusyEditors') \in Nat /\ Cardinality(BusyEditors') <= Cardinality(BusyEditors)
      <3>1. IsFiniteSet(BusyEditors \ {e}) /\ Cardinality(BusyEditors \ {e}) = Cardinality(BusyEditors) - 1
        BY <1>b, <2>1, FS_RemoveElement
      <3>2. Cardinality(BusyEditors \ {e}) \in Nat
        BY <3>1, FS_CardinalityType
      <3> QED  BY <1>b, <2>3, <3>1, <3>2
    <2>5. IsFiniteSet(BusyEditors)' /\ Cardinality(BusyEditors)' \in Nat /\ Cardinality(BusyEditors)' <= Cardinality(BusyEditors)
      BY <2>4
    <2> QED  BY <1>b, <1>t, <2>1, <2>5 DEF PubCounted
  <1>3. ASSUME NEW e \in Editors, AppendEvent(e) \/ EditorKilled(e) PROVE PubCounted'
    <2>1. pub_rows' \in {pub_rows, pub_rows + 1} /\ pub_commands' = pub_commands /\ e \in BusyEditors
      BY <1>3 DEF AppendEvent, EditorKilled, BusyEditors
    <2>2. pub_job' = [pub_job EXCEPT ![e] = IdleEditor] /\ IdleEditor.pc = "idle"
      BY <1>3 DEF AppendEvent, EditorKilled, IdleEditor
    <2>3. BusyEditors' = BusyEditors \ {e}
      BY <1>t, <2>2 DEF BusyEditors
    <2>4. IsFiniteSet(BusyEditors') /\ Cardinality(BusyEditors') = Cardinality(BusyEditors) - 1
      BY <1>b, <2>1, <2>3, FS_RemoveElement
    <2>5. IsFiniteSet(BusyEditors)' /\ Cardinality(BusyEditors)' = Cardinality(BusyEditors) - 1
      BY <2>4
    <2> QED  BY <1>b, <1>t, <2>1, <2>5 DEF PubCounted
  <1>4. CASE UNCHANGED pub_vars
    BY <1>4 DEF pub_vars, PubCounted, BusyEditors
  <1> QED  BY <1>1, <1>2, <1>3, <1>4 DEF PubNext

(* The projection keeps its shape, and the ledger holds no more events than *)
(* commands were begun: each appends one at most (service.py).              *)
THEOREM PubTypesHold == PubSpec => []PubTypeOK
  <1>1. PubInit => PubCounted
    <2> SUFFICES ASSUME PubInit PROVE PubCounted
      OBVIOUS
    <2>1. BusyEditors = {} /\ pub_rows = 0 /\ pub_commands = 0
      BY DEF PubInit, IdleEditor, BusyEditors
    <2> QED  BY <2>1, FS_EmptySet, PublicationBoundAssumption DEF PubCounted
  <1>2. PubInv /\ PubCounted => PubTypeOK
    <2> SUFFICES ASSUME PubInv, PubCounted PROVE PubTypeOK
      OBVIOUS
    <2>1. pub \in Projection /\ pub_rows \in Nat /\ pub_commands \in Nat /\ MaxPubCommands \in Nat
      BY PublicationBoundAssumption DEF PubInv, PubTypes
    <2>2. Cardinality(BusyEditors) \in Nat
      BY FS_CardinalityType DEF PubCounted
    <2>3. pub_rows <= MaxPubCommands
      BY <2>1, <2>2 DEF PubCounted
    <2> QED  BY <2>1, <2>3 DEF PubTypeOK, Projection, Essay, PubTexts
  <1> QED  BY <1>1, <1>2, PubCountStep, PubInvariant, PTL DEF PubSpec

(* The publication ledger (service.py, ledgers.py, projection.py): however  *)
(* many editors overlap, retry and are killed, what stops its replay is a   *)
(* thing created twice or an event that was overtaken, and nothing is       *)
(* canonical or linked without a request, a review and an approval that     *)
(* governance accepts.                                                      *)
THEOREM PublicationsAreEarned == PubSpec => []PublicationIsEarned
  <1>1. PubInv => PublicationIsEarned
    BY DEF PubInv, PublicationIsEarned, ProjectionEarned, Behind, Earned, KindsOf
  <1> QED  BY <1>1, PubInvariant, PTL

----------------------------------------------------------------------------
(* A set of line numbers has a last one: a smallest set of those that are   *)
(* not before a member.                                                     *)
LEMMA LastLine ==
    ASSUME NEW n \in Nat, NEW lines, lines \subseteq 1..n, lines # {}
    PROVE  \E i \in lines : \A j \in lines : j <= i
  <1> DEFINE From(i) == {j \in lines : i <= j}
             Tails == {From(i) : i \in lines}
             R == StrictSubsetOrdering(lines)
  <1>1. IsFiniteSet(lines)
    <2>1. IsFiniteSet(1..n)
      BY FS_Interval
    <2> QED  BY <2>1, FS_Subset
  <1>2. IsWellFoundedOn(R, SUBSET lines)
    BY <1>1, FS_StrictSubsetOrderingWellFounded, FS_FiniteSubsetsOfFinite
  <1>3. Tails \subseteq SUBSET lines /\ Tails # {}
    OBVIOUS
  <1>4. PICK t \in Tails : \A u \in Tails : <<u, t>> \notin R
    <2> HIDE DEF Tails, R
    <2> QED  BY <1>2, <1>3, WFMin
  <1>5. PICK i \in lines : t = From(i)
    BY <1>4
  <1>6. ASSUME NEW j \in lines, ~(j <= i) PROVE FALSE
    <2>1. i \in Nat /\ j \in Nat /\ i < j
      BY <1>6
    <2>2. From(j) \subseteq From(i) /\ i \in From(i) /\ i \notin From(j)
      <3>1. \A k \in lines : k \in Nat
        OBVIOUS
      <3>2. \A k \in lines : j <= k => i <= k
        BY <2>1, <3>1
      <3>3. i <= i /\ ~(j <= i)
        BY <2>1
      <3> QED  BY <3>2, <3>3
    <2>3. From(j) \in Tails /\ From(j) \in SUBSET lines /\ From(i) \in SUBSET lines
      OBVIOUS
    <2> HIDE DEF From, Tails
    <2>4. From(j) # From(i)
      BY <2>2
    <2>5. <<From(j), From(i)>> \in R
      BY <2>2, <2>3, <2>4 DEF StrictSubsetOrdering
    <2> QED  BY <1>4, <1>5, <2>3, <2>5
  <1> QED  BY <1>6

----------------------------------------------------------------------------
(* The review of reports.                                                   *)
ReviewRow == [version : Versions \cup {0}, state : DecisionStates \cup {Accepted, "malformed"}, at : Moments \cup {0}]
ReviewSteps == {"idle", "exists", "open", "fill", "check", "append", "resolve", "reread", "intake"}
ReviewJob == [op : {"none", "create", "decide", "intake"}, pc : ReviewSteps, decision : ReviewRow, line : Nat, began : Nat]

ReviewTypes ==
    /\ report \in [version : Versions, whole : BOOLEAN]
    /\ artifacts \in [Versions -> {"none", "torn", "whole"}]
    /\ decisions \in Seq(ReviewRow) /\ Len(decisions) \in Nat
    /\ reviewing \in [Reviewers -> ReviewJob]
    /\ twins \in BOOLEAN /\ review_kills \in Nat

(* A line that accepts an artifact on file, and that no other up to `began' *)
(* overrules.                                                               *)
Founded(line, decision, began) ==
    /\ line \in 1..Len(decisions) /\ decisions[line] = decision
    /\ decision.state = Accepted /\ decision.version \in Versions /\ artifacts[decision.version] # "none"
    /\ \A i \in (line + 1)..began : decisions[i].version # decision.version

ReviewJobSound(job) ==
    /\ job.began <= Len(decisions) /\ job.line <= Len(decisions)
    /\ job.pc # "idle" => job.decision.version \in Versions
    /\ job.pc \in {"check", "append"} <=> job.op = "decide"
    /\ job.op = "decide" => ~IsTorn(job.decision)
    /\ job.pc \in {"resolve", "reread", "intake"} => artifacts[job.decision.version] # "none"
    /\ job.pc \in {"reread", "intake"} => Founded(job.line, job.decision, job.began)

ReviewInv ==
    /\ ReviewTypes
    /\ \A r \in Reviewers : ReviewJobSound(reviewing[r])
    /\ \A c \in intakes : c.began <= Len(decisions) /\ c.began \in Nat /\ Founded(c.line, c.decision, c.began)
    /\ ~Malformed(decisions) => \A d \in recorded : \E i \in 1..Len(decisions) : decisions[i] = d
    /\ \A i \in 1..Len(decisions) : IsTorn(decisions[i]) => i = Len(decisions)
    /\ Malformed(decisions) => review_kills > 0
    /\ DuplicateId(decisions) => twins
    /\ \A r \in Reviewers : reviewing[r].pc = "append" /\ ~twins =>
           \A i \in 1..Len(decisions) : decisions[i] # reviewing[r].decision
    /\ \A r, s \in Reviewers : r # s /\ reviewing[r].op = "decide" /\ reviewing[s].op = "decide"
                               /\ reviewing[r].decision = reviewing[s].decision => twins

LEMMA ReviewRowsTyped == TornLine \in ReviewRow /\ IsTorn(TornLine) /\ IdleReview \in ReviewJob
    /\ IdleReview.pc = "idle" /\ IdleReview.op = "none" /\ IdleReview.line = 0 /\ IdleReview.began = 0
  <1>1. TornLine \in ReviewRow /\ IsTorn(TornLine)
    BY DEF TornLine, DecisionRow, ReviewRow, IsTorn
  <1> QED  BY <1>1 DEF IdleReview, ReviewJob, ReviewSteps

(* A reviewer between two commands.                                          *)
LEMMA IdleIsSound == ASSUME ReviewTypes PROVE ReviewJobSound(IdleReview)
  BY ReviewRowsTyped DEF ReviewJobSound, ReviewTypes

LEMMA ReviewInitInv == ReviewInit => ReviewInv
  <1> SUFFICES ASSUME ReviewInit PROVE ReviewInv
    OBVIOUS
  <1>1. decisions = <<>> /\ intakes = {} /\ recorded = {} /\ twins = FALSE /\ review_kills = 0
        /\ reviewing = [r \in Reviewers |-> IdleReview] /\ report = [version |-> 1, whole |-> TRUE]
    BY DEF ReviewInit
  <1>2. decisions \in Seq(ReviewRow) /\ Len(decisions) = 0
    BY <1>1
  <1>3. report \in [version : Versions, whole : BOOLEAN]
    BY <1>1, ReviewAssumption DEF Versions
  <1>4. artifacts \in [Versions -> {"none", "torn", "whole"}]
    <2>1. PICK file \in {"none", "whole"} : artifacts = [v \in Versions |-> IF v = 1 THEN file ELSE "none"]
      BY DEF ReviewInit
    <2> QED  BY <2>1
  <1>5. ReviewTypes
    BY <1>1, <1>2, <1>3, <1>4, ReviewRowsTyped DEF ReviewTypes
  <1>6. \A r \in Reviewers : reviewing[r] = IdleReview
    BY <1>1
  <1>7. \A i \in 1..Len(decisions) : FALSE
    BY <1>2
  <1> QED  BY <1>1, <1>5, <1>6, <1>7, IdleIsSound, ReviewRowsTyped DEF ReviewInv, Malformed, DuplicateId

(* A longer log leaves founded what it was.                                  *)
LEMMA FoundedStays ==
    ASSUME NEW line \in Nat, NEW decision, NEW began \in Nat, Founded(line, decision, began),
           Len(decisions) \in Nat, began <= Len(decisions),
           Len(decisions') \in Nat, Len(decisions) <= Len(decisions'), \A i \in 1..Len(decisions) : decisions'[i] = decisions[i],
           \A v \in Versions : artifacts[v] # "none" => artifacts'[v] # "none"
    PROVE  Founded(line, decision, began)'
  <1>1. line \in 1..Len(decisions') /\ decisions'[line] = decision
    BY DEF Founded
  <1>2. \A i \in (line + 1)..began : decisions'[i].version # decision.version
    <2>1. \A i \in (line + 1)..began : i \in 1..Len(decisions)
      OBVIOUS
    <2> QED  BY <2>1 DEF Founded
  <1> QED  BY <1>1, <1>2 DEF Founded

(* A job that is left alone stays sound.                                    *)
LEMMA SoundStays ==
    ASSUME NEW job \in ReviewJob, ReviewJobSound(job),
           Len(decisions) \in Nat, Len(decisions') \in Nat, Len(decisions) <= Len(decisions'),
           \A i \in 1..Len(decisions) : decisions'[i] = decisions[i],
           \A v \in Versions : artifacts[v] # "none" => artifacts'[v] # "none"
    PROVE  ReviewJobSound(job)'
  <1>1. job.line \in Nat /\ job.began \in Nat
    BY DEF ReviewJob
  <1>2. job.pc \in {"reread", "intake"} => Founded(job.line, job.decision, job.began)'
    BY <1>1, FoundedStays DEF ReviewJobSound
  <1>3. job.began <= Len(decisions') /\ job.line <= Len(decisions')
    BY <1>1 DEF ReviewJobSound
  <1>4. job.pc \in {"resolve", "reread", "intake"} => artifacts'[job.decision.version] # "none"
    BY DEF ReviewJobSound
  <1> QED  BY <1>2, <1>3, <1>4 DEF ReviewJobSound

(* So an intake stays founded.                                               *)
LEMMA IntakesStay ==
    ASSUME NEW c, c.began <= Len(decisions), c.began \in Nat, Founded(c.line, c.decision, c.began),
           Len(decisions) \in Nat, Len(decisions') \in Nat, Len(decisions) <= Len(decisions'),
           \A i \in 1..Len(decisions) : decisions'[i] = decisions[i],
           \A v \in Versions : artifacts[v] # "none" => artifacts'[v] # "none"
    PROVE  c.began <= Len(decisions') /\ Founded(c.line, c.decision, c.began)'
  <1>1. PICK line, decision, began : line = c.line /\ decision = c.decision /\ began = c.began
    OBVIOUS
  <1>2. line \in Nat
    BY <1>1 DEF Founded
  <1>3. Founded(line, decision, began)'
    BY <1>1, <1>2, FoundedStays
  <1> QED  BY <1>1, <1>3

(* A command moves on, or an artifact changes, the log does not.            *)
LEMMA ReviewerMoves ==
    ASSUME ReviewInv, NEW r \in Reviewers, NEW job \in ReviewJob, reviewing' = [reviewing EXCEPT ![r] = job],
           UNCHANGED <<decisions, recorded, report>>,
           \A c \in intakes' : c \in intakes \/ (c.began <= Len(decisions) /\ c.began \in Nat /\ Founded(c.line, c.decision, c.began)),
           artifacts' \in [Versions -> {"none", "torn", "whole"}],
           \A v \in Versions : artifacts[v] # "none" => artifacts'[v] # "none",
           review_kills' \in Nat, review_kills <= review_kills',
           ReviewJobSound(job), twins' \in BOOLEAN, twins => twins',
           job.op = "decide" => \A s \in Reviewers \ {r} :
               reviewing[s].op = "decide" /\ reviewing[s].decision = job.decision => twins',
           job.pc = "append" => \A i \in 1..Len(decisions) : decisions[i] # job.decision
    PROVE  ReviewInv'
  <1>t. ReviewTypes
    BY DEF ReviewInv
  <1>l. decisions' = decisions /\ Len(decisions) \in Nat /\ Len(decisions) <= Len(decisions')
    BY <1>t DEF ReviewTypes
  <1>1. ReviewTypes'
    BY <1>t DEF ReviewTypes
  <1>2. reviewing'[r] = job /\ \A s \in Reviewers \ {r} : reviewing'[s] = reviewing[s]
    BY <1>t DEF ReviewTypes
  <1>3. ASSUME NEW s \in Reviewers PROVE ReviewJobSound(reviewing[s])'
    <2>1. PICK other \in ReviewJob : other = reviewing'[s]
      BY <1>1 DEF ReviewTypes
    <2>2. ReviewJobSound(other)
      BY <1>2, <2>1 DEF ReviewInv
    <2>3. ReviewJobSound(other)'
      BY <2>2, <1>l, SoundStays
    <2> QED  BY <2>1, <2>3
  <1>4. ASSUME NEW c \in intakes' PROVE c.began <= Len(decisions') /\ c.began \in Nat /\ Founded(c.line, c.decision, c.began)'
    <2>1. c.began <= Len(decisions) /\ c.began \in Nat /\ Founded(c.line, c.decision, c.began)
      BY <1>4 DEF ReviewInv
    <2> QED  BY <2>1, <1>l, IntakesStay
  <1>5. /\ ~Malformed(decisions') => \A d \in recorded' : \E i \in 1..Len(decisions') : decisions'[i] = d
        /\ \A i \in 1..Len(decisions') : IsTorn(decisions'[i]) => i = Len(decisions')
        /\ DuplicateId(decisions') => twins'
    BY <1>l DEF ReviewInv
  <1>6. Malformed(decisions') => review_kills' > 0
    <2>1. review_kills \in Nat
      BY <1>t DEF ReviewTypes
    <2> QED  BY <1>l, <2>1 DEF ReviewInv
  <1>7. ASSUME NEW s \in Reviewers, reviewing'[s].pc = "append", ~twins'
        PROVE  \A i \in 1..Len(decisions') : decisions'[i] # reviewing'[s].decision
    <2>1. CASE s = r
      BY <1>2, <1>7, <2>1, <1>l
    <2>2. CASE s # r
      BY <1>2, <1>7, <2>2, <1>l DEF ReviewInv
    <2> QED  BY <2>1, <2>2
  <1>8. ASSUME NEW s \in Reviewers, NEW u \in Reviewers, s # u, reviewing'[s].op = "decide", reviewing'[u].op = "decide",
               reviewing'[s].decision = reviewing'[u].decision
        PROVE  twins'
    <2>1. CASE s = r
      BY <1>2, <1>8, <2>1
    <2>2. CASE u = r
      BY <1>2, <1>8, <2>2
    <2>3. CASE s # r /\ u # r
      BY <1>2, <1>8, <2>3 DEF ReviewInv
    <2> QED  BY <2>1, <2>2, <2>3
  <1> QED  BY <1>1, <1>3, <1>4, <1>5, <1>6, <1>7, <1>8 DEF ReviewInv

(* A line is appended, whole or torn.                                       *)
LEMMA LogGrows ==
    ASSUME ReviewInv, NEW r \in Reviewers, reviewing[r].pc = "append", NEW line \in ReviewRow,
           line = reviewing[r].decision \/ IsTorn(line), decisions' = Appended(line),
           reviewing' = [reviewing EXCEPT ![r] = IdleReview],
           UNCHANGED <<artifacts, report, intakes, twins>>,
           recorded' = recorded \/ (recorded' = recorded \cup {line} /\ ~IsTorn(line)),
           review_kills' \in Nat, review_kills <= review_kills', IsTorn(line) => review_kills' > 0
    PROVE  ReviewInv'
  <1>t. ReviewTypes
    BY DEF ReviewInv
  <1>n. decisions \in Seq(ReviewRow) /\ Len(decisions) \in Nat /\ review_kills \in Nat
    BY <1>t DEF ReviewTypes
  <1>c. CASE decisions # <<>> /\ IsTorn(decisions[Len(decisions)])
    <2>1. decisions' = decisions
      BY <1>c DEF Appended
    <2>2. Malformed(decisions)
      <3>1. Len(decisions) \in 1..Len(decisions)
        BY <1>n, <1>c
      <3> QED  BY <1>c, <3>1 DEF Malformed
    <2>3. ReviewTypes'
      BY <1>t, <2>1, ReviewRowsTyped DEF ReviewTypes
    <2>4. reviewing'[r] = IdleReview /\ \A s \in Reviewers \ {r} : reviewing'[s] = reviewing[s]
      BY <1>t DEF ReviewTypes
    <2>5. ASSUME NEW s \in Reviewers PROVE ReviewJobSound(reviewing[s])'
      <3>1. PICK job \in ReviewJob : job = reviewing'[s]
        BY <2>3 DEF ReviewTypes
      <3>2. ReviewJobSound(job)
        BY <2>4, <3>1, <1>t, IdleIsSound DEF ReviewInv
      <3>3. ReviewJobSound(job)'
        BY <1>n, <2>1, <3>2, SoundStays
      <3> QED  BY <3>1, <3>3
    <2>6. ASSUME NEW c \in intakes' PROVE c.began <= Len(decisions') /\ c.began \in Nat /\ Founded(c.line, c.decision, c.began)'
      <3>1. c.began <= Len(decisions) /\ c.began \in Nat /\ Founded(c.line, c.decision, c.began)
        BY <2>6 DEF ReviewInv
      <3> QED  BY <1>n, <2>1, <3>1, IntakesStay
    <2>7. review_kills' > 0
      BY <1>n, <2>2 DEF ReviewInv
    <2>8. \A s \in Reviewers : reviewing'[s].pc = "append" \/ reviewing'[s].op = "decide" => reviewing'[s] = reviewing[s]
      BY <2>4, ReviewRowsTyped
    <2>9. /\ \A s \in Reviewers : reviewing'[s].pc = "append" /\ ~twins' =>
                 \A i \in 1..Len(decisions') : decisions'[i] # reviewing'[s].decision
          /\ \A s, u \in Reviewers : s # u /\ reviewing'[s].op = "decide" /\ reviewing'[u].op = "decide"
                               /\ reviewing'[s].decision = reviewing'[u].decision => twins'
      BY <2>1, <2>8 DEF ReviewInv
    <2>10. (DuplicateId(decisions') => twins') /\ \A i \in 1..Len(decisions') : IsTorn(decisions'[i]) => i = Len(decisions')
      BY <2>1 DEF ReviewInv
    <2> QED  BY <2>1, <2>2, <2>3, <2>5, <2>6, <2>7, <2>9, <2>10 DEF ReviewInv
  <1>d. CASE ~(decisions # <<>> /\ IsTorn(decisions[Len(decisions)]))
    <2>1. decisions' = Append(decisions, line)
      BY <1>d DEF Appended
    <2>2. ~Malformed(decisions)
      <3>1. \A i \in 1..Len(decisions) : i = Len(decisions) => decisions # <<>>
        BY <1>n
      <3> QED  BY <1>d, <3>1 DEF Malformed, ReviewInv
    <2>3. /\ decisions' \in Seq(ReviewRow) /\ Len(decisions') = Len(decisions) + 1 /\ decisions'[Len(decisions) + 1] = line
          /\ \A i \in 1..Len(decisions) : decisions'[i] = decisions[i]
      BY <1>n, <2>1
    <2>l. Len(decisions') \in Nat /\ Len(decisions) <= Len(decisions')
          /\ \A i \in 1..Len(decisions') : i \in 1..Len(decisions) \/ i = Len(decisions) + 1
      BY <1>n, <2>3
    <2>4. ReviewTypes'
      BY <1>t, <2>3, <2>l, ReviewRowsTyped DEF ReviewTypes
    <2>5. reviewing'[r] = IdleReview /\ \A s \in Reviewers \ {r} : reviewing'[s] = reviewing[s]
      BY <1>t DEF ReviewTypes
    <2>6. ASSUME NEW s \in Reviewers PROVE ReviewJobSound(reviewing[s])'
      <3>1. PICK job \in ReviewJob : job = reviewing'[s]
        BY <2>4 DEF ReviewTypes
      <3>2. ReviewJobSound(job)
        BY <2>5, <3>1, <1>t, IdleIsSound DEF ReviewInv
      <3>3. ReviewJobSound(job)'
        BY <1>n, <2>3, <2>l, <3>2, SoundStays
      <3> QED  BY <3>1, <3>3
    <2>7. ASSUME NEW c \in intakes' PROVE c.began <= Len(decisions') /\ c.began \in Nat /\ Founded(c.line, c.decision, c.began)'
      <3>1. c.began <= Len(decisions) /\ c.began \in Nat /\ Founded(c.line, c.decision, c.began)
        BY <2>7 DEF ReviewInv
      <3> QED  BY <1>n, <2>3, <2>l, <3>1, IntakesStay
    <2>8. ASSUME NEW d \in recorded' PROVE \E i \in 1..Len(decisions') : decisions'[i] = d
      <3>1. CASE d \in recorded
        <4>1. PICK i \in 1..Len(decisions) : decisions[i] = d
          BY <2>2, <3>1 DEF ReviewInv
        <4>2. i \in 1..Len(decisions')
          BY <1>n, <2>3
        <4> QED  BY <2>3, <4>1, <4>2
      <3>2. CASE d = line
        <4>1. Len(decisions) + 1 \in 1..Len(decisions')
          BY <1>n, <2>3
        <4> QED  BY <2>3, <3>2, <4>1
      <3> QED  BY <2>8, <3>1, <3>2
    <2>9. \A i \in 1..Len(decisions') : IsTorn(decisions'[i]) => i = Len(decisions')
      BY <2>2, <2>3, <2>l DEF Malformed
    <2>10. Malformed(decisions') => review_kills' > 0
      BY <2>2, <2>3, <2>l DEF Malformed
    <2>11. twins' = twins /\ reviewing[r].op = "decide" /\ ~IsTorn(reviewing[r].decision)
      BY DEF ReviewInv, ReviewJobSound
    <2>12. DuplicateId(decisions') => twins'
      <3> SUFFICES ASSUME NEW i \in 1..Len(decisions'), NEW j \in 1..Len(decisions'), i < j, decisions'[i] = decisions'[j]
                   PROVE  twins
        BY <2>11 DEF DuplicateId
      <3>1. i \in 1..Len(decisions) /\ decisions'[i] = decisions[i]
        BY <1>n, <2>3, <2>l
      <3>2. CASE j \in 1..Len(decisions)
        <4>1. decisions[i] = decisions[j]
          BY <2>3, <3>1, <3>2
        <4>2. DuplicateId(decisions)
          BY <3>1, <3>2, <4>1 DEF DuplicateId
        <4> QED  BY <4>2 DEF ReviewInv
      <3>3. CASE j = Len(decisions) + 1
        <4>1. decisions[i] = line
          BY <2>3, <3>1, <3>3
        <4>2. ~IsTorn(line)
          BY <2>2, <3>1, <4>1 DEF Malformed
        <4> QED  BY <3>1, <4>1, <4>2 DEF ReviewInv
      <3> QED  BY <2>l, <3>2, <3>3
    <2>13. ASSUME NEW s \in Reviewers, reviewing'[s].pc = "append", ~twins'
           PROVE  \A i \in 1..Len(decisions') : decisions'[i] # reviewing'[s].decision
      <3>1. s # r /\ reviewing'[s] = reviewing[s]
        BY <2>5, <2>13, ReviewRowsTyped
      <3>2. reviewing[s].op = "decide" /\ ~IsTorn(reviewing[s].decision)
        BY <2>13, <3>1 DEF ReviewInv, ReviewJobSound
      <3>3. line # reviewing[s].decision
        BY <2>11, <2>13, <3>1, <3>2 DEF ReviewInv
      <3>4. \A i \in 1..Len(decisions) : decisions[i] # reviewing[s].decision
        BY <2>11, <2>13, <3>1 DEF ReviewInv
      <3> QED  BY <2>3, <2>l, <3>1, <3>3, <3>4
    <2>14. \A s, u \in Reviewers : s # u /\ reviewing'[s].op = "decide" /\ reviewing'[u].op = "decide"
                               /\ reviewing'[s].decision = reviewing'[u].decision => twins'
      <3>1. \A s \in Reviewers : reviewing'[s].op = "decide" => reviewing'[s] = reviewing[s]
        BY <2>5, ReviewRowsTyped
      <3> QED  BY <2>11, <3>1 DEF ReviewInv
    <2> QED  BY <2>4, <2>6, <2>7, <2>8, <2>9, <2>10, <2>12, <2>13, <2>14 DEF ReviewInv
  <1> QED  BY <1>c, <1>d

LEMMA ReviewStepInv == ReviewInv /\ [ReviewNext]_review_vars => ReviewInv'
  <1> SUFFICES ASSUME ReviewInv, [ReviewNext]_review_vars PROVE ReviewInv'
    OBVIOUS
  <1>t. ReviewTypes
    BY DEF ReviewInv
  <1>n. decisions \in Seq(ReviewRow) /\ Len(decisions) \in Nat /\ review_kills \in Nat /\ twins \in BOOLEAN
        /\ artifacts \in [Versions -> {"none", "torn", "whole"}] /\ reviewing \in [Reviewers -> ReviewJob]
    BY <1>t DEF ReviewTypes
  <1>i. IdleReview \in ReviewJob /\ ReviewJobSound(IdleReview) /\ IdleReview.pc = "idle" /\ IdleReview.op = "none"
    BY <1>t, IdleIsSound, ReviewRowsTyped
  (* A command ends: it has no decision any more.                           *)
  <1>e. ASSUME NEW r \in Reviewers, End(r), UNCHANGED <<decisions, recorded, report, twins>>,
               \A c \in intakes' : c \in intakes \/ (c.began <= Len(decisions) /\ c.began \in Nat /\ Founded(c.line, c.decision, c.began)),
               artifacts' \in [Versions -> {"none", "torn", "whole"}],
               \A v \in Versions : artifacts[v] # "none" => artifacts'[v] # "none",
               review_kills' \in Nat, review_kills <= review_kills'
        PROVE  ReviewInv'
    BY <1>e, <1>i, <1>n, ReviewerMoves DEF End
  (* A command goes to its next step.                                       *)
  <1>g. ASSUME NEW r \in Reviewers, NEW job \in ReviewJob, reviewing' = [reviewing EXCEPT ![r] = job],
               ReviewJobSound(job), job.op = reviewing[r].op, job.op = "decide" => job.decision = reviewing[r].decision,
               job.pc = "append" => \A i \in 1..Len(decisions) : decisions[i] # job.decision,
               UNCHANGED <<decisions, intakes, recorded, report, twins, review_kills>>,
               artifacts' \in [Versions -> {"none", "torn", "whole"}],
               \A v \in Versions : artifacts[v] # "none" => artifacts'[v] # "none"
        PROVE  ReviewInv'
    <2>1. job.op = "decide" => \A s \in Reviewers \ {r} :
               reviewing[s].op = "decide" /\ reviewing[s].decision = job.decision => twins'
      BY <1>g, ZenonT(30) DEF ReviewInv
    <2>2. /\ \A c \in intakes' : c \in intakes \/ (c.began <= Len(decisions) /\ c.began \in Nat /\ Founded(c.line, c.decision, c.began))
          /\ review_kills' \in Nat /\ review_kills <= review_kills' /\ twins' \in BOOLEAN /\ (twins => twins')
          /\ UNCHANGED <<decisions, recorded, report>>
      BY <1>g, <1>n
    <2>3. /\ artifacts' \in [Versions -> {"none", "torn", "whole"}]
          /\ \A v \in Versions : artifacts[v] # "none" => artifacts'[v] # "none"
          /\ reviewing' = [reviewing EXCEPT ![r] = job] /\ ReviewJobSound(job)
          /\ job.pc = "append" => \A i \in 1..Len(decisions) : decisions[i] # job.decision
      BY <1>g
    <2> QED  BY <2>1, <2>2, <2>3, ReviewerMoves
  <1>p. ASSUME NEW r \in Reviewers, NEW pc \in ReviewSteps
        PROVE  LET job == [reviewing[r] EXCEPT !.pc = pc]
               IN  /\ job \in ReviewJob /\ job.pc = pc /\ job.op = reviewing[r].op /\ job.decision = reviewing[r].decision
                   /\ job.line = reviewing[r].line /\ job.began = reviewing[r].began
    BY <1>n DEF ReviewJob
  <1>1. ASSUME NEW whole \in BOOLEAN, WriteReport(whole) PROVE ReviewInv'
    <2>1. report' \in [version : Versions, whole : BOOLEAN]
      <3>1. report.version \in Nat /\ report.version \in 1..MaxReports /\ MaxReports \in Nat
        BY <1>t, ReviewAssumption DEF ReviewTypes, Versions
      <3>2. NextReport(whole).version \in 1..MaxReports
        BY <3>1 DEF NextReport
      <3> QED  BY <1>1, <3>2 DEF WriteReport, NextReport, Versions
    <2>2. ReviewTypes'
      BY <1>1, <1>t, <2>1 DEF WriteReport, ReviewTypes
    <2> QED  BY <1>1, <2>2 DEF WriteReport, ReviewInv, ReviewJobSound, Founded, Malformed, DuplicateId
  <1>2. ASSUME NEW r \in Reviewers, NEW op \in {"create", "intake", "decide"}, NEW v \in Versions,
               NEW decision \in ReviewRow, decision.version = v, op = "decide" => ~IsTorn(decision), BeginReview(r, op, decision)
        PROVE  ReviewInv'
    <2>1. PICK job : job = [op |-> op, pc |-> FirstStep(op), decision |-> decision, line |-> 0, began |-> Len(decisions)]
      OBVIOUS
    <2>2. FirstStep(op) = IF op = "create" THEN "exists" ELSE IF op = "decide" THEN "check" ELSE "resolve"
      BY DEF FirstStep
    <2>3. job \in ReviewJob /\ job.op = op /\ job.pc = FirstStep(op) /\ job.decision = decision /\ job.line = 0
          /\ job.began = Len(decisions)
      BY <2>1, <2>2, <1>n DEF ReviewJob, ReviewSteps
    <2>4. op = "intake" => artifacts[v] # "none"
      BY <1>2 DEF BeginReview, Startable
    <2>5. ReviewJobSound(job)
      BY <1>2, <1>n, <2>2, <2>3, <2>4 DEF ReviewJobSound
    <2>6. /\ twins' \in BOOLEAN /\ (twins => twins')
          /\ op = "decide" => \A s \in Reviewers \ {r} :
                 reviewing[s].op = "decide" /\ reviewing[s].decision = decision => twins'
      BY <1>2, <1>n DEF BeginReview
    <2>7. /\ reviewing' = [reviewing EXCEPT ![r] = job] /\ artifacts' = artifacts /\ intakes' = intakes
          /\ UNCHANGED <<decisions, recorded, report, review_kills>> /\ job.pc # "append"
      BY <1>2, <2>1, <2>2, <2>3 DEF BeginReview
    <2>8. /\ \A c \in intakes' : c \in intakes \/ (c.began <= Len(decisions) /\ c.began \in Nat /\ Founded(c.line, c.decision, c.began))
          /\ review_kills' \in Nat /\ review_kills <= review_kills'
          /\ artifacts' \in [Versions -> {"none", "torn", "whole"}]
          /\ \A u \in Versions : artifacts[u] # "none" => artifacts'[u] # "none"
      BY <1>n, <2>7
    <2>9. job.op = "decide" => \A s \in Reviewers \ {r} :
               reviewing[s].op = "decide" /\ reviewing[s].decision = job.decision => twins'
      BY <2>3, <2>6
    <2> QED  BY <2>3, <2>5, <2>6, <2>7, <2>8, <2>9, ReviewerMoves
  <1>3. ASSUME NEW r \in Reviewers, ArtifactExists(r) PROVE ReviewInv'
    <2>1. CASE End(r)
      BY <1>3, <1>e, <1>n, <2>1 DEF ArtifactExists, Untouched
    <2>2. CASE Goto(r, "open")
      <3>1. ReviewJobSound([reviewing[r] EXCEPT !.pc = "open"])
        BY <1>3, <1>p DEF ReviewInv, ReviewJobSound, ReviewSteps, ArtifactExists
      <3> QED  BY <1>3, <1>g, <1>p, <1>n, <2>2, <3>1 DEF ArtifactExists, Untouched, Goto, ReviewSteps
    <2> QED  BY <1>3, <2>1, <2>2 DEF ArtifactExists
  <1>a. ASSUME NEW r \in Reviewers, reviewing[r].pc # "idle", NEW file \in {"torn", "whole"},
               artifacts' = [artifacts EXCEPT ![reviewing[r].decision.version] = file]
        PROVE  /\ artifacts' \in [Versions -> {"none", "torn", "whole"}]
               /\ \A v \in Versions : artifacts[v] # "none" => artifacts'[v] # "none"
    BY <1>a, <1>n
  <1>4. ASSUME NEW r \in Reviewers, OpenArtifact(r) PROVE ReviewInv'
    <2>1. ReviewJobSound([reviewing[r] EXCEPT !.pc = "fill"])
      BY <1>4, <1>p DEF ReviewInv, ReviewJobSound, ReviewSteps, OpenArtifact
    <2>2. /\ artifacts' \in [Versions -> {"none", "torn", "whole"}]
          /\ \A v \in Versions : artifacts[v] # "none" => artifacts'[v] # "none"
      BY <1>4, <1>a DEF OpenArtifact
    <2> QED  BY <1>4, <1>g, <1>p, <2>1, <2>2 DEF OpenArtifact, Untouched, Goto, ReviewSteps
  <1>5. ASSUME NEW r \in Reviewers, FillArtifact(r) PROVE ReviewInv'
    <2>1. /\ artifacts' \in [Versions -> {"none", "torn", "whole"}]
          /\ \A v \in Versions : artifacts[v] # "none" => artifacts'[v] # "none"
      BY <1>5, <1>a DEF FillArtifact
    <2> QED  BY <1>5, <1>e, <1>n, <2>1 DEF FillArtifact, Untouched
  <1>6. ASSUME NEW r \in Reviewers, CheckDecision(r) PROVE ReviewInv'
    <2>1. CASE Malformed(decisions) \/ \E i \in 1..Len(decisions) : decisions[i] = reviewing[r].decision
      BY <1>6, <1>e, <1>n, <2>1 DEF CheckDecision, Untouched
    <2>2. CASE ~(Malformed(decisions) \/ \E i \in 1..Len(decisions) : decisions[i] = reviewing[r].decision)
      <3>1. PICK job : job = [reviewing[r] EXCEPT !.pc = "append"]
        OBVIOUS
      <3>2. /\ job \in ReviewJob /\ job.pc = "append" /\ job.op = reviewing[r].op /\ job.decision = reviewing[r].decision
            /\ job.line = reviewing[r].line /\ job.began = reviewing[r].began
        BY <1>p, <3>1 DEF ReviewSteps
      <3>3. ReviewJobSound(job)
        BY <1>6, <3>2 DEF ReviewInv, ReviewJobSound, CheckDecision
      <3>4. reviewing' = [reviewing EXCEPT ![r] = job]
        BY <1>6, <2>2, <3>1, <1>n DEF CheckDecision, Goto
      <3> QED  BY <1>6, <1>g, <1>n, <2>2, <3>2, <3>3, <3>4 DEF CheckDecision, Untouched
    <2> QED  BY <2>1, <2>2
  <1>7. ASSUME NEW r \in Reviewers, AppendReviewDecision(r) PROVE ReviewInv'
    <2>1. reviewing[r].decision \in ReviewRow /\ ~IsTorn(reviewing[r].decision)
      BY <1>7, <1>n DEF AppendReviewDecision, ReviewInv, ReviewJobSound, ReviewJob
    <2>2. PICK line \in ReviewRow : line = reviewing[r].decision
      BY <2>1
    <2>3. /\ decisions' = Appended(line) /\ recorded' = recorded \cup {line} /\ reviewing[r].pc = "append"
          /\ reviewing' = [reviewing EXCEPT ![r] = IdleReview] /\ UNCHANGED <<artifacts, report, intakes, twins>>
      BY <1>7, <2>2 DEF AppendReviewDecision, End
    <2>4. review_kills' \in Nat /\ review_kills <= review_kills' /\ ~IsTorn(line)
      BY <1>7, <1>n, <2>1, <2>2 DEF AppendReviewDecision
    <2> QED  BY <2>2, <2>3, <2>4, LogGrows
  <1>8. ASSUME NEW r \in Reviewers, ResolveForIntake(r) PROVE ReviewInv'
    <2> DEFINE v == reviewing[r].decision.version
    <2>1. PICK line : line = LatestDecision(decisions, v)
      OBVIOUS
    <2>2. CASE End(r)
      BY <1>8, <1>e, <1>n, <2>2 DEF ResolveForIntake, Untouched
    <2>3. CASE Resolvable(decisions) /\ line # 0 /\ decisions[line].state = Accepted
      <3>1. Matching(decisions, v) # {} /\ Matching(decisions, v) \subseteq 1..Len(decisions)
        BY <2>1, <2>3 DEF LatestDecision, Matching
      <3>2. \E i \in Matching(decisions, v) : \A j \in Matching(decisions, v) : j <= i
        BY <1>n, <3>1, LastLine
      <3>3. line \in Matching(decisions, v) /\ \A j \in Matching(decisions, v) : j <= line
        BY <2>1, <3>1, <3>2 DEF LatestDecision
      <3>4. line \in 1..Len(decisions) /\ decisions[line].version = v /\ decisions[line] \in ReviewRow /\ line \in Nat
        BY <1>n, <3>3 DEF Matching
      <3>5. ReviewJobSound(reviewing[r]) /\ reviewing[r] \in ReviewJob /\ reviewing[r].pc = "resolve"
        BY <1>8, <1>n DEF ReviewInv, ResolveForIntake
      <3>6. \A i \in (line + 1)..reviewing[r].began : decisions[i].version # v
        <4>1. \A i \in (line + 1)..reviewing[r].began : i \in 1..Len(decisions) /\ ~(i <= line)
          BY <1>n, <3>4, <3>5 DEF ReviewJobSound, ReviewJob
        <4> QED  BY <3>3, <4>1 DEF Matching
      <3>7. PICK decision \in ReviewRow : decision = decisions[line]
        BY <3>4
      <3>8. PICK job : job = [reviewing[r] EXCEPT !.pc = "reread", !.line = line, !.decision = decision]
        OBVIOUS
      <3>9. job \in ReviewJob /\ job.pc = "reread" /\ job.line = line /\ job.decision = decision
            /\ job.op = reviewing[r].op /\ job.began = reviewing[r].began
        BY <3>4, <3>5, <3>7, <3>8 DEF ReviewJob, ReviewSteps
      <3>10. v \in Versions /\ artifacts[v] # "none" /\ job.op # "decide" /\ job.began <= Len(decisions)
        BY <3>5, <3>9 DEF ReviewJobSound
      <3>11. Founded(line, decision, job.began)
        BY <2>3, <3>4, <3>6, <3>7, <3>9, <3>10 DEF Founded
      <3>12. ReviewJobSound(job)
        BY <1>n, <3>4, <3>7, <3>9, <3>10, <3>11 DEF ReviewJobSound
      <3>13. reviewing' = [reviewing EXCEPT ![r] = job]
        BY <1>8, <1>n, <2>1, <2>3, <3>7, <3>8 DEF ResolveForIntake
      <3> QED  BY <1>8, <1>g, <1>n, <3>9, <3>10, <3>12, <3>13 DEF ResolveForIntake, Untouched
    <2> QED  BY <1>8, <2>1, <2>2, <2>3 DEF ResolveForIntake
  <1>9. ASSUME NEW r \in Reviewers, RereadDecision(r) PROVE ReviewInv'
    <2>1. CASE Malformed(decisions)
      BY <1>9, <1>e, <1>n, <2>1 DEF RereadDecision, Untouched
    <2>2. CASE ~Malformed(decisions)
      <3>1. PICK job : job = [reviewing[r] EXCEPT !.pc = "intake"]
        OBVIOUS
      <3>2. /\ job \in ReviewJob /\ job.pc = "intake" /\ job.op = reviewing[r].op /\ job.decision = reviewing[r].decision
            /\ job.line = reviewing[r].line /\ job.began = reviewing[r].began
        BY <1>p, <3>1 DEF ReviewSteps
      <3>3. ReviewJobSound(job)
        BY <1>9, <3>2 DEF ReviewInv, ReviewJobSound, RereadDecision
      <3>4. reviewing' = [reviewing EXCEPT ![r] = job]
        BY <1>9, <2>2, <3>1, <1>n DEF RereadDecision, Goto
      <3> QED  BY <1>9, <1>g, <1>n, <3>2, <3>3, <3>4 DEF RereadDecision, Untouched
    <2> QED  BY <2>1, <2>2
  <1>10. ASSUME NEW r \in Reviewers, WriteIntake(r) PROVE ReviewInv'
    <2>1. PICK c : c = IntakeCandidate(reviewing[r])
      OBVIOUS
    <2>2. c.decision = reviewing[r].decision /\ c.line = reviewing[r].line /\ c.began = reviewing[r].began
      BY <2>1 DEF IntakeCandidate
    <2>3. c.began <= Len(decisions) /\ c.began \in Nat /\ Founded(c.line, c.decision, c.began)
      BY <1>10, <1>n, <2>2 DEF WriteIntake, ReviewInv, ReviewJobSound, ReviewJob
    <2>4. \A d \in intakes' : d \in intakes \/ d = c
      BY <1>10, <2>1 DEF WriteIntake
    <2>5. End(r) /\ UNCHANGED <<decisions, recorded, report, twins, artifacts, review_kills>>
      BY <1>10 DEF WriteIntake, Untouched
    <2> QED  BY <1>e, <1>n, <2>3, <2>4, <2>5
  <1>11. ASSUME NEW r \in Reviewers, ReviewKilled(r) PROVE ReviewInv'
    <2>1. review_kills' \in Nat /\ review_kills <= review_kills' /\ review_kills' > 0 /\ End(r)
          /\ UNCHANGED <<report, artifacts, intakes, recorded, twins>>
      BY <1>11, <1>n DEF ReviewKilled
    <2>2. CASE decisions' = decisions
      BY <1>e, <1>n, <2>1, <2>2
    <2>3. CASE reviewing[r].pc = "append" /\ decisions' = Appended(TornLine)
      BY <2>1, <2>3, LogGrows, ReviewRowsTyped DEF End
    <2> QED  BY <1>11, <2>2, <2>3 DEF ReviewKilled
  <1>12. CASE UNCHANGED review_vars
    BY <1>12 DEF review_vars, ReviewInv, ReviewTypes, ReviewJobSound, Founded, Malformed, DuplicateId
  <1>13. ASSUME NEW v \in Versions, NEW at
         PROVE  /\ at \in Moments \cup {0} => DecisionRow(v, Accepted, at) \in ReviewRow
                /\ DecisionRow(v, Accepted, at).version = v
                /\ \A state \in DecisionStates : /\ at \in Moments => DecisionRow(v, state, at) \in ReviewRow
                                                 /\ DecisionRow(v, state, at).version = v
                                                 /\ ~IsTorn(DecisionRow(v, state, at))
    BY ReviewAssumption DEF DecisionRow, ReviewRow, IsTorn
  <1>14. ASSUME NEW r \in Reviewers, NEW v \in Versions, BeginReview(r, "create", DecisionRow(v, Accepted, 0))
                \/ BeginReview(r, "intake", DecisionRow(v, Accepted, 0))
         PROVE  ReviewInv'
    BY <1>2, <1>13, <1>14
  <1>15. ASSUME NEW r \in Reviewers, NEW v \in Versions, NEW state \in DecisionStates, NEW at \in Moments,
                BeginReview(r, "decide", DecisionRow(v, state, at))
         PROVE  ReviewInv'
    BY <1>2, <1>13, <1>15
  <1> QED  BY <1>1, <1>3, <1>4, <1>5, <1>6, <1>7, <1>8, <1>9, <1>10, <1>11, <1>12, <1>14, <1>15 DEF ReviewNext

(* The invariant holds of every state of the reviewers.                      *)
LEMMA ReviewInvariant == ReviewSpec => []ReviewInv
  BY ReviewInitInv, ReviewStepInv, PTL DEF ReviewSpec

(* The review loop's part of TypeOK.                                        *)
THEOREM ReviewTypesHold == ReviewSpec => []ReviewTypeOK
  <1>1. ReviewInv => ReviewTypeOK
    <2> SUFFICES ASSUME ReviewInv PROVE ReviewTypeOK
      OBVIOUS
    <2>1. ReviewTypes /\ \A r \in Reviewers : ReviewJobSound(reviewing[r])
      BY DEF ReviewInv
    <2>2. \A i \in 1..Len(decisions) : decisions[i] \in ReviewRow
      BY <2>1 DEF ReviewTypes
    <2>3. \A i \in 1..Len(decisions) : decisions[i].version \in Versions \cup {0}
      BY <2>2 DEF ReviewRow
    <2> QED  BY <2>1, <2>3 DEF ReviewTypes, ReviewTypeOK, ReviewJobSound
  <1> QED  BY <1>1, ReviewInvariant, PTL

(* review_loop.py, review_state.py and proposal_intake.py without a lock:   *)
(* whatever overlaps and is killed, an intake rests on a decision on file   *)
(* that accepted it and was not overruled when the command started.         *)
THEOREM IntakesAreFounded == ReviewSpec => []IntakeIsFounded
  <1>1. ReviewInv => IntakeIsFounded
    BY DEF ReviewInv, IntakeIsFounded, Founded
  <1> QED  BY <1>1, ReviewInvariant, PTL

----------------------------------------------------------------------------
(* The reflective ledgers.  Rows of reflective pressure name rows of their  *)
(* own, rows of the corpus theirs.                                          *)
OfPressure == {"input", "classification", "draft", "observation", "correction", "golden"}
OfCorpus == {"fragment", "theme", "pressure", "candidate"}
IsLog(s) == \E S : s \in Seq(S)

(* What a row names is among the first n, and its id not among those that   *)
(* were looked up.                                                          *)
BackedBy(row, n) ==
    /\ Kind(row) \in OfPressure => /\ \A id \in row.refs : id[1] \in OfPressure
                                   /\ Kind(row) = "input" => row.about = row.id
                                   /\ Kind(row) # "input" => \E j \in 1..n : rows[j].id = row.about /\ Kind(rows[j]) = "input"
    /\ Kind(row) \notin OfPressure => Kind(row) \in OfCorpus /\ row.about = NoId /\ \A id \in row.refs : id[1] \in OfCorpus
    /\ \A id \in row.refs : \E j \in 1..n : rows[j].id = id /\ rows[j].about = row.about
    /\ row.checked \in Nat /\ row.checked <= n /\ \A j \in 1..row.checked : rows[j].id # row.id

RowsInv == IsLog(rows) /\ \A i \in 1..Len(rows) : BackedBy(rows[i], i - 1)

Chains == ImportChains \cup {<<"draft">>}
Busy(job) == job.pc \in {"checked", "written"}
AuthorSound(job) ==
    /\ job = [pc |-> job.pc, row |-> job.row, chain |-> job.chain]
    /\ job.pc \in {"idle", "detecting", "checked", "written"} /\ job.chain \in Chains
    /\ Busy(job) => BackedBy(job.row, Len(rows)) /\ (Kind(job.row) \in OfPressure => job.row.id[2] \in 0..(authored - 1))
    /\ job.pc = "written" => Kind(job.row) \in OfPressure
                             /\ \E i \in 1..Len(rows) : i \notin logged /\ rows[i].id = job.row.id
    /\ job.pc = "detecting" => \A id \in job.row.refs : id[1] = "fragment"

AuthorsInv ==
    /\ authoring = [a \in Authors |-> authoring[a]]
    /\ authored \in 0..MaxAuthored /\ author_kills \in 0..MaxAuthorKills
    /\ \A a \in Authors : AuthorSound(authoring[a])
    /\ \A a, b \in Authors : (a # b /\ Busy(authoring[a]) /\ Busy(authoring[b]) /\ Kind(authoring[a].row) \in OfPressure
                              /\ Kind(authoring[b].row) \in OfPressure) => authoring[a].row.id[2] # authoring[b].row.id[2]

Unlogged == {i \in OnFile : IsPressure(rows[i])} \ logged
WrittenBy == {a \in Authors : authoring[a].pc = "written"}
LogsInv == logged \subseteq OnFile /\ Cardinality(Unlogged) <= author_kills + Cardinality(WrittenBy)

(* A reconciliation that nothing overtook has read, or is about to read,    *)
(* every row of its ledgers.                                                *)
Covers(left, read, kinds) ==
    /\ left \in Seq(kinds) /\ read \subseteq 1..Len(rows) /\ \A i \in read : Kind(rows[i]) \in kinds
    /\ reconciling.since = Len(rows) => \A i \in 1..Len(rows) : Kind(rows[i]) \in kinds =>
           i \in read \/ \E k \in 1..Len(left) : left[k] = Kind(rows[i])
ReconcileInv ==
    /\ reconciling = [left |-> reconciling.left, read |-> reconciling.read, since |-> reconciling.since,
                      result |-> reconciling.result]
    /\ reconciling.since \in Nat /\ reconciling.since <= Len(rows)
    /\ reconciling.result.quiet => ~reconciling.result.reference_alarm
    /\ reconciling.left # <<>> => \E kinds \in {OfPressure, OfCorpus} : Covers(reconciling.left, reconciling.read, kinds)

ReflectInv == RowsInv /\ AuthorsInv /\ LogsInv /\ ReconcileInv

\* Appending to a pair gives the triple.
LEMMA AppendThird ==
    ASSUME NEW S, NEW a \in S, NEW b \in S, NEW c \in S
    PROVE  Append(<<a, b>>, c) = <<a, b, c>>
  <1>1. <<a, b>> \in Seq(S) /\ <<a, b, c>> \in Seq(S)
    OBVIOUS
  <1>2. Append(<<a, b>>, c) \in Seq(S) /\ Len(Append(<<a, b>>, c)) = 3
    BY <1>1, AppendProperties
  <1>3. \A i \in 1..3 : i = 1 \/ i = 2 \/ i = 3
    OBVIOUS
  <1>4. \A i \in 1..3 : Append(<<a, b>>, c)[i] = <<a, b, c>>[i]
    BY <1>1, <1>3, AppendProperties
  <1> QED  BY <1>1, <1>2, <1>4, SeqEqual

\* What a log of two rows holds.
LEMMA PairIsLog ==
    ASSUME NEW a, NEW b, NEW r, r = <<a, b>>
    PROVE  IsLog(r) /\ Len(r) = 2 /\ r[1] = a /\ r[2] = b
  <1>1. r \in Seq({a, b}) /\ Len(r) = 2 /\ r[1] = a /\ r[2] = b
    OBVIOUS
  <1> QED  BY <1>1 DEF IsLog

\* What a log of three rows holds.
LEMMA TripleIsLog ==
    ASSUME NEW a, NEW b, NEW c, NEW r, r = <<a, b, c>>
    PROVE  IsLog(r) /\ Len(r) = 3 /\ r[1] = a /\ r[2] = b /\ r[3] = c
  <1>1. r \in Seq({a, b, c}) /\ Len(r) = 3 /\ r[1] = a /\ r[2] = b /\ r[3] = c
    OBVIOUS
  <1> QED  BY <1>1 DEF IsLog

(* A log and one more row.                                                   *)
LEMMA LogFacts ==
    ASSUME NEW s, IsLog(s), NEW x
    PROVE  /\ Len(s) \in Nat /\ DOMAIN s = 1..Len(s)
           /\ IsLog(Append(s, x)) /\ Len(Append(s, x)) = Len(s) + 1 /\ Append(s, x)[Len(s) + 1] = x
           /\ \A i \in 1..Len(s) : Append(s, x)[i] = s[i]
  <1>1. PICK S : s \in Seq(S)
    BY DEF IsLog
  <1>2. PICK T : T = S \cup {x}
    OBVIOUS
  <1>3. s \in Seq(T) /\ x \in T
    BY <1>1, <1>2
  <1>4. Append(s, x) \in Seq(T)
    BY <1>3
  <1> QED  BY <1>3, <1>4 DEF IsLog

(* The rows on file are numbered.                                            *)
LEMMA OnFileIsOneToLen == ASSUME RowsInv PROVE OnFile = 1..Len(rows) /\ Len(rows) \in Nat
  BY LogFacts DEF RowsInv, OnFile

(* More rows back a row as well.                                            *)
LEMMA BackingStays ==
    ASSUME NEW row, NEW n \in Nat, NEW m \in Nat, n <= m, BackedBy(row, n), \A i \in 1..n : rows'[i] = rows[i]
    PROVE  BackedBy(row, m)'
  <1>1. \A j \in 1..n : j \in 1..m /\ rows'[j] = rows[j]
    OBVIOUS
  <1>2. Kind(row) \in OfPressure /\ Kind(row) # "input" => \E j \in 1..m : rows'[j].id = row.about /\ Kind(rows'[j]) = "input"
    BY <1>1 DEF BackedBy
  <1>3. \A id \in row.refs : \E j \in 1..m : rows'[j].id = id /\ rows'[j].about = row.about
    BY <1>1 DEF BackedBy
  <1>4. row.checked \in Nat /\ row.checked <= m /\ \A j \in 1..row.checked : j \in 1..n
    BY DEF BackedBy
  <1>5. \A j \in 1..row.checked : rows'[j].id # row.id
    BY <1>4 DEF BackedBy
  <1> QED  BY <1>2, <1>3, <1>4, <1>5 DEF BackedBy

(* What a command may append is backed by the rows on file.                 *)
LEMMA AcceptedIsBacked ==
    ASSUME RowsInv, NEW id, NEW about, NEW refs, NEW row, row = [id |-> id, about |-> about, refs |-> refs, checked |-> Len(rows)],
           Accepts(Row(id, about, refs)),
           id[1] \in OfPressure => (\A x \in refs : x[1] \in OfPressure) /\ (id[1] = "input" => about = id),
           id[1] \notin OfPressure => id[1] \in OfCorpus /\ about = NoId /\ \A x \in refs : x[1] \in OfCorpus
    PROVE  BackedBy(row, Len(rows)) /\ row.id = id /\ Kind(row) = id[1]
  <1>1. row.id = id /\ row.about = about /\ row.refs = refs /\ row.checked = Len(rows) /\ Kind(row) = id[1]
    BY DEF Kind
  <1>o. OnFile = 1..Len(rows) /\ Len(rows) \in Nat
    BY OnFileIsOneToLen
  <1>r. PICK plain : plain = Row(id, about, refs)
    OBVIOUS
  <1>s. plain.id = id /\ plain.about = about /\ plain.refs = refs /\ Kind(plain) = id[1] /\ (IsPressure(plain) <=> id[1] \in OfPressure)
    BY <1>r DEF Row, Kind, IsPressure, OfPressure
  <1>a. InputKnown(plain) /\ NewId(plain) /\ \A x \in refs : \E i \in OnFile : Names(i, x, plain)
    BY <1>r, <1>s DEF Accepts
  <1>2. id[1] \in OfPressure /\ id[1] # "input" => \E j \in 1..Len(rows) : rows[j].id = about /\ Kind(rows[j]) = "input"
    BY <1>a, <1>s, <1>o DEF InputKnown, IdsOf
  <1>3. ASSUME NEW x \in refs PROVE \E j \in 1..Len(rows) : rows[j].id = x /\ rows[j].about = about
    <2>1. PICK j \in 1..Len(rows) : Names(j, x, plain)
      BY <1>3, <1>a, <1>o
    <2>2. CASE id[1] \in OfPressure
      BY <2>1, <2>2, <1>s DEF Names
    <2>3. CASE id[1] \notin OfPressure
      <3>1. rows[j].id = x /\ x[1] \in OfCorpus /\ about = NoId
        BY <1>3, <2>1, <2>3 DEF Names
      <3>2. rows[j].about = NoId
        BY <3>1 DEF RowsInv, BackedBy, Kind, OfCorpus, OfPressure
      <3> QED  BY <3>1, <3>2
    <2> QED  BY <2>2, <2>3
  <1>4. \A j \in 1..Len(rows) : rows[j].id # id
    BY <1>a, <1>s, <1>o DEF NewId
  <1> QED  BY <1>1, <1>2, <1>3, <1>4, <1>o DEF BackedBy

(* An author between two commands.                                           *)
LEMMA IdleAuthorSound == AuthorSound(IdleAuthor) /\ ~Busy(IdleAuthor)
  BY DEF AuthorSound, IdleAuthor, Chains, ImportChains, Busy

(* The job of a command that has looked its row up.                         *)
LEMMA CheckedIsSound ==
    ASSUME RowsInv, NEW id, NEW about, NEW refs, NEW chain \in Chains, NEW job, job = Checked(Row(id, about, refs), chain),
           id[1] \in OfPressure => (\A x \in refs : x[1] \in OfPressure) /\ (id[1] = "input" => about = id)
                                   /\ id[2] \in 0..(authored' - 1),
           id[1] \notin OfPressure => id[1] \in OfCorpus /\ about = NoId /\ \A x \in refs : x[1] \in OfCorpus,
           rows' = rows
    PROVE  AuthorSound(job)' /\ job.pc \in {"idle", "checked"} /\ (Busy(job) => job.row.id = id)
  <1>1. CASE ~Accepts(Row(id, about, refs))
    <2>1. job = IdleAuthor
      BY <1>1 DEF Checked
    <2> QED  BY <2>1 DEF AuthorSound, IdleAuthor, Chains, ImportChains, Busy
  <1>2. CASE Accepts(Row(id, about, refs))
    <2>1. PICK row : row = [id |-> id, about |-> about, refs |-> refs, checked |-> Len(rows)]
      OBVIOUS
    <2>2. [Row(id, about, refs) EXCEPT !.checked = Len(rows)] = row
      BY <2>1 DEF Row
    <2>3. job = [pc |-> "checked", row |-> row, chain |-> chain]
      BY <1>2, <2>2 DEF Checked
    <2>4. BackedBy(row, Len(rows)) /\ row.id = id /\ Kind(row) = id[1]
      BY <1>2, <2>1, AcceptedIsBacked
    <2>5. BackedBy(row, Len(rows))'
      BY <2>4 DEF BackedBy
    <2>6. job.pc = "checked" /\ job.row = row /\ job.chain = chain
      BY <2>3
    <2> QED  BY <2>3, <2>4, <2>5, <2>6 DEF AuthorSound, Busy
  <1> QED  BY <1>1, <1>2

(* One command changes, and the others stay sound.                          *)
LEMMA AuthorsKeep ==
    ASSUME AuthorsInv, NEW a \in Authors, NEW job, authoring' = [authoring EXCEPT ![a] = job],
           authored' \in 0..MaxAuthored, author_kills' \in 0..MaxAuthorKills, AuthorSound(job)',
           \A other : (\E b \in Authors \ {a} : other = authoring[b]) => AuthorSound(other)',
           Busy(job) /\ Kind(job.row) \in OfPressure => \A b \in Authors \ {a} :
               Busy(authoring[b]) /\ Kind(authoring[b].row) \in OfPressure => authoring[b].row.id[2] # job.row.id[2]
    PROVE  AuthorsInv' /\ authoring'[a] = job /\ \A b \in Authors \ {a} : authoring'[b] = authoring[b]
  <1>1. authoring' = [b \in Authors |-> authoring'[b]] /\ authoring'[a] = job /\ \A b \in Authors \ {a} : authoring'[b] = authoring[b]
    BY DEF AuthorsInv
  <1>2. ASSUME NEW b \in Authors PROVE AuthorSound(authoring[b])'
    <2>1. PICK other : other = authoring'[b]
      OBVIOUS
    <2>2. AuthorSound(other)'
      BY <1>1, <2>1
    <2> QED  BY <2>1, <2>2
  <1>3. ASSUME NEW b \in Authors, NEW c \in Authors, b # c, Busy(authoring'[b]), Busy(authoring'[c]),
               Kind(authoring'[b].row) \in OfPressure, Kind(authoring'[c].row) \in OfPressure
        PROVE  authoring'[b].row.id[2] # authoring'[c].row.id[2]
    <2>1. CASE b = a
      BY <1>1, <1>3, <2>1
    <2>2. CASE c = a
      BY <1>1, <1>3, <2>2
    <2>3. CASE b # a /\ c # a
      BY <1>1, <1>3, <2>3 DEF AuthorsInv
    <2> QED  BY <2>1, <2>2, <2>3
  <1> QED  BY <1>1, <1>2, <1>3 DEF AuthorsInv, Busy

(* A command moves on without touching a ledger.                            *)
LEMMA AuthorMoves ==
    ASSUME ReflectInv, NEW a \in Authors, NEW job, authoring' = [authoring EXCEPT ![a] = job],
           UNCHANGED <<rows, logged, reconciling>>, authored' \in 0..MaxAuthored, authored <= authored',
           author_kills' \in 0..MaxAuthorKills, AuthorSound(job)', job.pc # "written",
           authoring[a].pc = "written" => author_kills' = author_kills + 1, author_kills <= author_kills',
           Busy(job) /\ Kind(job.row) \in OfPressure => \A b \in Authors \ {a} :
               Busy(authoring[b]) /\ Kind(authoring[b].row) \in OfPressure => authoring[b].row.id[2] # job.row.id[2]
    PROVE  ReflectInv'
  <1>1. AuthorsInv /\ authored \in Nat
    BY AuthorAssumption DEF ReflectInv, AuthorsInv
  <1>2. ASSUME NEW other, AuthorSound(other) PROVE AuthorSound(other)'
    <2>1. BackedBy(other.row, Len(rows)) => BackedBy(other.row, Len(rows))'
      BY DEF BackedBy
    <2>2. Busy(other)' <=> Busy(other)
      BY DEF Busy
    <2>3. other.row.id[2] \in 0..(authored - 1) => other.row.id[2] \in 0..(authored' - 1)
      BY <1>1, AuthorAssumption
    <2> QED  BY <1>2, <2>1, <2>2, <2>3 DEF AuthorSound
  <1>3. \A b \in Authors : AuthorSound(authoring[b])
    BY <1>1 DEF AuthorsInv
  <1>4. \A other : (\E b \in Authors \ {a} : other = authoring[b]) => AuthorSound(other)'
    BY <1>2, <1>3
  <1>5. AuthorsInv' /\ authoring'[a] = job /\ \A b \in Authors \ {a} : authoring'[b] = authoring[b]
    BY <1>1, <1>4, AuthorsKeep
  <1>6. LogsInv'
    <2>1. Unlogged' = Unlogged /\ WrittenBy' = WrittenBy \ {a} /\ logged' \subseteq OnFile'
      BY <1>5 DEF Unlogged, OnFile, WrittenBy, ReflectInv, LogsInv, IsPressure, Kind
    <2>2. IsFiniteSet(WrittenBy)
      BY AuthorAssumption, FS_Subset DEF WrittenBy
    <2>3. Cardinality(WrittenBy) \in Nat
      BY <2>2, FS_CardinalityType
    <2>4. a \in WrittenBy => Cardinality(WrittenBy \ {a}) = Cardinality(WrittenBy) - 1
      BY <2>2, FS_RemoveElement
    <2>5. a \notin WrittenBy => WrittenBy \ {a} = WrittenBy
      OBVIOUS
    <2>6. Cardinality(Unlogged) \in Nat
      <3>1. IsFiniteSet(1..Len(rows)) /\ Unlogged \subseteq 1..Len(rows)
        BY OnFileIsOneToLen, FS_Interval DEF ReflectInv, Unlogged
      <3> QED  BY <3>1, FS_Subset, FS_CardinalityType
    <2>7. author_kills \in Nat /\ author_kills' \in Nat
      BY <1>1, AuthorAssumption DEF AuthorsInv
    <2>8. Cardinality(Unlogged) <= author_kills + Cardinality(WrittenBy)
      BY DEF ReflectInv, LogsInv
    <2>9. a \in WrittenBy => author_kills' = author_kills + 1
      BY DEF WrittenBy
    <2>10. Cardinality(Unlogged) <= author_kills' + Cardinality(WrittenBy \ {a})
      <3>1. CASE a \in WrittenBy
        BY <3>1, <2>3, <2>4, <2>6, <2>7, <2>8, <2>9
      <3>2. CASE a \notin WrittenBy
        <4>1. WrittenBy \ {a} = WrittenBy
          BY <3>2, <2>5
        <4>2. author_kills <= author_kills'
          OBVIOUS
        <4>3. PICK u \in Nat, w \in Nat, k \in Nat, m \in Nat :
                  u = Cardinality(Unlogged) /\ w = Cardinality(WrittenBy) /\ k = author_kills /\ m = author_kills'
          BY <2>3, <2>6, <2>7
        <4>4. u <= k + w /\ k <= m
          BY <4>2, <4>3, <2>8
        <4>5. u <= m + w
          BY <4>4
        <4> QED  BY <4>1, <4>3, <4>5
      <3> QED  BY <3>1, <3>2
    <2> QED  BY <2>1, <2>10 DEF LogsInv
  <1>7. RowsInv' /\ ReconcileInv'
    <2>1. RowsInv'
      BY DEF ReflectInv, RowsInv, BackedBy
    <2>2. ReconcileInv'
      BY DEF ReflectInv, ReconcileInv, Covers
    <2> QED  BY <2>1, <2>2
  <1> QED  BY <1>5, <1>6, <1>7 DEF ReflectInv

(* A row is appended; of reflective pressure, its event is still to come.   *)
LEMMA RowAppended ==
    ASSUME ReflectInv, NEW a \in Authors, AppendRow(a)
    PROVE  ReflectInv'
  <1>i. RowsInv /\ AuthorsInv /\ LogsInv /\ ReconcileInv
    BY DEF ReflectInv
  <1>n. OnFile = 1..Len(rows) /\ Len(rows) \in Nat
    BY <1>i, OnFileIsOneToLen
  <1>1. PICK old : old = authoring[a]
    OBVIOUS
  <1>2. AuthorSound(old) /\ old.pc = "checked" /\ rows' = Append(rows, old.row)
        /\ UNCHANGED <<logged, reconciling, authored, author_kills>>
    BY <1>1, <1>i DEF AppendRow, AuthorsInv
  <1>3. BackedBy(old.row, Len(rows)) /\ old.chain \in Chains
        /\ (Kind(old.row) \in OfPressure => old.row.id[2] \in 0..(authored - 1))
    BY <1>2 DEF AuthorSound, Busy
  <1>4. /\ IsLog(rows') /\ Len(rows') = Len(rows) + 1 /\ rows'[Len(rows) + 1] = old.row
        /\ \A i \in 1..Len(rows) : rows'[i] = rows[i]
    BY <1>2, <1>i, LogFacts DEF RowsInv
  <1>5. Len(rows') \in Nat /\ Len(rows) <= Len(rows') /\ \A i \in 1..Len(rows') : i \in 1..Len(rows) \/ i = Len(rows) + 1
    BY <1>n, <1>4
  <1>6. RowsInv'
    <2> SUFFICES ASSUME NEW i \in 1..Len(rows') PROVE BackedBy(rows[i], i - 1)'
      BY <1>4 DEF RowsInv
    <2>1. PICK row : row = rows'[i]
      OBVIOUS
    <2>2. BackedBy(row, i - 1) /\ i - 1 \in Nat /\ i - 1 <= Len(rows)
      <3>1. CASE i \in 1..Len(rows)
        BY <1>i, <1>n, <1>4, <2>1, <3>1 DEF RowsInv
      <3>2. CASE i = Len(rows) + 1
        <4>1. i - 1 = Len(rows) /\ row = old.row
          BY <1>n, <1>4, <2>1, <3>2
        <4> QED  BY <1>3, <1>n, <4>1
      <3> QED  BY <1>5, <3>1, <3>2
    <2>3. \A j \in 1..(i - 1) : rows'[j] = rows[j]
      BY <1>n, <1>4, <2>2
    <2>4. BackedBy(row, i - 1)'
      BY <2>2, <2>3, BackingStays
    <2> QED  BY <2>1, <2>4
  <1>7. PICK job : job = IF IsPressure(old.row) THEN [old EXCEPT !.pc = "written"] ELSE IdleAuthor
    OBVIOUS
  <1>8. authoring' = [authoring EXCEPT ![a] = job]
    BY <1>1, <1>7 DEF AppendRow
  <1>9. Kind(old.row) \in OfPressure <=> IsPressure(old.row)
    BY DEF IsPressure, OfPressure
  <1>10. IsPressure(old.row) => job = [pc |-> "written", row |-> old.row, chain |-> old.chain]
    BY <1>2, <1>7 DEF AuthorSound
  <1>f. logged \subseteq 1..Len(rows)
    BY <1>i, <1>n DEF LogsInv
  <1>11. AuthorSound(job)'
    <2>1. CASE IsPressure(old.row)
      <3>1. job.pc = "written" /\ job.row = old.row /\ job.chain = old.chain
        BY <1>10, <2>1
      <3>2. BackedBy(job.row, Len(rows))'
        <4>1. PICK n \in Nat, m \in Nat : n = Len(rows) /\ m = Len(rows')
          BY <1>n, <1>5
        <4>row. PICK row : row = old.row
          OBVIOUS
        <4>2. BackedBy(row, m)'
          BY <1>3, <1>4, <1>5, <4>1, <4>row, BackingStays
        <4>3. BackedBy(job.row, m)'
          BY <3>1, <4>row, <4>2
        <4> QED  BY <4>1, <4>3
      <3>3. Len(rows) + 1 \in 1..Len(rows') /\ Len(rows) + 1 \notin logged'
        BY <1>2, <1>n, <1>4, <1>f
      <3>4. \E i \in 1..Len(rows') : i \notin logged' /\ rows'[i].id = job.row.id
        BY <1>4, <3>1, <3>3
      <3> QED  BY <1>2, <1>3, <1>9, <1>10, <2>1, <3>1, <3>2, <3>4 DEF AuthorSound, Busy
    <2>2. CASE ~IsPressure(old.row)
      BY <1>7, <2>2 DEF AuthorSound, IdleAuthor, Chains, ImportChains, Busy
    <2> QED  BY <2>1, <2>2
  <1>12. ASSUME NEW other, AuthorSound(other) PROVE AuthorSound(other)'
    <2>1. Busy(other) => BackedBy(other.row, Len(rows))'
      <3>1. PICK row : row = other.row
        OBVIOUS
      <3>2. Busy(other) => BackedBy(row, Len(rows))
        BY <1>12, <3>1 DEF AuthorSound
      <3>3. PICK n \in Nat, m \in Nat : n = Len(rows) /\ m = Len(rows')
        BY <1>n, <1>5
      <3>4. Busy(other) => BackedBy(row, m)'
        BY <1>4, <1>5, <3>2, <3>3, BackingStays
      <3>5. Busy(other) => BackedBy(other.row, m)'
        BY <3>1, <3>4
      <3> QED  BY <3>3, <3>5
    <2>2. other.pc = "written" => \E i \in 1..Len(rows') : i \notin logged' /\ rows'[i].id = other.row.id
      <3> SUFFICES ASSUME other.pc = "written" PROVE \E i \in 1..Len(rows') : i \notin logged' /\ rows'[i].id = other.row.id
        OBVIOUS
      <3>1. PICK i \in 1..Len(rows) : i \notin logged /\ rows[i].id = other.row.id
        BY <1>12 DEF AuthorSound
      <3>2. i \in 1..Len(rows') /\ rows'[i] = rows[i]
        BY <1>n, <1>4
      <3> QED  BY <1>2, <3>1, <3>2
    <2> QED  BY <1>2, <1>12, <2>1, <2>2 DEF AuthorSound, Busy
  <1>13. \A other : (\E b \in Authors \ {a} : other = authoring[b]) => AuthorSound(other)'
    BY <1>12, <1>i DEF AuthorsInv
  <1>14. Busy(job) /\ Kind(job.row) \in OfPressure => \A b \in Authors \ {a} :
             Busy(authoring[b]) /\ Kind(authoring[b].row) \in OfPressure => authoring[b].row.id[2] # job.row.id[2]
    <2>1. CASE IsPressure(old.row)
      <3>1. job.row = old.row /\ Busy(old)
        BY <1>2, <1>10, <2>1 DEF Busy
      <3> QED  BY <1>1, <1>i, <3>1 DEF AuthorsInv
    <2>2. CASE ~IsPressure(old.row)
      BY <1>7, <2>2, IdleAuthorSound
    <2> QED  BY <2>1, <2>2
  <1>15. authored' \in 0..MaxAuthored /\ author_kills' \in 0..MaxAuthorKills
    BY <1>2, <1>i DEF AuthorsInv
  <1>16. AuthorsInv' /\ authoring'[a] = job /\ \A b \in Authors \ {a} : authoring'[b] = authoring[b]
    BY <1>i, <1>8, <1>11, <1>13, <1>14, <1>15, AuthorsKeep
  <1>17. LogsInv'
    <2>f. PICK n \in Nat : n = Len(rows) /\ OnFile = 1..n
      BY <1>n
    <2>g. IsFiniteSet(1..n) /\ Unlogged \subseteq 1..n
      BY <2>f, FS_Interval DEF Unlogged
    <2>h. IsFiniteSet(Authors) /\ WrittenBy \subseteq Authors
      BY AuthorAssumption DEF WrittenBy
    <2>1. IsFiniteSet(Unlogged) /\ IsFiniteSet(WrittenBy)
      BY <2>g, <2>h, FS_Subset
    <2>2. Cardinality(Unlogged) \in Nat /\ Cardinality(WrittenBy) \in Nat
      BY <2>1, FS_CardinalityType
    <2>3. OnFile' = 1..(Len(rows) + 1)
      BY <1>6, <1>4, OnFileIsOneToLen, LogFacts DEF RowsInv, OnFile
    <2>4. logged' \subseteq OnFile'
      BY <1>2, <1>f, <1>n, <2>3
    <2>5. \A i \in 1..Len(rows) : IsPressure(rows'[i]) <=> IsPressure(rows[i])
      BY <1>4
    <2>6. CASE IsPressure(old.row)
      <3>1. Len(rows) + 1 \notin Unlogged /\ Len(rows) + 1 \notin logged
        <4>1. \A i \in 1..n : i # n + 1
          BY <2>f
        <4> QED  BY <1>n, <1>f, <2>f, <2>g, <4>1
      <3>2. Unlogged' = Unlogged \cup {Len(rows) + 1}
        <4>1. \A i : i \in OnFile' <=> i \in 1..Len(rows) \/ i = Len(rows) + 1
          BY <1>n, <2>3
        <4>2. Unlogged' = {i \in OnFile' : IsPressure(rows'[i])} \ logged
          BY <1>2 DEF Unlogged
        <4>3. Unlogged = {i \in 1..Len(rows) : IsPressure(rows[i])} \ logged
          BY <1>n DEF Unlogged
        <4> QED  BY <1>4, <2>5, <2>6, <3>1, <4>1, <4>2, <4>3
      <3>3. WrittenBy' = WrittenBy \cup {a} /\ a \notin WrittenBy
        <4>1. authoring'[a].pc = "written" /\ authoring[a].pc # "written"
          BY <1>1, <1>2, <1>10, <1>16, <2>6
        <4> QED  BY <1>16, <4>1 DEF WrittenBy
      <3>4. Cardinality(Unlogged') = Cardinality(Unlogged) + 1
        BY <2>1, <3>1, <3>2, FS_AddElement
      <3>5. Cardinality(WrittenBy') = Cardinality(WrittenBy) + 1
        BY <2>1, <3>3, FS_AddElement
      <3>6. author_kills' = author_kills /\ author_kills \in Nat /\ Cardinality(Unlogged) <= author_kills + Cardinality(WrittenBy)
        BY <1>2, <1>i, AuthorAssumption DEF AuthorsInv, LogsInv
      <3>7. Cardinality(Unlogged') <= author_kills' + Cardinality(WrittenBy')
        BY <2>2, <3>4, <3>5, <3>6
      <3> QED  BY <2>4, <3>7 DEF LogsInv
    <2>7. CASE ~IsPressure(old.row)
      <3>2. Unlogged' = Unlogged
        <4>1. \A i : i \in OnFile' <=> i \in 1..Len(rows) \/ i = Len(rows) + 1
          BY <1>n, <2>3
        <4>2. Unlogged' = {i \in OnFile' : IsPressure(rows'[i])} \ logged
          BY <1>2 DEF Unlogged
        <4>3. Unlogged = {i \in 1..Len(rows) : IsPressure(rows[i])} \ logged
          BY <1>n DEF Unlogged
        <4> QED  BY <1>4, <2>5, <2>7, <4>1, <4>2, <4>3
      <3>3. WrittenBy' = WrittenBy
        <4>1. authoring'[a].pc # "written" /\ authoring[a].pc # "written"
          BY <1>1, <1>2, <1>7, <1>16, <2>7 DEF IdleAuthor
        <4> QED  BY <1>16, <4>1 DEF WrittenBy
      <3> QED  BY <1>2, <1>i, <2>4, <3>2, <3>3 DEF LogsInv
    <2> QED  BY <2>6, <2>7
  <1>18. ReconcileInv'
    <2>1. reconciling' = reconciling /\ reconciling.since \in Nat /\ reconciling.since <= Len(rows)
      BY <1>2, <1>i DEF ReconcileInv
    <2>2. reconciling.since <= Len(rows') /\ reconciling.since # Len(rows')
      BY <1>n, <1>4, <2>1
    <2>3. ASSUME NEW kinds, Covers(reconciling.left, reconciling.read, kinds)
          PROVE  Covers(reconciling.left, reconciling.read, kinds)'
      <3>1. \A i \in reconciling.read : i \in 1..Len(rows) /\ i \in 1..Len(rows') /\ rows'[i] = rows[i]
        BY <1>n, <1>4, <2>3 DEF Covers
      <3> QED  BY <2>1, <2>2, <2>3, <3>1 DEF Covers
    <2> QED  BY <1>i, <2>1, <2>2, <2>3 DEF ReconcileInv
  <1> QED  BY <1>6, <1>16, <1>17, <1>18 DEF ReflectInv

(* The event of a written row is appended, and an import goes on.           *)
LEMMA EventAppended ==
    ASSUME ReflectInv, NEW a \in Authors, AppendLog(a)
    PROVE  ReflectInv'
  <1>i. RowsInv /\ AuthorsInv /\ LogsInv /\ ReconcileInv
    BY DEF ReflectInv
  <1>n. OnFile = 1..Len(rows) /\ Len(rows) \in Nat
    BY <1>i, OnFileIsOneToLen
  <1>1. PICK old : old = authoring[a]
    OBVIOUS
  <1>2. AuthorSound(old) /\ old.pc = "written" /\ UNCHANGED <<rows, reconciling, authored, author_kills>>
        /\ logged' = logged \cup {i \in OnFile : rows[i].id = old.row.id}
    BY <1>1, <1>i DEF AppendLog, AuthorsInv
  <1>3. Kind(old.row) \in OfPressure /\ old.chain \in Chains /\ Busy(old) /\ old.row.id[2] \in 0..(authored - 1)
        /\ old.row.id[1] \in OfPressure
    BY <1>2 DEF AuthorSound, Busy, Kind
  <1>4. PICK job : job = NextOf(old)
    OBVIOUS
  <1>5. authoring' = [authoring EXCEPT ![a] = job]
    BY <1>1, <1>4 DEF AppendLog
  <1>6. AuthorSound(job)' /\ job.pc \in {"idle", "checked"} /\ (Busy(job) => job.row.id[2] = old.row.id[2])
    <2>1. CASE old.chain = <<>>
      <3>1. job = IdleAuthor
        BY <1>4, <2>1 DEF NextOf
      <3> QED  BY <3>1 DEF AuthorSound, IdleAuthor, Chains, ImportChains, Busy
    <2>2. CASE old.chain # <<>>
      <3>1. PICK head, tail : head = Head(old.chain) /\ tail = Tail(old.chain)
        OBVIOUS
      <3>2. head \in {"classification", "draft"} /\ tail \in Chains
        <4>1. old.chain \in {<<"classification">>, <<"classification", "draft">>, <<"draft">>}
          BY <1>3, <2>2 DEF Chains, ImportChains
        <4>2. Head(<<"classification">>) = "classification" /\ Tail(<<"classification">>) = <<>>
          OBVIOUS
        <4>3. Head(<<"classification", "draft">>) = "classification" /\ Tail(<<"classification", "draft">>) = <<"draft">>
          OBVIOUS
        <4>4. Head(<<"draft">>) = "draft" /\ Tail(<<"draft">>) = <<>>
          OBVIOUS
        <4> QED  BY <3>1, <4>1, <4>2, <4>3, <4>4 DEF Chains, ImportChains
      <3>3. PICK id, about, refs : id = <<head, old.row.id[2], {}>> /\ about = old.row.about
                                   /\ refs = IF head = "draft" THEN {old.row.id} ELSE {}
        OBVIOUS
      <3>4. job = Checked(Row(id, about, refs), tail)
        BY <1>4, <2>2, <3>1, <3>3 DEF NextOf
      <3>5. id[1] = head /\ id[2] = old.row.id[2] /\ head \in OfPressure /\ head # "input"
        BY <3>2, <3>3 DEF OfPressure
      <3>6. \A x \in refs : x[1] \in OfPressure
        BY <1>3, <3>3
      <3>7. id[2] \in 0..(authored' - 1)
        BY <1>2, <1>3, <3>5
      <3>8. AuthorSound(job)' /\ job.pc \in {"idle", "checked"} /\ (Busy(job) => job.row.id = id)
        BY <1>2, <1>i, <3>2, <3>4, <3>5, <3>6, <3>7, CheckedIsSound
      <3> QED  BY <3>5, <3>8
    <2> QED  BY <2>1, <2>2
  <1>7. \A other : (\E b \in Authors \ {a} : other = authoring[b]) => AuthorSound(other)'
    <2> SUFFICES ASSUME NEW b \in Authors \ {a} PROVE \A other : other = authoring[b] => AuthorSound(other)'
      OBVIOUS
    <2>1. PICK other : other = authoring[b]
      OBVIOUS
    <2>2. AuthorSound(other)
      BY <1>i, <2>1 DEF AuthorsInv
    <2>3. other.pc = "written" => \E i \in 1..Len(rows) : i \notin logged' /\ rows[i].id = other.row.id
      <3> SUFFICES ASSUME other.pc = "written" PROVE \E i \in 1..Len(rows) : i \notin logged' /\ rows[i].id = other.row.id
        OBVIOUS
      <3>1. PICK i \in 1..Len(rows) : i \notin logged /\ rows[i].id = other.row.id
        BY <2>2 DEF AuthorSound
      <3>2. Busy(other) /\ Kind(other.row) \in OfPressure
        BY <2>2 DEF AuthorSound, Busy
      <3>3. other.row.id[2] # old.row.id[2]
        BY <1>1, <1>3, <1>i, <2>1, <3>2 DEF AuthorsInv
      <3>4. rows[i].id # old.row.id
        BY <3>1, <3>3
      <3> QED  BY <1>2, <3>1, <3>4
    <2>4. Busy(other) => BackedBy(other.row, Len(rows))'
      BY <1>2, <2>2 DEF AuthorSound, BackedBy
    <2>5. AuthorSound(other)'
      BY <1>2, <2>2, <2>3, <2>4 DEF AuthorSound, Busy
    <2> QED  BY <2>1, <2>5
  <1>8. Busy(job) /\ Kind(job.row) \in OfPressure => \A b \in Authors \ {a} :
             Busy(authoring[b]) /\ Kind(authoring[b].row) \in OfPressure => authoring[b].row.id[2] # job.row.id[2]
    BY <1>1, <1>3, <1>6, <1>i DEF AuthorsInv
  <1>9. authored' \in 0..MaxAuthored /\ author_kills' \in 0..MaxAuthorKills
    BY <1>2, <1>i DEF AuthorsInv
  <1>10. AuthorsInv' /\ authoring'[a] = job /\ \A b \in Authors \ {a} : authoring'[b] = authoring[b]
    BY <1>i, <1>5, <1>6, <1>7, <1>8, <1>9, AuthorsKeep
  <1>11. LogsInv'
    <2>f. PICK n \in Nat : n = Len(rows) /\ OnFile = 1..n
      BY <1>n
    <2>g. IsFiniteSet(1..n) /\ Unlogged \subseteq 1..n
      BY <2>f, FS_Interval DEF Unlogged
    <2>h. IsFiniteSet(Authors) /\ WrittenBy \subseteq Authors
      BY AuthorAssumption DEF WrittenBy
    <2>1. IsFiniteSet(Unlogged) /\ IsFiniteSet(WrittenBy)
      BY <2>g, <2>h, FS_Subset
    <2>2. PICK i \in 1..Len(rows) : i \notin logged /\ rows[i].id = old.row.id
      BY <1>2 DEF AuthorSound
    <2>3. i \in Unlogged
      BY <1>3, <1>n, <2>2 DEF Unlogged, IsPressure, Kind, OfPressure
    <2>4. i \in logged' /\ logged' \subseteq OnFile' /\ OnFile' = OnFile /\ logged \subseteq logged'
      BY <1>2, <1>i, <1>n, <2>2 DEF LogsInv, OnFile
    <2>5. Unlogged' = {k \in OnFile : IsPressure(rows[k])} \ logged'
      BY <1>2, <2>4 DEF Unlogged, IsPressure, Kind
    <2>6. Unlogged' \subseteq Unlogged \ {i}
      BY <2>4, <2>5 DEF Unlogged
    <2>7. WrittenBy' = WrittenBy \ {a} /\ a \in WrittenBy
      BY <1>1, <1>2, <1>6, <1>10 DEF WrittenBy
    <2>8. IsFiniteSet(Unlogged \ {i}) /\ Cardinality(Unlogged \ {i}) = Cardinality(Unlogged) - 1
      BY <2>1, <2>3, FS_RemoveElement
    <2>9. Cardinality(WrittenBy') = Cardinality(WrittenBy) - 1
      BY <2>1, <2>7, FS_RemoveElement
    <2>10. IsFiniteSet(Unlogged') /\ Cardinality(Unlogged') <= Cardinality(Unlogged \ {i})
      BY <2>6, <2>8, FS_Subset
    <2>11. Cardinality(Unlogged) \in Nat /\ Cardinality(WrittenBy) \in Nat /\ Cardinality(Unlogged') \in Nat
      BY <2>1, <2>10, FS_CardinalityType
    <2>12. author_kills' = author_kills /\ author_kills \in Nat /\ Cardinality(Unlogged) <= author_kills + Cardinality(WrittenBy)
      BY <1>2, <1>i, AuthorAssumption DEF AuthorsInv, LogsInv
    <2>13. Cardinality(Unlogged') <= author_kills' + Cardinality(WrittenBy')
      BY <2>8, <2>9, <2>10, <2>11, <2>12
    <2> QED  BY <2>4, <2>13 DEF LogsInv
  <1>12. RowsInv' /\ ReconcileInv'
    BY <1>2, <1>i DEF RowsInv, BackedBy, ReconcileInv, Covers
  <1> QED  BY <1>10, <1>11, <1>12 DEF ReflectInv

(* A reconciliation that nothing overtook has nothing to report: what a row *)
(* names was read with it.                                                  *)
LEMMA QuietIsClean ==
    ASSUME RowsInv, NEW kinds \in {OfPressure, OfCorpus}, NEW read, read \subseteq 1..Len(rows),
           \A i \in 1..Len(rows) : Kind(rows[i]) \in kinds <=> i \in read
    PROVE  reference_issues(read) = {}
  <1>n. OnFile = 1..Len(rows) /\ Len(rows) \in Nat
    BY OnFileIsOneToLen
  <1>1. ASSUME NEW i \in read PROVE BackedBy(rows[i], i - 1) /\ Kind(rows[i]) \in kinds
                                    /\ \A j \in 1..(i - 1) : j \in 1..Len(rows)
    BY <1>n DEF RowsInv
  <1>2. ASSUME NEW i \in read, NEW id \in rows[i].refs PROVE \E j \in read : Names(j, id, rows[i])
    <2>1. PICK j \in 1..(i - 1) : rows[j].id = id /\ rows[j].about = rows[i].about
      BY <1>1 DEF BackedBy
    <2>2. id[1] \in kinds
      BY <1>1 DEF BackedBy, OfPressure, OfCorpus
    <2>3. j \in read
      BY <1>1, <2>1, <2>2 DEF Kind
    <2> QED  BY <2>1, <2>3 DEF Names
  <1>3. ASSUME NEW i \in read, IsPressure(rows[i]) PROVE \E j \in read : rows[j].id = rows[i].about
    <2>1. Kind(rows[i]) \in OfPressure /\ kinds = OfPressure
      BY <1>1, <1>3 DEF IsPressure, OfPressure, OfCorpus
    <2>2. CASE Kind(rows[i]) = "input"
      BY <1>1, <2>1, <2>2 DEF BackedBy
    <2>3. CASE Kind(rows[i]) # "input"
      <3>1. PICK j \in 1..(i - 1) : rows[j].id = rows[i].about /\ Kind(rows[j]) = "input"
        BY <1>1, <2>1, <2>3 DEF BackedBy
      <3>2. j \in read
        BY <1>1, <2>1, <3>1 DEF OfPressure
      <3> QED  BY <3>1, <3>2
    <2> QED  BY <2>2, <2>3
  <1> QED  BY <1>2, <1>3 DEF reference_issues, corpus_reference_issues

(* A reconciliation reads one ledger after the other.                        *)
LEMMA ReconcileSteps ==
    ASSUME ReflectInv, BeginReconcile(PressureKinds) \/ BeginReconcile(CorpusKinds) \/ LoadLedger
    PROVE  ReflectInv'
  <1>i. RowsInv /\ AuthorsInv /\ LogsInv /\ ReconcileInv
    BY DEF ReflectInv
  <1>n. OnFile = 1..Len(rows) /\ Len(rows) \in Nat
    BY <1>i, OnFileIsOneToLen
  <1>1. UNCHANGED <<rows, logged, authoring, authored, author_kills>>
    BY DEF BeginReconcile, LoadLedger
  <1>2. RowsInv' /\ AuthorsInv' /\ LogsInv'
    <2>1. RowsInv'
      <3>1. ASSUME NEW i \in 1..Len(rows)
            PROVE  BackedBy(rows[i], i - 1)'
        <4>1. BackedBy(rows[i], i - 1)
          BY <1>i DEF RowsInv
        <4> QED  BY <1>1, <4>1, SMTT(30) DEF BackedBy
      <3> QED  BY <1>1, <1>i, <3>1, SMTT(30) DEF RowsInv
    <2>2. AuthorsInv'
      BY <1>1, <1>i DEF AuthorsInv, AuthorSound, BackedBy, Busy, Kind
    <2>3. LogsInv'
      BY <1>1, <1>i DEF LogsInv, Unlogged, WrittenBy, OnFile, IsPressure, Kind
    <2> QED  BY <2>1, <2>2, <2>3
  <1>3. ASSUME NEW order, NEW kinds \in {OfPressure, OfCorpus}, order \in Seq(kinds),
               \A kind \in kinds : \E k \in 1..Len(order) : order[k] = kind, BeginReconcile(order)
        PROVE  ReconcileInv'
    <2>1. reconciling' = [left |-> order, read |-> {}, since |-> Len(rows), result |-> NoReport]
      BY <1>3 DEF BeginReconcile, NoReconciliation
    <2>2. Covers(order, {}, kinds)'
      BY <1>1, <1>3 DEF Covers
    <2>3. reconciling'.left = order /\ reconciling'.read = {} /\ reconciling'.since = Len(rows) /\ reconciling'.result = NoReport
      BY <2>1
    <2> QED  BY <1>1, <1>3, <1>n, <2>1, <2>2, <2>3, SMTT(30) DEF ReconcileInv, NoReport, Covers
  <1>4. CASE BeginReconcile(PressureKinds)
    <2>1. PressureKinds \in Seq(OfPressure) /\ \A kind \in OfPressure : \E k \in 1..Len(PressureKinds) : PressureKinds[k] = kind
      BY DEF PressureKinds, OfPressure
    <2> QED  BY <1>2, <1>3, <1>4, <2>1 DEF ReflectInv
  <1>5. CASE BeginReconcile(CorpusKinds)
    <2>1. CorpusKinds \in Seq(OfCorpus) /\ \A kind \in OfCorpus : \E k \in 1..Len(CorpusKinds) : CorpusKinds[k] = kind
      BY DEF CorpusKinds, OfCorpus
    <2> QED  BY <1>2, <1>3, <1>5, <2>1 DEF ReflectInv
  <1>6. CASE LoadLedger
    <2>1. PICK kinds \in {OfPressure, OfCorpus} : Covers(reconciling.left, reconciling.read, kinds)
      BY <1>6, <1>i DEF ReconcileInv, LoadLedger
    <2>2. PICK read, left : read = reconciling.read \cup {i \in OnFile : Kind(rows[i]) = Head(reconciling.left)}
                            /\ left = Tail(reconciling.left)
      OBVIOUS
    <2>3. reconciling' = IF left # <<>> THEN [reconciling EXCEPT !.left = left, !.read = read]
                         ELSE [NoReconciliation EXCEPT !.result = Report(read, reconciling.since)]
      BY <1>6, <2>2 DEF LoadLedger
    <2>4. /\ reconciling.left \in Seq(kinds) /\ reconciling.left # <<>> /\ reconciling.left[1] = Head(reconciling.left)
          /\ left \in Seq(kinds) /\ Len(left) = Len(reconciling.left) - 1 /\ Len(reconciling.left) \in Nat
          /\ \A k \in 1..Len(left) : left[k] = reconciling.left[k + 1]
          /\ Head(reconciling.left) \in kinds
      BY <1>6, <2>1, <2>2 DEF LoadLedger, Covers
    <2>5. Covers(left, read, kinds)
      <3>1. read \subseteq 1..Len(rows) /\ \A i \in read : Kind(rows[i]) \in kinds
        BY <1>n, <2>1, <2>2, <2>4 DEF Covers
      <3>2. ASSUME reconciling.since = Len(rows), NEW i \in 1..Len(rows), Kind(rows[i]) \in kinds, i \notin read
            PROVE  \E k \in 1..Len(left) : left[k] = Kind(rows[i])
        <4>1. i \notin reconciling.read /\ Kind(rows[i]) # reconciling.left[1]
          BY <1>n, <2>2, <2>4, <3>2
        <4>2. PICK k \in 1..Len(reconciling.left) : reconciling.left[k] = Kind(rows[i])
          BY <2>1, <3>2, <4>1 DEF Covers
        <4>3. k # 1 /\ k - 1 \in 1..Len(left) /\ (k - 1) + 1 = k
          BY <2>4, <4>1, <4>2
        <4> QED  BY <2>4, <4>2, <4>3
      <3> QED  BY <2>4, <3>1, <3>2 DEF Covers
    <2>6. CASE left # <<>>
      <3>1. reconciling' = [reconciling EXCEPT !.left = left, !.read = read]
        BY <2>3, <2>6
      <3>2. reconciling'.left = left /\ reconciling'.read = read /\ reconciling'.since = reconciling.since
            /\ reconciling'.result = reconciling.result
            /\ reconciling' = [left |-> left, read |-> read, since |-> reconciling.since, result |-> reconciling.result]
        BY <1>i, <3>1 DEF ReconcileInv
      <3>3. Covers(left, read, kinds)'
        BY <1>1, <2>5, <3>2 DEF Covers
      <3> QED  BY <1>1, <1>2, <1>i, <3>2, <3>3 DEF ReflectInv, ReconcileInv, Covers
    <2>7. CASE left = <<>>
      <3>1. reconciling' = [NoReconciliation EXCEPT !.result = Report(read, reconciling.since)]
        BY <2>3, <2>7
      <3>2. Len(rows) = reconciling.since => reference_issues(read) = {}
        <4> SUFFICES ASSUME Len(rows) = reconciling.since PROVE reference_issues(read) = {}
          OBVIOUS
        <4>1. \A i \in 1..Len(rows) : Kind(rows[i]) \in kinds <=> i \in read
          BY <2>5, <2>7 DEF Covers
        <4>2. read \subseteq 1..Len(rows)
          BY <2>5 DEF Covers
        <4> QED  BY <1>i, <4>1, <4>2, QuietIsClean
      <3>3. PICK told : told = Report(read, reconciling.since)
        OBVIOUS
      <3>4. told.quiet => ~told.reference_alarm
        BY <3>2, <3>3 DEF Report
      <3>5. reconciling' = [left |-> <<>>, read |-> {}, since |-> 0, result |-> told]
        BY <3>1, <3>3 DEF NoReconciliation
      <3> QED  BY <1>1, <1>2, <1>n, <3>4, <3>5 DEF ReflectInv, ReconcileInv
    <2> QED  BY <2>6, <2>7
  <1> QED  BY <1>4, <1>5, <1>6

LEMMA ReflectInitInv ==
    ASSUME NEW histories \in {{PressureHistory}, {<<>>, CorpusHistory, DetectedHistory}}, ReflectInit(histories)
    PROVE  ReflectInv
  <1>1. authoring = [a \in Authors |-> IdleAuthor] /\ reconciling = NoReconciliation /\ authored = 0 /\ author_kills = 0
        /\ logged = {i \in OnFile : IsPressure(rows[i])}
    BY DEF ReflectInit
  <1>2. RowsInv
    <2>1. CASE rows = <<>>
      <3>1. <<>> \in Seq({}) /\ Len(<<>>) = 0
        OBVIOUS
      <3> QED  BY <2>1, <3>1 DEF RowsInv, IsLog
    <2>2. CASE rows = PressureHistory
      <3>1. PICK input, label : input = <<"input", MaxAuthored + 1, {}>> /\ label = <<"classification", MaxAuthored + 1, {}>>
        OBVIOUS
      <3>2. PICK first, second : first = [id |-> input, about |-> input, refs |-> {}, checked |-> 0]
                                 /\ second = [id |-> label, about |-> input, refs |-> {}, checked |-> 0]
        OBVIOUS
      <3>3. rows = <<first, second>>
        BY <2>2, <3>1, <3>2 DEF PressureHistory, Earlier, Row
      <3>4. IsLog(rows) /\ Len(rows) = 2 /\ rows[1] = first /\ rows[2] = second
        BY <3>3, PairIsLog
      <3>5. first.id = input /\ first.about = input /\ first.refs = {} /\ first.checked = 0 /\ Kind(first) = "input"
        BY <3>1, <3>2 DEF Kind
      <3>6. second.id = label /\ second.about = input /\ second.refs = {} /\ second.checked = 0 /\ Kind(second) = "classification"
        BY <3>1, <3>2 DEF Kind
      <3>7. BackedBy(rows[1], 0)
        BY <3>4, <3>5 DEF BackedBy, OfPressure
      <3>8. BackedBy(rows[2], 1)
        <4>1. 1 \in 1..1 /\ rows[1].id = input /\ Kind(rows[1]) = "input"
          BY <3>4, <3>5
        <4> QED  BY <3>4, <3>6, <4>1 DEF BackedBy, OfPressure
      <3>9. \A i \in 1..Len(rows) : (i = 1 /\ i - 1 = 0) \/ (i = 2 /\ i - 1 = 1)
        BY <3>4
      <3> QED  BY <3>4, <3>7, <3>8, <3>9 DEF RowsInv
    <2>3. CASE rows \in {CorpusHistory, DetectedHistory}
      <3>1. PICK left, right : left = FragmentId("left") /\ right = FragmentId("right")
        OBVIOUS
      <3>2. left[1] = "fragment" /\ right[1] = "fragment" /\ BothFragments = {left, right}
        BY <3>1 DEF FragmentId, BothFragments, Sides
      <3>3. PICK first, second, third : first = Row(left, NoId, {}) /\ second = Row(right, NoId, {})
                                        /\ third = Row(PressureId(BothFragments), NoId, BothFragments)
        OBVIOUS
      <3>4. /\ first.id = left /\ first.about = NoId /\ first.refs = {} /\ first.checked = 0 /\ Kind(first) = "fragment"
            /\ second.id = right /\ second.about = NoId /\ second.refs = {} /\ second.checked = 0 /\ Kind(second) = "fragment"
            /\ third.about = NoId /\ third.refs = {left, right} /\ third.checked = 0 /\ Kind(third) = "pressure"
        BY <3>2, <3>3 DEF Row, Kind, PressureId
      <3>5. CorpusHistory = <<first, second>> /\ DetectedHistory = <<first, second, third>>
        <4>1. CorpusHistory = <<first, second>>
          BY <3>1, <3>3 DEF CorpusHistory
        <4>2. DetectedHistory = Append(<<first, second>>, third)
          BY <4>1, <3>3 DEF DetectedHistory
        <4>3. Append(<<first, second>>, third) = <<first, second, third>>
          <5>1. first \in {first, second, third} /\ second \in {first, second, third} /\ third \in {first, second, third}
            OBVIOUS
          <5> QED  BY <5>1, AppendThird
        <4> QED  BY <4>1, <4>2, <4>3
      <3>6. IsLog(rows) /\ Len(rows) \in {2, 3} /\ rows[1] = first /\ rows[2] = second /\ (Len(rows) = 3 => rows[3] = third)
        <4>2. CASE rows = <<first, second>>
          <5>1. Len(rows) = 2 /\ 2 # 3
            BY <4>2, PairIsLog
          <5> QED  BY <4>2, <5>1, PairIsLog
        <4>3. CASE rows = <<first, second, third>>
          BY <4>3, TripleIsLog
        <4> QED  BY <2>3, <3>5, <4>2, <4>3
      <3>7. BackedBy(rows[1], 0) /\ BackedBy(rows[2], 1)
        BY <3>4, <3>6 DEF BackedBy, OfPressure, OfCorpus
      <3>8. Len(rows) = 3 => BackedBy(rows[3], 2)
        <4>1. 1 \in 1..2 /\ 2 \in 1..2
          OBVIOUS
        <4>2. \A id \in {left, right} : \E j \in 1..2 : rows[j].id = id /\ rows[j].about = NoId
          BY <3>4, <3>6, <4>1
        <4>3. \A id \in {left, right} : id[1] \in OfCorpus
          BY <3>2 DEF OfCorpus
        <4> QED  BY <3>4, <3>6, <4>2, <4>3 DEF BackedBy, OfPressure, OfCorpus
      <3>9. \A i \in 1..Len(rows) : (i = 1 /\ i - 1 = 0) \/ (i = 2 /\ i - 1 = 1) \/ (i = 3 /\ i - 1 = 2 /\ Len(rows) = 3)
        <4>1. CASE Len(rows) = 2
          BY <4>1
        <4>2. CASE Len(rows) = 3
          BY <4>2
        <4> QED  BY <3>6, <4>1, <4>2
      <3> QED  BY <3>6, <3>7, <3>8, <3>9 DEF RowsInv
    <2> QED  BY <2>1, <2>2, <2>3 DEF ReflectInit
  <1>n. OnFile = 1..Len(rows) /\ Len(rows) \in Nat
    BY <1>2, OnFileIsOneToLen
  <1>3. AuthorsInv
    <2>1. \A a \in Authors : authoring[a] = IdleAuthor
      BY <1>1
    <2> QED  BY <1>1, <2>1, IdleAuthorSound, AuthorAssumption DEF AuthorsInv
  <1>4. LogsInv
    <2>1. Unlogged = {} /\ WrittenBy = {}
      BY <1>1 DEF Unlogged, WrittenBy, IdleAuthor
    <2>2. Cardinality({}) = 0
      BY FS_EmptySet
    <2> QED  BY <1>1, <2>1, <2>2 DEF LogsInv
  <1>5. ReconcileInv
    BY <1>1, <1>n DEF ReconcileInv, NoReconciliation, NoReport
  <1> QED  BY <1>2, <1>3, <1>4, <1>5 DEF ReflectInv

(* The numbers of the commands in progress are below the next.              *)
LEMMA CommandStarts ==
    ASSUME ReflectInv, NEW a \in Authors, NEW job, Start(a, job), AuthorSound(job)', job.pc # "written",
           Busy(job) /\ Kind(job.row) \in OfPressure => job.row.id[2] = authored
    PROVE  ReflectInv'
  <1>1. /\ authoring[a].pc = "idle" /\ authored' = authored + 1 /\ authoring' = [authoring EXCEPT ![a] = job]
        /\ authored < MaxAuthored /\ UNCHANGED <<rows, logged, reconciling, author_kills>>
    BY DEF Start
  <1>2. authored \in 0..MaxAuthored /\ author_kills \in 0..MaxAuthorKills
    BY DEF ReflectInv, AuthorsInv
  <1>3. authored' \in 0..MaxAuthored /\ authored <= authored' /\ author_kills' \in 0..MaxAuthorKills /\ author_kills <= author_kills'
    BY <1>1, <1>2, AuthorAssumption
  <1>4. \A b \in Authors : Busy(authoring[b]) /\ Kind(authoring[b].row) \in OfPressure =>
            authoring[b].row.id[2] \in 0..(authored - 1)
    BY DEF ReflectInv, AuthorsInv, AuthorSound
  <1>5. authored \notin 0..(authored - 1)
    BY <1>2, AuthorAssumption
  <1>6. Busy(job) /\ Kind(job.row) \in OfPressure => \A b \in Authors \ {a} :
             Busy(authoring[b]) /\ Kind(authoring[b].row) \in OfPressure => authoring[b].row.id[2] # job.row.id[2]
    BY <1>4, <1>5
  <1> QED  BY <1>1, <1>3, <1>6, AuthorMoves

LEMMA ReflectStepInv == ReflectInv /\ [PressureNext \/ CorpusNext]_reflect_vars => ReflectInv'
  <1> SUFFICES ASSUME ReflectInv, [PressureNext \/ CorpusNext]_reflect_vars PROVE ReflectInv'
    OBVIOUS
  <1>i. RowsInv /\ AuthorsInv
    BY DEF ReflectInv
  <1>n. OnFile = 1..Len(rows) /\ Len(rows) \in Nat /\ authored \in Nat
    BY <1>i, OnFileIsOneToLen, AuthorAssumption DEF AuthorsInv
  <1>b. \A id, kind : id \in IdsOf({kind}) => id[1] = kind
    BY DEF IdsOf, Kind
  <1>1. ASSUME NEW a \in Authors, NEW chain \in ImportChains, BeginImport(a, chain) PROVE ReflectInv'
    <2>1. PICK id : id = FreshId("input")
      OBVIOUS
    <2>2. id[1] = "input" /\ id[2] = authored
      BY <2>1 DEF FreshId
    <2>3. PICK job : job = Checked(Row(id, id, {}), chain)
      OBVIOUS
    <2>4. Start(a, job) /\ chain \in Chains
      BY <1>1, <2>1, <2>3 DEF BeginImport, Chains
    <2>5. rows' = rows /\ id[2] \in 0..(authored' - 1)
      BY <1>n, <2>2, <2>4 DEF Start
    <2>6. AuthorSound(job)' /\ job.pc \in {"idle", "checked"} /\ (Busy(job) => job.row.id = id)
      BY <1>i, <2>2, <2>3, <2>4, <2>5, CheckedIsSound DEF OfPressure
    <2> QED  BY <2>2, <2>4, <2>6, CommandStarts
  <1>2. ASSUME NEW a \in Authors, NEW kind \in {"classification", "draft", "observation", "correction", "golden"},
               BeginRecord(a, kind)
        PROVE  ReflectInv'
    <2>1. PICK id : id = FreshId(kind)
      OBVIOUS
    <2>2. id[1] = kind /\ id[2] = authored /\ kind \in OfPressure /\ kind # "input"
      BY <2>1 DEF FreshId, OfPressure
    <2>3. PICK input \in IdsOf({"input"}), refs \in References(kind) : Start(a, Checked(Row(FreshId(kind), input, refs), <<>>))
      BY <1>2 DEF BeginRecord
    <2>4. PICK job : job = Checked(Row(id, input, refs), <<>>)
      OBVIOUS
    <2>5. Start(a, job) /\ <<>> \in Chains
      BY <2>1, <2>3, <2>4 DEF Chains, ImportChains
    <2>6. rows' = rows /\ id[2] \in 0..(authored' - 1)
      BY <1>n, <2>2, <2>5 DEF Start
    <2>7. \A x \in refs : x[1] \in OfPressure
      <3>1. \A kinds, x : x \in IdsOf(kinds) => x[1] \in kinds
        BY DEF IdsOf, Kind
      <3>2. kind = "classification" => refs = {}
        BY <2>3 DEF References
      <3>3. kind = "draft" => \A x \in refs : x \in IdsOf({"classification"})
        BY <2>3 DEF References, Classifications
      <3>4. kind = "observation" => \A x \in refs : x \in IdsOf({"draft"})
        BY <2>3 DEF References, ObservedDrafts
      <3>5. kind = "correction" => \A x \in refs : x \in IdsOf({"input", "classification", "draft", "observation"})
        BY <2>3 DEF References, CorrectionTargets
      <3>6. kind = "golden" => \A x \in refs : x \in IdsOf({"classification"}) \/ x \in IdsOf({"correction"}) \/ x \in IdsOf({"draft"})
        BY <2>3 DEF References, GoldenSources, Classifications, ObservedDrafts
      <3>7. {"classification"} \subseteq OfPressure /\ {"draft"} \subseteq OfPressure /\ {"correction"} \subseteq OfPressure
            /\ {"input", "classification", "draft", "observation"} \subseteq OfPressure
        BY DEF OfPressure
      <3> QED  BY <3>1, <3>2, <3>3, <3>4, <3>5, <3>6, <3>7
    <2>8. AuthorSound(job)' /\ job.pc \in {"idle", "checked"} /\ (Busy(job) => job.row.id = id)
      BY <1>i, <2>2, <2>4, <2>5, <2>6, <2>7, CheckedIsSound
    <2> QED  BY <2>2, <2>5, <2>8, CommandStarts
  <1>3. ASSUME NEW a \in Authors, BeginNote(a) PROVE ReflectInv'
    <2>1. PICK id \in BothFragments \cup {ThemeId} : Start(a, Checked(Row(id, NoId, {}), <<>>))
      BY <1>3 DEF BeginNote
    <2>2. id[1] \in {"fragment", "theme"}
      BY DEF BothFragments, FragmentId, ThemeId
    <2>3. PICK job : job = Checked(Row(id, NoId, {}), <<>>)
      OBVIOUS
    <2>4. Start(a, job) /\ <<>> \in Chains /\ rows' = rows /\ id[1] \in OfCorpus /\ id[1] \notin OfPressure
      BY <2>1, <2>2, <2>3 DEF Chains, ImportChains, Start, OfCorpus, OfPressure
    <2>5. AuthorSound(job)' /\ job.pc \in {"idle", "checked"} /\ (Busy(job) => job.row.id = id)
      BY <1>i, <2>3, <2>4, CheckedIsSound
    <2> QED  BY <2>4, <2>5, CommandStarts DEF Kind
  <1>4. ASSUME NEW a \in Authors, NEW kind \in {"pressure", "candidate"}, BeginDetection(a, kind) PROVE ReflectInv'
    <2>1. PICK row : row = Row(<<kind, 0, {}>>, NoId, IdsOf({"fragment"}))
      OBVIOUS
    <2>2. row.refs = IdsOf({"fragment"})
      BY <2>1 DEF Row
    <2>3. PICK job : job = [pc |-> "detecting", row |-> row, chain |-> <<>>]
      OBVIOUS
    <2>4. Start(a, job)
      BY <1>4, <2>1, <2>3 DEF BeginDetection
    <2>5. AuthorSound(job)' /\ job.pc = "detecting" /\ ~Busy(job)
      BY <1>b, <2>2, <2>3 DEF AuthorSound, Busy, Chains, ImportChains
    <2> QED  BY <2>4, <2>5, CommandStarts
  <1>5. ASSUME NEW a \in Authors, ReadThemes(a) PROVE ReflectInv'
    <2>1. PICK old : old = authoring[a]
      OBVIOUS
    <2>2. AuthorSound(old) /\ old.pc = "detecting"
      BY <1>5, <1>i, <2>1 DEF AuthorsInv, ReadThemes
    <2>3. PICK refs, pressure : refs = old.row.refs \cup IdsOf({"theme"}) /\ pressure = PressureId(old.row.refs)
      OBVIOUS
    <2>4. (\A x \in refs : x[1] \in {"fragment", "theme"}) /\ pressure[1] = "pressure"
      BY <1>b, <2>2, <2>3 DEF AuthorSound, PressureId
    <2>5. PICK job : job = Checked(IF Kind(old.row) = "pressure" THEN Row(pressure, NoId, refs)
                                   ELSE Row(CandidateId(refs), NoId, refs \cup {pressure}), <<>>)
      OBVIOUS
    <2>6. authoring' = [authoring EXCEPT ![a] = job] /\ UNCHANGED <<rows, logged, reconciling, authored, author_kills>>
      BY <1>5, <2>1, <2>3, <2>5 DEF ReadThemes
    <2>7. AuthorSound(job)' /\ job.pc \in {"idle", "checked"} /\ (Busy(job) => Kind(job.row) \notin OfPressure)
      <3>1. <<>> \in Chains /\ "pressure" \in OfCorpus /\ "pressure" \notin OfPressure /\ "candidate" \in OfCorpus
            /\ "candidate" \notin OfPressure /\ "fragment" \in OfCorpus /\ "theme" \in OfCorpus
        BY DEF Chains, ImportChains, OfCorpus, OfPressure
      <3>2. CASE Kind(old.row) = "pressure"
        <4>1. job = Checked(Row(pressure, NoId, refs), <<>>) /\ \A x \in refs : x[1] \in OfCorpus
          BY <2>4, <2>5, <3>1, <3>2
        <4>2. AuthorSound(job)' /\ job.pc \in {"idle", "checked"} /\ (Busy(job) => job.row.id = pressure)
          BY <1>i, <2>4, <2>6, <3>1, <4>1, CheckedIsSound
        <4> QED  BY <2>4, <3>1, <4>2 DEF Kind
      <3>3. CASE Kind(old.row) # "pressure"
        <4>1. PICK id, more : id = CandidateId(refs) /\ more = refs \cup {pressure}
          OBVIOUS
        <4>2. id[1] = "candidate" /\ job = Checked(Row(id, NoId, more), <<>>) /\ \A x \in more : x[1] \in OfCorpus
          BY <2>4, <2>5, <3>1, <3>3, <4>1 DEF CandidateId
        <4>3. AuthorSound(job)' /\ job.pc \in {"idle", "checked"} /\ (Busy(job) => job.row.id = id)
          BY <1>i, <2>6, <3>1, <4>2, CheckedIsSound
        <4> QED  BY <3>1, <4>2, <4>3 DEF Kind
      <3> QED  BY <3>2, <3>3
    <2>8. authored' \in 0..MaxAuthored /\ authored <= authored' /\ author_kills' \in 0..MaxAuthorKills /\ author_kills <= author_kills'
      BY <2>6, <1>i, AuthorAssumption DEF AuthorsInv
    <2> QED  BY <2>1, <2>2, <2>6, <2>7, <2>8, AuthorMoves
  <1>6. ASSUME NEW a \in Authors, AuthorKilled(a) PROVE ReflectInv'
    <2>1. authoring' = [authoring EXCEPT ![a] = IdleAuthor] /\ UNCHANGED <<rows, logged, reconciling, authored>>
          /\ author_kills' = author_kills + 1 /\ author_kills < MaxAuthorKills
      BY <1>6 DEF AuthorKilled
    <2>2. authored' \in 0..MaxAuthored /\ authored <= authored' /\ author_kills' \in 0..MaxAuthorKills /\ author_kills <= author_kills'
      BY <2>1, <1>i, AuthorAssumption DEF AuthorsInv
    <2>3. AuthorSound(IdleAuthor)' /\ IdleAuthor.pc # "written" /\ ~Busy(IdleAuthor)
      BY DEF AuthorSound, IdleAuthor, Chains, ImportChains, Busy
    <2> QED  BY <2>1, <2>2, <2>3, AuthorMoves
  <1>7. CASE UNCHANGED reflect_vars
    <2>1. RowsInv'
      BY <1>7 DEF reflect_vars, ReflectInv, RowsInv, BackedBy
    <2>2. AuthorsInv'
      BY <1>7 DEF reflect_vars, ReflectInv, AuthorsInv, AuthorSound, BackedBy, Busy, Kind
    <2>3. LogsInv'
      BY <1>7 DEF reflect_vars, ReflectInv, LogsInv, Unlogged, WrittenBy, OnFile, IsPressure, Kind
    <2>4. ReconcileInv'
      BY <1>7 DEF reflect_vars, ReflectInv, ReconcileInv, Covers
    <2> QED  BY <2>1, <2>2, <2>3, <2>4 DEF ReflectInv
  <1>8. CASE PressureNext
    BY <1>1, <1>2, <1>6, <1>8, RowAppended, EventAppended, ReconcileSteps DEF PressureNext, Recorded
  <1>9. CASE CorpusNext
    BY <1>3, <1>4, <1>5, <1>6, <1>9, RowAppended, ReconcileSteps DEF CorpusNext, Recorded
  <1> QED  BY <1>7, <1>8, <1>9

(* What the property says follows from the invariant.                        *)
LEMMA ReflectConsequences == ReflectInv => ReflectTypeOK /\ AlarmMeansOverlap
  <1> SUFFICES ASSUME ReflectInv PROVE ReflectTypeOK /\ AlarmMeansOverlap
    OBVIOUS
  <1>i. RowsInv /\ AuthorsInv /\ LogsInv /\ ReconcileInv
    BY DEF ReflectInv
  <1>n. OnFile = 1..Len(rows) /\ Len(rows) \in Nat
    BY <1>i, OnFileIsOneToLen
  <1>1. \A i \in 1..Len(rows) : BackedBy(rows[i], i - 1)
    BY <1>i DEF RowsInv
  <1>2. \A i \in OnFile : rows[i].checked < i
    BY <1>n, <1>1 DEF BackedBy
  <1>3. \A i \in OnFile : \A id \in rows[i].refs : \E j \in 1..(i - 1) : rows[j].id = id /\ rows[j].about = rows[i].about
    BY <1>n, <1>1 DEF BackedBy
  <1>4. ASSUME NEW i \in OnFile, NEW j \in OnFile, i < j, rows[i].id = rows[j].id PROVE rows[j].checked < i
    <2>1. rows[j].checked \in Nat /\ i \notin 1..rows[j].checked
      BY <1>n, <1>1, <1>4 DEF BackedBy
    <2> QED  BY <1>n, <2>1
  <1>5. Cardinality({i \in OnFile : IsPressure(rows[i])} \ logged)
           <= author_kills + Cardinality({a \in Authors : authoring[a].pc = "written"})
    BY <1>i DEF LogsInv, Unlogged, WrittenBy
  <1>6. AlarmMeansOverlap
    BY <1>3, <1>4, <1>5, <1>i DEF AlarmMeansOverlap, ReconcileInv
  <1>7. ReflectTypeOK
    BY <1>2, <1>i DEF ReflectTypeOK, LogsInv, AuthorsInv, AuthorSound
  <1> QED  BY <1>6, <1>7

(* reflective_pressure: however commands, imports and reconciliations       *)
(* overlap and are killed, an alarm means that something overtook.          *)
THEOREM PressureAlarms == PressureSpec => [](ReflectTypeOK /\ AlarmMeansOverlap)
  <1>1. ReflectInv /\ [PressureNext]_reflect_vars => ReflectInv'
    BY ReflectStepInv
  <1>2. ReflectInit({PressureHistory}) => ReflectInv
    BY ReflectInitInv
  <1> QED  BY <1>1, <1>2, ReflectConsequences, PTL DEF PressureSpec

(* The same of reflective_corpus.                                           *)
THEOREM CorpusAlarms == CorpusSpec => [](ReflectTypeOK /\ AlarmMeansOverlap)
  <1>1. ReflectInv /\ [CorpusNext]_reflect_vars => ReflectInv'
    BY ReflectStepInv
  <1>2. ReflectInit({<<>>, CorpusHistory, DetectedHistory}) => ReflectInv
    BY ReflectInitInv
  <1> QED  BY <1>1, <1>2, ReflectConsequences, PTL DEF CorpusSpec

----------------------------------------------------------------------------
(* The claims.  A call is somewhere in the plan of its action.              *)
ClaimRecord == [id : ClaimIds, refs : BOOLEAN, self : BOOLEAN, status : {"anchored", "provisional"},
                canonical : BOOLEAN, source : {"manual", "inbox"}]
ClaimActions == {"anchor", "draft", "publication_ready"}
ClaimPlan(action) ==
    IF action = "anchor" THEN AnchorSteps ELSE IF action = "draft" THEN DraftSteps ELSE DistributeSteps
StepNames == {"read", "write", "gate", "ledger", "anchor", "return", "log"} \cup Platforms
At(job, k) ==
    /\ k \in 1..Len(ClaimPlan(job.action))
    /\ job.todo = SubSeq(ClaimPlan(job.action), k, Len(ClaimPlan(job.action)))

(* What a canonical ledger that can be read says of a claim.                *)
Decided(i, action, decision) ==
    \E k \in DOMAIN canonical.entries : /\ canonical.entries[k].id = i
                                        /\ canonical.entries[k].about = action
                                        /\ canonical.entries[k].decision = decision
Cleared(claim, action) ==
    /\ claim.refs /\ ~claim.self
    /\ claim.canonical /\ Readable(canonical) => Decided(claim.id, action, Promote)

(* What a call has behind it when step k is next.                           *)
Reached(job, k) ==
    /\ k > 2 /\ job.claim.canonical /\ Readable(canonical) =>
           Decided(job.claim.id, job.action, evaluate_claim_evidence(job.claim, job.action))
    /\ k > 3 => evaluate_claim_evidence(job.claim, job.action) \notin Rejecting
    /\ job.action = "anchor" => job.claim.status \notin Provisional /\ (k > 4 => job.claim \in claims_ledger)
    /\ job.action = "publication_ready" =>
           job.claim \in drafts \cup claims_ledger /\ job.ok \subseteq distributed[job.claim.id]
CallSound(job) ==
    /\ job = [todo |-> job.todo, claim |-> job.claim, action |-> job.action, prev |-> job.prev, ok |-> job.ok]
    /\ job.claim \in ClaimRecord /\ job.action \in ClaimActions /\ job.ok \subseteq Platforms
    /\ job.claim.id <= claim_calls
    /\ \E k \in Nat : At(job, k) /\ Reached(job, k)

Known == drafts \cup claims_ledger \cup {claim_call[c].claim : c \in {d \in Callers : claim_call[d] # NoCall}}

ClaimTypes ==
    /\ drafts \subseteq ClaimRecord /\ claims_ledger \subseteq ClaimRecord
    /\ anchored \subseteq ClaimIds
    /\ distributed \in [ClaimIds -> SUBSET Platforms]
    /\ claim_calls \in 0..MaxClaimCalls
    /\ IsLog(canonical.entries) /\ canonical = [entries |-> canonical.entries, torn |-> canonical.torn]
    /\ canonical.torn \in BOOLEAN
    /\ claim_call = [c \in Callers |-> claim_call[c]]

OneClaimPerId ==
    /\ \A claim \in Known : claim.id <= claim_calls
    /\ \A claim, other \in Known : claim.id = other.id => claim = other
AnchoredSound == \A i \in anchored : \E claim \in claims_ledger : claim.id = i /\ Cleared(claim, "anchor")
DistributedSound ==
    \A i \in ClaimIds : distributed[i] # {} =>
        \E claim \in drafts \cup claims_ledger : claim.id = i /\ Cleared(claim, "publication_ready")
LogSound == \A e \in distribution_log : e.id \in ClaimIds /\ (e.status = "complete" => distributed[e.id] = Platforms)

ClaimInv ==
    /\ ClaimTypes /\ OneClaimPerId /\ AnchoredSound /\ DistributedSound /\ LogSound
    /\ \A c \in Callers : claim_call[c] = NoCall \/ CallSound(claim_call[c])

(* The three plans, step by step.                                           *)
LEMMA Plans ==
    /\ \A action \in ClaimActions : ClaimPlan(action) \in Seq(StepNames) /\ Len(ClaimPlan(action)) \in {4, 6, 8}
    /\ \A action \in ClaimActions : \A k \in 1..Len(ClaimPlan(action)) :
          /\ ClaimPlan(action)[k] = "read" => k = 1
          /\ ClaimPlan(action)[k] = "write" => k = 2
          /\ ClaimPlan(action)[k] = "gate" => k = 3
          /\ ClaimPlan(action)[k] = "ledger" => action = "anchor" /\ k = 4
          /\ ClaimPlan(action)[k] = "anchor" => action = "anchor" /\ k = 5
          /\ ClaimPlan(action)[k] = "return" => k > 3 /\ action # "publication_ready"
          /\ ClaimPlan(action)[k] \in Platforms => k > 3 /\ k < 8 /\ action = "publication_ready"
          /\ ClaimPlan(action)[k] = "log" => k > 3 /\ action = "publication_ready"
  <1>1. ASSUME NEW k, k \in 1..4 \/ k \in 1..6 \/ k \in 1..8
        PROVE  k = 1 \/ k = 2 \/ k = 3 \/ k = 4 \/ k = 5 \/ k = 6 \/ k = 7 \/ k = 8
    BY <1>1
  <1>2. /\ ClaimPlan("anchor") = AnchorSteps /\ ClaimPlan("draft") = DraftSteps
        /\ ClaimPlan("publication_ready") = DistributeSteps
    BY DEF ClaimPlan
  <1>3. AnchorSteps \in Seq(StepNames) /\ Len(AnchorSteps) = 6
    <2>1. Len(AnchorSteps) = 6
      BY DEF AnchorSteps
    <2>2. AnchorSteps \in Seq(StepNames)
      BY DEF AnchorSteps, StepNames, Platforms
    <2> QED  BY <2>1, <2>2
  <1>4. DraftSteps \in Seq(StepNames) /\ Len(DraftSteps) = 4
    <2>1. Len(DraftSteps) = 4
      BY DEF DraftSteps
    <2>2. DraftSteps \in Seq(StepNames)
      BY DEF DraftSteps, StepNames, Platforms
    <2> QED  BY <2>1, <2>2
  <1>5. DistributeSteps \in Seq(StepNames) /\ Len(DistributeSteps) = 8
    <2>1. Len(DistributeSteps) = 8
      BY DEF DistributeSteps
    <2>2. DistributeSteps \in Seq(StepNames)
      BY DEF DistributeSteps, StepNames, Platforms
    <2> QED  BY <2>1, <2>2
  <1>6. ASSUME NEW k \in 1..6
        PROVE  /\ AnchorSteps[k] = "read" => k = 1
               /\ AnchorSteps[k] = "write" => k = 2
               /\ AnchorSteps[k] = "gate" => k = 3
               /\ AnchorSteps[k] = "ledger" => k = 4
               /\ AnchorSteps[k] = "anchor" => k = 5
               /\ AnchorSteps[k] = "return" => k > 3
               /\ AnchorSteps[k] \notin Platforms /\ AnchorSteps[k] # "log"
    BY <1>1 DEF AnchorSteps, Platforms
  <1>7. ASSUME NEW k \in 1..4
        PROVE  /\ DraftSteps[k] = "read" => k = 1
               /\ DraftSteps[k] = "write" => k = 2
               /\ DraftSteps[k] = "gate" => k = 3
               /\ DraftSteps[k] = "return" => k > 3
               /\ DraftSteps[k] \notin Platforms /\ DraftSteps[k] \notin {"log", "ledger", "anchor"}
    BY <1>1 DEF DraftSteps, Platforms
  <1>8. ASSUME NEW k \in 1..8
        PROVE  /\ DistributeSteps[k] = "read" => k = 1
               /\ DistributeSteps[k] = "write" => k = 2
               /\ DistributeSteps[k] = "gate" => k = 3
               /\ DistributeSteps[k] \in Platforms => k > 3 /\ k < 8
               /\ DistributeSteps[k] = "log" => k > 3
               /\ DistributeSteps[k] \notin {"return", "ledger", "anchor"}
    BY <1>1 DEF DistributeSteps, Platforms
  <1>9. ASSUME NEW action \in ClaimActions
        PROVE  action = "anchor" \/ action = "draft" \/ action = "publication_ready"
    BY DEF ClaimActions
  <1> SUFFICES ASSUME NEW action \in ClaimActions
               PROVE  /\ ClaimPlan(action) \in Seq(StepNames) /\ Len(ClaimPlan(action)) \in {4, 6, 8}
                      /\ \A k \in 1..Len(ClaimPlan(action)) :
                            /\ ClaimPlan(action)[k] = "read" => k = 1
                            /\ ClaimPlan(action)[k] = "write" => k = 2
                            /\ ClaimPlan(action)[k] = "gate" => k = 3
                            /\ ClaimPlan(action)[k] = "ledger" => action = "anchor" /\ k = 4
                            /\ ClaimPlan(action)[k] = "anchor" => action = "anchor" /\ k = 5
                            /\ ClaimPlan(action)[k] = "return" => k > 3 /\ action # "publication_ready"
                            /\ ClaimPlan(action)[k] \in Platforms => k > 3 /\ k < 8 /\ action = "publication_ready"
                            /\ ClaimPlan(action)[k] = "log" => k > 3 /\ action = "publication_ready"
    OBVIOUS
  <1>10. CASE action = "anchor"
    BY <1>10, <1>2, <1>3, <1>6
  <1>11. CASE action = "draft"
    BY <1>11, <1>2, <1>4, <1>7
  <1>12. CASE action = "publication_ready"
    BY <1>12, <1>2, <1>5, <1>8
  <1> QED  BY <1>9, <1>10, <1>11, <1>12

(* Of a call at step k: the step, and what is left after it.                *)
LEMMA StepAt ==
    ASSUME NEW job, job.action \in ClaimActions, NEW k \in Nat, At(job, k)
    PROVE  /\ job.todo # <<>> /\ Head(job.todo) = ClaimPlan(job.action)[k]
           /\ Len(job.todo) = Len(ClaimPlan(job.action)) - k + 1
           /\ Len(job.todo) # 1 => /\ k + 1 \in 1..Len(ClaimPlan(job.action))
                                   /\ Tail(job.todo) = SubSeq(ClaimPlan(job.action), k + 1, Len(ClaimPlan(job.action)))
  <1>1. PICK plan \in Seq(StepNames) : plan = ClaimPlan(job.action)
    BY Plans
  <1>2. Len(plan) \in Nat /\ k \in 1..Len(plan) /\ job.todo = SubSeq(plan, k, Len(plan)) /\ Len(plan) \in k..Len(plan)
    BY <1>1 DEF At
  <1>3. Head(job.todo) = plan[k] /\ Tail(job.todo) = SubSeq(plan, k + 1, Len(plan))
    BY <1>2, HeadTailOfSubSeq
  <1>4. \A i \in k..Len(plan) : plan[i] \in StepNames
    BY <1>2
  <1>5. job.todo \in Seq(StepNames) /\ Len(job.todo) = Len(plan) - k + 1
    BY <1>2, <1>4, SubSeqProperties
  <1>6. job.todo # <<>>
    <2>1. Len(job.todo) # 0
      BY <1>2, <1>5
    <2> QED  BY <2>1
  <1> QED  BY <1>1, <1>2, <1>3, <1>5, <1>6

(* The gate lets an anchor or a distribution pass only with evidence.       *)
LEMMA PassedMeansEvidence ==
    ASSUME NEW claim \in ClaimRecord, NEW action \in {"anchor", "publication_ready"},
           action = "anchor" => claim.status \notin Provisional,
           evaluate_claim_evidence(claim, action) \notin Rejecting
    PROVE  claim.refs /\ ~claim.self /\ evaluate_claim_evidence(claim, action) = Promote
  BY DEF evaluate_claim_evidence, Rejecting, EvidenceRequired, ClaimRecord, Provisional, Promote

(* What is written stays, and a ledger that was torn stays so.              *)
Grown ==
    /\ drafts \subseteq drafts' /\ claims_ledger \subseteq claims_ledger'
    /\ \A i \in ClaimIds : distributed[i] \subseteq distributed'[i]
    /\ Readable(canonical') => /\ Readable(canonical)
                               /\ \A k \in DOMAIN canonical.entries : /\ k \in DOMAIN canonical'.entries
                                                                      /\ canonical'.entries[k] = canonical.entries[k]
    /\ claim_calls <= claim_calls'

(* A decision on file stays on it while more is appended.                    *)
LEMMA DecisionsStay ==
    ASSUME Grown, Readable(canonical'), NEW i, NEW action, NEW decision, Decided(i, action, decision)
    PROVE  Readable(canonical) /\ Decided(i, action, decision)'
  BY DEF Grown, Decided

(* So a claim that was cleared stays so.                                     *)
LEMMA ClearedStays ==
    ASSUME Grown, NEW claim, NEW action, Cleared(claim, action)
    PROVE  Cleared(claim, action)'
  <1>1. ASSUME Readable(canonical'), claim.canonical PROVE Decided(claim.id, action, Promote)'
    <2>1. Readable(canonical)
      BY <1>1 DEF Grown
    <2>2. Decided(claim.id, action, Promote)
      BY <2>1, <1>1 DEF Cleared
    <2> QED  BY <1>1, <2>2, DecisionsStay
  <1> QED  BY <1>1 DEF Cleared

(* And what a call has reached stays reached.                                *)
LEMMA ReachedStays ==
    ASSUME Grown, NEW job, job.claim \in ClaimRecord, NEW k \in Nat, Reached(job, k)
    PROVE  Reached(job, k)'
  <1>1. ASSUME k > 2, job.claim.canonical, Readable(canonical')
        PROVE  Decided(job.claim.id, job.action, evaluate_claim_evidence(job.claim, job.action))'
    <2>1. Readable(canonical)
      BY <1>1 DEF Grown
    <2>2. Decided(job.claim.id, job.action, evaluate_claim_evidence(job.claim, job.action))
      BY <2>1, <1>1 DEF Reached
    <2> QED  BY <1>1, <2>2, DecisionsStay
  <1>2. job.claim.id \in ClaimIds
    BY DEF ClaimRecord
  <1> QED  BY <1>1, <1>2 DEF Reached, Grown

(* And the call itself stays sound.                                          *)
LEMMA CallStays ==
    ASSUME Grown, claim_calls \in Nat, claim_calls' \in Nat, NEW job, CallSound(job)
    PROVE  CallSound(job)'
  <1>1. PICK k \in Nat : At(job, k) /\ Reached(job, k)
    BY DEF CallSound
  <1>2. Reached(job, k)'
    BY <1>1, ReachedStays DEF CallSound
  <1>3. job.claim.id <= claim_calls'
    <2>1. job.claim.id \in Nat
      BY DEF CallSound, ClaimRecord, ClaimIds
    <2> QED  BY <2>1 DEF CallSound, Grown
  <1> QED  BY <1>1, <1>2, <1>3 DEF CallSound, At

(* A step of one caller, from what it adds.                                 *)
LEMMA CallerMoves ==
    ASSUME ClaimInv, Grown, ClaimTypes', NEW c \in Callers, NEW job,
           claim_call' = [claim_call EXCEPT ![c] = job],
           job = NoCall \/ CallSound(job)',
           job = NoCall \/ job.claim \in Known \/ job.claim.id = claim_calls + 1,
           drafts' \cup claims_ledger' \subseteq Known,
           \A i \in anchored' \ anchored : \E claim \in claims_ledger' : claim.id = i /\ Cleared(claim, "anchor")',
           \A i \in ClaimIds : distributed'[i] # distributed[i] =>
               \E claim \in drafts' \cup claims_ledger' : claim.id = i /\ Cleared(claim, "publication_ready")',
           \A e \in distribution_log' \ distribution_log :
               e.id \in ClaimIds /\ (e.status = "complete" => distributed'[e.id] = Platforms)
    PROVE  ClaimInv'
  <1>n. claim_calls \in Nat /\ claim_calls' \in Nat /\ claim_calls <= claim_calls'
    BY ClaimAssumption DEF ClaimInv, ClaimTypes, Grown
  <1>c. claim_call'[c] = job /\ \A d \in Callers \ {c} : claim_call'[d] = claim_call[d]
    BY DEF ClaimInv, ClaimTypes
  <1>1. \A d \in Callers : claim_call'[d] = NoCall \/ CallSound(claim_call[d])'
    <2> SUFFICES ASSUME NEW d \in Callers PROVE claim_call'[d] = NoCall \/ CallSound(claim_call[d])'
      OBVIOUS
    <2>1. CASE d = c  BY <2>1, <1>c DEF CallSound, At, Reached
    <2>2. CASE d # c
      <3>1. claim_call'[d] = claim_call[d]
        BY <2>2, <1>c
      <3>2. claim_call[d] = NoCall \/ CallSound(claim_call[d])
        BY DEF ClaimInv
      <3>3. PICK other : other = claim_call[d]
        OBVIOUS
      <3>4. CallSound(other) => CallSound(other)'
        BY <1>n, CallStays
      <3> QED  BY <3>1, <3>2, <3>3, <3>4, ZenonT(30) DEF CallSound, At, Reached
    <2> QED  BY <2>1, <2>2
  <1>2. OneClaimPerId'
    <2>1. \A claim \in Known' : claim \in Known \/ (claim = job.claim /\ job # NoCall)
      <3> SUFFICES ASSUME NEW claim \in Known', claim \notin Known PROVE claim = job.claim /\ job # NoCall
        OBVIOUS
      <3>1. PICK d \in Callers : claim_call'[d] # NoCall /\ claim = claim_call'[d].claim
        BY DEF Known
      <3>2. CASE d = c  BY <3>1, <3>2, <1>c
      <3>3. CASE d # c  BY <3>1, <3>3, <1>c DEF Known
      <3> QED  BY <3>2, <3>3
    <2>2. \A claim \in Known : claim.id <= claim_calls /\ claim.id \in Nat
      <3> SUFFICES ASSUME NEW claim \in Known PROVE claim.id <= claim_calls /\ claim.id \in Nat
        OBVIOUS
      <3>1. claim \in ClaimRecord
        BY DEF ClaimInv, ClaimTypes, Known, CallSound
      <3> QED  BY <3>1 DEF ClaimInv, OneClaimPerId, ClaimRecord, ClaimIds
    <2>3. job # NoCall => job.claim.id <= claim_calls' /\ job.claim.id \in Nat
      BY DEF CallSound, ClaimRecord, ClaimIds
    <2>4. \A claim \in Known' : claim.id <= claim_calls'
      BY <1>n, <2>1, <2>2, <2>3
    <2>5. \A claim \in Known : job # NoCall /\ job.claim.id = claim_calls + 1 => claim.id # job.claim.id
      BY <1>n, <2>2
    <2>6. \A claim, other \in Known' : claim.id = other.id => claim = other
      <3> SUFFICES ASSUME NEW claim \in Known', NEW other \in Known', claim.id = other.id PROVE claim = other
        OBVIOUS
      <3>1. CASE claim \in Known /\ other \in Known
        BY <3>1 DEF ClaimInv, OneClaimPerId
      <3>2. CASE claim \notin Known
        BY <3>2, <2>1, <2>5
      <3>3. CASE other \notin Known
        BY <3>3, <2>1, <2>5
      <3> QED  BY <3>1, <3>2, <3>3
    <2> QED  BY <2>4, <2>6 DEF OneClaimPerId
  <1>3. AnchoredSound'
    <2> SUFFICES ASSUME NEW i \in anchored' PROVE \E claim \in claims_ledger' : claim.id = i /\ Cleared(claim, "anchor")'
      BY DEF AnchoredSound, Cleared, Decided
    <2>1. CASE i \in anchored
      <3>1. PICK claim \in claims_ledger : claim.id = i /\ Cleared(claim, "anchor")
        BY <2>1 DEF ClaimInv, AnchoredSound
      <3>2. Cleared(claim, "anchor")'
        BY <3>1, ClearedStays
      <3> QED  BY <3>1, <3>2 DEF Grown
    <2> QED  BY <2>1
  <1>4. DistributedSound'
    <2> SUFFICES ASSUME NEW i \in ClaimIds, distributed'[i] # {}
                 PROVE  \E claim \in drafts' \cup claims_ledger' : claim.id = i /\ Cleared(claim, "publication_ready")'
      BY DEF DistributedSound, Cleared, Decided
    <2>1. CASE distributed'[i] = distributed[i]
      <3>1. PICK claim \in drafts \cup claims_ledger : claim.id = i /\ Cleared(claim, "publication_ready")
        BY <2>1 DEF ClaimInv, DistributedSound
      <3>2. Cleared(claim, "publication_ready")'
        BY <3>1, ClearedStays
      <3> QED  BY <3>1, <3>2 DEF Grown
    <2> QED  BY <2>1
  <1>5. LogSound'
    <2> SUFFICES ASSUME NEW e \in distribution_log'
                 PROVE  e.id \in ClaimIds /\ (e.status = "complete" => distributed'[e.id] = Platforms)
      BY DEF LogSound
    <2>1. CASE e \in distribution_log
      <3>1. e.id \in ClaimIds /\ (e.status = "complete" => distributed[e.id] = Platforms)
        BY <2>1 DEF ClaimInv, LogSound
      <3>2. distributed'[e.id] \subseteq Platforms /\ distributed[e.id] \subseteq distributed'[e.id]
        BY <3>1 DEF ClaimTypes, Grown
      <3> QED  BY <3>1, <3>2
    <2> QED  BY <2>1
  <1> QED  BY <1>1, <1>2, <1>3, <1>4, <1>5 DEF ClaimInv

LEMMA ClaimInitInv == ClaimInit => ClaimInv
  <1> SUFFICES ASSUME ClaimInit PROVE ClaimInv
    OBVIOUS
  <1>1. IsLog(<<>>)
    <2>1. <<>> \in Seq({})
      OBVIOUS
    <2> QED  BY <2>1 DEF IsLog
  <1>2. ClaimTypes
    BY <1>1, ClaimAssumption DEF ClaimInit, ClaimTypes, EmptyLedger
  <1>3. \A c \in Callers : claim_call[c] = NoCall
    BY DEF ClaimInit
  <1>4. Known = {}
    BY <1>3 DEF Known, ClaimInit
  <1> QED  BY <1>2, <1>3, <1>4 DEF ClaimInv, ClaimInit, OneClaimPerId, AnchoredSound, DistributedSound, LogSound

(* A call begins at the first step of its plan, or at the gate.             *)
LEMMA CallBegins ==
    ASSUME NEW claim \in ClaimRecord, NEW action \in ClaimActions, NEW job,
           job = [NoCall EXCEPT !.claim = claim, !.action = action, !.todo = StepsOf(ClaimPlan(action), claim.canonical)]
    PROVE  /\ job = [todo |-> job.todo, claim |-> claim, action |-> action, prev |-> 0, ok |-> {}]
           /\ \E k \in {1, 3} : At(job, k) /\ (k = 3 => ~claim.canonical)
  <1>1. job = [todo |-> StepsOf(ClaimPlan(action), claim.canonical), claim |-> claim, action |-> action, prev |-> 0, ok |-> {}]
    BY DEF NoCall
  <1>2. PICK plan \in Seq(StepNames) : plan = ClaimPlan(action) /\ Len(plan) \in {4, 6, 8}
    BY Plans
  <1>3. SubSeq(plan, 1, Len(plan)) = plan
    BY SubSeqFull
  <1>4. 1 \in 1..Len(plan) /\ 3 \in 1..Len(plan)
    <2>1. \A n \in {4, 6, 8} : 1 \in 1..n /\ 3 \in 1..n
      OBVIOUS
    <2> QED  BY <1>2, <2>1
  <1>5. claim.canonical \in BOOLEAN
    BY DEF ClaimRecord
  <1>6. CASE claim.canonical
    <2>1. job.todo = plan /\ job.action = action
      BY <1>1, <1>2, <1>6 DEF StepsOf, CallSteps
    <2>2. At(job, 1)
      BY <1>2, <1>3, <1>4, <2>1 DEF At
    <2>3. 1 \in {1, 3} /\ 1 # 3
      OBVIOUS
    <2> QED  BY <1>1, <2>1, <2>2, <2>3
  <1>7. CASE ~claim.canonical
    <2>1. job.todo = StepsOf(plan, FALSE) /\ job.action = action
      BY <1>1, <1>2, <1>5, <1>7
    <2>2. StepsOf(plan, FALSE) = SubSeq(plan, 3, Len(plan))
      BY DEF StepsOf
    <2>3. At(job, 3)
      BY <1>2, <1>4, <2>1, <2>2 DEF At
    <2> QED  BY <1>1, <1>7, <2>3
  <1> QED  BY <1>1, <1>6, <1>7

(* A call that has done its step k is sound at the next.                    *)
LEMMA CallProceeds ==
    ASSUME NEW old, CallSound(old), NEW k \in Nat, At(old, k), Len(old.todo) # 1, NEW prev, NEW ok \in SUBSET Platforms,
           NEW job, job = [todo |-> Tail(old.todo), claim |-> old.claim, action |-> old.action, prev |-> prev, ok |-> ok],
           claim_calls \in Nat, claim_calls' \in Nat, claim_calls <= claim_calls', Reached(job, k + 1)'
    PROVE  CallSound(job)'
  <1>1. old.action \in ClaimActions /\ old.claim \in ClaimRecord /\ old.claim.id \in Nat /\ old.claim.id <= claim_calls
    BY DEF CallSound, ClaimRecord, ClaimIds
  <1>2. At(job, k + 1)
    BY <1>1, StepAt DEF At
  <1>3. old.claim.id <= claim_calls'
    BY <1>1
  <1>4. k + 1 \in Nat
    OBVIOUS
  <1> QED  BY <1>1, <1>2, <1>3, <1>4 DEF CallSound, At

(* A step of a call that writes one thing more and moves on.                 *)
LEMMA StepDone ==
    ASSUME ClaimInv, Grown, ClaimTypes', NEW c \in Callers, Done(c), claim_call[c] # NoCall, claim_calls' = claim_calls,
           NEW k \in Nat, At(claim_call[c], k), NEW old, old = claim_call[c], Reached(old, k + 1)',
           drafts' \cup claims_ledger' \subseteq Known,
           \A i \in anchored' \ anchored : \E claim \in claims_ledger' : claim.id = i /\ Cleared(claim, "anchor")',
           UNCHANGED distributed,
           \A e \in distribution_log' \ distribution_log :
               e.id \in ClaimIds /\ (e.status = "complete" => distributed'[e.id] = Platforms)
    PROVE  ClaimInv'
  <1> DEFINE job == IF Len(old.todo) = 1 THEN NoCall ELSE [old EXCEPT !.todo = Tail(@)]
  <1>1. claim_call' = [claim_call EXCEPT ![c] = job]
    BY DEF Done, Rest
  <1>2. CallSound(old) /\ old.claim \in Known /\ At(old, k)
    BY DEF ClaimInv, Known
  <1>3. claim_calls \in Nat /\ claim_calls' \in Nat /\ claim_calls <= claim_calls'
    BY ClaimAssumption DEF ClaimInv, ClaimTypes
  <1>4. job = NoCall \/ (CallSound(job)' /\ job.claim = old.claim)
    <2>1. CASE Len(old.todo) = 1  BY <2>1
    <2>2. CASE Len(old.todo) # 1
      <3>1. job = [todo |-> Tail(old.todo), claim |-> old.claim, action |-> old.action, prev |-> old.prev, ok |-> old.ok]
        BY <2>2, <1>2 DEF CallSound
      <3>2. Reached(job, k + 1)'
        BY <3>1 DEF Reached
      <3>3. old.ok \in SUBSET Platforms
        BY <1>2 DEF CallSound
      <3> HIDE DEF job
      <3>4. CallSound(job)'
        BY <3>1, <3>2, <3>3, <2>2, <1>2, <1>3, CallProceeds
      <3> QED  BY <3>1, <3>4
    <2> QED  BY <2>1, <2>2
  <1> HIDE DEF job
  <1> QED  BY <1>1, <1>2, <1>4, CallerMoves

LEMMA BeginKeeps ==
    ASSUME ClaimInv, ClaimTypes', NEW c \in Callers, NEW claim \in ClaimRecord, NEW action \in ClaimActions,
           Begin(c, claim, action, ClaimPlan(action)), claim_calls' = claim_calls + 1,
           UNCHANGED <<inbox, drafts, claims_ledger, anchored, distributed, distribution_log, canonical>>,
           claim \in drafts \cup claims_ledger \/ claim.id = claim_calls + 1,
           action = "anchor" => claim.status \notin Provisional,
           action = "publication_ready" => claim \in drafts \cup claims_ledger
    PROVE  ClaimInv'
  <1>1. PICK job : job = [NoCall EXCEPT !.claim = claim, !.action = action, !.todo = StepsOf(ClaimPlan(action), claim.canonical)]
    OBVIOUS
  <1>2. claim_call' = [claim_call EXCEPT ![c] = job]
    BY <1>1 DEF Begin
  <1>3. PICK k \in {1, 3} : At(job, k) /\ (k = 3 => ~claim.canonical)
    BY <1>1, CallBegins
  <1>4. job = [todo |-> job.todo, claim |-> claim, action |-> action, prev |-> 0, ok |-> {}]
    BY <1>1, CallBegins
  <1>5. job.claim = claim /\ job.action = action /\ job.ok = {}
    BY <1>4
  <1>n. claim_calls \in Nat /\ claim_calls' \in Nat /\ claim_calls <= claim_calls'
    BY ClaimAssumption DEF ClaimInv, ClaimTypes
  <1>6. claim.id <= claim_calls'
    <2>1. CASE claim \in drafts \cup claims_ledger
      <3>1. claim.id <= claim_calls /\ claim.id \in Nat
        BY <2>1 DEF ClaimInv, OneClaimPerId, Known, ClaimRecord, ClaimIds
      <3> QED  BY <3>1, <1>n
    <2>2. CASE claim.id = claim_calls + 1
      BY <2>2, <1>n
    <2> QED  BY <2>1, <2>2
  <1>7. Reached(job, k)'
    <2>1. ~(k > 3) /\ ~(k > 4) /\ (k > 2 => k = 3)
      BY <1>3
    <2> QED  BY <2>1, <1>3, <1>5 DEF Reached
  <1>8. CallSound(job)'
    <2>1. job = [todo |-> job.todo, claim |-> job.claim, action |-> job.action, prev |-> job.prev, ok |-> job.ok]
      BY <1>4
    <2>2. k \in Nat
      BY <1>3
    <2> QED  BY <1>3, <1>5, <1>6, <1>7, <2>1, <2>2 DEF CallSound, At
  <1>9. Grown
    BY <1>n DEF Grown
  <1>10. job.claim \in Known \/ job.claim.id = claim_calls + 1
    BY <1>5 DEF Known
  <1>11. drafts' \cup claims_ledger' \subseteq Known
    BY DEF Known
  <1> QED  BY <1>2, <1>8, <1>9, <1>10, <1>11, CallerMoves

LEMMA GenerateKeeps ==
    ASSUME ClaimInv, NEW c \in Callers, NEW refs \in BOOLEAN, NEW self \in BOOLEAN, NEW governed \in BOOLEAN,
           NEW status \in {"anchored", "provisional"}, NEW source \in {"manual", "inbox"},
           GenerateClaim(c, refs, self, status, governed, source)
    PROVE  ClaimInv'
  <1> DEFINE claim == [id |-> claim_calls + 1, refs |-> refs, self |-> self, status |-> status,
                       canonical |-> governed, source |-> source]
  <1>1. claim_calls + 1 \in ClaimIds /\ claim_calls' = claim_calls + 1 /\ claim_calls' \in 0..MaxClaimCalls
    BY ClaimAssumption DEF ClaimInv, ClaimTypes, GenerateClaim, ClaimIds
  <1>2. claim \in ClaimRecord /\ claim.id = claim_calls + 1 /\ claim.status = status
    BY <1>1 DEF ClaimRecord
  <1>3. UNCHANGED <<inbox, drafts, claims_ledger, anchored, distributed, distribution_log, canonical>>
    BY DEF GenerateClaim
  <1>4. ClaimTypes'
    BY <1>1, <1>3 DEF GenerateClaim, Begin, ClaimInv, ClaimTypes
  <1>5. /\ status \in Provisional => Begin(c, claim, "draft", DraftSteps)
        /\ status \notin Provisional => Begin(c, claim, "anchor", AnchorSteps)
    BY DEF GenerateClaim
  <1> HIDE DEF claim
  <1>6. ClaimPlan("draft") = DraftSteps /\ ClaimPlan("anchor") = AnchorSteps /\ {"draft", "anchor"} \subseteq ClaimActions
    BY DEF ClaimPlan, ClaimActions
  <1>7. CASE status \in Provisional
    <2>1. Begin(c, claim, "draft", ClaimPlan("draft"))
      BY <1>5, <1>6, <1>7
    <2> QED  BY <2>1, <1>1, <1>2, <1>3, <1>4, <1>6, BeginKeeps
  <1>8. CASE status \notin Provisional
    <2>1. Begin(c, claim, "anchor", ClaimPlan("anchor"))
      BY <1>5, <1>6, <1>8
    <2> QED  BY <2>1, <1>1, <1>2, <1>3, <1>4, <1>6, <1>8, BeginKeeps
  <1> QED  BY <1>7, <1>8

LEMMA DistributeKeeps ==
    ASSUME ClaimInv, NEW c \in Callers, NEW claim, DistributeClaim(c, claim)
    PROVE  ClaimInv'
  <1>1. claim_calls' = claim_calls + 1 /\ claim_calls' \in 0..MaxClaimCalls
    BY ClaimAssumption DEF ClaimInv, ClaimTypes, DistributeClaim
  <1>2. claim \in ClaimRecord /\ claim \in drafts \cup claims_ledger
    BY DEF ClaimInv, ClaimTypes, DistributeClaim
  <1>3. UNCHANGED <<inbox, drafts, claims_ledger, anchored, distributed, distribution_log, canonical>>
    BY DEF DistributeClaim
  <1>4. ClaimTypes'
    BY <1>1, <1>3 DEF DistributeClaim, Begin, ClaimInv, ClaimTypes
  <1>5. ClaimPlan("publication_ready") = DistributeSteps /\ "publication_ready" \in ClaimActions
    BY DEF ClaimPlan, ClaimActions
  <1>6. Begin(c, claim, "publication_ready", ClaimPlan("publication_ready"))
    BY <1>5 DEF DistributeClaim
  <1> QED  BY <1>1, <1>2, <1>3, <1>4, <1>5, <1>6, BeginKeeps

(* What a step finds of its call.                                           *)
LEMMA AtStep ==
    ASSUME ClaimInv, NEW c \in Callers, NEW step, Todo(c, step)
    PROVE  /\ claim_call[c] # NoCall /\ CallSound(claim_call[c])
           /\ claim_call[c].claim \in Known /\ claim_call[c].claim \in ClaimRecord /\ claim_call[c].claim.id \in ClaimIds
           /\ \E k \in Nat : /\ At(claim_call[c], k) /\ Reached(claim_call[c], k)
                             /\ k \in 1..Len(ClaimPlan(claim_call[c].action)) /\ ClaimPlan(claim_call[c].action)[k] = step
  <1>1. claim_call[c] # NoCall
    BY DEF Todo, NoCall
  <1>2. CallSound(claim_call[c])
    BY <1>1 DEF ClaimInv
  <1>3. PICK k \in Nat : At(claim_call[c], k) /\ Reached(claim_call[c], k)
    BY <1>2 DEF CallSound
  <1>4. ClaimPlan(claim_call[c].action)[k] = step
    BY <1>2, <1>3, StepAt DEF Todo, CallSound
  <1>5. claim_call[c].claim \in Known /\ claim_call[c].claim \in ClaimRecord /\ claim_call[c].claim.id \in ClaimIds
    BY <1>1, <1>2 DEF Known, CallSound, ClaimRecord
  <1> QED  BY <1>1, <1>2, <1>3, <1>4, <1>5 DEF At

(* Writing an entry of the canonical ledger.                                *)
LEMMA CanonicalGrows ==
    ASSUME IsLog(canonical.entries), canonical = [entries |-> canonical.entries, torn |-> canonical.torn],
           canonical.torn \in BOOLEAN, NEW entry, canonical' = WriteEntry(canonical, entry)
    PROVE  /\ IsLog(canonical'.entries) /\ canonical' = [entries |-> canonical'.entries, torn |-> canonical'.torn]
           /\ canonical'.torn \in BOOLEAN /\ (Readable(canonical') => Readable(canonical))
           /\ \A k \in DOMAIN canonical.entries : /\ k \in DOMAIN canonical'.entries
                                                  /\ canonical'.entries[k] = canonical.entries[k]
           /\ Readable(canonical') => \E k \in DOMAIN canonical'.entries : canonical'.entries[k] = entry
  <1>1. CASE canonical.torn
    BY <1>1 DEF WriteEntry, Readable
  <1>2. CASE ~canonical.torn
    <2>1. PICK new : new = Append(canonical.entries, entry)
      OBVIOUS
    <2>2. canonical' = [entries |-> new, torn |-> FALSE]
      BY <2>1, <1>2 DEF WriteEntry, Readable
    <2>3. canonical'.entries = new /\ canonical'.torn = FALSE
      BY <2>2
    <2>4. /\ IsLog(new) /\ Len(canonical.entries) \in Nat /\ Len(new) = Len(canonical.entries) + 1
          /\ DOMAIN canonical.entries = 1..Len(canonical.entries) /\ new[Len(new)] = entry
          /\ \A k \in 1..Len(canonical.entries) : new[k] = canonical.entries[k]
      BY <2>1, LogFacts
    <2>5. DOMAIN new = 1..Len(new)
      BY <2>4, LogFacts
    <2> QED  BY <1>2, <2>2, <2>3, <2>4, <2>5 DEF Readable
  <1> QED  BY <1>1, <1>2

(* Drafts, claims and distributions only grow.                               *)
LEMMA StillGrown ==
    ASSUME ClaimInv, UNCHANGED <<canonical, claim_calls>>, drafts \subseteq drafts', claims_ledger \subseteq claims_ledger',
           \A i \in ClaimIds : distributed[i] \subseteq distributed'[i]
    PROVE  Grown
  BY ClaimAssumption DEF Grown, ClaimInv, ClaimTypes

(* Two fields of a call replaced at once.                                   *)
LEMMA TwoFields ==
    ASSUME NEW old, old = [todo |-> old.todo, claim |-> old.claim, action |-> old.action, prev |-> old.prev, ok |-> old.ok],
           NEW rest, NEW value
    PROVE  /\ [old EXCEPT !.todo = rest, !.prev = value]
                 = [todo |-> rest, claim |-> old.claim, action |-> old.action, prev |-> value, ok |-> old.ok]
           /\ [old EXCEPT !.todo = rest, !.ok = value]
                 = [todo |-> rest, claim |-> old.claim, action |-> old.action, prev |-> old.prev, ok |-> value]
  <1>1. PICK claim, action, prev, ok : claim = old.claim /\ action = old.action /\ prev = old.prev /\ ok = old.ok
    OBVIOUS
  <1>2. PICK mid : mid = [todo |-> rest, claim |-> claim, action |-> action, prev |-> prev, ok |-> ok]
    OBVIOUS
  <1>3. [old EXCEPT !.todo = rest] = mid
    <2>1. PICK todo : old = [todo |-> todo, claim |-> claim, action |-> action, prev |-> prev, ok |-> ok]
      BY <1>1
    <2> QED  BY <1>2, <2>1
  <1>4. [mid EXCEPT !.prev = value] = [todo |-> rest, claim |-> claim, action |-> action, prev |-> value, ok |-> ok]
    BY <1>2
  <1>5. [mid EXCEPT !.ok = value] = [todo |-> rest, claim |-> claim, action |-> action, prev |-> prev, ok |-> value]
    BY <1>2
  <1>6. [old EXCEPT !.todo = rest, !.prev = value] = [[old EXCEPT !.todo = rest] EXCEPT !.prev = value]
    OBVIOUS
  <1>7. [old EXCEPT !.todo = rest, !.ok = value] = [[old EXCEPT !.todo = rest] EXCEPT !.ok = value]
    OBVIOUS
  <1> QED  BY <1>1, <1>3, <1>4, <1>5, <1>6, <1>7

LEMMA ReadKeeps ==
    ASSUME ClaimInv, NEW c \in Callers, ReadCanonical(c), UNCHANGED <<claim_calls, claim_faults>>
    PROVE  ClaimInv'
  <1>1. PICK old : old = claim_call[c]
    OBVIOUS
  <1>2. Todo(c, "read")
    BY DEF ReadCanonical
  <1>3. PICK k \in Nat : /\ At(old, k) /\ Reached(old, k)
                         /\ k \in 1..Len(ClaimPlan(old.action)) /\ ClaimPlan(old.action)[k] = "read"
    BY <1>1, <1>2, AtStep
  <1>4. CallSound(old) /\ old.claim \in Known /\ old # NoCall /\ old.action \in ClaimActions
    BY <1>1, <1>2, AtStep DEF CallSound
  <1>5. k = 1
    BY <1>3, <1>4, Plans
  <1>6. Len(old.todo) # 1
    <2>1. Len(old.todo) = Len(ClaimPlan(old.action)) - k + 1 /\ Len(ClaimPlan(old.action)) \in {4, 6, 8}
      BY <1>3, <1>4, StepAt, Plans
    <2>2. \A n \in {4, 6, 8} : n - 1 + 1 # 1
      OBVIOUS
    <2> QED  BY <2>1, <2>2, <1>5
  <1>7. UNCHANGED <<drafts, claims_ledger, anchored, distributed, distribution_log, canonical, claim_calls>>
    BY DEF ReadCanonical
  <1>8. claim_calls \in Nat
    BY ClaimAssumption DEF ClaimInv, ClaimTypes
  <1>9. Grown
    BY <1>7, StillGrown
  <1>10. \E job : /\ claim_call' = [claim_call EXCEPT ![c] = job]
                  /\ job = NoCall \/ (CallSound(job)' /\ job.claim = old.claim)
    <2>1. CASE Readable(canonical)
      <3>n. PICK n : n = Len(canonical.entries)
        OBVIOUS
      <3> DEFINE job == [todo |-> Tail(old.todo), claim |-> old.claim, action |-> old.action, prev |-> n, ok |-> old.ok]
      <3>1. claim_call' = [claim_call EXCEPT ![c] = job]
        <4>1. claim_call' = [claim_call EXCEPT ![c].todo = Tail(@), ![c].prev = Len(canonical.entries)]
          BY <2>1 DEF ReadCanonical
        <4>2. claim_call = [d \in Callers |-> claim_call[d]]
          BY DEF ClaimInv, ClaimTypes
        <4>3. old = [todo |-> old.todo, claim |-> old.claim, action |-> old.action, prev |-> old.prev, ok |-> old.ok]
          BY <1>4 DEF CallSound
        <4>4. PICK rest : rest = Tail(old.todo)
          OBVIOUS
        <4>5. [old EXCEPT !.todo = rest, !.prev = n] = [todo |-> rest, claim |-> old.claim, action |-> old.action,
                                                        prev |-> n, ok |-> old.ok]
          BY <4>3, TwoFields
        <4>6. claim_call' = [claim_call EXCEPT ![c] = [old EXCEPT !.todo = rest, !.prev = n]]
          BY <4>1, <4>2, <4>4, <3>n, <1>1
        <4>7. job = [old EXCEPT !.todo = rest, !.prev = n]
          BY <4>4, <4>5
        <4> HIDE DEF job
        <4> QED  BY <4>6, <4>7
      <3>2. Reached(job, k + 1)'
        BY <1>5, <1>3, <1>7 DEF Reached
      <3>3. old.ok \in SUBSET Platforms
        BY <1>4 DEF CallSound
      <3>4. job.claim = old.claim
        OBVIOUS
      <3> HIDE DEF job
      <3>5. CallSound(job)'
        <4>1. claim_calls' \in Nat /\ claim_calls <= claim_calls'
          BY <1>7, <1>8
        <4>2. job = [todo |-> Tail(old.todo), claim |-> old.claim, action |-> old.action, prev |-> n, ok |-> old.ok]
          BY DEF job
        <4> QED  BY <4>1, <4>2, <3>2, <3>3, <1>3, <1>4, <1>6, <1>8, CallProceeds
      <3> QED  BY <3>1, <3>4, <3>5
    <2>2. CASE ~Readable(canonical)
      BY <2>2 DEF ReadCanonical, Raise
    <2> QED  BY <2>1, <2>2
  <1>11. PICK job : /\ claim_call' = [claim_call EXCEPT ![c] = job]
                    /\ job = NoCall \/ (CallSound(job)' /\ job.claim = old.claim)
    BY <1>10
  <1>12. ClaimTypes'
    BY <1>7, <1>11 DEF ClaimInv, ClaimTypes
  <1>13. drafts' \cup claims_ledger' \subseteq Known
    BY <1>7 DEF Known
  <1> QED  BY <1>4, <1>7, <1>9, <1>11, <1>12, <1>13, CallerMoves

LEMMA DoneTyped ==
    ASSUME ClaimInv, NEW c \in Callers, Done(c) \/ Raise(c)
    PROVE  claim_call' = [d \in Callers |-> claim_call'[d]]
  BY DEF Done, Raise, ClaimInv, ClaimTypes

LEMMA WriteKeeps ==
    ASSUME ClaimInv, NEW c \in Callers, WriteCanonical(c), UNCHANGED <<claim_calls, claim_faults>>
    PROVE  ClaimInv'
  <1>1. PICK old : old = claim_call[c]
    OBVIOUS
  <1>2. Todo(c, "write") /\ Done(c)
    BY DEF WriteCanonical
  <1>3. PICK k \in Nat : /\ At(old, k) /\ Reached(old, k)
                         /\ k \in 1..Len(ClaimPlan(old.action)) /\ ClaimPlan(old.action)[k] = "write"
    BY <1>1, <1>2, AtStep
  <1>4. CallSound(old) /\ old.claim \in Known /\ old # NoCall /\ old.action \in ClaimActions /\ old.claim \in ClaimRecord
    BY <1>1, <1>2, AtStep DEF CallSound
  <1>5. k = 2
    BY <1>3, <1>4, Plans
  <1>6. UNCHANGED <<drafts, claims_ledger, anchored, distributed, distribution_log, claim_calls>>
    BY DEF WriteCanonical
  <1>7. PICK entry : /\ canonical' = WriteEntry(canonical, entry)
                     /\ entry = [id |-> old.claim.id, decision |-> evaluate_claim_evidence(old.claim, old.action),
                                 about |-> old.action, prev |-> old.prev]
    BY <1>1 DEF WriteCanonical, build_ledger_entry, Decision
  <1>8. entry.id = old.claim.id /\ entry.about = old.action /\ entry.decision = evaluate_claim_evidence(old.claim, old.action)
    BY <1>7
  <1>9. /\ IsLog(canonical'.entries) /\ canonical' = [entries |-> canonical'.entries, torn |-> canonical'.torn]
        /\ canonical'.torn \in BOOLEAN /\ (Readable(canonical') => Readable(canonical))
        /\ \A i \in DOMAIN canonical.entries : i \in DOMAIN canonical'.entries /\ canonical'.entries[i] = canonical.entries[i]
        /\ Readable(canonical') => \E i \in DOMAIN canonical'.entries : canonical'.entries[i] = entry
    BY <1>7, CanonicalGrows DEF ClaimInv, ClaimTypes
  <1>10. Grown
    BY <1>6, <1>9, ClaimAssumption DEF Grown, ClaimInv, ClaimTypes
  <1>11. Reached(old, k + 1)'
    <2>1. k + 1 = 3 /\ ~(k + 1 > 3) /\ ~(k + 1 > 4) /\ ~(k > 4)
      BY <1>5
    <2>2. Readable(canonical') => Decided(old.claim.id, old.action, evaluate_claim_evidence(old.claim, old.action))'
      BY <1>8, <1>9 DEF Decided
    <2> QED  BY <2>1, <2>2, <1>3, <1>6 DEF Reached
  <1>12. ClaimTypes'
    BY <1>2, <1>6, <1>9, DoneTyped DEF ClaimInv, ClaimTypes
  <1>13. drafts' \cup claims_ledger' \subseteq Known
    BY <1>6 DEF Known
  <1> QED  BY <1>1, <1>2, <1>3, <1>4, <1>6, <1>10, <1>11, <1>12, <1>13, StepDone

LEMMA GateKeeps ==
    ASSUME ClaimInv, NEW c \in Callers, RequireEvidence(c), UNCHANGED <<claim_calls, claim_faults>>
    PROVE  ClaimInv'
  <1>1. PICK old : old = claim_call[c]
    OBVIOUS
  <1>2. Todo(c, "gate")
    BY DEF RequireEvidence
  <1>3. PICK k \in Nat : /\ At(old, k) /\ Reached(old, k)
                         /\ k \in 1..Len(ClaimPlan(old.action)) /\ ClaimPlan(old.action)[k] = "gate"
    BY <1>1, <1>2, AtStep
  <1>4. CallSound(old) /\ old.claim \in Known /\ old # NoCall /\ old.action \in ClaimActions /\ old.claim \in ClaimRecord
    BY <1>1, <1>2, AtStep DEF CallSound
  <1>5. k = 3
    BY <1>3, <1>4, Plans
  <1>6. UNCHANGED <<drafts, claims_ledger, anchored, distributed, distribution_log, canonical, claim_calls>>
    BY DEF RequireEvidence
  <1>7. Grown
    BY <1>6, StillGrown
  <1>8. Done(c) \/ Raise(c)
    BY DEF RequireEvidence
  <1>9. ClaimTypes'
    BY <1>6, <1>8, DoneTyped DEF ClaimInv, ClaimTypes
  <1>10. drafts' \cup claims_ledger' \subseteq Known
    BY <1>6 DEF Known
  <1>11. CASE Decision(c) \in Rejecting
    <2>1. claim_call' = [claim_call EXCEPT ![c] = NoCall]
      BY <1>11 DEF RequireEvidence, Raise
    <2> QED  BY <2>1, <1>6, <1>7, <1>9, <1>10, CallerMoves
  <1>12. CASE Decision(c) \notin Rejecting
    <2>1. evaluate_claim_evidence(old.claim, old.action) \notin Rejecting
      BY <1>1, <1>12 DEF Decision
    <2>2. Reached(old, k + 1)'
      <3>1. k + 1 = 4 /\ ~(k + 1 > 4) /\ k > 2
        BY <1>5
      <3> QED  BY <3>1, <2>1, <1>3, <1>6 DEF Reached, Decided
    <2>3. Done(c)
      BY <1>12 DEF RequireEvidence
    <2> QED  BY <2>2, <2>3, <1>1, <1>3, <1>4, <1>6, <1>7, <1>9, <1>10, StepDone
  <1> QED  BY <1>11, <1>12

LEMMA LedgerKeeps ==
    ASSUME ClaimInv, NEW c \in Callers, AppendClaim(c), UNCHANGED <<claim_calls, claim_faults>>
    PROVE  ClaimInv'
  <1>1. PICK old : old = claim_call[c]
    OBVIOUS
  <1>2. Todo(c, "ledger") /\ Done(c)
    BY DEF AppendClaim
  <1>3. PICK k \in Nat : /\ At(old, k) /\ Reached(old, k)
                         /\ k \in 1..Len(ClaimPlan(old.action)) /\ ClaimPlan(old.action)[k] = "ledger"
    BY <1>1, <1>2, AtStep
  <1>4. CallSound(old) /\ old.claim \in Known /\ old # NoCall /\ old.action \in ClaimActions /\ old.claim \in ClaimRecord
    BY <1>1, <1>2, AtStep DEF CallSound
  <1>5. k = 4 /\ old.action = "anchor"
    BY <1>3, <1>4, Plans
  <1>6. UNCHANGED <<drafts, anchored, distributed, distribution_log, canonical, claim_calls>>
    BY DEF AppendClaim
  <1>7. claims_ledger' = claims_ledger \cup {old.claim}
    BY <1>1 DEF AppendClaim
  <1>8. Grown
    BY <1>6, <1>7, StillGrown
  <1>9. ClaimTypes'
    BY <1>2, <1>4, <1>6, <1>7, DoneTyped DEF ClaimInv, ClaimTypes
  <1>10. drafts' \cup claims_ledger' \subseteq Known
    BY <1>4, <1>6, <1>7 DEF Known
  <1>11. Reached(old, k + 1)'
    <2>1. k > 2 /\ k > 3
      BY <1>5
    <2> QED  BY <2>1, <1>3, <1>5, <1>6, <1>7 DEF Reached, Decided
  <1> QED  BY <1>1, <1>2, <1>3, <1>4, <1>6, <1>8, <1>9, <1>10, <1>11, StepDone

LEMMA AnchorKeeps ==
    ASSUME ClaimInv, NEW c \in Callers, WriteAnchored(c), UNCHANGED <<claim_calls, claim_faults>>
    PROVE  ClaimInv'
  <1>1. PICK old : old = claim_call[c]
    OBVIOUS
  <1>2. Todo(c, "anchor") /\ Done(c)
    BY DEF WriteAnchored
  <1>3. PICK k \in Nat : /\ At(old, k) /\ Reached(old, k)
                         /\ k \in 1..Len(ClaimPlan(old.action)) /\ ClaimPlan(old.action)[k] = "anchor"
    BY <1>1, <1>2, AtStep
  <1>4. CallSound(old) /\ old.claim \in Known /\ old # NoCall /\ old.action \in ClaimActions /\ old.claim \in ClaimRecord
        /\ old.claim.id \in ClaimIds
    BY <1>1, <1>2, AtStep DEF CallSound
  <1>5. k = 5 /\ old.action = "anchor"
    BY <1>3, <1>4, Plans
  <1>6. UNCHANGED <<drafts, claims_ledger, distributed, distribution_log, canonical, claim_calls>>
    BY DEF WriteAnchored
  <1>7. anchored' = anchored \cup {old.claim.id}
    BY <1>1 DEF WriteAnchored
  <1>8. Grown
    BY <1>6, StillGrown
  <1>9. ClaimTypes'
    BY <1>2, <1>4, <1>6, <1>7, DoneTyped DEF ClaimInv, ClaimTypes
  <1>10. drafts' \cup claims_ledger' \subseteq Known
    BY <1>6 DEF Known
  <1>k. k > 2 /\ k > 3 /\ k > 4
    BY <1>5
  <1>11. Reached(old, k + 1)'
    BY <1>k, <1>3, <1>5, <1>6 DEF Reached, Decided
  <1>12. old.claim \in claims_ledger' /\ Cleared(old.claim, "anchor")'
    <2>1. old.claim.refs /\ ~old.claim.self /\ evaluate_claim_evidence(old.claim, "anchor") = Promote
      BY <1>k, <1>3, <1>4, <1>5, PassedMeansEvidence DEF Reached
    <2> QED  BY <2>1, <1>k, <1>3, <1>5, <1>6 DEF Reached, Cleared, Decided
  <1>13. \A i \in anchored' \ anchored : \E claim \in claims_ledger' : claim.id = i /\ Cleared(claim, "anchor")'
    BY <1>7, <1>12
  <1> QED  BY <1>1, <1>2, <1>3, <1>4, <1>6, <1>8, <1>9, <1>10, <1>11, <1>13, StepDone

LEMMA ReturnKeeps ==
    ASSUME ClaimInv, NEW c \in Callers, ReturnClaim(c), UNCHANGED <<claim_calls, claim_faults>>
    PROVE  ClaimInv'
  <1>1. PICK old : old = claim_call[c]
    OBVIOUS
  <1>2. Todo(c, "return") /\ Done(c)
    BY DEF ReturnClaim
  <1>3. PICK k \in Nat : /\ At(old, k) /\ Reached(old, k)
                         /\ k \in 1..Len(ClaimPlan(old.action)) /\ ClaimPlan(old.action)[k] = "return"
    BY <1>1, <1>2, AtStep
  <1>4. CallSound(old) /\ old.claim \in Known /\ old # NoCall /\ old.action \in ClaimActions /\ old.claim \in ClaimRecord
    BY <1>1, <1>2, AtStep DEF CallSound
  <1>5. k > 3 /\ old.action # "publication_ready"
    BY <1>3, <1>4, Plans
  <1>6. UNCHANGED <<claims_ledger, anchored, distributed, distribution_log, canonical, claim_calls>>
    BY DEF ReturnClaim
  <1>7. drafts' = drafts \cup {old.claim}
    BY <1>1 DEF ReturnClaim
  <1>8. Grown
    BY <1>6, <1>7, StillGrown
  <1>9. ClaimTypes'
    BY <1>2, <1>4, <1>6, <1>7, DoneTyped DEF ClaimInv, ClaimTypes
  <1>10. drafts' \cup claims_ledger' \subseteq Known
    BY <1>4, <1>6, <1>7 DEF Known
  <1>11. Reached(old, k + 1)'
    <2>1. k > 2 /\ ~(old.action = "anchor" /\ k = 4)
      <3>1. ASSUME old.action = "anchor", k = 4 PROVE FALSE
        <4>1. ClaimPlan(old.action)[4] = "ledger"
          BY <3>1 DEF ClaimPlan, AnchorSteps
        <4> QED  BY <4>1, <3>1, <1>3
      <3> QED  BY <3>1, <1>5
    <2>2. old.action = "anchor" => k > 4
      BY <2>1, <1>5
    <2> QED  BY <2>1, <2>2, <1>3, <1>5, <1>6, <1>7 DEF Reached, Decided
  <1> QED  BY <1>1, <1>2, <1>3, <1>4, <1>6, <1>8, <1>9, <1>10, <1>11, StepDone

LEMMA PlatformKeeps ==
    ASSUME ClaimInv, NEW c \in Callers, NEW platform \in Platforms, WritePlatform(c, platform), UNCHANGED claim_calls
    PROVE  ClaimInv'
  <1>1. PICK old : old = claim_call[c]
    OBVIOUS
  <1>2. Todo(c, platform)
    BY DEF WritePlatform
  <1>3. PICK k \in Nat : /\ At(old, k) /\ Reached(old, k)
                         /\ k \in 1..Len(ClaimPlan(old.action)) /\ ClaimPlan(old.action)[k] = platform
    BY <1>1, <1>2, AtStep
  <1>4. CallSound(old) /\ old.claim \in Known /\ old # NoCall /\ old.action \in ClaimActions /\ old.claim \in ClaimRecord
        /\ old.claim.id \in ClaimIds
    BY <1>1, <1>2, AtStep DEF CallSound
  <1>5. k > 3 /\ k < 8 /\ old.action = "publication_ready"
    BY <1>3, <1>4, Plans
  <1>6. UNCHANGED <<drafts, claims_ledger, anchored, distribution_log, canonical, claim_calls>>
    BY DEF WritePlatform
  <1>k. k > 2 /\ k + 1 > 2 /\ k + 1 > 3
    BY <1>5
  <1>t. drafts' \cup claims_ledger' \subseteq Known
    BY <1>6 DEF Known
  <1>l. \A e \in distribution_log' \ distribution_log :
            e.id \in ClaimIds /\ (e.status = "complete" => distributed'[e.id] = Platforms)
    BY <1>6
  <1>n. claim_calls \in Nat /\ claim_calls' \in Nat /\ claim_calls <= claim_calls'
    BY <1>6, ClaimAssumption DEF ClaimInv, ClaimTypes
  <1>c. old.claim \in drafts' \cup claims_ledger' /\ Cleared(old.claim, "publication_ready")'
    <2>1. old.claim.refs /\ ~old.claim.self /\ evaluate_claim_evidence(old.claim, "publication_ready") = Promote
      <3>1. "publication_ready" \in {"anchor", "publication_ready"} /\ "publication_ready" # "anchor"
        OBVIOUS
      <3> QED  BY <3>1, <1>3, <1>4, <1>5, PassedMeansEvidence DEF Reached
    <2> QED  BY <2>1, <1>k, <1>3, <1>5, <1>6 DEF Reached, Cleared, Decided
  <1>7. CASE Done(c) /\ UNCHANGED distributed
    <2>1. Grown
      BY <1>6, <1>7, StillGrown
    <2>2. ClaimTypes'
      BY <1>6, <1>7, DoneTyped DEF ClaimInv, ClaimTypes
    <2>3. Reached(old, k + 1)'
      BY <1>k, <1>3, <1>5, <1>6, <1>7 DEF Reached, Decided
    <2> QED  BY <1>1, <1>3, <1>4, <1>6, <1>7, <1>t, <1>l, <2>1, <2>2, <2>3, StepDone
  <1>8. CASE /\ distributed' = [distributed EXCEPT ![claim_call[c].claim.id] = @ \cup {platform}]
             /\ claim_call' = [claim_call EXCEPT ![c].todo = Tail(@), ![c].ok = @ \cup {platform}]
    <2>1. PICK rest, ok : rest = Tail(old.todo) /\ ok = old.ok \cup {platform}
      OBVIOUS
    <2>2. PICK job : job = [todo |-> rest, claim |-> old.claim, action |-> old.action, prev |-> old.prev, ok |-> ok]
      OBVIOUS
    <2>3. claim_call' = [claim_call EXCEPT ![c] = job]
      <3>1. old = [todo |-> old.todo, claim |-> old.claim, action |-> old.action, prev |-> old.prev, ok |-> old.ok]
        BY <1>4 DEF CallSound
      <3>2. [old EXCEPT !.todo = rest, !.ok = ok] = job
        BY <2>2, <3>1, TwoFields
      <3>3. claim_call = [d \in Callers |-> claim_call[d]]
        BY DEF ClaimInv, ClaimTypes
      <3>4. claim_call' = [claim_call EXCEPT ![c] = [old EXCEPT !.todo = rest, !.ok = ok]]
        BY <1>8, <1>1, <2>1, <3>3
      <3> QED  BY <3>2, <3>4
    <2>4. job.claim = old.claim /\ job.action = old.action /\ job.ok = ok
      BY <2>2
    <2>5. PICK written : written = distributed[old.claim.id]
      OBVIOUS
    <2>6. /\ distributed' = [distributed EXCEPT ![old.claim.id] = written \cup {platform}]
          /\ distributed \in [ClaimIds -> SUBSET Platforms] /\ written \in SUBSET Platforms
      BY <1>1, <1>4, <1>8, <2>5 DEF ClaimInv, ClaimTypes
    <2>7. /\ distributed' \in [ClaimIds -> SUBSET Platforms]
          /\ distributed'[old.claim.id] = written \cup {platform}
          /\ \A i \in ClaimIds : i # old.claim.id => distributed'[i] = distributed[i]
      BY <1>4, <2>6
    <2>8. Grown
      <3>1. \A i \in ClaimIds : distributed[i] \subseteq distributed'[i]
        BY <2>5, <2>7
      <3> QED  BY <1>6, <3>1, StillGrown
    <2>9. ClaimTypes'
      BY <1>6, <2>3, <2>7 DEF ClaimInv, ClaimTypes
    <2>10. ok \in SUBSET Platforms /\ ok \subseteq distributed'[job.claim.id]
      <3>1. old.ok \subseteq Platforms /\ old.ok \subseteq written
        BY <1>3, <1>4, <1>5, <2>5 DEF CallSound, Reached
      <3> QED  BY <3>1, <2>1, <2>4, <2>7
    <2>11. Reached(job, k + 1)'
      BY <1>k, <1>3, <1>5, <1>6, <2>4, <2>10 DEF Reached, Decided
    <2>12. Len(old.todo) # 1
      <3>1. ClaimPlan(old.action) = DistributeSteps
        BY <1>5 DEF ClaimPlan
      <3>2. Len(DistributeSteps) = 8
        BY DEF DistributeSteps
      <3>3. Len(old.todo) = 8 - k + 1
        BY <1>3, <1>4, <3>1, <3>2, StepAt
      <3> QED  BY <3>3, <1>5
    <2>13. CallSound(job)'
      <3>1. job = [todo |-> Tail(old.todo), claim |-> old.claim, action |-> old.action, prev |-> old.prev, ok |-> ok]
        BY <2>1, <2>2
      <3>2. PICK prev : prev = old.prev
        OBVIOUS
      <3>3. job = [todo |-> Tail(old.todo), claim |-> old.claim, action |-> old.action, prev |-> prev, ok |-> ok]
        BY <3>1, <3>2
      <3> QED  BY <3>3, <2>10, <2>11, <2>12, <1>3, <1>4, <1>n, CallProceeds
    <2>14. \A i \in anchored' \ anchored : \E claim \in claims_ledger' : claim.id = i /\ Cleared(claim, "anchor")'
      BY <1>6
    <2>15. \A i \in ClaimIds : distributed'[i] # distributed[i] =>
               \E claim \in drafts' \cup claims_ledger' : claim.id = i /\ Cleared(claim, "publication_ready")'
      BY <1>c, <2>7
    <2>16. job.claim \in Known
      BY <1>4, <2>4
    <2> QED  BY <1>t, <1>l, <2>3, <2>8, <2>9, <2>13, <2>14, <2>15, <2>16, CallerMoves
  <1> QED  BY <1>7, <1>8 DEF WritePlatform

LEMMA LogKeeps ==
    ASSUME ClaimInv, NEW c \in Callers, LogDistribution(c), UNCHANGED <<claim_calls, claim_faults>>
    PROVE  ClaimInv'
  <1>1. PICK old : old = claim_call[c]
    OBVIOUS
  <1>2. Todo(c, "log") /\ Done(c)
    BY DEF LogDistribution
  <1>3. PICK k \in Nat : /\ At(old, k) /\ Reached(old, k)
                         /\ k \in 1..Len(ClaimPlan(old.action)) /\ ClaimPlan(old.action)[k] = "log"
    BY <1>1, <1>2, AtStep
  <1>4. CallSound(old) /\ old.claim \in Known /\ old # NoCall /\ old.action \in ClaimActions /\ old.claim \in ClaimRecord
        /\ old.claim.id \in ClaimIds
    BY <1>1, <1>2, AtStep DEF CallSound
  <1>5. k > 3 /\ old.action = "publication_ready"
    BY <1>3, <1>4, Plans
  <1>6. UNCHANGED <<drafts, claims_ledger, anchored, distributed, canonical, claim_calls>>
    BY DEF LogDistribution
  <1>7. PICK e : /\ distribution_log' = distribution_log \cup {e} /\ e.id = old.claim.id
                 /\ e.status = "complete" => old.ok = Platforms
    <2>1. PICK status : status = IF old.ok = Platforms THEN "complete" ELSE "partial"
      OBVIOUS
    <2>2. distribution_log' = distribution_log \cup {[id |-> old.claim.id, status |-> status]}
      BY <1>1, <2>1 DEF LogDistribution
    <2>3. status = "complete" => old.ok = Platforms
      BY <2>1
    <2>4. PICK e : e = [id |-> old.claim.id, status |-> status]
      OBVIOUS
    <2>5. e.id = old.claim.id /\ e.status = status
      BY <2>4
    <2> QED  BY <2>2, <2>3, <2>4, <2>5
  <1>8. distributed[old.claim.id] \subseteq Platforms /\ old.ok \subseteq distributed[old.claim.id]
    BY <1>3, <1>4, <1>5 DEF Reached, ClaimInv, ClaimTypes
  <1>9. \A f \in distribution_log' \ distribution_log :
            f.id \in ClaimIds /\ (f.status = "complete" => distributed'[f.id] = Platforms)
    <2> SUFFICES ASSUME NEW f \in distribution_log', f \notin distribution_log
                 PROVE  f.id \in ClaimIds /\ (f.status = "complete" => distributed'[f.id] = Platforms)
      OBVIOUS
    <2>1. f = e
      BY <1>7
    <2>2. old.ok = Platforms => distributed[old.claim.id] = Platforms
      BY <1>8
    <2> QED  BY <1>4, <1>6, <1>7, <2>1, <2>2
  <1>10. Grown
    BY <1>6, StillGrown
  <1>11. ClaimTypes'
    BY <1>2, <1>6, DoneTyped DEF ClaimInv, ClaimTypes
  <1>12. drafts' \cup claims_ledger' \subseteq Known
    BY <1>6 DEF Known
  <1>13. Reached(old, k + 1)'
    <2>1. k > 2 /\ k + 1 > 3
      BY <1>5
    <2> QED  BY <2>1, <1>3, <1>5, <1>6 DEF Reached, Decided
  <1> QED  BY <1>1, <1>2, <1>3, <1>4, <1>6, <1>9, <1>10, <1>11, <1>12, <1>13, StepDone

LEMMA KilledKeeps ==
    ASSUME ClaimInv, NEW c \in Callers, CallerKilled(c)
    PROVE  ClaimInv'
  <1>1. UNCHANGED <<drafts, claims_ledger, anchored, distributed, distribution_log, claim_calls>> /\ Raise(c)
    BY DEF CallerKilled
  <1>2. canonical' = canonical \/ canonical' = [canonical EXCEPT !.torn = TRUE]
    BY DEF CallerKilled, TornWrite
  <1>3. /\ canonical'.entries = canonical.entries /\ canonical'.torn \in BOOLEAN
        /\ canonical' = [entries |-> canonical'.entries, torn |-> canonical'.torn]
        /\ canonical.torn => canonical'.torn
    <2>1. canonical = [entries |-> canonical.entries, torn |-> canonical.torn] /\ canonical.torn \in BOOLEAN
      BY DEF ClaimInv, ClaimTypes
    <2>2. CASE canonical' = canonical
      BY <2>1, <2>2
    <2>3. CASE canonical' = [canonical EXCEPT !.torn = TRUE]
      <3>1. canonical' = [entries |-> canonical.entries, torn |-> TRUE]
        BY <2>1, <2>3
      <3> QED  BY <3>1
    <2> QED  BY <1>2, <2>2, <2>3
  <1>4. Grown
    BY <1>1, <1>3, ClaimAssumption DEF Grown, ClaimInv, ClaimTypes, Readable
  <1>5. ClaimTypes'
    <2>1. IsLog(canonical'.entries)
      BY <1>3 DEF ClaimInv, ClaimTypes
    <2> QED  BY <2>1, <1>1, <1>3, DoneTyped DEF ClaimInv, ClaimTypes
  <1>6. claim_call' = [claim_call EXCEPT ![c] = NoCall]
    BY <1>1 DEF Raise
  <1>7. drafts' \cup claims_ledger' \subseteq Known
    BY <1>1 DEF Known
  <1> QED  BY <1>1, <1>4, <1>5, <1>6, <1>7, CallerMoves

(* Nothing changed.                                                          *)
LEMMA ClaimStutter == ClaimInv /\ UNCHANGED claim_vars => ClaimInv'
  <1> SUFFICES ASSUME ClaimInv, UNCHANGED claim_vars PROVE ClaimInv'
    OBVIOUS
  <1>1. UNCHANGED <<drafts, claims_ledger, anchored, distributed, distribution_log, canonical, claim_call, claim_calls>>
    BY DEF claim_vars
  <1>2. Known' = Known
    BY <1>1 DEF Known
  <1>3. ClaimTypes' /\ OneClaimPerId' /\ AnchoredSound' /\ DistributedSound' /\ LogSound'
    BY <1>1, <1>2 DEF ClaimInv, ClaimTypes, OneClaimPerId, AnchoredSound, DistributedSound, LogSound, Cleared, Decided
  <1>4. \A c \in Callers : claim_call'[c] = NoCall \/ CallSound(claim_call[c])'
    BY <1>1 DEF ClaimInv, CallSound, At, Reached, Decided
  <1> QED  BY <1>3, <1>4 DEF ClaimInv

LEMMA ClaimStepInv == ClaimInv /\ [ClaimNext]_claim_vars => ClaimInv'
  <1> SUFFICES ASSUME ClaimInv, ClaimNext PROVE ClaimInv'
    BY ClaimStutter
  <1>1. PICK c \in Callers :
            \/ ClaimStep(c) \/ CallerKilled(c) \/ ProcessInbox(c)
            \/ \E refs, self, governed \in BOOLEAN, status \in {"anchored", "provisional"} :
                   GenerateClaim(c, refs, self, status, governed, "manual")
            \/ \E claim \in drafts \cup claims_ledger : DistributeClaim(c, claim)
    BY DEF ClaimNext
  <1>2. CASE ClaimStep(c)
    <2>1. UNCHANGED claim_calls
      BY <1>2 DEF ClaimStep
    <2>2. CASE /\ UNCHANGED claim_faults
               /\ \/ ReadCanonical(c) \/ WriteCanonical(c) \/ RequireEvidence(c) \/ AppendClaim(c)
                  \/ WriteAnchored(c) \/ ReturnClaim(c) \/ LogDistribution(c)
      BY <2>1, <2>2, ReadKeeps, WriteKeeps, GateKeeps, LedgerKeeps, AnchorKeeps, ReturnKeeps, LogKeeps
    <2>3. CASE \E platform \in Platforms : WritePlatform(c, platform)
      BY <2>1, <2>3, PlatformKeeps
    <2> QED  BY <1>2, <2>2, <2>3 DEF ClaimStep
  <1>3. CASE CallerKilled(c)
    BY <1>3, KilledKeeps
  <1>4. CASE ProcessInbox(c)
    <2>1. "inbox" \in {"manual", "inbox"} /\ FALSE \in BOOLEAN /\ "anchored" \in {"anchored", "provisional"}
      OBVIOUS
    <2> QED  BY <1>4, <2>1, GenerateKeeps DEF ProcessInbox
  <1>5. CASE \E refs, self, governed \in BOOLEAN, status \in {"anchored", "provisional"} :
                 GenerateClaim(c, refs, self, status, governed, "manual")
    <2>1. "manual" \in {"manual", "inbox"}
      OBVIOUS
    <2> QED  BY <1>5, <2>1, GenerateKeeps
  <1>6. CASE \E claim \in drafts \cup claims_ledger : DistributeClaim(c, claim)
    BY <1>6, DistributeKeeps
  <1> QED  BY <1>1, <1>2, <1>3, <1>4, <1>5, <1>6

(* The invariant holds of every state of the calls.                          *)
LEMMA ClaimInvariant == ClaimSpec => []ClaimInv
  BY ClaimInitInv, ClaimStepInv, PTL DEF ClaimSpec

(* The claims' part of TypeOK.                                              *)
THEOREM ClaimTypesHold == ClaimSpec => []ClaimTypeOK
  <1>1. ClaimInv => ClaimTypeOK
    BY DEF ClaimInv, ClaimTypes, ClaimTypeOK, ClaimRecord
  <1> QED  BY <1>1, ClaimInvariant, PTL

(* claim_engine.py and claim_distribution.py: whoever overlaps or is killed,*)
(* nothing is anchored or distributed without evidence of somebody else, an *)
(* anchored claim is in the claims ledger, "complete" means every platform, *)
(* and what a canonical ledger governs has its decision in there.           *)
THEOREM ClaimsHaveEvidence == ClaimSpec => []ClaimsCarryEvidence
  <1>1. ClaimInv => ClaimsCarryEvidence
    <2> SUFFICES ASSUME ClaimInv PROVE ClaimsCarryEvidence
      OBVIOUS
    <2>1. \A i, action : Decided(i, action, Promote) <=> Admitted(i, action)
      BY DEF Decided, Admitted
    <2>2. \A i \in anchored : \E claim \in claims_ledger : claim.id = i /\ Cleared(claim, "anchor")
      BY DEF ClaimInv, AnchoredSound
    <2>3. ASSUME NEW claim \in drafts \cup claims_ledger, claim.id \in anchored
          PROVE  Cleared(claim, "anchor")
      <3>1. PICK other \in claims_ledger : other.id = claim.id /\ Cleared(other, "anchor")
        BY <2>2, <2>3
      <3>2. other = claim
        BY <3>1 DEF ClaimInv, OneClaimPerId, Known
      <3> QED  BY <3>1, <3>2
    <2>4. ASSUME NEW claim \in drafts \cup claims_ledger, distributed[claim.id] # {}
          PROVE  Cleared(claim, "publication_ready")
      <3>1. claim.id \in ClaimIds
        BY DEF ClaimInv, ClaimTypes, ClaimRecord
      <3>2. PICK other \in drafts \cup claims_ledger : other.id = claim.id /\ Cleared(other, "publication_ready")
        BY <2>4, <3>1 DEF ClaimInv, DistributedSound
      <3>3. other = claim
        BY <3>2 DEF ClaimInv, OneClaimPerId, Known
      <3> QED  BY <3>2, <3>3
    <2>5. \A e \in distribution_log : e.status = "complete" => distributed[e.id] = Platforms
      BY DEF ClaimInv, LogSound
    <2> QED  BY <2>1, <2>2, <2>3, <2>4, <2>5 DEF ClaimsCarryEvidence, Cleared
  <1> QED  BY <1>1, ClaimInvariant, PTL

----------------------------------------------------------------------------
(* Side by side.  The modules share no file: a step of one leaves the files *)
(* of the others alone, so each keeps its own specification.                *)
LedgerProofs == INSTANCE RetentionLedgerProofs WITH
    Writers <- Operators, Contacts <- {TheContact}, CliKey <- "cli",
    Keys <- {"cli", "active", "pending", "unsubscribed", "other"}, PlanFlags <- {TRUE, FALSE},
    CliConsents <- {"opted_in"}, CsvFiles <- OneFile, MaxEvents <- 3, job <- writing

(* The ledgers proved about are the ledgers that are imported into.          *)
LEMMA SameLedgers ==
    /\ Ledgers!Init => LedgerProofs!Init
    /\ [Ledgers!Next]_ledger_vars => [LedgerProofs!Next]_(LedgerProofs!vars)
    /\ LedgerProofs!LostAppendStaysReported => LostAppendStaysReported
  <1>1. Ledgers!Init => LedgerProofs!Init
    BY DEF Ledgers!Idle, LedgerProofs!Idle, Ledgers!Init, LedgerProofs!Init, Ledgers!NoEvent,
           LedgerProofs!NoEvent, Ledgers!NoSnapshot, LedgerProofs!NoSnapshot
  <1>2. Ledgers!Next => LedgerProofs!Next
    BY DEF Ledgers!NoEvent, LedgerProofs!NoEvent, Ledgers!NoSnapshot, LedgerProofs!NoSnapshot,
           Ledgers!SUPPRESSION_EVENT_TYPES, LedgerProofs!SUPPRESSION_EVENT_TYPES,
           Ledgers!DISPATCHABLE_CONSENT_STATUSES, LedgerProofs!DISPATCHABLE_CONSENT_STATUSES,
           Ledgers!AWARE_CONSENT_STATUSES, LedgerProofs!AWARE_CONSENT_STATUSES, Ledgers!LastOf,
           LedgerProofs!LastOf, Ledgers!load_latest_contact_snapshot,
           LedgerProofs!load_latest_contact_snapshot, Ledgers!RowEvent, LedgerProofs!RowEvent,
           Ledgers!SeedEvent, LedgerProofs!SeedEvent, Ledgers!TargetState,
           LedgerProofs!TargetState, Ledgers!evaluate_transition,
           LedgerProofs!evaluate_transition, Ledgers!build_contact_snapshot,
           LedgerProofs!build_contact_snapshot, Ledgers!plan_dispatch,
           LedgerProofs!plan_dispatch, Ledgers!DispatchOf, LedgerProofs!DispatchOf, Ledgers!vars,
           LedgerProofs!vars, Ledgers!Idle, LedgerProofs!Idle, Ledgers!ledgers,
           LedgerProofs!ledgers, Ledgers!Importing, LedgerProofs!Importing, Ledgers!Outcome,
           LedgerProofs!Outcome, Ledgers!NewSnapshot, LedgerProofs!NewSnapshot,
           Ledgers!NextAppend, LedgerProofs!NextAppend, Ledgers!Proceed, LedgerProofs!Proceed,
           Ledgers!run_add_contact, LedgerProofs!run_add_contact, Ledgers!ingest_substack_csv,
           LedgerProofs!ingest_substack_csv, Ledgers!Usable, LedgerProofs!Usable,
           Ledgers!SkipRow, LedgerProofs!SkipRow, Ledgers!ImportRow, LedgerProofs!ImportRow,
           Ledgers!AppendEvent, LedgerProofs!AppendEvent, Ledgers!AppendTransition,
           LedgerProofs!AppendTransition, Ledgers!AppendContact, LedgerProofs!AppendContact,
           Ledgers!AppendDispatch, LedgerProofs!AppendDispatch, Ledgers!AppendManifest,
           LedgerProofs!AppendManifest, Ledgers!Interrupt, LedgerProofs!Interrupt, Ledgers!Step,
           LedgerProofs!Step, Ledgers!Next, LedgerProofs!Next, Ledgers!Elements,
           LedgerProofs!Elements
  <1>3. UNCHANGED ledger_vars => UNCHANGED LedgerProofs!vars
    BY DEF ledger_vars, LedgerProofs!vars, LedgerProofs!ledgers
  <1>4. LedgerProofs!LostAppendStaysReported => Ledgers!LostAppendStaysReported
    BY DEF Ledgers!LostAppendStaysReported, LedgerProofs!LostAppendStaysReported,
           Ledgers!Rows, LedgerProofs!Rows, Ledgers!Cardinality, LedgerProofs!Cardinality, Ledgers!Clean,
           LedgerProofs!Clean, Ledgers!EventNeverDecided, LedgerProofs!EventNeverDecided,
           Ledgers!event_transition_gap, LedgerProofs!event_transition_gap,
           Ledgers!DecisionNeverApplied, LedgerProofs!DecisionNeverApplied,
           Ledgers!transition_snapshot_gap, LedgerProofs!transition_snapshot_gap,
           Ledgers!contact_without_event, LedgerProofs!contact_without_event, Ledgers!Referenced,
           LedgerProofs!Referenced, Ledgers!SamePlan, LedgerProofs!SamePlan,
           Ledgers!dispatch_state_gap, LedgerProofs!dispatch_state_gap, Ledgers!reconcile_state,
           LedgerProofs!reconcile_state, Ledgers!latest_contact_by_id,
           LedgerProofs!latest_contact_by_id, Ledgers!AllowedState, LedgerProofs!AllowedState,
           Ledgers!EligibleWhenPlanned, LedgerProofs!EligibleWhenPlanned,
           Ledgers!DispatchEligible, LedgerProofs!DispatchEligible, Ledgers!evaluate_transition,
           LedgerProofs!evaluate_transition, Ledgers!TargetState, LedgerProofs!TargetState,
           Ledgers!SUPPRESSION_EVENT_TYPES, LedgerProofs!SUPPRESSION_EVENT_TYPES,
           Ledgers!DISPATCHABLE_CONSENT_STATUSES, LedgerProofs!DISPATCHABLE_CONSENT_STATUSES,
           Ledgers!AWARE_CONSENT_STATUSES, LedgerProofs!AWARE_CONSENT_STATUSES,
           Ledgers!build_contact_snapshot, LedgerProofs!build_contact_snapshot,
           Ledgers!plan_dispatch, LedgerProofs!plan_dispatch, Ledgers!DispatchOf,
           LedgerProofs!DispatchOf, Ledgers!LastOf, LedgerProofs!LastOf,
           Ledgers!load_latest_contact_snapshot, LedgerProofs!load_latest_contact_snapshot,
           Ledgers!NoSnapshot, LedgerProofs!NoSnapshot, Ledgers!Elements, LedgerProofs!Elements
  <1> QED  BY <1>1, <1>2, <1>3, <1>4 DEF LostAppendStaysReported

(* What the ledgers' proofs assume of their constants is true of these.      *)
LEMMA LedgerConstants ==
    /\ 3 \in Nat /\ NoEmail \notin {TheContact} /\ {TRUE, FALSE} \subseteq BOOLEAN
    /\ OneFile \subseteq Seq(LedgerProofs!Row) /\ {"opted_in"} \subseteq LedgerProofs!Consents
    /\ "cli" \in {"cli", "active", "pending", "unsubscribed", "other"}
    /\ LedgerProofs!Statuses \subseteq {"cli", "active", "pending", "unsubscribed", "other"}
  <1>1. [contact |-> TheContact, status |-> "unsubscribed"] \in LedgerProofs!Row
    BY DEF LedgerProofs!Row, LedgerProofs!Statuses
  <1>2. \A row \in LedgerProofs!Row : <<row>> \in Seq(LedgerProofs!Row)
    OBVIOUS
  <1>3. OneFile \subseteq Seq(LedgerProofs!Row)
    BY <1>1, <1>2 DEF OneFile
  <1> QED  BY <1>3, AddressAssumption DEF LedgerProofs!Consents, LedgerProofs!Statuses

(* A corpus that starts empty is one of the corpora.                         *)
LEMMA ReflectAnywhere == Init => ReflectInv
  <1> SUFFICES ASSUME Init PROVE ReflectInv
    OBVIOUS
  <1>1. CASE part = "reflective"
    <2>1. ReflectInit({PressureHistory})
      BY <1>1 DEF Init
    <2> QED  BY <2>1, ReflectInitInv
  <1>2. CASE part # "reflective"
    <2>1. ReflectInit({<<>>, CorpusHistory, DetectedHistory}) \/ ReflectInit({<<>>})
      BY <1>2 DEF Init
    <2>2. ReflectInit({<<>>}) => ReflectInit({<<>>, CorpusHistory, DetectedHistory})
      BY DEF ReflectInit
    <2> QED  BY <2>1, <2>2, ReflectInitInv
  <1> QED  BY <1>1, <1>2

(* Packs, claims, authoring, operator runs, publications, reviews and        *)
(* imports: what holds of each on its own holds of it among the others.      *)
THEOREM RecordsKeepTheirSpecs ==
    Spec => /\ PackSpec /\ ClaimSpec /\ AuthSpec /\ OpSpec /\ PubSpec /\ ReviewSpec
            /\ LedgerProofs!Spec
  <1>1. Init => PackInit /\ ClaimInit /\ AuthInit /\ OpInit /\ PubInit /\ ReviewInit /\ LedgerProofs!Init
    BY SameLedgers DEF Init
  <1>2. [Next]_all_vars => [PackNext]_pack_vars
    BY DEF Next, all_vars
  <1>3. [Next]_all_vars => [ClaimNext]_claim_vars
    BY DEF Next, all_vars
  <1>4. [Next]_all_vars => [AuthNext]_auth_vars
    BY DEF Next, all_vars
  <1>5. [Next]_all_vars => [OpNext]_op_vars
    BY DEF Next, all_vars
  <1>6. [Next]_all_vars => [PubNext]_pub_vars
    BY DEF Next, all_vars
  <1>7. [Next]_all_vars => [ReviewNext]_review_vars
    BY DEF Next, all_vars
  <1>8. [Next]_all_vars => [LedgerProofs!Next]_(LedgerProofs!vars)
    <2>1. [Next]_all_vars => [Ledgers!Next]_ledger_vars
      BY DEF Next, all_vars
    <2> QED  BY <2>1, SameLedgers
  <1> QED  BY <1>1, <1>2, <1>3, <1>4, <1>5, <1>6, <1>7, <1>8, PTL
           DEF Spec, PackSpec, ClaimSpec, AuthSpec, OpSpec, PubSpec, ReviewSpec, LedgerProofs!Spec

(* Pressure and corpus write the same variables, each in its part.           *)
LEMMA ReflectInvariant == Spec => []ReflectInv
  <1>1. ReflectInv /\ [Next]_all_vars => ReflectInv'
    <2>1. [Next]_all_vars => [PressureNext \/ CorpusNext]_reflect_vars
      BY DEF Next, all_vars
    <2> QED  BY <2>1, ReflectStepInv
  <1> QED  BY <1>1, ReflectAnywhere, PTL DEF Spec

(* What the record keepers (formal governance, claims, authoring, operator, *)
(* publications, reflective ledgers, review) have on file and in memory is  *)
(* of the kind the code writes there, whichever of them runs.               *)
THEOREM RecordTypesHold == Spec => []TypeOK
  <1>1. /\ PackTypeOK /\ ClaimTypeOK /\ AuthTypeOK /\ OpTypeOK /\ PubTypeOK /\ ReflectTypeOK /\ ReviewTypeOK
        => TypeOK
    BY DEF TypeOK
  <1>2. ReflectInv => ReflectTypeOK
    BY ReflectConsequences
  <1> QED  BY <1>1, <1>2, RecordsKeepTheirSpecs, ReflectInvariant, PackTypesHold, ClaimTypesHold, AuthTypesHold,
              OpTypesHold, PubTypesHold, ReviewTypesHold, PTL

(* Of two imports into the retention ledgers that overlap and are stopped   *)
(* anywhere (substack_csv.py, cli.py), what either left out of transitions  *)
(* or contacts is reported by every later reconciliation.                   *)
THEOREM ImportsStayReported == Spec => []LostAppendStaysReported
  <1>1. LedgerProofs!Spec => []LedgerProofs!LostAppendStaysReported
    BY LedgerConstants, LedgerProofs!LostAppendsStayReported
  <1>2. LedgerProofs!LostAppendStaysReported => LostAppendStaysReported
    BY SameLedgers
  <1> QED  BY <1>1, <1>2, RecordsKeepTheirSpecs, PTL
=============================================================================
