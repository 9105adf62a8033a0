----------------------------- MODULE OperatorProofs -----------------------------
(***************************************************************************)
(* Governed authoring and the operator runtime: two kinds of overlapping   *)
(* commands that may be killed anywhere, each with files of its own and a  *)
(* line in a hash-chained ledger.  An approval is backed by a decision on  *)
(* file, and the record of a run says what the run did, for any number of  *)
(* commands, fixtures, targets and runs.                                   *)
(***************************************************************************)
EXTENDS GovernedAuthoring, OperatorRuntime, SequenceTheorems, FiniteSetTheorems, TLAPS

----------------------------------------------------------------------------
(* Governed authoring.                                                      *)
(* What an append does to a ledger file, and what a torn one does.          *)
LedgerFiles(S) == [entries : Seq(S), torn : BOOLEAN]
Grows(old, new) ==
    /\ Readable(new) => Readable(old)
    /\ \A k \in DOMAIN old.entries : k \in DOMAIN new.entries /\ new.entries[k] = old.entries[k]

(* An entry written to a ledger leaves a ledger that has it.                 *)
LEMMA EntryWritten ==
    ASSUME NEW S, NEW ledger \in LedgerFiles(S), NEW entry \in S, NEW new, new = WriteEntry(ledger, entry)
    PROVE  /\ new \in LedgerFiles(S) /\ Grows(ledger, new)
           /\ Readable(new) => \E k \in DOMAIN new.entries : new.entries[k] = entry
  <1>1. CASE Readable(ledger)
    <2>1. new = [ledger EXCEPT !.entries = Append(ledger.entries, entry)]
      BY <1>1 DEF WriteEntry
    <2>2. ledger.entries \in Seq(S) /\ ledger.torn \in BOOLEAN
      BY DEF LedgerFiles
    <2>3. new.entries = Append(ledger.entries, entry) /\ new.torn = ledger.torn /\ new \in LedgerFiles(S)
      BY <2>1, <2>2, SMTT(30) DEF LedgerFiles
    <2>4. PICK old, log : old = ledger.entries /\ log = new.entries
      OBVIOUS
    <2>5. PICK n \in Nat : n = Len(old)
      BY <2>2, <2>4
    <2>6. /\ DOMAIN old = 1..n /\ DOMAIN log = 1..(n + 1) /\ log[n + 1] = entry
          /\ \A k \in 1..n : k \in 1..(n + 1) /\ log[k] = old[k]
      BY <2>2, <2>3, <2>4, <2>5
    <2>7. n + 1 \in DOMAIN log
      BY <2>5, <2>6
    <2> QED  BY <2>3, <2>4, <2>6, <2>7 DEF Grows, Readable
  <1>2. CASE ~Readable(ledger)
    <2>1. new = ledger
      BY <1>2 DEF WriteEntry
    <2> QED  BY <1>2, <2>1 DEF Grows
  <1> QED  BY <1>1, <1>2

(* A torn line leaves what was there.                                        *)
LEMMA TornWritten ==
    ASSUME NEW S, NEW ledger \in LedgerFiles(S), NEW new, new = TornWrite(ledger)
    PROVE  new \in LedgerFiles(S) /\ Grows(ledger, new)
  <1>1. new.entries = ledger.entries /\ new.torn = TRUE /\ new \in LedgerFiles(S)
    BY DEF TornWrite, LedgerFiles
  <1> QED  BY <1>1 DEF Grows, Readable

LEMMA EmptyLedgerTyped == ASSUME NEW S PROVE EmptyLedger \in LedgerFiles(S)
  <1>1. <<>> \in Seq(S)
    OBVIOUS
  <1> QED  BY <1>1 DEF EmptyLedger, LedgerFiles

(* The gates.  An approved output passed them all.                          *)
AuthDecisions == {"REJECT_MISSING_SOURCE", "EMIT_PROVISIONAL_DRAFT", "REJECT_MISSING_EVIDENCE", "DEFER_UNRESOLVED_TENSION",
                  "REJECT_MISSING_HUMAN_REVIEW", "REJECT_SELF_APPROVAL", "APPROVE_OUTPUT"}

(* What a verdict of the gates says of the packet.                           *)
LEMMA OutcomeOfGates ==
    ASSUME NEW p \in ExportPackets
    PROVE  /\ authoring_outcome(p).decision \in AuthDecisions /\ authoring_outcome(p).status \in Statuses
           /\ authoring_outcome(p).status = "approved" =>
                  /\ p.material /\ p.refs /\ ~p.blocking /\ p.review = "approved"
                  /\ authoring_outcome(p).decision = "APPROVE_OUTPUT"
  <1>1. PICK s : s = source_packet(p)
    OBVIOUS
  <1>2. s.material = p.material /\ s.refs = p.refs /\ s.blocking = p.blocking /\ s.review = p.review
    BY <1>1 DEF source_packet, ExportPackets
  <1>3. PICK gates : gates = AuthoringGates(s)
    OBVIOUS
  <1>4. DOMAIN gates = 1..8
    BY <1>3 DEF AuthoringGates
  <1>5. /\ \A i \in 1..7 : gates[i].status # "approved"
        /\ \A i \in 1..8 : gates[i].status \in Statuses /\ gates[i].decision \in AuthDecisions
        /\ gates[8].status = "approved" /\ gates[8].decision = "APPROVE_OUTPUT" /\ gates[8].blocks
    <2>1. /\ gates[1].decision = "REJECT_MISSING_SOURCE" /\ gates[1].status = "rejected"
          /\ gates[2].decision = "EMIT_PROVISIONAL_DRAFT" /\ gates[2].status = "provisional"
          /\ gates[3].decision = "REJECT_MISSING_EVIDENCE" /\ gates[3].status = "rejected"
          /\ gates[4].decision = "DEFER_UNRESOLVED_TENSION" /\ gates[4].status = "deferred"
          /\ gates[5].decision = "REJECT_MISSING_HUMAN_REVIEW" /\ gates[5].status = "rejected"
          /\ gates[6].decision = "REJECT_SELF_APPROVAL" /\ gates[6].status = "rejected"
          /\ gates[7].decision = "REJECT_MISSING_HUMAN_REVIEW" /\ gates[7].status = "rejected"
          /\ gates[8].decision = "APPROVE_OUTPUT" /\ gates[8].status = "approved"
      BY <1>3 DEF AuthoringGates
    <2>2. gates[8].blocks
      BY <1>3 DEF AuthoringGates
    <2>3. ASSUME NEW i \in 1..7 PROVE gates[i].status # "approved"
      <3>1. i = 1 \/ i = 2 \/ i = 3 \/ i = 4 \/ i = 5 \/ i = 6 \/ i = 7
        OBVIOUS
      <3> QED  BY <2>1, <3>1
    <2>4. ASSUME NEW i \in 1..8 PROVE gates[i].decision \in AuthDecisions /\ gates[i].status \in Statuses
      <3>1. i = 1 \/ i = 2 \/ i = 3 \/ i = 4 \/ i = 5 \/ i = 6 \/ i = 7 \/ i = 8
        OBVIOUS
      <3>2. gates[i].status \in Statuses
        BY <2>1, <3>1 DEF Statuses
      <3>3. gates[i].decision \in AuthDecisions
        BY <2>1, <3>1 DEF AuthDecisions
      <3> QED  BY <3>2, <3>3
    <2> QED  BY <2>1, <2>2, <2>3, <2>4
  <1>6. /\ gates[1].blocks <=> ~s.material
        /\ gates[3].blocks <=> ~s.refs
        /\ gates[4].blocks <=> s.blocking
        /\ gates[7].blocks <=> s.review # "approved"
    BY <1>2, <1>3 DEF AuthoringGates, ExportPackets
  <1> DEFINE First(i) == gates[i].blocks /\ \A j \in 1..(i - 1) : ~gates[j].blocks
  <1>7. \E i \in 1..8 : First(i)
    <2>1. CASE \A j \in 1..7 : ~gates[j].blocks
      BY <1>5, <2>1
    <2>2. CASE gates[1].blocks
      BY <2>2
    <2>3. CASE ~gates[1].blocks /\ gates[2].blocks
      BY <2>3
    <2>4. CASE (\A j \in 1..2 : ~gates[j].blocks) /\ gates[3].blocks
      BY <2>4
    <2>5. CASE (\A j \in 1..3 : ~gates[j].blocks) /\ gates[4].blocks
      BY <2>5
    <2>6. CASE (\A j \in 1..4 : ~gates[j].blocks) /\ gates[5].blocks
      BY <2>6
    <2>7. CASE (\A j \in 1..5 : ~gates[j].blocks) /\ gates[6].blocks
      BY <2>7
    <2>8. CASE (\A j \in 1..6 : ~gates[j].blocks) /\ gates[7].blocks
      BY <2>8
    <2> QED  BY <2>1, <2>2, <2>3, <2>4, <2>5, <2>6, <2>7, <2>8
  <1>8. PICK k : k = CHOOSE i \in DOMAIN gates : First(i)
    OBVIOUS
  <1>9. k \in 1..8 /\ First(k)
    BY <1>4, <1>7, <1>8
  <1>10. authoring_outcome(p) = gates[k]
    BY <1>1, <1>3, <1>8 DEF authoring_outcome
  <1>11. ASSUME gates[k].status = "approved"
         PROVE  k = 8 /\ p.material /\ p.refs /\ ~p.blocking /\ p.review = "approved"
    <2>1. k = 8
      BY <1>5, <1>9, <1>11
    <2>2. ~gates[1].blocks /\ ~gates[3].blocks /\ ~gates[4].blocks /\ ~gates[7].blocks
      BY <1>9, <2>1
    <2> QED  BY <1>2, <1>6, <2>1, <2>2 DEF ExportPackets
  <1> QED  BY <1>5, <1>9, <1>10, <1>11

----------------------------------------------------------------------------
(* A result that says approved, and a command about to write one, rely on   *)
(* an entry of the canonical ledger, as long as it can be read.             *)
AuthEntry == [id : ResultFiles, decision : AuthDecisions, about : ExportPackets, prev : Nat]
AuthStep == {"read", "append", "write", "next"}
WriteNext == <<"write", "next">>
NextOnly == <<"next">>
AppendNext == <<"append", "write", "next">>
AuthJob == [left : Seq([packet : ExportPackets, file : ResultFiles]), todo : Seq(AuthStep), governed : BOOLEAN,
            bundle : BOOLEAN, prev : Nat, passed : BOOLEAN]

ApprovalOnFile(p, ledger) ==
    authoring_outcome(p).status = "approved" /\ Readable(ledger) =>
        \E k \in DOMAIN ledger.entries : ledger.entries[k].about = p /\ ledger.entries[k].decision = "APPROVE_OUTPUT"

ResultSound(r, ledger) ==
    r.status = "approved" =>
        /\ r.packet \in ExportPackets /\ authoring_outcome(r.packet).status = "approved"
        /\ r.entry => ApprovalOnFile(r.packet, ledger)

CommandSound(job, ledger) ==
    \/ job = Resting
    \/ /\ Len(job.left) \in 1..Cardinality(ResultFiles)
       /\ job.todo \in (IF job.governed THEN {PacketSteps, AppendNext} ELSE {}) \cup {WriteNext, NextOnly}
       /\ job.governed /\ job.todo = WriteNext => ApprovalOnFile(Head(job.left).packet, ledger)

AuthTypes ==
    /\ result = [f \in ResultFiles |-> result[f]]
    /\ \A f \in ResultFiles : result[f].holds \in {"absent", "part", "all"}
    /\ auth_ledger \in LedgerFiles(AuthEntry)
    /\ demo_summary \in {"absent", "passed", "failed"}
    /\ command \in [Commands -> AuthJob]

AuthInv ==
    /\ AuthTypes
    /\ \A f \in ResultFiles : ResultSound(result[f], auth_ledger)
    /\ \A c \in Commands : CommandSound(command[c], auth_ledger)

(* The lists of steps a command may have left.                               *)
LEMMA AuthSteps ==
    /\ StepsFor(TRUE) = PacketSteps /\ StepsFor(FALSE) = WriteNext
    /\ PacketSteps \in Seq(AuthStep) /\ AppendNext \in Seq(AuthStep) /\ WriteNext \in Seq(AuthStep) /\ NextOnly \in Seq(AuthStep)
    /\ PacketSteps # <<>> /\ AppendNext # <<>> /\ WriteNext # <<>> /\ NextOnly # <<>>
    /\ Head(PacketSteps) = "read" /\ Head(AppendNext) = "append" /\ Head(WriteNext) = "write" /\ Head(NextOnly) = "next"
    /\ Tail(PacketSteps) = AppendNext /\ Tail(AppendNext) = WriteNext /\ Tail(WriteNext) = NextOnly
  <1>1. StepsFor(TRUE) = PacketSteps /\ StepsFor(FALSE) = WriteNext
    BY DEF StepsFor, WriteNext
  <1>2. /\ PacketSteps \in Seq(AuthStep) /\ AppendNext \in Seq(AuthStep) /\ WriteNext \in Seq(AuthStep)
        /\ NextOnly \in Seq(AuthStep)
    BY DEF PacketSteps, AppendNext, WriteNext, NextOnly, AuthStep
  <1>3. PacketSteps # <<>> /\ AppendNext # <<>> /\ WriteNext # <<>> /\ NextOnly # <<>>
    BY DEF PacketSteps, AppendNext, WriteNext, NextOnly
  <1>4. Head(PacketSteps) = "read" /\ Head(AppendNext) = "append" /\ Head(WriteNext) = "write" /\ Head(NextOnly) = "next"
    BY DEF PacketSteps, AppendNext, WriteNext, NextOnly
  <1>5. Tail(PacketSteps) = AppendNext /\ Tail(AppendNext) = WriteNext /\ Tail(WriteNext) = NextOnly
    BY DEF PacketSteps, AppendNext, WriteNext, NextOnly
  <1> QED  BY <1>1, <1>2, <1>3, <1>4, <1>5

LEMMA RestingTyped ==
    Resting \in AuthJob /\ Resting.left = <<>> /\ Resting.todo = <<>> /\ Resting.governed = FALSE
  BY DEF Resting, AuthJob

(* The files of the fixtures.                                               *)
LEMMA FilesAreNumbered ==
    ResultFiles = 1..Cardinality(ResultFiles) /\ Cardinality(ResultFiles) \in Nat \ {0}
  <1>1. PICK n \in Nat \ {0} : ResultFiles = 1..n
    <2>1. Fixtures \in Seq(ExportPackets) /\ Fixtures # <<>>
      BY AuthoringAssumption
    <2>2. Len(Fixtures) \in Nat \ {0} /\ DOMAIN Fixtures = 1..Len(Fixtures)
      BY <2>1, LenProperties, EmptySeq
    <2> QED  BY <2>2 DEF ResultFiles
  <1>2. Cardinality(1..n) = n
    BY FS_Interval
  <1> QED  BY <1>1, <1>2

(* There is a result file, and finitely many.                                *)
LEMMA SomeFiles == Cardinality(ResultFiles) \in Nat \ {0}
  BY FilesAreNumbered

LEMMA FixtureListTyped ==
    FixtureList \in Seq([packet : ExportPackets, file : ResultFiles]) /\ Len(FixtureList) = Cardinality(ResultFiles)
  <1>1. PICK n \in Nat : n = Cardinality(ResultFiles) /\ ResultFiles = 1..n
    BY FilesAreNumbered
  <1>2. \A i \in 1..n : Fixtures[i] \in ExportPackets
    <2>1. Fixtures \in Seq(ExportPackets)
      BY AuthoringAssumption
    <2>2. Fixtures \in [1..Len(Fixtures) -> ExportPackets]
      BY <2>1, LenProperties
    <2>3. DOMAIN Fixtures = 1..n
      BY <1>1 DEF ResultFiles
    <2> QED  BY <2>2, <2>3
  <1>3. FixtureList = [i \in 1..n |-> [packet |-> Fixtures[i], file |-> i]]
    BY <1>1 DEF FixtureList
  <1>4. \A i \in 1..n : [packet |-> Fixtures[i], file |-> i] \in [packet : ExportPackets, file : ResultFiles]
    BY <1>1, <1>2
  <1>5. FixtureList \in [1..n -> [packet : ExportPackets, file : ResultFiles]]
    BY <1>3, <1>4
  <1>6. FixtureList \in Seq([packet : ExportPackets, file : ResultFiles])
    <2>1. PICK S : S = [packet : ExportPackets, file : ResultFiles]
      OBVIOUS
    <2>2. FixtureList \in [1..n -> S]
      BY <1>5, <2>1
    <2>3. FixtureList \in Seq(S)
      BY <2>2, SeqDef
    <2> QED  BY <2>1, <2>3
  <1>7. PICK m \in Nat : m = Len(FixtureList) /\ DOMAIN FixtureList = 1..m
    BY <1>6, LenProperties
  <1>8. 1..m = 1..n
    BY <1>5, <1>7
  <1>9. m = n
    BY <1>8, FS_Interval
  <1> QED  BY <1>1, <1>6, <1>7, <1>9

(* What is on file stays there as long as the ledger can be read.           *)
LEMMA ApprovalsKept ==
    ASSUME NEW old, NEW new, Grows(old, new), NEW p, ApprovalOnFile(p, old)
    PROVE  ApprovalOnFile(p, new)
  BY DEF ApprovalOnFile, Grows

LEMMA SoundKept ==
    ASSUME NEW old, NEW new, Grows(old, new)
    PROVE  /\ \A r : ResultSound(r, old) => ResultSound(r, new)
           /\ \A job : CommandSound(job, old) => CommandSound(job, new)
  BY ApprovalsKept DEF ResultSound, CommandSound

(* A ledger grows from itself.                                               *)
LEMMA GrowsRefl == ASSUME NEW ledger PROVE Grows(ledger, ledger)
  BY DEF Grows

(* The command of a step.                                                   *)
LEMMA CommandSteps ==
    ASSUME AuthInv, NEW c \in Commands, NEW job \in AuthJob, command' = [command EXCEPT ![c] = job],
           CommandSound(job, auth_ledger'), auth_ledger' \in LedgerFiles(AuthEntry), Grows(auth_ledger, auth_ledger'),
           demo_summary' \in {"absent", "passed", "failed"},
           \/ result' = result
           \/ \E f \in ResultFiles : \E r : /\ result' = [result EXCEPT ![f] = r] /\ r.holds \in {"part", "all"}
                                             /\ ResultSound(r, auth_ledger')
    PROVE  AuthInv'
  <1>1. PICK was, is, old, new : was = auth_ledger /\ is = auth_ledger' /\ old = command /\ new = command'
    OBVIOUS
  <1>2. old \in [Commands -> AuthJob]
    BY <1>1 DEF AuthInv, AuthTypes
  <1>3. new \in [Commands -> AuthJob] /\ new[c] = job /\ \A d \in Commands \ {c} : new[d] = old[d]
    BY <1>1, <1>2
  <1>4. \A d \in Commands : CommandSound(old[d], was)
    BY <1>1 DEF AuthInv
  <1>5. \A d \in Commands : CommandSound(old[d], is)
    BY <1>1, <1>4, SoundKept
  <1>6. \A d \in Commands : CommandSound(new[d], is)
    BY <1>1, <1>3, <1>5
  <1>7. PICK files, after : files = result /\ after = result'
    OBVIOUS
  <1>8. files = [f \in ResultFiles |-> files[f]] /\ \A f \in ResultFiles : files[f].holds \in {"absent", "part", "all"}
    BY <1>7 DEF AuthInv, AuthTypes
  <1>9. \A f \in ResultFiles : ResultSound(files[f], is)
    BY <1>1, <1>7, SoundKept DEF AuthInv
  <1>10. /\ after = [f \in ResultFiles |-> after[f]]
         /\ \A f \in ResultFiles : after[f].holds \in {"absent", "part", "all"} /\ ResultSound(after[f], is)
    <2>1. CASE after = files
      BY <1>8, <1>9, <2>1
    <2>2. CASE after # files
      <3>1. PICK f \in ResultFiles : \E r : /\ after = [files EXCEPT ![f] = r] /\ r.holds \in {"part", "all"}
                                            /\ ResultSound(r, is)
        BY <1>1, <1>7, <2>2
      <3>2. PICK r : /\ after = [files EXCEPT ![f] = r] /\ r.holds \in {"part", "all"} /\ ResultSound(r, is)
        BY <3>1
      <3>3. after[f] = r /\ \A g \in ResultFiles \ {f} : after[g] = files[g]
        BY <1>8, <3>2
      <3>4. after = [g \in ResultFiles |-> after[g]]
        BY <1>8, <3>2
      <3> QED  BY <1>8, <1>9, <3>2, <3>3, <3>4
    <2> QED  BY <2>1, <2>2
  <1>11. AuthTypes'
    BY <1>1, <1>3, <1>7, <1>10 DEF AuthTypes
  <1> QED  BY <1>1, <1>6, <1>7, <1>10, <1>11 DEF AuthInv

LEMMA RestKeeps ==
    ASSUME AuthInv, NEW c \in Commands, command' = [command EXCEPT ![c] = Resting],
           auth_ledger' \in LedgerFiles(AuthEntry), Grows(auth_ledger, auth_ledger'),
           demo_summary' \in {"absent", "passed", "failed"},
           \/ result' = result
           \/ \E f \in ResultFiles : \E r : /\ result' = [result EXCEPT ![f] = r] /\ r.holds \in {"part", "all"}
                                             /\ ResultSound(r, auth_ledger')
    PROVE  AuthInv'
  <1>1. CommandSound(Resting, auth_ledger')
    BY DEF CommandSound
  <1> QED  BY <1>1, RestingTyped, CommandSteps

LEMMA LedgerTyped == ASSUME AuthInv PROVE auth_ledger \in LedgerFiles(AuthEntry) /\ demo_summary \in {"absent", "passed", "failed"}
  BY DEF AuthInv, AuthTypes

(* A command at work: its packets, its steps.                               *)
LEMMA AtWork ==
    ASSUME AuthInv, NEW c \in Commands, NEW job, job = command[c], job # Resting
    PROVE  /\ job \in AuthJob /\ Len(job.left) \in 1..Cardinality(ResultFiles)
           /\ Head(job.left) \in [packet : ExportPackets, file : ResultFiles]
           /\ Packet(c) = Head(job.left).packet /\ Target(c) = Head(job.left).file
           /\ job.todo \in (IF job.governed THEN {PacketSteps, AppendNext} ELSE {}) \cup {WriteNext, NextOnly}
           /\ job.governed /\ job.todo = WriteNext => ApprovalOnFile(Packet(c), auth_ledger)
  <1>1. job \in AuthJob
    BY DEF AuthInv, AuthTypes
  <1>2. CommandSound(job, auth_ledger)
    BY DEF AuthInv
  <1>3. Packet(c) = Head(job.left).packet /\ Target(c) = Head(job.left).file
    BY DEF Packet, Target
  <1>4. job.left \in Seq([packet : ExportPackets, file : ResultFiles]) /\ Len(job.left) \in 1..Cardinality(ResultFiles)
    BY <1>1, <1>2 DEF CommandSound, AuthJob
  <1>5. Len(job.left) >= 1
    BY <1>4, FilesAreNumbered
  <1>6. Head(job.left) \in [packet : ExportPackets, file : ResultFiles]
    <2>1. PICK left, S : left = job.left /\ S = [packet : ExportPackets, file : ResultFiles]
      OBVIOUS
    <2>2. left \in Seq(S) /\ left # <<>>
      BY <1>4, <1>5, <2>1
    <2>3. Head(left) \in S
      BY <2>2, HeadTailProperties
    <2> QED  BY <2>1, <2>3
  <1> QED  BY <1>1, <1>2, <1>3, <1>4, <1>6 DEF CommandSound

(* The step a command is at tells the steps it has left.                     *)
LEMMA AtStepOf ==
    ASSUME AuthInv, NEW c \in Commands, NEW job, job = command[c], NEW step, Awaits(c, step)
    PROVE  /\ job # Resting /\ Head(job.todo) = step
           /\ step = "read" => job.governed /\ job.todo = PacketSteps
           /\ step = "append" => job.governed /\ job.todo = AppendNext
           /\ step = "write" => job.todo = WriteNext
           /\ step = "next" => job.todo = NextOnly
  <1>1. job.todo # <<>> /\ Head(job.todo) = step
    BY DEF Awaits
  <1>2. job # Resting
    BY <1>1, RestingTyped
  <1> QED  BY <1>1, <1>2, AtWork, AuthSteps

LEMMA IssueKeeps ==
    ASSUME AuthInv, NEW c \in Commands, NEW job \in AuthJob, Len(job.left) \in 1..Cardinality(ResultFiles), Issue(c, job),
           job.governed \in BOOLEAN
    PROVE  AuthInv'
  <1>1. PICK next : next = [job EXCEPT !.todo = StepsFor(job.governed)]
    OBVIOUS
  <1>2. StepsFor(job.governed) \in Seq(AuthStep) /\ StepsFor(job.governed) \in {PacketSteps, WriteNext}
        /\ (job.governed <=> StepsFor(job.governed) = PacketSteps)
    BY AuthSteps
  <1>3. next \in AuthJob /\ next.left = job.left /\ next.governed = job.governed /\ next.todo = StepsFor(job.governed)
    BY <1>1, <1>2 DEF AuthJob
  <1>4. PacketSteps # WriteNext
    BY AuthSteps
  <1>5. CommandSound(next, auth_ledger)
    BY <1>2, <1>3, <1>4 DEF CommandSound
  <1> QED  BY <1>1, <1>3, <1>5, LedgerTyped, GrowsRefl, CommandSteps DEF Issue

(* The commands begin with what they were given.                             *)
LEMMA StartsKeep ==
    ASSUME AuthInv, NEW c \in Commands,
           \/ \E p \in Exports, f \in ResultFiles, governed, guarded \in BOOLEAN :
                  verify_static_export(c, p, f, governed, guarded)
           \/ \E governed \in BOOLEAN : run_demo_bundle(c, governed)
    PROVE  AuthInv'
  <1>1. ASSUME NEW p \in Exports, NEW f \in ResultFiles, NEW governed \in BOOLEAN, NEW guarded \in BOOLEAN,
               verify_static_export(c, p, f, governed, guarded)
        PROVE  AuthInv'
    <2>1. PICK left : left = <<[packet |-> p, file |-> f]>>
      OBVIOUS
    <2>2. left \in Seq([packet : ExportPackets, file : ResultFiles]) /\ Len(left) = 1
      <3>1. p \in ExportPackets
        BY AuthoringAssumption
      <3> QED  BY <2>1, <3>1
    <2>3. PICK half : half = [Resting EXCEPT !.left = left]
      OBVIOUS
    <2>4. half \in AuthJob /\ half.left = left
      BY <2>2, <2>3, RestingTyped DEF AuthJob
    <2>5. PICK job : job = [half EXCEPT !.governed = governed]
      OBVIOUS
    <2>6. job \in AuthJob /\ job.left = left /\ job.governed \in BOOLEAN
      BY <2>4, <2>5 DEF AuthJob
    <2>7. Issue(c, job)
      BY <1>1, <2>1, <2>3, <2>5 DEF verify_static_export
    <2>8. Len(job.left) \in 1..Cardinality(ResultFiles)
      <3>1. PICK m : m = Cardinality(ResultFiles)
        OBVIOUS
      <3>2. m \in Nat \ {0} /\ Len(job.left) = 1
        BY <2>2, <2>6, <3>1, SomeFiles
      <3>3. Len(job.left) \in 1..m
        BY <3>2
      <3> QED  BY <3>1, <3>3
    <2> QED  BY <2>6, <2>7, <2>8, IssueKeeps
  <1>2. ASSUME NEW governed \in BOOLEAN, run_demo_bundle(c, governed)
        PROVE  AuthInv'
    <2>1. Len(FixtureList) \in 1..Cardinality(ResultFiles)
      BY FilesAreNumbered, FixtureListTyped
    <2>2. PICK half : half = [Resting EXCEPT !.left = FixtureList]
      OBVIOUS
    <2>3. half \in AuthJob /\ half.left = FixtureList
      BY <2>2, RestingTyped, FixtureListTyped DEF AuthJob
    <2>4. PICK most : most = [half EXCEPT !.governed = governed]
      OBVIOUS
    <2>5. most \in AuthJob /\ most.left = FixtureList
      BY <2>3, <2>4 DEF AuthJob
    <2>6. PICK job : job = [most EXCEPT !.bundle = TRUE]
      OBVIOUS
    <2>7. job \in AuthJob /\ job.left = FixtureList
      BY <2>5, <2>6 DEF AuthJob
    <2>8. job.governed \in BOOLEAN
      BY <2>7 DEF AuthJob
    <2>9. Issue(c, job)
      BY <1>2, <2>2, <2>4, <2>6 DEF run_demo_bundle
    <2> QED  BY <2>1, <2>7, <2>8, <2>9, IssueKeeps
  <1> QED  BY <1>1, <1>2

(* The ledger is read before the entry is built.                             *)
LEMMA ReadKeepsAuth == ASSUME AuthInv, NEW c \in Commands, ReadAuthLedger(c) PROVE AuthInv'
  <1>1. PICK old : old = command[c]
    OBVIOUS
  <1>2. /\ old \in AuthJob /\ old # Resting /\ Len(old.left) \in 1..Cardinality(ResultFiles)
        /\ old.governed /\ old.todo = PacketSteps
    BY <1>1, AtWork, AtStepOf DEF ReadAuthLedger
  <1>3. auth_ledger' = auth_ledger /\ demo_summary' = demo_summary /\ result' = result
    BY DEF ReadAuthLedger
  <1>4. CASE Readable(auth_ledger)
    <2>1. PICK n : n = Len(auth_ledger.entries)
      OBVIOUS
    <2>2. n \in Nat
      BY <2>1, LedgerTyped DEF LedgerFiles
    <2>3. PICK half : half = [old EXCEPT !.todo = Tail(old.todo)]
      OBVIOUS
    <2>4. half \in AuthJob /\ half.left = old.left /\ half.governed /\ half.todo = AppendNext
      BY <1>2, <2>3, AuthSteps DEF AuthJob
    <2>5. PICK job : job = [half EXCEPT !.prev = n]
      OBVIOUS
    <2>6. job \in AuthJob /\ job.left = old.left /\ job.governed /\ job.todo = AppendNext
      BY <2>2, <2>4, <2>5 DEF AuthJob
    <2>7. command' = [command EXCEPT ![c] = job]
      BY <1>1, <1>4, <2>1, <2>3, <2>5 DEF ReadAuthLedger
    <2>8. AppendNext # WriteNext
      BY AuthSteps
    <2>9. CommandSound(job, auth_ledger)
      BY <1>2, <2>6, <2>8 DEF CommandSound
    <2> QED  BY <1>3, <2>6, <2>7, <2>9, LedgerTyped, GrowsRefl, CommandSteps
  <1>5. CASE ~Readable(auth_ledger)
    <2>1. command' = [command EXCEPT ![c] = Resting]
      BY <1>5 DEF ReadAuthLedger
    <2> QED  BY <1>3, <2>1, LedgerTyped, GrowsRefl, RestKeeps
  <1> QED  BY <1>4, <1>5

(* The entry is appended, or torn, after the ledger was read.                *)
LEMMA AppendKeepsAuth == ASSUME AuthInv, NEW c \in Commands, AppendAuthDecision(c) PROVE AuthInv'
  <1>1. PICK old : old = command[c]
    OBVIOUS
  <1>2. /\ old \in AuthJob /\ old # Resting /\ Len(old.left) \in 1..Cardinality(ResultFiles)
        /\ old.governed /\ old.todo = AppendNext
    BY <1>1, AtWork, AtStepOf DEF AppendAuthDecision
  <1>3. demo_summary' = demo_summary /\ result' = result
    BY DEF AppendAuthDecision
  <1>4. PICK p, f : p = Packet(c) /\ f = Target(c)
    OBVIOUS
  <1>5. p \in ExportPackets /\ f \in ResultFiles /\ p = Head(old.left).packet
    BY <1>1, <1>2, <1>4, AtWork
  <1>6. PICK entry : entry = build_ledger_entry(f, authoring_outcome(p).decision, p, old.prev)
    OBVIOUS
  <1>7. entry \in AuthEntry /\ entry.about = p /\ entry.decision = authoring_outcome(p).decision
    <2>1. old.prev \in Nat
      BY <1>2 DEF AuthJob
    <2> QED  BY <1>5, <1>6, <2>1, OutcomeOfGates DEF build_ledger_entry, AuthEntry
  <1>8. PICK new : new = auth_ledger'
    OBVIOUS
  <1>9. new = WriteEntry(auth_ledger, entry)
    BY <1>1, <1>4, <1>6, <1>8 DEF AppendAuthDecision
  <1>10. /\ new \in LedgerFiles(AuthEntry) /\ Grows(auth_ledger, new)
         /\ Readable(new) => \E k \in DOMAIN new.entries : new.entries[k] = entry
    BY <1>7, <1>9, LedgerTyped, EntryWritten
  <1>11. ApprovalOnFile(p, new)
    BY <1>5, <1>7, <1>10, OutcomeOfGates DEF ApprovalOnFile
  <1>12. PICK job : job = [old EXCEPT !.todo = Tail(old.todo)]
    OBVIOUS
  <1>13. job \in AuthJob /\ job.left = old.left /\ job.governed /\ job.todo = WriteNext
    BY <1>2, <1>12, AuthSteps DEF AuthJob
  <1>14. command' = [command EXCEPT ![c] = job]
    BY <1>1, <1>2, <1>12 DEF AppendAuthDecision, Advance, AuthInv, AuthTypes
  <1>15. CommandSound(job, new)
    BY <1>2, <1>5, <1>11, <1>13 DEF CommandSound
  <1> QED  BY <1>3, <1>8, <1>10, <1>13, <1>14, <1>15, LedgerTyped, CommandSteps

(* The result is written with the verdict that was recorded before it.       *)
LEMMA WriteKeepsAuth == ASSUME AuthInv, NEW c \in Commands, write_static_import_packet(c) PROVE AuthInv'
  <1>1. PICK old : old = command[c]
    OBVIOUS
  <1>2. /\ old \in AuthJob /\ old # Resting /\ Len(old.left) \in 1..Cardinality(ResultFiles)
        /\ old.todo = WriteNext
    BY <1>1, AtWork, AtStepOf DEF write_static_import_packet
  <1>3. auth_ledger' = auth_ledger /\ demo_summary' = demo_summary
    BY DEF write_static_import_packet
  <1>4. PICK p, f : p = Packet(c) /\ f = Target(c)
    OBVIOUS
  <1>5. p \in ExportPackets /\ f \in ResultFiles /\ (old.governed => ApprovalOnFile(p, auth_ledger))
    BY <1>1, <1>2, <1>4, AtWork
  <1>6. PICK r : r = ResultOf(p, old.governed)
    OBVIOUS
  <1>7. r.holds = "all" /\ r.packet = p /\ r.status = authoring_outcome(p).status /\ r.entry = old.governed
    BY <1>6 DEF ResultOf
  <1>8. ResultSound(r, auth_ledger)
    BY <1>5, <1>7 DEF ResultSound
  <1>9. result' = [result EXCEPT ![f] = r]
    BY <1>1, <1>4, <1>6 DEF write_static_import_packet
  <1>10. PICK job : job = [old EXCEPT !.todo = Tail(old.todo)]
    OBVIOUS
  <1>11. job \in AuthJob /\ job.left = old.left /\ job.todo = NextOnly
    BY <1>2, <1>10, AuthSteps DEF AuthJob
  <1>12. command' = [command EXCEPT ![c] = job]
    BY <1>1, <1>2, <1>10 DEF write_static_import_packet, Advance, AuthInv, AuthTypes
  <1>13. NextOnly # WriteNext
    BY AuthSteps
  <1>14. CommandSound(job, auth_ledger)
    BY <1>2, <1>11, <1>13 DEF CommandSound
  <1>15. r.holds \in {"part", "all"}
    BY <1>7
  <1> QED  BY <1>3, <1>5, <1>8, <1>9, <1>11, <1>12, <1>14, <1>15, LedgerTyped, GrowsRefl, CommandSteps

(* A bundle goes on with its next packet.                                    *)
LEMMA NextKeepsAuth == ASSUME AuthInv, NEW c \in Commands, NextPacket(c) PROVE AuthInv'
  <1>1. PICK old : old = command[c]
    OBVIOUS
  <1>2. old \in AuthJob /\ old # Resting /\ Len(old.left) \in 1..Cardinality(ResultFiles)
    BY <1>1, AtWork, AtStepOf DEF NextPacket
  <1>3. auth_ledger' = auth_ledger /\ result' = result
    BY DEF NextPacket
  <1>4. PICK half : half = [old EXCEPT !.left = Tail(old.left)]
    OBVIOUS
  <1>5. PICK left : left = Tail(old.left)
    OBVIOUS
  <1>6. left \in Seq([packet : ExportPackets, file : ResultFiles]) /\ Len(left) = Len(old.left) - 1
    <2>1. PICK was, S : was = old.left /\ S = [packet : ExportPackets, file : ResultFiles]
      OBVIOUS
    <2>2. was \in Seq(S) /\ Len(was) >= 1
      BY <1>2, <2>1, FilesAreNumbered DEF AuthJob
    <2>3. was # <<>>
      BY <2>2
    <2>4. Tail(was) \in Seq(S) /\ Len(Tail(was)) = Len(was) - 1
      BY <2>2, <2>3, HeadTailProperties
    <2> QED  BY <1>5, <2>1, <2>4
  <1>7. half \in AuthJob /\ half.left = left /\ half.governed = old.governed
    BY <1>2, <1>4, <1>5, <1>6 DEF AuthJob
  <1>8. PICK passed : passed = (old.passed /\ authoring_outcome(Packet(c)).status = Packet(c).expected)
    OBVIOUS
  <1>9. PICK job : job = [half EXCEPT !.passed = passed]
    OBVIOUS
  <1>10. job \in AuthJob /\ job.left = left /\ job.governed = old.governed
    <2>1. passed \in BOOLEAN
      BY <1>8
    <2> QED  BY <1>7, <1>9, <2>1 DEF AuthJob
  <1>11. /\ job = [old EXCEPT !.left = Tail(@),
                      !.passed = @ /\ authoring_outcome(Packet(c)).status = Packet(c).expected]
    BY <1>2, <1>4, <1>8, <1>9 DEF AuthJob
  <1>12. CASE left = <<>>
    <2>1. command' = [command EXCEPT ![c] = Resting] /\ demo_summary' \in {demo_summary, "passed", "failed"}
      BY <1>1, <1>10, <1>11, <1>12 DEF NextPacket
    <2>2. demo_summary' \in {"absent", "passed", "failed"}
      BY <2>1, LedgerTyped
    <2> QED  BY <1>3, <2>1, <2>2, LedgerTyped, GrowsRefl, RestKeeps
  <1>13. CASE left # <<>>
    <2>1. PICK next : next = [job EXCEPT !.todo = StepsFor(job.governed)]
      OBVIOUS
    <2>2. command' = [command EXCEPT ![c] = next] /\ demo_summary' = demo_summary
      BY <1>1, <1>10, <1>11, <1>13, <2>1 DEF NextPacket
    <2>3. job.governed \in BOOLEAN
      BY <1>10 DEF AuthJob
    <2>4. /\ StepsFor(job.governed) \in Seq(AuthStep) /\ StepsFor(job.governed) \in {PacketSteps, WriteNext}
          /\ (job.governed <=> StepsFor(job.governed) = PacketSteps) /\ PacketSteps # WriteNext
      BY <2>3, AuthSteps
    <2>5. next \in AuthJob /\ next.left = left /\ next.governed = job.governed /\ next.todo = StepsFor(job.governed)
      BY <1>10, <2>1, <2>4 DEF AuthJob
    <2>6. Len(left) \in 1..Cardinality(ResultFiles)
      <3>1. Len(left) # 0
        BY <1>6, <1>13, EmptySeq
      <3>2. PICK m, k, l : m = Cardinality(ResultFiles) /\ k = Len(old.left) /\ l = Len(left)
        OBVIOUS
      <3>3. m \in Nat /\ k \in 1..m /\ l = k - 1 /\ l # 0
        BY <1>2, <1>6, <3>1, <3>2, SomeFiles
      <3>4. l \in 1..m
        BY <3>3
      <3> QED  BY <3>2, <3>4
    <2>7. CommandSound(next, auth_ledger)
      BY <2>4, <2>5, <2>6 DEF CommandSound
    <2> QED  BY <1>3, <2>2, <2>5, <2>7, LedgerTyped, GrowsRefl, CommandSteps
  <1> QED  BY <1>12, <1>13

(* A killed command leaves its results as they are.                          *)
LEMMA KilledKeepsAuth == ASSUME AuthInv, NEW c \in Commands, CommandKilled(c) PROVE AuthInv'
  <1>1. command' = [command EXCEPT ![c] = Resting] /\ demo_summary' = demo_summary
    BY DEF CommandKilled
  <1>2. CASE UNCHANGED <<auth_ledger, result>>
    BY <1>1, <1>2, LedgerTyped, GrowsRefl, RestKeeps
  <1>3. CASE auth_ledger' = TornWrite(auth_ledger) /\ UNCHANGED result
    <2>1. PICK new : new = auth_ledger'
      OBVIOUS
    <2>2. new \in LedgerFiles(AuthEntry) /\ Grows(auth_ledger, new)
      BY <1>3, <2>1, LedgerTyped, TornWritten
    <2> QED  BY <1>1, <1>3, <2>1, <2>2, LedgerTyped, RestKeeps
  <1>4. CASE Awaits(c, "write") /\ result' = [result EXCEPT ![Target(c)] = CutOff] /\ UNCHANGED auth_ledger
    <2>1. Target(c) \in ResultFiles
      <3>1. PICK old : old = command[c]
        OBVIOUS
      <3> QED  BY <1>4, <3>1, AtWork, AtStepOf
    <2>2. CutOff.holds \in {"part", "all"} /\ CutOff.status = "none"
      BY DEF CutOff, Absent
    <2>3. ResultSound(CutOff, auth_ledger)
      BY <2>2 DEF ResultSound
    <2> QED  BY <1>1, <1>4, <2>1, <2>2, <2>3, LedgerTyped, GrowsRefl, RestKeeps
  <1> QED  BY <1>2, <1>3, <1>4 DEF CommandKilled

LEMMA AuthInitInv == AuthInit => AuthInv
  <1> SUFFICES ASSUME AuthInit PROVE AuthInv
    OBVIOUS
  <1>1. \A f \in ResultFiles : result[f] = Absent
    BY DEF AuthInit
  <1>2. Absent.holds = "absent" /\ Absent.status = "none"
    BY DEF Absent
  <1>3. AuthTypes
    <2>1. auth_ledger \in LedgerFiles(AuthEntry)
      BY EmptyLedgerTyped DEF AuthInit
    <2>2. command \in [Commands -> AuthJob]
      BY RestingTyped DEF AuthInit
    <2>3. result = [f \in ResultFiles |-> result[f]]
      BY DEF AuthInit
    <2> QED  BY <1>1, <1>2, <2>1, <2>2, <2>3 DEF AuthTypes, AuthInit
  <1>4. \A f \in ResultFiles : ResultSound(result[f], auth_ledger)
    BY <1>1, <1>2 DEF ResultSound
  <1>5. \A c \in Commands : command[c] = Resting
    BY DEF AuthInit
  <1> QED  BY <1>3, <1>4, <1>5 DEF AuthInv, CommandSound

LEMMA AuthStepInv == AuthInv /\ [AuthNext]_auth_vars => AuthInv'
  <1> SUFFICES ASSUME AuthInv, [AuthNext]_auth_vars PROVE AuthInv'
    OBVIOUS
  <1>1. ASSUME NEW c \in Commands,
               \/ \E p \in Exports, f \in ResultFiles, governed, guarded \in BOOLEAN :
                      verify_static_export(c, p, f, governed, guarded)
               \/ \E governed \in BOOLEAN : run_demo_bundle(c, governed)
               \/ ReadAuthLedger(c) \/ AppendAuthDecision(c) \/ write_static_import_packet(c)
               \/ NextPacket(c) \/ CommandKilled(c)
        PROVE  AuthInv'
    BY <1>1, StartsKeep, ReadKeepsAuth, AppendKeepsAuth, WriteKeepsAuth, NextKeepsAuth, KilledKeepsAuth
  <1>2. CASE UNCHANGED auth_vars
    BY <1>2 DEF auth_vars, AuthInv, AuthTypes
  <1> QED  BY <1>1, <1>2 DEF AuthNext

(* The invariant holds of every state of the commands.                       *)
LEMMA AuthInvariant == AuthSpec => []AuthInv
  BY AuthInitInv, AuthStepInv, PTL DEF AuthSpec

(* The types of the run.                                                    *)
THEOREM AuthTypesHold == AuthSpec => []AuthTypeOK
  <1>1. AuthInv => AuthTypeOK
    <2> SUFFICES ASSUME AuthInv PROVE AuthTypeOK
      OBVIOUS
    <2>1. ASSUME NEW c \in Commands PROVE Len(command[c].left) <= Cardinality(ResultFiles)
      <3>1. CASE command[c] = Resting
        <4>1. Len(command[c].left) = 0
          BY <3>1, RestingTyped
        <4> QED  BY <4>1, FilesAreNumbered
      <3>2. CASE command[c] # Resting
        BY <3>2, FilesAreNumbered DEF AuthInv, CommandSound
      <3> QED  BY <3>1, <3>2
    <2> QED  BY <2>1 DEF AuthTypeOK, AuthInv, AuthTypes
  <1> QED  BY <1>1, AuthInvariant, PTL

(* For any number of overlapping commands, packets and fixtures: what says  *)
(* approved is backed.                                                      *)
THEOREM ApprovalsAreBacked == AuthSpec => []ApprovedIsBacked
  <1>1. AuthInv => ApprovedIsBacked
    <2> SUFFICES ASSUME AuthInv, NEW f \in ResultFiles, NEW r, r = result[f], r.status = "approved"
                 PROVE  /\ r.packet.material /\ r.packet.refs /\ ~r.packet.blocking /\ r.packet.review = "approved"
                        /\ r.entry /\ Readable(auth_ledger) =>
                             \E k \in DOMAIN auth_ledger.entries :
                                 /\ auth_ledger.entries[k].about = r.packet
                                 /\ auth_ledger.entries[k].decision = "APPROVE_OUTPUT"
      BY DEF ApprovedIsBacked
    <2>1. /\ r.packet \in ExportPackets /\ authoring_outcome(r.packet).status = "approved"
          /\ r.entry => ApprovalOnFile(r.packet, auth_ledger)
      BY DEF AuthInv, ResultSound
    <2> QED  BY <2>1, OutcomeOfGates DEF ApprovalOnFile
  <1> QED  BY <1>1, AuthInvariant, PTL

----------------------------------------------------------------------------
(* The operator runtime.                                                    *)
Sessions == [run : Nat, transactional : BOOLEAN]
IntakeLine == [run : Nat, target : OpTargets \cup {NoTarget}, checked : Nat]
SurfaceNames == {"intake_log", "state_records", "session_state", "tx_snapshots", "run_ledger", "run_records"}
SurfaceRow == [intake_log : Nat, state_records : SUBSET Nat, session_state : Sessions, tx_snapshots : SUBSET Nat,
               run_ledger : Nat, run_records : SUBSET Nat]
RunStatuses == {"ok", "rejected", "held", "partial_success", "snapshot_failed", "contract_violation"}
Accusations == {"no_effect_observed", "undeclared_mutation", "undeclared_extra_mutation", "partial_mutation_detected"}
Consistencies == Accusations \cup {"unknown", "observed_as_declared", "consistent_read_only",
                                   "observed_as_declared_transactional"}
BeforeTool == {"gate", "snapshot", "observe", "handle"}
AtTool     == BeforeTool \cup {"lookup", "compare"}
Unrecorded == AtTool \cup {"emit", "record"}
Recording  == {"ledger", "read", "write", "session"}
ToolLists == {<<>>, <<"session_state_overwrite">>} \cup {ToolsOf(wf) : wf \in OperatorWorkflows}
OpJob == [run : Nat, wf : OperatorWorkflows \cup {"none"}, target : OpTargets \cup {NoTarget},
          tools : ToolLists, completed : Nat, status : RunStatuses,
          pc : Unrecorded \cup Recording \cup {"idle"}, pre : SurfaceRow \cup {<<>>}, checked : Nat, prev : Nat,
          governed : BOOLEAN, consistency : Consistencies, continues : Sessions, found : BOOLEAN, alone : BOOLEAN]

InLedger(run) == \E i \in DOMAIN run_ledger : run_ledger[i] = run
InIntake(run) == \E i \in DOMAIN intake_log : intake_log[i].run = run
NothingFrom(run) == ~InIntake(run) /\ run \notin state_records
Left(run, tool) ==
    /\ tool = "intake_log_append" => InIntake(run)
    /\ tool = "record_state_append" => run \in state_records
OpEntries == [id : Nat, decision : {Promote, "MANUAL_REVIEW_REQUIRED"}, about : OperatorWorkflows, prev : Nat]
InLedgerEntries == {e \in OpEntries : InLedger(e.id)}

OpTypesInv ==
    /\ intake_log \in Seq(IntakeLine)
    /\ state_records \subseteq 1..runs_started /\ tx_snapshots \subseteq 1..runs_started
    /\ session_state \in Sessions /\ session_state.run \in 0..runs_started
    /\ run_records = [r \in DOMAIN run_records |-> run_records[r]] /\ DOMAIN run_records \subseteq 1..runs_started
    /\ run_ledger \in Seq(Nat)
    /\ op_canonical \in LedgerFiles(InLedgerEntries)
    /\ operator_run \in [Operators -> OpJob]
    /\ runs_started \in 0..MaxRuns
    /\ \A i \in DOMAIN intake_log : intake_log[i].run \in 1..runs_started

(* Where a command is in its workflow: at the first tool, or at the second  *)
(* of the compound one with the first behind it.                            *)
AtFirst(job) == job.tools = ToolsOf(job.wf)
AtSecond(job) == /\ job.wf = "intake_append_and_stage_session" /\ job.tools = <<"session_state_overwrite">>
                 /\ InIntake(job.run)

ProgressSound(job) ==
    /\ job.pc \in AtTool =>
          /\ job.status = "ok"
          /\ (job.completed = 0 /\ AtFirst(job)) \/ (job.completed = 1 /\ AtSecond(job))
    /\ job.pc \in BeforeTool /\ job.completed = 0 => NothingFrom(job.run)
    /\ job.pc \in BeforeTool \/ (job.pc \in {"lookup", "compare", "emit"} /\ job.tools[1] # "session_state_overwrite") =>
           session_state.run # job.run
    /\ job.pc \in {"lookup", "compare"} => Left(job.run, job.tools[1])
    /\ job.pc = "emit" /\ job.status = "ok" =>
           (job.completed = 1 /\ AtFirst(job) /\ Left(job.run, job.tools[1])) \/ AtSecond(job)
    /\ job.pc = "emit" => job.status \notin {"rejected", "held"}
    /\ job.pc = "lookup" => job.tools[1] = "continue_operator_task"
    /\ job.pc = "snapshot" => job.tools[1] = "session_state_overwrite"

StatusSound(run, wf, status) ==
    /\ status \in {"rejected", "held"} => NothingFrom(run) /\ ~(session_state.run = run /\ session_state.transactional)
    /\ status = "ok" => \A i \in DOMAIN ToolsOf(wf) : Left(run, ToolsOf(wf)[i])

GateSound(job) ==
    job.pc \in {"observe", "handle"} /\ job.tools[1] = "intake_log_append" =>
        job.checked <= Len(intake_log) /\ \A i \in 1..job.checked : intake_log[i].target # job.target

ContinueSound(job) ==
    /\ job.pc = "lookup" /\ job.continues.run # 0 /\ ~job.continues.transactional =>
           job.continues.run \in DOMAIN run_records
    /\ job.pc # "lookup" /\ job.continues.run # 0 /\ ~job.found => job.continues.transactional

(* A command that runs alone sees what it does itself.                      *)
SeesItself(job) ==
    job.alone =>
        /\ job.pc = "handle" => job.pre = Surfaces
        /\ job.pc \in {"lookup", "compare"} =>
               \A s \in SurfaceNames : job.pre[s] # Surfaces[s] <=> s \in LifecycleWrites(job.tools[1])
        /\ job.consistency \notin Accusations

JobSound(job) ==
    /\ job.pc = "idle" => job.run = 0
    /\ job.pc # "idle" =>
           /\ job.run \in 1..runs_started /\ job.wf \in OperatorWorkflows
           /\ job.pc \in Unrecorded => job.run \notin DOMAIN run_records
           /\ job.pc \in Recording => job.run \in DOMAIN run_records
           /\ job.pc \in {"read", "write", "session"} => InLedger(job.run)
           /\ job.pc = "record" => StatusSound(job.run, job.wf, job.status)
           /\ ProgressSound(job) /\ GateSound(job) /\ ContinueSound(job) /\ SeesItself(job)

RecordSound(r) ==
    /\ StatusSound(r, run_records[r].wf, run_records[r].status)
    /\ run_records[r].continues.run # 0 /\ ~run_records[r].found => run_records[r].continues.transactional
    /\ run_records[r].consistency \in Accusations => ~run_records[r].alone

OpInv ==
    /\ OpTypesInv
    /\ \A o \in Operators : JobSound(operator_run[o])
    /\ \A o1, o2 \in Operators : o1 # o2 /\ ~Doing(o1, "idle") /\ ~Doing(o2, "idle") =>
           operator_run[o1].run # operator_run[o2].run /\ ~operator_run[o1].alone
    /\ \A r \in DOMAIN run_records : RecordSound(r)
    /\ \A j \in DOMAIN intake_log : \A i \in 1..(j - 1) :
           intake_log[i].target = intake_log[j].target => intake_log[j].checked < i
    /\ session_state.run # 0 /\ ~session_state.transactional =>
           session_state.run \in DOMAIN run_records /\ InLedger(session_state.run)

LEMMA NoRunTyped ==
    /\ NoRun \in OpJob /\ NoRun.pc = "idle" /\ NoRun.run = 0 /\ NoRun.tools = <<>> /\ NoRun.status = "ok"
    /\ NoRun.completed = 0 /\ NoRun.continues.run = 0 /\ NoRun.consistency = "unknown" /\ NoSession \in Sessions
  <1>1. NoSession \in Sessions /\ NoSession.run = 0
    BY DEF NoSession, Sessions
  <1>2. /\ NoRun.pc = "idle" /\ NoRun.run = 0 /\ NoRun.tools = <<>> /\ NoRun.status = "ok"
        /\ NoRun.completed = 0 /\ NoRun.continues = NoSession /\ NoRun.consistency = "unknown"
    BY DEF NoRun
  <1>3. "idle" \in Unrecorded \cup Recording \cup {"idle"} /\ "ok" \in RunStatuses /\ "unknown" \in Consistencies
    BY DEF RunStatuses, Consistencies
  <1>4. <<>> \in ToolLists /\ <<>> \in SurfaceRow \cup {<<>>}
    BY DEF ToolLists
  <1>5. NoRun \in OpJob
    BY <1>1, <1>3, <1>4 DEF NoRun, OpJob
  <1> QED  BY <1>1, <1>2, <1>5

(* Which surface each tool writes.                                           *)
LEMMA WroteMeans ==
    ASSUME NEW run
    PROVE  /\ Wrote(run) = {} <=> NothingFrom(run)
           /\ "intake_log_append" \in Wrote(run) <=> InIntake(run)
           /\ "record_state_append" \in Wrote(run) <=> run \in state_records
           /\ "session_state_overwrite" \notin Wrote(run)
  <1>1. "intake_log_append" \in Wrote(run) <=> InIntake(run)
    BY DEF Wrote, InIntake
  <1>2. "record_state_append" \in Wrote(run) <=> run \in state_records
    BY DEF Wrote
  <1>3. \A x \in Wrote(run) : x = "intake_log_append" \/ x = "record_state_append"
    BY DEF Wrote
  <1> QED  BY <1>1, <1>2, <1>3 DEF NothingFrom

(* The tools of a workflow, in order.                                        *)
LEMMA ToolsAre ==
    ASSUME NEW wf \in OperatorWorkflows
    PROVE  /\ ToolsOf(wf) \in Seq(OperatorWorkflows)
           /\ wf = "intake_append_and_stage_session" =>
                  /\ ToolsOf(wf) = <<"intake_log_append", "session_state_overwrite">>
                  /\ Len(ToolsOf(wf)) = 2 /\ DOMAIN ToolsOf(wf) = {1, 2} /\ Tail(ToolsOf(wf)) = <<"session_state_overwrite">>
                  /\ ToolsOf(wf)[1] = "intake_log_append" /\ ToolsOf(wf)[2] = "session_state_overwrite"
           /\ wf # "intake_append_and_stage_session" =>
                  Len(ToolsOf(wf)) = 1 /\ DOMAIN ToolsOf(wf) = {1} /\ ToolsOf(wf)[1] = wf
  <1>1. CASE wf = "intake_append_and_stage_session"
    <2>1. ToolsOf(wf) = <<"intake_log_append", "session_state_overwrite">>
      BY <1>1 DEF ToolsOf
    <2>2. "intake_log_append" \in OperatorWorkflows /\ "session_state_overwrite" \in OperatorWorkflows
      BY DEF OperatorWorkflows, WriteTools
    <2>3. PICK pair : pair = <<"intake_log_append", "session_state_overwrite">>
      OBVIOUS
    <2>4. Len(pair) = 2 /\ pair[1] = "intake_log_append" /\ pair[2] = "session_state_overwrite"
      BY <2>3
    <2>5. DOMAIN pair = {1, 2}
      BY <2>3
    <2>6. Tail(pair) = <<"session_state_overwrite">>
      BY <2>3
    <2>7. pair \in Seq(OperatorWorkflows)
      BY <2>2, <2>3
    <2> QED  BY <1>1, <2>1, <2>3, <2>4, <2>5, <2>6, <2>7
  <1>2. CASE wf # "intake_append_and_stage_session"
    <2>1. ToolsOf(wf) = <<wf>>
      BY <1>2 DEF ToolsOf
    <2> QED  BY <1>2, <2>1
  <1> QED  BY <1>1, <1>2

(* The tool a command is at.                                                *)
LEMMA ToolAt ==
    ASSUME NEW job \in OpJob, job.wf \in OperatorWorkflows, AtFirst(job) \/ AtSecond(job)
    PROVE  /\ job.tools[1] \in OperatorWorkflows \ {"intake_append_and_stage_session"}
           /\ Len(job.tools) \in {1, 2}
           /\ AtFirst(job) /\ ~Compound(job) => job.tools[1] = job.wf /\ Len(job.tools) = 1
           /\ AtFirst(job) /\ Compound(job) =>
                  /\ job.wf = "intake_append_and_stage_session" /\ job.tools[1] = "intake_log_append"
                  /\ Tail(job.tools) = <<"session_state_overwrite">> /\ Len(job.tools) = 2
           /\ AtSecond(job) => job.tools[1] = "session_state_overwrite" /\ Len(job.tools) = 1 /\ Compound(job)
  <1>1. CASE AtFirst(job)
    <2>1. job.wf \in OperatorWorkflows /\ job.tools = ToolsOf(job.wf)
      BY <1>1 DEF AtFirst
    <2>2. "intake_log_append" \in OperatorWorkflows
      BY DEF OperatorWorkflows, WriteTools
    <2>3. ~AtSecond(job)
      BY <2>1, ToolsAre DEF AtSecond
    <2>4. CASE job.wf = "intake_append_and_stage_session"
      <3>1. /\ job.tools[1] = "intake_log_append" /\ Len(job.tools) = 2
            /\ Tail(job.tools) = <<"session_state_overwrite">>
        BY <2>1, <2>4, ToolsAre
      <3>2. Compound(job)
        BY <2>1, <3>1 DEF Compound
      <3> QED  BY <2>2, <2>3, <2>4, <3>1, <3>2
    <2>5. CASE job.wf # "intake_append_and_stage_session"
      <3>1. job.tools[1] = job.wf /\ Len(job.tools) = 1
        BY <2>1, <2>5, ToolsAre
      <3>2. ~Compound(job)
        BY <2>1, <3>1 DEF Compound
      <3> QED  BY <2>1, <2>3, <2>5, <3>1, <3>2
    <2> QED  BY <2>4, <2>5
  <1>2. CASE AtSecond(job)
    <2>1. job.tools[1] = "session_state_overwrite" /\ Len(job.tools) = 1 /\ job.wf = "intake_append_and_stage_session"
      BY <1>2 DEF AtSecond
    <2>2. "session_state_overwrite" \in OperatorWorkflows
      BY DEF OperatorWorkflows, WriteTools
    <2>3. ~AtFirst(job) /\ Compound(job)
      BY <2>1, ToolsAre DEF AtFirst, Compound
    <2> QED  BY <1>2, <2>1, <2>2, <2>3
  <1> QED  BY <1>1, <1>2

(* What a step of a command may do to the files, and to what is known of    *)
(* the others.                                                              *)
Effects(run) ==
    /\ \/ intake_log' = intake_log
       \/ \E line \in IntakeLine : line.run = run /\ intake_log' = Append(intake_log, line)
    /\ \/ state_records' = state_records
       \/ state_records' = state_records \cup {run}
    /\ \/ session_state' = session_state
       \/ session_state'.run = run
    /\ \/ DOMAIN run_records' = DOMAIN run_records
       \/ DOMAIN run_records' = DOMAIN run_records \cup {run}
    /\ \A r : InLedger(r) => InLedger(r)'
    /\ runs_started' = runs_started

(* A run adds its own intakes to the log and nothing else.                   *)
LEMMA EffectsOnLog ==
    ASSUME OpTypesInv, NEW run, Effects(run)
    PROVE  /\ \A i \in DOMAIN intake_log : i \in DOMAIN intake_log' /\ intake_log'[i] = intake_log[i]
           /\ \A i \in DOMAIN intake_log' : i \in DOMAIN intake_log \/ intake_log'[i].run = run
           /\ Len(intake_log) <= Len(intake_log') /\ Len(intake_log) \in Nat /\ Len(intake_log') \in Nat
           /\ DOMAIN intake_log = 1..Len(intake_log) /\ DOMAIN run_records \subseteq DOMAIN run_records'
  <1>1. PICK old : old = intake_log
    OBVIOUS
  <1>2. PICK new : new = intake_log'
    OBVIOUS
  <1>3. old \in Seq(IntakeLine)
    BY <1>1 DEF OpTypesInv
  <1>4. PICK n \in Nat : n = Len(old) /\ DOMAIN old = 1..n
    BY <1>3
  <1>5. /\ \A i \in 1..n : i \in DOMAIN new /\ new[i] = old[i]
        /\ \A i \in DOMAIN new : i \in 1..n \/ new[i].run = run
        /\ Len(new) \in Nat /\ n <= Len(new)
    <2>1. CASE new = old
      BY <1>3, <1>4, <2>1
    <2>2. CASE \E line \in IntakeLine : line.run = run /\ new = Append(old, line)
      <3>1. PICK line \in IntakeLine : line.run = run /\ new = Append(old, line)
        BY <2>2
      <3>2. DOMAIN new = 1..(n + 1) /\ new[n + 1] = line /\ \A i \in 1..n : new[i] = old[i]
        BY <1>3, <1>4, <3>1
      <3>3. Len(new) = n + 1
        BY <1>3, <1>4, <3>1
      <3> QED  BY <3>1, <3>2, <3>3
    <2> QED  BY <1>1, <1>2, <2>1, <2>2 DEF Effects
  <1>6. DOMAIN run_records \subseteq DOMAIN run_records'
    BY DEF Effects
  <1> QED  BY <1>1, <1>2, <1>4, <1>5, <1>6

(* What it does shows on no other run.                                       *)
LEMMA EffectsOnOthers ==
    ASSUME OpTypesInv, NEW run, Effects(run), NEW r, r # run
    PROVE  /\ InIntake(r)' <=> InIntake(r)
           /\ r \in state_records' <=> r \in state_records
           /\ NothingFrom(r)' <=> NothingFrom(r)
           /\ r \in DOMAIN run_records' <=> r \in DOMAIN run_records
           /\ session_state'.run = r <=> session_state.run = r /\ session_state' = session_state
  <1>1. PICK old : old = intake_log
    OBVIOUS
  <1>2. PICK new : new = intake_log'
    OBVIOUS
  <1>3. InIntake(r)' <=> InIntake(r)
    <2>1. (\E i \in DOMAIN new : new[i].run = r) <=> (\E i \in DOMAIN old : old[i].run = r)
      BY <1>1, <1>2, EffectsOnLog
    <2> QED  BY <1>1, <1>2, <2>1 DEF InIntake
  <1>4. r \in state_records' <=> r \in state_records
    BY DEF Effects
  <1>5. r \in DOMAIN run_records' <=> r \in DOMAIN run_records
    BY DEF Effects
  <1>6. session_state'.run = r <=> session_state.run = r /\ session_state' = session_state
    BY DEF Effects
  <1>7. NothingFrom(r)' <=> NothingFrom(r)
    BY <1>3, <1>4 DEF NothingFrom
  <1> QED  BY <1>3, <1>4, <1>5, <1>6, <1>7

(* Nor does it finish a tool of another run, or undo one.                    *)
LEMMA LeftByOthers ==
    ASSUME OpTypesInv, NEW run, Effects(run), NEW r, r # run, NEW tool
    PROVE  Left(r, tool)' <=> Left(r, tool)
  BY EffectsOnOthers DEF Left

(* So the status of another run stays true.                                  *)
LEMMA StatusStays ==
    ASSUME OpTypesInv, NEW run, Effects(run), NEW r, r # run, NEW wf, NEW status, StatusSound(r, wf, status)
    PROVE  StatusSound(r, wf, status)'
  <1>1. /\ NothingFrom(r)' <=> NothingFrom(r)
        /\ \A tool : Left(r, tool)' <=> Left(r, tool)
        /\ session_state'.run = r <=> session_state.run = r /\ session_state' = session_state
    BY EffectsOnOthers, LeftByOthers
  <1>2. status \in {"rejected", "held"} => (NothingFrom(r) /\ ~(session_state.run = r /\ session_state.transactional))'
    BY <1>1 DEF StatusSound
  <1>3. status = "ok" => \A i \in DOMAIN ToolsOf(wf) : Left(r, ToolsOf(wf)[i])'
    BY <1>1 DEF StatusSound
  <1> QED  BY <1>2, <1>3 DEF StatusSound

(* And so does the job of one that overlaps.                                 *)
LEMMA OtherJobSound ==
    ASSUME OpTypesInv, NEW run, Effects(run), NEW job \in OpJob, JobSound(job), job.pc # "idle", job.run # run, ~job.alone
    PROVE  JobSound(job)'
  <1> DEFINE r == job.run
  <1>1. /\ NothingFrom(r)' <=> NothingFrom(r)
        /\ InIntake(r)' <=> InIntake(r)
        /\ \A tool : Left(r, tool)' <=> Left(r, tool)
        /\ session_state'.run = r => session_state.run = r
        /\ r \in DOMAIN run_records' <=> r \in DOMAIN run_records
    <2> HIDE DEF r
    <2>1. r # run
      BY DEF r
    <2> QED  BY <2>1, EffectsOnOthers, LeftByOthers
  <1>2. runs_started' = runs_started /\ (InLedger(job.run) => InLedger(job.run)')
    BY DEF Effects
  <1>3. job.pc = "record" => StatusSound(job.run, job.wf, job.status)'
    BY StatusStays DEF JobSound
  <1>4. AtSecond(job)' <=> AtSecond(job)
    BY <1>1 DEF AtSecond
  <1>5. AtFirst(job)' <=> AtFirst(job)
    BY DEF AtFirst
  <1>6. ProgressSound(job)
    BY DEF JobSound
  <1>7. ProgressSound(job)'
    BY <1>1, <1>4, <1>5, <1>6 DEF ProgressSound
  <1>8. GateSound(job)'
    <2>1. GateSound(job)
      BY DEF JobSound
    <2>2. SUFFICES ASSUME job.pc \in {"observe", "handle"}, job.tools[1] = "intake_log_append"
                   PROVE  job.checked <= Len(intake_log') /\ \A i \in 1..job.checked : intake_log'[i].target # job.target
      BY DEF GateSound
    <2>3. job.checked <= Len(intake_log) /\ \A i \in 1..job.checked : intake_log[i].target # job.target
      BY <2>1, <2>2 DEF GateSound
    <2>4. PICK k, old, new : k = job.checked /\ old = intake_log /\ new = intake_log'
      OBVIOUS
    <2>5. k \in Nat
      BY <2>4 DEF OpJob
    <2>6. /\ k <= Len(old) /\ \A i \in 1..k : old[i].target # job.target
          /\ Len(old) \in Nat /\ Len(new) \in Nat /\ Len(old) <= Len(new)
          /\ \A i \in 1..Len(old) : new[i] = old[i]
      BY <2>3, <2>4, EffectsOnLog
    <2>7. \A i \in 1..k : i \in 1..Len(old)
      BY <2>5, <2>6
    <2>8. k <= Len(new)
      BY <2>5, <2>6
    <2> QED  BY <2>4, <2>6, <2>7, <2>8
  <1>9. ContinueSound(job)'
    <2>1. ContinueSound(job)
      BY DEF JobSound
    <2>2. DOMAIN run_records \subseteq DOMAIN run_records'
      BY EffectsOnLog
    <2> QED  BY <2>1, <2>2 DEF ContinueSound
  <1>10. SeesItself(job)'
    BY DEF SeesItself
  <1> QED  BY <1>1, <1>2, <1>3, <1>7, <1>8, <1>9, <1>10 DEF JobSound

(* A record stays true while its run writes nothing more.                    *)
LEMMA RecordStays ==
    ASSUME OpTypesInv, NEW run, Effects(run), NEW r, RecordSound(r), run_records'[r] = run_records[r],
           \/ r # run
           \/ /\ intake_log' = intake_log /\ state_records' = state_records
              /\ session_state' = session_state \/ ~session_state'.transactional
    PROVE  RecordSound(r)'
  <1>1. PICK row : row = run_records[r]
    OBVIOUS
  <1>2. StatusSound(r, row.wf, row.status)
    BY <1>1 DEF RecordSound
  <1>3. StatusSound(r, row.wf, row.status)'
    <2>1. CASE r # run
      BY <1>2, <2>1, StatusStays
    <2>2. CASE intake_log' = intake_log /\ state_records' = state_records
               /\ (session_state' = session_state \/ ~session_state'.transactional)
      <3>1. /\ NothingFrom(r)' <=> NothingFrom(r)
            /\ \A tool : Left(r, tool)' <=> Left(r, tool)
        BY <2>2 DEF NothingFrom, Left, InIntake
      <3>2. row.status \in {"rejected", "held"} => (NothingFrom(r) /\ ~(session_state.run = r /\ session_state.transactional))'
        BY <1>2, <2>2, <3>1 DEF StatusSound
      <3>3. row.status = "ok" => \A i \in DOMAIN ToolsOf(row.wf) : Left(r, ToolsOf(row.wf)[i])'
        BY <1>2, <3>1 DEF StatusSound
      <3> QED  BY <3>2, <3>3 DEF StatusSound
    <2> QED  BY <2>1, <2>2
  <1> QED  BY <1>1, <1>3 DEF RecordSound

(* The part of the invariant that is about the intake log and the session.  *)
IntakeOnce ==
    \A j \in DOMAIN intake_log : \A i \in 1..(j - 1) :
        intake_log[i].target = intake_log[j].target => intake_log[j].checked < i
SessionNamesRecord ==
    session_state.run # 0 /\ ~session_state.transactional =>
        session_state.run \in DOMAIN run_records /\ InLedger(session_state.run)

(* A step of one run keeps the invariant when it keeps that run's job sound. *)
LEMMA RunMoves ==
    ASSUME OpInv, NEW o \in Operators, NEW old, old = operator_run[o], old.pc # "idle", Effects(old.run),
           NEW job \in OpJob, operator_run' = [operator_run EXCEPT ![o] = job], JobSound(job)',
           job.pc = "idle" \/ (job.run = old.run /\ (job.alone => old.alone)),
           OpTypesInv', \A r \in DOMAIN run_records' : RecordSound(r)', IntakeOnce', SessionNamesRecord'
    PROVE  OpInv'
  <1>1. PICK was, is : was = operator_run /\ is = operator_run'
    OBVIOUS
  <1>2. was \in [Operators -> OpJob]
    BY <1>1 DEF OpInv, OpTypesInv
  <1>3. is[o] = job /\ was[o] = old /\ \A other \in Operators \ {o} : is[other] = was[other]
    BY <1>1, <1>2
  <1>4. \A o1, o2 \in Operators : o1 # o2 /\ was[o1].pc # "idle" /\ was[o2].pc # "idle" =>
            was[o1].run # was[o2].run /\ ~was[o1].alone
    BY <1>1 DEF OpInv, Doing
  <1>5. \A o1, o2 \in Operators : o1 # o2 /\ is[o1].pc # "idle" /\ is[o2].pc # "idle" =>
            is[o1].run # is[o2].run /\ ~is[o1].alone
    BY <1>3, <1>4
  <1>6. ASSUME NEW other \in Operators PROVE JobSound(is[other])'
    <2>1. CASE other = o
      BY <1>3, <2>1
    <2>2. CASE other # o
      <3>1. PICK at : at = was[other]
        OBVIOUS
      <3>2. JobSound(at)
        BY <1>1, <3>1 DEF OpInv
      <3>3. CASE at.pc = "idle"
        BY <1>3, <2>2, <3>1, <3>2, <3>3 DEF JobSound
      <3>4. CASE at.pc # "idle"
        <4>1. at.run # old.run /\ ~at.alone
          BY <1>3, <1>4, <2>2, <3>1, <3>4
        <4>2. JobSound(at)'
          BY <1>2, <3>1, <3>2, <3>4, <4>1, OtherJobSound DEF OpInv
        <4> QED  BY <1>3, <2>2, <3>1, <4>2
      <3> QED  BY <3>3, <3>4
    <2> QED  BY <2>1, <2>2
  <1>7. (\A o1, o2 \in Operators : o1 # o2 /\ ~Doing(o1, "idle") /\ ~Doing(o2, "idle") =>
             operator_run[o1].run # operator_run[o2].run /\ ~operator_run[o1].alone)'
    BY <1>1, <1>5 DEF Doing
  <1>8. (\A other \in Operators : JobSound(operator_run[other]))'
    BY <1>1, <1>6
  <1> QED  BY <1>7, <1>8 DEF OpInv, IntakeOnce, SessionNamesRecord

(* More runs in the ledger back more entries.                                *)
LEMMA BackedEntriesGrow ==
    ASSUME \A r : InLedger(r) => InLedger(r)', NEW ledger \in LedgerFiles(InLedgerEntries)
    PROVE  ledger \in LedgerFiles(InLedgerEntries')
  <1>1. InLedgerEntries \subseteq InLedgerEntries'
    BY DEF InLedgerEntries
  <1>2. PICK S, T : S = InLedgerEntries /\ T = InLedgerEntries'
    OBVIOUS
  <1>3. ledger \in [entries : Seq(S), torn : BOOLEAN]
    BY <1>2 DEF LedgerFiles
  <1>4. ledger.entries \in Seq(T)
    BY <1>1, <1>2, <1>3, SeqMonotonic
  <1>5. ledger \in [entries : Seq(T), torn : BOOLEAN]
    BY <1>3, <1>4
  <1> QED  BY <1>2, <1>5 DEF LedgerFiles

(* A job stays sound while the surfaces are left alone.                      *)
LEMMA JobSoundStays ==
    ASSUME UNCHANGED <<intake_log, state_records, session_state, run_records, run_ledger, runs_started>>,
           NEW job, JobSound(job), tx_snapshots' = tx_snapshots \/ job.pc \notin {"handle", "lookup", "compare"}
    PROVE  JobSound(job)'
  <1>1. /\ \A r : (InLedger(r)' <=> InLedger(r)) /\ (InIntake(r)' <=> InIntake(r)) /\ (NothingFrom(r)' <=> NothingFrom(r))
        /\ \A r, tool : Left(r, tool)' <=> Left(r, tool)
    BY DEF InLedger, InIntake, NothingFrom, Left
  <1>2. \A r, wf, status : StatusSound(r, wf, status)' <=> StatusSound(r, wf, status)
    BY DEF StatusSound, NothingFrom, Left, InIntake
  <1>3. (AtFirst(job)' <=> AtFirst(job)) /\ (AtSecond(job)' <=> AtSecond(job))
    BY <1>1 DEF AtFirst, AtSecond
  <1>4. ProgressSound(job)' <=> ProgressSound(job)
    BY <1>1, <1>3 DEF ProgressSound
  <1>5. (GateSound(job)' <=> GateSound(job)) /\ (ContinueSound(job)' <=> ContinueSound(job))
    BY DEF GateSound, ContinueSound
  <1>6. SeesItself(job) => SeesItself(job)'
    <2>1. CASE tx_snapshots' = tx_snapshots
      <3>1. Surfaces' = Surfaces
        BY <2>1 DEF Surfaces
      <3> QED  BY <3>1 DEF SeesItself
    <2>2. CASE job.pc \notin {"handle", "lookup", "compare"}
      BY <2>2 DEF SeesItself
    <2> QED  BY <2>1, <2>2
  <1> QED  BY <1>1, <1>2, <1>4, <1>5, <1>6 DEF JobSound

(* A step that writes none of the files, but for a snapshot directory and   *)
(* the canonical ledger.                                                    *)
LEMMA QuietMoves ==
    ASSUME OpInv, NEW o \in Operators, NEW old, old = operator_run[o], old.pc # "idle",
           UNCHANGED <<intake_log, state_records, session_state, run_records, run_ledger, runs_started>>,
           op_canonical' \in LedgerFiles(InLedgerEntries), tx_snapshots' \subseteq 1..runs_started,
           NEW job \in OpJob, operator_run' = [operator_run EXCEPT ![o] = job], JobSound(job),
           tx_snapshots' = tx_snapshots \/ job.pc \notin {"handle", "lookup", "compare"},
           job.pc = "idle" \/ (job.run = old.run /\ (job.alone => old.alone))
    PROVE  OpInv'
  <1>1. \A r : InLedger(r)' <=> InLedger(r)
    BY DEF InLedger
  <1>2. Effects(old.run)
    BY <1>1 DEF Effects
  <1>3. op_canonical' \in LedgerFiles(InLedgerEntries)'
    <2>1. PICK new : new = op_canonical'
      OBVIOUS
    <2>2. new \in LedgerFiles(InLedgerEntries')
      BY <1>1, <2>1, BackedEntriesGrow
    <2> QED  BY <2>1, <2>2 DEF LedgerFiles
  <1>4. OpTypesInv'
    <2>1. operator_run' \in [Operators -> OpJob]
      BY DEF OpInv, OpTypesInv
    <2> QED  BY <1>3, <2>1 DEF OpInv, OpTypesInv
  <1>5. \A r \in DOMAIN run_records' : RecordSound(r)'
    <2>1. ASSUME NEW r \in DOMAIN run_records PROVE RecordSound(r)'
      BY <1>2, RecordStays DEF OpInv
    <2> QED  BY <2>1
  <1>6. IntakeOnce' /\ SessionNamesRecord'
    BY <1>1 DEF OpInv, IntakeOnce, SessionNamesRecord
  <1>7. JobSound(job)'
    BY JobSoundStays
  <1> QED  BY <1>2, <1>4, <1>5, <1>6, <1>7, RunMoves

(* The fields most steps leave alone.                                       *)
Kept(new, old) ==
    /\ new.run = old.run /\ new.wf = old.wf /\ new.target = old.target /\ new.tools = old.tools
    /\ new.completed = old.completed /\ new.continues = old.continues /\ new.found = old.found
    /\ new.alone = old.alone /\ new.consistency = old.consistency

(* A job that moves on changes its step only.                                *)
LEMMA PcMoves ==
    ASSUME NEW old \in OpJob, NEW pc \in Unrecorded \cup Recording, NEW new, new = [old EXCEPT !.pc = pc]
    PROVE  new \in OpJob /\ new.pc = pc /\ Kept(new, old) /\ new.status = old.status /\ new.pre = old.pre
           /\ new.checked = old.checked /\ new.governed = old.governed
  <1>1. pc \in Unrecorded \cup Recording \cup {"idle"}
    OBVIOUS
  <1> QED  BY <1>1 DEF OpJob, Kept

(* A job that gets its status changes that only.                             *)
LEMMA StatusMoves ==
    ASSUME NEW old \in OpJob, NEW status \in RunStatuses, NEW new, new = [old EXCEPT !.status = status]
    PROVE  new \in OpJob /\ new.pc = old.pc /\ Kept(new, old) /\ new.status = status /\ new.pre = old.pre
           /\ new.checked = old.checked
  BY DEF OpJob, Kept

(* Which steps come before the record and which after it.                    *)
LEMMA StepsNamed ==
    /\ \A pc \in {"gate", "snapshot", "observe", "handle", "lookup", "compare", "emit", "record"} : pc \in Unrecorded \cup Recording
    /\ \A pc \in {"ledger", "read", "write", "session"} : pc \in Unrecorded \cup Recording
  BY DEF Unrecorded, Recording, AtTool, BeforeTool

(* A command at work, as the invariant has it.                              *)
LEMMA AtWorkOp ==
    ASSUME OpInv, NEW o \in Operators, NEW old, old = operator_run[o], old.pc # "idle"
    PROVE  /\ old \in OpJob /\ JobSound(old) /\ old.run \in 1..runs_started /\ old.wf \in OperatorWorkflows
           /\ ProgressSound(old) /\ GateSound(old) /\ ContinueSound(old) /\ SeesItself(old)
           /\ op_canonical \in LedgerFiles(InLedgerEntries) /\ tx_snapshots \subseteq 1..runs_started
           /\ OpTypesInv
  BY DEF OpInv, OpTypesInv, JobSound

LEMMA PassGateKeeps == ASSUME OpInv, NEW o \in Operators, PassGate(o) PROVE OpInv'
  <1>1. PICK old : old = operator_run[o]
    OBVIOUS
  <1>2. old.pc = "gate" /\ old.pc # "idle"
    BY <1>1 DEF PassGate, Doing
  <1>3. /\ old \in OpJob /\ JobSound(old) /\ old.run \in 1..runs_started /\ old.wf \in OperatorWorkflows
        /\ ProgressSound(old) /\ ContinueSound(old) /\ SeesItself(old)
        /\ op_canonical \in LedgerFiles(InLedgerEntries) /\ tx_snapshots \subseteq 1..runs_started /\ OpTypesInv
    BY <1>1, <1>2, AtWorkOp
  <1>4. /\ UNCHANGED <<intake_log, state_records, session_state, tx_snapshots, run_records, run_ledger, op_canonical, runs_started>>
    BY DEF PassGate
  <1>5. "gate" \in BeforeTool /\ "gate" \in AtTool /\ "gate" \in Unrecorded
    BY DEF BeforeTool, AtTool, Unrecorded
  <1>6. /\ old.status = "ok" /\ ((old.completed = 0 /\ AtFirst(old)) \/ (old.completed = 1 /\ AtSecond(old)))
        /\ old.completed = 0 => NothingFrom(old.run)
        /\ session_state.run # old.run
    BY <1>2, <1>3, <1>5 DEF ProgressSound
  <1>7. old.run \notin DOMAIN run_records
    BY <1>2, <1>3, <1>5 DEF JobSound
  <1>8. CASE GateVerdict(old) = "allowed"
    <2>1. PICK n : n = Len(intake_log)
      OBVIOUS
    <2>2. n \in Nat /\ DOMAIN intake_log = 1..n
      BY <1>3, <2>1 DEF OpTypesInv
    <2>3. PICK half : half = [old EXCEPT !.checked = n]
      OBVIOUS
    <2>4. half \in OpJob /\ half.pc = old.pc /\ Kept(half, old) /\ half.status = old.status /\ half.checked = n
      BY <1>3, <2>2, <2>3 DEF OpJob, Kept
    <2>5. PICK pc : pc = IF old.tools[1] = "session_state_overwrite" THEN "snapshot" ELSE "observe"
      OBVIOUS
    <2>6. PICK job : job = [half EXCEPT !.pc = pc]
      OBVIOUS
    <2>7. job \in OpJob /\ job.pc = pc /\ Kept(job, half) /\ job.status = old.status /\ job.checked = n
      BY <2>4, <2>5, <2>6, PcMoves, StepsNamed
    <2>8. operator_run' = [operator_run EXCEPT ![o] = job]
      BY <1>1, <1>8, <2>1, <2>3, <2>5, <2>6 DEF PassGate, SetRun
    <2>9. (AtFirst(job) <=> AtFirst(old)) /\ (AtSecond(job) <=> AtSecond(old))
      BY <2>4, <2>7 DEF AtFirst, AtSecond, Kept
    <2>10. ProgressSound(job)
      <3>1. job.status = "ok" /\ ((job.completed = 0 /\ AtFirst(job)) \/ (job.completed = 1 /\ AtSecond(job)))
        BY <1>6, <2>4, <2>7, <2>9 DEF Kept
      <3>2. (job.completed = 0 => NothingFrom(job.run)) /\ session_state.run # job.run
        BY <1>6, <2>4, <2>7 DEF Kept
      <3>3. job.pc \in {"snapshot", "observe"} /\ (job.pc = "snapshot" => job.tools[1] = "session_state_overwrite")
        BY <2>4, <2>5, <2>7 DEF Kept
      <3> QED  BY <3>1, <3>2, <3>3 DEF ProgressSound
    <2>11. GateSound(job)
      <3>1. SUFFICES ASSUME old.tools[1] = "intake_log_append"
                     PROVE  \A i \in DOMAIN intake_log : intake_log[i].target # old.target
        BY <2>1, <2>2, <2>4, <2>7 DEF GateSound, Kept
      <3> QED  BY <1>8, <3>1 DEF GateVerdict
    <2>12. ContinueSound(job) /\ SeesItself(job)
      BY <1>2, <1>3, <2>4, <2>5, <2>7 DEF ContinueSound, SeesItself, Kept
    <2>13. JobSound(job)
      BY <1>3, <1>7, <2>4, <2>5, <2>7, <2>10, <2>11, <2>12 DEF JobSound, Kept, Unrecorded, AtTool, BeforeTool, Recording
    <2>14. job.run = old.run /\ job.alone = old.alone /\ job.pc \notin {"handle", "lookup", "compare"}
      BY <2>4, <2>5, <2>7 DEF Kept
    <2> QED  BY <1>1, <1>2, <1>3, <1>4, <2>7, <2>8, <2>13, <2>14, QuietMoves
  <1>9. CASE GateVerdict(old) # "allowed"
    <2>1. PICK status : status = DenialStatus(old, GateVerdict(old))
      OBVIOUS
    <2>2. GateVerdict(old) \in {"rejected", "held"}
      BY <1>9 DEF GateVerdict
    <2>3. /\ status \in {"rejected", "held", "partial_success"}
          /\ status \in {"rejected", "held"} => old.completed = 0
      BY <1>6, <2>1, <2>2 DEF DenialStatus
    <2>4. status \in RunStatuses
      BY <2>3 DEF RunStatuses
    <2>5. PICK half : half = [old EXCEPT !.pc = "record"]
      OBVIOUS
    <2>6. half \in OpJob /\ half.pc = "record" /\ Kept(half, old)
      BY <1>3, <2>5, PcMoves, StepsNamed
    <2>7. PICK job : job = [half EXCEPT !.status = status]
      OBVIOUS
    <2>8. job \in OpJob /\ job.pc = "record" /\ Kept(job, half) /\ job.status = status
      BY <2>4, <2>6, <2>7, StatusMoves
    <2>9. operator_run' = [operator_run EXCEPT ![o] = job]
      BY <1>1, <1>9, <2>1, <2>5, <2>7 DEF PassGate, SetRun
    <2>10. StatusSound(job.run, job.wf, job.status)
      BY <1>6, <2>3, <2>6, <2>8 DEF StatusSound, Kept
    <2>11. ProgressSound(job) /\ GateSound(job)
      BY <2>8 DEF ProgressSound, GateSound, BeforeTool, AtTool
    <2>12. ContinueSound(job) /\ SeesItself(job)
      BY <1>2, <1>3, <2>6, <2>8 DEF ContinueSound, SeesItself, Kept
    <2>13. JobSound(job)
      BY <1>3, <1>7, <2>6, <2>8, <2>10, <2>11, <2>12 DEF JobSound, Kept, Unrecorded, AtTool, BeforeTool, Recording
    <2>14. job.run = old.run /\ job.alone = old.alone
      BY <2>6, <2>8 DEF Kept
    <2> QED  BY <1>1, <1>2, <1>3, <1>4, <2>8, <2>9, <2>13, <2>14, QuietMoves
  <1> QED  BY <1>8, <1>9

LEMMA TakeSnapshotKeeps == ASSUME OpInv, NEW o \in Operators, TakeSnapshot(o) PROVE OpInv'
  <1>1. PICK old : old = operator_run[o]
    OBVIOUS
  <1>2. old.pc = "snapshot" /\ old.pc # "idle"
    BY <1>1 DEF TakeSnapshot, Doing
  <1>3. /\ old \in OpJob /\ JobSound(old) /\ old.run \in 1..runs_started /\ old.wf \in OperatorWorkflows
        /\ ProgressSound(old) /\ ContinueSound(old) /\ SeesItself(old)
        /\ op_canonical \in LedgerFiles(InLedgerEntries) /\ tx_snapshots \subseteq 1..runs_started /\ OpTypesInv
    BY <1>1, <1>2, AtWorkOp
  <1>4. UNCHANGED <<intake_log, state_records, session_state, run_records, run_ledger, op_canonical, runs_started>>
    BY DEF TakeSnapshot
  <1>5. "snapshot" \in BeforeTool /\ "snapshot" \in AtTool /\ "snapshot" \in Unrecorded
    BY DEF BeforeTool, AtTool, Unrecorded
  <1>6. /\ old.status = "ok" /\ ((old.completed = 0 /\ AtFirst(old)) \/ (old.completed = 1 /\ AtSecond(old)))
        /\ old.completed = 0 => NothingFrom(old.run)
        /\ session_state.run # old.run /\ old.tools[1] = "session_state_overwrite"
    BY <1>2, <1>3, <1>5 DEF ProgressSound
  <1>7. old.run \notin DOMAIN run_records
    BY <1>2, <1>3, <1>5 DEF JobSound
  <1>8. CASE tx_snapshots' = tx_snapshots \cup {operator_run[o].run} /\ SetRun(o, [operator_run[o] EXCEPT !.pc = "observe"])
    <2>1. PICK job : job = [old EXCEPT !.pc = "observe"]
      OBVIOUS
    <2>2. job \in OpJob /\ job.pc = "observe" /\ Kept(job, old) /\ job.status = old.status
      BY <1>3, <2>1, PcMoves, StepsNamed
    <2>3. operator_run' = [operator_run EXCEPT ![o] = job] /\ tx_snapshots' \subseteq 1..runs_started
      BY <1>1, <1>3, <1>8, <2>1 DEF SetRun
    <2>4. (AtFirst(job) <=> AtFirst(old)) /\ (AtSecond(job) <=> AtSecond(old))
      BY <2>2 DEF AtFirst, AtSecond, Kept
    <2>5. ProgressSound(job)
      <3>1. job.status = "ok" /\ ((job.completed = 0 /\ AtFirst(job)) \/ (job.completed = 1 /\ AtSecond(job)))
        BY <1>6, <2>2, <2>4 DEF Kept
      <3>2. (job.completed = 0 => NothingFrom(job.run)) /\ session_state.run # job.run
        BY <1>6, <2>2 DEF Kept
      <3> QED  BY <2>2, <3>1, <3>2 DEF ProgressSound
    <2>6. GateSound(job) /\ ContinueSound(job) /\ SeesItself(job)
      BY <1>2, <1>3, <1>6, <2>2 DEF GateSound, ContinueSound, SeesItself, Kept
    <2>7. JobSound(job)
      BY <1>3, <1>7, <2>2, <2>5, <2>6 DEF JobSound, Kept, Unrecorded, AtTool, BeforeTool, Recording
    <2>8. job.run = old.run /\ job.alone = old.alone /\ job.pc \notin {"handle", "lookup", "compare"}
      BY <2>2 DEF Kept
    <2> QED  BY <1>1, <1>2, <1>3, <1>4, <2>2, <2>3, <2>7, <2>8, QuietMoves
  <1>9. CASE /\ SetRun(o, [operator_run[o] EXCEPT !.pc = "emit",
                     !.status = IF operator_run[o].completed > 0 THEN "partial_success" ELSE "snapshot_failed"])
             /\ UNCHANGED tx_snapshots
    <2>1. PICK status : status = IF old.completed > 0 THEN "partial_success" ELSE "snapshot_failed"
      OBVIOUS
    <2>2. PICK half : half = [old EXCEPT !.pc = "emit"]
      OBVIOUS
    <2>3. half \in OpJob /\ half.pc = "emit" /\ Kept(half, old)
      BY <1>3, <2>2, PcMoves, StepsNamed
    <2>4. PICK job : job = [half EXCEPT !.status = status]
      OBVIOUS
    <2>5. status \in RunStatuses /\ status \notin {"ok", "rejected", "held"}
      BY <2>1 DEF RunStatuses
    <2>6. job \in OpJob /\ job.pc = "emit" /\ Kept(job, half) /\ job.status = status
      BY <2>3, <2>4, <2>5, StatusMoves
    <2>7. operator_run' = [operator_run EXCEPT ![o] = job]
      BY <1>1, <1>9, <2>1, <2>2, <2>4 DEF SetRun
    <2>8. ProgressSound(job)
      BY <1>6, <2>3, <2>5, <2>6 DEF ProgressSound, Kept, BeforeTool, AtTool
    <2>9. GateSound(job) /\ ContinueSound(job) /\ SeesItself(job)
      BY <1>2, <1>3, <2>3, <2>6 DEF GateSound, ContinueSound, SeesItself, Kept
    <2>10. JobSound(job)
      BY <1>3, <1>7, <2>3, <2>6, <2>8, <2>9 DEF JobSound, Kept, Unrecorded, AtTool, BeforeTool, Recording
    <2>11. job.run = old.run /\ job.alone = old.alone
      BY <2>3, <2>6 DEF Kept
    <2> QED  BY <1>1, <1>2, <1>3, <1>4, <1>9, <2>6, <2>7, <2>10, <2>11, QuietMoves
  <1> QED  BY <1>8, <1>9 DEF TakeSnapshot

LEMMA SurfacesTyped == ASSUME OpTypesInv PROVE Surfaces \in SurfaceRow
  <1>1. Len(intake_log) \in Nat /\ Len(run_ledger) \in Nat
    BY DEF OpTypesInv
  <1>2. runs_started \in Nat
    BY OperatorAssumption DEF OpTypesInv
  <1>3. 1..runs_started \subseteq Nat
    BY <1>2
  <1>4. state_records \in SUBSET Nat /\ tx_snapshots \in SUBSET Nat /\ DOMAIN run_records \in SUBSET Nat
    BY <1>3 DEF OpTypesInv
  <1>5. session_state \in Sessions
    BY DEF OpTypesInv
  <1> QED  BY <1>1, <1>4, <1>5 DEF Surfaces, SurfaceRow

LEMMA ObserveBeforeKeeps == ASSUME OpInv, NEW o \in Operators, ObserveBefore(o) PROVE OpInv'
  <1>1. PICK old : old = operator_run[o]
    OBVIOUS
  <1>2. old.pc = "observe" /\ old.pc # "idle"
    BY <1>1 DEF ObserveBefore, Doing
  <1>3. /\ old \in OpJob /\ JobSound(old) /\ old.run \in 1..runs_started /\ old.wf \in OperatorWorkflows
        /\ ProgressSound(old) /\ GateSound(old) /\ ContinueSound(old) /\ SeesItself(old)
        /\ op_canonical \in LedgerFiles(InLedgerEntries) /\ tx_snapshots \subseteq 1..runs_started /\ OpTypesInv
    BY <1>1, <1>2, AtWorkOp
  <1>4. UNCHANGED <<intake_log, state_records, session_state, tx_snapshots, run_records, run_ledger, op_canonical, runs_started>>
    BY DEF ObserveBefore, OpFiles
  <1>5. "observe" \in BeforeTool /\ "observe" \in AtTool /\ "observe" \in Unrecorded
    BY DEF BeforeTool, AtTool, Unrecorded
  <1>6. /\ old.status = "ok" /\ ((old.completed = 0 /\ AtFirst(old)) \/ (old.completed = 1 /\ AtSecond(old)))
        /\ old.completed = 0 => NothingFrom(old.run)
        /\ session_state.run # old.run
    BY <1>2, <1>3, <1>5 DEF ProgressSound
  <1>7. old.run \notin DOMAIN run_records
    BY <1>2, <1>3, <1>5 DEF JobSound
  <1>8. PICK now : now = Surfaces
    OBVIOUS
  <1>9. now \in SurfaceRow
    BY <1>3, <1>8, SurfacesTyped
  <1>10. PICK half : half = [old EXCEPT !.pc = "handle"]
    OBVIOUS
  <1>11. half \in OpJob /\ half.pc = "handle" /\ Kept(half, old) /\ half.status = old.status /\ half.checked = old.checked
    BY <1>3, <1>10, PcMoves, StepsNamed
  <1>12. PICK job : job = [half EXCEPT !.pre = now]
    OBVIOUS
  <1>13. /\ job \in OpJob /\ job.pc = "handle" /\ Kept(job, half) /\ job.status = old.status /\ job.pre = now
         /\ job.checked = old.checked
    BY <1>9, <1>11, <1>12 DEF OpJob, Kept
  <1>14. operator_run' = [operator_run EXCEPT ![o] = job]
    BY <1>1, <1>8, <1>10, <1>12 DEF ObserveBefore, SetRun
  <1>15. (AtFirst(job) <=> AtFirst(old)) /\ (AtSecond(job) <=> AtSecond(old))
    BY <1>11, <1>13 DEF AtFirst, AtSecond, Kept
  <1>16. ProgressSound(job)
    <2>1. job.status = "ok" /\ ((job.completed = 0 /\ AtFirst(job)) \/ (job.completed = 1 /\ AtSecond(job)))
      BY <1>6, <1>11, <1>13, <1>15 DEF Kept
    <2>2. (job.completed = 0 => NothingFrom(job.run)) /\ session_state.run # job.run
      BY <1>6, <1>11, <1>13 DEF Kept
    <2> QED  BY <1>13, <2>1, <2>2 DEF ProgressSound
  <1>17. GateSound(job) /\ ContinueSound(job)
    BY <1>2, <1>3, <1>11, <1>13 DEF GateSound, ContinueSound, Kept
  <1>18. SeesItself(job)
    BY <1>3, <1>8, <1>11, <1>13 DEF SeesItself, Kept
  <1>19. JobSound(job)
    BY <1>3, <1>7, <1>11, <1>13, <1>16, <1>17, <1>18 DEF JobSound, Kept, Unrecorded, AtTool, BeforeTool, Recording
  <1>20. job.run = old.run /\ job.alone = old.alone
    BY <1>11, <1>13 DEF Kept
  <1> QED  BY <1>1, <1>2, <1>3, <1>4, <1>13, <1>14, <1>19, <1>20, QuietMoves

LEMMA LookUpKeeps == ASSUME OpInv, NEW o \in Operators, LookUpRun(o) PROVE OpInv'
  <1>1. PICK old : old = operator_run[o]
    OBVIOUS
  <1>2. old.pc = "lookup" /\ old.pc # "idle"
    BY <1>1 DEF LookUpRun, Doing
  <1>3. /\ old \in OpJob /\ JobSound(old) /\ old.run \in 1..runs_started /\ old.wf \in OperatorWorkflows
        /\ ProgressSound(old) /\ ContinueSound(old) /\ SeesItself(old)
        /\ op_canonical \in LedgerFiles(InLedgerEntries) /\ tx_snapshots \subseteq 1..runs_started /\ OpTypesInv
    BY <1>1, <1>2, AtWorkOp
  <1>4. UNCHANGED <<intake_log, state_records, session_state, tx_snapshots, run_records, run_ledger, op_canonical, runs_started>>
    BY DEF LookUpRun, OpFiles
  <1>5. "lookup" \in AtTool /\ "lookup" \in Unrecorded /\ "lookup" \notin BeforeTool
    BY DEF BeforeTool, AtTool, Unrecorded
  <1>6. /\ old.status = "ok" /\ ((old.completed = 0 /\ AtFirst(old)) \/ (old.completed = 1 /\ AtSecond(old)))
        /\ old.tools[1] = "continue_operator_task" /\ session_state.run # old.run /\ Left(old.run, old.tools[1])
    BY <1>2, <1>3, <1>5 DEF ProgressSound
  <1>7. old.run \notin DOMAIN run_records
    BY <1>2, <1>3, <1>5 DEF JobSound
  <1>8. PICK half : half = [old EXCEPT !.pc = "compare"]
    OBVIOUS
  <1>9. half \in OpJob /\ half.pc = "compare" /\ Kept(half, old) /\ half.status = old.status /\ half.pre = old.pre
    BY <1>3, <1>8, PcMoves, StepsNamed
  <1>10. PICK found : found = (old.continues.run \in DOMAIN run_records)
    OBVIOUS
  <1>11. found \in BOOLEAN
    BY <1>10
  <1>12. PICK job : job = [half EXCEPT !.found = found]
    OBVIOUS
  <1>13. /\ job \in OpJob /\ job.pc = "compare" /\ job.status = old.status /\ job.pre = old.pre /\ job.found = found
         /\ job.run = half.run /\ job.wf = half.wf /\ job.tools = half.tools /\ job.completed = half.completed
         /\ job.continues = half.continues /\ job.alone = half.alone /\ job.consistency = half.consistency
    BY <1>9, <1>11, <1>12 DEF OpJob
  <1>14. operator_run' = [operator_run EXCEPT ![o] = job]
    BY <1>1, <1>8, <1>10, <1>12 DEF LookUpRun, SetRun
  <1>15. (AtFirst(job) <=> AtFirst(old)) /\ (AtSecond(job) <=> AtSecond(old))
    BY <1>9, <1>13 DEF AtFirst, AtSecond, Kept
  <1>16. ProgressSound(job)
    <2>1. job.status = "ok" /\ ((job.completed = 0 /\ AtFirst(job)) \/ (job.completed = 1 /\ AtSecond(job)))
      BY <1>6, <1>9, <1>13, <1>15 DEF Kept
    <2>2. session_state.run # job.run /\ Left(job.run, job.tools[1])
      BY <1>6, <1>9, <1>13 DEF Kept
    <2> QED  BY <1>13, <2>1, <2>2 DEF ProgressSound, BeforeTool
  <1>17. GateSound(job)
    BY <1>13 DEF GateSound
  <1>18. ContinueSound(job)
    BY <1>2, <1>3, <1>9, <1>10, <1>13 DEF ContinueSound, Kept
  <1>19. SeesItself(job)
    BY <1>2, <1>3, <1>9, <1>13 DEF SeesItself, Kept
  <1>20. JobSound(job)
    BY <1>3, <1>7, <1>9, <1>13, <1>16, <1>17, <1>18, <1>19 DEF JobSound, Kept, Unrecorded, AtTool, BeforeTool, Recording
  <1>21. job.run = old.run /\ job.alone = old.alone
    BY <1>9, <1>13 DEF Kept
  <1> QED  BY <1>1, <1>2, <1>3, <1>4, <1>13, <1>14, <1>20, <1>21, QuietMoves

(* What a tool alone in the runtime changes is what it declares.            *)
LEMMA VerdictsTyped ==
    ASSUME NEW job
    PROVE  consistency_status(job) \in Consistencies /\ (consistent(job) <=> consistency_status(job) \notin Accusations)
  <1>1. \A declared, changed : classify_consistency(declared, changed) \in Consistencies
    BY DEF classify_consistency, Consistencies, Accusations
  <1>2. \A declared, changed : classify_transactional_consistency(declared, changed) \in Consistencies
    BY DEF classify_transactional_consistency, Consistencies, Accusations
  <1>3. "undeclared_extra_mutation" \in Consistencies
    BY DEF Consistencies, Accusations
  <1>4. consistency_status(job) \in Consistencies
    BY <1>1, <1>2, <1>3 DEF consistency_status
  <1> QED  BY <1>4 DEF consistent, requires_rejection, Accusations

(* A run that was alone changed what its tool is declared to write: it is    *)
(* not accused.                                                              *)
LEMMA AloneIsConsistent ==
    ASSUME NEW job, NEW tool \in OperatorWorkflows, tool = job.tools[1],
           \A s \in SurfaceNames : job.pre[s] # Surfaces[s] <=> s \in LifecycleWrites(tool)
    PROVE  consistency_status(job) \notin Accusations
  <1>1. LifecycleWrites(tool) \subseteq SurfaceNames /\ ObservationScope(tool) \subseteq SurfaceNames
    BY DEF LifecycleWrites, ObservationScope, SurfaceNames
  <1>2. LifecycleWrites(tool) \subseteq ObservationScope(tool) \/ LifecycleWrites(tool) = {}
    BY DEF LifecycleWrites, ObservationScope
  <1>3. \A X : X \subseteq SurfaceNames => Changed(job, X) = X \cap LifecycleWrites(tool)
    BY DEF Changed
  <1>4. undeclared_scope_changes(job, tool) = {}
    BY <1>1, <1>3 DEF undeclared_scope_changes
  <1>5. PICK d : d = LifecycleWrites(tool)
    OBVIOUS
  <1>6. Changed(job, IF d = {} THEN ObservationScope(tool) ELSE d) = d
    BY <1>1, <1>3, <1>5
  <1>7. CASE tool = "session_state_overwrite"
    <2>1. d # {}
      BY <1>5, <1>7 DEF LifecycleWrites
    <2>2. classify_transactional_consistency(d, d) = "observed_as_declared_transactional"
      BY <2>1 DEF classify_transactional_consistency
    <2>3. consistency_status(job) = "observed_as_declared_transactional"
      BY <1>4, <1>5, <1>6, <1>7, <2>2 DEF consistency_status
    <2> QED  BY <2>3 DEF Accusations
  <1>8. CASE tool # "session_state_overwrite"
    <2>1. classify_consistency(d, d) \in {"observed_as_declared", "consistent_read_only"}
      BY DEF classify_consistency
    <2>2. consistency_status(job) = classify_consistency(d, d)
      BY <1>4, <1>5, <1>6, <1>8 DEF consistency_status
    <2> QED  BY <2>1, <2>2 DEF Accusations
  <1> QED  BY <1>7, <1>8

LEMMA CompareKeeps == ASSUME OpInv, NEW o \in Operators, CompareAfter(o) PROVE OpInv'
  <1>1. PICK old : old = operator_run[o]
    OBVIOUS
  <1>2. old.pc = "compare" /\ old.pc # "idle"
    BY <1>1 DEF CompareAfter, Doing
  <1>3. /\ old \in OpJob /\ JobSound(old) /\ old.run \in 1..runs_started /\ old.wf \in OperatorWorkflows
        /\ ProgressSound(old) /\ ContinueSound(old) /\ SeesItself(old)
        /\ op_canonical \in LedgerFiles(InLedgerEntries) /\ tx_snapshots \subseteq 1..runs_started /\ OpTypesInv
    BY <1>1, <1>2, AtWorkOp
  <1>4. UNCHANGED <<intake_log, state_records, session_state, tx_snapshots, run_records, run_ledger, op_canonical, runs_started>>
    BY DEF CompareAfter, OpFiles
  <1>5. "compare" \in AtTool /\ "compare" \in Unrecorded /\ "compare" \notin BeforeTool
    BY DEF BeforeTool, AtTool, Unrecorded
  <1>6. /\ old.status = "ok" /\ ((old.completed = 0 /\ AtFirst(old)) \/ (old.completed = 1 /\ AtSecond(old)))
        /\ Left(old.run, old.tools[1])
        /\ old.tools[1] # "session_state_overwrite" => session_state.run # old.run
    BY <1>2, <1>3, <1>5 DEF ProgressSound
  <1>7. old.run \notin DOMAIN run_records
    BY <1>2, <1>3, <1>5 DEF JobSound
  <1>8. old.tools[1] \in OperatorWorkflows
    BY <1>3, <1>6, ToolAt
  <1>9. PICK verdict \in Consistencies : verdict = consistency_status(old)
    BY VerdictsTyped
  <1>10. old.alone => verdict \notin Accusations
    BY <1>2, <1>3, <1>8, <1>9, AloneIsConsistent DEF SeesItself
  <1>11. consistent(old) <=> verdict \notin Accusations
    BY <1>9, VerdictsTyped
  <1>12. PICK pc, completed, status :
             /\ pc = IF is_write_mode(old.wf) THEN "emit" ELSE "record"
             /\ completed = IF consistent(old) THEN old.completed + 1 ELSE old.completed
             /\ status = CASE consistent(old)                          -> old.status
                           [] ~consistent(old) /\ old.completed > 0    -> "partial_success"
                           [] OTHER                                    -> "contract_violation"
    OBVIOUS
  <1>13. /\ completed \in Nat /\ status \in RunStatuses /\ status \notin {"rejected", "held"}
         /\ status = "ok" => consistent(old) /\ completed = old.completed + 1
    BY <1>6, <1>12 DEF RunStatuses
  <1>14. PICK a : a = [old EXCEPT !.pre = <<>>]
    OBVIOUS
  <1>15. /\ a \in OpJob /\ a.run = old.run /\ a.wf = old.wf /\ a.tools = old.tools /\ a.continues = old.continues
         /\ a.found = old.found /\ a.alone = old.alone
    BY <1>3, <1>14 DEF OpJob
  <1>16. PICK b : b = [a EXCEPT !.consistency = verdict]
    OBVIOUS
  <1>17. /\ b \in OpJob /\ b.run = old.run /\ b.wf = old.wf /\ b.tools = old.tools /\ b.continues = old.continues
         /\ b.found = old.found /\ b.alone = old.alone /\ b.consistency = verdict
    BY <1>15, <1>16 DEF OpJob
  <1>18. PICK c : c = [b EXCEPT !.pc = pc]
    OBVIOUS
  <1>19. c \in OpJob /\ Kept(c, b) /\ c.pc = pc
    BY <1>12, <1>17, <1>18, PcMoves, StepsNamed
  <1>20. PICK d : d = [c EXCEPT !.completed = completed]
    OBVIOUS
  <1>21. /\ d \in OpJob /\ d.run = old.run /\ d.wf = old.wf /\ d.tools = old.tools /\ d.continues = old.continues
         /\ d.found = old.found /\ d.alone = old.alone /\ d.consistency = verdict /\ d.pc = pc /\ d.completed = completed
    BY <1>13, <1>17, <1>19, <1>20 DEF OpJob, Kept
  <1>22. PICK job : job = [d EXCEPT !.status = status]
    OBVIOUS
  <1>23. /\ job \in OpJob /\ job.run = old.run /\ job.wf = old.wf /\ job.tools = old.tools /\ job.continues = old.continues
         /\ job.found = old.found /\ job.alone = old.alone /\ job.consistency = verdict /\ job.pc = pc
         /\ job.completed = completed /\ job.status = status
    BY <1>13, <1>21, <1>22, StatusMoves DEF Kept
  <1>24. operator_run' = [operator_run EXCEPT ![o] = job]
    <2>1. job = [old EXCEPT !.pre = <<>>, !.consistency = verdict, !.pc = pc, !.completed = completed, !.status = status]
      BY <1>14, <1>16, <1>18, <1>20, <1>22
    <2> QED  BY <1>1, <1>9, <1>12, <2>1 DEF CompareAfter, SetRun
  <1>25. (AtFirst(job) <=> AtFirst(old)) /\ (AtSecond(job) <=> AtSecond(old))
    BY <1>23 DEF AtFirst, AtSecond
  <1>26. pc \in {"emit", "record"} /\ (pc = "record" <=> ~is_write_mode(old.wf))
    BY <1>12
  <1>27. ProgressSound(job)
    <2>1. job.pc = "emit" /\ job.tools[1] # "session_state_overwrite" => session_state.run # job.run
      BY <1>6, <1>23
    <2>2. job.status = "ok" => (job.completed = 1 /\ AtFirst(job) /\ Left(job.run, job.tools[1])) \/ AtSecond(job)
      BY <1>6, <1>13, <1>23, <1>25
    <2>3. job.status \notin {"rejected", "held"} /\ job.pc \notin AtTool /\ job.pc \notin BeforeTool
          /\ job.pc \in {"emit", "record"}
      BY <1>13, <1>23, <1>26 DEF AtTool, BeforeTool
    <2> QED  BY <2>1, <2>2, <2>3 DEF ProgressSound
  <1>28. job.pc = "record" => StatusSound(job.run, job.wf, job.status)
    <2>1. SUFFICES ASSUME job.pc = "record", job.status = "ok"
                   PROVE  \A i \in DOMAIN ToolsOf(job.wf) : Left(job.run, ToolsOf(job.wf)[i])
      BY <1>13, <1>23 DEF StatusSound
    <2>2. old.wf \in {"inspect_system_state", "continue_operator_task"}
      BY <1>23, <1>26, <2>1 DEF is_write_mode
    <2>3. \A i \in DOMAIN ToolsOf(old.wf) : ToolsOf(old.wf)[i] = old.wf
      BY <1>3, <2>2, ToolsAre
    <2> QED  BY <1>23, <2>2, <2>3 DEF Left
  <1>29. GateSound(job) /\ ContinueSound(job) /\ SeesItself(job)
    BY <1>2, <1>3, <1>10, <1>23, <1>26 DEF GateSound, ContinueSound, SeesItself
  <1>30. JobSound(job)
    BY <1>3, <1>7, <1>23, <1>26, <1>27, <1>28, <1>29 DEF JobSound, Recording
  <1>31. job.pc \notin {"handle", "lookup", "compare"}
    BY <1>23, <1>26
  <1> QED  BY <1>1, <1>2, <1>3, <1>4, <1>23, <1>24, <1>30, <1>31, QuietMoves

LEMMA EmitKeeps == ASSUME OpInv, NEW o \in Operators, EmitAllowed(o) PROVE OpInv'
  <1>1. PICK old : old = operator_run[o]
    OBVIOUS
  <1>2. old.pc = "emit" /\ old.pc # "idle"
    BY <1>1 DEF EmitAllowed, Doing
  <1>3. /\ old \in OpJob /\ JobSound(old) /\ old.run \in 1..runs_started /\ old.wf \in OperatorWorkflows
        /\ ProgressSound(old) /\ ContinueSound(old) /\ SeesItself(old)
        /\ op_canonical \in LedgerFiles(InLedgerEntries) /\ tx_snapshots \subseteq 1..runs_started /\ OpTypesInv
    BY <1>1, <1>2, AtWorkOp
  <1>4. UNCHANGED <<intake_log, state_records, session_state, tx_snapshots, run_records, run_ledger, op_canonical, runs_started>>
    BY DEF EmitAllowed
  <1>5. "emit" \in Unrecorded
    BY DEF Unrecorded
  <1>6. /\ old.status = "ok" => (old.completed = 1 /\ AtFirst(old) /\ Left(old.run, old.tools[1])) \/ AtSecond(old)
        /\ old.status \notin {"rejected", "held"}
        /\ old.tools[1] # "session_state_overwrite" => session_state.run # old.run
    BY <1>2, <1>3 DEF ProgressSound
  <1>7. old.run \notin DOMAIN run_records
    BY <1>2, <1>3, <1>5 DEF JobSound
  <1>8. CASE old.status = "ok" /\ Len(old.tools) > 1
    <2>1. /\ AtFirst(old) /\ Compound(old) /\ old.completed = 1 /\ old.wf = "intake_append_and_stage_session"
          /\ old.tools[1] = "intake_log_append" /\ Tail(old.tools) = <<"session_state_overwrite">>
          /\ Left(old.run, old.tools[1])
      <3>1. AtFirst(old) \/ AtSecond(old)
        BY <1>6, <1>8
      <3>2. /\ AtSecond(old) => Len(old.tools) = 1
            /\ AtFirst(old) /\ ~Compound(old) => Len(old.tools) = 1
        BY <1>3, <3>1, ToolAt
      <3>3. Len(old.tools) # 1
        <4>1. PICK n \in Nat : n = Len(old.tools)
          BY <1>3, <3>1, ToolAt
        <4>2. n > 1
          BY <1>8, <4>1
        <4>3. n # 1
          BY <4>2
        <4> QED  BY <4>1, <4>3
      <3>4. AtFirst(old) /\ Compound(old) /\ ~AtSecond(old)
        BY <3>1, <3>2, <3>3
      <3>5. /\ old.wf = "intake_append_and_stage_session" /\ old.tools[1] = "intake_log_append"
            /\ Tail(old.tools) = <<"session_state_overwrite">>
        BY <1>3, <3>4, ToolAt
      <3>6. old.completed = 1 /\ Left(old.run, old.tools[1])
        BY <1>6, <1>8, <3>4
      <3> QED  BY <3>4, <3>5, <3>6
    <2>2. PICK tail \in ToolLists : tail = Tail(old.tools)
      BY <2>1 DEF ToolLists
    <2>3. PICK half : half = [old EXCEPT !.pc = "gate"]
      OBVIOUS
    <2>4. half \in OpJob /\ half.pc = "gate" /\ Kept(half, old) /\ half.status = old.status
      BY <1>3, <2>3, PcMoves, StepsNamed
    <2>5. PICK job : job = [half EXCEPT !.tools = tail]
      OBVIOUS
    <2>6. /\ job \in OpJob /\ job.pc = "gate" /\ job.status = old.status /\ job.tools = tail
          /\ job.run = half.run /\ job.wf = half.wf /\ job.completed = half.completed /\ job.continues = half.continues
          /\ job.found = half.found /\ job.alone = half.alone /\ job.consistency = half.consistency
      BY <2>4, <2>5 DEF OpJob
    <2>7. operator_run' = [operator_run EXCEPT ![o] = job]
      BY <1>1, <1>8, <2>2, <2>3, <2>5 DEF EmitAllowed, SetRun
    <2>8. AtSecond(job)
      BY <2>1, <2>2, <2>4, <2>6 DEF AtSecond, Kept, Left
    <2>9. ProgressSound(job)
      BY <1>6, <1>8, <2>1, <2>4, <2>6, <2>8 DEF ProgressSound, Kept
    <2>10. GateSound(job) /\ ContinueSound(job) /\ SeesItself(job)
      BY <1>2, <1>3, <2>4, <2>6 DEF GateSound, ContinueSound, SeesItself, Kept
    <2>11. JobSound(job)
      BY <1>3, <1>7, <2>4, <2>6, <2>9, <2>10 DEF JobSound, Kept, Recording
    <2>12. job.run = old.run /\ job.alone = old.alone
      BY <2>4, <2>6 DEF Kept
    <2> QED  BY <1>1, <1>2, <1>3, <1>4, <2>6, <2>7, <2>11, <2>12, QuietMoves
  <1>9. CASE ~(old.status = "ok" /\ Len(old.tools) > 1)
    <2>1. PICK job : job = [old EXCEPT !.pc = "record"]
      OBVIOUS
    <2>2. job \in OpJob /\ job.pc = "record" /\ Kept(job, old) /\ job.status = old.status
      BY <1>3, <2>1, PcMoves, StepsNamed
    <2>3. operator_run' = [operator_run EXCEPT ![o] = job]
      BY <1>1, <1>9, <2>1 DEF EmitAllowed, SetRun
    <2>4. StatusSound(old.run, old.wf, old.status)
      <3>1. SUFFICES ASSUME old.status = "ok"
                     PROVE  \A i \in DOMAIN ToolsOf(old.wf) : Left(old.run, ToolsOf(old.wf)[i])
        BY <1>6 DEF StatusSound
      <3>2. CASE AtFirst(old) /\ Left(old.run, old.tools[1])
        <4>1. ~Compound(old) /\ old.tools[1] = old.wf
          <5>1. /\ AtFirst(old) /\ Compound(old) => Len(old.tools) = 2
                /\ AtFirst(old) /\ ~Compound(old) => old.tools[1] = old.wf
            BY <1>3, <3>2, ToolAt
          <5>2. Len(old.tools) # 2
            BY <1>9, <3>1
          <5> QED  BY <3>2, <5>1, <5>2
        <4>2. \A i \in DOMAIN ToolsOf(old.wf) : ToolsOf(old.wf)[i] = old.wf
          BY <1>3, <4>1, ToolsAre DEF Compound
        <4> QED  BY <3>2, <4>1, <4>2
      <3>3. CASE AtSecond(old)
        <4>1. /\ DOMAIN ToolsOf(old.wf) = {1, 2} /\ ToolsOf(old.wf)[1] = "intake_log_append"
              /\ ToolsOf(old.wf)[2] = "session_state_overwrite" /\ InIntake(old.run)
          BY <1>3, <3>3, ToolsAre DEF AtSecond
        <4> QED  BY <4>1 DEF Left
      <3> QED  BY <1>6, <3>1, <3>2, <3>3
    <2>5. StatusSound(job.run, job.wf, job.status)
      BY <2>2, <2>4 DEF Kept
    <2>6. ProgressSound(job) /\ GateSound(job)
      BY <2>2 DEF ProgressSound, GateSound, AtTool, BeforeTool
    <2>7. ContinueSound(job) /\ SeesItself(job)
      BY <1>2, <1>3, <2>2 DEF ContinueSound, SeesItself, Kept
    <2>8. JobSound(job)
      BY <1>3, <1>7, <2>2, <2>5, <2>6, <2>7 DEF JobSound, Kept, Recording
    <2>9. job.run = old.run /\ job.alone = old.alone
      BY <2>2 DEF Kept
    <2> QED  BY <1>1, <1>2, <1>3, <1>4, <2>2, <2>3, <2>8, <2>9, QuietMoves
  <1> QED  BY <1>8, <1>9

(* Running a tool.  A line that was checked against the log as it was keeps *)
(* the log free of unseen doubles.                                          *)
LEMMA IntakeOnceKept ==
    ASSUME OpTypesInv, IntakeOnce, NEW line \in IntakeLine, intake_log' = Append(intake_log, line),
           line.checked <= Len(intake_log), \A i \in 1..line.checked : intake_log[i].target # line.target
    PROVE  IntakeOnce'
  <1>1. PICK old, new : old = intake_log /\ new = intake_log'
    OBVIOUS
  <1>2. old \in Seq(IntakeLine)
    BY <1>1 DEF OpTypesInv
  <1>3. PICK n \in Nat : n = Len(old) /\ DOMAIN old = 1..n
    BY <1>2
  <1>4. /\ DOMAIN new = 1..(n + 1) /\ new[n + 1] = line
        /\ \A i \in 1..n : new[i] = old[i]
    BY <1>1, <1>2, <1>3
  <1>5. PICK k \in Nat : k = line.checked
    BY DEF IntakeLine
  <1>6. \A i \in 1..k : old[i].target # line.target
    BY <1>1, <1>5
  <1>7. \A j \in 1..n : \A i \in 1..(j - 1) : old[i].target = old[j].target => old[j].checked < i
    BY <1>1, <1>3 DEF IntakeOnce
  <1>8. ASSUME NEW j \in 1..(n + 1), NEW i \in 1..(j - 1), new[i].target = new[j].target
        PROVE  new[j].checked < i
    <2>1. CASE j = n + 1
      <3>1. i \in 1..n
        BY <1>3, <2>1
      <3>2. old[i].target = line.target
        BY <1>4, <1>8, <2>1, <3>1
      <3>3. ~(i \in 1..k)
        BY <1>6, <3>2
      <3>4. k < i
        BY <3>1, <3>3, <1>5
      <3> QED  BY <1>4, <1>5, <2>1, <3>4
    <2>2. CASE j # n + 1
      <3>1. j \in 1..n /\ i \in 1..n
        BY <1>3, <2>2
      <3> QED  BY <1>4, <1>7, <1>8, <3>1
    <2> QED  BY <2>1, <2>2
  <1> QED  BY <1>1, <1>4, <1>8 DEF IntakeOnce

(* The writes of a tool: it leaves what it declares, and nothing else.      *)
ToolWrites(job, tool) ==
    /\ intake_log' = IF tool = "intake_log_append"
                     THEN Append(intake_log, [run |-> job.run, target |-> job.target, checked |-> job.checked])
                     ELSE intake_log
    /\ state_records' = state_records \cup (IF tool = "record_state_append" THEN {job.run} ELSE {})
    /\ session_state' = IF tool = "session_state_overwrite"
                        THEN [run |-> job.run, transactional |-> TRUE] ELSE session_state
    /\ UNCHANGED <<tx_snapshots, run_records, run_ledger, op_canonical, runs_started>>

(* A tool writes in the name of its run.                                     *)
LEMMA ToolEffects ==
    ASSUME OpTypesInv, NEW job \in OpJob, job.run \in 1..runs_started,
           NEW tool \in OperatorWorkflows, ToolWrites(job, tool)
    PROVE  /\ Effects(job.run) /\ Left(job.run, tool)'
           /\ InIntake(job.run) => InIntake(job.run)'
           /\ intake_log' \in Seq(IntakeLine) /\ \A i \in DOMAIN intake_log' : intake_log'[i].run \in 1..runs_started
           /\ state_records' \subseteq 1..runs_started
           /\ session_state' \in Sessions /\ session_state'.run \in 0..runs_started
  <1>1. PICK line : line = [run |-> job.run, target |-> job.target, checked |-> job.checked]
    OBVIOUS
  <1>2. line \in IntakeLine /\ line.run = job.run
    BY <1>1 DEF IntakeLine, OpJob
  <1>3. PICK old, new : old = intake_log /\ new = intake_log'
    OBVIOUS
  <1>4. old \in Seq(IntakeLine) /\ \A i \in DOMAIN old : old[i].run \in 1..runs_started
    BY <1>3 DEF OpTypesInv
  <1>5. CASE tool = "intake_log_append"
    <2>1. new = Append(old, line)
      BY <1>1, <1>3, <1>5 DEF ToolWrites
    <2>2. PICK n \in Nat : n = Len(old) /\ DOMAIN old = 1..n
      BY <1>4
    <2>3. /\ new \in Seq(IntakeLine) /\ DOMAIN new = 1..(n + 1) /\ new[n + 1] = line
          /\ \A i \in 1..n : new[i] = old[i]
      BY <1>2, <1>4, <2>1, <2>2
    <2>4. \A i \in DOMAIN new : new[i].run \in 1..runs_started
      <3>1. \A i \in 1..(n + 1) : i \in 1..n \/ i = n + 1
        BY <2>2
      <3> QED  BY <1>2, <1>4, <2>2, <2>3, <3>1
    <2>5. n + 1 \in DOMAIN new
      BY <2>2, <2>3
    <2>6. InIntake(job.run)'
      BY <1>2, <1>3, <2>3, <2>5 DEF InIntake
    <2>7. state_records' = state_records /\ session_state' = session_state
      BY <1>5 DEF ToolWrites
    <2>8. \A r : InLedger(r) => InLedger(r)'
      BY DEF ToolWrites, InLedger
    <2>9. Effects(job.run)
      BY <1>2, <1>3, <2>1, <2>7, <2>8 DEF Effects, ToolWrites
    <2>10. Left(job.run, tool)'
      BY <1>5, <2>6 DEF Left
    <2> QED  BY <1>3, <2>3, <2>4, <2>6, <2>7, <2>9, <2>10 DEF OpTypesInv
  <1>6. CASE tool # "intake_log_append"
    <2>1. intake_log' = intake_log /\ UNCHANGED <<run_records, run_ledger, runs_started>>
      BY <1>6 DEF ToolWrites
    <2>2. /\ state_records' = state_records \/ state_records' = state_records \cup {job.run}
          /\ tool = "record_state_append" => job.run \in state_records'
      BY DEF ToolWrites
    <2>3. PICK mine : mine = [run |-> job.run, transactional |-> TRUE]
      OBVIOUS
    <2>4. mine \in Sessions /\ mine.run = job.run
      BY <2>3 DEF Sessions, OpJob
    <2>5. session_state' = session_state \/ session_state' = mine
      BY <2>3 DEF ToolWrites
    <2>6. (InIntake(job.run)' <=> InIntake(job.run)) /\ \A r : InLedger(r) => InLedger(r)'
      BY <2>1 DEF InIntake, InLedger
    <2>7. Effects(job.run)
      BY <2>1, <2>2, <2>4, <2>5, <2>6 DEF Effects
    <2>8. Left(job.run, tool)'
      BY <1>6, <2>2 DEF Left
    <2>9. state_records' \subseteq 1..runs_started
      BY <2>2 DEF OpTypesInv
    <2>10. session_state' \in Sessions /\ session_state'.run \in 0..runs_started
      <3>1. session_state \in Sessions /\ session_state.run \in 0..runs_started
        BY DEF OpTypesInv
      <3>2. job.run \in 0..runs_started
        <4>1. PICK top : top = runs_started
          OBVIOUS
        <4>2. job.run \in 1..top => job.run \in 0..top
          OBVIOUS
        <4> QED  BY <4>1, <4>2
      <3> QED  BY <2>4, <2>5, <3>1, <3>2
    <2> QED  BY <1>3, <1>4, <2>1, <2>6, <2>7, <2>8, <2>9, <2>10
  <1> QED  BY <1>5, <1>6

(* And it changes the surfaces it is declared to write.                      *)
LEMMA ToolChanges ==
    ASSUME OpTypesInv, NEW job \in OpJob, NEW tool \in OperatorWorkflows, ToolWrites(job, tool),
           tool = "record_state_append" => job.run \notin state_records,
           tool = "session_state_overwrite" => session_state.run # job.run
    PROVE  \A s \in SurfaceNames : Surfaces[s] # Surfaces'[s] <=> s \in LifecycleWrites(tool)
  <1>1. PICK was, is : was = Surfaces /\ is = Surfaces'
    OBVIOUS
  <1>2. /\ was["intake_log"] = Len(intake_log) /\ is["intake_log"] = Len(intake_log')
        /\ was["state_records"] = state_records /\ is["state_records"] = state_records'
        /\ was["session_state"] = session_state /\ is["session_state"] = session_state'
        /\ was["tx_snapshots"] = tx_snapshots /\ is["tx_snapshots"] = tx_snapshots'
        /\ was["run_ledger"] = Len(run_ledger) /\ is["run_ledger"] = Len(run_ledger')
        /\ was["run_records"] = DOMAIN run_records /\ is["run_records"] = DOMAIN run_records'
    BY <1>1 DEF Surfaces
  <1>3. /\ was["tx_snapshots"] = is["tx_snapshots"] /\ was["run_ledger"] = is["run_ledger"]
        /\ was["run_records"] = is["run_records"]
    BY <1>2 DEF ToolWrites
  <1>4. was["intake_log"] # is["intake_log"] <=> tool = "intake_log_append"
    <2>1. PICK old, new : old = intake_log /\ new = intake_log'
      OBVIOUS
    <2>2. old \in Seq(IntakeLine)
      BY <2>1 DEF OpTypesInv
    <2>3. CASE tool = "intake_log_append"
      <3>1. PICK line : line = [run |-> job.run, target |-> job.target, checked |-> job.checked]
        OBVIOUS
      <3>2. line \in IntakeLine
        BY <3>1 DEF IntakeLine, OpJob
      <3>3. new = Append(old, line)
        BY <2>1, <2>3, <3>1 DEF ToolWrites
      <3>4. Len(new) = Len(old) + 1 /\ Len(old) \in Nat
        BY <2>2, <3>2, <3>3
      <3>5. Len(new) # Len(old)
        BY <3>4
      <3> QED  BY <1>2, <2>1, <2>3, <3>5
    <2>4. CASE tool # "intake_log_append"
      BY <1>2, <2>4 DEF ToolWrites
    <2> QED  BY <2>3, <2>4
  <1>5. was["state_records"] # is["state_records"] <=> tool = "record_state_append"
    BY <1>2 DEF ToolWrites
  <1>6. was["session_state"] # is["session_state"] <=> tool = "session_state_overwrite"
    <2>1. CASE tool = "session_state_overwrite"
      <3>1. session_state'.run = job.run
        BY <2>1 DEF ToolWrites
      <3> QED  BY <1>2, <2>1, <3>1
    <2>2. CASE tool # "session_state_overwrite"
      BY <1>2, <2>2 DEF ToolWrites
    <2> QED  BY <2>1, <2>2
  <1>7. /\ "intake_log" \in LifecycleWrites(tool) <=> tool = "intake_log_append"
        /\ "state_records" \in LifecycleWrites(tool) <=> tool = "record_state_append"
        /\ "session_state" \in LifecycleWrites(tool) <=> tool = "session_state_overwrite"
        /\ "tx_snapshots" \notin LifecycleWrites(tool) /\ "run_ledger" \notin LifecycleWrites(tool)
        /\ "run_records" \notin LifecycleWrites(tool)
    BY DEF LifecycleWrites
  <1>8. \A s \in SurfaceNames : was[s] # is[s] <=> s \in LifecycleWrites(tool)
    BY <1>3, <1>4, <1>5, <1>6, <1>7 DEF SurfaceNames
  <1> QED  BY <1>1, <1>8

LEMMA HandleToolKeeps == ASSUME OpInv, NEW o \in Operators, HandleTool(o) PROVE OpInv'
  <1>1. PICK old : old = operator_run[o]
    OBVIOUS
  <1>2. old.pc = "handle" /\ old.pc # "idle"
    BY <1>1 DEF HandleTool, Doing
  <1>3. /\ old \in OpJob /\ JobSound(old) /\ old.run \in 1..runs_started /\ old.wf \in OperatorWorkflows
        /\ ProgressSound(old) /\ GateSound(old) /\ ContinueSound(old) /\ SeesItself(old) /\ OpTypesInv
    BY <1>1, <1>2, AtWorkOp
  <1>4. "handle" \in BeforeTool /\ "handle" \in AtTool /\ "handle" \in Unrecorded
    BY DEF BeforeTool, AtTool, Unrecorded
  <1>5. /\ old.status = "ok" /\ ((old.completed = 0 /\ AtFirst(old)) \/ (old.completed = 1 /\ AtSecond(old)))
        /\ old.completed = 0 => NothingFrom(old.run)
        /\ session_state.run # old.run
    BY <1>2, <1>3, <1>4 DEF ProgressSound
  <1>6. old.run \notin DOMAIN run_records
    BY <1>2, <1>3, <1>4 DEF JobSound
  <1>7. PICK tool \in OperatorWorkflows : tool = old.tools[1]
    BY <1>3, <1>5, ToolAt
  <1>8. ToolWrites(old, tool)
    BY <1>1, <1>7 DEF HandleTool, ToolWrites
  <1>9. /\ Effects(old.run) /\ Left(old.run, tool)' /\ (InIntake(old.run) => InIntake(old.run)')
        /\ intake_log' \in Seq(IntakeLine) /\ \A i \in DOMAIN intake_log' : intake_log'[i].run \in 1..runs_started
        /\ state_records' \subseteq 1..runs_started
        /\ session_state' \in Sessions /\ session_state'.run \in 0..runs_started
    BY <1>3, <1>7, <1>8, ToolEffects
  <1>10. PICK next \in OpJob :
             /\ operator_run' = [operator_run EXCEPT ![o] = next]
             /\ next.pc = IF tool = "continue_operator_task" THEN "lookup" ELSE "compare"
             /\ next.continues = IF tool = "continue_operator_task" THEN session_state ELSE old.continues
             /\ next.run = old.run /\ next.wf = old.wf /\ next.tools = old.tools /\ next.completed = old.completed
             /\ next.status = old.status /\ next.pre = old.pre /\ next.found = old.found /\ next.alone = old.alone
             /\ next.consistency = old.consistency
    <2>1. CASE tool = "continue_operator_task"
      <3>1. PICK half : half = [old EXCEPT !.pc = "lookup"]
        OBVIOUS
      <3>2. half \in OpJob /\ half.pc = "lookup" /\ Kept(half, old) /\ half.status = old.status /\ half.pre = old.pre
        BY <1>3, <3>1, PcMoves, StepsNamed
      <3>3. PICK seen \in Sessions : seen = session_state
        BY <1>3 DEF OpTypesInv
      <3>4. PICK next : next = [half EXCEPT !.continues = seen]
        OBVIOUS
      <3>5. /\ next \in OpJob /\ next.pc = "lookup" /\ next.continues = seen
            /\ next.run = half.run /\ next.wf = half.wf /\ next.tools = half.tools /\ next.completed = half.completed
            /\ next.status = half.status /\ next.pre = half.pre /\ next.found = half.found /\ next.alone = half.alone
            /\ next.consistency = half.consistency
        BY <3>2, <3>3, <3>4 DEF OpJob
      <3>6. operator_run' = [operator_run EXCEPT ![o] = next]
        BY <1>1, <1>7, <2>1, <3>1, <3>3, <3>4 DEF HandleTool, SetRun
      <3> QED  BY <2>1, <3>2, <3>3, <3>5, <3>6 DEF Kept
    <2>2. CASE tool # "continue_operator_task"
      <3>1. PICK next : next = [old EXCEPT !.pc = "compare"]
        OBVIOUS
      <3>2. next \in OpJob /\ next.pc = "compare" /\ Kept(next, old) /\ next.status = old.status /\ next.pre = old.pre
        BY <1>3, <3>1, PcMoves, StepsNamed
      <3>3. operator_run' = [operator_run EXCEPT ![o] = next]
        BY <1>1, <1>7, <2>2, <3>1 DEF HandleTool, SetRun
      <3> QED  BY <2>2, <3>2, <3>3 DEF Kept
    <2> QED  BY <2>1, <2>2
  <1>11. next.pc \in {"lookup", "compare"} /\ (next.pc = "lookup" <=> tool = "continue_operator_task")
    BY <1>10
  <1>12. ProgressSound(next)'
    <2>1. AtFirst(old) => AtFirst(next)'
      BY <1>10 DEF AtFirst
    <2>2. AtSecond(old) => AtSecond(next)'
      BY <1>9, <1>10 DEF AtSecond
    <2>3. next.tools[1] # "session_state_overwrite" => session_state'.run # next.run
      BY <1>5, <1>7, <1>8, <1>10 DEF ToolWrites
    <2>4. Left(next.run, next.tools[1])'
      <3>1. PICK run : run = old.run
        OBVIOUS
      <3>2. Left(run, tool)'
        BY <1>9, <3>1 DEF Left
      <3> QED  BY <1>7, <1>10, <3>1, <3>2 DEF Left
    <2>5. next.status = "ok" /\ ((next.completed = 0 /\ AtFirst(next)') \/ (next.completed = 1 /\ AtSecond(next)'))
      BY <1>5, <1>10, <2>1, <2>2
    <2>6. next.pc \notin BeforeTool /\ next.pc # "emit" /\ next.pc # "snapshot"
      BY <1>11 DEF BeforeTool
    <2>7. next.pc = "lookup" => next.tools[1] = "continue_operator_task"
      BY <1>7, <1>10, <1>11
    <2> QED  BY <2>3, <2>4, <2>5, <2>6, <2>7 DEF ProgressSound
  <1>13. GateSound(next)'
    BY <1>11 DEF GateSound
  <1>14. ContinueSound(next)'
    <2>1. CASE tool = "continue_operator_task"
      <3>1. session_state.run # 0 /\ ~session_state.transactional => session_state.run \in DOMAIN run_records
        BY DEF OpInv
      <3> QED  BY <1>8, <1>10, <1>11, <2>1, <3>1 DEF ContinueSound, ToolWrites
    <2>2. CASE tool # "continue_operator_task"
      BY <1>2, <1>3, <1>10, <1>11, <2>2 DEF ContinueSound
    <2> QED  BY <2>1, <2>2
  <1>15. SeesItself(next)'
    <2>1. tool = "record_state_append" => old.run \notin state_records
      <3>1. ASSUME AtSecond(old) PROVE tool # "record_state_append"
        BY <1>3, <1>7, <3>1, ToolAt
      <3> QED  BY <1>5, <3>1 DEF NothingFrom
    <2>2. \A s \in SurfaceNames : Surfaces[s] # Surfaces'[s] <=> s \in LifecycleWrites(tool)
      BY <1>3, <1>5, <1>8, <2>1, ToolChanges
    <2>3. old.alone => old.pre = Surfaces /\ old.consistency \notin Accusations
      BY <1>2, <1>3 DEF SeesItself
    <2>4. next.alone => \A s \in SurfaceNames : next.pre[s] # Surfaces'[s] <=> s \in LifecycleWrites(next.tools[1])
      BY <1>7, <1>10, <2>2, <2>3
    <2> QED  BY <1>10, <1>11, <2>3, <2>4 DEF SeesItself
  <1>16. JobSound(next)'
    <2>1. run_records' = run_records /\ runs_started' = runs_started
      BY <1>8 DEF ToolWrites
    <2>2. next.pc \in Unrecorded /\ next.pc \notin Recording /\ next.pc # "record"
      BY <1>11 DEF Unrecorded, AtTool, Recording
    <2> QED  BY <1>3, <1>6, <1>10, <1>12, <1>13, <1>14, <1>15, <2>1, <2>2 DEF JobSound, Recording
  <1>17. OpTypesInv'
    <2>1. operator_run' \in [Operators -> OpJob]
      BY <1>3, <1>10 DEF OpTypesInv
    <2>2. UNCHANGED <<tx_snapshots, run_records, run_ledger, op_canonical, runs_started>>
      BY <1>8 DEF ToolWrites
    <2>3. op_canonical' \in LedgerFiles(InLedgerEntries)'
      BY <1>3, <2>2 DEF OpTypesInv, LedgerFiles, InLedgerEntries, InLedger
    <2> QED  BY <1>3, <1>9, <2>1, <2>2, <2>3 DEF OpTypesInv
  <1>18. \A r \in DOMAIN run_records' : RecordSound(r)'
    <2>1. run_records' = run_records
      BY <1>8 DEF ToolWrites
    <2>2. ASSUME NEW r \in DOMAIN run_records PROVE RecordSound(r)'
      <3>1. r # old.run /\ RecordSound(r)
        BY <1>6 DEF OpInv
      <3> QED  BY <1>3, <1>9, <2>1, <3>1, RecordStays
    <2> QED  BY <2>1, <2>2
  <1>19. IntakeOnce'
    <2>1. IntakeOnce
      BY DEF OpInv, IntakeOnce
    <2>2. CASE tool = "intake_log_append"
      <3>1. PICK line : line = [run |-> old.run, target |-> old.target, checked |-> old.checked]
        OBVIOUS
      <3>2. line \in IntakeLine /\ line.checked = old.checked /\ line.target = old.target
        BY <1>3, <3>1 DEF IntakeLine, OpJob
      <3>3. old.checked <= Len(intake_log) /\ \A i \in 1..old.checked : intake_log[i].target # old.target
        BY <1>2, <1>3, <1>7, <2>2 DEF GateSound
      <3>4. intake_log' = Append(intake_log, line)
        BY <1>8, <2>2, <3>1 DEF ToolWrites
      <3> QED  BY <1>3, <2>1, <3>2, <3>3, <3>4, IntakeOnceKept
    <2>3. CASE tool # "intake_log_append"
      BY <1>8, <2>1, <2>3 DEF ToolWrites, IntakeOnce
    <2> QED  BY <2>2, <2>3
  <1>20. SessionNamesRecord'
    <2>1. SessionNamesRecord
      BY DEF OpInv, SessionNamesRecord
    <2>2. UNCHANGED <<run_records, run_ledger>>
      BY <1>8 DEF ToolWrites
    <2>3. CASE tool = "session_state_overwrite"
      <3>1. session_state'.transactional
        BY <1>8, <2>3 DEF ToolWrites
      <3> QED  BY <3>1 DEF SessionNamesRecord
    <2>4. CASE tool # "session_state_overwrite"
      <3>1. session_state' = session_state
        BY <1>8, <2>4 DEF ToolWrites
      <3> QED  BY <2>1, <2>2, <3>1 DEF SessionNamesRecord, InLedger
    <2> QED  BY <2>3, <2>4
  <1> QED  BY <1>1, <1>2, <1>9, <1>10, <1>16, <1>17, <1>18, <1>19, <1>20, RunMoves

(* The steps that record a run, in their order.                             *)
LEMMA LeastOf ==
    ASSUME NEW S, S \subseteq Int, NEW k \in S, \A j \in S : k <= j
    PROVE  (CHOOSE i \in S : \A j \in S : i <= j) = k
  <1>1. PICK least : least = CHOOSE i \in S : \A j \in S : i <= j
    OBVIOUS
  <1>2. least \in S /\ \A j \in S : least <= j
    BY <1>1
  <1>3. least \in Int /\ k \in Int /\ least <= k /\ k <= least
    BY <1>2
  <1>4. least = k
    BY <1>3
  <1> QED  BY <1>1, <1>4

(* The step after each step of the recording.                                *)
LEMMA AfterMoves ==
    ASSUME NEW job, job.pc \in {"record", "ledger", "read", "write", "session"}
    PROVE  /\ job.pc = "session" => After(job) = NoRun
           /\ job.pc = "record" => After(job) = [job EXCEPT !.pc = "ledger"]
           /\ job.pc = "ledger" => \E pc \in {"read", "session"} : After(job) = [job EXCEPT !.pc = pc]
           /\ job.pc = "read"   => \E pc \in {"write", "session"} : After(job) = [job EXCEPT !.pc = pc]
           /\ job.pc = "write"  => After(job) = [job EXCEPT !.pc = "session"]
  <1>1. PICK order : order = FinishOrder
    OBVIOUS
  <1>2. /\ order[1] = "record" /\ order[2] = "ledger" /\ order[3] = "read" /\ order[4] = "write" /\ order[5] = "session"
        /\ DOMAIN order = 1..5
    BY <1>1 DEF FinishOrder
  <1>3. PICK at : at = CHOOSE i \in DOMAIN order : order[i] = job.pc
    OBVIOUS
  <1>4. \E i \in 1..5 : order[i] = job.pc
    BY <1>2
  <1>5. at \in 1..5 /\ order[at] = job.pc
    BY <1>2, <1>3, <1>4
  <1>6. at \in {1, 2, 3, 4, 5}
    BY <1>5
  <1>7. /\ job.pc = "record" => at = 1
        /\ job.pc = "ledger" => at = 2
        /\ job.pc = "read" => at = 3
        /\ job.pc = "write" => at = 4
        /\ job.pc = "session" => at = 5
    BY <1>2, <1>5, <1>6
  <1>8. PICK later : later = {i \in 1..5 : i > at /\ (order[i] \in {"read", "write"} => job.governed)}
    OBVIOUS
  <1>9. After(job) = IF later = {} THEN NoRun
                     ELSE [job EXCEPT !.pc = order[CHOOSE i \in later : \A j \in later : i <= j]]
    BY <1>1, <1>2, <1>3, <1>8 DEF After
  <1>10. later \subseteq 1..5 /\ later \subseteq Int /\ \A i \in later : i > at
    BY <1>8
  <1>11. \A k \in later : (\A j \in later : k <= j) => After(job) = [job EXCEPT !.pc = order[k]]
    BY <1>9, <1>10, LeastOf
  <1>12. CASE job.pc = "session"
    <2>1. later = {}
      BY <1>7, <1>10, <1>12
    <2> QED  BY <1>9, <1>12, <2>1
  <1>13. CASE job.pc = "record"
    <2>1. 2 \in later /\ \A j \in later : 2 <= j
      BY <1>2, <1>7, <1>8, <1>10, <1>13
    <2>2. After(job) = [job EXCEPT !.pc = order[2]]
      BY <1>11, <2>1
    <2> QED  BY <1>2, <1>13, <2>2
  <1>14. CASE job.pc = "ledger"
    <2>1. CASE job.governed
      <3>1. 3 \in later /\ \A j \in later : 3 <= j
        BY <1>2, <1>7, <1>8, <1>10, <1>14, <2>1
      <3>2. After(job) = [job EXCEPT !.pc = order[3]]
        BY <1>11, <3>1
      <3> QED  BY <1>2, <1>14, <3>2
    <2>2. CASE ~job.governed
      <3>1. later = {5}
        <4>1. \A i \in 1..5 : i > 2 /\ (order[i] \in {"read", "write"} => job.governed) <=> i = 5
          <5>1. \A i \in 1..5 : i \in {1, 2, 3, 4, 5}
            OBVIOUS
          <5> QED  BY <1>2, <2>2, <5>1
        <4> QED  BY <1>7, <1>8, <1>14, <4>1
      <3>2. After(job) = [job EXCEPT !.pc = order[5]]
        BY <1>11, <3>1
      <3> QED  BY <1>2, <1>14, <3>2
    <2> QED  BY <2>1, <2>2
  <1>15. CASE job.pc = "read"
    <2>1. CASE job.governed
      <3>1. 4 \in later /\ \A j \in later : 4 <= j
        BY <1>2, <1>7, <1>8, <1>10, <1>15, <2>1
      <3>2. After(job) = [job EXCEPT !.pc = order[4]]
        BY <1>11, <3>1
      <3> QED  BY <1>2, <1>15, <3>2
    <2>2. CASE ~job.governed
      <3>1. later = {5}
        <4>1. \A i \in 1..5 : i > 3 /\ (order[i] \in {"read", "write"} => job.governed) <=> i = 5
          <5>1. \A i \in 1..5 : i \in {1, 2, 3, 4, 5}
            OBVIOUS
          <5> QED  BY <1>2, <2>2, <5>1
        <4> QED  BY <1>7, <1>8, <1>15, <4>1
      <3>2. After(job) = [job EXCEPT !.pc = order[5]]
        BY <1>11, <3>1
      <3> QED  BY <1>2, <1>15, <3>2
    <2> QED  BY <2>1, <2>2
  <1>16. CASE job.pc = "write"
    <2>1. 5 \in later /\ \A j \in later : 5 <= j
      <3>1. \A j \in 1..5 : j > 4 => 5 <= j
        OBVIOUS
      <3> QED  BY <1>2, <1>7, <1>8, <1>10, <1>16, <3>1
    <2>2. After(job) = [job EXCEPT !.pc = order[5]]
      BY <1>11, <2>1
    <2> QED  BY <1>2, <1>16, <2>2
  <1> QED  BY <1>12, <1>13, <1>14, <1>15, <1>16

(* A command that records its run: the record, the ledger line, the         *)
(* canonical decision, the session.                                         *)
LEMMA RecordingSound ==
    ASSUME NEW old \in OpJob, old.pc \in Recording, JobSound(old), NEW pc \in {"read", "write", "session"},
           NEW job, job = [old EXCEPT !.pc = pc], InLedger(old.run)
    PROVE  job \in OpJob /\ job.pc = pc /\ Kept(job, old) /\ JobSound(job)
  <1>1. job \in OpJob /\ job.pc = pc /\ Kept(job, old) /\ job.status = old.status
    BY PcMoves, StepsNamed
  <1>2. pc \in Recording /\ old.pc # "idle" /\ old.pc # "lookup" /\ pc \notin Unrecorded /\ pc \notin AtTool /\ pc \notin BeforeTool
        /\ pc # "record" /\ pc # "emit"
    BY DEF Recording, Unrecorded, AtTool, BeforeTool
  <1>3. /\ old.run \in 1..runs_started /\ old.wf \in OperatorWorkflows /\ old.run \in DOMAIN run_records
        /\ ContinueSound(old) /\ SeesItself(old)
    BY <1>2 DEF JobSound
  <1>4. ProgressSound(job) /\ GateSound(job)
    BY <1>1, <1>2 DEF ProgressSound, GateSound
  <1>5. ContinueSound(job) /\ SeesItself(job)
    BY <1>1, <1>2, <1>3 DEF ContinueSound, SeesItself, Kept
  <1> QED  BY <1>1, <1>2, <1>3, <1>4, <1>5 DEF JobSound, Kept

(* The recording goes on with the same status.                               *)
LEMMA RecordingSoundNext ==
    ASSUME NEW old \in OpJob, old.pc \in Recording \cup {"record"}, JobSound(old),
           NEW pc \in Recording, NEW job, job = [old EXCEPT !.pc = pc],
           pc # "ledger" => InLedger(old.run)', old.run \in DOMAIN run_records', runs_started' = runs_started
    PROVE  job \in OpJob /\ job.pc = pc /\ Kept(job, old) /\ JobSound(job)'
  <1>1. job \in OpJob /\ job.pc = pc /\ Kept(job, old) /\ job.status = old.status
    BY PcMoves
  <1>2. old.pc # "idle" /\ old.pc # "lookup" /\ pc \notin Unrecorded /\ pc \notin AtTool /\ pc \notin BeforeTool
        /\ pc # "record" /\ pc # "emit" /\ pc # "idle"
    BY DEF Recording, Unrecorded, AtTool, BeforeTool
  <1>3. /\ old.run \in 1..runs_started /\ old.wf \in OperatorWorkflows
        /\ ContinueSound(old) /\ SeesItself(old)
    BY <1>2 DEF JobSound
  <1>4. ProgressSound(job)' /\ GateSound(job)'
    <2>1. job.pc \in {"ledger", "read", "write", "session"}
      BY <1>1 DEF Recording
    <2>2. job.pc \notin AtTool /\ job.pc \notin BeforeTool
      BY <1>1, <1>2
    <2> QED  BY <2>1, <2>2 DEF ProgressSound, GateSound
  <1>5. ContinueSound(job)' /\ SeesItself(job)'
    BY <1>1, <1>2, <1>3 DEF ContinueSound, SeesItself, Kept, Recording, Unrecorded, AtTool, BeforeTool
  <1>6. pc \in {"read", "write", "session"} => InLedger(job.run)'
    BY <1>1 DEF Kept, InLedger
  <1> QED  BY <1>1, <1>2, <1>3, <1>4, <1>5, <1>6 DEF JobSound, Kept

LEMMA ReadOpCanonicalKeeps == ASSUME OpInv, NEW o \in Operators, ReadOpCanonical(o) PROVE OpInv'
  <1>1. PICK old : old = operator_run[o]
    OBVIOUS
  <1>2. old.pc = "read" /\ old.pc # "idle"
    BY <1>1 DEF ReadOpCanonical, Doing
  <1>3. /\ old \in OpJob /\ JobSound(old) /\ OpTypesInv
        /\ op_canonical \in LedgerFiles(InLedgerEntries) /\ tx_snapshots \subseteq 1..runs_started
    BY <1>1, <1>2, AtWorkOp
  <1>4. UNCHANGED <<intake_log, state_records, session_state, tx_snapshots, run_records, run_ledger, op_canonical, runs_started>>
    BY DEF ReadOpCanonical, OpFiles
  <1>5. InLedger(old.run) /\ old.pc \in Recording
    BY <1>2, <1>3 DEF JobSound, Recording
  <1>6. CASE Readable(op_canonical)
    <2>1. PICK pc \in {"write", "session"} : After(old) = [old EXCEPT !.pc = pc]
      BY <1>2, AfterMoves
    <2>2. PICK half : half = [old EXCEPT !.pc = pc]
      OBVIOUS
    <2>3. half \in OpJob /\ half.pc = pc /\ Kept(half, old) /\ JobSound(half)
      BY <1>3, <1>5, <2>2, RecordingSound
    <2>4. PICK n \in Nat : n = Len(op_canonical.entries)
      BY <1>3 DEF LedgerFiles
    <2>5. PICK job : job = [half EXCEPT !.prev = n]
      OBVIOUS
    <2>6. job \in OpJob /\ job.pc = half.pc /\ Kept(job, half)
      BY <2>3, <2>4, <2>5 DEF OpJob, Kept
    <2>7. operator_run' = [operator_run EXCEPT ![o] = job]
      BY <1>1, <1>6, <2>1, <2>2, <2>4, <2>5 DEF ReadOpCanonical, SetRun
    <2>8. JobSound(job)
      <3>1. pc \notin Unrecorded /\ pc \notin AtTool /\ pc \notin BeforeTool /\ pc # "record" /\ pc # "emit" /\ pc # "idle"
            /\ pc \in Recording
        BY DEF Recording, Unrecorded, AtTool, BeforeTool
      <3>2. /\ half.run \in 1..runs_started /\ half.wf \in OperatorWorkflows /\ half.run \in DOMAIN run_records
            /\ InLedger(half.run) /\ ContinueSound(half) /\ SeesItself(half)
        BY <2>3, <3>1 DEF JobSound
      <3>3. ProgressSound(job) /\ GateSound(job)
        BY <2>3, <2>6, <3>1 DEF ProgressSound, GateSound
      <3>4. ContinueSound(job) /\ SeesItself(job)
        BY <2>3, <2>6, <3>1, <3>2 DEF ContinueSound, SeesItself, Kept
      <3> QED  BY <2>3, <2>6, <3>1, <3>2, <3>3, <3>4 DEF JobSound, Kept
    <2>9. job.run = old.run /\ job.alone = old.alone
      BY <2>3, <2>6 DEF Kept
    <2> QED  BY <1>1, <1>2, <1>3, <1>4, <2>6, <2>7, <2>8, <2>9, QuietMoves
  <1>7. CASE ~Readable(op_canonical)
    <2>1. operator_run' = [operator_run EXCEPT ![o] = NoRun]
      BY <1>7 DEF ReadOpCanonical, SetRun
    <2>2. NoRun \in OpJob /\ NoRun.pc = "idle" /\ JobSound(NoRun)
      BY NoRunTyped DEF JobSound
    <2> QED  BY <1>1, <1>2, <1>3, <1>4, <2>1, <2>2, QuietMoves
  <1> QED  BY <1>6, <1>7

LEMMA AppendOpDecisionKeeps == ASSUME OpInv, NEW o \in Operators, AppendOpDecision(o) PROVE OpInv'
  <1>1. PICK old : old = operator_run[o]
    OBVIOUS
  <1>2. old.pc = "write" /\ old.pc # "idle"
    BY <1>1 DEF AppendOpDecision, Doing
  <1>3. /\ old \in OpJob /\ JobSound(old) /\ OpTypesInv /\ old.wf \in OperatorWorkflows
        /\ op_canonical \in LedgerFiles(InLedgerEntries) /\ tx_snapshots \subseteq 1..runs_started
    BY <1>1, <1>2, AtWorkOp
  <1>4. UNCHANGED <<intake_log, state_records, session_state, tx_snapshots, run_records, run_ledger, runs_started>>
    BY DEF AppendOpDecision
  <1>5. InLedger(old.run) /\ old.pc \in Recording
    BY <1>2, <1>3 DEF JobSound, Recording
  <1>6. After(old) = [old EXCEPT !.pc = "session"]
    BY <1>2, AfterMoves
  <1>7. PICK job : job = [old EXCEPT !.pc = "session"]
    OBVIOUS
  <1>8. job \in OpJob /\ job.pc = "session" /\ Kept(job, old) /\ JobSound(job)
    BY <1>3, <1>5, <1>7, RecordingSound
  <1>9. operator_run' = [operator_run EXCEPT ![o] = job]
    BY <1>1, <1>6, <1>7 DEF AppendOpDecision, SetRun
  <1>10. op_canonical' \in LedgerFiles(InLedgerEntries)
    <2>1. PICK entry : entry = build_ledger_entry(old.run, operator_decision_outcome(old.status), old.wf, old.prev)
      OBVIOUS
    <2>2. operator_decision_outcome(old.status) \in {Promote, "MANUAL_REVIEW_REQUIRED"}
      BY DEF operator_decision_outcome
    <2>3. old.run \in Nat /\ old.prev \in Nat
      BY <1>3 DEF OpJob
    <2>4. entry \in OpEntries /\ entry.id = old.run
      BY <1>3, <2>1, <2>2, <2>3 DEF build_ledger_entry, OpEntries
    <2>5. entry \in InLedgerEntries
      BY <1>5, <2>4 DEF InLedgerEntries
    <2>6. PICK new : new = WriteEntry(op_canonical, entry)
      OBVIOUS
    <2>7. new \in LedgerFiles(InLedgerEntries)
      BY <1>3, <2>5, <2>6, EntryWritten
    <2> QED  BY <1>1, <2>1, <2>6, <2>7 DEF AppendOpDecision
  <1>11. job.run = old.run /\ job.alone = old.alone
    BY <1>8 DEF Kept
  <1> QED  BY <1>1, <1>2, <1>3, <1>4, <1>8, <1>9, <1>10, <1>11, QuietMoves

LEMMA RunKilledKeeps == ASSUME OpInv, NEW o \in Operators, RunKilled(o) PROVE OpInv'
  <1>1. PICK old : old = operator_run[o]
    OBVIOUS
  <1>2. old.pc # "idle"
    BY <1>1 DEF RunKilled, Doing
  <1>3. op_canonical \in LedgerFiles(InLedgerEntries) /\ tx_snapshots \subseteq 1..runs_started
    BY <1>1, <1>2, AtWorkOp
  <1>4. UNCHANGED <<intake_log, state_records, session_state, tx_snapshots, run_records, run_ledger, runs_started>>
    BY DEF RunKilled
  <1>5. op_canonical' \in LedgerFiles(InLedgerEntries)
    <2>1. CASE UNCHANGED op_canonical
      BY <1>3, <2>1
    <2>2. CASE op_canonical' = TornWrite(op_canonical)
      <3>1. PICK new : new = TornWrite(op_canonical)
        OBVIOUS
      <3>2. new \in LedgerFiles(InLedgerEntries)
        BY <1>3, <3>1, TornWritten
      <3> QED  BY <2>2, <3>1, <3>2
    <2> QED  BY <2>1, <2>2 DEF RunKilled
  <1>6. operator_run' = [operator_run EXCEPT ![o] = NoRun]
    BY DEF RunKilled, SetRun
  <1>7. NoRun \in OpJob /\ NoRun.pc = "idle" /\ JobSound(NoRun)
    BY NoRunTyped DEF JobSound
  <1> QED  BY <1>1, <1>2, <1>3, <1>4, <1>5, <1>6, <1>7, QuietMoves

LEMMA WriteRunRecordKeeps == ASSUME OpInv, NEW o \in Operators, WriteRunRecord(o) PROVE OpInv'
  <1>1. PICK old : old = operator_run[o]
    OBVIOUS
  <1>2. old.pc = "record" /\ old.pc # "idle"
    BY <1>1 DEF WriteRunRecord, Doing
  <1>3. /\ old \in OpJob /\ JobSound(old) /\ OpTypesInv /\ old.run \in 1..runs_started
        /\ ContinueSound(old) /\ SeesItself(old)
    BY <1>1, <1>2, AtWorkOp
  <1>4. UNCHANGED <<intake_log, state_records, session_state, tx_snapshots, run_ledger, op_canonical, runs_started>>
    BY DEF WriteRunRecord
  <1>5. PICK row : row = [field \in {"wf", "status", "consistency", "continues", "found", "alone"} |-> old[field]]
    OBVIOUS
  <1>6. /\ row.wf = old.wf /\ row.status = old.status /\ row.consistency = old.consistency
        /\ row.continues = old.continues /\ row.found = old.found /\ row.alone = old.alone
    BY <1>5
  <1>7. PICK run : run = old.run
    OBVIOUS
  <1>8. PICK was, is : was = run_records /\ is = run_records'
    OBVIOUS
  <1>9. is = [r \in DOMAIN was \cup {run} |-> IF r = run THEN row ELSE was[r]]
    BY <1>1, <1>5, <1>7, <1>8 DEF WriteRunRecord
  <1>10. /\ DOMAIN is = DOMAIN was \cup {run} /\ is[run] = row /\ is = [r \in DOMAIN is |-> is[r]]
         /\ \A r \in DOMAIN was : r # run => is[r] = was[r]
    BY <1>9
  <1>11. run \notin DOMAIN was
    BY <1>2, <1>3, <1>7, <1>8 DEF JobSound, Unrecorded
  <1>12. \A r : (InLedger(r)' <=> InLedger(r)) /\ (InIntake(r)' <=> InIntake(r)) /\ (NothingFrom(r)' <=> NothingFrom(r))
    BY <1>4 DEF InLedger, InIntake, NothingFrom
  <1>13. Effects(old.run)
    BY <1>4, <1>7, <1>8, <1>10, <1>12 DEF Effects
  <1>14. PICK job : job = [old EXCEPT !.pc = "ledger"]
    OBVIOUS
  <1>15. operator_run' = [operator_run EXCEPT ![o] = job]
    <2>1. After(old) = job
      BY <1>2, <1>14, AfterMoves
    <2>2. operator_run' = [operator_run EXCEPT ![o] = After(old)]
      BY <1>1 DEF WriteRunRecord, SetRun
    <2> QED  BY <2>1, <2>2
  <1>16. "ledger" \in Recording
    BY DEF Recording
  <1>17. old.run \in DOMAIN run_records'
    BY <1>7, <1>8, <1>10
  <1>18. job \in OpJob /\ job.pc = "ledger" /\ Kept(job, old) /\ JobSound(job)'
    BY <1>2, <1>3, <1>4, <1>14, <1>16, <1>17, RecordingSoundNext
  <1>19. OpTypesInv'
    <2>1. operator_run' \in [Operators -> OpJob]
      BY <1>3, <1>15, <1>18 DEF OpTypesInv
    <2>2. run_records' = [r \in DOMAIN run_records' |-> run_records'[r]] /\ DOMAIN run_records' \subseteq 1..runs_started
      BY <1>3, <1>7, <1>8, <1>10 DEF OpTypesInv
    <2>3. op_canonical' \in LedgerFiles(InLedgerEntries)'
      BY <1>3, <1>4 DEF OpTypesInv, LedgerFiles, InLedgerEntries, InLedger
    <2> QED  BY <1>3, <1>4, <2>1, <2>2, <2>3 DEF OpTypesInv
  <1>20. RecordSound(run)'
    <2>1. StatusSound(run, row.wf, row.status)
      BY <1>2, <1>3, <1>6, <1>7 DEF JobSound
    <2>2. StatusSound(run, row.wf, row.status)'
      BY <1>4, <2>1 DEF StatusSound, NothingFrom, InIntake, Left
    <2>3. row.continues.run # 0 /\ ~row.found => row.continues.transactional
      BY <1>2, <1>3, <1>6 DEF ContinueSound
    <2>4. row.consistency \in Accusations => ~row.alone
      BY <1>3, <1>6 DEF SeesItself
    <2> QED  BY <1>8, <1>10, <2>2, <2>3, <2>4 DEF RecordSound
  <1>21. \A r \in DOMAIN run_records' : RecordSound(r)'
    <2>1. ASSUME NEW r \in DOMAIN was, r # run PROVE RecordSound(r)'
      <3>1. RecordSound(r) /\ run_records'[r] = run_records[r]
        BY <1>8, <1>10, <2>1 DEF OpInv
      <3> QED  BY <1>3, <1>7, <1>13, <2>1, <3>1, RecordStays
    <2> QED  BY <1>8, <1>10, <1>20, <2>1
  <1>22. IntakeOnce' /\ SessionNamesRecord'
    BY <1>4, <1>8, <1>10, <1>12 DEF OpInv, IntakeOnce, SessionNamesRecord
  <1>23. job.run = old.run /\ job.alone = old.alone
    BY <1>18 DEF Kept
  <1> QED  BY <1>1, <1>2, <1>13, <1>15, <1>18, <1>19, <1>21, <1>22, <1>23, RunMoves

LEMMA AppendRunLedgerKeeps == ASSUME OpInv, NEW o \in Operators, AppendRunLedger(o) PROVE OpInv'
  <1>1. PICK old : old = operator_run[o]
    OBVIOUS
  <1>2. old.pc = "ledger" /\ old.pc # "idle" /\ old.pc \in Recording
    BY <1>1 DEF AppendRunLedger, Doing, Recording
  <1>3. /\ old \in OpJob /\ JobSound(old) /\ OpTypesInv /\ old.run \in 1..runs_started
    BY <1>1, <1>2, AtWorkOp
  <1>4. UNCHANGED <<intake_log, state_records, session_state, tx_snapshots, run_records, op_canonical, runs_started>>
    BY DEF AppendRunLedger
  <1>5. PICK run \in Nat : run = old.run
    BY <1>3 DEF OpJob
  <1>6. PICK was, is : was = run_ledger /\ is = run_ledger'
    OBVIOUS
  <1>7. was \in Seq(Nat) /\ is = Append(was, run)
    BY <1>1, <1>3, <1>5, <1>6 DEF OpTypesInv, AppendRunLedger
  <1>8. PICK n \in Nat : n = Len(was) /\ DOMAIN was = 1..n
    BY <1>7
  <1>9. is \in Seq(Nat) /\ DOMAIN is = 1..(n + 1) /\ is[n + 1] = run /\ \A i \in 1..n : is[i] = was[i]
    BY <1>7, <1>8
  <1>10. n + 1 \in DOMAIN is /\ \A i \in 1..n : i \in DOMAIN is
    BY <1>8, <1>9
  <1>11. InLedger(old.run)' /\ \A r : InLedger(r) => InLedger(r)'
    BY <1>5, <1>6, <1>8, <1>9, <1>10 DEF InLedger
  <1>12. Effects(old.run)
    BY <1>4, <1>11 DEF Effects
  <1>13. PICK pc \in {"read", "session"} : After(old) = [old EXCEPT !.pc = pc]
    BY <1>2, AfterMoves
  <1>14. PICK job : job = [old EXCEPT !.pc = pc]
    OBVIOUS
  <1>15. operator_run' = [operator_run EXCEPT ![o] = job]
    BY <1>1, <1>13, <1>14 DEF AppendRunLedger, SetRun
  <1>16. pc \in Recording
    BY DEF Recording
  <1>17. old.run \in DOMAIN run_records'
    BY <1>2, <1>3, <1>4 DEF JobSound
  <1>18. job \in OpJob /\ job.pc = pc /\ Kept(job, old) /\ JobSound(job)'
    BY <1>2, <1>3, <1>4, <1>11, <1>14, <1>16, <1>17, RecordingSoundNext
  <1>19. OpTypesInv'
    <2>1. operator_run' \in [Operators -> OpJob]
      BY <1>3, <1>15, <1>18 DEF OpTypesInv
    <2>2. run_ledger' \in Seq(Nat)
      BY <1>6, <1>9
    <2>3. op_canonical \in LedgerFiles(InLedgerEntries)
      BY <1>3 DEF OpTypesInv
    <2>4. PICK file : file = op_canonical
      OBVIOUS
    <2>5. file \in LedgerFiles(InLedgerEntries')
      BY <1>11, <2>3, <2>4, BackedEntriesGrow
    <2>6. op_canonical' \in LedgerFiles(InLedgerEntries)'
      BY <1>4, <2>4, <2>5 DEF LedgerFiles
    <2> QED  BY <1>3, <1>4, <2>1, <2>2, <2>6 DEF OpTypesInv
  <1>20. \A r \in DOMAIN run_records' : RecordSound(r)'
    <2>1. ASSUME NEW r \in DOMAIN run_records PROVE RecordSound(r)'
      <3>1. RecordSound(r)
        BY <2>1 DEF OpInv
      <3> QED  BY <1>3, <1>4, <1>12, <3>1, RecordStays
    <2> QED  BY <1>4, <2>1
  <1>21. IntakeOnce' /\ SessionNamesRecord'
    BY <1>4, <1>11 DEF OpInv, IntakeOnce, SessionNamesRecord
  <1>22. job.run = old.run /\ job.alone = old.alone
    BY <1>18 DEF Kept
  <1> QED  BY <1>1, <1>2, <1>12, <1>15, <1>18, <1>19, <1>20, <1>21, <1>22, RunMoves

LEMMA WriteSessionStateKeeps == ASSUME OpInv, NEW o \in Operators, WriteSessionState(o) PROVE OpInv'
  <1>1. PICK old : old = operator_run[o]
    OBVIOUS
  <1>2. old.pc = "session" /\ old.pc # "idle" /\ old.pc \in Recording
    BY <1>1 DEF WriteSessionState, Doing, Recording
  <1>3. /\ old \in OpJob /\ JobSound(old) /\ OpTypesInv /\ old.run \in 1..runs_started
    BY <1>1, <1>2, AtWorkOp
  <1>4. UNCHANGED <<intake_log, state_records, tx_snapshots, run_records, run_ledger, op_canonical, runs_started>>
    BY DEF WriteSessionState
  <1>5. old.run \in DOMAIN run_records /\ InLedger(old.run)
    BY <1>2, <1>3 DEF JobSound
  <1>6. PICK is : is = session_state'
    OBVIOUS
  <1>7. is = [run |-> old.run, transactional |-> FALSE]
    BY <1>1, <1>6 DEF WriteSessionState
  <1>8. is \in Sessions /\ is.run = old.run /\ ~is.transactional
    BY <1>3, <1>7 DEF Sessions, OpJob
  <1>9. \A r : InLedger(r)' <=> InLedger(r)
    BY <1>4 DEF InLedger
  <1>10. Effects(old.run)
    BY <1>4, <1>6, <1>8, <1>9 DEF Effects
  <1>11. operator_run' = [operator_run EXCEPT ![o] = NoRun]
    <2>1. After(old) = NoRun
      BY <1>2, AfterMoves
    <2>2. operator_run' = [operator_run EXCEPT ![o] = After(old)]
      BY <1>1 DEF WriteSessionState, SetRun
    <2> QED  BY <2>1, <2>2
  <1>12. NoRun \in OpJob /\ NoRun.pc = "idle" /\ JobSound(NoRun)'
    BY NoRunTyped DEF JobSound
  <1>13. OpTypesInv'
    <2>1. operator_run' \in [Operators -> OpJob]
      BY <1>3, <1>11, <1>12 DEF OpTypesInv
    <2>2. is.run \in 0..runs_started
      <3>1. PICK run, top : run = old.run /\ top = runs_started
        OBVIOUS
      <3>2. run \in 1..top => run \in 0..top
        OBVIOUS
      <3> QED  BY <1>3, <1>8, <3>1, <3>2
    <2>3. op_canonical' \in LedgerFiles(InLedgerEntries)'
      BY <1>3, <1>4 DEF OpTypesInv, LedgerFiles, InLedgerEntries, InLedger
    <2> QED  BY <1>3, <1>4, <1>6, <1>8, <2>1, <2>2, <2>3 DEF OpTypesInv
  <1>14. \A r \in DOMAIN run_records' : RecordSound(r)'
    <2>1. ASSUME NEW r \in DOMAIN run_records PROVE RecordSound(r)'
      <3>1. RecordSound(r) /\ ~session_state'.transactional
        BY <1>6, <1>8, <2>1 DEF OpInv
      <3> QED  BY <1>3, <1>4, <1>10, <3>1, RecordStays
    <2> QED  BY <1>4, <2>1
  <1>15. IntakeOnce' /\ SessionNamesRecord'
    BY <1>4, <1>5, <1>6, <1>8, <1>9 DEF OpInv, IntakeOnce, SessionNamesRecord
  <1> QED  BY <1>1, <1>2, <1>10, <1>11, <1>12, <1>13, <1>14, <1>15, RunMoves

(* A command that starts: its run is new, so nothing names it yet.          *)
StartSteps == {"gate", "observe", "record"}
StartStatuses == {"ok", "contract_violation"}
PlannedRun(run, wf, target, governed, alone, pc, status) ==
    [NoRun EXCEPT !.run = run, !.wf = wf, !.tools = ToolsOf(wf), !.target = target, !.governed = governed,
                  !.alone = alone, !.pc = pc, !.status = status]

(* A job as it is planned.                                                   *)
LEMMA PlannedJob ==
    ASSUME NEW run \in Nat, NEW wf \in OperatorWorkflows, NEW target \in OpTargets \cup {NoTarget},
           NEW governed \in BOOLEAN, NEW alone \in BOOLEAN, NEW pc \in StartSteps, NEW status \in StartStatuses,
           NEW job, job = PlannedRun(run, wf, target, governed, alone, pc, status)
    PROVE  /\ job \in OpJob /\ job.run = run /\ job.wf = wf /\ job.tools = ToolsOf(wf) /\ job.alone = alone
           /\ job.pc = pc /\ job.status = status /\ job.completed = 0 /\ job.continues.run = 0
           /\ job.consistency = "unknown"
  <1>1. PICK tools \in ToolLists : tools = ToolsOf(wf)
    BY DEF ToolLists
  <1>2. PICK a : a = [NoRun EXCEPT !.run = run]
    OBVIOUS
  <1>3. /\ a \in OpJob /\ a.run = run /\ a.completed = 0 /\ a.continues.run = 0 /\ a.consistency = "unknown"
    BY <1>2, NoRunTyped DEF OpJob
  <1>4. PICK b : b = [a EXCEPT !.wf = wf]
    OBVIOUS
  <1>5. /\ b \in OpJob /\ b.run = run /\ b.wf = wf /\ b.completed = 0 /\ b.continues.run = 0 /\ b.consistency = "unknown"
    BY <1>3, <1>4 DEF OpJob
  <1>6. PICK c : c = [b EXCEPT !.tools = tools]
    OBVIOUS
  <1>7. /\ c \in OpJob /\ c.run = run /\ c.wf = wf /\ c.tools = tools /\ c.completed = 0 /\ c.continues.run = 0
        /\ c.consistency = "unknown"
    BY <1>5, <1>6 DEF OpJob
  <1>8. PICK d : d = [c EXCEPT !.target = target]
    OBVIOUS
  <1>9. /\ d \in OpJob /\ d.run = run /\ d.wf = wf /\ d.tools = tools /\ d.completed = 0 /\ d.continues.run = 0
        /\ d.consistency = "unknown"
    BY <1>7, <1>8 DEF OpJob
  <1>10. PICK e : e = [d EXCEPT !.governed = governed]
    OBVIOUS
  <1>11. /\ e \in OpJob /\ e.run = run /\ e.wf = wf /\ e.tools = tools /\ e.completed = 0 /\ e.continues.run = 0
         /\ e.consistency = "unknown"
    BY <1>9, <1>10 DEF OpJob
  <1>12. PICK f : f = [e EXCEPT !.alone = alone]
    OBVIOUS
  <1>13. /\ f \in OpJob /\ f.run = run /\ f.wf = wf /\ f.tools = tools /\ f.alone = alone /\ f.completed = 0
         /\ f.continues.run = 0 /\ f.consistency = "unknown"
    BY <1>11, <1>12 DEF OpJob
  <1>14. PICK g : g = [f EXCEPT !.pc = pc]
    OBVIOUS
  <1>15. g \in OpJob /\ g.pc = pc /\ Kept(g, f)
    BY <1>13, <1>14, PcMoves, StepsNamed DEF StartSteps
  <1>16. status \in RunStatuses
    BY DEF RunStatuses, StartStatuses
  <1>17. PICK h : h = [g EXCEPT !.status = status]
    OBVIOUS
  <1>18. h \in OpJob /\ h.pc = pc /\ Kept(h, g) /\ h.status = status
    BY <1>15, <1>16, <1>17, StatusMoves
  <1>19. job = h
    BY <1>1, <1>2, <1>4, <1>6, <1>8, <1>10, <1>12, <1>14, <1>17 DEF PlannedRun
  <1>20. /\ h.run = run /\ h.wf = wf /\ h.tools = tools /\ h.alone = alone /\ h.completed = 0
         /\ h.continues.run = 0 /\ h.consistency = "unknown"
    BY <1>13, <1>15, <1>18 DEF Kept
  <1> QED  BY <1>1, <1>18, <1>19, <1>20

(* The files as they are when a run starts.                                 *)
LEMMA StartedJobSound ==
    ASSUME OpInv, UNCHANGED OpFiles, runs_started' = runs_started + 1,
           NEW job \in OpJob, job.run = runs_started + 1, job.wf \in OperatorWorkflows, job.tools = ToolsOf(job.wf),
           job.completed = 0, job.continues.run = 0, job.consistency = "unknown",
           \/ job.status = "ok" /\ job.pc = "gate"
           \/ job.status = "ok" /\ job.pc = "observe" /\ ~is_write_mode(job.wf)
           \/ job.status = "contract_violation" /\ job.pc = "record"
    PROVE  JobSound(job)'
  <1>1. PICK n \in Nat : n = runs_started
    BY OperatorAssumption DEF OpInv, OpTypesInv
  <1>2. PICK new : new = n + 1
    OBVIOUS
  <1>3. new \notin 1..n /\ new \notin 0..n /\ new \in 1..(n + 1)
    BY <1>1, <1>2
  <1>4. job.run = new
    BY <1>1, <1>2
  <1>5. NothingFrom(new)
    BY <1>1, <1>3 DEF OpInv, OpTypesInv, NothingFrom, InIntake
  <1>6. session_state.run # new /\ new \notin DOMAIN run_records
    BY <1>1, <1>3 DEF OpInv, OpTypesInv
  <1>7. UNCHANGED <<intake_log, state_records, session_state, tx_snapshots, run_records, run_ledger>>
    BY DEF OpFiles
  <1>8. NothingFrom(new)' /\ session_state'.run # new /\ new \notin DOMAIN run_records'
    BY <1>5, <1>6, <1>7 DEF NothingFrom, InIntake
  <1>9. AtFirst(job)'
    BY DEF AtFirst
  <1>10. job.pc # "idle" /\ job.pc \notin Recording
    BY DEF Recording
  <1>11. ProgressSound(job)'
    <2>1. CASE job.pc \in {"gate", "observe"}
      <3>1. job.status = "ok" /\ job.pc \in BeforeTool
        BY <2>1 DEF BeforeTool
      <3>2. NothingFrom(job.run)' /\ session_state'.run # job.run
        BY <1>4, <1>8 DEF NothingFrom, InIntake
      <3> QED  BY <1>9, <2>1, <3>1, <3>2 DEF ProgressSound
    <2>2. CASE job.pc = "record"
      BY <2>2 DEF ProgressSound, AtTool, BeforeTool
    <2> QED  BY <2>1, <2>2
  <1>12. job.pc = "record" => StatusSound(job.run, job.wf, job.status)'
    BY DEF StatusSound
  <1>13. GateSound(job)'
    <2>1. CASE job.pc = "observe"
      <3>1. job.wf \in {"inspect_system_state", "continue_operator_task"}
        BY <2>1 DEF is_write_mode
      <3>2. job.tools[1] = job.wf
        BY <3>1, ToolsAre
      <3> QED  BY <3>1, <3>2 DEF GateSound
    <2>2. CASE job.pc # "observe"
      BY <2>2 DEF GateSound
    <2> QED  BY <2>1, <2>2
  <1>14. ContinueSound(job)' /\ SeesItself(job)'
    BY DEF ContinueSound, SeesItself, Accusations
  <1>15. job.run \in 1..(runs_started')
    BY <1>1, <1>3, <1>4
  <1> QED  BY <1>4, <1>8, <1>10, <1>11, <1>12, <1>13, <1>14, <1>15 DEF JobSound, Recording

(* What holds of a command holds of it when another starts, and it is no    *)
(* longer alone.                                                            *)
LEMMA JoinedJobSound ==
    ASSUME OpInv, UNCHANGED OpFiles, runs_started' = runs_started + 1,
           NEW old \in OpJob, JobSound(old), old.pc # "idle", NEW job, job = [old EXCEPT !.alone = FALSE]
    PROVE  JobSound(job)'
  <1>1. /\ job.run = old.run /\ job.wf = old.wf /\ job.target = old.target /\ job.tools = old.tools
        /\ job.completed = old.completed /\ job.continues = old.continues /\ job.found = old.found
        /\ job.consistency = old.consistency /\ job.pc = old.pc /\ job.status = old.status
        /\ job.checked = old.checked /\ ~job.alone
    BY DEF OpJob
  <1>2. UNCHANGED <<intake_log, state_records, session_state, tx_snapshots, run_records, run_ledger>>
    BY DEF OpFiles
  <1>3. /\ \A r : (InLedger(r)' <=> InLedger(r)) /\ (InIntake(r)' <=> InIntake(r)) /\ (NothingFrom(r)' <=> NothingFrom(r))
        /\ \A r, tool : Left(r, tool)' <=> Left(r, tool)
    BY <1>2 DEF InLedger, InIntake, NothingFrom, Left
  <1>4. StatusSound(old.run, old.wf, old.status)' <=> StatusSound(old.run, old.wf, old.status)
    BY <1>2 DEF StatusSound, NothingFrom, Left, InIntake
  <1>5. (AtFirst(job)' <=> AtFirst(old)) /\ (AtSecond(job)' <=> AtSecond(old))
    BY <1>1, <1>3 DEF AtFirst, AtSecond
  <1>6. ProgressSound(job)' <=> ProgressSound(old)
    BY <1>1, <1>2, <1>3, <1>5 DEF ProgressSound
  <1>7. (GateSound(job)' <=> GateSound(old)) /\ (ContinueSound(job)' <=> ContinueSound(old))
    BY <1>1, <1>2 DEF GateSound, ContinueSound
  <1>8. SeesItself(job)'
    BY <1>1 DEF SeesItself
  <1>9. StatusSound(job.run, job.wf, job.status)' <=> StatusSound(old.run, old.wf, old.status)
    BY <1>1, <1>4 DEF StatusSound, NothingFrom, Left, InIntake
  <1>10. old.run \in 1..runs_started => job.run \in 1..(runs_started')
    <2>1. PICK n \in Nat : n = runs_started
      BY OperatorAssumption DEF OpInv, OpTypesInv
    <2>2. PICK r : r = old.run
      OBVIOUS
    <2>3. r \in 1..n => r \in 1..(n + 1)
      BY <2>1
    <2> QED  BY <1>1, <2>1, <2>2, <2>3
  <1> QED  BY <1>1, <1>2, <1>3, <1>6, <1>7, <1>8, <1>9, <1>10 DEF JobSound

LEMMA StartKeeps ==
    ASSUME OpInv, NEW o \in Operators, NEW wf \in OperatorWorkflows, NEW target \in OpTargets \cup {NoTarget},
           NEW governed \in BOOLEAN, NEW plan \in {"ready", "contract_violation"},
           StartOperatorRun(o, wf, target, governed, plan)
    PROVE  OpInv'
  <1>1. PICK n \in Nat : n = runs_started
    BY OperatorAssumption DEF OpInv, OpTypesInv
  <1>2. /\ UNCHANGED OpFiles /\ runs_started' = n + 1 /\ n < MaxRuns
        /\ UNCHANGED <<intake_log, state_records, session_state, tx_snapshots, run_records, run_ledger, op_canonical>>
    BY <1>1 DEF StartOperatorRun, OpFiles
  <1>3. PICK was, is : was = operator_run /\ is = operator_run'
    OBVIOUS
  <1>4. was \in [Operators -> OpJob] /\ was[o].pc = "idle"
    BY <1>3 DEF OpInv, OpTypesInv, StartOperatorRun, Doing
  <1>5. PICK alone \in BOOLEAN : alone = (\A other \in Operators : was[other].pc = "idle")
    OBVIOUS
  <1>6. PICK to \in OpTargets \cup {NoTarget} : to = IF is_write_mode(wf) THEN target ELSE NoTarget
    OBVIOUS
  <1>7. PICK under \in BOOLEAN : under = (governed /\ is_write_mode(wf))
    OBVIOUS
  <1>8. PICK pc \in StartSteps : pc = IF plan # "ready" THEN "record" ELSE IF is_write_mode(wf) THEN "gate" ELSE "observe"
    BY DEF StartSteps
  <1>9. PICK status \in StartStatuses : status = IF plan = "ready" THEN "ok" ELSE "contract_violation"
    BY DEF StartStatuses
  <1>12. PICK run \in Nat : run = n + 1
    BY <1>1
  <1>11. PICK new : new = PlannedRun(run, wf, to, under, alone, pc, status)
    OBVIOUS
  <1>13. /\ new \in OpJob /\ new.run = run /\ new.wf = wf /\ new.tools = ToolsOf(wf) /\ new.alone = alone
         /\ new.pc = pc /\ new.status = status /\ new.completed = 0 /\ new.continues.run = 0
         /\ new.consistency = "unknown"
    BY <1>11, PlannedJob
  <1>14. is = [other \in Operators |->
                   IF other = o THEN new
                   ELSE [was[other] EXCEPT !.alone = was[other].alone /\ was[other].pc = "idle"]]
    <2>1. status = IF plan = "ready" THEN "ok" ELSE plan
      BY <1>9
    <2>2. pc = CASE plan # "ready"                      -> "record"
                 [] plan = "ready" /\ is_write_mode(wf) -> "gate"
                 [] OTHER                               -> "observe"
      BY <1>8
    <2>3. is = [other \in Operators |->
                   IF other = o THEN PlannedRun(run, wf, to, under, alone, pc, status)
                   ELSE [was[other] EXCEPT !.alone = was[other].alone /\ was[other].pc = "idle"]]
      BY <1>1, <1>3, <1>5, <1>6, <1>7, <1>12, <2>1, <2>2 DEF StartOperatorRun, Doing, PlannedRun
    <2> QED  BY <1>11, <2>3
  <1>15. is[o] = new
    BY <1>14
  <1>16. \A other \in Operators : other # o =>
             is[other] = [was[other] EXCEPT !.alone = was[other].alone /\ was[other].pc = "idle"]
    BY <1>14
  <1>17. ASSUME NEW other \in Operators, other # o, was[other].pc # "idle"
         PROVE  /\ is[other] = [was[other] EXCEPT !.alone = FALSE] /\ is[other] \in OpJob
                /\ is[other].run = was[other].run /\ is[other].pc = was[other].pc /\ ~is[other].alone
    <2>1. PICK old \in OpJob : old = was[other]
      BY <1>4
    <2>2. (old.alone /\ old.pc = "idle") = FALSE
      BY <1>17, <2>1
    <2>3. is[other] = [old EXCEPT !.alone = FALSE]
      BY <1>16, <1>17, <2>1, <2>2
    <2>4. PICK job : job = [old EXCEPT !.alone = FALSE]
      OBVIOUS
    <2>5. job \in OpJob /\ job.run = old.run /\ job.pc = old.pc /\ ~job.alone
      BY <2>1, <2>4 DEF OpJob
    <2> QED  BY <2>1, <2>3, <2>4, <2>5
  <1>18. ASSUME NEW other \in Operators, other # o, was[other].pc = "idle"
         PROVE  is[other] \in OpJob /\ is[other].pc = "idle" /\ is[other].run = was[other].run
    <2>1. PICK old \in OpJob : old = was[other]
      BY <1>4
    <2>2. PICK b \in BOOLEAN : b = (old.alone /\ old.pc = "idle")
      OBVIOUS
    <2>3. is[other] = [old EXCEPT !.alone = b]
      BY <1>16, <1>18, <2>1, <2>2
    <2>4. PICK job : job = [old EXCEPT !.alone = b]
      OBVIOUS
    <2>5. job \in OpJob /\ job.pc = old.pc /\ job.run = old.run
      BY <2>1, <2>2, <2>4 DEF OpJob
    <2> QED  BY <1>18, <2>1, <2>3, <2>4, <2>5
  <1>19. is \in [Operators -> OpJob]
    <2>1. \A other \in Operators : is[other] \in OpJob
      BY <1>13, <1>15, <1>17, <1>18
    <2>2. DOMAIN is = Operators /\ is = [other \in DOMAIN is |-> is[other]]
      BY <1>14
    <2> QED  BY <2>1, <2>2
  <1>20. JobSound(new)'
    BY <1>1, <1>2, <1>8, <1>9, <1>12, <1>13, StartedJobSound
  <1>21. ASSUME NEW other \in Operators PROVE JobSound(is[other])'
    <2>1. CASE other = o
      BY <1>15, <1>20, <2>1
    <2>2. CASE other # o /\ was[other].pc # "idle"
      <3>1. PICK old \in OpJob : old = was[other]
        BY <1>4
      <3>2. PICK job : job = [old EXCEPT !.alone = FALSE]
        OBVIOUS
      <3>3. JobSound(old)
        BY <1>3, <3>1 DEF OpInv
      <3>4. JobSound(job)'
        BY <1>1, <1>2, <2>2, <3>1, <3>2, <3>3, JoinedJobSound
      <3> QED  BY <1>17, <2>2, <3>1, <3>2, <3>4
    <2>3. CASE other # o /\ was[other].pc = "idle"
      <3>1. JobSound(was[other])
        BY <1>3 DEF OpInv
      <3> QED  BY <1>18, <2>3, <3>1 DEF JobSound
    <2> QED  BY <2>1, <2>2, <2>3
  <1>22. \A other \in Operators : was[other].pc # "idle" => was[other].run # n + 1
    <2>1. \A other \in Operators : was[other].pc # "idle" => was[other].run \in 1..n
      BY <1>1, <1>3 DEF OpInv, JobSound
    <2>2. n + 1 \notin 1..n
      BY <1>1
    <2> QED  BY <2>1, <2>2
  <1>23. \A o1, o2 \in Operators : o1 # o2 /\ was[o1].pc # "idle" /\ was[o2].pc # "idle" =>
             was[o1].run # was[o2].run /\ ~was[o1].alone
    BY <1>3 DEF OpInv, Doing
  <1>24. \A o1, o2 \in Operators : o1 # o2 /\ is[o1].pc # "idle" /\ is[o2].pc # "idle" =>
             is[o1].run # is[o2].run /\ ~is[o1].alone
    <2>1. \A other \in Operators : other # o /\ is[other].pc # "idle" =>
              was[other].pc # "idle" /\ is[other].run = was[other].run /\ ~is[other].alone
      BY <1>17, <1>18
    <2>2. (\E other \in Operators : other # o /\ is[other].pc # "idle") => ~new.alone
      BY <1>5, <1>13, <2>1
    <2> QED  BY <1>12, <1>13, <1>15, <1>22, <1>23, <2>1, <2>2
  <1>25. OpTypesInv'
    <2>1. n + 1 \in 0..MaxRuns
      BY <1>1, <1>2, OperatorAssumption
    <2>2. 1..n \subseteq 1..(n + 1) /\ 0..n \subseteq 0..(n + 1)
      BY <1>1
    <2>3. op_canonical' \in LedgerFiles(InLedgerEntries)'
      BY <1>2 DEF OpInv, OpTypesInv, LedgerFiles, InLedgerEntries, InLedger
    <2>4. /\ state_records \subseteq 1..n /\ tx_snapshots \subseteq 1..n /\ session_state.run \in 0..n
          /\ DOMAIN run_records \subseteq 1..n /\ \A i \in DOMAIN intake_log : intake_log[i].run \in 1..n
      BY <1>1 DEF OpInv, OpTypesInv
    <2>5. /\ state_records \subseteq 1..(n + 1) /\ tx_snapshots \subseteq 1..(n + 1) /\ session_state.run \in 0..(n + 1)
          /\ DOMAIN run_records \subseteq 1..(n + 1) /\ \A i \in DOMAIN intake_log : intake_log[i].run \in 1..(n + 1)
      BY <2>2, <2>4
    <2>6. intake_log \in Seq(IntakeLine) /\ session_state \in Sessions /\ run_ledger \in Seq(Nat)
          /\ run_records = [r \in DOMAIN run_records |-> run_records[r]]
      BY DEF OpInv, OpTypesInv
    <2> QED  BY <1>2, <1>3, <1>19, <2>1, <2>3, <2>5, <2>6 DEF OpTypesInv
  <1>26. \A r \in DOMAIN run_records' : RecordSound(r)'
    <2>1. ASSUME NEW r \in DOMAIN run_records PROVE RecordSound(r)'
      <3>1. RecordSound(r)
        BY <2>1 DEF OpInv
      <3> QED  BY <1>2, <3>1 DEF RecordSound, StatusSound, NothingFrom, Left, InIntake
    <2> QED  BY <1>2, <2>1
  <1>27. (\A j \in DOMAIN intake_log : \A i \in 1..(j - 1) :
             intake_log[i].target = intake_log[j].target => intake_log[j].checked < i)'
    BY <1>2 DEF OpInv
  <1>28. (session_state.run # 0 /\ ~session_state.transactional =>
             session_state.run \in DOMAIN run_records /\ InLedger(session_state.run))'
    BY <1>2 DEF OpInv, InLedger
  <1>29. (\A other \in Operators : JobSound(operator_run[other]))'
    BY <1>3, <1>21
  <1>30. (\A o1, o2 \in Operators : o1 # o2 /\ ~Doing(o1, "idle") /\ ~Doing(o2, "idle") =>
             operator_run[o1].run # operator_run[o2].run /\ ~operator_run[o1].alone)'
    BY <1>3, <1>24 DEF Doing
  <1> QED  BY <1>25, <1>26, <1>27, <1>28, <1>29, <1>30 DEF OpInv

LEMMA OpInitInv == OpInit => OpInv
  <1> SUFFICES ASSUME OpInit PROVE OpInv
    OBVIOUS
  <1>1. operator_run = [o \in Operators |-> NoRun] /\ intake_log = <<>> /\ run_records = <<>> /\ runs_started = 0
        /\ session_state = NoSession /\ state_records = {} /\ tx_snapshots = {} /\ run_ledger = <<>>
        /\ op_canonical = EmptyLedger
    BY DEF OpInit
  <1>2. \A o \in Operators : operator_run[o] = NoRun /\ operator_run[o].pc = "idle" /\ operator_run[o].run = 0
    BY <1>1, NoRunTyped
  <1>3. operator_run \in [Operators -> OpJob]
    BY <1>1, NoRunTyped
  <1>4. NoSession \in Sessions /\ NoSession.run = 0
    BY DEF NoSession, Sessions
  <1>5. op_canonical \in LedgerFiles(InLedgerEntries)
    BY <1>1, EmptyLedgerTyped
  <1>6. run_records = [r \in DOMAIN run_records |-> run_records[r]] /\ DOMAIN run_records = {}
    BY <1>1
  <1>7. intake_log \in Seq(IntakeLine) /\ DOMAIN intake_log = {} /\ run_ledger \in Seq(Nat)
    BY <1>1
  <1>8. 0 \in 0..MaxRuns /\ 0 \in 0..0
    BY OperatorAssumption
  <1>9. OpTypesInv
    BY <1>1, <1>3, <1>4, <1>5, <1>6, <1>7, <1>8 DEF OpTypesInv
  <1> QED  BY <1>1, <1>2, <1>4, <1>6, <1>7, <1>9 DEF OpInv, JobSound, Doing

LEMMA OpStepInv == OpInv /\ [OpNext]_op_vars => OpInv'
  <1> SUFFICES ASSUME OpInv, [OpNext]_op_vars PROVE OpInv'
    OBVIOUS
  <1>1. CASE OpNext
    <2>1. PICK o \in Operators :
              \/ \E wf \in OperatorWorkflows, governed \in BOOLEAN :
                    \E target \in OpTargets \cup {NoTarget} : StartOperatorRun(o, wf, target, governed, "ready")
              \/ \E wf \in {"record_state_append", "inspect_system_state"}, governed \in BOOLEAN :
                    StartOperatorRun(o, wf, NoTarget, governed, "contract_violation")
              \/ PassGate(o) \/ TakeSnapshot(o) \/ ObserveBefore(o) \/ HandleTool(o) \/ LookUpRun(o) \/ CompareAfter(o)
              \/ EmitAllowed(o) \/ WriteRunRecord(o) \/ AppendRunLedger(o) \/ ReadOpCanonical(o) \/ AppendOpDecision(o)
              \/ WriteSessionState(o) \/ RunKilled(o)
      BY <1>1 DEF OpNext
    <2>2. CASE \E wf \in OperatorWorkflows, governed \in BOOLEAN :
                  \E target \in OpTargets \cup {NoTarget} : StartOperatorRun(o, wf, target, governed, "ready")
      <3>1. PICK wf \in OperatorWorkflows, governed \in BOOLEAN, target \in OpTargets \cup {NoTarget} :
                StartOperatorRun(o, wf, target, governed, "ready")
        BY <2>2
      <3>2. PICK plan \in {"ready", "contract_violation"} : plan = "ready"
        OBVIOUS
      <3> QED  BY <3>1, <3>2, StartKeeps
    <2>3. CASE \E wf \in {"record_state_append", "inspect_system_state"}, governed \in BOOLEAN :
                  StartOperatorRun(o, wf, NoTarget, governed, "contract_violation")
      <3>1. PICK wf \in {"record_state_append", "inspect_system_state"}, governed \in BOOLEAN :
                StartOperatorRun(o, wf, NoTarget, governed, "contract_violation")
        BY <2>3
      <3>2. PICK plan \in {"ready", "contract_violation"} : plan = "contract_violation"
        OBVIOUS
      <3>3. wf \in OperatorWorkflows
        BY DEF OperatorWorkflows, WriteTools
      <3>4. NoTarget \in OpTargets \cup {NoTarget}
        OBVIOUS
      <3> QED  BY <3>1, <3>2, <3>3, <3>4, StartKeeps
    <2>4. CASE PassGate(o) \/ TakeSnapshot(o) \/ ObserveBefore(o) \/ HandleTool(o) \/ LookUpRun(o)
      BY <2>4, PassGateKeeps, TakeSnapshotKeeps, ObserveBeforeKeeps, HandleToolKeeps, LookUpKeeps
    <2>5. CASE CompareAfter(o) \/ EmitAllowed(o) \/ WriteRunRecord(o) \/ AppendRunLedger(o)
      BY <2>5, CompareKeeps, EmitKeeps, WriteRunRecordKeeps, AppendRunLedgerKeeps
    <2>6. CASE ReadOpCanonical(o) \/ AppendOpDecision(o) \/ WriteSessionState(o) \/ RunKilled(o)
      BY <2>6, ReadOpCanonicalKeeps, AppendOpDecisionKeeps, WriteSessionStateKeeps, RunKilledKeeps
    <2> QED  BY <2>1, <2>2, <2>3, <2>4, <2>5, <2>6
  <1>2. CASE UNCHANGED op_vars
    <2>1. UNCHANGED <<intake_log, state_records, session_state, tx_snapshots, run_records, run_ledger, op_canonical,
                      operator_run, runs_started>>
      BY <1>2 DEF op_vars
    <2>2. ASSUME NEW o \in Operators PROVE JobSound(operator_run[o])'
      <3>1. PICK job : job = operator_run[o]
        OBVIOUS
      <3>2. JobSound(job)
        BY <3>1 DEF OpInv
      <3>3. JobSound(job)'
        BY <2>1, <3>2, JobSoundStays
      <3> QED  BY <2>1, <3>1, <3>3
    <2>3. ASSUME NEW r \in DOMAIN run_records PROVE RecordSound(r)'
      <3>1. RecordSound(r)
        BY DEF OpInv
      <3> QED  BY <2>1, <3>1 DEF RecordSound, StatusSound, NothingFrom, Left, InIntake
    <2>4. OpTypesInv'
      <3>1. op_canonical' \in LedgerFiles(InLedgerEntries)'
        BY <2>1 DEF OpInv, OpTypesInv, LedgerFiles, InLedgerEntries, InLedger
      <3> QED  BY <2>1, <3>1 DEF OpInv, OpTypesInv
    <2>5. (\A o \in Operators : JobSound(operator_run[o]))' /\ (\A r \in DOMAIN run_records : RecordSound(r))'
      BY <2>1, <2>2, <2>3
    <2>6. (\A o1, o2 \in Operators : o1 # o2 /\ ~Doing(o1, "idle") /\ ~Doing(o2, "idle") =>
               operator_run[o1].run # operator_run[o2].run /\ ~operator_run[o1].alone)'
      BY <2>1 DEF OpInv, Doing
    <2>7. (\A j \in DOMAIN intake_log : \A i \in 1..(j - 1) :
              intake_log[i].target = intake_log[j].target => intake_log[j].checked < i)'
      BY <2>1 DEF OpInv
    <2>8. (session_state.run # 0 /\ ~session_state.transactional =>
              session_state.run \in DOMAIN run_records /\ InLedger(session_state.run))'
      BY <2>1 DEF OpInv, InLedger
    <2> QED  BY <2>4, <2>5, <2>6, <2>7, <2>8 DEF OpInv
  <1> QED  BY <1>1, <1>2

(* The invariant holds of every state of the runs.                           *)
LEMMA OpSpecInv == OpSpec => []OpInv
  BY OpInitInv, OpStepInv, PTL DEF OpSpec

(* The type invariant of the operator runtime: targets are targets, and     *)
(* nothing names a run that was not started.                                *)
THEOREM OpTypesHold == OpSpec => []OpTypeOK
  <1>1. OpInv => OpTypeOK
    <2> SUFFICES ASSUME OpInv PROVE OpTypeOK
      OBVIOUS
    <2>1. \A i \in DOMAIN intake_log : intake_log[i].target \in OpTargets \cup {NoTarget}
      <3>1. PICK log : log = intake_log
        OBVIOUS
      <3>2. log \in Seq(IntakeLine)
        BY <3>1 DEF OpInv, OpTypesInv
      <3>3. \A i \in DOMAIN log : log[i] \in IntakeLine
        BY <3>2
      <3> QED  BY <3>1, <3>3 DEF IntakeLine
    <2>2. PICK n \in Nat : n = runs_started /\ n <= MaxRuns
      BY OperatorAssumption DEF OpInv, OpTypesInv
    <2>3. 1..n \subseteq 1..MaxRuns /\ 1..n \subseteq 0..MaxRuns /\ 0 \in 0..MaxRuns
      BY <2>2, OperatorAssumption
    <2>4. state_records \cup tx_snapshots \cup DOMAIN run_records \subseteq 1..MaxRuns
      BY <2>2, <2>3 DEF OpInv, OpTypesInv
    <2>5. ASSUME NEW o \in Operators
          PROVE  operator_run[o].run \in 0..MaxRuns /\ Len(operator_run[o].tools) <= 2
      <3>1. PICK job \in OpJob : job = operator_run[o]
        BY DEF OpInv, OpTypesInv
      <3>2. JobSound(job)
        BY <3>1 DEF OpInv
      <3>3. job.run \in 0..MaxRuns
        BY <2>2, <2>3, <3>2 DEF JobSound
      <3>4. job.tools \in ToolLists
        BY DEF OpJob
      <3>5. Len(job.tools) \in {0, 1, 2}
        <4>1. CASE job.tools = <<>>
          BY <4>1
        <4>3. CASE job.tools = <<"session_state_overwrite">>
          <5>1. Len(job.tools) = 1
            BY <4>3
          <5> QED  BY <5>1
        <4>2. CASE \E wf \in OperatorWorkflows : job.tools = ToolsOf(wf)
          BY <4>2, ToolsAre
        <4> QED  BY <3>4, <4>1, <4>2, <4>3 DEF ToolLists
      <3>6. PICK length \in {0, 1, 2} : length = Len(job.tools)
        BY <3>5
      <3>7. length <= 2
        OBVIOUS
      <3> QED  BY <3>1, <3>3, <3>6, <3>7
    <2> QED  BY <2>1, <2>4, <2>5 DEF OpTypeOK
  <1> QED  BY <1>1, OpSpecInv, PTL

(* Whatever commands overlap, and wherever they are killed: a run recorded  *)
(* as rejected or held wrote nothing, one recorded as ok all it was asked   *)
(* for, a doubled intake record was checked before the first was there, the *)
(* decisions and the session of a finished run name a run that is on file,  *)
(* and a command that ran alone is never accused of what it did not touch.  *)
THEOREM RunsAreTruthful == OpSpec => []RunsTellTheTruth
  <1>1. OpInv => RunsTellTheTruth
    <2> SUFFICES ASSUME OpInv PROVE RunsTellTheTruth
      OBVIOUS
    <2>1. ASSUME NEW r \in DOMAIN run_records
          PROVE  /\ run_records[r].status \in {"rejected", "held"} =>
                        Wrote(r) = {} /\ ~(session_state.run = r /\ session_state.transactional)
                 /\ run_records[r].status = "ok" =>
                        \A i \in DOMAIN ToolsOf(run_records[r].wf) :
                            ToolsOf(run_records[r].wf)[i] \in WriteTools \ {"session_state_overwrite"} =>
                                ToolsOf(run_records[r].wf)[i] \in Wrote(r)
                 /\ run_records[r].continues.run # 0 /\ ~run_records[r].found => run_records[r].continues.transactional
                 /\ requires_rejection(run_records[r].consistency) => ~run_records[r].alone
      <3>1. RecordSound(r)
        BY DEF OpInv
      <3>2. \A tool \in WriteTools \ {"session_state_overwrite"} : Left(r, tool) => tool \in Wrote(r)
        BY WroteMeans DEF WriteTools, Left
      <3>3. \A c : requires_rejection(c) => c \in Accusations
        BY DEF requires_rejection, Accusations
      <3> QED  BY <3>1, <3>2, <3>3, WroteMeans DEF RecordSound, StatusSound
    <2>2. \A j \in DOMAIN intake_log : \A i \in 1..(j - 1) :
              intake_log[i].target = intake_log[j].target /\ intake_log[j].target # NoTarget => intake_log[j].checked < i
      BY DEF OpInv
    <2>3. \A k \in DOMAIN op_canonical.entries : \E i \in DOMAIN run_ledger : run_ledger[i] = op_canonical.entries[k].id
      <3>1. PICK S : S = InLedgerEntries
        OBVIOUS
      <3>2. op_canonical.entries \in Seq(S)
        BY <3>1 DEF OpInv, OpTypesInv, LedgerFiles
      <3>3. PICK log : log = op_canonical.entries
        OBVIOUS
      <3>4. \A k \in DOMAIN log : log[k] \in S
        BY <3>2, <3>3
      <3> QED  BY <3>1, <3>3, <3>4 DEF InLedgerEntries, InLedger
    <2>4. session_state.run # 0 /\ ~session_state.transactional =>
              session_state.run \in DOMAIN run_records /\ \E i \in DOMAIN run_ledger : run_ledger[i] = session_state.run
      BY DEF OpInv, InLedger
    <2> QED  BY <2>1, <2>2, <2>3, <2>4 DEF RunsTellTheTruth
  <1> QED  BY <1>1, OpSpecInv, PTL
================================================================================
