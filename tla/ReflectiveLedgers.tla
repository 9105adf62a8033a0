--------------------------- MODULE ReflectiveLedgers ---------------------------
(***************************************************************************)
(* The ledgers of reflective pressure and of the reflective corpus.  A     *)
(* command builds a record, looks whether what it names is on file, and    *)
(* appends it; reflective pressure then appends an event.  An import does  *)
(* that for an input, its classification and its draft.  A reconciliation  *)
(* reads the ledgers one after the other while commands go on.             *)
(*                                                                         *)
(* One sequence holds the rows of all ledgers in the order they were       *)
(* appended; each append is whole (the ledger store's lock and chain are   *)
(* in JsonlLedger).  Ids of reflective pressure hash the time they were    *)
(* built at, ids of the corpus only the content.                           *)
(***************************************************************************)
EXTENDS Naturals, Sequences, FiniteSets

CONSTANTS
    Authors,          \* commands that may overlap
    MaxAuthored,      \* bound: commands
    MaxImported,      \* bound: inputs on file, those of the history included
    MaxAuthorKills    \* bound: commands killed

ASSUME AuthorAssumption == IsFiniteSet(Authors) /\ MaxAuthored \in Nat /\ MaxAuthorKills \in Nat

VARIABLES
    rows,        \* records on file
    logged,      \* positions of the rows that have an event
    authoring,   \* author -> command in progress
    reconciling, \* the reconciliation in progress, or its result
    authored,
    author_kills

reflect_vars == <<rows, logged, authoring, reconciling, authored, author_kills>>

PressureKinds == <<"input", "classification", "draft", "observation", "correction", "golden">>
CorpusKinds == <<"fragment", "theme", "pressure", "candidate">>

NoId == <<"none", 0, {}>>
(* "checked": how many rows there were when the references were looked up.  *)
Row(id, about, refs) == [id |-> id, about |-> about, refs |-> refs, checked |-> 0]
NoRow == Row(NoId, NoId, {})
Kind(row) == row.id[1]
IsPressure(row) == Kind(row) \in {"input", "classification", "draft", "observation", "correction", "golden"}

(* The corpus: a fragment holds one side of the contrast pair, and its id   *)
(* and that of a pressure follow from what they hold; one theme.            *)
Sides == {"left", "right"}
FragmentId(side) == <<"fragment", 0, {side}>>
ThemeId == <<"theme", 0, {}>>
PressureId(fragments) == <<"pressure", 0, fragments>>
CandidateId(refs) == <<"candidate", 0, refs>>

OnFile == DOMAIN rows
IdsOf(kinds) == {rows[i].id : i \in {j \in OnFile : Kind(rows[j]) \in kinds}}

----------------------------------------------------------------------------
(* append_*: every record named is on file, one of reflective pressure      *)
(* about the same input, and the id is new.                                 *)
Names(i, id, row) == rows[i].id = id /\ (IsPressure(row) => rows[i].about = row.about)
NewId(row) == \A i \in OnFile : rows[i].id # row.id
InputKnown(row) == row.about \in IdsOf({"input"}) \/ Kind(row) = "input" \/ ~IsPressure(row)
(* Mutant: the records named may be about another input.                    *)
AcceptsAnyInput(row) ==
    InputKnown(row) /\ NewId(row) /\ \A id \in row.refs : \E i \in OnFile : rows[i].id = id
Accepts(row) == InputKnown(row) /\ NewId(row) /\ \A id \in row.refs : \E i \in OnFile : Names(i, id, row)

(* _detect_reference_issues and _detect_duplicate_ids, on the rows read.    *)
corpus_reference_issues(read) == {i \in read : \E id \in rows[i].refs : \A j \in read : ~Names(j, id, rows[i])}
reference_issues(read) ==
    corpus_reference_issues(read)
        \cup {i \in read : IsPressure(rows[i]) /\ \A j \in read : rows[j].id # rows[i].about}
duplicate_ids(read) == {i \in read : \E j \in read : j < i /\ rows[j].id = rows[i].id}

----------------------------------------------------------------------------
IdleAuthor == [pc |-> "idle", row |-> NoRow, chain |-> <<>>]
NoReport == [done |-> FALSE, reference_alarm |-> FALSE, duplicate_alarm |-> FALSE, quiet |-> FALSE]
NoReconciliation == [left |-> <<>>, read |-> {}, since |-> 0, result |-> NoReport]

(* What earlier commands left: a classified input; both sides of the        *)
(* contrast pair.                                                           *)
Earlier(n) == <<"input", n, {}>>
PressureHistory ==
    LET input == Earlier(MaxAuthored + 1)
    IN  <<Row(input, input, {}), Row(<<"classification", MaxAuthored + 1, {}>>, input, {})>>
BothFragments == {FragmentId(side) : side \in Sides}
CorpusHistory == <<Row(FragmentId("left"), NoId, {}), Row(FragmentId("right"), NoId, {})>>
DetectedHistory == Append(CorpusHistory, Row(PressureId(BothFragments), NoId, BothFragments))

ReflectInit(histories) ==
    /\ rows \in histories
    /\ logged = {i \in OnFile : IsPressure(rows[i])}
    /\ authoring = [a \in Authors |-> IdleAuthor]
    /\ reconciling = NoReconciliation
    /\ authored = 0
    /\ author_kills = 0

(* A rejected record ends the command, or the line of the import.           *)
Checked(row, chain) ==
    IF Accepts(row) THEN [pc |-> "checked", row |-> [row EXCEPT !.checked = Len(rows)], chain |-> chain] ELSE IdleAuthor

Start(a, job) ==
    /\ authoring[a].pc = "idle"
    /\ authored < MaxAuthored
    /\ authored' = authored + 1
    /\ authoring' = [authoring EXCEPT ![a] = job]
    /\ UNCHANGED <<rows, logged, reconciling, author_kills>>

FreshId(kind) == <<kind, authored, {}>>

(* rp-add-input, or one line of rp-import-inputs with its options.          *)
ImportChains == {<<>>, <<"classification">>, <<"classification", "draft">>}
BeginImport(a, chain) ==
    /\ Cardinality(IdsOf({"input"}) \cup {authoring[b].row.id : b \in {c \in Authors : Kind(authoring[c].row) = "input"}}) < MaxImported
    /\ Start(a, Checked(Row(FreshId("input"), FreshId("input"), {}), chain))

(* What each other command names besides an input.                          *)
Classifications == {{c} : c \in IdsOf({"classification"})}
ObservedDrafts == {{d} : d \in IdsOf({"draft"})}
CorrectionTargets == {{t} : t \in IdsOf({"input", "classification", "draft", "observation"})}
GoldenSources == {c \cup x \cup d : c \in Classifications, x \in {{}} \cup {{x} : x \in IdsOf({"correction"})},
                                    d \in {{}} \cup ObservedDrafts}
References(kind) ==
    CASE kind = "classification" -> {{}}
      [] kind = "draft"          -> Classifications
      [] kind = "observation"    -> ObservedDrafts
      [] kind = "correction"     -> CorrectionTargets
      [] kind = "golden"         -> GoldenSources

BeginRecord(a, kind) ==
    /\ authoring[a].pc = "idle" /\ authored < MaxAuthored
    /\ \E input \in IdsOf({"input"}) : \E refs \in References(kind) :
        Start(a, Checked(Row(FreshId(kind), input, refs), <<>>))

(* A pressure is detected when the fragments hold both sides.               *)
Detected == BothFragments \subseteq IdsOf({"fragment"})

BeginNote(a) == \E id \in BothFragments \cup {ThemeId} : Start(a, Checked(Row(id, NoId, {}), <<>>))
BeginDetection(a, kind) ==
    /\ Detected
    /\ Start(a, [pc |-> "detecting", row |-> Row(<<kind, 0, {}>>, NoId, IdsOf({"fragment"})), chain |-> <<>>])

(* detect_pressures and suggest_essay_candidates read the themes after the  *)
(* fragments; a candidate names the pressure as detected, not as stored.    *)
ReadThemes(a) ==
    LET job == authoring[a]
        pressure == PressureId(job.row.refs)
        refs == job.row.refs \cup IdsOf({"theme"})
        row == IF Kind(job.row) = "pressure" THEN Row(pressure, NoId, refs)
               ELSE Row(CandidateId(refs), NoId, refs \cup {pressure})
    IN  /\ job.pc = "detecting"
        /\ authoring' = [authoring EXCEPT ![a] = Checked(row, <<>>)]
        /\ UNCHANGED <<rows, logged, reconciling, authored, author_kills>>

AppendRow(a) ==
    LET job == authoring[a]
    IN  /\ job.pc = "checked"
        /\ rows' = Append(rows, job.row)
        /\ authoring' = [authoring EXCEPT ![a] = IF IsPressure(job.row) THEN [job EXCEPT !.pc = "written"] ELSE IdleAuthor]
        /\ UNCHANGED <<logged, reconciling, authored, author_kills>>

(* _append_event; an import goes on with the record it was asked for next,  *)
(* built from the one it has just written.                                  *)
NextOf(job) ==
    IF job.chain = <<>> THEN IdleAuthor
    ELSE Checked(Row(<<Head(job.chain), job.row.id[2], {}>>, job.row.about,
                     IF Head(job.chain) = "draft" THEN {job.row.id} ELSE {}), Tail(job.chain))
AppendLog(a) ==
    LET job == authoring[a]
    IN  /\ job.pc = "written"
        /\ logged' = logged \cup {i \in OnFile : rows[i].id = job.row.id}
        /\ authoring' = [authoring EXCEPT ![a] = NextOf(job)]
        /\ UNCHANGED <<rows, reconciling, authored, author_kills>>

(* Killed before its append a command leaves nothing, as if it had not run. *)
AuthorKilled(a) ==
    /\ authoring[a].pc = "written"
    /\ author_kills < MaxAuthorKills
    /\ author_kills' = author_kills + 1
    /\ authoring' = [authoring EXCEPT ![a] = IdleAuthor]
    /\ UNCHANGED <<rows, logged, reconciling, authored>>

(* reconcile_*_state: the ledgers are loaded in a fixed order, what they    *)
(* hold is compared afterwards.                                             *)
BeginReconcile(order) ==
    /\ reconciling.left = <<>> /\ ~reconciling.result.done
    /\ reconciling' = [NoReconciliation EXCEPT !.left = order, !.since = Len(rows)]
    /\ UNCHANGED <<rows, logged, authoring, authored, author_kills>>

Report(read, since) ==
    [done |-> TRUE, reference_alarm |-> reference_issues(read) # {}, duplicate_alarm |-> duplicate_ids(read) # {},
     quiet |-> Len(rows) = since]
LoadLedger ==
    LET read == reconciling.read \cup {i \in OnFile : Kind(rows[i]) = Head(reconciling.left)}
        left == Tail(reconciling.left)
    IN  /\ reconciling.left # <<>>
        /\ reconciling' = IF left # <<>> THEN [reconciling EXCEPT !.left = left, !.read = read]
                          ELSE [NoReconciliation EXCEPT !.result = Report(read, reconciling.since)]
        /\ UNCHANGED <<rows, logged, authoring, authored, author_kills>>

Recorded(a) == AppendRow(a) \/ AuthorKilled(a)

PressureNext ==
    \/ \E a \in Authors :
        \/ \E chain \in ImportChains : BeginImport(a, chain)
        \/ \E kind \in {"classification", "draft", "observation", "correction", "golden"} : BeginRecord(a, kind)
        \/ Recorded(a) \/ AppendLog(a)
    \/ BeginReconcile(PressureKinds) \/ LoadLedger

CorpusNext ==
    \/ \E a \in Authors :
        \/ BeginNote(a)
        \/ \E kind \in {"pressure", "candidate"} : BeginDetection(a, kind)
        \/ ReadThemes(a) \/ Recorded(a)
    \/ BeginReconcile(CorpusKinds) \/ LoadLedger

PressureSpec == ReflectInit({PressureHistory}) /\ [][PressureNext]_reflect_vars
CorpusSpec == ReflectInit({<<>>, CorpusHistory, DetectedHistory}) /\ [][CorpusNext]_reflect_vars

----------------------------------------------------------------------------
ReflectTypeOK ==
    /\ logged \subseteq OnFile
    /\ \A i \in OnFile : rows[i].checked < i
    /\ \A a \in Authors : authoring[a].pc \in {"idle", "detecting", "checked", "written"}
    /\ authored \in 0..MaxAuthored /\ author_kills \in 0..MaxAuthorKills

(* However commands overlap and are killed: a record names only records     *)
(* that were on file before it, about its own input; so a reconciliation    *)
(* that nothing overtook has no reference to report, though one that an     *)
(* import overtakes has.  An id is on file twice only when the second was   *)
(* looked up before the first was appended.  A record without an event is   *)
(* that of a command that was killed, or that is still to append it.        *)
AlarmMeansOverlap ==
    /\ \A i \in OnFile : \A id \in rows[i].refs :
           \E j \in 1..(i - 1) : rows[j].id = id /\ rows[j].about = rows[i].about
    /\ reconciling.result.quiet => ~reconciling.result.reference_alarm
    /\ \A i, j \in OnFile : i < j /\ rows[i].id = rows[j].id => rows[j].checked < i
    /\ Cardinality({i \in OnFile : IsPressure(rows[i])} \ logged)
           <= author_kills + Cardinality({a \in Authors : authoring[a].pc = "written"})
=============================================================================
