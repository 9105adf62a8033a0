---------------------------- MODULE JsonlLedger ----------------------------
(***************************************************************************)
(* One JSONL ledger and the processes that append to it, at the level of   *)
(* its bytes: app/utils/io_contract.py (the lock file, the write, its      *)
(* rollback) and app/retention/jsonl_store.py (the hash chain).            *)
(*                                                                         *)
(* The line of a record is three chunks: a part that is no JSON yet, the   *)
(* rest of the JSON, the newline.  A write that fails, and a process that  *)
(* dies, may stop between two chunks.  The handle is a BufferedRandom: what*)
(* a failed flush did not write stays in its buffer, and the seek of the   *)
(* rollback and the close flush it again before anything else.             *)
(***************************************************************************)
EXTENDS Naturals, Sequences, FiniteSets

CONSTANTS
    Appenders,
    NoOne,        \* the lock is free
    Chained,      \* TRUE: append_record; FALSE: append_jsonl_atomic
    TornAt,       \* the chunks before which a write may stop
    MaxAppends,   \* bound on the appends begun
    MaxFaults     \* bound on write errors, fsync errors and deaths

ASSUME OwnerAssumption   == NoOne \notin Appenders
ASSUME ChainedAssumption == Chained \in BOOLEAN
ASSUME TornAssumption    == TornAt \subseteq 1..3
ASSUME BoundAssumption   == MaxAppends \in Nat /\ MaxFaults \in Nat

Record == [id : 1..MaxAppends, prev : 0..MaxAppends]
Chunk  == [rec : Record, part : 1..3]

VARIABLES
    file,      \* the chunks on file
    owner,     \* who holds the flock on the .lock file
    proc,      \* what each appender is doing
    started,   \* appends begun so far: the id of the next record
    faults,
    acked      \* history: ids whose append has returned

vars == <<file, owner, proc, started, faults, acked>>

NoRecord == [id |-> 0, prev |-> 0]
Idle     == [pc |-> "idle", rec |-> NoRecord, written |-> 0, start |-> 0]

Init ==
    /\ file = <<>> /\ owner = NoOne
    /\ proc = [a \in Appenders |-> Idle]
    /\ started = 0 /\ faults = 0 /\ acked = {}

Line(rec) == [k \in 1..3 |-> [rec |-> rec, part |-> k]]

----------------------------------------------------------------------------
(* Reading.                                                                 *)

LineStarts(f, i) == i > 1 => f[i - 1].part = 3

(* A line that starts at i and is the JSON of one record.                   *)
ReadableAt(f, i) ==
    /\ LineStarts(f, i)
    /\ i < Len(f)
    /\ f[i].part = 1 /\ f[i + 1] = [rec |-> f[i].rec, part |-> 2]
    /\ i + 1 < Len(f) => f[i + 2].part = 3

(* The records found by a reader that passes over what it cannot parse.     *)
Readable(f) ==
    LET heads   == {i \in DOMAIN f : ReadableAt(f, i)}
        UpTo(i) == {j \in heads : j <= i}
    IN  [k \in 1..Cardinality(heads) |-> f[CHOOSE i \in heads : Cardinality(UpTo(i)) = k].rec]

LastLine(f) == CHOOSE i \in DOMAIN f :
                  LineStarts(f, i) /\ \A j \in DOMAIN f : LineStarts(f, j) => j <= i

(* Mutant: the last readable line is taken, damaged ones are passed over. *)
LastReadable(f, p) ==
    LET seen == Readable(f)
    IN  p = IF seen = <<>> THEN 0 ELSE seen[Len(seen)].id

(* The id of the last record, when its line parses; otherwise it raises.    *)
read_last_locked_record(f, p) ==
    IF f = <<>> THEN p = 0
    ELSE ReadableAt(f, LastLine(f)) /\ p = f[LastLine(f)].rec.id

----------------------------------------------------------------------------
(* Appending.                                                               *)

Fault == faults < MaxFaults /\ faults' = faults + 1

Begun(id) == [pc |-> "locking", rec |-> [id |-> id, prev |-> 0], written |-> 0, start |-> 0]

Begin(a) ==
    /\ proc[a].pc = "idle" /\ started < MaxAppends
    /\ started' = started + 1
    /\ proc' = [proc EXCEPT ![a] = Begun(started + 1)]
    /\ UNCHANGED <<file, owner, faults, acked>>

(* Mutant: the position is taken without the seek to the end before it. *)
LockWithoutSeek(a) ==
    /\ proc[a].pc = "locking" /\ owner = NoOne
    /\ owner' = a
    /\ proc' = [proc EXCEPT ![a].pc = IF Chained THEN "reading" ELSE "writing",
                            ![a].start = 0]
    /\ UNCHANGED <<file, started, faults, acked>>

(* flock succeeds on one of its retries ...                                 *)
Lock(a) ==
    /\ proc[a].pc = "locking" /\ owner = NoOne
    /\ owner' = a
    /\ proc' = [proc EXCEPT ![a].pc = IF Chained THEN "reading" ELSE "writing",
                            ![a].start = Len(file)]
    /\ UNCHANGED <<file, started, faults, acked>>

(* ... or the lock was busy on all of them: TimeoutError.                   *)
GiveUp(a) ==
    /\ proc[a].pc = "locking" /\ owner # NoOne
    /\ proc' = [proc EXCEPT ![a] = Idle]
    /\ UNCHANGED <<file, owner, started, faults, acked>>

ReadLast(a) ==
    /\ proc[a].pc = "reading"
    /\ \E p \in 0..MaxAppends :
          /\ read_last_locked_record(file, p)
          /\ proc' = [proc EXCEPT ![a].pc = "writing",
                                  ![a].rec = [id |-> proc[a].rec.id, prev |-> p]]
    /\ UNCHANGED <<file, owner, started, faults, acked>>

(* invalid_jsonl: nothing was written.                                      *)
ReadRaises(a) ==
    /\ proc[a].pc = "reading"
    /\ ~ \E p \in 0..MaxAppends : read_last_locked_record(file, p)
    /\ proc' = [proc EXCEPT ![a].pc = "leaving"]
    /\ UNCHANGED <<file, owner, started, faults, acked>>

WriteChunk(a) ==
    /\ proc[a].pc = "writing" /\ proc[a].written < 3
    /\ file' = Append(file, Line(proc[a].rec)[proc[a].written + 1])
    /\ proc' = [proc EXCEPT ![a].written = @ + 1]
    /\ UNCHANGED <<owner, started, faults, acked>>

(* Mutant: the caller is handed the previous record. *)
SyncReturnsPrevious(a) ==
    /\ proc[a].pc = "writing" /\ proc[a].written = 3
    /\ acked' = acked \cup {proc[a].rec.prev}
    /\ proc' = [proc EXCEPT ![a].pc = "leaving"]
    /\ UNCHANGED <<file, owner, started, faults>>

(* flush and fsync return: the append is acknowledged.                      *)
Sync(a) ==
    /\ proc[a].pc = "writing" /\ proc[a].written = 3
    /\ acked' = acked \cup {proc[a].rec.id}
    /\ proc' = [proc EXCEPT ![a].pc = "leaving"]
    /\ UNCHANGED <<file, owner, started, faults>>

(* fsync raises: the buffer is empty, and the rollback truncates.           *)
SyncFails(a) ==
    /\ proc[a].pc = "writing" /\ proc[a].written = 3
    /\ Fault
    /\ file' = SubSeq(file, 1, proc[a].start)
    /\ proc' = [proc EXCEPT ![a].pc = "leaving"]
    /\ UNCHANGED <<owner, started, acked>>

(* The write raises, the rest of the line still in the buffer.              *)
WriteFails(a) ==
    /\ proc[a].pc = "writing" /\ proc[a].written < 3 /\ proc[a].written + 1 \in TornAt
    /\ Fault
    /\ proc' = [proc EXCEPT ![a].pc = "rollback"]
    /\ UNCHANGED <<file, owner, started, acked>>

(* The rollback: its seek flushes first.  That works now, and the truncate  *)
(* removes all of the line ...                                              *)
RollBack(a) ==
    /\ proc[a].pc = "rollback"
    /\ file' = SubSeq(file, 1, proc[a].start)
    /\ proc' = [proc EXCEPT ![a].pc = "leaving"]
    /\ UNCHANGED <<owner, started, faults, acked>>

(* ... or it raises again, is suppressed, and nothing is truncated.  The    *)
(* close flushes once more.                                                 *)
RollBackFails(a) ==
    /\ proc[a].pc = "rollback"
    /\ \/ file' = file \o SubSeq(Line(proc[a].rec), proc[a].written + 1, 3)
       \/ UNCHANGED file
    /\ proc' = [proc EXCEPT ![a].pc = "leaving"]
    /\ UNCHANGED <<owner, started, faults, acked>>

Unlock(a) ==
    /\ proc[a].pc = "leaving"
    /\ owner' = NoOne
    /\ proc' = [proc EXCEPT ![a] = Idle]
    /\ UNCHANGED <<file, started, faults, acked>>

(* The process dies; its lock goes with it.                                 *)
Die(a) ==
    /\ proc[a].pc # "idle"
    /\ proc[a].pc = "writing" /\ proc[a].written \in 1..2 => proc[a].written + 1 \in TornAt
    /\ Fault
    /\ owner' = IF owner = a THEN NoOne ELSE owner
    /\ proc' = [proc EXCEPT ![a] = Idle]
    /\ UNCHANGED <<file, started, acked>>

Step(a) ==
    \/ Begin(a) \/ Lock(a) \/ GiveUp(a) \/ ReadLast(a) \/ ReadRaises(a)
    \/ WriteChunk(a) \/ Sync(a) \/ SyncFails(a) \/ WriteFails(a)
    \/ RollBack(a) \/ RollBackFails(a) \/ Unlock(a) \/ Die(a)

Next == \E a \in Appenders : Step(a)

Spec == Init /\ [][Next]_vars

----------------------------------------------------------------------------
Proc == [pc : {"idle", "locking", "reading", "writing", "rollback", "leaving"},
         rec : [id : 0..MaxAppends, prev : 0..MaxAppends],
         written : 0..3, start : Nat]

TypeOK ==
    /\ file \in Seq(Chunk)
    /\ owner \in Appenders \cup {NoOne}
    /\ proc \in [Appenders -> Proc]
    /\ started \in 0..MaxAppends
    /\ faults \in 0..MaxFaults
    /\ acked \subseteq 1..MaxAppends

Holding == {"reading", "writing", "rollback", "leaving"}

(* One appender at a time is past the lock, whoever died or timed out, and  *)
(* nothing has been written behind its own line since it took the lock: its *)
(* rollback can cut nobody else's record.                                   *)
OnlyOwnLine ==
    \A a \in Appenders : proc[a].pc \in Holding =>
        /\ owner = a
        /\ proc[a].pc # "leaving" =>
              /\ Len(file) = proc[a].start + proc[a].written
              /\ \A k \in 1..proc[a].written :
                    file[proc[a].start + k] = Line(proc[a].rec)[k]

(* "Rollback-on-failure (truncate to pre-write position on error)"          *)
(* (GOVERNED_CONTINUITY_ENGINE.md:70): an append that raised left the file  *)
(* as long as it found it.                                                  *)
RollbackTruncates ==
    \A a \in Appenders :
        proc[a].pc = "leaving" /\ proc[a].rec.id \notin acked
            => Len(file) = proc[a].start

(* "locked atomic append" (architecture_diagnostic.md:100): an append that  *)
(* returned can be read back.                                               *)
AcknowledgedIsReadable ==
    \A id \in acked : \E k \in DOMAIN Readable(file) : Readable(file)[k].id = id

(* Whatever fails, the three chunks of an acknowledged record stay on file, *)
(* one behind the other.                                                    *)
AcknowledgedStaysOnFile ==
    \A id \in acked : \E i \in DOMAIN file :
        /\ i + 2 <= Len(file)
        /\ file[i].rec.id = id
        /\ \A k \in 0..2 : file[i + k] = Line(file[i].rec)[k + 1]

(* A reader that passes over what it cannot parse misses no more records    *)
(* that were acknowledged than there were failures: a fragment spoils the   *)
(* line that is glued to it, and no other.                                  *)
Unfound == {id \in acked : ~ \E i \in DOMAIN file : ReadableAt(file, i) /\ file[i].rec.id = id}

FaultsCostOneRecord == Cardinality(Unfound) <= faults

(* The ledger implements the log its users rely on, in which every record   *)
(* found names the one found before it.                                     *)
Log == INSTANCE AppendLog WITH Ids <- 1..MaxAppends, log <- Readable(file)

ImplementsLog == Log!Spec
=============================================================================
