------------------------- MODULE JsonlLedgerProofs -------------------------
(***************************************************************************)
(* For every number of appenders, appends and faults.  Wherever a write may *)
(* stop: the types of JsonlLedger, and that an appender past the lock is    *)
(* alone and has only its own line behind the point it would roll back to. *)
(* A process that has not begun to write has written nothing (Unwritten);   *)
(* that is what makes OnlyOwnLine inductive.  With DurableInv: acknowledged *)
(* lines stay, and each failure costs one of them its readability.          *)
(*                                                                         *)
(* In a chained ledger whose writes never stop right before a newline: that *)
(* the ledger implements AppendLog, by ChainInv, and that what was          *)
(* acknowledged can be read back.                                           *)
(***************************************************************************)
EXTENDS JsonlLedger, FiniteSetTheorems, TLAPS

Unwritten ==
    \A a \in Appenders :
        proc[a].pc \in {"idle", "locking", "reading"} => proc[a].written = 0

(* A started append carries the id of one of the appends begun.             *)
Numbered ==
    \A a \in Appenders : proc[a].pc # "idle" => proc[a].rec.id \in 1..MaxAppends

LedgerInv == TypeOK /\ Unwritten /\ Numbered /\ OnlyOwnLine

----------------------------------------------------------------------------
(* An appender between two appends.                                          *)
LEMMA IdleProc == Idle \in Proc /\ Idle.pc = "idle" /\ Idle.written = 0
  BY BoundAssumption DEF Idle, Proc, NoRecord

(* One more chunk written, and a process that begins an append.              *)
LEMMA WrittenProc ==
    ASSUME NEW q \in Proc, NEW w \in 0..3
    PROVE  LET k == [q EXCEPT !.written = w]
           IN  k \in Proc /\ k.pc = q.pc /\ k.rec = q.rec /\ k.start = q.start /\ k.written = w
  BY DEF Proc

(* An appender that has begun one.                                           *)
LEMMA BegunProc ==
    ASSUME NEW id \in 1..MaxAppends
    PROVE  /\ Begun(id) \in Proc /\ Begun(id).pc = "locking"
           /\ Begun(id).written = 0 /\ Begun(id).rec.id = id
  <1>1. [id |-> id, prev |-> 0] \in [id : 0..MaxAppends, prev : 0..MaxAppends]
    BY BoundAssumption
  <1> QED
    BY <1>1 DEF Begun, Proc

(* A chunk of a line is a chunk.                                             *)
LEMMA LineType ==
    ASSUME NEW rec \in Record, NEW k \in 1..3
    PROVE  Line(rec)[k] \in Chunk
  BY DEF Line, Chunk

(* Cutting a ledger leaves a ledger.                                         *)
LEMMA CutType ==
    ASSUME NEW f \in Seq(Chunk), NEW n \in Nat, n <= Len(f)
    PROVE  SubSeq(f, 1, n) \in Seq(Chunk)
  OBVIOUS

LEMMA InitInv == Init => LedgerInv
  BY IdleProc, BoundAssumption
     DEF Init, LedgerInv, TypeOK, Unwritten, Numbered, OnlyOwnLine, Holding, Idle

(* Appending what is left of a line leaves a ledger.                         *)
LEMMA RestType ==
    ASSUME NEW rec \in Record, NEW w \in 0..3
    PROVE  SubSeq(Line(rec), w + 1, 3) \in Seq(Chunk)
  <1>1. Line(rec) \in [1..3 -> Chunk]
    BY LineType DEF Line
  <1> QED
    BY <1>1

(* What the other appenders keep when a takes a step that gives it process  *)
(* state k: they are not past the lock if a is, or the file stays.          *)
LEMMA StepOf ==
    ASSUME LedgerInv, NEW a \in Appenders, NEW k \in Proc,
           proc' = [proc EXCEPT ![a] = k],
           file' \in Seq(Chunk), owner' \in Appenders \cup {NoOne},
           started' \in 0..MaxAppends, faults' \in 0..MaxFaults, acked' \subseteq 1..MaxAppends,
           k.pc \in {"idle", "locking", "reading"} => k.written = 0,
           k.pc # "idle" => k.rec.id \in 1..MaxAppends,
           k.pc \in Holding => owner' = a,
           k.pc \in Holding \ {"leaving"} =>
               /\ Len(file') = k.start + k.written
               /\ \A n \in 1..k.written : file'[k.start + n] = Line(k.rec)[n],
           \A b \in Appenders \ {a} :
               proc[b].pc \in Holding => owner' = b /\ file' = file
    PROVE  LedgerInv'
  <1>1. TypeOK'
    BY DEF LedgerInv, TypeOK
  <1>2. \A b \in Appenders : proc'[b] = IF b = a THEN k ELSE proc[b]
    BY DEF LedgerInv, TypeOK
  <1>3. Unwritten' /\ Numbered'
    BY <1>2 DEF LedgerInv, Unwritten, Numbered
  <1>4. OnlyOwnLine'
    <2> SUFFICES ASSUME NEW b \in Appenders, proc'[b].pc \in Holding
                 PROVE  /\ owner' = b
                        /\ proc'[b].pc # "leaving" =>
                              /\ Len(file') = proc'[b].start + proc'[b].written
                              /\ \A n \in 1..proc'[b].written :
                                    file'[proc'[b].start + n] = Line(proc'[b].rec)[n]
      BY DEF OnlyOwnLine
    <2>1. CASE b = a
      BY <1>2, <2>1
    <2>2. CASE b # a
      BY <1>2, <2>2 DEF LedgerInv, OnlyOwnLine
    <2> QED
      BY <2>1, <2>2
  <1> QED
    BY <1>1, <1>3, <1>4 DEF LedgerInv

(* Nobody else is past the lock while a is.                                  *)
LEMMA Alone ==
    ASSUME LedgerInv, NEW a \in Appenders, proc[a].pc \in Holding
    PROVE  owner = a /\ \A b \in Appenders \ {a} : proc[b].pc \notin Holding
  BY DEF LedgerInv, OnlyOwnLine

LEMMA StepInv ==
    ASSUME LedgerInv, NEW a \in Appenders, Step(a)
    PROVE  LedgerInv'
  <1> DEFINE p == proc[a]
  <1>1. /\ proc \in [Appenders -> Proc] /\ p \in Proc
        /\ file \in Seq(Chunk) /\ owner \in Appenders \cup {NoOne}
        /\ started \in 0..MaxAppends /\ faults \in 0..MaxFaults
        /\ acked \subseteq 1..MaxAppends /\ MaxAppends \in Nat /\ MaxFaults \in Nat
    BY BoundAssumption DEF LedgerInv, TypeOK
  <1>2. /\ p.pc \in {"idle", "locking", "reading"} => p.written = 0
        /\ p.pc # "idle" => p.rec.id \in 1..MaxAppends
        /\ p.pc \in Holding => owner = a
        /\ p.pc \in Holding \ {"leaving"} =>
              /\ Len(file) = p.start + p.written
              /\ \A n \in 1..p.written : file[p.start + n] = Line(p.rec)[n]
        /\ \A b \in Appenders \ {a} : proc[b].pc \in Holding => owner = b
    BY DEF LedgerInv, Unwritten, Numbered, OnlyOwnLine, Holding
  <1>3. /\ p.pc # "idle" => p.rec \in Record
        /\ p.rec.id \in 0..MaxAppends /\ p.rec.prev \in 0..MaxAppends
        /\ p.written \in 0..3 /\ p.start \in Nat /\ Len(file) \in Nat
    BY <1>1, <1>2 DEF Proc, Record
  <1>4. Fault => faults' \in 0..MaxFaults
    BY <1>1 DEF Fault
  <1>5. CASE Begin(a)
    <2> DEFINE k == Begun(started + 1)
    <2>1. started + 1 \in 1..MaxAppends
      BY <1>1, <1>5 DEF Begin
    <2>2. k \in Proc /\ k.pc = "locking" /\ k.written = 0 /\ k.rec.id \in 1..MaxAppends
      BY <2>1, BegunProc
    <2>3. proc' = [proc EXCEPT ![a] = k] /\ started' \in 0..MaxAppends
      BY <1>1, <1>5, <2>1 DEF Begin
    <2> HIDE DEF k
    <2>4. k.pc \notin Holding
      BY <2>2 DEF Holding
    <2> QED
      BY <1>1, <1>2, <1>5, <2>2, <2>3, <2>4, StepOf DEF Begin
  <1>6. CASE Lock(a)
    <2> DEFINE k == [p EXCEPT !.pc = IF Chained THEN "reading" ELSE "writing",
                              !.start = Len(file)]
    <2>1. /\ k \in Proc /\ k.pc \in {"reading", "writing"} /\ k.written = 0
          /\ k.start = Len(file) /\ k.rec = p.rec /\ k.rec.id \in 1..MaxAppends
      BY <1>1, <1>2, <1>3, <1>6 DEF Lock, Proc
    <2>2. proc' = [proc EXCEPT ![a] = k]
      BY <1>1, <1>6 DEF Lock
    <2>3. \A b \in Appenders \ {a} : proc[b].pc \notin Holding
      BY <1>2, <1>6, OwnerAssumption DEF Lock
    <2>4. Len(file) = k.start + k.written /\ \A n \in 1..k.written : FALSE
      BY <1>3, <2>1
    <2>5. owner' = a /\ UNCHANGED <<file, started, faults, acked>>
      BY <1>6 DEF Lock
    <2> HIDE DEF k
    <2> QED
      BY <1>1, <2>1, <2>2, <2>3, <2>4, <2>5, StepOf
  <1>7. CASE GiveUp(a)
    BY <1>1, <1>2, <1>7, IdleProc, StepOf DEF GiveUp, Holding
  <1>8. CASE ReadLast(a)
    <2>1. PICK x \in 0..MaxAppends :
             proc' = [proc EXCEPT ![a].pc = "writing",
                                  ![a].rec = [id |-> proc[a].rec.id, prev |-> x]]
      BY <1>8 DEF ReadLast
    <2> DEFINE k == [p EXCEPT !.pc = "writing", !.rec = [id |-> p.rec.id, prev |-> x]]
    <2>2. /\ k \in Proc /\ k.written = 0 /\ k.start = p.start /\ k.pc = "writing"
          /\ k.rec.id \in 1..MaxAppends
      BY <1>1, <1>2, <1>3, <1>8 DEF ReadLast, Proc
    <2>3. proc' = [proc EXCEPT ![a] = k]
      BY <1>1, <2>1
    <2>4. /\ owner = a /\ p.written = 0 /\ Len(file) = k.start + k.written
          /\ \A n \in 1..k.written : FALSE
      BY <1>2, <1>3, <1>8, <2>2 DEF ReadLast, Holding
    <2>5. UNCHANGED <<file, owner, started, faults, acked>>
      BY <1>8 DEF ReadLast
    <2> HIDE DEF k
    <2> QED
      BY <1>1, <1>2, <2>2, <2>3, <2>4, <2>5, StepOf
  <1>9. CASE ReadRaises(a)
    <2> DEFINE k == [p EXCEPT !.pc = "leaving"]
    <2>1. k \in Proc /\ k.pc = "leaving" /\ k.rec.id \in 1..MaxAppends
      BY <1>1, <1>2, <1>9 DEF ReadRaises, Proc
    <2>2. proc' = [proc EXCEPT ![a] = k] /\ owner = a
      BY <1>1, <1>2, <1>9 DEF ReadRaises, Holding
    <2> QED
      BY <1>1, <1>2, <1>9, <2>1, <2>2, StepOf DEF ReadRaises
  <1>10. CASE WriteChunk(a)
    <2> DEFINE k == [p EXCEPT !.written = p.written + 1]
               chunk == Line(p.rec)[p.written + 1]
    <2>1. p.written + 1 \in 1..3 /\ p.pc = "writing" /\ p.start \in Nat /\ p.written \in 0..3
      BY <1>1, <1>10, SMTT(30) DEF WriteChunk, Proc
    <2>2. /\ k \in Proc /\ k.pc = "writing" /\ k.rec = p.rec /\ k.start = p.start
          /\ k.written = p.written + 1 /\ k.rec.id \in 1..MaxAppends
      <3>1. p \in Proc /\ p.written + 1 \in 0..3
        BY <1>1, <2>1
      <3>2. p.rec.id \in 1..MaxAppends
        BY <1>2, <2>1
      <3> HIDE DEF p
      <3> QED
        BY <2>1, <3>1, <3>2, WrittenProc
    <2>3. /\ Len(file) = p.start + p.written
           /\ \A n \in 1..p.written : file[p.start + n] = Line(p.rec)[n]
      BY <1>2, <2>1 DEF Holding
    <2>4. proc' = [proc EXCEPT ![a] = k] /\ file' = Append(file, chunk)
      BY <1>1, <1>10 DEF WriteChunk
    <2>5. chunk \in Chunk
      BY <1>3, <2>1, LineType
    <2>6. file' \in Seq(Chunk)
      BY <1>1, <2>4, <2>5
    <2>7. Len(file') = k.start + k.written
      <3>1. Len(file') = Len(file) + 1
        BY <1>1, <2>4
      <3> HIDE DEF k
      <3> QED
        BY <2>1, <2>2, <2>3, <3>1
    <2>8. ASSUME NEW n \in 1..k.written
          PROVE  file'[k.start + n] = Line(k.rec)[n]
      <3>1. CASE n \in 1..p.written
        <4>1. file[p.start + n] = Line(p.rec)[n] /\ p.start + n \in 1..Len(file)
          BY <2>1, <2>3, <3>1
        <4>2. file'[p.start + n] = file[p.start + n]
          BY <1>1, <2>4, <4>1
        <4> QED
          BY <2>2, <4>1, <4>2
      <3>2. CASE n = p.written + 1
        <4>1. p.start + n = Len(file) + 1
          BY <2>1, <2>3, <3>2
        <4>2. file'[Len(file) + 1] = chunk
          BY <1>1, <2>4
        <4> QED
          BY <2>2, <3>2, <4>1, <4>2
      <3> QED
        BY <2>1, <2>2, <3>1, <3>2
    <2>9. owner = a /\ \A b \in Appenders \ {a} : proc[b].pc \notin Holding
      BY <2>1, Alone DEF Holding
    <2> HIDE DEF k, chunk
    <2> QED
      BY <1>1, <1>10, <2>2, <2>4, <2>6, <2>7, <2>8, <2>9, StepOf DEF WriteChunk
  <1>11. CASE Sync(a)
    <2> DEFINE k == [p EXCEPT !.pc = "leaving"]
    <2>1. k \in Proc /\ k.pc = "leaving" /\ k.rec.id \in 1..MaxAppends
      BY <1>1, <1>2, <1>11 DEF Sync, Proc
    <2>2. proc' = [proc EXCEPT ![a] = k] /\ owner = a /\ acked' \subseteq 1..MaxAppends
      BY <1>1, <1>2, <1>11 DEF Sync, Holding
    <2> QED
      BY <1>1, <1>2, <1>11, <2>1, <2>2, StepOf DEF Sync
  <1>12. ASSUME SyncFails(a) \/ RollBack(a)
         PROVE  LedgerInv'
    <2> DEFINE k == [p EXCEPT !.pc = "leaving"]
    <2>1. p.pc \in {"writing", "rollback"} /\ file' = SubSeq(file, 1, p.start)
      BY <1>12 DEF SyncFails, RollBack
    <2>2. k \in Proc /\ k.pc = "leaving" /\ k.rec.id \in 1..MaxAppends
      BY <1>1, <1>2, <2>1 DEF Proc
    <2>3. proc' = [proc EXCEPT ![a] = k]
      BY <1>1, <1>12 DEF SyncFails, RollBack
    <2>4. owner = a /\ \A b \in Appenders \ {a} : proc[b].pc \notin Holding
      BY <2>1, Alone DEF Holding
    <2>5. p.start \in Nat /\ p.start <= Len(file)
      BY <1>1, <1>2, <2>1 DEF Holding, Proc
    <2>6. file' \in Seq(Chunk)
      BY <1>1, <2>1, <2>5, CutType
    <2>7. UNCHANGED <<owner, started, acked>> /\ faults' \in 0..MaxFaults
      BY <1>1, <1>4, <1>12 DEF SyncFails, RollBack
    <2> HIDE DEF k
    <2> QED
      BY <1>1, <2>2, <2>3, <2>4, <2>6, <2>7, StepOf
  <1>13. CASE WriteFails(a)
    <2> DEFINE k == [p EXCEPT !.pc = "rollback"]
    <2>1. /\ k \in Proc /\ k.pc = "rollback" /\ k.rec = p.rec /\ k.start = p.start
          /\ k.written = p.written /\ k.rec.id \in 1..MaxAppends
      BY <1>1, <1>2, <1>13 DEF WriteFails, Proc
    <2>2. proc' = [proc EXCEPT ![a] = k] /\ faults' \in 0..MaxFaults
      BY <1>1, <1>4, <1>13 DEF WriteFails
    <2>3. /\ owner = a /\ Len(file) = k.start + k.written
          /\ \A n \in 1..k.written : file[k.start + n] = Line(k.rec)[n]
      BY <1>2, <1>13, <2>1 DEF WriteFails, Holding
    <2>4. \A b \in Appenders \ {a} : proc[b].pc \notin Holding
      BY <1>13, Alone DEF WriteFails, Holding
    <2>5. UNCHANGED <<file, owner, started, acked>>
      BY <1>13 DEF WriteFails
    <2> HIDE DEF k
    <2> QED
      BY <1>1, <2>1, <2>2, <2>3, <2>4, <2>5, StepOf
  <1>14. CASE RollBackFails(a)
    <2> DEFINE k == [p EXCEPT !.pc = "leaving"]
    <2>1. k \in Proc /\ k.pc = "leaving" /\ k.rec.id \in 1..MaxAppends
      BY <1>1, <1>2, <1>14 DEF RollBackFails, Proc
    <2>2. proc' = [proc EXCEPT ![a] = k]
      BY <1>1, <1>14 DEF RollBackFails
    <2>3. owner = a /\ \A b \in Appenders \ {a} : proc[b].pc \notin Holding
      BY <1>14, Alone DEF RollBackFails, Holding
    <2>4. p.written \in 0..3 /\ p.rec \in Record
      BY <1>1, <1>3, <1>14 DEF RollBackFails, Proc
    <2>5. SubSeq(Line(p.rec), p.written + 1, 3) \in Seq(Chunk)
      BY <2>4, RestType
    <2>6. file' \in Seq(Chunk)
      <3>1. CASE UNCHANGED file
        BY <1>1, <3>1
      <3>2. CASE file' = file \o SubSeq(Line(p.rec), p.written + 1, 3)
        <4> DEFINE rest == SubSeq(Line(p.rec), p.written + 1, 3)
        <4>1. rest \in Seq(Chunk)
          BY <2>5
        <4> HIDE DEF rest
        <4>2. file \o rest \in Seq(Chunk)
          BY <1>1, <4>1
        <4> QED
          BY <3>2, <4>2 DEF rest
      <3> QED
        BY <1>14, <3>1, <3>2 DEF RollBackFails
    <2> HIDE DEF k
    <2> QED
      BY <1>1, <1>14, <2>1, <2>2, <2>3, <2>6, StepOf DEF RollBackFails
  <1>15. CASE Unlock(a)
    <2>1. \A b \in Appenders \ {a} : proc[b].pc \notin Holding
      BY <1>15, Alone DEF Unlock, Holding
    <2> QED
      BY <1>1, <1>15, <2>1, IdleProc, StepOf DEF Unlock, Holding
  <1>16. CASE Die(a)
    <2>1. \A b \in Appenders \ {a} : proc[b].pc \in Holding => owner' = b
      BY <1>2, <1>16 DEF Die
    <2>2. owner' \in Appenders \cup {NoOne} /\ faults' \in 0..MaxFaults
      BY <1>1, <1>4, <1>16 DEF Die
    <2> QED
      BY <1>1, <1>16, <2>1, <2>2, IdleProc, StepOf DEF Die, Holding
  <1> QED
    BY <1>5, <1>6, <1>7, <1>8, <1>9, <1>10, <1>11, <1>12, <1>13, <1>14, <1>15, <1>16 DEF Step

(* The first invariant holds for any tears.                                  *)
LEMMA LedgerInvariant == Spec => []LedgerInv
  <1>1. LedgerInv /\ UNCHANGED vars => LedgerInv'
    BY DEF LedgerInv, TypeOK, Unwritten, Numbered, OnlyOwnLine, vars
  <1>2. LedgerInv /\ [Next]_vars => LedgerInv'
    BY <1>1, StepInv DEF Next
  <1> QED
    BY InitInv, <1>2, PTL DEF Spec

(* The ledger's types, whatever fails and whoever dies.                      *)
THEOREM LedgerTypes == Spec => []TypeOK
  BY LedgerInvariant, PTL DEF LedgerInv

(* Writers exclude each other from lock to unlock and only a writer's own   *)
(* line lies behind the point its rollback would cut at (io_contract.py:104)*)
THEOREM RollbackIsOwn == Spec => []OnlyOwnLine
  BY LedgerInvariant, PTL DEF LedgerInv

----------------------------------------------------------------------------
(* The log that is read.  In a ledger whose lines were written to their end *)
(* the k-th record starts at chunk 3k - 2: all chunks but those of the last *)
(* line are whole, and two of three chunks are enough to read that one.     *)
WholeLines(f) ==
    \A i \in DOMAIN f :
        /\ f[i].part = ((i - 1) % 3) + 1
        /\ i > 1 /\ f[i].part # 1 => f[i].rec = f[i - 1].rec

Found(f) == (Len(f) + 1) \div 3
Kth(s, k) == CHOOSE i \in s : Cardinality({j \in s : j <= i}) = k
HeadsUpTo(m) == {3 * k - 2 : k \in 1..m}

(* One line in three chunks: m lines have m heads.                           *)
LEMMA HeadsCounted ==
    ASSUME NEW m \in Nat
    PROVE  IsFiniteSet(HeadsUpTo(m)) /\ Cardinality(HeadsUpTo(m)) = m
  <1>1. PICK h : h = [k \in 1..m |-> 3 * k - 2]
    OBVIOUS
  <1>2. h \in Injection(1..m, HeadsUpTo(m))
    <2>1. h \in [1..m -> HeadsUpTo(m)]
      BY <1>1 DEF HeadsUpTo
    <2>2. \A a, b \in 1..m : h[a] = h[b] => a = b
      BY <1>1
    <2> QED  BY <2>1, <2>2 DEF Injection, IsInjective
  <1>3. h \in Surjection(1..m, HeadsUpTo(m))
    <2>1. h \in [1..m -> HeadsUpTo(m)]
      BY <1>1 DEF HeadsUpTo
    <2>2. \A x \in HeadsUpTo(m) : \E k \in 1..m : h[k] = x
      BY <1>1 DEF HeadsUpTo
    <2> QED  BY <2>1, <2>2 DEF Surjection
  <1>4. ExistsBijection(1..m, HeadsUpTo(m))
    BY <1>2, <1>3 DEF ExistsBijection, Bijection
  <1>5. IsFiniteSet(1..m) /\ Cardinality(1..m) = m
    BY FS_Interval
  <1> QED  BY <1>4, <1>5, FS_Bijection

(* In a file of whole lines each head but an unfinished one can be read.     *)
LEMMA HeadsOfWhole ==
    ASSUME NEW f \in Seq(Chunk), WholeLines(f), NEW i \in DOMAIN f
    PROVE  ReadableAt(f, i) <=> (i - 1) % 3 = 0 /\ i < Len(f)
  <1>1. DOMAIN f = 1..Len(f) /\ Len(f) \in Nat /\ i \in Nat /\ i >= 1
    OBVIOUS
  <1>2. \A j \in DOMAIN f : f[j].part = ((j - 1) % 3) + 1 /\ (j > 1 /\ f[j].part # 1 => f[j].rec = f[j - 1].rec)
    BY DEF WholeLines
  <1>3. ReadableAt(f, i) => (i - 1) % 3 = 0 /\ i < Len(f)
    BY <1>1, <1>2 DEF ReadableAt
  <1>4. ASSUME (i - 1) % 3 = 0, i < Len(f) PROVE ReadableAt(f, i)
    <2>1. f[i].part = 1
      BY <1>2, <1>4
    <2>2. i > 1 => f[i - 1].part = 3
      <3>1. i > 1 => ((i - 1) - 1) % 3 = 2 /\ i - 1 \in DOMAIN f
        BY <1>1, <1>4
      <3>2. i > 1 => f[i - 1].part = (((i - 1) - 1) % 3) + 1
        BY <1>2, <3>1
      <3> QED  BY <3>1, <3>2
    <2>3. f[i + 1] = [rec |-> f[i].rec, part |-> 2]
      <3>1. PICK n \in DOMAIN f : n = i + 1
        BY <1>1, <1>4
      <3>2. n - 1 = i /\ n > 1 /\ (n - 1) % 3 = 1
        BY <1>1, <1>4, <3>1
      <3>3. f[n].part = ((n - 1) % 3) + 1 /\ (f[n].part # 1 => f[n].rec = f[n - 1].rec)
        BY <1>2, <3>2
      <3>4. f[n].part = 2 /\ f[n].part # 1
        BY <3>2, <3>3
      <3>5. f[n].rec = f[i].rec
        BY <3>2, <3>3, <3>4
      <3>6. f[n] \in Chunk
        OBVIOUS
      <3>7. f[n] = [rec |-> f[i].rec, part |-> 2]
        BY <3>4, <3>5, <3>6 DEF Chunk
      <3> QED  BY <3>1, <3>7
    <2>4. ASSUME i + 1 < Len(f) PROVE f[i + 2].part = 3
      <3>1. i + 2 \in DOMAIN f /\ ((i + 2) - 1) % 3 = 2
        BY <1>1, <1>4, <2>4
      <3>2. f[i + 2].part = (((i + 2) - 1) % 3) + 1
        BY <1>2, <3>1
      <3> QED  BY <3>1, <3>2
    <2> QED  BY <1>4, <2>1, <2>2, <2>3, <2>4 DEF ReadableAt, LineStarts
  <1> QED  BY <1>3, <1>4

(* What a reader finds: every third chunk's record.                         *)
LEMMA ReadableIs ==
    ASSUME NEW f \in Seq(Chunk), WholeLines(f)
    PROVE  /\ Found(f) \in Nat /\ \A k \in 1..Found(f) : 3 * k - 2 \in DOMAIN f
           /\ Readable(f) = [k \in 1..Found(f) |-> f[3 * k - 2].rec]
  <1>1. DOMAIN f = 1..Len(f) /\ Len(f) \in Nat
    OBVIOUS
  <1>2. PICK n \in Nat : n = Len(f)
    BY <1>1
  <1>3. PICK m \in Nat : m = Found(f) /\ 3 * m <= n + 1 /\ n + 1 < 3 * m + 3
    <2>1. (n + 1) \div 3 \in Nat /\ 3 * ((n + 1) \div 3) <= n + 1 /\ n + 1 < 3 * ((n + 1) \div 3) + 3
      OBVIOUS
    <2> QED  BY <1>2, <2>1 DEF Found
  <1>4. \A k \in 1..m : 3 * k - 2 \in 1..n
    BY <1>3
  <1>5. {i \in DOMAIN f : ReadableAt(f, i)} = HeadsUpTo(m)
    <2>1. ASSUME NEW i \in DOMAIN f, ReadableAt(f, i) PROVE i \in HeadsUpTo(m)
      <3>1. (i - 1) % 3 = 0 /\ i < n /\ i \in Nat /\ i >= 1
        BY <1>1, <1>2, <2>1, HeadsOfWhole
      <3>2. PICK k \in Nat \ {0} : i = 3 * k - 2
        <4>1. PICK x \in Nat : x = i - 1
          BY <3>1
        <4>2. x = 3 * (x \div 3) + (x % 3) /\ x \div 3 \in Nat
          BY <4>1
        <4>3. x % 3 = 0
          BY <3>1, <4>1
        <4>4. PICK q \in Nat : q = x \div 3
          BY <4>2
        <4>5. x = 3 * q
          BY <4>1, <4>2, <4>3, <4>4
        <4>6. i = x + 1 /\ i \in Nat
          BY <3>1, <4>1
        <4>7. i = 3 * (q + 1) - 2 /\ q + 1 \in Nat \ {0}
          BY <4>5, <4>6
        <4> QED  BY <4>7
      <3>3. k \in 1..m
        BY <1>3, <3>1, <3>2
      <3> QED  BY <3>2, <3>3 DEF HeadsUpTo
    <2>2. ASSUME NEW k \in 1..m PROVE 3 * k - 2 \in DOMAIN f /\ ReadableAt(f, 3 * k - 2)
      <3>1. 3 * k - 2 \in DOMAIN f /\ 3 * k - 2 < n
        BY <1>1, <1>2, <1>3, <1>4, <2>2
      <3>2. ((3 * k - 2) - 1) % 3 = 0
        BY <2>2
      <3> QED  BY <1>2, <3>1, <3>2, HeadsOfWhole
    <2> QED  BY <2>1, <2>2 DEF HeadsUpTo
  <1>6. Cardinality(HeadsUpTo(m)) = m
    BY HeadsCounted
  <1>7. ASSUME NEW k \in 1..m
        PROVE  Kth(HeadsUpTo(m), k) = 3 * k - 2
    <2>1. ASSUME NEW q \in 1..m PROVE Cardinality({j \in HeadsUpTo(m) : j <= 3 * q - 2}) = q
      <3>1. {j \in HeadsUpTo(m) : j <= 3 * q - 2} = HeadsUpTo(q)
        <4>1. ASSUME NEW p \in 1..m, 3 * p - 2 <= 3 * q - 2 PROVE p \in 1..q
          BY <4>1
        <4>2. ASSUME NEW p \in 1..q PROVE p \in 1..m /\ 3 * p - 2 <= 3 * q - 2
          OBVIOUS
        <4> QED  BY <4>1, <4>2 DEF HeadsUpTo
      <3>2. q \in Nat
        OBVIOUS
      <3> QED  BY <3>1, <3>2, HeadsCounted
    <2>2. 3 * k - 2 \in HeadsUpTo(m)
      BY DEF HeadsUpTo
    <2>3. \A i \in HeadsUpTo(m) : Cardinality({j \in HeadsUpTo(m) : j <= i}) = k => i = 3 * k - 2
      BY <2>1 DEF HeadsUpTo
    <2>4. PICK c : c = Kth(HeadsUpTo(m), k)
      OBVIOUS
    <2>5. c \in HeadsUpTo(m) /\ Cardinality({j \in HeadsUpTo(m) : j <= c}) = k
      BY <2>1, <2>2, <2>4 DEF Kth
    <2>6. c = 3 * k - 2
      BY <2>3, <2>5
    <2> QED  BY <2>4, <2>6
  <1>8. Readable(f) = [k \in 1..m |-> f[Kth(HeadsUpTo(m), k)].rec]
    <2>1. PICK heads : heads = {i \in DOMAIN f : ReadableAt(f, i)}
      OBVIOUS
    <2>2. Readable(f) = [k \in 1..Cardinality(heads) |-> f[Kth(heads, k)].rec]
      BY <2>1 DEF Readable, Kth
    <2> QED  BY <1>5, <1>6, <2>1, <2>2
  <1>9. Readable(f) = [k \in 1..m |-> f[3 * k - 2].rec]
    BY <1>7, <1>8
  <1> QED  BY <1>1, <1>2, <1>3, <1>4, <1>9


(* What is added behind the lines of a ledger shows up behind its records.  *)
LEMMA ReadableGrows ==
    ASSUME NEW f \in Seq(Chunk), NEW g \in Seq(Chunk), WholeLines(f), WholeLines(g),
           Len(f) <= Len(g), \A i \in DOMAIN f : g[i] = f[i]
    PROVE  /\ Found(g) = Found(f) => Readable(g) = Readable(f)
           /\ Found(g) = Found(f) + 1 =>
                 /\ Readable(g) = Append(Readable(f), g[3 * Found(g) - 2].rec)
                 /\ Readable(g) # <<>> /\ Readable(f) = SubSeq(Readable(g), 1, Len(Readable(g)) - 1)
                 /\ Len(Readable(g)) = Found(g) /\ Found(g) \in DOMAIN Readable(g)
                 /\ Readable(g)[Found(g)] = g[3 * Found(g) - 2].rec
  <1>1. PICK n \in Nat : n = Found(f)
    BY ReadableIs
  <1>2. PICK rf : rf = Readable(f) /\ rf = [k \in 1..n |-> f[3 * k - 2].rec]
    BY <1>1, ReadableIs
  <1>3. PICK m \in Nat : m = Found(g)
    BY ReadableIs
  <1>4. PICK rg : rg = Readable(g) /\ rg = [k \in 1..m |-> g[3 * k - 2].rec]
    BY <1>3, ReadableIs
  <1>5. \A k \in 1..n : 3 * k - 2 \in DOMAIN f /\ g[3 * k - 2] = f[3 * k - 2]
    BY <1>1, ReadableIs
  <1>6. m = n => rg = rf
    BY <1>2, <1>4, <1>5
  <1>7. ASSUME m = n + 1
        PROVE  /\ rg = Append(rf, g[3 * m - 2].rec)
               /\ rg # <<>> /\ rf = SubSeq(rg, 1, Len(rg) - 1)
               /\ Len(rg) = m /\ m \in DOMAIN rg /\ rg[m] = g[3 * m - 2].rec
    <2>1. \A k \in 1..m : 3 * k - 2 \in DOMAIN g /\ g[3 * k - 2] \in Chunk
      BY <1>3, ReadableIs
    <2>2. rg \in Seq(Record) /\ Len(rg) = m /\ \A k \in 1..m : rg[k] = g[3 * k - 2].rec
      <3>1. \A k \in 1..m : g[3 * k - 2].rec \in Record
        BY <2>1 DEF Chunk
      <3>2. rg \in [1..m -> Record]
        BY <1>4, <3>1
      <3> QED  BY <1>4, <3>2
    <2>3. rf \in Seq(Record) /\ Len(rf) = n /\ \A k \in 1..n : rf[k] = rg[k]
      <3>1. \A k \in 1..n : rf[k] = rg[k] /\ rg[k] \in Record
        BY <1>2, <1>5, <1>7, <2>2
      <3>2. rf \in [1..n -> Record]
        BY <1>2, <3>1
      <3> QED  BY <1>2, <3>1, <3>2
    <2>4. rg[m] = g[3 * m - 2].rec /\ rg[m] \in Record /\ m \in 1..m
      BY <1>7, <2>2
    <2>5. rg = Append(rf, rg[m])
      BY <1>7, <2>2, <2>3, <2>4
    <2>6. rf = SubSeq(rg, 1, Len(rg) - 1)
      BY <1>7, <2>2, <2>3
    <2> QED  BY <1>7, <2>2, <2>4, <2>5, <2>6
  <1> QED  BY <1>1, <1>2, <1>3, <1>4, <1>6, <1>7

(* What whole lines are at one place.                                        *)
LEMMA WholeAt ==
    ASSUME NEW f, WholeLines(f), NEW i \in DOMAIN f
    PROVE  /\ f[i].part = ((i - 1) % 3) + 1
           /\ i > 1 /\ f[i].part # 1 => f[i].rec = f[i - 1].rec
  BY DEF WholeLines

(* A ledger whose last line is whole ends with the last record found.       *)
LEMMA LastFound ==
    ASSUME NEW f \in Seq(Chunk), WholeLines(f), NEW m \in Nat, Len(f) = 3 * m
    PROVE  /\ Found(f) = m /\ Len(Readable(f)) = m
           /\ (Readable(f) = <<>>) <=> (m = 0)
           /\ m > 0 => Readable(f)[m] = f[Len(f)].rec /\ f[Len(f)].rec = f[3 * m - 2].rec
  <1>1. Found(f) = m
    BY DEF Found
  <1>2. PICK rf : rf = Readable(f) /\ rf = [k \in 1..m |-> f[3 * k - 2].rec]
    BY <1>1, ReadableIs
  <1>3. Len(rf) = m /\ (rf = <<>> <=> m = 0)
    <2>1. rf \in [1..m -> Record]
      <3>1. \A k \in 1..m : f[3 * k - 2] \in Chunk
        BY <1>1, ReadableIs
      <3> QED  BY <1>2, <3>1 DEF Chunk
    <2> QED  BY <2>1
  <1>4. ASSUME m > 0 PROVE rf[m] = f[Len(f)].rec /\ f[Len(f)].rec = f[3 * m - 2].rec
    <2>1. PICK x \in DOMAIN f, y \in DOMAIN f, z \in DOMAIN f :
             x = 3 * m - 2 /\ y = 3 * m - 1 /\ z = 3 * m
      BY <1>4
    <2>2. /\ x \in Nat /\ y \in Nat /\ z \in Nat /\ y - 1 = x /\ z - 1 = y /\ y > 1 /\ z > 1
          /\ x % 3 = 1 /\ y % 3 = 2
      BY <1>4, <2>1
    <2>3. /\ f[z].part = ((z - 1) % 3) + 1
          /\ z > 1 /\ f[z].part # 1 => f[z].rec = f[z - 1].rec
      BY WholeAt
    <2>4. /\ f[y].part = ((y - 1) % 3) + 1
          /\ y > 1 /\ f[y].part # 1 => f[y].rec = f[y - 1].rec
      BY WholeAt
    <2>5. (z - 1) % 3 = 2 /\ (y - 1) % 3 = 1
      BY <2>2
    <2>6. f[z].part = 3 /\ f[y].part = 2
      BY <2>3, <2>4, <2>5
    <2>7. f[z - 1] = f[y] /\ f[y - 1] = f[x]
      BY <2>2
    <2>8. f[z].rec = f[z - 1].rec
      BY <2>2, <2>3, <2>6
    <2>9. f[y].rec = f[y - 1].rec
      BY <2>2, <2>4, <2>6
    <2>10. f[z].rec = f[y].rec /\ f[y].rec = f[x].rec
      BY <2>7, <2>8, <2>9
    <2>11. f[z].rec = f[3 * m - 2].rec
      BY <2>1, <2>10
    <2> QED  BY <1>2, <1>4, <2>1, <2>11
  <1> QED  BY <1>1, <1>2, <1>3, <1>4

(* The line its own append leaves, to its end or not, behind whole lines.   *)
WholeUpTo(f, s) ==
    \A i \in 1..s : /\ f[i].part = ((i - 1) % 3) + 1
                    /\ i > 1 /\ f[i].part # 1 => f[i].rec = f[i - 1].rec

OwnChunks(f, s, w, rec) == \A n \in 1..w : f[s + n] = Line(rec)[n]

(* The chunks past the start of a line are those written of it.              *)
LEMMA Beyond ==
    ASSUME NEW s \in Nat, NEW w \in 0..3, NEW i \in 1..(s + w), i \notin 1..s
    PROVE  \E n \in 1..w : i = s + n
  <1>1. i - s \in 1..w /\ i = s + (i - s)
    OBVIOUS
  <1> QED  BY <1>1

(* Whole lines up to a start and chunks of one record after it are whole     *)
(* lines.                                                                    *)
LEMMA LineIsWhole ==
    ASSUME NEW f \in Seq(Chunk), NEW s \in Nat, s % 3 = 0, NEW w \in 0..3, NEW rec \in Record,
           Len(f) = s + w, WholeUpTo(f, s), OwnChunks(f, s, w, rec)
    PROVE  WholeLines(f)
  <1> SUFFICES ASSUME NEW i \in 1..(s + w)
               PROVE  /\ f[i].part = ((i - 1) % 3) + 1
                      /\ i > 1 /\ f[i].part # 1 => f[i].rec = f[i - 1].rec
    <2>1. DOMAIN f = 1..(s + w)
      OBVIOUS
    <2> QED  BY <2>1 DEF WholeLines
  <1>1. CASE i \in 1..s
    BY <1>1 DEF WholeUpTo
  <1>2. CASE i \notin 1..s
    <2>1. PICK n \in 1..w : i = s + n
      BY <1>2, Beyond
    <2>2. n \in 1..3
      OBVIOUS
    <2>3. f[i] = [rec |-> rec, part |-> n]
      BY <2>1, <2>2 DEF OwnChunks, Line
    <2>4. (i - 1) % 3 = n - 1
      BY <2>1, <2>2
    <2>5. ASSUME n # 1 PROVE f[i - 1].rec = rec
      <3>1. PICK o \in 1..w : o = n - 1 /\ i - 1 = s + o
        BY <2>1, <2>5
      <3>2. f[s + o] = Line(rec)[o] /\ o \in 1..3
        BY DEF OwnChunks
      <3>3. f[s + o].rec = rec
        BY <3>2 DEF Line
      <3> QED  BY <3>1, <3>3
    <2>6. f[i].part = n /\ f[i].rec = rec
      BY <2>3
    <2>7. n = ((i - 1) % 3) + 1
      BY <2>2, <2>4
    <2> QED  BY <2>5, <2>6, <2>7
  <1> QED  BY <1>1, <1>2

(* A prefix of whole lines is one.                                           *)
LEMMA CutIsWhole ==
    ASSUME NEW f \in Seq(Chunk), WholeLines(f), NEW n \in Nat, n <= Len(f)
    PROVE  /\ SubSeq(f, 1, n) \in Seq(Chunk) /\ Len(SubSeq(f, 1, n)) = n
           /\ \A i \in 1..n : SubSeq(f, 1, n)[i] = f[i]
           /\ WholeLines(SubSeq(f, 1, n))
  <1>1. SubSeq(f, 1, n) \in Seq(Chunk)
    BY CutType
  <1>2. PICK g \in Seq(Chunk) : g = SubSeq(f, 1, n)
    BY <1>1
  <1>3. Len(g) = n /\ \A i \in 1..n : g[i] = f[i]
    BY <1>2
  <1>4. WholeLines(g)
    <2> SUFFICES ASSUME NEW i \in 1..n
                 PROVE  /\ g[i].part = ((i - 1) % 3) + 1
                        /\ i > 1 /\ g[i].part # 1 => g[i].rec = g[i - 1].rec
      BY <1>3 DEF WholeLines
    <2>1. i \in DOMAIN f /\ (i > 1 => i - 1 \in 1..n)
      OBVIOUS
    <2> QED  BY <1>3, <2>1 DEF WholeLines
  <1> QED  BY <1>2, <1>3, <1>4

(* Where the last line of a ledger starts that ends with a whole one.       *)
LEMMA LastLineIs ==
    ASSUME NEW f \in Seq(Chunk), WholeLines(f), f # <<>>, NEW p \in 0..MaxAppends,
           Len(f) % 3 # 2, read_last_locked_record(f, p)
    PROVE  Len(f) % 3 = 0 /\ p = f[Len(f)].rec.id
  <1>1. PICK n \in Nat : n = Len(f) /\ n > 0 /\ DOMAIN f = 1..n
    OBVIOUS
  <1>2. \A j \in 1..n : LineStarts(f, j) <=> (j - 1) % 3 = 0
    <2> SUFFICES ASSUME NEW j \in 1..n PROVE LineStarts(f, j) <=> (j - 1) % 3 = 0
      OBVIOUS
    <2>1. CASE j = 1
      BY <2>1 DEF LineStarts
    <2>2. CASE j > 1
      <3>1. PICK i \in 1..n : i = j - 1
        BY <2>2
      <3>2. f[i].part = ((i - 1) % 3) + 1
        BY <1>1 DEF WholeLines
      <3>3. ((i - 1) % 3) + 1 = 3 <=> i % 3 = 0
        OBVIOUS
      <3> QED  BY <2>2, <3>1, <3>2, <3>3 DEF LineStarts
    <2> QED  BY <2>1, <2>2
  <1>3. PICK h \in 1..n : (h - 1) % 3 = 0 /\ \A j \in 1..n : (j - 1) % 3 = 0 => j <= h
    <2>1. PICK r \in 0..2 : r = (n - 1) % 3
      BY <1>1
    <2>2. PICK h \in Int : h = n - r
      BY <2>1
    <2>3. h \in 1..n /\ (h - 1) % 3 = 0
      BY <1>1, <2>1, <2>2
    <2>4. \A j \in 1..n : (j - 1) % 3 = 0 => j <= h
      BY <1>1, <2>1, <2>2
    <2> QED  BY <2>3, <2>4
  <1>4. PICK l : l = LastLine(f)
    OBVIOUS
  <1>5. l \in 1..n /\ LineStarts(f, l) /\ \A j \in 1..n : LineStarts(f, j) => j <= l
    BY <1>1, <1>2, <1>3, <1>4 DEF LastLine
  <1>6. l \in 1..n /\ (l - 1) % 3 = 0 /\ \A j \in 1..n : (j - 1) % 3 = 0 => j <= l
    BY <1>2, <1>5
  <1>7. ReadableAt(f, l) /\ p = f[l].rec.id
    BY <1>4 DEF read_last_locked_record
  <1>8. l < n
    BY <1>1, <1>7 DEF ReadableAt
  <1>9. n <= l + 2
    <2>1. ASSUME l + 3 <= n PROVE FALSE
      <3>1. PICK j \in 1..n : j = l + 3
        BY <1>6, <2>1
      <3>2. (j - 1) % 3 = 0
        BY <1>6, <3>1
      <3>3. j <= l /\ l \in Nat
        BY <1>6, <3>2
      <3> QED  BY <3>1, <3>3
    <2> QED  BY <1>1, <1>6, <2>1
  <1>10. n = l + 2 /\ n % 3 = 0
    BY <1>1, <1>6, <1>8, <1>9
  <1>11. PICK m \in Nat : n = 3 * m
    <2>1. PICK q \in Nat : q = n \div 3
      BY <1>1
    <2>2. n = 3 * q
      BY <1>1, <1>10, <2>1
    <2> QED  BY <2>2
  <1>12. m > 0 /\ l = 3 * m - 2
    <2>1. n > 0 /\ n = l + 2 /\ l \in Nat
      BY <1>1, <1>6, <1>10
    <2> QED  BY <1>11, <2>1
  <1>13. f[Len(f)].rec = f[3 * m - 2].rec
    BY <1>1, <1>11, <1>12, LastFound
  <1> QED  BY <1>1, <1>7, <1>10, <1>12, <1>13

----------------------------------------------------------------------------
(* What makes the refinement inductive.  Lines are written to their end,    *)
(* and one of two chunks is still being written.  An append that may yet    *)
(* write has an id that is nowhere but in its own line, and once it has     *)
(* read, it names the last record before that line.                         *)
NotYetOn(id, last) == id \notin acked /\ \A i \in 1..last : file[i].rec.id # id

Waits(p) == p.pc \in {"locking", "reading"} => NotYetOn(p.rec.id, Len(file))

Names(p) ==
    p.pc \in {"writing", "rollback"} =>
        /\ p.start % 3 = 0
        /\ p.start <= Len(file)
        /\ p.rec.prev = IF p.start = 0 THEN 0 ELSE file[p.start].rec.id
        /\ NotYetOn(p.rec.id, p.start)
        /\ p.pc = "rollback" => p.written \in 0..1

Numbers ==
    /\ \A a, b \in Appenders : a # b /\ proc[a].pc # "idle" /\ proc[b].pc # "idle"
                                  => proc[a].rec.id # proc[b].rec.id
    /\ \A a \in Appenders : proc[a].pc # "idle" => proc[a].rec.id <= started
    /\ \A i \in DOMAIN file : file[i].rec.id <= started
    /\ \A id \in acked : id <= started

HalfIsHeld ==
    Len(file) % 3 = 2 => \E a \in Appenders : proc[a].pc = "writing" /\ proc[a].written = 2

ChainInv ==
    /\ WholeLines(file)
    /\ HalfIsHeld
    /\ Numbers
    /\ \A a \in Appenders : Waits(proc[a]) /\ Names(proc[a])

(* The file is empty at the beginning.                                       *)
LEMMA InitChain == Init => ChainInv
  BY BoundAssumption DEF Init, ChainInv, WholeLines, HalfIsHeld, Numbers, Waits, Names, Idle

(* The file gains no id but that of a, nobody else is past the lock, and a  *)
(* line is half written.                                                    *)
GainsOnly(a) ==
    \A i \in DOMAIN file' : \/ file'[i].rec.id = proc[a].rec.id
                            \/ \E j \in DOMAIN file : file'[i].rec.id = file[j].rec.id

HoldsAlone(a) == \A b \in Appenders \ {a} : proc[b].pc \notin Holding

Half(f) == Len(f) % 3 = 2

(* What a step of a leaves of the invariant for the others: the file gains  *)
(* no id but that of a, and is left alone while somebody else writes.       *)
LEMMA ChainStep ==
    ASSUME LedgerInv, LedgerInv', ChainInv, NEW a \in Appenders, NEW k \in Proc,
           proc' = [proc EXCEPT ![a] = k],
           started <= started',
           proc[a].pc # "idle" \/ UNCHANGED <<file, acked>>,
           acked' \subseteq acked \cup {proc[a].rec.id},
           GainsOnly(a), HoldsAlone(a) \/ UNCHANGED file,
           WholeLines(file'),
           \/ ~Half(file') \/ (k.pc = "writing" /\ k.written = 2)
           \/ UNCHANGED file /\ ~(proc[a].pc = "writing" /\ proc[a].written = 2),
           \/ k.pc = "idle"
           \/ proc[a].pc # "idle" /\ k.rec.id = proc[a].rec.id
           \/ k.rec.id = started + 1 /\ started' = started + 1,
           Waits(k)', Names(k)'
    PROVE  ChainInv'
  <1>1. /\ proc \in [Appenders -> Proc] /\ started \in Nat /\ started' \in Nat
        /\ file \in Seq(Chunk) /\ file' \in Seq(Chunk)
        /\ acked \subseteq Nat /\ acked' \subseteq Nat
    BY BoundAssumption DEF LedgerInv, TypeOK
  <1>2. \A b \in Appenders : proc'[b] = IF b = a THEN k ELSE proc[b]
    BY <1>1
  <1>3. /\ \A b \in Appenders : proc[b].rec.id \in Nat
        /\ \A i \in DOMAIN file : file[i].rec.id \in Nat
        /\ \A i \in DOMAIN file' : file'[i].rec.id \in Nat
        /\ k.rec.id \in Nat
    <2>1. \A q \in Proc : q.rec.id \in Nat
      BY BoundAssumption DEF Proc
    <2>2. \A q \in Chunk : q.rec.id \in Nat
      BY BoundAssumption DEF Chunk, Record
    <2> QED  BY <1>1, <2>1, <2>2
  <1>4. /\ \A b, c \in Appenders : b # c /\ proc[b].pc # "idle" /\ proc[c].pc # "idle"
                                      => proc[b].rec.id # proc[c].rec.id
        /\ \A b \in Appenders : proc[b].pc # "idle" => proc[b].rec.id <= started
        /\ \A i \in DOMAIN file : file[i].rec.id <= started
        /\ \A id \in acked : id <= started
    BY DEF ChainInv, Numbers
  <1>5. HalfIsHeld'
    <2> SUFFICES ASSUME Len(file') % 3 = 2
                 PROVE  \E b \in Appenders : proc'[b].pc = "writing" /\ proc'[b].written = 2
      BY DEF HalfIsHeld
    <2>1. Half(file')
      BY DEF Half
    <2>2. CASE k.pc = "writing" /\ k.written = 2
      BY <1>2, <2>2
    <2>3. CASE UNCHANGED file /\ ~(proc[a].pc = "writing" /\ proc[a].written = 2)
      <3>1. PICK b \in Appenders : proc[b].pc = "writing" /\ proc[b].written = 2
        BY <2>3 DEF ChainInv, HalfIsHeld
      <3> QED  BY <1>2, <2>3, <3>1
    <2> QED  BY <2>1, <2>2, <2>3
  <1>6. Numbers'
    <2>1. ASSUME NEW b \in Appenders, NEW c \in Appenders, b # c, proc'[b].pc # "idle", proc'[c].pc # "idle"
          PROVE  proc'[b].rec.id # proc'[c].rec.id
      <3>1. ASSUME NEW d \in Appenders, d # a, proc[d].pc # "idle", k.pc # "idle"
            PROVE  proc[d].rec.id # k.rec.id
        <4>1. CASE proc[a].pc # "idle" /\ k.rec.id = proc[a].rec.id
          BY <1>4, <3>1, <4>1
        <4>2. CASE k.rec.id = started + 1
          BY <1>1, <1>3, <1>4, <3>1, <4>2
        <4> QED  BY <3>1, <4>1, <4>2
      <3>2. CASE b = a
        BY <1>2, <2>1, <3>1, <3>2
      <3>3. CASE c = a
        BY <1>2, <2>1, <3>1, <3>3
      <3>4. CASE b # a /\ c # a
        BY <1>2, <1>4, <2>1, <3>4
      <3> QED  BY <3>2, <3>3, <3>4
    <2>2. ASSUME NEW b \in Appenders, proc'[b].pc # "idle"
          PROVE  proc'[b].rec.id <= started'
      <3>1. CASE b = a
        BY <1>1, <1>2, <1>3, <1>4, <2>2, <3>1
      <3>2. CASE b # a
        <4>1. proc[b].rec.id <= started /\ proc'[b] = proc[b]
          BY <1>2, <1>4, <2>2, <3>2
        <4> QED  BY <1>1, <1>3, <4>1
      <3> QED  BY <3>1, <3>2
    <2>3. proc[a].pc # "idle" => proc[a].rec.id <= started
      BY <1>4
    <2>4. ASSUME NEW i \in DOMAIN file' PROVE file'[i].rec.id <= started'
      <3>1. CASE UNCHANGED file
        <4>1. file[i].rec.id <= started
          BY <1>4, <2>4, <3>1
        <4> QED  BY <1>1, <1>3, <2>4, <3>1, <4>1
      <3>2. CASE proc[a].pc # "idle"
        <4>1. PICK n \in Nat : n = file'[i].rec.id
          BY <1>3
        <4>2. n <= started
          BY <1>4, <2>3, <3>2, <4>1 DEF GainsOnly
        <4> QED  BY <1>1, <4>1, <4>2
      <3> QED  BY <3>1, <3>2
    <2>5. ASSUME NEW id \in acked' PROVE id <= started'
      <3>1. id <= started
        BY <1>4, <2>3, <2>5
      <3>2. id \in Nat
        BY <1>1, <2>5
      <3> QED  BY <1>1, <3>1, <3>2
    <2> QED  BY <2>1, <2>2, <2>4, <2>5 DEF Numbers
  <1>7. ASSUME NEW b \in Appenders PROVE Waits(proc[b])' /\ Names(proc[b])'
    <2>1. CASE b = a
      <3>1. proc'[b] = k
        BY <1>2, <2>1
      <3> QED  BY <3>1 DEF Waits, Names, NotYetOn
    <2>2. CASE b # a
      <3>1. proc'[b] = proc[b] /\ Waits(proc[b]) /\ Names(proc[b])
        BY <1>2, <2>2 DEF ChainInv
      <3>2. ASSUME proc[b].pc # "idle", proc[b].rec.id \notin acked
            PROVE  proc[b].rec.id \notin acked'
        BY <1>4, <2>2, <3>2
      <3>3. ASSUME proc[b].pc \in {"locking", "reading"} PROVE Waits(proc[b])'
        <4>1. proc[b].rec.id \notin acked /\ \A i \in 1..Len(file) : file[i].rec.id # proc[b].rec.id
          BY <3>1, <3>3 DEF Waits, NotYetOn
        <4>2. DOMAIN file = 1..Len(file) /\ DOMAIN file' = 1..Len(file')
          BY <1>1
        <4>3. \A i \in 1..Len(file') : file'[i].rec.id # proc[b].rec.id
          <5>1. CASE UNCHANGED file
            BY <4>1, <5>1
          <5>2. CASE proc[a].pc # "idle"
            <6>1. proc[b].rec.id # proc[a].rec.id
              BY <1>4, <2>2, <3>3, <5>2
            <6> QED  BY <4>1, <4>2, <6>1 DEF GainsOnly
          <5> QED  BY <5>1, <5>2
        <4> QED  BY <3>1, <3>2, <3>3, <4>1, <4>3 DEF Waits, NotYetOn
      <3>4. ASSUME proc[b].pc \in {"writing", "rollback"} PROVE Names(proc[b])'
        <4>1. UNCHANGED file
          BY <2>2, <3>4 DEF Holding, HoldsAlone
        <4>2. proc[b].rec.id \notin acked'
          BY <3>1, <3>2, <3>4 DEF Names, NotYetOn
        <4> QED  BY <3>1, <3>4, <4>1, <4>2 DEF Names, NotYetOn
      <3> QED  BY <3>1, <3>3, <3>4 DEF Waits, Names
    <2> QED  BY <2>1, <2>2
  <1> QED  BY <1>5, <1>6, <1>7 DEF ChainInv, Waits, Names, NotYetOn

(* The file past a's lock: whole lines, then the chunks of its own.         *)
LEMMA OwnPart ==
    ASSUME LedgerInv, ChainInv, NEW a \in Appenders, proc[a].pc \in {"writing", "rollback"}
    PROVE  /\ proc[a].start \in Nat /\ proc[a].start % 3 = 0
           /\ \E m \in Nat : proc[a].start = 3 * m
           /\ proc[a].written \in 0..3 /\ Len(file) = proc[a].start + proc[a].written
           /\ OwnChunks(file, proc[a].start, proc[a].written, proc[a].rec)
           /\ WholeUpTo(file, proc[a].start)
           /\ file \in Seq(Chunk) /\ proc[a] \in Proc /\ proc[a].rec \in Record
           /\ owner = a /\ HoldsAlone(a)
  <1>1. PICK s \in Nat, w \in 0..3 : s = proc[a].start /\ w = proc[a].written
    BY DEF LedgerInv, TypeOK, Proc
  <1>2. Len(file) = s + w /\ OwnChunks(file, s, w, proc[a].rec)
    BY <1>1 DEF LedgerInv, OnlyOwnLine, Holding, OwnChunks
  <1>3. s % 3 = 0
    BY <1>1 DEF ChainInv, Names
  <1>4. \E m \in Nat : s = 3 * m
    <2>1. s \div 3 \in Nat /\ s = 3 * (s \div 3)
      BY <1>3
    <2> QED  BY <2>1
  <1>5. file \in Seq(Chunk) /\ proc[a] \in Proc /\ proc[a].rec \in Record
    <2>1. proc[a].rec.id \in 1..MaxAppends
      BY DEF LedgerInv, Numbered
    <2> QED  BY <2>1 DEF LedgerInv, TypeOK, Proc, Record
  <1>6. WholeUpTo(file, s)
    <2>1. DOMAIN file = 1..(s + w)
      BY <1>2, <1>5
    <2>2. \A i \in 1..s : i \in 1..(s + w)
      OBVIOUS
    <2> QED  BY <2>1, <2>2 DEF ChainInv, WholeLines, WholeUpTo
  <1>7. owner = a /\ HoldsAlone(a)
    BY Alone DEF Holding, HoldsAlone
  <1> QED  BY <1>1, <1>2, <1>3, <1>4, <1>5, <1>6, <1>7

(* More of a line is on file g than on f: chunks w + 1 to v of rec.          *)
Extends(g, f) == \A i \in DOMAIN f : g[i] = f[i]
ChunksFrom(g, s, w, v, rec) == \A n \in (w + 1)..v : g[s + n] = Line(rec)[n]

(* The lines before its own stay when an appender writes on.                *)
LEMMA OwnPartGrows ==
    ASSUME LedgerInv, ChainInv, NEW a \in Appenders, proc[a].pc \in {"writing", "rollback"},
           NEW v \in 0..3, proc[a].written <= v,
           file' \in Seq(Chunk), Len(file') = proc[a].start + v,
           Extends(file', file), ChunksFrom(file', proc[a].start, proc[a].written, v, proc[a].rec)
    PROVE  /\ WholeLines(file')
           /\ OwnChunks(file', proc[a].start, v, proc[a].rec)
           /\ GainsOnly(a)
  <1>1. PICK s \in Nat, w \in 0..3 : s = proc[a].start /\ w = proc[a].written
    BY OwnPart
  <1>2. /\ Len(file) = s + w /\ OwnChunks(file, s, w, proc[a].rec) /\ WholeUpTo(file, s)
        /\ s % 3 = 0 /\ proc[a].rec \in Record /\ file \in Seq(Chunk)
    BY <1>1, OwnPart
  <1>3. DOMAIN file = 1..(s + w) /\ DOMAIN file' = 1..(s + v) /\ w <= v
    <2>1. DOMAIN file' = 1..Len(file') /\ DOMAIN file = 1..Len(file)
      BY <1>2
    <2>2. Len(file') = s + v /\ w <= v
      BY <1>1
    <2> QED  BY <1>2, <2>1, <2>2
  <1>4. \A i \in 1..(s + w) : file'[i] = file[i]
    BY <1>3 DEF Extends
  <1>5. OwnChunks(file', s, v, proc[a].rec)
    <2> SUFFICES ASSUME NEW n \in 1..v PROVE file'[s + n] = Line(proc[a].rec)[n]
      BY DEF OwnChunks
    <2>1. CASE n \in 1..w
      <3>1. s + n \in 1..(s + w)
        BY <2>1
      <3> QED  BY <1>2, <1>4, <2>1, <3>1 DEF OwnChunks
    <2>2. CASE n \in (w + 1)..v
      BY <1>1, <2>2 DEF ChunksFrom
    <2> QED  BY <2>1, <2>2
  <1>6. WholeUpTo(file', s)
    <2>1. ASSUME NEW i \in 1..s
          PROVE  /\ file'[i] = file[i] /\ (i > 1 => file'[i - 1] = file[i - 1])
      <3>1. i \in 1..(s + w) /\ (i > 1 => i - 1 \in 1..(s + w))
        OBVIOUS
      <3> QED  BY <1>4, <3>1
    <2> QED  BY <1>2, <2>1 DEF WholeUpTo
  <1>7. WholeLines(file')
    <2>1. PICK g \in Seq(Chunk) : g = file'
      OBVIOUS
    <2>2. Len(g) = s + v /\ WholeUpTo(g, s) /\ OwnChunks(g, s, v, proc[a].rec)
      BY <1>1, <1>5, <1>6, <2>1
    <2>3. WholeLines(g)
      BY <1>2, <2>2, LineIsWhole
    <2> QED  BY <2>1, <2>3
  <1>8. ASSUME NEW i \in DOMAIN file'
        PROVE  \/ file'[i].rec.id = proc[a].rec.id
               \/ \E j \in DOMAIN file : file'[i].rec.id = file[j].rec.id
    <2>1. CASE i \in 1..s
      <3>1. i \in 1..(s + w)
        BY <2>1
      <3> QED  BY <1>3, <1>4, <3>1
    <2>2. CASE i \notin 1..s
      <3>1. i \in 1..(s + v)
        BY <1>3
      <3>2. PICK n \in 1..v : i = s + n
        BY <2>2, <3>1, Beyond
      <3>3. file'[i] = Line(proc[a].rec)[n] /\ n \in 1..3
        BY <1>5, <3>2 DEF OwnChunks
      <3>4. file'[i].rec = proc[a].rec
        BY <3>3 DEF Line
      <3> QED  BY <3>4
    <2> QED  BY <2>1, <2>2
  <1> QED  BY <1>1, <1>5, <1>7, <1>8 DEF GainsOnly

(* The rest of a line, flushed by the close.                                *)
LEMMA RestOfLine ==
    ASSUME NEW f \in Seq(Chunk), NEW rec \in Record, NEW w \in 0..3, NEW s \in Nat, Len(f) = s + w
    PROVE  LET g == f \o SubSeq(Line(rec), w + 1, 3)
           IN  /\ g \in Seq(Chunk) /\ Len(g) = s + 3
               /\ Extends(g, f) /\ ChunksFrom(g, s, w, 3, rec)
  <1>1. PICK l \in Seq(Chunk) : l = Line(rec) /\ Len(l) = 3
    <2>1. Line(rec) \in [1..3 -> Chunk]
      BY LineType DEF Line
    <2>2. Line(rec) \in Seq(Chunk) /\ Len(Line(rec)) = 3
      BY <2>1 DEF Line
    <2> QED  BY <2>2
  <1>2. PICK r \in Seq(Chunk) : r = SubSeq(l, w + 1, 3)
    <2>1. w \in 0..3
      OBVIOUS
    <2> QED  BY <1>1, <2>1, RestType
  <1>3. Len(r) = 3 - w /\ \A j \in 1..(3 - w) : r[j] = l[w + j]
    <2>1. CASE w = 0
      BY <1>1, <1>2, <2>1
    <2>2. CASE w = 1
      BY <1>1, <1>2, <2>2
    <2>3. CASE w = 2
      BY <1>1, <1>2, <2>3
    <2>4. CASE w = 3
      BY <1>1, <1>2, <2>4
    <2> QED  BY <2>1, <2>2, <2>3, <2>4
  <1>4. PICK g \in Seq(Chunk) : g = f \o r
    <2>1. f \o r \in Seq(Chunk)
      OBVIOUS
    <2> QED  BY <2>1
  <1>5. Len(g) = s + 3 /\ \A i \in DOMAIN f : g[i] = f[i]
    BY <1>3, <1>4
  <1>6. ASSUME NEW n \in (w + 1)..3 PROVE g[s + n] = l[n]
    <2>1. PICK j \in 1..(3 - w) : j = n - w
      OBVIOUS
    <2>2. s + n = Len(f) + j /\ w + j = n
      BY <2>1
    <2>3. g[Len(f) + j] = r[j]
      BY <1>3, <1>4
    <2> QED  BY <1>3, <2>2, <2>3
  <1> QED  BY <1>1, <1>2, <1>4, <1>5, <1>6 DEF Extends, ChunksFrom

(* A step that leaves file and acknowledgements.                            *)
LEMMA QuietStep ==
    ASSUME LedgerInv, LedgerInv', ChainInv, NEW a \in Appenders, NEW k \in Proc,
           proc' = [proc EXCEPT ![a] = k], UNCHANGED <<file, acked>>, started <= started',
           ~(proc[a].pc = "writing" /\ proc[a].written = 2),
           \/ k.pc = "idle"
           \/ proc[a].pc # "idle" /\ k.rec.id = proc[a].rec.id
           \/ k.rec.id = started + 1 /\ started' = started + 1,
           Waits(k), Names(k)
    PROVE  ChainInv'
  <1>1. WholeLines(file') /\ GainsOnly(a)
    BY DEF ChainInv, GainsOnly
  <1>2. Waits(k)' /\ Names(k)'
    BY DEF Waits, Names, NotYetOn
  <1> QED  BY <1>1, <1>2, ChainStep

(* A record gets its number and name before the lock is asked for.           *)
LEMMA ChainBegin ==
    ASSUME LedgerInv, LedgerInv', ChainInv, NEW a \in Appenders, Begin(a)
    PROVE  ChainInv'
  <1>1. started \in Nat /\ started + 1 \in 1..MaxAppends /\ file \in Seq(Chunk) /\ proc \in [Appenders -> Proc]
    BY BoundAssumption DEF LedgerInv, TypeOK, Begin
  <1>2. PICK k \in Proc : k = Begun(started + 1) /\ k.pc = "locking" /\ k.rec.id = started + 1
    BY <1>1, BegunProc
  <1>3. NotYetOn(started + 1, Len(file))
    <2>1. \A id \in acked : id # started + 1
      BY <1>1 DEF ChainInv, Numbers, LedgerInv, TypeOK
    <2>2. ASSUME NEW i \in 1..Len(file) PROVE file[i].rec.id # started + 1
      <3>1. file[i].rec.id <= started
        BY <1>1 DEF ChainInv, Numbers
      <3> QED  BY <1>1, <3>1
    <2> QED  BY <2>1, <2>2 DEF NotYetOn
  <1>4. Waits(k) /\ Names(k)
    BY <1>2, <1>3 DEF Waits, Names
  <1>5. /\ proc' = [proc EXCEPT ![a] = k] /\ UNCHANGED <<file, acked>> /\ started' = started + 1
        /\ started <= started' /\ proc[a].pc = "idle"
    BY <1>1, <1>2 DEF Begin
  <1> QED  BY <1>2, <1>4, <1>5, QuietStep

(* Taking the lock, or giving up on it, leaves the file alone.               *)
LEMMA ChainLock ==
    ASSUME LedgerInv, LedgerInv', ChainInv, Chained, NEW a \in Appenders, Lock(a)
    PROVE  ChainInv'
  <1>1. proc \in [Appenders -> Proc] /\ file \in Seq(Chunk) /\ started \in Nat
    BY DEF LedgerInv, TypeOK
  <1>2. PICK p \in Proc : p = proc[a] /\ p.pc = "locking" /\ Waits(p)
    BY <1>1 DEF Lock, ChainInv
  <1>3. PICK k : k = [p EXCEPT !.pc = "reading", !.start = Len(file)]
    OBVIOUS
  <1>4. k \in Proc /\ k.pc = "reading" /\ k.rec = p.rec
    <2>1. PICK n \in Nat : n = Len(file)
      BY <1>1
    <2> QED  BY <1>3, <2>1 DEF Proc
  <1>5. Waits(k) /\ Names(k)
    BY <1>2, <1>4 DEF Waits, Names
  <1>6. proc' = [proc EXCEPT ![a] = k] /\ UNCHANGED <<file, acked, started>> /\ started <= started'
    <2>1. proc' = [proc EXCEPT ![a].pc = "reading", ![a].start = Len(file)]
      BY DEF Lock
    <2>2. proc' = [proc EXCEPT ![a] = k]
      BY <1>1, <1>2, <1>3, <2>1
    <2>3. UNCHANGED <<file, acked, started>>
      BY DEF Lock
    <2> QED  BY <1>1, <2>2, <2>3
  <1> QED  BY <1>2, <1>4, <1>5, <1>6, QuietStep

(* Steps after which an append writes no more.                              *)
LEMMA ChainEnds ==
    ASSUME LedgerInv, LedgerInv', ChainInv, 3 \notin TornAt, NEW a \in Appenders,
           GiveUp(a) \/ ReadRaises(a) \/ Unlock(a) \/ Die(a)
    PROVE  ChainInv'
  <1>1. proc \in [Appenders -> Proc] /\ file \in Seq(Chunk) /\ started \in Nat
    BY DEF LedgerInv, TypeOK
  <1>2. ~(proc[a].pc = "writing" /\ proc[a].written = 2) /\ UNCHANGED <<file, acked, started>>
    BY DEF GiveUp, ReadRaises, Unlock, Die
  <1>3. started <= started' /\ proc[a].pc # "idle"
    BY <1>1, <1>2 DEF GiveUp, ReadRaises, Unlock, Die
  <1>4. CASE GiveUp(a) \/ Unlock(a) \/ Die(a)
    <2>1. proc' = [proc EXCEPT ![a] = Idle]
      BY <1>4 DEF GiveUp, Unlock, Die
    <2>2. Idle \in Proc /\ Idle.pc = "idle" /\ Waits(Idle) /\ Names(Idle)
      BY IdleProc DEF Waits, Names
    <2> QED  BY <1>2, <1>3, <2>1, <2>2, QuietStep
  <1>5. CASE ReadRaises(a)
    <2>1. PICK k \in Proc : k = [proc[a] EXCEPT !.pc = "leaving"]
      BY <1>1 DEF Proc
    <2>2. k.pc = "leaving" /\ k.rec = proc[a].rec
      BY <1>1, <2>1 DEF Proc
    <2>3. proc' = [proc EXCEPT ![a] = k]
      BY <1>1, <1>5, <2>1 DEF ReadRaises
    <2>4. Waits(k) /\ Names(k)
      BY <2>2 DEF Waits, Names
    <2> QED  BY <1>2, <1>3, <2>2, <2>3, <2>4, QuietStep
  <1> QED  BY <1>4, <1>5

(* The last record is read under the lock and so still is the last when the  *)
(* line is written.                                                          *)
LEMMA ChainReadLast ==
    ASSUME LedgerInv, LedgerInv', ChainInv, NEW a \in Appenders, ReadLast(a)
    PROVE  ChainInv'
  <1>1. proc \in [Appenders -> Proc] /\ file \in Seq(Chunk) /\ started \in Nat
    BY DEF LedgerInv, TypeOK
  <1>2. PICK p \in Proc : p = proc[a] /\ p.pc = "reading" /\ Waits(p)
    BY <1>1 DEF ReadLast, ChainInv
  <1>3. PICK x \in 0..MaxAppends :
           /\ read_last_locked_record(file, x)
           /\ proc' = [proc EXCEPT ![a].pc = "writing", ![a].rec = [id |-> proc[a].rec.id, prev |-> x]]
    BY DEF ReadLast
  <1>4. Len(file) = p.start /\ p.written = 0 /\ p.start \in Nat
    BY <1>2 DEF LedgerInv, Unwritten, OnlyOwnLine, Holding, Proc
  <1>5. Len(file) % 3 # 2
    <2>1. \A b \in Appenders : b # a => proc[b].pc # "writing"
      BY <1>2, Alone DEF Holding
    <2> QED  BY <1>2, <2>1 DEF ChainInv, HalfIsHeld
  <1>6. p.start % 3 = 0 /\ x = IF p.start = 0 THEN 0 ELSE file[p.start].rec.id
    <2>1. CASE file = <<>>
      BY <1>3, <1>4, <2>1 DEF read_last_locked_record
    <2>2. CASE file # <<>>
      <3>1. Len(file) % 3 = 0 /\ x = file[Len(file)].rec.id
        BY <1>1, <1>3, <1>5, <2>2, LastLineIs DEF ChainInv
      <3>2. Len(file) # 0
        BY <1>1, <2>2
      <3> QED  BY <1>4, <3>1, <3>2
    <2> QED  BY <2>1, <2>2
  <1>7. PICK k : k = [p EXCEPT !.pc = "writing", !.rec = [id |-> p.rec.id, prev |-> x]]
    OBVIOUS
  <1>8. k \in Proc /\ k.pc = "writing" /\ k.rec.id = p.rec.id /\ k.rec.prev = x /\ k.start = p.start
    BY <1>7 DEF Proc
  <1>9. proc' = [proc EXCEPT ![a] = k]
    BY <1>1, <1>2, <1>3, <1>7
  <1>10. Names(k)
    <2>1. NotYetOn(p.rec.id, p.start)
      BY <1>2, <1>4 DEF Waits
    <2> QED  BY <1>4, <1>6, <1>8, <2>1 DEF Names
  <1>11. Waits(k)
    BY <1>8 DEF Waits
  <1>12. UNCHANGED <<file, acked, started>> /\ started <= started'
    BY <1>1 DEF ReadLast
  <1> QED  BY <1>2, <1>8, <1>9, <1>10, <1>11, <1>12, QuietStep

(* A write that stops leaves a part of its own line, never all but a newline. *)
LEMMA ChainWriteFails ==
    ASSUME LedgerInv, LedgerInv', ChainInv, 3 \notin TornAt, NEW a \in Appenders, WriteFails(a)
    PROVE  ChainInv'
  <1>1. proc \in [Appenders -> Proc] /\ file \in Seq(Chunk) /\ started \in Nat
    BY DEF LedgerInv, TypeOK
  <1>2. PICK p \in Proc : p = proc[a] /\ p.pc = "writing" /\ Names(p)
    BY <1>1 DEF WriteFails, ChainInv
  <1>3. p.written \in 0..1
    BY <1>2 DEF WriteFails, Proc
  <1>4. PICK k : k = [p EXCEPT !.pc = "rollback"]
    OBVIOUS
  <1>5. k \in Proc /\ k.pc = "rollback" /\ k.rec = p.rec /\ k.start = p.start /\ k.written = p.written
    BY <1>4 DEF Proc
  <1>6. proc' = [proc EXCEPT ![a] = k] /\ UNCHANGED <<file, acked, started>> /\ started <= started'
    BY <1>1, <1>2, <1>4 DEF WriteFails
  <1>7. Waits(k) /\ Names(k)
    BY <1>2, <1>3, <1>5 DEF Waits, Names
  <1>8. ~(proc[a].pc = "writing" /\ proc[a].written = 2)
    BY <1>2, <1>3
  <1> QED  BY <1>2, <1>5, <1>6, <1>7, <1>8, QuietStep

(* A line is a record found from its second chunk on.                       *)
LEMMA LineFound ==
    ASSUME NEW f \in Seq(Chunk), NEW g \in Seq(Chunk), NEW m \in Nat, NEW v \in 0..3,
           NEW rec, WholeLines(f), WholeLines(g), Len(f) = 3 * m, Len(g) = 3 * m + v,
           \A i \in 1..(3 * m) : g[i] = f[i], v >= 1 => g[3 * m + 1].rec = rec
    PROVE  /\ v <= 1 => Readable(g) = Readable(f)
           /\ v >= 2 =>
                 /\ Readable(g) = Append(Readable(f), rec) /\ Readable(g) # <<>>
                 /\ Readable(f) = SubSeq(Readable(g), 1, Len(Readable(g)) - 1)
                 /\ Len(Readable(g)) \in DOMAIN Readable(g)
                 /\ Readable(g)[Len(Readable(g))] = rec
  <1>1. DOMAIN f = 1..(3 * m) /\ Len(f) <= Len(g)
    OBVIOUS
  <1>2. Found(f) = m /\ (v <= 1 => Found(g) = m) /\ (v >= 2 => Found(g) = m + 1)
    BY DEF Found
  <1>3. v <= 1 => Readable(g) = Readable(f)
    BY <1>1, <1>2, ReadableGrows
  <1>4. ASSUME v >= 2
        PROVE  /\ Readable(g) = Append(Readable(f), rec) /\ Readable(g) # <<>>
               /\ Readable(f) = SubSeq(Readable(g), 1, Len(Readable(g)) - 1)
               /\ Len(Readable(g)) \in DOMAIN Readable(g)
               /\ Readable(g)[Len(Readable(g))] = rec
    <2>1. PICK n \in Nat : n = Found(g) /\ n = Found(f) + 1 /\ 3 * n - 2 = 3 * m + 1
      BY <1>2, <1>4
    <2>2. /\ Readable(g) = Append(Readable(f), g[3 * n - 2].rec)
          /\ Readable(g) # <<>> /\ Readable(f) = SubSeq(Readable(g), 1, Len(Readable(g)) - 1)
          /\ Len(Readable(g)) = n /\ n \in DOMAIN Readable(g)
          /\ Readable(g)[n] = g[3 * n - 2].rec
      BY <1>1, <2>1, ReadableGrows
    <2>3. 3 * n - 2 = 3 * m + 1
      BY <2>1
    <2>4. g[3 * n - 2].rec = rec
      BY <1>4, <2>3
    <2> QED  BY <2>2, <2>4
  <1> QED  BY <1>3, <1>4

(* The log before an appender's line, and what its record is to it.         *)
LogBefore(f, m, p) ==
    /\ f \in Seq(Chunk) /\ WholeLines(f) /\ Len(f) = 3 * m /\ p.start = 3 * m
    /\ p.rec.id \notin acked /\ p.rec.id \in 1..MaxAppends /\ p.rec \in Record
    /\ p.rec.id \notin {Readable(f)[i].id : i \in DOMAIN Readable(f)}
    /\ p.rec.prev = IF Readable(f) = <<>> THEN 0 ELSE Readable(f)[Len(Readable(f))].id

(* Before its own line an appender finds the log as it read it.              *)
LEMMA BeforeItsLine ==
    ASSUME LedgerInv, ChainInv, NEW a \in Appenders, proc[a].pc \in {"writing", "rollback"}
    PROVE  \E f \in Seq(Chunk), m \in Nat :
              /\ f = SubSeq(file, 1, proc[a].start) /\ LogBefore(f, m, proc[a])
              /\ \A i \in 1..(3 * m) : file[i] = f[i]
              /\ proc[a].written <= 1 => Readable(file) = Readable(f)
              /\ proc[a].written >= 2 =>
                    /\ Readable(file) = Append(Readable(f), proc[a].rec) /\ Readable(file) # <<>>
                    /\ Readable(f) = SubSeq(Readable(file), 1, Len(Readable(file)) - 1)
                    /\ Len(Readable(file)) \in DOMAIN Readable(file)
                    /\ Readable(file)[Len(Readable(file))] = proc[a].rec
  <1>1. PICK m \in Nat : proc[a].start = 3 * m
    BY OwnPart
  <1>2. PICK w \in 0..3 : w = proc[a].written /\ Len(file) = 3 * m + w
    BY <1>1, OwnPart
  <1>3. file \in Seq(Chunk) /\ WholeLines(file) /\ proc[a].rec \in Record /\ 3 * m \in Nat /\ 3 * m <= Len(file)
    BY <1>2, OwnPart DEF ChainInv
  <1>4. PICK f \in Seq(Chunk) : f = SubSeq(file, 1, 3 * m) /\ Len(f) = 3 * m
                                /\ WholeLines(f) /\ \A i \in 1..(3 * m) : f[i] = file[i]
    BY <1>3, CutIsWhole
  <1>5. w >= 1 => file[3 * m + 1].rec = proc[a].rec
    <2>1. ASSUME w >= 1 PROVE file[3 * m + 1] = Line(proc[a].rec)[1]
      <3>1. 1 \in 1..w
        BY <2>1
      <3> QED  BY <1>1, <1>2, <3>1, OwnPart DEF OwnChunks
    <2> QED  BY <2>1 DEF Line
  <1>6. /\ w <= 1 => Readable(file) = Readable(f)
        /\ w >= 2 =>
              /\ Readable(file) = Append(Readable(f), proc[a].rec) /\ Readable(file) # <<>>
              /\ Readable(f) = SubSeq(Readable(file), 1, Len(Readable(file)) - 1)
              /\ Len(Readable(file)) \in DOMAIN Readable(file)
              /\ Readable(file)[Len(Readable(file))] = proc[a].rec
    <2>1. PICK g \in Seq(Chunk), r \in Record : g = file /\ r = proc[a].rec
      BY <1>3
    <2>2. /\ WholeLines(g) /\ Len(g) = 3 * m + w /\ \A i \in 1..(3 * m) : g[i] = f[i]
          /\ w >= 1 => g[3 * m + 1].rec = r
      BY <1>2, <1>3, <1>4, <1>5, <2>1
    <2>3. /\ w <= 1 => Readable(g) = Readable(f)
          /\ w >= 2 =>
                /\ Readable(g) = Append(Readable(f), r) /\ Readable(g) # <<>>
                /\ Readable(f) = SubSeq(Readable(g), 1, Len(Readable(g)) - 1)
                /\ Len(Readable(g)) \in DOMAIN Readable(g)
                /\ Readable(g)[Len(Readable(g))] = r
      BY <1>4, <2>2, LineFound, ZenonT(30)
    <2> QED  BY <2>1, <2>3
  <1>7. /\ proc[a].rec.prev = IF 3 * m = 0 THEN 0 ELSE file[3 * m].rec.id
        /\ proc[a].rec.id \notin acked /\ \A i \in 1..(3 * m) : file[i].rec.id # proc[a].rec.id
    BY <1>1 DEF ChainInv, Names, NotYetOn
  <1>8. /\ Len(Readable(f)) = m /\ (Readable(f) = <<>> <=> m = 0)
        /\ m > 0 => Readable(f)[m] = f[Len(f)].rec
    BY <1>4, LastFound
  <1>9. proc[a].rec.prev = IF Readable(f) = <<>> THEN 0 ELSE Readable(f)[Len(Readable(f))].id
    <2>1. CASE m = 0
      BY <1>7, <1>8, <2>1
    <2>2. CASE m > 0
      <3>1. 3 * m \in 1..(3 * m) /\ 3 * m # 0
        BY <2>2
      <3>2. f[Len(f)] = file[3 * m]
        BY <1>4, <3>1
      <3> QED  BY <1>7, <1>8, <2>2, <3>1, <3>2
    <2> QED  BY <2>1, <2>2
  <1>10. proc[a].rec.id \notin {Readable(f)[i].id : i \in DOMAIN Readable(f)}
    <2>1. Found(f) = m
      BY <1>4, LastFound
    <2>2. Readable(f) = [k \in 1..m |-> f[3 * k - 2].rec]
      BY <1>4, <2>1, ReadableIs
    <2>3. ASSUME NEW k \in 1..m PROVE f[3 * k - 2].rec.id # proc[a].rec.id
      <3>1. 3 * k - 2 \in 1..(3 * m)
        OBVIOUS
      <3> QED  BY <1>4, <1>7, <3>1
    <2> QED  BY <2>2, <2>3
  <1>11. proc[a].rec.id \in 1..MaxAppends
    BY <1>3 DEF Record
  <1>12. LogBefore(f, m, proc[a])
    BY <1>1, <1>3, <1>4, <1>7, <1>9, <1>10, <1>11 DEF LogBefore
  <1> QED  BY <1>1, <1>2, <1>4, <1>6, <1>12

(* What a step does to the log that is read.                                *)
LogStep ==
    \/ Readable(file') = Readable(file) /\ acked' = acked
    \/ Log!Next

(* A line whose readable part became longer by its record is one append of   *)
(* the log.                                                                  *)
LEMMA AppendsRecord ==
    ASSUME NEW f, NEW m \in Nat, NEW p, LogBefore(f, m, p),
           Readable(file) = Readable(f), Readable(file') = Append(Readable(f), p.rec), acked' = acked
    PROVE  Log!AppendRecord
  <1>1. p.rec = [id |-> p.rec.id, prev |-> p.rec.prev]
    BY DEF LogBefore, Record
  <1>2. p.rec.prev = Log!LastId
    BY DEF LogBefore, Log!LastId
  <1>3. p.rec.id \in (1..MaxAppends) \ {Readable(file)[i].id : i \in DOMAIN Readable(file)}
    BY DEF LogBefore
  <1>4. Readable(file)' = Append(Readable(file), [id |-> p.rec.id, prev |-> Log!LastId])
    BY <1>1, <1>2 DEF Readable
  <1> QED  BY <1>3, <1>4 DEF Log!AppendRecord

(* An appender that holds the lock gives up its line.                        *)
LEMMA ChainCut ==
    ASSUME LedgerInv, LedgerInv', ChainInv, NEW a \in Appenders, SyncFails(a) \/ RollBack(a)
    PROVE  ChainInv' /\ LogStep
  <1>1. /\ proc \in [Appenders -> Proc] /\ started \in Nat
        /\ proc[a].pc \in {"writing", "rollback"} /\ file' = SubSeq(file, 1, proc[a].start)
        /\ UNCHANGED <<started, acked>>
    BY DEF LedgerInv, TypeOK, SyncFails, RollBack
  <1>2. PICK f \in Seq(Chunk), m \in Nat :
              /\ f = SubSeq(file, 1, proc[a].start) /\ LogBefore(f, m, proc[a])
              /\ \A i \in 1..(3 * m) : file[i] = f[i]
              /\ proc[a].written <= 1 => Readable(file) = Readable(f)
              /\ proc[a].written >= 2 =>
                    /\ Readable(file) = Append(Readable(f), proc[a].rec) /\ Readable(file) # <<>>
                    /\ Readable(f) = SubSeq(Readable(file), 1, Len(Readable(file)) - 1)
                    /\ Len(Readable(file)) \in DOMAIN Readable(file)
                    /\ Readable(file)[Len(Readable(file))] = proc[a].rec
    BY <1>1, BeforeItsLine
  <1>3. file' = f /\ WholeLines(f) /\ Len(f) = 3 * m /\ proc[a].start = 3 * m /\ proc[a].rec.id \notin acked
    BY <1>1, <1>2 DEF LogBefore
  <1>4. PICK k : k = [proc[a] EXCEPT !.pc = "leaving"]
    OBVIOUS
  <1>5. k \in Proc /\ k.pc = "leaving" /\ k.rec = proc[a].rec /\ proc' = [proc EXCEPT ![a] = k]
    BY <1>1, <1>4 DEF Proc, SyncFails, RollBack
  <1>6. Waits(k)' /\ Names(k)'
    BY <1>5 DEF Waits, Names
  <1>7. ~Half(file')
    BY <1>3 DEF Half
  <1>8. HoldsAlone(a)
    BY <1>1, OwnPart
  <1>9. ASSUME NEW i \in DOMAIN file' PROVE \E j \in DOMAIN file : file'[i].rec.id = file[j].rec.id
    <2>1. file \in Seq(Chunk) /\ Len(file) >= 3 * m
      <3>1. PICK w \in 0..3 : Len(file) = 3 * m + w
        BY <1>1, <1>3, OwnPart
      <3>2. file \in Seq(Chunk)
        BY <1>1, OwnPart
      <3> QED  BY <3>1, <3>2
    <2>2. i \in 1..(3 * m) /\ i \in DOMAIN file
      BY <1>3, <2>1
    <2> QED  BY <1>2, <1>3, <2>2
  <1>10. /\ proc[a].pc # "idle" /\ started <= started' /\ k.rec.id = proc[a].rec.id
         /\ acked' \subseteq acked \cup {proc[a].rec.id}
    BY <1>1, <1>5
  <1>11. WholeLines(file')
    BY <1>3
  <1>12. GainsOnly(a)
    BY <1>9 DEF GainsOnly
  <1>13. ChainInv'
    <2>1. \/ ~Half(file') \/ (k.pc = "writing" /\ k.written = 2)
          \/ UNCHANGED file /\ ~(proc[a].pc = "writing" /\ proc[a].written = 2)
      BY <1>7
    <2>2. \/ k.pc = "idle"
          \/ proc[a].pc # "idle" /\ k.rec.id = proc[a].rec.id
          \/ k.rec.id = started + 1 /\ started' = started + 1
      BY <1>10
    <2>3. (proc[a].pc # "idle" \/ UNCHANGED <<file, acked>>) /\ (HoldsAlone(a) \/ UNCHANGED file)
      BY <1>8, <1>10
    <2> QED  BY <1>5, <1>6, <1>10, <1>11, <1>12, <2>1, <2>2, <2>3, ChainStep
  <1>14. CASE proc[a].written <= 1
    BY <1>1, <1>2, <1>3, <1>13, <1>14 DEF LogStep
  <1>15. CASE proc[a].written >= 2
    <2>1. Readable(file') = SubSeq(Readable(file), 1, Len(Readable(file)) - 1)
      BY <1>2, <1>3, <1>15
    <2>2. Readable(file)' = Readable(file')
      BY DEF Readable
    <2>3. Readable(file)' = SubSeq(Readable(file), 1, Len(Readable(file)) - 1)
      BY <2>1, <2>2
    <2>4. Log!LastId = proc[a].rec.id /\ Readable(file) # <<>>
      BY <1>2, <1>15 DEF Log!LastId
    <2>5. Log!Withdraw
      BY <1>1, <1>3, <2>3, <2>4 DEF Log!Withdraw
    <2> QED  BY <1>13, <2>5 DEF LogStep, Log!Next
  <1>16. proc[a].written \in 0..3
    BY <1>1, OwnPart
  <1> QED  BY <1>14, <1>15, <1>16

(* The fsync that returns acknowledges, the one that fails leads to the      *)
(* rollback.                                                                 *)
LEMMA ChainSync ==
    ASSUME LedgerInv, LedgerInv', ChainInv, NEW a \in Appenders, Sync(a)
    PROVE  ChainInv' /\ LogStep
  <1>1. /\ proc \in [Appenders -> Proc] /\ started \in Nat
        /\ proc[a].pc = "writing" /\ proc[a].written = 3
        /\ UNCHANGED <<started, file>> /\ acked' = acked \cup {proc[a].rec.id}
    BY DEF LedgerInv, TypeOK, Sync
  <1>2. /\ Readable(file) # <<>> /\ Len(Readable(file)) \in DOMAIN Readable(file)
        /\ Readable(file)[Len(Readable(file))] = proc[a].rec
    BY <1>1, BeforeItsLine
  <1>3. PICK k : k = [proc[a] EXCEPT !.pc = "leaving"]
    OBVIOUS
  <1>4. k \in Proc /\ k.pc = "leaving" /\ k.rec = proc[a].rec /\ proc' = [proc EXCEPT ![a] = k]
    BY <1>1, <1>3 DEF Proc, Sync
  <1>5. Waits(k)' /\ Names(k)'
    BY <1>4 DEF Waits, Names
  <1>6. WholeLines(file') /\ proc[a].pc # "idle" /\ started <= started'
    BY <1>1 DEF ChainInv
  <1>7. ~(proc[a].pc = "writing" /\ proc[a].written = 2)
    BY <1>1
  <1>8. GainsOnly(a)
    BY <1>1 DEF GainsOnly
  <1>9. ChainInv'
    BY <1>1, <1>4, <1>5, <1>6, <1>7, <1>8, ChainStep
  <1>10. Log!Acknowledge
    <2>1. UNCHANGED Readable(file)
      BY <1>1
    <2> QED  BY <1>1, <1>2, <2>1 DEF Log!Acknowledge
  <1> QED  BY <1>9, <1>10 DEF LogStep, Log!Next

(* More of the line of a is on file, and a is in state k then.              *)
LEMMA ChainGrows ==
    ASSUME LedgerInv, LedgerInv', ChainInv, NEW a \in Appenders,
           proc[a].pc \in {"writing", "rollback"},
           NEW v \in 0..3, proc[a].written <= v, v # proc[a].written,
           file' \in Seq(Chunk), Len(file') = proc[a].start + v,
           Extends(file', file), ChunksFrom(file', proc[a].start, proc[a].written, v, proc[a].rec),
           NEW k \in Proc, proc' = [proc EXCEPT ![a] = k], k.rec = proc[a].rec,
           k.start = proc[a].start, UNCHANGED <<started, acked>>,
           (k.pc = "leaving" /\ v = 3) \/ (k.pc = "writing" /\ k.written = v)
    PROVE  ChainInv' /\ LogStep
  <1>1. WholeLines(file') /\ OwnChunks(file', proc[a].start, v, proc[a].rec) /\ GainsOnly(a)
    BY OwnPartGrows
  <1>2. PICK f \in Seq(Chunk), m \in Nat :
              /\ f = SubSeq(file, 1, proc[a].start) /\ LogBefore(f, m, proc[a])
              /\ \A i \in 1..(3 * m) : file[i] = f[i]
              /\ proc[a].written <= 1 => Readable(file) = Readable(f)
              /\ proc[a].written >= 2 => Readable(file) = Append(Readable(f), proc[a].rec)
    BY BeforeItsLine
  <1>3. PICK w \in 0..3 : w = proc[a].written /\ w < v /\ Len(file) = 3 * m + w /\ proc[a].start = 3 * m
    <2>1. proc[a].written \in 0..3 /\ Len(file) = proc[a].start + proc[a].written
      BY OwnPart
    <2>2. PICK w \in 0..3 : w = proc[a].written
      BY <2>1
    <2>3. w <= v /\ w # v
      BY <2>2
    <2>4. w < v
      BY <2>3
    <2>5. proc[a].start = 3 * m
      BY <1>2 DEF LogBefore
    <2> QED  BY <2>1, <2>2, <2>4, <2>5
  <1>4. Len(file') = 3 * m + v /\ started \in Nat /\ file \in Seq(Chunk)
    BY <1>3 DEF LedgerInv, TypeOK
  <1>5. \A i \in 1..(3 * m) : file'[i] = file[i] /\ i \in DOMAIN file
    <2>1. DOMAIN file = 1..(3 * m + w)
      BY <1>3, <1>4
    <2>2. \A i \in 1..(3 * m) : i \in 1..(3 * m + w)
      OBVIOUS
    <2> QED  BY <2>1, <2>2 DEF Extends
  <1>6. Names(k)'
    <2>1. Names(proc[a])
      BY DEF ChainInv
    <2>2. 3 * m # 0 => 3 * m \in 1..(3 * m)
      OBVIOUS
    <2>3. /\ (3 * m) % 3 = 0
          /\ k.rec.prev = IF 3 * m = 0 THEN 0 ELSE file'[3 * m].rec.id
          /\ k.rec.id \notin acked' /\ \A i \in 1..(3 * m) : file'[i].rec.id # k.rec.id
      BY <1>3, <1>5, <2>1, <2>2 DEF Names, NotYetOn
    <2>4. 3 * m <= Len(file') /\ k.start = 3 * m /\ k.pc # "rollback"
      BY <1>3, <1>4
    <2> QED  BY <2>3, <2>4 DEF Names, NotYetOn
  <1>7. Waits(k)'
    BY DEF Waits
  <1>8. ~Half(file') \/ (k.pc = "writing" /\ k.written = 2)
    <2>1. CASE v = 2
      BY <2>1
    <2>2. CASE v # 2
      <3>1. (3 * m + v) % 3 # 2
        BY <2>2
      <3>2. Len(file') % 3 # 2
        BY <1>4, <3>1, Zenon
      <3> QED  BY <3>2 DEF Half
    <2> QED  BY <2>1, <2>2
  <1>9. HoldsAlone(a)
    BY OwnPart
  <1>10. proc[a].pc # "idle" /\ started <= started' /\ k.rec.id = proc[a].rec.id
         /\ acked' \subseteq acked \cup {proc[a].rec.id}
    BY <1>4
  <1>11. ChainInv'
    BY <1>1, <1>6, <1>7, <1>8, <1>9, <1>10, ChainStep
  <1>12. /\ v <= 1 => Readable(file') = Readable(f)
         /\ v >= 2 => Readable(file') = Append(Readable(f), proc[a].rec)
    <2>1. PICK g \in Seq(Chunk), r \in Record : g = file' /\ r = proc[a].rec
      BY OwnPart
    <2>2. /\ WholeLines(g) /\ Len(g) = 3 * m + v /\ \A i \in 1..(3 * m) : g[i] = f[i]
          /\ WholeLines(f) /\ Len(f) = 3 * m
      BY <1>1, <1>2, <1>4, <1>5, <2>1 DEF LogBefore
    <2>3. v >= 1 => g[3 * m + 1].rec = r
      <3>1. ASSUME v >= 1 PROVE g[3 * m + 1] = Line(r)[1]
        <4>1. 1 \in 1..v
          BY <3>1
        <4> QED  BY <1>1, <1>3, <2>1, <4>1 DEF OwnChunks
      <3> QED  BY <3>1 DEF Line
    <2>4. /\ v <= 1 => Readable(g) = Readable(f)
          /\ v >= 2 => Readable(g) = Append(Readable(f), r)
      BY <2>2, <2>3, LineFound, SMTT(60)
    <2> QED  BY <2>1, <2>4
  <1>13. CASE w <= 1 /\ v <= 1
    BY <1>2, <1>3, <1>11, <1>12, <1>13 DEF LogStep
  <1>14. CASE w >= 2 /\ v >= 2
    BY <1>2, <1>3, <1>11, <1>12, <1>14 DEF LogStep
  <1>15. CASE w <= 1 /\ v >= 2
    <2>1. Readable(file) = Readable(f) /\ Readable(file') = Append(Readable(f), proc[a].rec)
      BY <1>2, <1>3, <1>12, <1>15
    <2>2. Log!AppendRecord
      BY <1>2, <2>1, AppendsRecord
    <2> QED  BY <1>11, <2>2 DEF LogStep, Log!Next
  <1> QED  BY <1>3, <1>13, <1>14, <1>15

(* The second chunk makes a record readable: that is the append of the log.  *)
LEMMA ChainWrite ==
    ASSUME LedgerInv, LedgerInv', ChainInv, NEW a \in Appenders, WriteChunk(a)
    PROVE  ChainInv' /\ LogStep
  <1>1. /\ proc \in [Appenders -> Proc] /\ proc[a].pc = "writing" /\ proc[a].written < 3
        /\ file' = Append(file, Line(proc[a].rec)[proc[a].written + 1])
        /\ UNCHANGED <<started, acked>>
    BY DEF LedgerInv, TypeOK, WriteChunk
  <1>2. PICK w \in 0..2, s \in Nat : w = proc[a].written /\ s = proc[a].start /\ Len(file) = s + w
    BY <1>1, OwnPart
  <1>3. file \in Seq(Chunk) /\ file' \in Seq(Chunk)
    BY DEF LedgerInv, TypeOK
  <1>4. PICK v \in 0..3 : v = w + 1
    OBVIOUS
  <1>5. PICK c \in Chunk : c = Line(proc[a].rec)[v]
    BY <1>1, <1>4, LineType, OwnPart
  <1>6. file' = Append(file, c)
    BY <1>1, <1>2, <1>4, <1>5
  <1>7. Len(file') = s + v /\ file'[s + v] = c /\ \A i \in DOMAIN file : file'[i] = file[i]
    <2>1. PICK f \in Seq(Chunk) : f = file
      BY <1>3
    <2>2. Len(Append(f, c)) = Len(f) + 1 /\ Append(f, c)[Len(f) + 1] = c
      OBVIOUS
    <2>3. \A i \in DOMAIN f : Append(f, c)[i] = f[i]
      OBVIOUS
    <2>4. Len(f) = s + w
      BY <1>2, <2>1
    <2>5. Len(f) + 1 = s + v
      BY <1>4, <2>4
    <2> QED  BY <1>6, <2>1, <2>2, <2>3, <2>5
  <1>8. PICK k : k = [proc[a] EXCEPT !.written = v]
    OBVIOUS
  <1>9. k \in Proc /\ k.pc = "writing" /\ k.rec = proc[a].rec /\ k.start = proc[a].start /\ k.written = v
    BY <1>1, <1>8, WrittenProc
  <1>10. proc' = [proc EXCEPT ![a] = k]
    BY <1>1, <1>2, <1>4, <1>8 DEF WriteChunk
  <1>11. ChunksFrom(file', proc[a].start, proc[a].written, v, proc[a].rec) /\ Extends(file', file)
    <2>1. \A n \in (w + 1)..v : n = v
      BY <1>4
    <2> QED  BY <1>2, <1>5, <1>7, <2>1 DEF ChunksFrom, Extends
  <1>12. proc[a].written <= v /\ v # proc[a].written /\ Len(file') = proc[a].start + v
    BY <1>2, <1>4, <1>7
  <1> QED  BY <1>1, <1>3, <1>7, <1>9, <1>10, <1>11, <1>12, ChainGrows

(* A rollback that fails has flushed the rest of the line: the record is     *)
(* appended and never acknowledged.                                          *)
LEMMA ChainRollBackFails ==
    ASSUME LedgerInv, LedgerInv', ChainInv, NEW a \in Appenders, RollBackFails(a)
    PROVE  ChainInv' /\ LogStep
  <1>1. /\ proc \in [Appenders -> Proc] /\ proc[a].pc = "rollback" /\ started \in Nat
        /\ UNCHANGED <<started, acked>>
    BY DEF LedgerInv, TypeOK, RollBackFails
  <1>2. PICK w \in 0..1, s \in Nat : w = proc[a].written /\ s = proc[a].start /\ Len(file) = s + w
    BY <1>1, OwnPart DEF ChainInv, Names
  <1>3. PICK k : k = [proc[a] EXCEPT !.pc = "leaving"]
    OBVIOUS
  <1>4. k \in Proc /\ k.pc = "leaving" /\ k.rec = proc[a].rec /\ k.start = proc[a].start
        /\ proc' = [proc EXCEPT ![a] = k]
    BY <1>1, <1>3 DEF Proc, RollBackFails
  <1>5. CASE UNCHANGED file
    <2>1. Waits(k) /\ Names(k)
      BY <1>4 DEF Waits, Names
    <2>2. proc[a].pc # "idle" /\ ~(proc[a].pc = "writing" /\ proc[a].written = 2)
          /\ k.rec.id = proc[a].rec.id /\ started <= started'
      BY <1>1, <1>4
    <2>3. ChainInv'
      BY <1>1, <1>4, <1>5, <2>1, <2>2, QuietStep
    <2> QED  BY <1>1, <1>5, <2>3 DEF LogStep
  <1>6. CASE file' = file \o SubSeq(Line(proc[a].rec), proc[a].written + 1, 3)
    <2>1. file \in Seq(Chunk) /\ proc[a].rec \in Record
      BY <1>1, OwnPart
    <2>2. PICK g : g = file \o SubSeq(Line(proc[a].rec), w + 1, 3)
      OBVIOUS
    <2>3. /\ g \in Seq(Chunk) /\ Len(g) = s + 3
          /\ Extends(g, file) /\ ChunksFrom(g, s, w, 3, proc[a].rec)
      <3>1. w \in 0..3
        BY <1>2
      <3> QED  BY <1>2, <2>1, <2>2, <3>1, RestOfLine
    <2>4. file' = g
      BY <1>2, <1>6, <2>2
    <2>5. /\ file' \in Seq(Chunk) /\ Len(file') = proc[a].start + 3
          /\ Extends(file', file) /\ ChunksFrom(file', proc[a].start, proc[a].written, 3, proc[a].rec)
      BY <1>2, <2>3, <2>4
    <2>6. 3 \in 0..3 /\ proc[a].written <= 3 /\ 3 # proc[a].written
      BY <1>2
    <2>7. (k.pc = "leaving" /\ 3 = 3) \/ (k.pc = "writing" /\ k.written = 3)
      BY <1>4
    <2>8. proc[a].pc \in {"writing", "rollback"} /\ UNCHANGED <<started, acked>>
      BY <1>1
    <2> QED  BY <1>4, <2>5, <2>6, <2>7, <2>8, ChainGrows
  <1> QED  BY <1>5, <1>6 DEF RollBackFails

(* Every step of an appender keeps the invariant and is a step of the log or *)
(* none of it.                                                               *)
LEMMA StepChain ==
    ASSUME Chained, 3 \notin TornAt, LedgerInv, LedgerInv', ChainInv, NEW a \in Appenders, Step(a)
    PROVE  ChainInv' /\ LogStep
  <1>1. CASE Begin(a) \/ Lock(a) \/ GiveUp(a) \/ ReadLast(a) \/ ReadRaises(a) \/ WriteFails(a) \/ Unlock(a) \/ Die(a)
    <2>1. UNCHANGED <<file, acked>>
      BY <1>1 DEF Begin, Lock, GiveUp, ReadLast, ReadRaises, WriteFails, Unlock, Die
    <2>2. ChainInv'
      BY <1>1, ChainBegin, ChainLock, ChainEnds, ChainReadLast, ChainWriteFails
    <2> QED  BY <2>1, <2>2 DEF LogStep
  <1>2. CASE WriteChunk(a)
    BY <1>2, ChainWrite
  <1>3. CASE Sync(a)
    BY <1>3, ChainSync
  <1>4. CASE SyncFails(a) \/ RollBack(a)
    BY <1>4, ChainCut
  <1>5. CASE RollBackFails(a)
    BY <1>5, ChainRollBackFails
  <1> QED  BY <1>1, <1>2, <1>3, <1>4, <1>5 DEF Step

(* An empty file is an empty log.                                            *)
LEMMA InitLog == Init => Log!Init
  <1> SUFFICES ASSUME Init PROVE Log!Init
    OBVIOUS
  <1>1. file = <<>> /\ acked = {}
    BY DEF Init
  <1>2. PICK f \in Seq(Chunk) : f = <<>>
    <2>1. <<>> \in Seq(Chunk)
      OBVIOUS
    <2> QED  BY <2>1
  <1>3. WholeLines(f) /\ Len(f) = 3 * 0 /\ 0 \in Nat
    BY <1>1, <1>2 DEF WholeLines
  <1>4. Readable(f) = <<>>
    BY <1>3, LastFound
  <1> QED  BY <1>1, <1>2, <1>4 DEF Log!Init

(* The same of every step of the ledger.                                     *)
LEMMA ChainedStep ==
    ASSUME Chained, 3 \notin TornAt, LedgerInv, LedgerInv', ChainInv, [Next]_vars
    PROVE  ChainInv' /\ LogStep
  <1>1. CASE Next
    BY <1>1, StepChain DEF Next
  <1>2. CASE UNCHANGED vars
    BY <1>2 DEF vars, ChainInv, HalfIsHeld, Numbers, Waits, Names, NotYetOn, LogStep, WholeLines
  <1> QED  BY <1>1, <1>2

(* A chained ledger (append_record, jsonl_store.py) whose writes never stop *)
(* right before a newline implements the log of AppendLog: every record a   *)
(* reader finds names the one found before it, one that was acknowledged    *)
(* stays, and the file is cut by one unacknowledged record at most.         *)
THEOREM LedgerImplementsLog ==
    ASSUME Chained, 3 \notin TornAt
    PROVE  Spec => ImplementsLog
  <1>1. LedgerInv /\ LedgerInv' /\ ChainInv /\ [Next]_vars => ChainInv' /\ LogStep
    BY ChainedStep
  <1>2. LogStep => [Log!Next]_<<Readable(file), acked>>
    <2>1. Readable(file)' = Readable(file')
      BY DEF Readable
    <2> QED  BY <2>1 DEF LogStep
  <1>3. Init => Log!Init /\ ChainInv
    BY InitLog, InitChain
  <1> QED  BY <1>1, <1>2, <1>3, LedgerInvariant, PTL DEF Spec, ImplementsLog, Log!Spec

(* A step of the log keeps what was acknowledged readable.                   *)
LEMMA AckedStep ==
    ASSUME LedgerInv, ChainInv, LogStep, AcknowledgedIsReadable
    PROVE  AcknowledgedIsReadable'
  <1>1. Readable(file)' = Readable(file')
    BY DEF Readable
  <1>2. PICK log : log = Readable(file) /\ \A id \in acked : \E k \in DOMAIN log : log[k].id = id
    BY DEF AcknowledgedIsReadable
  <1>3. PICK n \in Nat : DOMAIN log = 1..n /\ (log # <<>> => Len(log) = n) /\ log \in Seq(Record)
    <2>1. file \in Seq(Chunk) /\ WholeLines(file)
      BY DEF LedgerInv, TypeOK, ChainInv
    <2>2. PICK m \in Nat : /\ m = Found(file) /\ \A k \in 1..m : 3 * k - 2 \in DOMAIN file
                           /\ log = [k \in 1..m |-> file[3 * k - 2].rec]
      BY <1>2, <2>1, ReadableIs
    <2>3. \A k \in 1..m : file[3 * k - 2] \in Chunk
      BY <2>1, <2>2
    <2>4. log \in [1..m -> Record]
      BY <2>2, <2>3 DEF Chunk
    <2> QED  BY <2>4
  <1>4. PICK new : new = Readable(file')
    OBVIOUS
  <1>5. SUFFICES \A id \in acked' : \E k \in DOMAIN new : new[k].id = id
    BY <1>1, <1>4 DEF AcknowledgedIsReadable
  <1>6. CASE new = log /\ acked' = acked
    BY <1>2, <1>6
  <1>7. CASE Log!AppendRecord
    <2>1. PICK id \in 1..MaxAppends : new = Append(log, [id |-> id, prev |-> Log!LastId]) /\ acked' = acked
      BY <1>1, <1>2, <1>4, <1>7 DEF Log!AppendRecord
    <2>2. \A k \in DOMAIN log : k \in DOMAIN new /\ new[k] = log[k]
      BY <1>3, <2>1
    <2> QED  BY <1>2, <2>1, <2>2
  <1>8. CASE Log!Withdraw
    <2>1. log # <<>> /\ log[Len(log)].id \notin acked /\ new = SubSeq(log, 1, Len(log) - 1) /\ acked' = acked
      BY <1>1, <1>2, <1>4, <1>8 DEF Log!Withdraw, Log!LastId
    <2>2. ASSUME NEW id \in acked PROVE \E k \in DOMAIN new : new[k].id = id
      <3>1. PICK k \in 1..n : log[k].id = id
        BY <1>2, <1>3
      <3>2. k # n
        BY <1>3, <2>1, <3>1
      <3>3. k \in 1..(n - 1)
        BY <3>2
      <3>4. k \in DOMAIN new /\ new[k] = log[k]
        BY <1>3, <2>1, <3>3
      <3> QED  BY <3>1, <3>4
    <2> QED  BY <2>1, <2>2
  <1>9. CASE Log!Acknowledge
    BY <1>1, <1>2, <1>4, <1>9 DEF Log!Acknowledge
  <1> QED  BY <1>2, <1>4, <1>6, <1>7, <1>8, <1>9 DEF LogStep, Log!Next

(* In the same ledgers a record whose append returned can be read back for  *)
(* good: what jsonl_torn_newline refutes needs a write that stops right     *)
(* before a newline.                                                        *)
THEOREM AcknowledgedStaysReadable ==
    ASSUME Chained, 3 \notin TornAt
    PROVE  Spec => []AcknowledgedIsReadable
  <1>1. Init => AcknowledgedIsReadable
    BY DEF Init, AcknowledgedIsReadable
  <1>2. LedgerInv /\ LedgerInv' /\ ChainInv /\ AcknowledgedIsReadable /\ [Next]_vars
            => AcknowledgedIsReadable'
    BY ChainedStep, AckedStep
  <1>3. LedgerInv /\ LedgerInv' /\ ChainInv /\ [Next]_vars => ChainInv'
    BY ChainedStep
  <1> QED  BY <1>1, <1>2, <1>3, InitChain, LedgerInvariant, PTL DEF Spec

----------------------------------------------------------------------------
(* Any ledger, chained or not, and wherever a write may stop.               *)

Open == {"reading", "writing", "rollback"}

(* A whole line of record id starts at chunk i.                             *)
LineOf(f, i, id) ==
    /\ i + 2 <= Len(f)
    /\ f[i].rec.id = id
    /\ \A k \in 0..2 : f[i + k] = Line(f[i].rec)[k + 1]

(* No rollback reaches the line of an acknowledged record.                  *)
KeptInv ==
    \A id \in acked : \E i \in DOMAIN file :
        /\ LineOf(file, i, id)
        /\ \A a \in Appenders : proc[a].pc \in Open => i + 2 <= proc[a].start

(* Fragments among the first n chunks, by the place of their last chunk.    *)
Gaps(f, n) == {i \in 1..n : f[i].part # 3 /\ (i < Len(f) => f[i + 1].part = 1)}

Owes(a) == IF proc[a].pc = "rollback" THEN 1 ELSE 0

(* Every fragment was paid for by a failure, and the one that a rollback is *)
(* about to leave is paid for already.                                      *)
GapInv ==
    /\ \A a \in Appenders : proc[a].pc \in Open =>
          Cardinality(Gaps(file, proc[a].start)) + Owes(a) <= faults
    /\ (\A a \in Appenders : proc[a].pc \notin Open) =>
          Cardinality(Gaps(file, Len(file))) <= faults

(* There are finitely many fragments.                                        *)
LEMMA GapsFinite ==
    ASSUME NEW f, NEW n \in Nat
    PROVE  IsFiniteSet(Gaps(f, n)) /\ Cardinality(Gaps(f, n)) \in Nat
  <1>1. IsFiniteSet(1..n)
    BY FS_Interval
  <1>2. Gaps(f, n) \subseteq 1..n
    BY DEF Gaps
  <1>3. IsFiniteSet(Gaps(f, n))
    BY <1>1, <1>2, FS_Subset
  <1> QED  BY <1>3, FS_CardinalityType

(* One fragment more costs one more.                                         *)
LEMMA OneGapMore ==
    ASSUME NEW f, NEW n \in Nat, NEW g, NEW m \in Nat, NEW x, Gaps(g, m) \subseteq Gaps(f, n) \cup {x}
    PROVE  Cardinality(Gaps(g, m)) <= Cardinality(Gaps(f, n)) + 1
  <1>1. IsFiniteSet(Gaps(f, n)) /\ Cardinality(Gaps(f, n)) \in Nat
    BY GapsFinite
  <1>2. /\ IsFiniteSet(Gaps(f, n) \cup {x})
        /\ Cardinality(Gaps(f, n) \cup {x}) <= Cardinality(Gaps(f, n)) + 1
    <2> DEFINE G == Gaps(f, n)
    <2>1. IsFiniteSet(G) /\ Cardinality(G) \in Nat
      BY <1>1
    <2> HIDE DEF G
    <2>2. /\ IsFiniteSet(G \cup {x})
          /\ Cardinality(G \cup {x}) = IF x \in G THEN Cardinality(G) ELSE Cardinality(G) + 1
      BY <2>1, FS_AddElement, Zenon
    <2>3. Cardinality(G \cup {x}) <= Cardinality(G) + 1
      BY <2>1, <2>2
    <2> QED  BY <2>2, <2>3 DEF G
  <1>3. Cardinality(Gaps(g, m)) <= Cardinality(Gaps(f, n) \cup {x})
    BY <1>2, FS_Subset
  <1>4. Cardinality(Gaps(g, m)) \in Nat /\ Cardinality(Gaps(f, n) \cup {x}) \in Nat
    BY <1>2, GapsFinite, FS_CardinalityType
  <1> QED  BY <1>1, <1>2, <1>3, <1>4

(* No more fragments cost no more.                                           *)
LEMMA NoGapMore ==
    ASSUME NEW f, NEW n \in Nat, NEW g, NEW m \in Nat, Gaps(g, m) \subseteq Gaps(f, n)
    PROVE  Cardinality(Gaps(g, m)) <= Cardinality(Gaps(f, n))
  BY GapsFinite, FS_Subset

(* What lies before a line that has been begun, or where nothing has been,  *)
(* has no more fragments when the file goes on differently.                  *)
LEMMA GapsBefore ==
    ASSUME NEW f \in Seq(Chunk), NEW g \in Seq(Chunk), NEW n \in Nat, n <= Len(f), n <= Len(g),
           \A i \in 1..n : g[i] = f[i], n < Len(f) => f[n + 1].part = 1
    PROVE  Gaps(g, n) \subseteq Gaps(f, n)
  BY SMTT(30) DEF Gaps

(* A line that stops short adds at most the fragment that it is; a whole one *)
(* or none adds nothing.                                                     *)
LEMMA GapsWithLine ==
    ASSUME NEW f \in Seq(Chunk), NEW s \in Nat, NEW w \in 0..3, Len(f) = s + w,
           \A k \in 1..w : f[s + k].part = k
    PROVE  /\ Gaps(f, Len(f)) \subseteq Gaps(f, s) \cup {s + w}
           /\ w \in {0, 3} => Gaps(f, Len(f)) \subseteq Gaps(f, s)
  <1>1. ASSUME NEW i \in Gaps(f, Len(f)), i > s
        PROVE  i = s + w /\ w # 3 /\ w # 0
    <2>1. i \in 1..(s + w) /\ i - s \in 1..w /\ f[i].part # 3 /\ (i < s + w => f[i + 1].part = 1)
      BY <1>1 DEF Gaps
    <2>2. f[i].part = i - s
      <3>1. f[s + (i - s)].part = i - s
        BY <2>1
      <3> QED  BY <2>1, <3>1
    <2>3. i < s + w => f[i + 1].part = i - s + 1
      <3>1. i < s + w => f[s + (i - s + 1)].part = i - s + 1
        BY <2>1
      <3> QED  BY <2>1, <3>1
    <2> QED  BY <2>1, <2>2, <2>3
  <1>2. ASSUME NEW i \in Gaps(f, Len(f)), i <= s
        PROVE  i \in Gaps(f, s)
    BY <1>2 DEF Gaps
  <1>3. \A i \in Gaps(f, Len(f)) : i \in Nat
    BY DEF Gaps
  <1> QED  BY <1>1, <1>2, <1>3

(* An appender that can still roll back is alone and has its own line behind *)
(* its start.                                                                *)
LEMMA OpenLine ==
    ASSUME LedgerInv, NEW a \in Appenders, proc[a].pc \in Open
    PROVE  /\ \A b \in Appenders \ {a} : proc[b].pc \notin Holding /\ proc[b].pc \notin Open
           /\ proc[a].start \in Nat /\ proc[a].written \in 0..3 /\ proc[a].rec \in Record
           /\ Len(file) = proc[a].start + proc[a].written
           /\ \A k \in 1..proc[a].written : /\ file[proc[a].start + k] = Line(proc[a].rec)[k]
                                            /\ file[proc[a].start + k].part = k
           /\ proc[a].pc = "reading" => proc[a].written = 0
           /\ proc[a].start < Len(file) => file[proc[a].start + 1].part = 1
  <1> DEFINE q == proc[a]
  <1>1. q \in Proc /\ q.pc \in Holding /\ q.pc # "leaving"
    BY DEF LedgerInv, TypeOK, Open, Holding
  <1>2. \A b \in Appenders \ {a} : proc[b].pc \notin Holding
    BY <1>1, Alone
  <1>3. \A b \in Appenders \ {a} : proc[b].pc \notin Open
    BY <1>2 DEF Open, Holding
  <1>4. q.start \in Nat /\ q.written \in 0..3 /\ q.rec.id \in 1..MaxAppends /\ q.rec.prev \in 0..MaxAppends
        /\ q.rec \in Record
    BY <1>1 DEF LedgerInv, Numbered, Proc, Holding, Record
  <1>5. Len(file) = q.start + q.written /\ \A k \in 1..q.written : file[q.start + k] = Line(q.rec)[k]
    BY <1>1 DEF LedgerInv, OnlyOwnLine
  <1>6. \A k \in 1..q.written : file[q.start + k].part = k
    <2> SUFFICES ASSUME NEW k \in 1..q.written PROVE file[q.start + k].part = k
      OBVIOUS
    <2>1. k \in 1..3
      BY <1>4
    <2>2. Line(q.rec)[k].part = k
      BY <2>1 DEF Line
    <2> QED  BY <1>5, <2>2
  <1>7. q.pc = "reading" => q.written = 0
    BY DEF LedgerInv, Unwritten
  <1>8. q.start < Len(file) => file[q.start + 1].part = 1
    BY <1>4, <1>5, <1>6
  <1> QED  BY <1>2, <1>3, <1>4, <1>5, <1>6, <1>7, <1>8

DurableInv == KeptInv /\ GapInv

(* A step that leaves the file, and neither opens nor closes it.             *)
LEMMA FileRests ==
    ASSUME LedgerInv, DurableInv, NEW a \in Appenders,
           UNCHANGED <<file, acked>>, faults' \in Nat, faults' >= faults,
           \A b \in Appenders \ {a} : proc'[b] = proc[b],
           proc'[a].pc \in Open <=> proc[a].pc \in Open,
           proc[a].pc \in Open => proc'[a].start = proc[a].start,
           proc'[a].pc = "rollback" => proc[a].pc = "rollback" \/ faults' = faults + 1
    PROVE  DurableInv'
  <1>1. \A b \in Appenders : /\ proc'[b].pc \in Open <=> proc[b].pc \in Open
                             /\ proc[b].pc \in Open => proc'[b].start = proc[b].start
    OBVIOUS
  <1>2. KeptInv'
    BY <1>1 DEF DurableInv, KeptInv
  <1>3. faults \in Nat
    BY BoundAssumption DEF LedgerInv, TypeOK
  <1>4. ASSUME NEW b \in Appenders, proc'[b].pc \in Open
        PROVE  Cardinality(Gaps(file', proc'[b].start)) + Owes(b)' <= faults'
    <2>1. proc[b].pc \in Open /\ proc'[b].start = proc[b].start /\ proc[b].start \in Nat
      BY <1>1, <1>4, OpenLine
    <2>2. Cardinality(Gaps(file, proc[b].start)) \in Nat
      BY <2>1, GapsFinite
    <2>3. Cardinality(Gaps(file, proc[b].start)) + Owes(b) <= faults
      BY <2>1 DEF DurableInv, GapInv
    <2>4. Owes(b)' <= Owes(b) \/ (Owes(b)' = 1 /\ faults' = faults + 1)
      BY DEF Owes
    <2>5. Owes(b) \in 0..1 /\ Owes(b)' \in 0..1
      BY DEF Owes
    <2> QED  BY <1>3, <2>1, <2>2, <2>3, <2>4, <2>5
  <1>5. ASSUME \A b \in Appenders : proc'[b].pc \notin Open
        PROVE  Cardinality(Gaps(file', Len(file'))) <= faults'
    <2>1. Cardinality(Gaps(file, Len(file))) <= faults
      BY <1>1, <1>5 DEF DurableInv, GapInv
    <2>2. Len(file) \in Nat
      BY DEF LedgerInv, TypeOK
    <2>3. Cardinality(Gaps(file, Len(file))) \in Nat
      BY <2>2, GapsFinite
    <2> QED  BY <1>3, <2>1, <2>3
  <1> QED  BY <1>2, <1>4, <1>5 DEF DurableInv, GapInv

(* A step that ends the access to the file: what it leaves of its own line   *)
(* is nothing, all, or a fragment that was paid for.                         *)
LEMMA FileIsLeft ==
    ASSUME LedgerInv, DurableInv, NEW a \in Appenders, proc[a].pc \in Open, proc'[a].pc \notin Open,
           \A b \in Appenders \ {a} : proc'[b] = proc[b],
           file' \in Seq(Chunk), NEW v \in 0..3, Len(file') = proc[a].start + v,
           \A i \in 1..proc[a].start : file'[i] = file[i],
           \A k \in 1..v : file'[proc[a].start + k].part = k,
           faults' \in Nat, faults' >= faults,
           v \in {0, 3} \/ proc[a].pc = "rollback" \/ faults' = faults + 1,
           \/ acked' = acked
           \/ acked' = acked \cup {proc[a].rec.id} /\ v = 3 /\ LineOf(file', proc[a].start + 1, proc[a].rec.id)
    PROVE  DurableInv'
  <1> DEFINE s == proc[a].start
  <1>1. /\ \A b \in Appenders \ {a} : proc[b].pc \notin Open
        /\ s \in Nat /\ s <= Len(file) /\ (s < Len(file) => file[s + 1].part = 1)
        /\ file \in Seq(Chunk) /\ faults \in Nat
    BY OpenLine, BoundAssumption DEF LedgerInv, TypeOK
  <1>2. \A b \in Appenders : proc'[b].pc \notin Open
    BY <1>1
  <1>3. KeptInv'
    <2> SUFFICES ASSUME NEW id \in acked'
                 PROVE  \E i \in DOMAIN file' : LineOf(file', i, id)
      BY <1>2 DEF KeptInv
    <2>1. CASE id \in acked
      <3>1. PICK i \in DOMAIN file : LineOf(file, i, id) /\ i + 2 <= s
        BY <2>1 DEF DurableInv, KeptInv
      <3>2. i \in 1..s /\ i + 1 \in 1..s /\ i + 2 \in 1..s
        BY <1>1, <3>1, SMTT(30)
      <3>3. \A k \in 0..2 : i + k \in 1..s
        BY <3>2
      <3>4. i \in DOMAIN file' /\ i + 2 <= Len(file') /\ file'[i] = file[i]
        BY <1>1, <3>2, SMTT(30)
      <3>5. \A k \in 0..2 : file'[i + k] = Line(file'[i].rec)[k + 1]
        BY <3>1, <3>3, <3>4 DEF LineOf
      <3> QED  BY <3>1, <3>4, <3>5 DEF LineOf
    <2>2. CASE id \notin acked
      <3>1. id = proc[a].rec.id /\ v = 3 /\ LineOf(file', s + 1, id)
        BY <2>2
      <3>2. s + 1 \in DOMAIN file'
        BY <1>1, <3>1
      <3> QED  BY <3>1, <3>2
    <2> QED  BY <2>1, <2>2
  <1>4. Gaps(file', s) \subseteq Gaps(file, s)
    <2>1. s <= Len(file') /\ \A i \in 1..s : file'[i] = file[i]
      BY <1>1
    <2> QED  BY <1>1, <2>1, GapsBefore
  <1>5. /\ Gaps(file', Len(file')) \subseteq Gaps(file', s) \cup {s + v}
        /\ v \in {0, 3} => Gaps(file', Len(file')) \subseteq Gaps(file', s)
    BY <1>1, GapsWithLine
  <1>6. Cardinality(Gaps(file, s)) \in Nat /\ Cardinality(Gaps(file, s)) + Owes(a) <= faults
    BY <1>1, GapsFinite DEF DurableInv, GapInv
  <1>7. Len(file') \in Nat /\ Cardinality(Gaps(file', Len(file'))) \in Nat
    <2>1. Len(file') \in Nat
      OBVIOUS
    <2> QED  BY <2>1, GapsFinite
  <1>8. Cardinality(Gaps(file', Len(file'))) <= faults'
    <2>1. CASE v \in {0, 3}
      <3>1. Gaps(file', Len(file')) \subseteq Gaps(file, s)
        BY <1>4, <1>5, <2>1
      <3>2. Cardinality(Gaps(file', Len(file'))) <= Cardinality(Gaps(file, s))
        BY <1>1, <1>7, <3>1, NoGapMore
      <3>3. Owes(a) \in 0..1
        BY DEF Owes
      <3> QED  BY <1>1, <1>6, <1>7, <3>2, <3>3
    <2>2. CASE v \notin {0, 3}
      <3>1. Gaps(file', Len(file')) \subseteq Gaps(file, s) \cup {s + v}
        BY <1>4, <1>5
      <3>2. Cardinality(Gaps(file', Len(file'))) <= Cardinality(Gaps(file, s)) + 1
        BY <1>1, <1>7, <3>1, OneGapMore
      <3>3. Owes(a) = 1 \/ (Owes(a) = 0 /\ faults' = faults + 1)
        BY <2>2 DEF Owes
      <3> QED  BY <1>1, <1>6, <1>7, <3>2, <3>3
    <2> QED  BY <2>1, <2>2
  <1> QED  BY <1>2, <1>3, <1>8 DEF DurableInv, GapInv

(* The lock is taken: the file is opened at its end.                         *)
LEMMA FileIsOpened ==
    ASSUME LedgerInv, DurableInv, NEW a \in Appenders, Lock(a)
    PROVE  DurableInv'
  <1>1. proc \in [Appenders -> Proc] /\ file \in Seq(Chunk) /\ faults \in Nat
    BY BoundAssumption DEF LedgerInv, TypeOK
  <1>2. /\ proc'[a].pc \in {"reading", "writing"} /\ proc'[a].start = Len(file) /\ proc[a].pc = "locking"
        /\ \A b \in Appenders \ {a} : proc'[b] = proc[b]
        /\ UNCHANGED <<file, acked, faults>>
    BY <1>1 DEF Lock, Proc
  <1>3. \A b \in Appenders : proc[b].pc \notin Open
    <2>1. \A b \in Appenders : proc[b].pc \notin Holding
      BY OwnerAssumption DEF Lock, LedgerInv, OnlyOwnLine
    <2> QED  BY <2>1 DEF Open, Holding
  <1>4. KeptInv'
    <2> SUFFICES ASSUME NEW id \in acked
                 PROVE  \E i \in DOMAIN file : LineOf(file, i, id) /\ i + 2 <= Len(file)
      BY <1>2, <1>3 DEF KeptInv
    <2> QED  BY DEF DurableInv, KeptInv, LineOf
  <1>5. Cardinality(Gaps(file, Len(file))) <= faults
    BY <1>3 DEF DurableInv, GapInv
  <1>6. Cardinality(Gaps(file, Len(file))) \in Nat
    BY <1>1, GapsFinite
  <1>7. proc'[a].pc \in Open /\ Owes(a)' = 0
    BY <1>2 DEF Open, Owes
  <1> QED  BY <1>2, <1>3, <1>4, <1>5, <1>6, <1>7 DEF DurableInv, GapInv

(* One more chunk.                                                           *)
LEMMA FileGrows ==
    ASSUME LedgerInv, LedgerInv', DurableInv, NEW a \in Appenders, WriteChunk(a)
    PROVE  DurableInv'
  <1> DEFINE s == proc[a].start
  <1>1. proc \in [Appenders -> Proc] /\ file \in Seq(Chunk) /\ file' \in Seq(Chunk) /\ faults \in Nat
    BY BoundAssumption DEF LedgerInv, TypeOK
  <1>2. /\ proc[a].pc = "writing" /\ proc'[a].pc = "writing" /\ proc'[a].start = s
        /\ \A b \in Appenders \ {a} : proc'[b] = proc[b]
        /\ UNCHANGED <<acked, faults>>
    BY <1>1 DEF WriteChunk, Proc
  <1>3. /\ \A b \in Appenders \ {a} : proc[b].pc \notin Open
        /\ s \in Nat /\ s <= Len(file) /\ (s < Len(file) => file[s + 1].part = 1)
    BY <1>1, <1>2, OpenLine DEF Open
  <1>4. Len(file') = Len(file) + 1 /\ \A i \in 1..Len(file) : file'[i] = file[i]
    BY <1>1 DEF WriteChunk
  <1>5. KeptInv'
    <2> SUFFICES ASSUME NEW id \in acked
                 PROVE  \E i \in DOMAIN file' : LineOf(file', i, id) /\ i + 2 <= s
      BY <1>2, <1>3 DEF KeptInv
    <2>1. PICK i \in DOMAIN file : LineOf(file, i, id) /\ i + 2 <= s
      BY <1>2 DEF DurableInv, KeptInv, Open
    <2>2. \A k \in 0..2 : i + k \in 1..Len(file)
      BY <1>1, <2>1 DEF LineOf
    <2>3. i \in DOMAIN file' /\ file'[i] = file[i] /\ i + 2 <= Len(file')
      BY <1>1, <1>4, <2>1 DEF LineOf
    <2> QED  BY <1>4, <2>1, <2>2, <2>3 DEF LineOf
  <1>6. Gaps(file', s) \subseteq Gaps(file, s)
    BY <1>1, <1>3, <1>4, GapsBefore
  <1>7. Cardinality(Gaps(file', s)) <= Cardinality(Gaps(file, s))
    BY <1>3, <1>6, NoGapMore
  <1>8. /\ Cardinality(Gaps(file, s)) + Owes(a) <= faults /\ Owes(a)' = 0 /\ Owes(a) = 0
        /\ Cardinality(Gaps(file, s)) \in Nat /\ Cardinality(Gaps(file', s)) \in Nat
    BY <1>2, <1>3, GapsFinite DEF DurableInv, GapInv, Open, Owes
  <1>9. Cardinality(Gaps(file', s)) + Owes(a)' <= faults
    BY <1>1, <1>7, <1>8
  <1> QED  BY <1>2, <1>3, <1>5, <1>9, Zenon DEF DurableInv, GapInv, Open

(* The w chunks after s are the first w parts of a line. *)
OwnParts(f, s, w) == \A k \in 1..w : f[s + k].part = k

(* A line whose rest is flushed is a line again.                             *)
LEMMA FlushedLine ==
    ASSUME NEW f \in Seq(Chunk), NEW rec \in Record, NEW w \in 0..3, NEW s \in Nat, Len(f) = s + w,
           OwnParts(f, s, w)
    PROVE  LET g == f \o SubSeq(Line(rec), w + 1, 3)
           IN  Len(g) = s + 3 /\ (\A i \in 1..s : g[i] = f[i]) /\ OwnParts(g, s, 3)
  <1> DEFINE g == f \o SubSeq(Line(rec), w + 1, 3)
  <1>1. g \in Seq(Chunk) /\ Len(g) = s + 3 /\ Extends(g, f) /\ ChunksFrom(g, s, w, 3, rec)
    BY RestOfLine
  <1> HIDE DEF g
  <1>2. DOMAIN f = 1..(s + w)
    OBVIOUS
  <1>3. \A i \in 1..(s + w) : g[i] = f[i]
    BY <1>1, <1>2 DEF Extends
  <1>4. \A i \in 1..s : g[i] = f[i]
    <2>1. \A i \in 1..s : i \in 1..(s + w)
      OBVIOUS
    <2> QED  BY <1>3, <2>1
  <1>5. ASSUME NEW k \in 1..3 PROVE g[s + k].part = k
    <2>1. CASE k \in 1..w
      <3>1. s + k \in 1..(s + w)
        BY <2>1
      <3> QED  BY <1>3, <2>1, <3>1 DEF OwnParts
    <2>2. CASE k \in (w + 1)..3
      <3>1. g[s + k] = Line(rec)[k]
        BY <1>1, <2>2 DEF ChunksFrom
      <3> QED  BY <3>1 DEF Line
    <2> QED  BY <2>1, <2>2
  <1> QED  BY <1>1, <1>4, <1>5 DEF g, OwnParts

(* The steps that end the access.                                            *)
LEMMA FileIsClosed ==
    ASSUME LedgerInv, LedgerInv', DurableInv, NEW a \in Appenders,
           \/ ReadRaises(a) \/ Sync(a) \/ SyncFails(a) \/ RollBack(a) \/ RollBackFails(a)
           \/ Die(a) /\ proc[a].pc \in Open
    PROVE  DurableInv'
  <1> DEFINE q == proc[a]
             s == proc[a].start
  <1>1. /\ proc \in [Appenders -> Proc] /\ file \in Seq(Chunk) /\ file' \in Seq(Chunk)
        /\ faults \in Nat /\ faults' \in Nat
    BY BoundAssumption DEF LedgerInv, TypeOK
  <1>2. q.pc \in Open /\ proc'[a].pc \notin Open /\ \A b \in Appenders \ {a} : proc'[b] = proc[b]
    BY <1>1 DEF ReadRaises, Sync, SyncFails, RollBack, RollBackFails, Die, Open, Proc, Idle
  <1>3. /\ s \in Nat /\ q.written \in 0..3 /\ q.rec \in Record /\ Len(file) = s + q.written
        /\ \A k \in 1..q.written : file[s + k] = Line(q.rec)[k] /\ file[s + k].part = k
        /\ q.pc = "reading" => q.written = 0
    BY <1>2, OpenLine
  <1>4. faults' >= faults
    BY <1>1 DEF ReadRaises, Sync, SyncFails, RollBack, RollBackFails, Die, Fault
  <1>5. CASE ReadRaises(a)
    BY <1>1, <1>2, <1>3, <1>4, <1>5, FileIsLeft DEF ReadRaises
  <1>6. CASE Sync(a)
    <2>1. q.written = 3 /\ acked' = acked \cup {q.rec.id} /\ file' = file
      BY <1>6 DEF Sync
    <2>2. LineOf(file', s + 1, q.rec.id)
      <3>1. \A k \in 1..3 : file[s + k] = [rec |-> q.rec, part |-> k]
        BY <1>3, <2>1 DEF Line
      <3>2. file[s + 1] = [rec |-> q.rec, part |-> 1] /\ file[s + 2] = [rec |-> q.rec, part |-> 2]
            /\ file[s + 3] = [rec |-> q.rec, part |-> 3]
        BY <3>1
      <3>3. \A k \in 0..2 : k = 0 \/ k = 1 \/ k = 2
        OBVIOUS
      <3>4. /\ file[s + 1 + 0] = Line(q.rec)[0 + 1] /\ file[s + 1 + 1] = Line(q.rec)[1 + 1]
            /\ file[s + 1 + 2] = Line(q.rec)[2 + 1]
        BY <1>3, <3>2, SMTT(30) DEF Line
      <3> QED  BY <1>3, <2>1, <3>2, <3>3, <3>4 DEF LineOf
    <2> QED  BY <1>1, <1>2, <1>3, <1>4, <2>1, <2>2, FileIsLeft
  <1>7. CASE SyncFails(a) \/ RollBack(a)
    <2>1. file' = SubSeq(file, 1, s) /\ acked' = acked
      BY <1>7 DEF SyncFails, RollBack
    <2>2. Len(file') = s + 0 /\ \A i \in 1..s : file'[i] = file[i]
      BY <1>1, <1>3, <2>1
    <2>3. \A k \in 1..0 : file'[s + k].part = k
      OBVIOUS
    <2>4. 0 \in 0..3 /\ 0 \in {0, 3}
      OBVIOUS
    <2> QED  BY <1>1, <1>2, <1>4, <2>1, <2>2, <2>3, <2>4, FileIsLeft, Zenon
  <1>8. CASE RollBackFails(a)
    <2>1. q.pc = "rollback" /\ acked' = acked
      BY <1>8 DEF RollBackFails
    <2>2. CASE file' = file
      BY <1>1, <1>2, <1>3, <1>4, <2>1, <2>2, FileIsLeft
    <2>3. CASE file' = file \o SubSeq(Line(q.rec), q.written + 1, 3)
      <3>1. \A k \in 1..q.written : file[s + k].part = k
        BY <1>3
      <3>2. /\ Len(file') = s + 3 /\ \A i \in 1..s : file'[i] = file[i]
            /\ \A k \in 1..3 : file'[s + k].part = k
        <4>1. PICK rec \in Record, w \in 0..3, n \in Nat, f \in Seq(Chunk) :
                rec = q.rec /\ w = q.written /\ n = s /\ f = file
          BY <1>1, <1>3
        <4>2. Len(f) = n + w /\ OwnParts(f, n, w)
          BY <1>3, <3>1, <4>1 DEF OwnParts
        <4>3. PICK g : g = f \o SubSeq(Line(rec), w + 1, 3)
          OBVIOUS
        <4>4. Len(g) = n + 3 /\ (\A i \in 1..n : g[i] = f[i]) /\ OwnParts(g, n, 3)
          BY <4>2, <4>3, FlushedLine
        <4>5. file' = g
          BY <2>3, <4>1, <4>3
        <4> QED  BY <4>1, <4>4, <4>5 DEF OwnParts
      <3>3. 3 \in 0..3 /\ 3 \in {0, 3}
        OBVIOUS
      <3> QED  BY <1>1, <1>2, <1>4, <2>1, <3>2, <3>3, FileIsLeft, Zenon
    <2> QED  BY <1>8, <2>2, <2>3 DEF RollBackFails
  <1>9. CASE Die(a) /\ q.pc \in Open
    <2>1. faults' = faults + 1 /\ UNCHANGED <<file, acked>>
      BY <1>9 DEF Die, Fault
    <2> QED  BY <1>1, <1>2, <1>3, <1>4, <2>1, FileIsLeft
  <1> QED  BY <1>5, <1>6, <1>7, <1>8, <1>9

(* Every step keeps acknowledged lines whole and the count of damaged ones. *)
LEMMA DurableStep ==
    ASSUME LedgerInv, LedgerInv', DurableInv, NEW a \in Appenders, Step(a)
    PROVE  DurableInv'
  <1>1. proc \in [Appenders -> Proc] /\ faults \in Nat /\ faults' \in Nat
    BY BoundAssumption DEF LedgerInv, TypeOK
  <1>2. CASE Begin(a) \/ GiveUp(a) \/ ReadLast(a) \/ WriteFails(a) \/ Unlock(a) \/ (Die(a) /\ proc[a].pc \notin Open)
    <2>1. UNCHANGED <<file, acked>> /\ faults' >= faults /\ \A b \in Appenders \ {a} : proc'[b] = proc[b]
      BY <1>1, <1>2 DEF Begin, GiveUp, ReadLast, WriteFails, Unlock, Die, Fault
    <2>2. /\ proc'[a].pc \in Open <=> proc[a].pc \in Open
          /\ proc[a].pc \in Open => proc'[a].start = proc[a].start
          /\ proc'[a].pc = "rollback" => faults' = faults + 1
      <3>1. CASE Begin(a)
        BY <1>1, <3>1 DEF Begin, Begun, Open
      <3>2. CASE GiveUp(a) \/ Unlock(a) \/ (Die(a) /\ proc[a].pc \notin Open)
        BY <1>1, <3>2 DEF GiveUp, Unlock, Die, Open, Idle
      <3>3. CASE ReadLast(a)
        BY <1>1, <3>3 DEF ReadLast, Open, Proc
      <3>4. CASE WriteFails(a)
        BY <1>1, <3>4 DEF WriteFails, Fault, Open, Proc
      <3> QED  BY <1>2, <3>1, <3>2, <3>3, <3>4
    <2> QED  BY <1>1, <2>1, <2>2, FileRests
  <1> QED  BY <1>2, FileIsOpened, FileGrows, FileIsClosed DEF Step

(* In any ledger the damage of a failure ends where the next line does.      *)
LEMMA DurableInvariant == Spec => []DurableInv
  <1>1. Init => DurableInv
    <2> SUFFICES ASSUME Init PROVE DurableInv
      OBVIOUS
    <2>1. \A a \in Appenders : proc[a].pc \notin Open
      BY DEF Init, Idle, Open
    <2>2. Gaps(file, Len(file)) = {}
      BY DEF Init, Gaps
    <2> QED  BY <2>1, <2>2, FS_EmptySet DEF Init, DurableInv, KeptInv, GapInv
  <1>2. LedgerInv /\ LedgerInv' /\ DurableInv /\ [Next]_vars => DurableInv'
    <2>1. DurableInv /\ UNCHANGED vars => DurableInv'
      BY DEF DurableInv, KeptInv, GapInv, Owes, vars
    <2> QED  BY <2>1, DurableStep DEF Next
  <1> QED  BY <1>1, <1>2, LedgerInvariant, PTL DEF Spec

(* In every ledger of the program, chained or not, and wherever writes stop:*)
(* the line of an acknowledged append is never cut by another's rollback    *)
(* (io_contract.py:104) and never written into.                             *)
THEOREM AcknowledgedLinesLast == Spec => []AcknowledgedStaysOnFile
  <1>1. DurableInv => AcknowledgedStaysOnFile
    BY DEF DurableInv, KeptInv, LineOf, AcknowledgedStaysOnFile
  <1> QED  BY <1>1, DurableInvariant, PTL

(* The records that cannot be found again are those glued to a fragment.     *)
LEMMA UnfoundAreGlued ==
    ASSUME LedgerInv, DurableInv, NEW n \in Nat, n <= Len(file),
           \A id \in acked : \E i \in DOMAIN file : LineOf(file, i, id) /\ i + 2 <= n
    PROVE  Cardinality(Unfound) <= Cardinality(Gaps(file, n))
  <1> DEFINE After == {g \in Gaps(file, n) : g < n /\ file[g + 1].rec.id \in Unfound}
             f == [g \in After |-> file[g + 1].rec.id]
  <1>1. file \in Seq(Chunk)
    BY DEF LedgerInv, TypeOK
  <1>2. ASSUME NEW id \in Unfound
        PROVE  \E g \in After : f[g] = id
    <2>1. PICK i \in DOMAIN file : LineOf(file, i, id) /\ i + 2 <= n
      BY DEF Unfound
    <2>2. ~ReadableAt(file, i)
      BY <2>1 DEF Unfound, LineOf
    <2>3. /\ file[i].part = 1 /\ file[i + 1] = [rec |-> file[i].rec, part |-> 2]
          /\ file[i + 2].part = 3 /\ i \in 1..Len(file)
      <3>1. /\ file[i + 0] = Line(file[i].rec)[0 + 1] /\ file[i + 1] = Line(file[i].rec)[1 + 1]
            /\ file[i + 2] = Line(file[i].rec)[2 + 1]
        BY <2>1 DEF LineOf
      <3>2. i + 0 = i /\ i \in 1..Len(file)
        BY <1>1
      <3> QED  BY <3>1, <3>2 DEF Line
    <2>4. ~LineStarts(file, i)
      BY <1>1, <2>1, <2>2, <2>3 DEF ReadableAt, LineOf
    <2>5. i > 1 /\ file[i - 1].part # 3
      BY <2>4 DEF LineStarts
    <2>6. i - 1 \in Gaps(file, n) /\ i - 1 < n /\ i - 1 + 1 = i
      BY <1>1, <2>1, <2>3, <2>5 DEF Gaps
    <2>7. file[i].rec.id = id
      BY <2>1 DEF LineOf
    <2>8. i - 1 \in After
      BY <2>6, <2>7
    <2> QED  BY <2>6, <2>7, <2>8
  <1>3. IsFiniteSet(Gaps(file, n)) /\ After \in SUBSET Gaps(file, n)
    BY GapsFinite
  <1>4. IsFiniteSet(After) /\ Cardinality(After) <= Cardinality(Gaps(file, n))
    BY <1>3, FS_Subset
  <1>5. f \in Surjection(After, Unfound)
    BY <1>2 DEF Surjection
  <1>6. IsFiniteSet(Unfound) /\ Cardinality(Unfound) <= Cardinality(After)
    BY <1>4, <1>5, FS_Surjection
  <1>7. Cardinality(Unfound) \in Nat /\ Cardinality(After) \in Nat /\ Cardinality(Gaps(file, n)) \in Nat
    BY <1>3, <1>4, <1>6, FS_CardinalityType
  <1> QED  BY <1>4, <1>6, <1>7

(* A reader of any ledger that skips what it cannot parse misses at most one*)
(* acknowledged record per failure (jsonl_store.py:139).                    *)
THEOREM DamageIsBounded == Spec => []FaultsCostOneRecord
  <1>1. LedgerInv /\ DurableInv => FaultsCostOneRecord
    <2> SUFFICES ASSUME LedgerInv, DurableInv PROVE Cardinality(Unfound) <= faults
      BY DEF FaultsCostOneRecord
    <2>1. file \in Seq(Chunk) /\ Len(file) \in Nat /\ faults \in Nat
      BY BoundAssumption DEF LedgerInv, TypeOK
    <2>2. ASSUME NEW n \in Nat, n <= Len(file), Cardinality(Gaps(file, n)) <= faults,
                 \A id \in acked : \E i \in DOMAIN file : LineOf(file, i, id) /\ i + 2 <= n
          PROVE  Cardinality(Unfound) <= faults
      <3>1. Cardinality(Unfound) <= Cardinality(Gaps(file, n))
        BY <2>2, UnfoundAreGlued
      <3>2. Cardinality(Gaps(file, n)) \in Nat
        BY GapsFinite
      <3>3. Cardinality(Unfound) \in Nat
        <4>1. acked \subseteq 1..MaxAppends /\ MaxAppends \in Nat
          BY BoundAssumption DEF LedgerInv, TypeOK
        <4>2. IsFiniteSet(1..MaxAppends)
          BY <4>1, FS_Interval
        <4>3. IsFiniteSet(Unfound)
          BY <4>1, <4>2, FS_Subset DEF Unfound
        <4> QED  BY <4>3, FS_CardinalityType
      <3> QED  BY <2>1, <2>2, <3>1, <3>2, <3>3
    <2>3. CASE \E a \in Appenders : proc[a].pc \in Open
      <3>1. PICK a \in Appenders : proc[a].pc \in Open
        BY <2>3
      <3>2. proc[a].start \in Nat /\ proc[a].start <= Len(file)
        BY <3>1, OpenLine
      <3>3. Cardinality(Gaps(file, proc[a].start)) <= faults
        <4>1. Cardinality(Gaps(file, proc[a].start)) + Owes(a) <= faults
          BY <3>1 DEF DurableInv, GapInv
        <4>2. Cardinality(Gaps(file, proc[a].start)) \in Nat /\ Owes(a) \in 0..1
          BY <3>2, GapsFinite DEF Owes
        <4> QED  BY <2>1, <4>1, <4>2
      <3> QED  BY <2>2, <3>1, <3>2, <3>3 DEF DurableInv, KeptInv
    <2>4. CASE \A a \in Appenders : proc[a].pc \notin Open
      <3>1. Cardinality(Gaps(file, Len(file))) <= faults
        BY <2>4 DEF DurableInv, GapInv
      <3>2. \A id \in acked : \E i \in DOMAIN file : LineOf(file, i, id) /\ i + 2 <= Len(file)
        BY DEF DurableInv, KeptInv, LineOf
      <3> QED  BY <2>1, <2>2, <3>1, <3>2
    <2> QED  BY <2>3, <2>4
  <1> QED  BY <1>1, LedgerInvariant, DurableInvariant, PTL
=============================================================================
