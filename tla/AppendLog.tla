----------------------------- MODULE AppendLog -----------------------------
(***************************************************************************)
(* What the chained ledgers of the repository promise their users          *)
(* (append_record of app/retention/jsonl_store.py): a log of records that  *)
(* grows at its end, each record naming the one before it.  An append may  *)
(* fail after its record got on file; such a record may stay or be         *)
(* withdrawn.  One that was acknowledged stays.                            *)
(***************************************************************************)
EXTENDS Naturals, Sequences

CONSTANT Ids   \* what identifies a record: its hash in the code

VARIABLES
    log,       \* the records a reader finds
    acked      \* ids whose append has returned

LastId == IF log = <<>> THEN 0 ELSE log[Len(log)].id

Init == log = <<>> /\ acked = {}

AppendRecord ==
    \E id \in Ids \ {log[i].id : i \in DOMAIN log} :
        /\ log' = Append(log, [id |-> id, prev |-> LastId])
        /\ UNCHANGED acked

Withdraw ==
    /\ log # <<>> /\ LastId \notin acked
    /\ log' = SubSeq(log, 1, Len(log) - 1)
    /\ UNCHANGED acked

Acknowledge ==
    \E i \in DOMAIN log :
        /\ acked' = acked \cup {log[i].id}
        /\ UNCHANGED log

Next == AppendRecord \/ Withdraw \/ Acknowledge

Spec == Init /\ [][Next]_<<log, acked>>
=============================================================================
