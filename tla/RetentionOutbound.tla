------------------------- MODULE RetentionOutbound -------------------------
(***************************************************************************)
(* The outbound half of app/retention, running beside the writers of       *)
(* RetentionLedger: `project-send-queue` reads the ledgers eight times     *)
(* without a lock (reconciliation, the dispatch gate and the projection    *)
(* read them again each), `send-preview` reads the queue file,             *)
(* `authorize-send` the preview file.  Each file is replaced atomically    *)
(* and nothing after the projection looks at the ledgers again.            *)
(*                                                                         *)
(* The ledgers only grow, so a read is the length of the prefix it saw.    *)
(* A queue entry is the line number of its dispatch.                       *)
(***************************************************************************)
EXTENDS RetentionLedger

CONSTANT MaxProjections   \* bound on how often the queue is projected

ASSUME ProjectionAssumption == MaxProjections \in Nat

VARIABLES
    projections,    \* how often it has been
    reads,          \* prefixes read so far by the running projection
    began,          \* history: lengths of the ledgers when it started
    queue,          \* the queue file
    preview,        \* the sender preview file
    authorization   \* the authorization file

outbound == <<projections, reads, began, queue, preview, authorization>>
allVars  == <<vars, outbound>>

(* The absence of a file.  `clean' is a file's own verdict, `as_of' the     *)
(* history value of the projection it goes back to.                        *)
Missing == [exists |-> FALSE, clean |-> FALSE, lines |-> {},
            as_of |-> [events |-> 0, dispatches |-> 0]]

OutboundInit ==
    /\ Init
    /\ projections = 0 /\ reads = <<>> /\ began = Missing.as_of
    /\ queue = Missing /\ preview = Missing /\ authorization = Missing

(* The files in the order they are read: all four by reconcile_state, then  *)
(* the two that count for the gate, then those two for the projection.     *)
LedgerLengths ==
    LET c == Len(contacts) d == Len(dispatches)
    IN  <<c, Len(events), Len(transitions), d, c, d, c, d>>

Prefix(s, n) == SubSeq(s, 1, n)

(* The planned dispatches the gate finds eligible. *)
EligibleLines ==
    {line \in 1..reads[6] : DispatchEligible(Prefix(contacts, reads[5]), dispatches[line])}

Reconciled ==
    reconcile_state(Prefix(events, reads[2]), Prefix(transitions, reads[3]),
                    Prefix(contacts, reads[1]), Prefix(dispatches, reads[4]))

(* Mutant: the gate drops what is blocked and releases the rest. *)
ReadyDespiteBlocked == Reconciled

(* The gate's verdict: the ledgers reconcile and no dispatch is blocked.    *)
evaluate_dispatch_ready == Reconciled /\ EligibleLines = 1..reads[6]

(* What is queued: the eligible dispatches found again on file, with a      *)
(* snapshot of their contact.                                               *)
Projected ==
    {line \in EligibleLines :
        /\ line <= reads[8]
        /\ latest_contact_by_id(Prefix(contacts, reads[7]), dispatches[line].contact) # {}}

StartProjection ==
    /\ reads = <<>> /\ projections < MaxProjections
    /\ projections' = projections + 1
    /\ reads' = <<LedgerLengths[1]>>
    /\ began' = [events |-> Len(events), dispatches |-> Len(dispatches)]
    /\ UNCHANGED <<vars, queue, preview, authorization>>

ReadNextLedger ==
    /\ Len(reads) \in 1..7
    /\ reads' = Append(reads, LedgerLengths[Len(reads) + 1])
    /\ UNCHANGED <<vars, projections, began, queue, preview, authorization>>

project_send_queue ==
    /\ Len(reads) = 8
    /\ queue' = [exists |-> TRUE,
                 clean  |-> evaluate_dispatch_ready /\ Projected = EligibleLines,
                 lines  |-> IF evaluate_dispatch_ready THEN Projected ELSE {},
                 as_of  |-> began]
    /\ reads' = <<>> /\ began' = Missing.as_of
    /\ UNCHANGED <<vars, projections, preview, authorization>>

(* What the adapter can find wrong with a queue file that nobody edited is  *)
(* that there is none, or that the projection was not clean: every entry    *)
(* that was projected has all the fields it asks for.                       *)
validate_queue_projection == queue.exists /\ queue.clean

preview_send_queue ==
    /\ preview' = [queue EXCEPT !.exists = TRUE, !.clean = validate_queue_projection]
    /\ UNCHANGED <<vars, projections, reads, began, queue, authorization>>

(* The same for the preview file; every result of a clean one is ready.     *)
validate_preview_payload == preview.exists /\ preview.clean

(* `lines' are the authorized ones, `operator' whether one was named.       *)
authorize_send_preview(approve, operator) ==
    /\ LET clean == validate_preview_payload /\ operator
       IN  authorization' = [preview EXCEPT !.exists = TRUE, !.clean = clean,
                                !.lines = IF approve /\ clean THEN @ ELSE {}]
    /\ UNCHANGED <<vars, projections, reads, began, queue, preview>>

OutboundStep ==
    \/ StartProjection \/ ReadNextLedger \/ project_send_queue
    \/ preview_send_queue
    \/ \E approve, operator \in BOOLEAN : authorize_send_preview(approve, operator)

OutboundNext == OutboundStep \/ (Next /\ UNCHANGED outbound)

OutboundSpec == OutboundInit /\ [][OutboundNext]_allVars

----------------------------------------------------------------------------
Withdrawn(c, n) ==
    \E i \in 1..n : events[i].contact = c /\ events[i].kind \in SUPPRESSION_EVENT_TYPES

(* Although eight reads and three files lie between the ledgers and an      *)
(* authorization, and writers run all along: nothing is authorized for a    *)
(* contact whose unsubscribe was on file before the projection started.     *)
AuthorizedNotWithdrawn ==
    \A line \in authorization.lines :
        ~Withdrawn(dispatches[line].contact, authorization.as_of.events)

(* One withdrawn contact with a planned dispatch of any kind withholds the  *)
(* whole queue (send_queue.py:114): a projection never picks the others.    *)
(* And a queue that calls itself clean has lost none of the dispatches that *)
(* were planned when the projection started.                                *)
QueueIsWholeOrHeld ==
    /\ queue.lines # {} => \A line \in 1..queue.as_of.dispatches :
           ~Withdrawn(dispatches[line].contact, queue.as_of.events)
    /\ queue.clean => 1..queue.as_of.dispatches \subseteq queue.lines
=============================================================================
