------------------------ MODULE MCRetentionOutbound ------------------------
(* One writer beside the outbound commands.                                 *)
EXTENDS RetentionOutbound

CONSTANTS c1, c2

MCKeys == {"cli"} \cup Statuses

MCFiles == {<<[contact |-> c1, status |-> "unsubscribed"]>>}
=============================================================================
