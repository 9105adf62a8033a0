------------------------- MODULE MCRetentionLedger -------------------------
(* Small instances of RetentionLedger, and the mutants its runs must catch. *)
EXTENDS RetentionLedger

CONSTANTS c1, c2

MCKeys == {"cli"} \cup Statuses

row(c, status) == [contact |-> c, status |-> status]

(* An unsubscribe export, and one with a new subscriber, a row without a    *)
(* usable address and an unsubscribe.                                       *)
MCFiles == {<<row(c1, "unsubscribed")>>,
            <<row(c1, "active"), row(NoEmail, "other"), row(c2, "unsubscribed")>>}

OneFile == {<<row(c1, "unsubscribed")>>}
=============================================================================
