--------------------------- MODULE ContactRegister ---------------------------
(***************************************************************************)
(* What the retention ledgers (app/retention) promise of a contact: a      *)
(* register that takes every event into account at once and in the order   *)
(* in which the events were recorded.  An event whose processing broke off *)
(* stays on record and is noted as missed.                                 *)
(***************************************************************************)
EXTENDS Naturals, Sequences

CONSTANTS
    Contacts,
    Events,        \* what can be recorded of a contact
    Withdrawals,   \* the events after which nothing is to be sent
    Grants,        \* the events that allow sending
    NoEvent        \* what an entry that nothing has changed goes back to

VARIABLES
    heard,         \* the events in the order in which they were recorded
    register,      \* the entry of each contact
    missed         \* events without effect

Blank == [version |-> 0, state |-> "none", because |-> NoEvent]

Init ==
    /\ heard = <<>>
    /\ register = [c \in Contacts |-> Blank]
    /\ missed = {}

(* A withdrawal is final; anything else is taken at its word.               *)
StateAfter(entry, e) ==
    CASE e \in Withdrawals \/ entry.state = "suppressed" -> "suppressed"
      [] OTHER -> IF e \in Grants THEN "subscribed" ELSE "aware"

EntryAfter(entry, e) ==
    IF StateAfter(entry, e) = entry.state THEN entry
    ELSE [version |-> entry.version + 1, state |-> StateAfter(entry, e), because |-> e]

Obey(e) ==
    /\ heard' = Append(heard, e)
    /\ register' = [register EXCEPT ![e.contact] = EntryAfter(@, e)]
    /\ UNCHANGED missed

Miss(e) ==
    /\ heard' = Append(heard, e)
    /\ missed' = missed \cup {e}
    /\ UNCHANGED register

(* Every step is about one event more.                                      *)
Next ==
    /\ Len(heard') = Len(heard) + 1
    /\ \E e \in Events : Obey(e) \/ Miss(e)

Spec == Init /\ [][Next]_<<heard, register, missed>>
=============================================================================
