------------------------------ MODULE TickLock ------------------------------
(***************************************************************************)
(* What the lock file of the daemon clock (FileLock in app/daemon/clock.py)*)
(* promises: it is taken by one process when nobody has it, given back by  *)
(* the process that has it, and kept for one that dies inside.  Nothing is *)
(* promised any more once somebody's lock has been judged stale.           *)
(***************************************************************************)
CONSTANTS Users, Nobody

VARIABLES
    holder,    \* whose lock it is
    inside,    \* the processes that work under it
    broken     \* a lock was judged stale

Unlocked == holder = Nobody /\ inside = {}

Init == Unlocked /\ ~broken

Enter(u) ==
    /\ ~broken /\ Unlocked
    /\ holder' = u
    /\ inside' = {u}
    /\ UNCHANGED broken

Working(u) == ~broken /\ holder = u /\ inside = {u}

Leave(u) ==
    /\ Working(u)
    /\ Unlocked'
    /\ UNCHANGED broken

Perish(u) ==
    /\ Working(u)
    /\ inside' = {}
    /\ UNCHANGED <<holder, broken>>

Break ==
    /\ ~broken /\ holder # Nobody
    /\ broken'
    /\ Unlocked'

Next == Break \/ \E u \in Users : Enter(u) \/ Leave(u) \/ Perish(u)

Spec == Init /\ [][Next]_<<holder, inside, broken>>
=============================================================================
