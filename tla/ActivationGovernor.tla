-------------------------- MODULE ActivationGovernor --------------------------
(***************************************************************************)
(* The activation governor (app/governor): one JSON file holds the lock,   *)
(* the fingerprint of the watched tree and a single-use override.  Every   *)
(* command reads the file, decides, and rewrites it as a whole; no lock    *)
(* spans the two, so commands of several processes interleave.             *)
(*                                                                         *)
(* Locks and tokens are numbered in the order of issue; `gov_expired' says *)
(* whose expires_at_utc has passed.  Reading the state and deciding are two*)
(* steps since the tree is hashed in between.  Identifiers, reasons and    *)
(* timestamps of the event log are left out.                               *)
(***************************************************************************)
EXTENDS Naturals

CONSTANTS
    Procs,          \* the processes that run governed commands
    Scopes,         \* what they ask for
    NonMutating,    \* _NON_MUTATING_SCOPES
    Authorized,     \* the scopes the lock's patterns match
    TokenScopes,    \* the scopes an override is issued for
    Trees,          \* contents of the watched roots
    MaxIssued       \* bound: reviews and overrides

ASSUME ScopeAssumption  == /\ Scopes # {} /\ TokenScopes \subseteq Scopes
                           /\ NonMutating \subseteq Scopes /\ Authorized \subseteq Scopes
ASSUME TreeAssumption   == Trees # {}
ASSUME IssuedAssumption == MaxIssued \in Nat

VARIABLES
    gov_state,    \* activation_governor.json
    gov_job,      \* what each process is doing with it
    gov_expired,  \* locks and tokens whose time is over
    gov_issued,   \* locks and tokens issued so far
    tree,         \* what is under the watched roots
    used_events,  \* the tokens of the OVERRIDE_USED events
    spent         \* history: tokens whose use has been written to the file

gov_vars == <<gov_state, gov_job, gov_expired, gov_issued, tree, used_events, spent>>

Ids == 1..MaxIssued

(* lock = 0: no file.  token = 0: no override.                              *)
State == [enabled : BOOLEAN, lock : 0..MaxIssued, baseline : Trees,
          token : 0..MaxIssued, scope : Scopes, used : BOOLEAN]

SomeScope == CHOOSE s \in Scopes : TRUE
NoState == [enabled |-> FALSE, lock |-> 0, baseline |-> CHOOSE t \in Trees : TRUE,
            token |-> 0, scope |-> SomeScope, used |-> FALSE]

(* `known' is the history's note of what was spent when the file was read.  *)
NoJob == [pc |-> "idle", scope |-> SomeScope, seen |-> NoState,
          reason |-> "none", known |-> {}]

(* s is the file that earlier commands left; its ids are the first ones.    *)
GovernorStart(s) ==
    /\ gov_state = s
    /\ gov_job = [p \in Procs |-> NoJob]
    /\ gov_expired = {}
    /\ gov_issued = IF s.token > s.lock THEN s.token ELSE s.lock
    /\ tree \in Trees
    /\ used_events = {}
    /\ spent = {}

GovernorInit == GovernorStart(NoState)

----------------------------------------------------------------------------
Mutating(scope) == scope \notin NonMutating

override_valid(s, scope) ==
    /\ s.token # 0
    /\ ~s.used
    /\ s.scope = scope
    /\ s.token \notin gov_expired

(* The reason enforce() gives for state s and the tree as it is now.        *)
enforce_reason(s, scope) ==
    CASE s.lock = 0 -> IF Mutating(scope) THEN "state_missing_or_invalid"
                       ELSE "state_missing_or_invalid_non_mutating"
      [] s.lock # 0 /\ s.enabled /\ s.baseline # tree /\ Mutating(scope) -> "drift_detected"
      [] s.lock # 0 /\ ~Mutating(scope) -> "non_mutating_scope"
      [] OTHER ->
         CASE ~s.enabled -> "enforcement_disabled"
           [] s.enabled /\ s.lock \in gov_expired -> "lock_inactive_or_expired"
           [] s.enabled /\ s.lock \notin gov_expired /\ scope \in Authorized -> "authorized_scope"
           [] OTHER -> IF override_valid(s, scope) THEN "override_used"
                       ELSE "scope_not_authorized_during_lock"

Blocked == {"state_missing_or_invalid", "drift_detected", "scope_not_authorized_during_lock"}
Allows(p) == gov_job[p].pc = "done" /\ gov_job[p].reason \notin Blocked

(* enforce(scope) reads the state file.                                     *)
BeginEnforce(p, scope) ==
    /\ gov_job[p].pc = "idle"
    /\ gov_job' = [gov_job EXCEPT ![p] =
           [NoJob EXCEPT !.pc = "decide", !.scope = scope, !.seen = gov_state, !.known = spent]]
    /\ UNCHANGED <<gov_state, gov_expired, gov_issued, tree, used_events, spent>>

(* It hashes the tree and decides; blocking and drift are logged at once.   *)
Decide(p) ==
    /\ gov_job[p].pc = "decide"
    /\ LET reason == enforce_reason(gov_job[p].seen, gov_job[p].scope)
       IN  gov_job' = [gov_job EXCEPT ![p].reason = reason,
                           ![p].pc = IF reason = "override_used" THEN "persist" ELSE "done"]
    /\ UNCHANGED <<gov_state, gov_expired, gov_issued, tree, used_events, spent>>

(* Mutant: the use of a token is only logged. *)
PersistNothing(p) ==
    /\ gov_job[p].pc = "persist"
    /\ spent' = spent \cup {gov_job[p].seen.token}
    /\ gov_job' = [gov_job EXCEPT ![p].pc = "log"]
    /\ UNCHANGED <<gov_state, gov_expired, gov_issued, tree, used_events>>

(* The use of the token: the state read before, rewritten as a whole.       *)
PersistUse(p) ==
    /\ gov_job[p].pc = "persist"
    /\ gov_state' = [gov_job[p].seen EXCEPT !.used = TRUE]
    /\ spent' = spent \cup {gov_job[p].seen.token}
    /\ gov_job' = [gov_job EXCEPT ![p].pc = "log"]
    /\ UNCHANGED <<gov_expired, gov_issued, tree, used_events>>

LogUse(p) ==
    /\ gov_job[p].pc = "log"
    /\ used_events' = used_events \cup {gov_job[p].seen.token}
    /\ gov_job' = [gov_job EXCEPT ![p].pc = "done"]
    /\ UNCHANGED <<gov_state, gov_expired, gov_issued, tree, spent>>

EnforceStep(p) == Decide(p) \/ PersistUse(p) \/ LogUse(p)

----------------------------------------------------------------------------
(* governor_review: hash the tree, then write a new lock and no override.   *)
(* Without --init the file has to exist.                                    *)
BeginReview(p, init) ==
    /\ gov_job[p].pc = "idle"
    /\ init \/ gov_state.lock # 0
    /\ gov_issued < MaxIssued
    /\ gov_job' = [gov_job EXCEPT ![p] =
           [NoJob EXCEPT !.pc = "review", !.seen.baseline = tree, !.known = spent]]
    /\ UNCHANGED <<gov_state, gov_expired, gov_issued, tree, used_events, spent>>

WriteReview(p, enabled) ==
    /\ gov_job[p].pc = "review"
    /\ gov_issued < MaxIssued
    /\ gov_issued' = gov_issued + 1
    /\ gov_state' = [NoState EXCEPT !.enabled = enabled, !.lock = gov_issued + 1,
                                    !.baseline = gov_job[p].seen.baseline]
    /\ gov_job' = [gov_job EXCEPT ![p] = NoJob]
    /\ UNCHANGED <<gov_expired, tree, used_events, spent>>

(* governor_override: read the state, then write it back with a new token.  *)
BeginOverride(p, scope) ==
    /\ gov_job[p].pc = "idle"
    /\ gov_state.lock # 0
    /\ gov_issued < MaxIssued
    /\ gov_job' = [gov_job EXCEPT ![p] =
           [NoJob EXCEPT !.pc = "override", !.scope = scope, !.seen = gov_state, !.known = spent]]
    /\ UNCHANGED <<gov_state, gov_expired, gov_issued, tree, used_events, spent>>

WriteOverride(p) ==
    /\ gov_job[p].pc = "override"
    /\ gov_issued < MaxIssued
    /\ gov_issued' = gov_issued + 1
    /\ gov_state' = [gov_job[p].seen EXCEPT !.token = gov_issued + 1,
                                            !.scope = gov_job[p].scope, !.used = FALSE]
    /\ gov_job' = [gov_job EXCEPT ![p] = NoJob]
    /\ UNCHANGED <<gov_expired, tree, used_events, spent>>

(* A command ends, or is killed at any point.                               *)
EndCommand(p) ==
    /\ gov_job[p].pc # "idle"
    /\ gov_job' = [gov_job EXCEPT ![p] = NoJob]
    /\ UNCHANGED <<gov_state, gov_expired, gov_issued, tree, used_events, spent>>

(* Time runs out for a lock or a token; somebody edits the watched tree.    *)
Expire(i) ==
    /\ i \in 1..gov_issued \ gov_expired
    /\ gov_expired' = gov_expired \cup {i}
    /\ UNCHANGED <<gov_state, gov_job, gov_issued, tree, used_events, spent>>

EditTree(t) ==
    /\ tree # t
    /\ tree' = t
    /\ UNCHANGED <<gov_state, gov_job, gov_expired, gov_issued, used_events, spent>>

(* A process at the command line.                                           *)
Command(p) ==
    \/ \E s \in Scopes : BeginEnforce(p, s)
    \/ EnforceStep(p)
    \/ \E init \in BOOLEAN : BeginReview(p, init)
    \/ \E enabled \in BOOLEAN : WriteReview(p, enabled)
    \/ \E s \in TokenScopes : BeginOverride(p, s)
    \/ WriteOverride(p)
    \/ EndCommand(p)

GovernorEnvironment == (\E i \in Ids : Expire(i)) \/ (\E t \in Trees : EditTree(t))

GovernorNext == GovernorEnvironment \/ \E p \in Procs : Command(p)

GovernorSpec == GovernorInit /\ [][GovernorNext]_gov_vars

----------------------------------------------------------------------------
Reasons == Blocked \cup {"none", "state_missing_or_invalid_non_mutating", "non_mutating_scope",
    "enforcement_disabled", "lock_inactive_or_expired", "authorized_scope", "override_used"}

Job == [pc : {"idle", "decide", "persist", "log", "done", "review", "override"},
        scope : Scopes, seen : State, reason : Reasons, known : SUBSET Ids]

(* The file, the commands' copies of it and the logs hold values of the     *)
(* kind the code writes.                                                    *)
GovernorTypeOK ==
    /\ gov_state \in State
    /\ gov_job \in [Procs -> Job]
    /\ gov_expired \subseteq Ids
    /\ gov_issued \in 0..MaxIssued
    /\ tree \in Trees
    /\ used_events \subseteq Ids
    /\ spent \subseteq Ids

(* A token whose use is on file is never accepted again, whatever other     *)
(* commands wrote back since: two uses of one token are two commands that   *)
(* overlapped.                                                              *)
SpentStaysSpent ==
    \A p \in Procs : gov_job[p].reason = "override_used" =>
        gov_job[p].seen.token \notin gov_job[p].known
=============================================================================
