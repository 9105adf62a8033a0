----------------------------- MODULE Resilience -----------------------------
(***************************************************************************)
(* Calls with fallback and circuit breakers (app/utils/resilience.py), the *)
(* breakers' SQLite store (app/utils/breaker_store.py) and the agents that *)
(* share it (app/agent.py).  An agent handles one request at a time, agents*)
(* run side by side, and one may die and be started again at any point.    *)
(*                                                                         *)
(* `open_until' is kept relative to now: CLOSED when it is Never, OPEN     *)
(* while it is positive, HALF_OPEN once it is 0.  Failure counts matter up *)
(* to the threshold and are capped there.                                  *)
(***************************************************************************)
EXTENDS Naturals, Sequences

CONSTANTS
    Agents,
    Models,       \* the fallback list: a sequence of breaker keys
    OpenAfter,    \* open_after: failures that open a circuit
    OpenFor,      \* open_for_seconds, in ticks
    MaxAttempts,  \* max_attempts_per_model
    Never,        \* the value of open_until (0.0) that means CLOSED
    MaxFaults     \* bound: restarts and failed reads and writes of the store

Keys == {Models[i] : i \in DOMAIN Models}

ASSUME ModelsAssumption    == Models \in Seq(Keys) /\ Models # <<>>
ASSUME ThresholdAssumption == OpenAfter \in Nat \ {0} /\ OpenFor \in Nat \ {0}
ASSUME AttemptAssumption   == MaxAttempts \in Nat \ {0}
ASSUME NeverAssumption     == Never \notin Nat
ASSUME FaultAssumption     == MaxFaults \in Nat

OpenUntil == 0..OpenFor \cup {Never}
Breaker == [failures : 0..OpenAfter, open_until : OpenUntil, probe : BOOLEAN]
Record  == [failures : 0..OpenAfter, state : {"closed", "half_open", "open"},
            open_until : OpenUntil]

VARIABLES
    breaker,   \* each agent's breaker of each model
    store,     \* the breaker_state table; NoRecord before the first upsert
    call,      \* what each agent's request is doing
    faults,    \* restarts and store failures so far
    streak,    \* history: failures of a model recorded since its last success
    cooldown,  \* history: time left of the last window opened for a model
    unsaved    \* history: models of which a write was lost since a saved success

vars == <<breaker, store, call, faults, streak, cooldown, unsaved>>
histories == <<streak, cooldown, unsaved>>

NoRecord == [failures |-> 0, state |-> "none", open_until |-> Never]
Fresh    == [failures |-> 0, open_until |-> Never, probe |-> FALSE]
NoCall   == [pc |-> "idle", model |-> 1, attempt |-> 0, is_probe |-> FALSE]

Init ==
    /\ breaker = [a \in Agents |-> [m \in Keys |-> Fresh]]
    /\ store = [m \in Keys |-> NoRecord]
    /\ call = [a \in Agents |-> NoCall]
    /\ streak = [m \in Keys |-> 0]
    /\ cooldown = [m \in Keys |-> 0]
    /\ faults = 0
    /\ unsaved = {}

----------------------------------------------------------------------------
(* The breaker.                                                             *)

get_state(b) == CASE b.open_until = Never -> "closed"
                  [] b.open_until = 0     -> "half_open"
                  [] OTHER                -> "open"

allow_request(b) == get_state(b) = "closed" \/ (get_state(b) = "half_open" /\ b.probe)

Capped(n) == IF n > OpenAfter THEN OpenAfter ELSE n

(* Mutant: the threshold is compared with >. *)
FailureOffByOne(b) ==
    IF get_state(b) = "half_open" \/ b.failures = OpenAfter
    THEN [failures |-> Capped(b.failures + 1), open_until |-> OpenFor, probe |-> TRUE]
    ELSE [b EXCEPT !.failures = Capped(@ + 1)]

record_failure(b) ==
    LET failures == Capped(b.failures + 1)
    IN  IF get_state(b) = "half_open" \/ failures >= OpenAfter
        THEN [failures |-> failures, open_until |-> OpenFor, probe |-> TRUE]
        ELSE [b EXCEPT !.failures = failures]

(* Mutant: a persisted "open" is taken over like a persisted "half_open". *)
ApplyAsHalfOpen(b, r) ==
    [failures |-> r.failures, probe |-> r.state # "closed",
     open_until |-> IF r.state = "closed" THEN Never ELSE 0]

(* Mutant: taking a record over leaves the probe token as it was. *)
ApplyKeepsToken(b, r) ==
    [failures |-> r.failures, probe |-> b.probe,
     open_until |-> IF r.state = "closed" THEN Never ELSE r.open_until]

(* A record of the store replaces the breaker, token included.              *)
apply_persisted_state(b, r) ==
    CASE r.state = "closed"    -> [failures |-> r.failures, open_until |-> Never, probe |-> FALSE]
      [] r.state = "half_open" -> [failures |-> r.failures, open_until |-> 0, probe |-> TRUE]
      [] OTHER -> [failures |-> r.failures, open_until |-> r.open_until, probe |-> TRUE]

Persisted(b) == [failures |-> b.failures, state |-> get_state(b), open_until |-> b.open_until]

Fault == faults < MaxFaults /\ faults' = faults + 1

(* b is the breaker of m in agent a after load_state_into_breaker: no record*)
(* leaves it alone, and so does a read that fails (resilience.py:260).      *)
load_state_into_breaker(a, m, b) ==
    \/ /\ b = IF store[m] = NoRecord THEN breaker[a][m]
              ELSE apply_persisted_state(breaker[a][m], store[m])
       /\ UNCHANGED faults
    \/ /\ b = breaker[a][m]
       /\ Fault

(* The upsert writes the whole record; its failure is swallowed.            *)
persist_breaker(m, b) ==
    \/ /\ store' = [store EXCEPT ![m] = Persisted(b)]
       /\ unsaved' = IF b = Fresh THEN unsaved \ {m} ELSE unsaved
       /\ UNCHANGED faults
    \/ /\ Fault
       /\ unsaved' = unsaved \cup {m}
       /\ UNCHANGED store

----------------------------------------------------------------------------
(* call_with_resilience, from its model loop on.                            *)

Model(a) == Models[call[a].model]

(* Mutant: the end of the list is noticed one model too late. *)
FallBackPastEnd(a) ==
    call' = [call EXCEPT ![a] =
        IF call[a].model <= Len(Models)
        THEN [NoCall EXCEPT !.pc = "gate", !.model = call[a].model + 1]
        ELSE NoCall]

(* The next model of the list, or the end: every model is exhausted.        *)
FallBack(a) ==
    call' = [call EXCEPT ![a] =
        IF call[a].model < Len(Models)
        THEN [NoCall EXCEPT !.pc = "gate", !.model = call[a].model + 1]
        ELSE NoCall]

BeginRequest(a) ==
    /\ call[a].pc = "idle"
    /\ call' = [call EXCEPT ![a].pc = "gate"]
    /\ UNCHANGED <<breaker, store, faults, histories>>

(* Load the persisted state, then ask the breaker.                          *)
CheckCircuit(a) ==
    /\ call[a].pc = "gate"
    /\ \E b \in Breaker :
        /\ load_state_into_breaker(a, Model(a), b)
        /\ breaker' = [breaker EXCEPT ![a][Model(a)] =
               [b EXCEPT !.probe = b.probe /\ get_state(b) # "half_open"]]
        /\ IF allow_request(b)
           THEN call' = [call EXCEPT ![a].pc = "calling", ![a].attempt = 1,
                                     ![a].is_probe = get_state(b) = "half_open"]
           ELSE FallBack(a)
    /\ UNCHANGED <<store, histories>>

(* The provider answered. *)
CallSucceeds(a) ==
    /\ call[a].pc = "calling"
    /\ breaker' = [breaker EXCEPT ![a][Model(a)] = Fresh]
    /\ persist_breaker(Model(a), Fresh)
    /\ call' = [call EXCEPT ![a] = NoCall]
    /\ streak' = [streak EXCEPT ![Model(a)] = 0]
    /\ cooldown' = [cooldown EXCEPT ![Model(a)] = 0]

(* The provider has no capacity: record it, then retry, or fall back when   *)
(* the circuit has opened or the attempts are used up.                      *)
CallUnavailable(a) ==
    LET m == Model(a)
        b == record_failure(breaker[a][m])
    IN  /\ call[a].pc = "calling"
        /\ breaker' = [breaker EXCEPT ![a][m] = b]
        /\ persist_breaker(m, b)
        /\ IF get_state(b) = "open" \/ call[a].attempt = MaxAttempts
           THEN FallBack(a)
           ELSE call' = [call EXCEPT ![a].attempt = call[a].attempt + 1]
        /\ streak' = [streak EXCEPT ![m] = Capped(streak[m] + 1)]
        /\ cooldown' = [cooldown EXCEPT ![m] =
               IF get_state(b) = "open" THEN OpenFor ELSE cooldown[m]]

(* Any other error is raised to the caller; the breaker hears nothing.      *)
CallRaises(a) ==
    /\ call[a].pc = "calling"
    /\ call' = [call EXCEPT ![a] = NoCall]
    /\ UNCHANGED <<breaker, store, faults, histories>>

(* An agent dies and is started again: SignalAgent() loads every breaker.   *)
Restart(a) ==
    /\ Fault
    /\ breaker' = [breaker EXCEPT ![a] =
          [m \in Keys |-> IF store[m] = NoRecord THEN Fresh
                          ELSE apply_persisted_state(Fresh, store[m])]]
    /\ call' = [call EXCEPT ![a] = NoCall]
    /\ UNCHANGED <<store, histories>>

Elapse(r) == IF r \in Nat \ {0} THEN r - 1 ELSE r

Tick ==
    /\ breaker' = [a \in Agents |-> [m \in Keys |->
                      [breaker[a][m] EXCEPT !.open_until = Elapse(breaker[a][m].open_until)]]]
    /\ store' = [m \in Keys |->
                    [store[m] EXCEPT !.open_until = Elapse(store[m].open_until)]]
    /\ cooldown' = [m \in Keys |-> Elapse(cooldown[m])]
    /\ UNCHANGED <<call, faults, streak, unsaved>>

Work(a) == CheckCircuit(a) \/ CallSucceeds(a) \/ CallUnavailable(a) \/ CallRaises(a)

Next == Tick \/ \E a \in Agents : BeginRequest(a) \/ Work(a) \/ Restart(a)

Spec == Init /\ [][Next]_vars

(* Time passes, a started request goes on, and the agents keep being asked. *)
FairSpec == Spec /\ WF_vars(Tick)
                 /\ \A a \in Agents : WF_vars(BeginRequest(a)) /\ WF_vars(Work(a))

----------------------------------------------------------------------------
Call == [pc : {"idle", "gate", "calling"}, model : DOMAIN Models,
         attempt : 0..MaxAttempts, is_probe : BOOLEAN]

(* Every variable holds a value of the kind the code keeps in it; a request *)
(* never runs past the end of its list of models or of its attempts.        *)
TypeOK ==
    /\ breaker \in [Agents -> [Keys -> Breaker]]
    /\ store \in [Keys -> Record \cup {NoRecord}]
    /\ call \in [Agents -> Call]
    /\ faults \in 0..MaxFaults
    /\ streak \in [Keys -> 0..OpenAfter]
    /\ cooldown \in [Keys -> 0..OpenFor]
    /\ unsaved \subseteq Keys

(* Failures are counted across attempts, requests and restarts: the stored  *)
(* circuit has opened exactly when OpenAfter of them have followed the last *)
(* success, unless a write of the model was lost in between.                *)
TripsExactly ==
    \A m \in Keys \ unsaved :
        (store[m].open_until # Never) <=> (streak[m] = OpenAfter)

(* No call is begun or retried on a model while the window its failures     *)
(* opened lasts, through failed reads and by an agent started meanwhile,    *)
(* as long as none of the model's writes was lost.                          *)
CooldownHolds ==
    \A a \in Agents : call[a].pc = "calling" /\ Model(a) \notin unsaved
        => cooldown[Model(a)] = 0

(* "Circuit breakers block calls for a window after repeated failures"      *)
(* (resilience.py:158), whatever becomes of the store.                      *)
BlocksForWindow ==
    \A a \in Agents : call[a].pc = "calling" => cooldown[Model(a)] = 0

(* A circuit is not wedged: an open one is tried again, whatever became of  *)
(* the probe, of the agent that sent it and of the accesses to the store.   *)
NeverWedged ==
    (store[Models[1]].state = "open") ~>
        (\E a \in Agents : call[a].pc = "calling" /\ call[a].model = 1)
=============================================================================
