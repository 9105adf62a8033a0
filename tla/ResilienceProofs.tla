-------------------------- MODULE ResilienceProofs --------------------------
(***************************************************************************)
(* For every list of models, threshold, window and number of faults: the   *)
(* types of Resilience and, for an agent that has the store to itself, that*)
(* circuits open exactly at the threshold and that no call is made inside  *)
(* the window.  The inductive invariant (Agreement) is that the agent's    *)
(* breaker, the stored record and the failures really seen agree as long   *)
(* as no write of the model was lost; the token is the one field in which  *)
(* breaker and record may differ.                                          *)
(***************************************************************************)
EXTENDS Resilience, TLAPS

(* A call in flight has attempts left to count.                              *)
Counting == \A a \in Agents : call[a].pc = "calling" => call[a].attempt \in 1..MaxAttempts

TypeInv == TypeOK /\ Counting

----------------------------------------------------------------------------
(* A breaker and a call nothing happened to.                                 *)
LEMMA FreshTypes == Fresh \in Breaker /\ NoCall \in Call /\ NoCall.pc = "idle"
  <1>1. 1 \in DOMAIN Models
    BY ModelsAssumption
  <1> QED
    BY <1>1, ThresholdAssumption, AttemptAssumption DEF Fresh, Breaker, OpenUntil, NoCall, Call

(* The model of a call is a key of the breakers.                             *)
LEMMA ModelType ==
    ASSUME TypeOK, NEW a \in Agents
    PROVE  Model(a) \in Keys
  BY DEF TypeOK, Call, Model, Keys

(* A tick of the clock on a window.                                          *)
LEMMA ElapseType ==
    ASSUME NEW r \in OpenUntil
    PROVE  /\ Elapse(r) \in OpenUntil
           /\ r \in 0..OpenFor => Elapse(r) \in 0..OpenFor
           /\ r = Never => Elapse(r) = Never
           /\ r # Never => Elapse(r) # Never
  BY NeverAssumption, ThresholdAssumption DEF Elapse, OpenUntil

(* What one more failure does to a breaker.                                  *)
LEMMA FailureFacts ==
    ASSUME NEW b \in Breaker
    PROVE  LET r == record_failure(b)
           IN  /\ r \in Breaker
               /\ r.failures = Capped(b.failures + 1)
               /\ r.failures >= 1
               /\ (get_state(b) = "half_open" \/ r.failures = OpenAfter) => r.open_until = OpenFor
               /\ ~(get_state(b) = "half_open" \/ r.failures = OpenAfter)
                     => r.open_until = b.open_until
  <1> DEFINE n == Capped(b.failures + 1)
  <1>1. n \in 0..OpenAfter /\ n >= 1 /\ (n >= OpenAfter <=> n = OpenAfter)
    BY ThresholdAssumption DEF Capped, Breaker
  <1>2. CASE get_state(b) = "half_open" \/ n >= OpenAfter
    <2>1. record_failure(b) = [failures |-> n, open_until |-> OpenFor, probe |-> TRUE]
      BY <1>2 DEF record_failure
    <2> HIDE DEF n
    <2>2. OpenFor \in OpenUntil
      BY ThresholdAssumption DEF OpenUntil
    <2> QED
      BY <1>1, <1>2, <2>1, <2>2 DEF Breaker, n
  <1>3. CASE ~(get_state(b) = "half_open" \/ n >= OpenAfter)
    <2>1. record_failure(b) = [b EXCEPT !.failures = n]
      BY <1>3 DEF record_failure
    <2> HIDE DEF n
    <2> QED
      BY <1>1, <1>3, <2>1 DEF Breaker, n
  <1> QED
    BY <1>2, <1>3

(* What is stored of a breaker.                                              *)
LEMMA PersistedType ==
    ASSUME NEW b \in Breaker
    PROVE  Persisted(b) \in Record
  BY DEF Persisted, Breaker, Record, get_state

(* What is taken over from the store.                                        *)
LEMMA ApplyType ==
    ASSUME NEW b \in Breaker, NEW r \in Record
    PROVE  apply_persisted_state(b, r) \in Breaker
  BY ThresholdAssumption DEF apply_persisted_state, Breaker, Record, OpenUntil

(* The call that falls back has a next model or none.                        *)
LEMMA FallBackCall ==
    ASSUME TypeOK, NEW a \in Agents, FallBack(a)
    PROVE  \E k \in Call : k.pc # "calling" /\ call' = [call EXCEPT ![a] = k]
  <1>1. CASE call[a].model < Len(Models)
    <2> DEFINE k == [NoCall EXCEPT !.pc = "gate", !.model = call[a].model + 1]
    <2>1. call[a].model + 1 \in DOMAIN Models
      BY <1>1, ModelsAssumption DEF TypeOK, Call
    <2>2. k \in Call /\ k.pc = "gate"
      BY <2>1, FreshTypes DEF Call
    <2>3. call' = [call EXCEPT ![a] = k]
      BY <1>1 DEF FallBack
    <2> HIDE DEF k
    <2> QED
      BY <2>2, <2>3
  <1>2. CASE ~(call[a].model < Len(Models))
    BY <1>2, FreshTypes DEF FallBack
  <1> QED
    BY <1>1, <1>2

(* A failed access to the store, or none, keeps the count of faults typed.  *)
LEMMA FaultType ==
    ASSUME TypeOK, Fault \/ UNCHANGED faults
    PROVE  faults' \in 0..MaxFaults
  BY FaultAssumption DEF TypeOK, Fault

(* A write to the store, or one that is lost.                                *)
LEMMA PersistType ==
    ASSUME TypeOK, NEW m \in Keys, NEW b \in Breaker, persist_breaker(m, b)
    PROVE  /\ store' \in [Keys -> Record \cup {NoRecord}]
           /\ unsaved' \subseteq Keys
           /\ faults' \in 0..MaxFaults
  <1>1. Persisted(b) \in Record
    BY PersistedType
  <1> QED
    BY <1>1, FaultType DEF TypeOK, persist_breaker

(* The types at the beginning.                                               *)
LEMMA InitType == Init => TypeInv
  BY FreshTypes, FaultAssumption, ThresholdAssumption
     DEF Init, TypeInv, TypeOK, Counting

(* One agent's breaker of one model is replaced.                             *)
LEMMA SetBreaker ==
    ASSUME TypeOK, NEW a \in Agents, NEW m \in Keys, NEW b \in Breaker,
           breaker' = [breaker EXCEPT ![a][m] = b]
    PROVE  /\ breaker' \in [Agents -> [Keys -> Breaker]]
           /\ breaker'[a][m] = b
           /\ \A n \in Keys \ {m} : breaker'[a][n] = breaker[a][n]
  BY DEF TypeOK

(* One agent's call is replaced.                                             *)
LEMMA SetCall ==
    ASSUME TypeInv, NEW a \in Agents, NEW k \in Call, call' = [call EXCEPT ![a] = k],
           k.pc = "calling" => k.attempt \in 1..MaxAttempts
    PROVE  call' \in [Agents -> Call] /\ call'[a] = k /\ Counting'
  BY DEF TypeInv, TypeOK, Counting

(* The breaker the gate consults.                                            *)
LEMMA LoadedBreaker ==
    ASSUME TypeOK, NEW a \in Agents, NEW m \in Keys, NEW b, load_state_into_breaker(a, m, b)
    PROVE  /\ b \in Breaker
           /\ faults' \in 0..MaxFaults
           /\ \/ b = breaker[a][m]
              \/ store[m] \in Record /\ b = apply_persisted_state(breaker[a][m], store[m])
  <1>1. breaker[a][m] \in Breaker /\ store[m] \in Record \cup {NoRecord}
    BY DEF TypeOK
  <1>2. Fault \/ UNCHANGED faults
    BY DEF load_state_into_breaker
  <1>3. CASE b = breaker[a][m]
    BY <1>1, <1>2, <1>3, FaultType
  <1>4. CASE b # breaker[a][m]
    <2>1. store[m] # NoRecord /\ b = apply_persisted_state(breaker[a][m], store[m])
      BY <1>4 DEF load_state_into_breaker
    <2> QED
      BY <1>1, <1>2, <2>1, FaultType, ApplyType
  <1> QED
    BY <1>3, <1>4

(* The outcome of the gate: the breaker without its token, and the call.    *)
LEMMA GateFacts ==
    ASSUME TypeInv, NEW a \in Agents, CheckCircuit(a)
    PROVE  \E b \in Breaker, k \in Call :
              /\ load_state_into_breaker(a, Model(a), b)
              /\ breaker' = [breaker EXCEPT ![a][Model(a)] =
                    [b EXCEPT !.probe = b.probe /\ get_state(b) # "half_open"]]
              /\ [b EXCEPT !.probe = b.probe /\ get_state(b) # "half_open"] \in Breaker
              /\ call' = [call EXCEPT ![a] = k]
              /\ k.pc = "calling" =>
                    allow_request(b) /\ k.model = call[a].model /\ k.attempt \in 1..MaxAttempts
  <1>1. PICK b \in Breaker :
           /\ load_state_into_breaker(a, Model(a), b)
           /\ breaker' = [breaker EXCEPT ![a][Model(a)] =
                 [b EXCEPT !.probe = b.probe /\ get_state(b) # "half_open"]]
           /\ IF allow_request(b)
              THEN call' = [call EXCEPT ![a].pc = "calling", ![a].attempt = 1,
                                        ![a].is_probe = get_state(b) = "half_open"]
              ELSE FallBack(a)
    BY DEF CheckCircuit
  <1>2. [b EXCEPT !.probe = b.probe /\ get_state(b) # "half_open"] \in Breaker
    <2> DEFINE probe == b.probe /\ get_state(b) # "half_open"
    <2>1. probe \in BOOLEAN
      BY DEF Breaker
    <2> HIDE DEF probe
    <2>2. [b EXCEPT !.probe = probe] \in Breaker
      BY <2>1 DEF Breaker
    <2> QED
      BY <2>2 DEF probe
  <1>3. CASE allow_request(b)
    <2> DEFINE half == get_state(b) = "half_open"
               k == [call[a] EXCEPT !.pc = "calling", !.attempt = 1, !.is_probe = half]
    <2>1. half \in BOOLEAN /\ 1 \in 0..MaxAttempts /\ 1 \in 1..MaxAttempts
      BY AttemptAssumption
    <2>2. call[a] \in Call /\ call \in [Agents -> Call]
      BY DEF TypeInv, TypeOK
    <2> HIDE DEF half
    <2>3. k \in Call /\ k.pc = "calling" /\ k.attempt = 1 /\ k.model = call[a].model
      BY <2>1, <2>2 DEF Call
    <2>4. call' = [call EXCEPT ![a] = k]
      BY <1>1, <1>3, <2>2 DEF half
    <2> HIDE DEF k
    <2> QED
      BY <1>1, <1>2, <1>3, <2>1, <2>3, <2>4
  <1>4. CASE ~allow_request(b)
    <2>1. PICK k \in Call : k.pc # "calling" /\ call' = [call EXCEPT ![a] = k]
      BY <1>1, <1>4, FallBackCall DEF TypeInv
    <2> QED
      BY <1>1, <1>2, <2>1
  <1> QED
    BY <1>3, <1>4

(* What becomes of a call whose provider had no capacity.                   *)
LEMMA RetryFacts ==
    ASSUME TypeInv, NEW a \in Agents, CallUnavailable(a)
    PROVE  LET b == record_failure(breaker[a][Model(a)])
           IN  \E k \in Call :
                  /\ call' = [call EXCEPT ![a] = k]
                  /\ k.pc = "calling" => /\ get_state(b) # "open"
                                         /\ k.model = call[a].model
                                         /\ k.attempt \in 1..MaxAttempts
  <1> DEFINE b == record_failure(breaker[a][Model(a)])
  <1>1. call[a] \in Call /\ call \in [Agents -> Call] /\ call[a].attempt \in 1..MaxAttempts
    BY DEF TypeInv, TypeOK, Counting, CallUnavailable
  <1>2. CASE get_state(b) = "open" \/ call[a].attempt = MaxAttempts
    <2>1. FallBack(a)
      BY <1>2 DEF CallUnavailable
    <2> QED
      BY <2>1, FallBackCall DEF TypeInv
  <1>3. CASE ~(get_state(b) = "open" \/ call[a].attempt = MaxAttempts)
    <2> DEFINE k == [call[a] EXCEPT !.attempt = call[a].attempt + 1]
    <2>1. call[a].attempt + 1 \in 0..MaxAttempts /\ call[a].attempt + 1 \in 1..MaxAttempts
      BY <1>1, <1>3, AttemptAssumption
    <2>2. k \in Call /\ k.model = call[a].model /\ k.attempt = call[a].attempt + 1
      BY <1>1, <2>1 DEF Call
    <2>3. call' = [call EXCEPT ![a] = k]
      BY <1>1, <1>3 DEF CallUnavailable
    <2> HIDE DEF k
    <2> QED
      BY <1>3, <2>1, <2>2, <2>3
  <1> QED
    BY <1>2, <1>3

(* Time passes.                                                              *)
LEMMA TickType ==
    ASSUME TypeInv, Tick
    PROVE  TypeInv'
  <1>1. breaker' \in [Agents -> [Keys -> Breaker]]
    <2>1. ASSUME NEW b \in Breaker
          PROVE  [b EXCEPT !.open_until = Elapse(b.open_until)] \in Breaker
      BY ElapseType DEF Breaker
    <2>2. \A a \in Agents, m \in Keys : breaker[a][m] \in Breaker
      BY DEF TypeInv, TypeOK
    <2> QED
      BY <2>1, <2>2 DEF Tick
  <1>2. store' \in [Keys -> Record \cup {NoRecord}]
    <2>1. ASSUME NEW r \in Record
          PROVE  [r EXCEPT !.open_until = Elapse(r.open_until)] \in Record
      BY ElapseType DEF Record
    <2>2. Elapse(Never) = Never
      BY NeverAssumption DEF Elapse
    <2>3. [NoRecord EXCEPT !.open_until = Elapse(NoRecord.open_until)] = NoRecord
      BY <2>2 DEF NoRecord
    <2>4. \A m \in Keys : store[m] \in Record \cup {NoRecord}
      BY DEF TypeInv, TypeOK
    <2> QED
      BY <2>1, <2>3, <2>4 DEF Tick
  <1>3. cooldown' \in [Keys -> 0..OpenFor]
    <2>1. \A m \in Keys : cooldown[m] \in 0..OpenFor
      BY DEF TypeInv, TypeOK
    <2>2. \A r \in 0..OpenFor : Elapse(r) \in 0..OpenFor
      BY ElapseType DEF OpenUntil
    <2> QED
      BY <2>1, <2>2 DEF Tick
  <1>4. UNCHANGED <<call, faults, streak, unsaved>>
    BY DEF Tick
  <1> QED
    BY <1>1, <1>2, <1>3, <1>4 DEF TypeInv, TypeOK, Counting

(* An agent takes a step.                                                    *)
LEMMA AgentType ==
    ASSUME TypeInv, NEW a \in Agents, BeginRequest(a) \/ Work(a) \/ Restart(a)
    PROVE  TypeInv'
  <1>1. Model(a) \in Keys /\ call[a] \in Call /\ call \in [Agents -> Call]
    BY ModelType DEF TypeInv, TypeOK
  <1>2. breaker[a][Model(a)] \in Breaker
    BY <1>1 DEF TypeInv, TypeOK
  <1>3. CASE BeginRequest(a)
    <2> DEFINE k == [call[a] EXCEPT !.pc = "gate"]
    <2>1. k \in Call /\ k.pc = "gate" /\ call' = [call EXCEPT ![a] = k]
      BY <1>1, <1>3 DEF BeginRequest, Call
    <2> HIDE DEF k
    <2> QED
      BY <1>3, <2>1, SetCall DEF BeginRequest, histories, TypeInv, TypeOK
  <1>4. CASE CheckCircuit(a)
    <2>1. PICK b \in Breaker, k \in Call :
             /\ load_state_into_breaker(a, Model(a), b)
             /\ breaker' = [breaker EXCEPT ![a][Model(a)] =
                   [b EXCEPT !.probe = b.probe /\ get_state(b) # "half_open"]]
             /\ [b EXCEPT !.probe = b.probe /\ get_state(b) # "half_open"] \in Breaker
             /\ call' = [call EXCEPT ![a] = k]
             /\ k.pc = "calling" => k.attempt \in 1..MaxAttempts
      BY <1>4, GateFacts
    <2>2. call' \in [Agents -> Call] /\ Counting'
      BY <2>1, SetCall
    <2>3. breaker' \in [Agents -> [Keys -> Breaker]]
      BY <1>1, <2>1, SetBreaker DEF TypeInv
    <2>4. faults' \in 0..MaxFaults
      BY <1>1, <2>1, LoadedBreaker DEF TypeInv
    <2>5. UNCHANGED <<store, streak, cooldown, unsaved>>
      BY <1>4 DEF CheckCircuit, histories
    <2> QED
      BY <2>2, <2>3, <2>4, <2>5 DEF TypeInv, TypeOK
  <1>5. CASE CallSucceeds(a)
    <2>1. breaker' \in [Agents -> [Keys -> Breaker]]
      BY <1>1, <1>5, FreshTypes, SetBreaker DEF CallSucceeds, TypeInv
    <2>2. call' \in [Agents -> Call] /\ Counting'
      BY <1>5, FreshTypes, SetCall DEF CallSucceeds
    <2>3. store' \in [Keys -> Record \cup {NoRecord}] /\ unsaved' \subseteq Keys /\ faults' \in 0..MaxFaults
      BY <1>1, <1>5, FreshTypes, PersistType DEF CallSucceeds, TypeInv
    <2>4. streak' \in [Keys -> 0..OpenAfter] /\ cooldown' \in [Keys -> 0..OpenFor]
      BY <1>1, <1>5, ThresholdAssumption DEF CallSucceeds, TypeInv, TypeOK
    <2> QED
      BY <2>1, <2>2, <2>3, <2>4 DEF TypeInv, TypeOK
  <1>6. CASE CallUnavailable(a)
    <2> DEFINE b == record_failure(breaker[a][Model(a)])
    <2>0. b \in Breaker
      BY <1>2, FailureFacts
    <2>1. breaker' = [breaker EXCEPT ![a][Model(a)] = b] /\ persist_breaker(Model(a), b)
      BY <1>6 DEF CallUnavailable
    <2>2. streak' = [streak EXCEPT ![Model(a)] = Capped(streak[Model(a)] + 1)]
      BY <1>6 DEF CallUnavailable
    <2>3. cooldown' = [cooldown EXCEPT ![Model(a)] =
              IF get_state(b) = "open" THEN OpenFor ELSE cooldown[Model(a)]]
      BY <1>6 DEF CallUnavailable
    <2>4. call' \in [Agents -> Call] /\ Counting'
      BY <1>6, RetryFacts, SetCall
    <2> HIDE DEF b
    <2>5. breaker' \in [Agents -> [Keys -> Breaker]]
      BY <1>1, <2>0, <2>1, SetBreaker DEF TypeInv
    <2>6. store' \in [Keys -> Record \cup {NoRecord}] /\ unsaved' \subseteq Keys /\ faults' \in 0..MaxFaults
      BY <1>1, <2>0, <2>1, PersistType DEF TypeInv
    <2>7. streak' \in [Keys -> 0..OpenAfter]
      BY <1>1, <2>2, ThresholdAssumption DEF Capped, TypeInv, TypeOK
    <2>8. cooldown' \in [Keys -> 0..OpenFor]
      BY <1>1, <2>3, ThresholdAssumption DEF TypeInv, TypeOK
    <2> QED
      BY <2>4, <2>5, <2>6, <2>7, <2>8 DEF TypeInv, TypeOK
  <1>7. CASE CallRaises(a)
    BY <1>7, FreshTypes, SetCall DEF CallRaises, histories, TypeInv, TypeOK
  <1>8. CASE Restart(a)
    <2>1. ASSUME NEW m \in Keys
          PROVE  (IF store[m] = NoRecord THEN Fresh ELSE apply_persisted_state(Fresh, store[m])) \in Breaker
      <3>1. store[m] \in Record \cup {NoRecord}
        BY DEF TypeInv, TypeOK
      <3> QED
        BY <3>1, FreshTypes, ApplyType
    <2>2. breaker' \in [Agents -> [Keys -> Breaker]]
      BY <1>8, <2>1 DEF Restart, TypeInv, TypeOK
    <2>3. call' \in [Agents -> Call] /\ Counting'
      BY <1>8, FreshTypes, SetCall DEF Restart
    <2>4. faults' \in 0..MaxFaults
      BY <1>8, FaultType DEF Restart, TypeInv
    <2> QED
      BY <1>8, <2>2, <2>3, <2>4 DEF Restart, histories, TypeInv, TypeOK
  <1> QED
    BY <1>3, <1>4, <1>5, <1>6, <1>7, <1>8 DEF Work

(* The types hold for any number of agents.                                  *)
LEMMA TypeInvariant == Spec => []TypeInv
  <1>1. TypeInv /\ UNCHANGED vars => TypeInv'
    BY DEF TypeInv, TypeOK, Counting, vars
  <1>2. TypeInv /\ [Next]_vars => TypeInv'
    BY <1>1, TickType, AgentType DEF Next
  <1> QED
    BY InitType, <1>2, PTL DEF Spec

(* A request never runs past its list of models or its attempts, whatever   *)
(* fails, for any number of agents.                                         *)
THEOREM ResilienceTypes == Spec => []TypeOK
  BY TypeInvariant, PTL DEF TypeInv

----------------------------------------------------------------------------
(* One agent with the store to itself.                                      *)

OneAgent == \A a, b \in Agents : a = b

AgreeOn(a, m) ==
    /\ breaker[a][m].failures = streak[m]
    /\ store[m].failures = streak[m]
    /\ breaker[a][m].open_until = store[m].open_until
    /\ store[m].open_until # Never <=> streak[m] = OpenAfter
    /\ store[m].open_until = Never => store[m].state \in {"none", "closed"} /\ cooldown[m] = 0
    /\ store[m].open_until # Never => store[m].state = "open" /\ cooldown[m] = store[m].open_until

Agreement == \A a \in Agents, m \in Keys \ unsaved : AgreeOn(a, m)

(* A call in flight was let through by a circuit that is not open.           *)
LetThrough ==
    \A a \in Agents : call[a].pc = "calling" /\ Model(a) \notin unsaved
        => breaker[a][Model(a)].open_until \in {Never, 0}

Agreeing == Agreement /\ LetThrough

(* Nothing has happened that could be disagreed on.                          *)
LEMMA InitAgrees == Init => Agreeing
  BY ThresholdAssumption
     DEF Init, Agreeing, Agreement, LetThrough, AgreeOn, Fresh, NoRecord, NoCall

(* A stored record taken over says what the breaker said.                   *)
LEMMA TakenOver ==
    ASSUME TypeInv, NEW a \in Agents, NEW m \in Keys, AgreeOn(a, m),
           store[m] \in Record, NEW b \in Breaker
    PROVE  /\ apply_persisted_state(b, store[m]).failures = streak[m]
           /\ apply_persisted_state(b, store[m]).open_until = store[m].open_until
  <1>1. store[m].state \in {"closed", "open"}
    BY DEF AgreeOn, Record
  <1> QED
    BY <1>1 DEF AgreeOn, apply_persisted_state

(* Windows in memory, in the store and in the history run down alike.        *)
LEMMA TickAgrees ==
    ASSUME OneAgent, TypeInv, Agreeing, Tick
    PROVE  Agreeing'
  <1>1. ASSUME NEW a \in Agents, NEW m \in Keys, AgreeOn(a, m)
        PROVE  AgreeOn(a, m)'
    <2>1. /\ breaker[a][m] \in Breaker /\ store[m] \in Record \cup {NoRecord}
          /\ store[m].open_until \in OpenUntil /\ cooldown[m] \in 0..OpenFor
      BY NeverAssumption DEF TypeInv, TypeOK, Record, NoRecord, OpenUntil
    <2>2. /\ breaker'[a][m].failures = breaker[a][m].failures
          /\ breaker'[a][m].open_until = Elapse(breaker[a][m].open_until)
      BY <2>1 DEF Tick, Breaker
    <2>3. /\ store'[m].failures = store[m].failures /\ store'[m].state = store[m].state
          /\ store'[m].open_until = Elapse(store[m].open_until)
      BY <2>1 DEF Tick, Record, NoRecord
    <2>4. cooldown'[m] = Elapse(cooldown[m]) /\ streak' = streak
      BY DEF Tick
    <2>5. Elapse(0) = 0
      BY DEF Elapse
    <2> QED
      BY <1>1, <2>1, <2>2, <2>3, <2>4, <2>5, ElapseType DEF AgreeOn
  <1>2. unsaved' = unsaved /\ call' = call
    BY DEF Tick
  <1>3. Agreement'
    BY <1>1, <1>2 DEF Agreeing, Agreement
  <1>4. ASSUME NEW a \in Agents, NEW m \in Keys, breaker[a][m].open_until \in {Never, 0}
        PROVE  breaker'[a][m].open_until \in {Never, 0}
    <2>1. breaker[a][m] \in Breaker
      BY DEF TypeInv, TypeOK
    <2>2. breaker'[a][m].open_until = Elapse(breaker[a][m].open_until)
      BY <2>1 DEF Tick, Breaker
    <2>3. Elapse(0) = 0 /\ Elapse(Never) = Never
      BY NeverAssumption DEF Elapse
    <2> QED
      BY <1>4, <2>2, <2>3
  <1>5. LetThrough'
    <2> SUFFICES ASSUME NEW a \in Agents, call'[a].pc = "calling", Model(a)' \notin unsaved'
                 PROVE  breaker'[a][Model(a)'].open_until \in {Never, 0}
      BY DEF LetThrough
    <2>1. Model(a)' = Model(a) /\ Model(a) \in Keys
      BY <1>2, ModelType DEF Model, TypeInv
    <2>2. breaker[a][Model(a)].open_until \in {Never, 0}
      BY <1>2, <2>1 DEF Agreeing, LetThrough
    <2> QED
      BY <1>4, <2>1, <2>2
  <1> QED
    BY <1>3, <1>5 DEF Agreeing

(* A step on one model leaves the agreement on the others alone.            *)
LEMMA OthersAgree ==
    ASSUME OneAgent, TypeInv, Agreeing, NEW a \in Agents, NEW m \in Keys,
           \A n \in Keys \ {m} :
               /\ breaker'[a][n] = breaker[a][n] /\ store'[n] = store[n]
               /\ streak'[n] = streak[n] /\ cooldown'[n] = cooldown[n]
               /\ n \notin unsaved' => n \notin unsaved,
           m \notin unsaved' => AgreeOn(a, m)'
    PROVE  Agreement'
  <1> SUFFICES ASSUME NEW b \in Agents, NEW n \in Keys \ unsaved'
               PROVE  AgreeOn(b, n)'
    BY DEF Agreement
  <1>1. b = a
    BY DEF OneAgent
  <1>2. CASE n = m
    BY <1>1, <1>2
  <1>3. CASE n # m
    <2>1. AgreeOn(a, n)
      BY <1>3 DEF Agreeing, Agreement
    <2> QED
      BY <1>1, <1>3, <2>1 DEF AgreeOn
  <1> QED
    BY <1>2, <1>3

(* A call that is over, or goes on with a circuit that is not open.          *)
LEMMA LetThroughAgain ==
    ASSUME OneAgent, TypeInv, NEW a \in Agents, NEW k \in Call, call' = [call EXCEPT ![a] = k],
           (k.pc = "calling" /\ Models[k.model] \notin unsaved') =>
               breaker'[a][Models[k.model]].open_until \in {Never, 0}
    PROVE  LetThrough'
  <1>1. \A b \in Agents : b = a /\ call'[b] = k
    BY DEF OneAgent, TypeInv, TypeOK
  <1> QED
    BY <1>1 DEF LetThrough, Model

(* The gate takes the stored record over and lets through or not.            *)
LEMMA GateAgrees ==
    ASSUME OneAgent, TypeInv, Agreeing, NEW a \in Agents, CheckCircuit(a)
    PROVE  Agreeing'
  <1>1. PICK m \in Keys : m = Model(a)
    BY ModelType DEF TypeInv
  <1>2. PICK b \in Breaker, k \in Call :
           /\ load_state_into_breaker(a, m, b)
           /\ breaker' = [breaker EXCEPT ![a][m] =
                 [b EXCEPT !.probe = b.probe /\ get_state(b) # "half_open"]]
           /\ [b EXCEPT !.probe = b.probe /\ get_state(b) # "half_open"] \in Breaker
           /\ call' = [call EXCEPT ![a] = k]
           /\ k.pc = "calling" => allow_request(b) /\ k.model = call[a].model
    BY <1>1, GateFacts
  <1>3. UNCHANGED <<store, streak, cooldown, unsaved>>
    BY DEF CheckCircuit, histories
  <1>4. /\ breaker'[a][m] = [b EXCEPT !.probe = b.probe /\ get_state(b) # "half_open"]
        /\ \A n \in Keys \ {m} : breaker'[a][n] = breaker[a][n]
    BY <1>1, <1>2, SetBreaker DEF TypeInv
  <1>5. breaker'[a][m].failures = b.failures /\ breaker'[a][m].open_until = b.open_until
    BY <1>4 DEF Breaker
  <1>6. m \notin unsaved' => AgreeOn(a, m)'
    <2> SUFFICES ASSUME m \notin unsaved
                 PROVE  AgreeOn(a, m)'
      BY <1>3
    <2>1. AgreeOn(a, m) /\ breaker[a][m] \in Breaker
      BY <1>1 DEF Agreeing, Agreement, TypeInv, TypeOK
    <2>2. b.failures = streak[m] /\ b.open_until = store[m].open_until
      <3>1. CASE b = breaker[a][m]
        BY <2>1, <3>1 DEF AgreeOn
      <3>2. CASE store[m] \in Record /\ b = apply_persisted_state(breaker[a][m], store[m])
        BY <1>1, <2>1, <3>2, TakenOver
      <3> QED
        BY <1>1, <1>2, <3>1, <3>2, LoadedBreaker DEF TypeInv
    <2> QED
      BY <1>3, <1>5, <2>1, <2>2 DEF AgreeOn
  <1>7. Agreement'
    BY <1>1, <1>3, <1>4, <1>6, OthersAgree
  <1>8. allow_request(b) => b.open_until \in {Never, 0}
    BY DEF allow_request, get_state
  <1>9. LetThrough'
    <2>1. k.pc = "calling" => Models[k.model] = m
      BY <1>1, <1>2 DEF Model
    <2> QED
      BY <1>2, <1>5, <1>8, <2>1, LetThroughAgain
  <1> QED
    BY <1>7, <1>9 DEF Agreeing

(* A success closes the circuit in memory and on file.                       *)
LEMMA SuccessAgrees ==
    ASSUME OneAgent, TypeInv, Agreeing, NEW a \in Agents, CallSucceeds(a)
    PROVE  Agreeing'
  <1>1. PICK m \in Keys : m = Model(a)
    BY ModelType DEF TypeInv
  <1>2. /\ breaker' = [breaker EXCEPT ![a][m] = Fresh] /\ persist_breaker(m, Fresh)
        /\ call' = [call EXCEPT ![a] = NoCall]
        /\ streak' = [streak EXCEPT ![m] = 0] /\ cooldown' = [cooldown EXCEPT ![m] = 0]
    BY <1>1 DEF CallSucceeds
  <1>3. breaker'[a][m] = Fresh /\ \A n \in Keys \ {m} : breaker'[a][n] = breaker[a][n]
    BY <1>1, <1>2, FreshTypes, SetBreaker DEF TypeInv
  <1>4. /\ streak'[m] = 0 /\ cooldown'[m] = 0
        /\ \A n \in Keys \ {m} : streak'[n] = streak[n] /\ cooldown'[n] = cooldown[n]
    BY <1>1, <1>2 DEF TypeInv, TypeOK
  <1>5. \A n \in Keys \ {m} : store'[n] = store[n] /\ (n \notin unsaved' => n \notin unsaved)
    BY <1>1, <1>2 DEF persist_breaker, TypeInv, TypeOK
  <1>6. m \notin unsaved' => AgreeOn(a, m)'
    <2>1. m \notin unsaved' => store' = [store EXCEPT ![m] = Persisted(Fresh)]
      BY <1>2 DEF persist_breaker
    <2>2. m \notin unsaved' => store'[m] = Persisted(Fresh)
      BY <1>1, <2>1 DEF TypeInv, TypeOK
    <2>3. /\ Persisted(Fresh).failures = 0 /\ Persisted(Fresh).state = "closed"
          /\ Persisted(Fresh).open_until = Never
      BY NeverAssumption DEF Persisted, Fresh, get_state
    <2>4. Fresh.failures = 0 /\ Fresh.open_until = Never
      BY DEF Fresh
    <2> QED
      BY <1>3, <1>4, <2>2, <2>3, <2>4, ThresholdAssumption DEF AgreeOn
  <1>7. Agreement'
    BY <1>1, <1>3, <1>4, <1>5, <1>6, OthersAgree
  <1>8. LetThrough'
    BY <1>2, FreshTypes, LetThroughAgain
  <1> QED
    BY <1>7, <1>8 DEF Agreeing

(* A failure counts in both, and opens both at the threshold.                *)
LEMMA FailureAgrees ==
    ASSUME OneAgent, TypeInv, Agreeing, NEW a \in Agents, CallUnavailable(a)
    PROVE  Agreeing'
  <1>m. PICK m \in Keys : m = Model(a)
    BY ModelType DEF TypeInv
  <1>1. PICK old \in Breaker : old = breaker[a][m]
    BY DEF TypeInv, TypeOK
  <1>b. PICK b \in Breaker : b = record_failure(old)
    BY <1>1, FailureFacts
  <1>2. /\ breaker' = [breaker EXCEPT ![a][m] = b] /\ persist_breaker(m, b)
        /\ streak' = [streak EXCEPT ![m] = Capped(streak[m] + 1)]
        /\ cooldown' = [cooldown EXCEPT ![m] =
              IF get_state(b) = "open" THEN OpenFor ELSE cooldown[m]]
        /\ call[a].pc = "calling"
    BY <1>m, <1>1, <1>b DEF CallUnavailable
  <1>3. /\ b \in Breaker /\ b.failures = Capped(old.failures + 1) /\ b.failures >= 1
        /\ (get_state(old) = "half_open" \/ b.failures = OpenAfter) => b.open_until = OpenFor
        /\ ~(get_state(old) = "half_open" \/ b.failures = OpenAfter)
              => b.open_until = old.open_until
    BY <1>1, <1>b, FailureFacts
  <1>4. PICK k \in Call :
           /\ call' = [call EXCEPT ![a] = k]
           /\ k.pc = "calling" => get_state(b) # "open" /\ Models[k.model] = m
    BY <1>m, <1>1, <1>b, RetryFacts DEF Model
  <1>5. m \notin unsaved => old.open_until \in {Never, 0}
    BY <1>m, <1>1, <1>2 DEF Agreeing, LetThrough
  <1>6. breaker'[a][m] = b /\ \A n \in Keys \ {m} : breaker'[a][n] = breaker[a][n]
    BY <1>1, <1>2, <1>3, SetBreaker DEF TypeInv
  <1>7. /\ streak'[m] = Capped(streak[m] + 1)
        /\ cooldown'[m] = IF get_state(b) = "open" THEN OpenFor ELSE cooldown[m]
        /\ \A n \in Keys \ {m} : streak'[n] = streak[n] /\ cooldown'[n] = cooldown[n]
    BY <1>1, <1>2 DEF TypeInv, TypeOK
  <1>8. \A n \in Keys \ {m} : store'[n] = store[n] /\ (n \notin unsaved' => n \notin unsaved)
    BY <1>1, <1>2 DEF persist_breaker, TypeInv, TypeOK
  <1>9. m \notin unsaved' => AgreeOn(a, m)'
    <2> SUFFICES ASSUME m \notin unsaved'
                 PROVE  AgreeOn(a, m)'
      OBVIOUS
    <2>1. b # Fresh
      BY <1>3 DEF Fresh
    <2>2. m \notin unsaved /\ store' = [store EXCEPT ![m] = Persisted(b)]
      BY <1>2, <2>1 DEF persist_breaker
    <2>3. store'[m] = Persisted(b)
      BY <1>1, <2>2 DEF TypeInv, TypeOK
    <2>4. /\ store'[m].failures = b.failures /\ store'[m].open_until = b.open_until
          /\ store'[m].state = get_state(b)
      BY <2>3 DEF Persisted
    <2>5. AgreeOn(a, m)
      BY <1>1, <2>2 DEF Agreeing, Agreement
    <2>6. old.failures = streak[m] /\ old.open_until \in {Never, 0}
          /\ (old.open_until # Never <=> streak[m] = OpenAfter) /\ cooldown[m] = 0
      BY <1>1, <1>5, <2>2, <2>5, NeverAssumption DEF AgreeOn
    <2>7. b.failures = Capped(streak[m] + 1)
      BY <1>3, <2>6
    <2>8. b.open_until \in {Never, OpenFor} /\ (b.open_until # Never <=> b.failures = OpenAfter)
      <3>1. OpenFor # Never /\ 0 # Never
        BY NeverAssumption, ThresholdAssumption
      <3>2. CASE old.open_until = 0
        <4>1. get_state(old) = "half_open"
          BY <3>1, <3>2 DEF get_state
        <4>2. Capped(OpenAfter + 1) = OpenAfter
          BY ThresholdAssumption DEF Capped
        <4> QED
          BY <1>3, <2>6, <2>7, <3>1, <3>2, <4>1, <4>2
      <3>3. CASE old.open_until = Never
        <4>1. get_state(old) = "closed"
          BY <3>3, NeverAssumption DEF get_state
        <4> QED
          BY <1>3, <3>1, <3>3, <4>1
      <3> QED
        BY <2>6, <3>2, <3>3
    <2>9. CASE b.open_until = Never
      <3>1. get_state(b) = "closed"
        BY <2>9, NeverAssumption DEF get_state
      <3> QED
        BY <1>6, <1>7, <2>4, <2>6, <2>7, <2>8, <2>9, <3>1 DEF AgreeOn
    <2>10. CASE b.open_until # Never
      <3>1. b.open_until = OpenFor /\ OpenFor # 0
        BY <2>8, <2>10, ThresholdAssumption
      <3>2. get_state(b) = "open"
        BY <2>10, <3>1, NeverAssumption DEF get_state
      <3> QED
        BY <1>6, <1>7, <2>4, <2>7, <2>8, <2>10, <3>1, <3>2 DEF AgreeOn
    <2> QED
      BY <2>9, <2>10
  <1>10. Agreement'
    BY <1>1, <1>6, <1>7, <1>8, <1>9, OthersAgree
  <1>11. get_state(b) # "open" => b.open_until \in {Never, 0}
    BY DEF get_state
  <1>12. LetThrough'
    BY <1>4, <1>6, <1>11, LetThroughAgain
  <1> QED
    BY <1>10, <1>12 DEF Agreeing

(* An agent that restarts has the stored record only.                        *)
LEMMA RestartAgrees ==
    ASSUME OneAgent, TypeInv, Agreeing, NEW a \in Agents, Restart(a)
    PROVE  Agreeing'
  <1>1. UNCHANGED <<store, streak, cooldown, unsaved>> /\ call' = [call EXCEPT ![a] = NoCall]
    BY DEF Restart, histories
  <1>2. ASSUME NEW m \in Keys
        PROVE  breaker'[a][m] = IF store[m] = NoRecord THEN Fresh
                                ELSE apply_persisted_state(Fresh, store[m])
    BY DEF Restart, TypeInv, TypeOK
  <1>3. ASSUME NEW m \in Keys \ unsaved
        PROVE  AgreeOn(a, m)'
    <2>1. AgreeOn(a, m) /\ store[m] \in Record \cup {NoRecord}
      BY DEF Agreeing, Agreement, TypeInv, TypeOK
    <2>2. breaker'[a][m].failures = streak[m] /\ breaker'[a][m].open_until = store[m].open_until
      <3>1. CASE store[m] = NoRecord
        BY <1>2, <2>1, <3>1 DEF AgreeOn, NoRecord, Fresh
      <3>2. CASE store[m] # NoRecord
        BY <1>2, <2>1, <3>2, FreshTypes, TakenOver
      <3> QED
        BY <3>1, <3>2
    <2> QED
      BY <1>1, <2>1, <2>2 DEF AgreeOn
  <1>4. Agreement'
    BY <1>1, <1>3 DEF Agreement, OneAgent
  <1>5. LetThrough'
    BY <1>1, FreshTypes, LetThroughAgain
  <1> QED
    BY <1>4, <1>5 DEF Agreeing

(* Requests that begin, and calls that raise, touch no breaker.              *)
LEMMA RequestAgrees ==
    ASSUME OneAgent, TypeInv, Agreeing, NEW a \in Agents, BeginRequest(a) \/ CallRaises(a)
    PROVE  Agreeing'
  <1>1. UNCHANGED <<breaker, store, streak, cooldown, unsaved>>
    BY DEF BeginRequest, CallRaises, histories
  <1>2. Agreement'
    BY <1>1 DEF Agreeing, Agreement, AgreeOn
  <1>3. \E k \in Call : k.pc # "calling" /\ call' = [call EXCEPT ![a] = k]
    <2>1. CASE BeginRequest(a)
      <3> DEFINE k == [call[a] EXCEPT !.pc = "gate"]
      <3>1. k \in Call /\ k.pc = "gate" /\ call' = [call EXCEPT ![a] = k]
        BY <2>1 DEF BeginRequest, TypeInv, TypeOK, Call
      <3> HIDE DEF k
      <3> QED
        BY <3>1
    <2>2. CASE CallRaises(a)
      BY <2>2, FreshTypes DEF CallRaises
    <2> QED
      BY <2>1, <2>2
  <1>4. LetThrough'
    BY <1>3, LetThroughAgain
  <1> QED
    BY <1>2, <1>4 DEF Agreeing

(* The agreement holds for one agent.                                        *)
LEMMA AgreementInvariant ==
    ASSUME OneAgent
    PROVE  Spec => []Agreeing
  <1>1. TypeInv /\ Agreeing /\ UNCHANGED vars => Agreeing'
    BY DEF Agreeing, Agreement, AgreeOn, LetThrough, Model, vars
  <1>2. TypeInv /\ Agreeing /\ Next => Agreeing'
    BY TickAgrees, GateAgrees, SuccessAgrees, FailureAgrees, RequestAgrees, RestartAgrees
       DEF Next, Work
  <1>3. TypeInv /\ Agreeing /\ [Next]_vars => Agreeing'
    BY <1>1, <1>2
  <1> QED
    BY InitAgrees, <1>3, TypeInvariant, PTL DEF Spec

(* One agent: through restarts, failed reads and any fallback list, the     *)
(* stored circuit of a model whose writes were saved is open exactly from   *)
(* its OpenAfter-th failure since the last success on (resilience.py:54).   *)
THEOREM ThresholdIsExact ==
    ASSUME OneAgent
    PROVE  Spec => []((\E a \in Agents : TRUE) => TripsExactly)
  <1>1. Agreeing => ((\E a \in Agents : TRUE) => TripsExactly)
    BY DEF Agreeing, Agreement, AgreeOn, TripsExactly
  <1> QED
    BY <1>1, AgreementInvariant, PTL

(* One agent: no call is made or retried on a model within the window its   *)
(* failures opened, as long as its writes were saved (resilience.py:158).   *)
THEOREM WindowIsKept ==
    ASSUME OneAgent
    PROVE  Spec => []CooldownHolds
  <1>1. TypeInv /\ Agreeing => CooldownHolds
    <2> SUFFICES ASSUME TypeInv, Agreeing, NEW a \in Agents,
                        call[a].pc = "calling", Model(a) \notin unsaved
                 PROVE  cooldown[Model(a)] = 0
      BY DEF CooldownHolds
    <2>1. AgreeOn(a, Model(a)) /\ breaker[a][Model(a)].open_until \in {Never, 0}
      BY ModelType DEF TypeInv, Agreeing, Agreement, LetThrough
    <2> QED
      BY <2>1 DEF AgreeOn
  <1> QED
    BY <1>1, AgreementInvariant, TypeInvariant, PTL
=============================================================================
