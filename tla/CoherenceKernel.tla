---------------------------- MODULE CoherenceKernel ----------------------------
(***************************************************************************)
(* The coherence kernel (app/audit/coherence_kernel.py) inside the agent   *)
(* that feeds it and obeys it (app/agent.py, call_with_resilience): the    *)
(* windowed counters, the five risk signals, the regime, and the requests  *)
(* that are shed or halted because of it.  Every request of the agent has  *)
(* the lowest priority, since generate() passes none.                      *)
(*                                                                         *)
(* Time is counted in tick_seconds, risks in thousandths.  The two         *)
(* exponential curves are given as tables.  How many failures open a       *)
(* circuit is the matter of Resilience: here a failing call opens it or    *)
(* does not.                                                               *)
(***************************************************************************)
EXTENDS Naturals, Sequences, FiniteSetsExt

CONSTANTS
    Models,       \* the fallback list
    Slots,        \* window_seconds // tick_seconds
    Drifts,       \* values of the context drift risk
    Phi1,         \* risk of 0, 1, ... violations in the window
    Phi5,         \* risk of 0, 1, ... ticks without a success
    MaxAttempts,  \* max_attempts_per_model
    OpenFor,      \* ticks for which an opened circuit blocks
    MaxPerSlot    \* bound: calls made in one slot

ASSUME KernelAssumption == Slots \in Nat \ {0} /\ MaxAttempts \in Nat \ {0} /\ OpenFor \in Nat

(* There is a model to ask, a drift is a risk, and the curves are: the first *)
(* starts at 1 - exp(0).                                                     *)
ASSUME CurveAssumption ==
    /\ Len(Models) \in Nat \ {0} /\ MaxPerSlot \in Nat
    /\ Drifts \subseteq 0..1000
    /\ Phi1 \in Seq(0..1000) /\ Len(Phi1) > 0 /\ Phi1[1] = 0
    /\ Phi5 \in Seq(0..1000) /\ Len(Phi5) > 0

VARIABLES
    window,      \* the ring buffers, the current slot first
    lag,         \* ticks since _tick_ts
    phi2, phi3,  \* drift and breaker risk as last recorded
    idle_for,    \* ticks since _last_reset_ts
    regime,
    open_for,    \* each model's circuit: time left of its window, 0 if none
    request,     \* what the agent is doing
    recent,      \* history: violations by their age in ticks
    prompt,      \* history: those recorded in the tick their request began in
    troubled     \* history: something other than time has raised a risk

kernel_vars == <<window, lag, phi2, phi3, idle_for, regime, open_for, request,
                 recent, prompt, troubled>>
histories == <<recent, prompt, troubled>>

Empty == [violations |-> 0, requests |-> 0, retries |-> 0]
NoRequest == [pc |-> "idle", model |-> 1, attempt |-> 0]
Regimes == {"STABLE", "PRESSURE", "UNSTABLE", "FAILURE"}
Ages == 1..Slots     \* 1: since the last tick of the clock

KernelInit ==
    /\ window = [i \in 1..Slots |-> Empty]
    /\ lag = 0 /\ phi2 = 0 /\ phi3 = 0 /\ idle_for = 0
    /\ regime = "STABLE"
    /\ open_for = [i \in 1..Len(Models) |-> 0]
    /\ request = NoRequest
    /\ recent = [a \in Ages |-> 0]
    /\ prompt = [a \in Ages |-> 0]
    /\ troubled = FALSE

----------------------------------------------------------------------------
(* The kernel.                                                              *)

clamp(x) == IF x > 1000 THEN 1000 ELSE x
Curve(table, n) == IF n < Len(table) THEN table[n + 1] ELSE table[Len(table)]

(* Mutant: a late tick advances the window by one slot only. *)
AdvanceOnce(w, n) ==
    IF n = 0 THEN w ELSE [i \in 1..Slots |-> IF i = 1 THEN Empty ELSE w[i - 1]]

(* tick(): one empty slot for every tick that has gone by.                  *)
advance(w, n) == [i \in 1..Slots |-> IF i <= n THEN Empty ELSE w[i - n]]

Total(w, field) == SumFunction([i \in DOMAIN w |-> w[i][field]])

phi4(w) ==
    LET calls == Total(w, "requests")
    IN  IF calls = 0 THEN 0 ELSE clamp((1000 * Total(w, "retries")) \div (3 * calls))

(* The five signals for a window and a drift just recorded.                 *)
Signals(w, drift) ==
    <<Curve(Phi1, Total(w, "violations")), drift, phi3, phi4(w), Curve(Phi5, idle_for)>>

(* Weights 1.5, 1, 2, 1, 0.5 out of 6.                                      *)
Average(s) == (15 * s[1] + 10 * s[2] + 20 * s[3] + 10 * s[4] + 5 * s[5]) \div 60
Worst(s) == Max({s[i] : i \in 1..5})

(* Mutant: alpha weighs the average instead of the worst signal. *)
AggregateByWorst(s) == (2 * Average(s) + 8 * Worst(s)) \div 10

aggregate(s) == (8 * Average(s) + 2 * Worst(s)) \div 10

update_regime(risk) ==
    CASE regime = "FAILURE" \/ risk >= 800 -> "FAILURE"
      [] regime = "UNSTABLE" /\ risk < 800 -> IF risk < 450 THEN "PRESSURE" ELSE "UNSTABLE"
      [] regime = "PRESSURE" /\ risk < 800 -> IF risk >= 500 THEN "UNSTABLE"
                                              ELSE IF risk < 150 THEN "STABLE" ELSE "PRESSURE"
      [] OTHER -> IF risk >= 200 THEN "PRESSURE" ELSE "STABLE"

OpenRatio == (1000 * Cardinality({i \in DOMAIN open_for : open_for[i] > 0})) \div Len(Models)

----------------------------------------------------------------------------
(* generate(): record the drift, take a snapshot, and be shed, halted or    *)
(* admitted.  The breaker risk is recorded after the snapshot, and only for *)
(* a request that is admitted.                                              *)
Generate(drift) ==
    LET w == advance(window, lag)
        r == update_regime(aggregate(Signals(w, drift)))
        admitted == r \in {"STABLE", "PRESSURE"}
    IN  /\ request.pc = "idle"
        /\ w[1].requests + Len(Models) * MaxAttempts <= MaxPerSlot
        /\ window' = w
        /\ lag' = 0
        /\ phi2' = drift
        /\ regime' = r
        /\ phi3' = IF admitted THEN OpenRatio ELSE phi3
        /\ request' = IF admitted THEN [NoRequest EXCEPT !.pc = "gate"] ELSE NoRequest
        /\ troubled' = (troubled \/ drift > 0 \/ phi3' > 0)
        /\ UNCHANGED <<idle_for, open_for, recent, prompt>>

FallBack == request' = IF request.model < Len(Models)
                       THEN [NoRequest EXCEPT !.pc = "gate", !.model = request.model + 1]
                       ELSE NoRequest

CheckCircuit ==
    /\ request.pc = "gate"
    /\ IF open_for[request.model] > 0
       THEN FallBack
       ELSE request' = [request EXCEPT !.pc = "calling"]
    /\ UNCHANGED <<window, lag, phi2, phi3, idle_for, regime, open_for, histories>>

(* A call is counted with its retries when it is made.                      *)
Calling ==
    /\ request.pc = "calling"
    /\ window' = [window EXCEPT ![1].requests = @ + 1, ![1].retries = @ + request.attempt]

CallSucceeds ==
    /\ Calling
    /\ idle_for' = 0
    /\ open_for' = [open_for EXCEPT ![request.model] = 0]
    /\ request' = [request EXCEPT !.pc = "answered"]
    /\ UNCHANGED <<lag, phi2, phi3, regime, histories>>

(* No capacity: the circuit opens, or the call is retried, or the next model*)
(* is asked.                                                                *)
CallUnavailable ==
    /\ Calling
    /\ \/ /\ open_for' = [open_for EXCEPT ![request.model] = OpenFor]
          /\ FallBack
       \/ /\ UNCHANGED open_for
          /\ IF request.attempt + 1 < MaxAttempts
             THEN request' = [request EXCEPT !.attempt = @ + 1]
             ELSE FallBack
    /\ troubled' = TRUE
    /\ UNCHANGED <<lag, phi2, phi3, idle_for, regime, recent, prompt>>

CallRaises ==
    /\ Calling
    /\ request' = NoRequest
    /\ UNCHANGED <<lag, phi2, phi3, idle_for, regime, open_for, histories>>

(* The answer violates its constraint pack: counted in the current slot.    *)
Violation ==
    /\ request.pc = "answered"
    /\ window' = [window EXCEPT ![1].violations = @ + 1]
    /\ request' = NoRequest
    /\ recent' = [recent EXCEPT ![1] = @ + 1]
    /\ prompt' = IF lag = 0 THEN [prompt EXCEPT ![1] = @ + 1] ELSE prompt
    /\ troubled' = TRUE
    /\ UNCHANGED <<lag, phi2, phi3, idle_for, regime, open_for>>

Answer ==
    /\ request.pc = "answered"
    /\ request' = NoRequest
    /\ UNCHANGED <<window, lag, phi2, phi3, idle_for, regime, open_for, histories>>

(* A new process has a new kernel; the circuits are in the store.           *)
Restart ==
    /\ regime = "FAILURE"
    /\ window' = [i \in 1..Slots |-> Empty]
    /\ lag' = 0 /\ phi2' = 0 /\ phi3' = 0 /\ idle_for' = 0
    /\ regime' = "STABLE"
    /\ request' = NoRequest
    /\ recent' = [a \in Ages |-> 0]
    /\ prompt' = [a \in Ages |-> 0]
    /\ troubled' = FALSE
    /\ UNCHANGED open_for

Aged(ages) == [a \in Ages |-> IF a = 1 THEN 0 ELSE ages[a - 1]]

Tick ==
    /\ lag' = IF lag < Slots THEN lag + 1 ELSE lag
    /\ idle_for' = IF idle_for + 1 < Len(Phi5) THEN idle_for + 1 ELSE idle_for
    /\ open_for' = [i \in DOMAIN open_for |-> IF open_for[i] > 0 THEN open_for[i] - 1 ELSE 0]
    /\ recent' = Aged(recent)
    /\ prompt' = Aged(prompt)
    /\ UNCHANGED <<window, phi2, phi3, regime, request, troubled>>

Serve == CheckCircuit \/ CallSucceeds \/ CallUnavailable \/ CallRaises \/ Violation \/ Answer

KernelNext == (\E drift \in Drifts : Generate(drift)) \/ Serve \/ Restart \/ Tick

KernelSpec == KernelInit /\ [][KernelNext]_kernel_vars

(* Time passes, the agent is asked again and again, a request goes on, and  *)
(* an agent that halted is started again.                                   *)
KernelFairness ==
    /\ WF_kernel_vars(Tick)
    /\ WF_kernel_vars(\E drift \in Drifts : Generate(drift))
    /\ WF_kernel_vars(Serve)
    /\ WF_kernel_vars(Restart)

----------------------------------------------------------------------------
Slot == [violations : 0..MaxPerSlot, requests : 0..MaxPerSlot, retries : 0..MaxPerSlot * MaxAttempts]

KernelTypeOK ==
    /\ window \in [1..Slots -> Slot]
    /\ lag \in 0..Slots
    /\ {phi2, phi3} \subseteq 0..1000
    /\ idle_for \in 0..Len(Phi5)
    /\ regime \in Regimes
    /\ open_for \in [1..Len(Models) -> 0..OpenFor]
    /\ request \in [pc : {"idle", "gate", "calling", "answered"}, model : 1..Len(Models),
                    attempt : 0..MaxAttempts - 1]
    /\ recent \in [Ages -> Nat] /\ prompt \in [Ages -> Nat]
    /\ troubled \in BOOLEAN

(* What the next snapshot will count as violations: none that is older than *)
(* the window, and every one that was recorded within the tick in which its *)
(* request began, although the window only moves when somebody looks.       *)
(* (A violation found after a slow call may be forgotten early: it falls    *)
(* into the slot in which the call began.)                                  *)
WindowForgetsInTime ==
    LET counted == Total(advance(window, lag), "violations")
    IN  SumFunction(prompt) <= counted /\ counted <= SumFunction(recent)

(* Time alone, without drift, violations, failing calls or open circuits,   *)
(* never gets the kernel to shed or to halt: staleness is worth PRESSURE at *)
(* most.  The daemon's kernel, which nothing feeds, is in this case.        *)
QuietNeverSheds == ~troubled => regime \in {"STABLE", "PRESSURE"}

(* "When open timer expires, we permit ONE probe" (resilience.py:61): a     *)
(* circuit that has opened is tried again, or the kernel has halted.        *)
ExpiredCircuitIsProbed ==
    (open_for[1] > 0) ~> (regime = "FAILURE" \/ (request.pc = "calling" /\ request.model = 1))
=============================================================================
