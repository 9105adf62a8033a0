---------------------------- MODULE MCControlPlane ----------------------------
(***************************************************************************)
(* Small instances of four parts of the control plane.  They are explored  *)
(* one at a time, the others at rest: "governor" runs governed commands    *)
(* side by side, "clock" runs daemons on a state file left by earlier      *)
(* commands, "kernel" runs an agent with its kernel, "scheduler" runs the  *)
(* cooperative scheduler.                                                  *)
(***************************************************************************)
EXTENDS DaemonClock, CoherenceKernel, SystemClock

VARIABLE part

OneModel == <<"high">>
Curve1 == <<0, 393, 632, 777>>   \* 1 - exp(-n / 2)
Curve5 == <<0, 500, 1000>>       \* before, at and after t_target

Intervals == ("often" :> 1) @@ ("seldom" :> 2)

Left(enabled, token) == [NoState EXCEPT !.enabled = enabled, !.lock = 1, !.token = token,
                                        !.scope = TickScope]

Init ==
    /\ KernelInit
    /\ SchedulerInit
    /\ \/ part \in {"governor", "kernel", "scheduler"} /\ DaemonInit
       \/ part = "clock" /\ \E s \in {NoState, Left(FALSE, 0), Left(TRUE, 2)} : DaemonStart(s)

Next ==
    /\ UNCHANGED part
    /\ \/ part = "governor" /\ GovernorNext /\ UNCHANGED <<clock_vars, kernel_vars, scheduler_vars>>
       \/ part = "clock" /\ ClockNext /\ UNCHANGED <<kernel_vars, scheduler_vars>>
       \/ part = "kernel" /\ KernelNext /\ UNCHANGED <<daemon_vars, scheduler_vars>>
       \/ part = "scheduler" /\ SchedulerNext /\ UNCHANGED <<daemon_vars, kernel_vars>>

vars == <<daemon_vars, kernel_vars, scheduler_vars, part>>

(* Fairness is that of the part "clock", the only one asked for liveness.   *)
Spec == Init /\ [][Next]_vars /\ DaemonFairness

(* The kernel on its own. *)
KernelAlone == Init /\ part = "kernel" /\ [][Next]_vars /\ KernelFairness

TypeOK == DaemonTypeOK /\ KernelTypeOK /\ SchedulerTypeOK
=============================================================================
