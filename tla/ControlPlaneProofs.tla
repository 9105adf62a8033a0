--------------------------- MODULE ControlPlaneProofs ---------------------------
(***************************************************************************)
(* The control plane, for any number of processes, scopes, locks, tokens,  *)
(* models, slots and tasks.  The governor: a token whose use is on file is *)
(* not accepted again.  The daemons: their steps are steps of the governor,*)
(* so what it promises it promises there too; up to the first      *)
(* takeover of a lock there is one tick at a time, and the lock file is a  *)
(* lock (TickLock); a tick that ends well leaves reports that agree.       *)
(* The kernel: what its window counts, whatever the delay, and that time   *)
(* alone never gets it to shed.  The scheduler: its cadence and its order. *)
(* Last, all of them side by side, from any state file an earlier run left.*)
(***************************************************************************)
EXTENDS MCControlPlane, FiniteSetTheorems, WellFoundedInduction, TLAPS

(* A copy of the file that was made when `known' was spent.                 *)
Marked(s, known) == s.token # 0 /\ s.token \in known => s.used

(* What is read, kept or spent has been issued, so a new token is no old one.*)
OnlyIssued ==
    /\ spent \subseteq 1..gov_issued
    /\ gov_state.token <= gov_issued
    /\ \A p \in Procs : gov_job[p].seen.token <= gov_issued

CopiesMarked ==
    /\ Marked(gov_state, spent)
    /\ \A p \in Procs : /\ Marked(gov_job[p].seen, gov_job[p].known)
                        /\ gov_job[p].pc \in {"persist", "log"} => gov_job[p].seen.token # 0

(* A process without a command holds no copy of the file, so ending what was*)
(* never begun changes nothing.                                             *)
IdleHoldsNothing == \A p \in Procs : gov_job[p].pc = "idle" => gov_job[p] = NoJob

GovernorInv == GovernorTypeOK /\ OnlyIssued /\ CopiesMarked /\ SpentStaysSpent

LEMMA ConstantsTyped ==
    /\ SomeScope \in Scopes /\ NoState \in State /\ NoJob \in Job
    /\ NoState.token = 0 /\ NoState.lock = 0 /\ NoJob.seen = NoState /\ NoJob.pc = "idle" /\ NoJob.reason = "none"
  <1>1. SomeScope \in Scopes  BY ScopeAssumption DEF SomeScope
  <1>2. (CHOOSE t \in Trees : TRUE) \in Trees  BY TreeAssumption
  <1>3. NoState \in State  BY <1>1, <1>2, IssuedAssumption DEF NoState, State
  <1>4. NoJob \in Job  BY <1>1, <1>3 DEF NoJob, Job, Reasons
  <1> QED  BY <1>1, <1>3, <1>4 DEF NoState, NoJob

(* A verdict is one of the reasons, and accepts only a token not yet used.  *)
LEMMA ReasonTyped ==
    ASSUME NEW s \in State, NEW scope \in Scopes
    PROVE  /\ enforce_reason(s, scope) \in Reasons
           /\ enforce_reason(s, scope) = "override_used" => s.token # 0 /\ ~s.used
  BY DEF enforce_reason, override_valid, Reasons, Blocked

(* Whatever file earlier commands left, no command of this run has used the *)
(* override in it.                                                          *)
LEMMA GovernorStartInv == ASSUME NEW s \in State, GovernorStart(s) PROVE GovernorInv /\ IdleHoldsNothing
  <1> USE ConstantsTyped DEF GovernorStart
  <1>1. gov_issued \in 0..MaxIssued /\ s.token <= gov_issued
    BY IssuedAssumption DEF State
  <1>2. \A p \in Procs : gov_job[p] = NoJob  OBVIOUS
  <1>3. GovernorTypeOK
    BY <1>1, IssuedAssumption DEF GovernorTypeOK
  <1>4. OnlyIssued
    BY <1>1, <1>2 DEF OnlyIssued
  <1>5. CopiesMarked
    BY <1>2 DEF CopiesMarked, Marked
  <1>6. SpentStaysSpent
    BY <1>2 DEF SpentStaysSpent
  <1> QED  BY <1>2, <1>3, <1>4, <1>5, <1>6 DEF GovernorInv, IdleHoldsNothing

LEMMA GovernorInitInv == GovernorInit => GovernorInv /\ IdleHoldsNothing
  BY GovernorStartInv, ConstantsTyped DEF GovernorInit

(* What a command's step has to see to: it replaces its own job only, by one *)
(* that is typed, issued and marked.                                         *)
NewJob(p, job) ==
    /\ job \in Job
    /\ gov_job' = [gov_job EXCEPT ![p] = job]
    /\ job.seen.token <= gov_issued' /\ Marked(job.seen, job.known)
    /\ job.pc \in {"persist", "log"} => job.seen.token # 0
    /\ job.reason = "override_used" => job.seen.token \notin job.known

NewFile ==
    /\ gov_state' \in State
    /\ gov_issued' \in 0..MaxIssued /\ gov_issued <= gov_issued'
    /\ spent' \subseteq 1..gov_issued'
    /\ gov_state'.token <= gov_issued' /\ Marked(gov_state', spent')
    /\ used_events' \subseteq Ids
    /\ UNCHANGED <<gov_expired, tree>>

LEMMA NewJobKeeps ==
    ASSUME GovernorInv, NEW p \in Procs, NEW job, NewJob(p, job), NewFile
    PROVE  GovernorInv'
  <1> USE DEF GovernorInv, NewJob, NewFile
  <1>1. \A q \in Procs : gov_job'[q] = IF q = p THEN job ELSE gov_job[q]
    BY DEF GovernorTypeOK
  <1>2. gov_job' \in [Procs -> Job]
    BY DEF GovernorTypeOK
  <1>3. \A q \in Procs : gov_job[q].seen.token \in Nat
    BY IssuedAssumption DEF GovernorTypeOK, Job, State
  <1>4. 1..gov_issued' \subseteq Ids
    BY IssuedAssumption DEF Ids
  <1>5. GovernorTypeOK'
    BY <1>2, <1>4 DEF GovernorTypeOK
  <1>6. OnlyIssued'
    <2>1. gov_issued \in Nat /\ gov_issued' \in Nat
      BY IssuedAssumption DEF GovernorTypeOK
    <2>2. \A q \in Procs : gov_job'[q].seen.token <= gov_issued'
      BY <1>1, <1>3, <2>1 DEF OnlyIssued
    <2> QED  BY <2>2 DEF OnlyIssued
  <1>7. CopiesMarked'
    BY <1>1 DEF CopiesMarked, Marked
  <1>8. SpentStaysSpent'
    BY <1>1 DEF SpentStaysSpent
  <1> QED  BY <1>5, <1>6, <1>7, <1>8

LEMMA GovernorStepInv == GovernorInv /\ [GovernorNext]_gov_vars => GovernorInv'
  <1> SUFFICES ASSUME GovernorInv, [GovernorNext]_gov_vars PROVE GovernorInv'
    OBVIOUS
  <1>t. GovernorTypeOK /\ OnlyIssued /\ CopiesMarked /\ SpentStaysSpent
    BY DEF GovernorInv
  <1>n. gov_issued \in Nat /\ MaxIssued \in Nat /\ gov_issued <= MaxIssued
    BY <1>t, IssuedAssumption DEF GovernorTypeOK
  <1>1. CASE UNCHANGED gov_vars
    BY <1>1, <1>t DEF gov_vars, GovernorInv, GovernorTypeOK, OnlyIssued, CopiesMarked, SpentStaysSpent
  <1>2. ASSUME NEW i \in Ids, Expire(i) PROVE GovernorInv'
    BY <1>2, <1>t DEF Expire, GovernorInv, GovernorTypeOK, OnlyIssued, CopiesMarked, SpentStaysSpent
  <1>3. ASSUME NEW t \in Trees, EditTree(t) PROVE GovernorInv'
    BY <1>3, <1>t DEF EditTree, GovernorInv, GovernorTypeOK, OnlyIssued, CopiesMarked, SpentStaysSpent
  <1>s. ASSUME UNCHANGED <<gov_state, gov_issued, spent, gov_expired, tree>>, used_events' \subseteq Ids
        PROVE  NewFile
    BY <1>s, <1>t, <1>n DEF NewFile, GovernorTypeOK, OnlyIssued, CopiesMarked
  <1>4. ASSUME NEW p \in Procs, Command(p) PROVE GovernorInv'
    <2> DEFINE old == gov_job[p]
    <2>j. /\ old \in Job /\ old.seen \in State /\ old.scope \in Scopes
          /\ old.seen.token \in Nat /\ gov_state.token \in Nat
      BY <1>t, IssuedAssumption DEF GovernorTypeOK, Job, State
    <2>k. /\ old.seen.token <= gov_issued /\ Marked(old.seen, old.known)
          /\ old.pc \in {"persist", "log"} => old.seen.token # 0
          /\ old.reason = "override_used" => old.seen.token \notin old.known
      BY <1>t DEF OnlyIssued, CopiesMarked, SpentStaysSpent
    <2>e. UNCHANGED used_events => used_events' \subseteq Ids
      BY <1>t DEF GovernorTypeOK
    <2>1. ASSUME NEW s \in Scopes, BeginEnforce(p, s) PROVE GovernorInv'
      <3> DEFINE job == [NoJob EXCEPT !.pc = "decide", !.scope = s, !.seen = gov_state, !.known = spent]
      <3>1. job \in Job /\ job.seen = gov_state /\ job.known = spent /\ job.pc = "decide" /\ job.reason = "none"
        BY <1>t, ConstantsTyped DEF Job, GovernorTypeOK
      <3>2. gov_job' = [gov_job EXCEPT ![p] = job] /\ gov_issued' = gov_issued
        BY <2>1 DEF BeginEnforce
      <3> HIDE DEF job
      <3>3. NewJob(p, job)  BY <1>t, <3>1, <3>2 DEF NewJob, OnlyIssued, CopiesMarked
      <3>4. NewFile  BY <1>s, <2>e, <2>1 DEF BeginEnforce
      <3> QED  BY <3>3, <3>4, NewJobKeeps
    <2>2. CASE Decide(p)
      <3> DEFINE reason == enforce_reason(old.seen, old.scope)
                 job == [old EXCEPT !.reason = reason, !.pc = IF reason = "override_used" THEN "persist" ELSE "done"]
      <3>1. reason \in Reasons /\ (reason = "override_used" => old.seen.token # 0 /\ ~old.seen.used)
        BY <2>j, ReasonTyped
      <3>2. gov_job' = [gov_job EXCEPT ![p] = job] /\ gov_issued' = gov_issued
        BY <2>2, <1>t DEF Decide, GovernorTypeOK, Job
      <3> HIDE DEF reason
      <3>3. /\ job \in Job /\ job.seen = old.seen /\ job.known = old.known
            /\ job.reason = reason /\ (job.pc \in {"persist", "log"} => reason = "override_used")
        BY <2>j, <3>1 DEF Job
      <3> HIDE DEF job
      <3>4. reason = "override_used" => old.seen.token \notin old.known
        BY <3>1, <2>k DEF Marked
      <3>5. NewJob(p, job)  BY <2>k, <3>1, <3>2, <3>3, <3>4 DEF NewJob
      <3>6. NewFile  BY <1>s, <2>e, <2>2 DEF Decide
      <3> QED  BY <3>5, <3>6, NewJobKeeps
    <2>3. CASE PersistUse(p)
      <3> DEFINE job == [old EXCEPT !.pc = "log"]
      <3>1. /\ job \in Job /\ job.seen = old.seen /\ job.known = old.known
            /\ job.reason = old.reason /\ job.pc = "log"
        BY <2>j DEF Job
      <3>2. gov_job' = [gov_job EXCEPT ![p] = job] /\ gov_issued' = gov_issued /\ old.pc = "persist"
        BY <2>3, <1>t DEF PersistUse, GovernorTypeOK, Job
      <3> HIDE DEF job
      <3>3. gov_state' \in State /\ gov_state'.used /\ gov_state'.token = old.seen.token
        BY <2>3, <2>j DEF PersistUse, State
      <3>4. spent' \subseteq 1..gov_issued
        BY <2>3, <2>j, <2>k, <3>2, <1>t, <1>n DEF PersistUse, OnlyIssued
      <3>5. NewJob(p, job)  BY <2>k, <3>1, <3>2 DEF NewJob
      <3>6. Marked(gov_state', spent')  BY <3>3 DEF Marked
      <3>7. NewFile  BY <2>3, <2>e, <2>k, <3>3, <3>4, <3>6, <1>t, <1>n DEF NewFile, PersistUse, GovernorTypeOK
      <3> QED  BY <3>5, <3>7, NewJobKeeps
    <2>4. CASE LogUse(p)
      <3> DEFINE job == [old EXCEPT !.pc = "done"]
      <3>1. /\ job \in Job /\ job.seen = old.seen /\ job.known = old.known
            /\ job.reason = old.reason /\ job.pc = "done"
        BY <2>j DEF Job
      <3>2. gov_job' = [gov_job EXCEPT ![p] = job] /\ gov_issued' = gov_issued /\ old.pc = "log"
        BY <2>4, <1>t DEF LogUse, GovernorTypeOK, Job
      <3> HIDE DEF job
      <3>3. old.seen.token \in Ids
        BY <2>j, <2>k, <3>2, <1>n DEF Ids
      <3>4. used_events' \subseteq Ids
        BY <2>4, <3>3, <1>t DEF LogUse, GovernorTypeOK
      <3>5. NewJob(p, job)  BY <2>k, <3>1, <3>2 DEF NewJob
      <3>6. NewFile  BY <1>s, <3>4, <2>4 DEF LogUse
      <3> QED  BY <3>5, <3>6, NewJobKeeps
    <2>5. ASSUME NEW init \in BOOLEAN, BeginReview(p, init) PROVE GovernorInv'
      <3> DEFINE job == [NoJob EXCEPT !.pc = "review", !.seen.baseline = tree, !.known = spent]
      <3>1. job \in Job /\ job.seen.token = 0 /\ job.pc = "review" /\ job.reason = "none"
        BY <1>t, ConstantsTyped DEF Job, State, GovernorTypeOK
      <3>2. gov_job' = [gov_job EXCEPT ![p] = job] /\ gov_issued' = gov_issued
        BY <2>5 DEF BeginReview
      <3> HIDE DEF job
      <3>3. NewJob(p, job)  BY <3>1, <3>2, <1>n DEF NewJob, Marked
      <3>4. NewFile  BY <1>s, <2>e, <2>5 DEF BeginReview
      <3> QED  BY <3>3, <3>4, NewJobKeeps
    <2>n. NewJob(p, NoJob) <=> gov_job' = [gov_job EXCEPT ![p] = NoJob] /\ 0 <= gov_issued'
      BY ConstantsTyped DEF NewJob, Marked
    <2>6. ASSUME NEW enabled \in BOOLEAN, WriteReview(p, enabled) PROVE GovernorInv'
      <3>1. gov_issued' = gov_issued + 1 /\ gov_issued' \in 0..MaxIssued
        BY <2>6, <1>n DEF WriteReview
      <3>2. gov_state' = [NoState EXCEPT !.enabled = enabled, !.lock = gov_issued + 1, !.baseline = old.seen.baseline]
        BY <2>6 DEF WriteReview
      <3>3. old.seen.baseline \in Trees  BY <2>j DEF State
      <3>4. gov_state' \in State /\ gov_state'.token = 0
        BY <3>1, <3>2, <3>3, ConstantsTyped DEF State
      <3>5. spent' \subseteq 1..gov_issued'
        BY <2>6, <3>1, <1>t, <1>n DEF WriteReview, OnlyIssued
      <3>6. NewFile
        BY <2>6, <2>e, <3>1, <3>4, <3>5, <1>n DEF NewFile, Marked, WriteReview
      <3> QED  BY <2>6, <2>n, <3>1, <3>6, <1>n, NewJobKeeps DEF WriteReview
    <2>7. ASSUME NEW s \in TokenScopes, BeginOverride(p, s) PROVE GovernorInv'
      <3> DEFINE job == [NoJob EXCEPT !.pc = "override", !.scope = s, !.seen = gov_state, !.known = spent]
      <3>1. job \in Job /\ job.seen = gov_state /\ job.known = spent /\ job.pc = "override" /\ job.reason = "none"
        BY <1>t, ConstantsTyped, ScopeAssumption DEF Job, GovernorTypeOK
      <3>2. gov_job' = [gov_job EXCEPT ![p] = job] /\ gov_issued' = gov_issued
        BY <2>7 DEF BeginOverride
      <3> HIDE DEF job
      <3>3. NewJob(p, job)  BY <1>t, <3>1, <3>2 DEF NewJob, OnlyIssued, CopiesMarked
      <3>4. NewFile  BY <1>s, <2>e, <2>7 DEF BeginOverride
      <3> QED  BY <3>3, <3>4, NewJobKeeps
    <2>8. CASE WriteOverride(p)
      <3>1. gov_issued' = gov_issued + 1 /\ gov_issued' \in 0..MaxIssued
        BY <2>8, <1>n DEF WriteOverride
      <3>2. gov_state' = [old.seen EXCEPT !.token = gov_issued + 1, !.scope = old.scope, !.used = FALSE]
        BY <2>8 DEF WriteOverride
      <3>3. gov_state' \in State /\ gov_state'.token = gov_issued + 1
        BY <3>1, <3>2, <2>j DEF State
      <3>4. spent' \subseteq 1..gov_issued /\ spent' \subseteq 1..gov_issued'
        BY <2>8, <3>1, <1>t, <1>n DEF WriteOverride, OnlyIssued
      <3>5. Marked(gov_state', spent')
        BY <3>3, <3>4, <1>n DEF Marked
      <3>6. NewFile
        BY <2>8, <2>e, <3>1, <3>3, <3>4, <3>5, <1>n DEF NewFile, WriteOverride
      <3> QED  BY <2>8, <2>n, <3>1, <3>6, <1>n, NewJobKeeps DEF WriteOverride
    <2>9. CASE EndCommand(p)
      <3>1. NewFile  BY <1>s, <2>e, <2>9 DEF EndCommand
      <3> QED  BY <2>9, <2>n, <3>1, <1>n, NewJobKeeps DEF EndCommand
    <2> QED  BY <1>4, <2>1, <2>2, <2>3, <2>4, <2>5, <2>6, <2>7, <2>8, <2>9 DEF Command, EnforceStep
  <1> QED  BY <1>1, <1>2, <1>3, <1>4 DEF GovernorNext, GovernorEnvironment

(* The invariant holds of the governor on its own.                           *)
LEMMA GovernorInvariant == GovernorSpec => []GovernorInv
  BY GovernorInitInv, GovernorStepInv, PTL DEF GovernorSpec

(* The governor's part of TypeOK: the state file, the copies that commands  *)
(* hold and the logs are of the shape the code writes.                      *)
THEOREM GovernorTypes == GovernorSpec => []GovernorTypeOK
  <1>1. GovernorInv => GovernorTypeOK  BY DEF GovernorInv
  <1> QED  BY <1>1, GovernorInvariant, PTL

(* A token whose use is on file is never accepted by a command that started *)
(* after that (enforce, activation_governor.py), whatever copies of the file*)
(* reviews, overrides and other commands write back.                        *)
THEOREM SpentTokensStaySpent == GovernorSpec => []SpentStaysSpent
  <1>1. GovernorInv => SpentStaysSpent  BY DEF GovernorInv
  <1> QED  BY <1>1, GovernorInvariant, PTL

----------------------------------------------------------------------------
(* The governor inside the daemons.                                         *)
(* Every command that ends lets go of the copy it held.                      *)
LEMMA IdleHoldsNothingStep ==
    GovernorTypeOK /\ IdleHoldsNothing /\ [GovernorNext]_gov_vars => IdleHoldsNothing'
  <1> SUFFICES ASSUME GovernorTypeOK, IdleHoldsNothing, [GovernorNext]_gov_vars
               PROVE  IdleHoldsNothing'
    OBVIOUS
  <1> USE DEF IdleHoldsNothing
  <1>t. gov_job \in [Procs -> Job]  BY DEF GovernorTypeOK
  <1>1. CASE UNCHANGED gov_vars  BY <1>1 DEF gov_vars
  <1>2. CASE GovernorEnvironment
    BY <1>2 DEF GovernorEnvironment, Expire, EditTree
  <1>3. ASSUME NEW p \in Procs, Command(p) PROVE IdleHoldsNothing'
    <2>1. \A q \in Procs \ {p} : gov_job'[q] = gov_job[q]
      BY <1>3, <1>t DEF Command, BeginEnforce, EnforceStep, Decide, PersistUse, LogUse,
                        BeginReview, WriteReview, BeginOverride, WriteOverride, EndCommand
    <2>2. gov_job'[p] = NoJob \/ gov_job'[p].pc # "idle"
      <3>j. gov_job[p] \in Job  BY <1>t
      <3>1. CASE \E s \in Scopes : BeginEnforce(p, s)
        BY <3>1, <1>t DEF BeginEnforce, NoJob
      <3>2. CASE Decide(p)
        BY <3>2, <3>j, <1>t DEF Decide, Job
      <3>3. CASE PersistUse(p) \/ LogUse(p)
        BY <3>3, <3>j, <1>t DEF PersistUse, LogUse, Job
      <3>4. CASE \E init \in BOOLEAN : BeginReview(p, init)
        BY <3>4, <1>t DEF BeginReview, NoJob
      <3>5. CASE \E s \in TokenScopes : BeginOverride(p, s)
        BY <3>5, <1>t DEF BeginOverride, NoJob
      <3>6. CASE (\E enabled \in BOOLEAN : WriteReview(p, enabled)) \/ WriteOverride(p) \/ EndCommand(p)
        BY <3>6, <1>t DEF WriteReview, WriteOverride, EndCommand
      <3> QED  BY <1>3, <3>1, <3>2, <3>3, <3>4, <3>5, <3>6 DEF Command, EnforceStep
    <2> QED  BY <2>1, <2>2
  <1> QED  BY <1>1, <1>2, <1>3 DEF GovernorNext

(* Every step of the daemons is a step of the governor, or none to it.      *)
LEMMA DaemonStepIsGovernors ==
    ASSUME IdleHoldsNothing, GovernorTypeOK, [DaemonNext]_daemon_vars
    PROVE  [GovernorNext]_gov_vars
  <1>d. Daemons \subseteq Procs /\ TickScope \in Scopes  BY DaemonAssumption, TickAssumption
  <1>t. gov_job \in [Procs -> Job]  BY DEF GovernorTypeOK
  <1>1. ASSUME NEW d \in Daemons, TickStep(d) PROVE [GovernorNext]_gov_vars
    <2>1. CASE AskGovernor(d)
      BY <2>1, <1>d DEF AskGovernor, GovernorNext, Command
    <2>2. CASE GovernorGate(d)
      <3>1. EndCommand(d)  BY <2>2 DEF GovernorGate, EndCommand
      <3> QED  BY <3>1, <1>d DEF GovernorNext, Command
    <2>3. CASE ~AskGovernor(d) /\ ~GovernorGate(d)
      BY <1>1, <2>3 DEF TickStep, CheckStale, UnlinkStale, CreateLock, ReleaseLock, KernelGate,
         BreakerGate, EvaluateRaises, WritePreflight, RunPipeline, WritePostflight, WriteEval
    <2> QED  BY <2>1, <2>2, <2>3
  <1>2. ASSUME NEW d \in Daemons, Die(d) PROVE [GovernorNext]_gov_vars
    <2>1. CASE gov_job[d].pc # "idle"
      <3>1. EndCommand(d)  BY <1>2, <2>1 DEF Die, EndCommand
      <3> QED  BY <3>1, <1>d DEF GovernorNext, Command
    <2>2. CASE gov_job[d].pc = "idle"
      <3>1. gov_job' = gov_job
        BY <1>2, <2>2, <1>d, <1>t DEF Die, IdleHoldsNothing
      <3> QED  BY <1>2, <3>1 DEF Die, gov_vars
    <2> QED  BY <2>1, <2>2
  <1>3. ASSUME NEW d \in Daemons, StartAgain(d) PROVE [GovernorNext]_gov_vars
    BY <1>3 DEF StartAgain
  <1>4. CASE LockAges \/ Audit
    BY <1>4 DEF LockAges, Audit
  <1>5. CASE \E p \in Procs \ Daemons : Command(p) /\ UNCHANGED clock_vars
    BY <1>5 DEF GovernorNext
  <1>6. CASE GovernorEnvironment /\ UNCHANGED clock_vars
    BY <1>6 DEF GovernorNext
  <1>7. CASE UNCHANGED daemon_vars
    BY <1>7 DEF daemon_vars
  <1> QED  BY <1>1, <1>2, <1>3, <1>4, <1>5, <1>6, <1>7 DEF DaemonNext, ClockNext

(* The invariant holds of the governor that the daemons ask.                 *)
LEMMA GovernorInvInDaemon == DaemonSpec => [](GovernorInv /\ IdleHoldsNothing)
  <1>1. DaemonInit => GovernorInv /\ IdleHoldsNothing
    BY GovernorInitInv DEF DaemonInit, DaemonStart, GovernorInit
  <1>2. GovernorInv /\ IdleHoldsNothing /\ [DaemonNext]_daemon_vars => (GovernorInv /\ IdleHoldsNothing)'
    BY DaemonStepIsGovernors, GovernorStepInv, IdleHoldsNothingStep DEF GovernorInv
  <1> QED  BY <1>1, <1>2, PTL DEF DaemonSpec

(* The daemons, their deaths and the commands beside them implement the     *)
(* governor: tick_once goes through enforce() and leaves the file alone.    *)
THEOREM DaemonImplementsGovernor == DaemonSpec => GovernorSpec
  <1>1. DaemonInit => GovernorInit
    BY DEF DaemonInit, DaemonStart, GovernorInit
  <1>2. GovernorInv /\ IdleHoldsNothing /\ [DaemonNext]_daemon_vars => [GovernorNext]_gov_vars
    BY DaemonStepIsGovernors DEF GovernorInv
  <1> QED  BY <1>1, <1>2, GovernorInvInDaemon, PTL DEF DaemonSpec, GovernorSpec

(* So no daemon, however often it dies and starts, gets a tick out of an    *)
(* override whose use was on file when it asked.                            *)
THEOREM TicksNeverReuseTokens == DaemonSpec => []SpentStaysSpent
  BY DaemonImplementsGovernor, SpentTokensStaySpent, PTL

----------------------------------------------------------------------------
(* One tick at a time.                                                      *)
Ticking == {"pipeline", "postflight", "verdict"}

TickJob == [pc : Steps, request : 0..MaxRequests, ok : BOOLEAN]
Reports == [request : 0..MaxRequests, says : BOOLEAN \cup {Nothing}]

ClockTypeOK ==
    /\ clock_lock \in [owner : Daemons \cup {Nobody}, stale : BOOLEAN]
    /\ clk \in [Daemons -> TickJob]
    /\ flight \in [Files -> Reports]
    /\ requests \in 0..MaxRequests
    /\ deaths \in 0..MaxDeaths
    /\ takeovers \in BOOLEAN

(* Until a lock is taken over its file names whoever is inside; and a lock  *)
(* file names somebody inside, or was left by a daemon that died.           *)
LockNamesTheOneInside ==
    /\ ~takeovers => \A d \in Daemons : /\ Inside(d) => clock_lock.owner = d
                                        /\ ~At(d, "unlink")
    /\ clock_lock.owner # Nobody => Inside(clock_lock.owner) \/ deaths > 0

(* A tick has a request from its preflight on, and not before.              *)
RequestsAreOfTicks ==
    \A d \in Daemons : /\ clk[d].pc \in Ticking => clk[d].request # 0
                       /\ clk[d].pc \notin Ticking \cup {"release"} => clk[d].request = 0

(* What is on file of a tick's request agrees with it, up to where it is.   *)
Agrees(f, d) ==
    \/ flight[f].request = 0
    \/ /\ flight[f].request = clk[d].request
       /\ f # "pre" => flight[f].says = clk[d].ok

ReportsAgree ==
    ~takeovers => \A d \in Daemons : clk[d].request # 0 =>
        /\ Agrees("pre", d)
        /\ clk[d].pc \in {"verdict", "release"} => Agrees("post", d)
        /\ clk[d].pc = "release" => Agrees("eval", d)

ClockInv == ClockTypeOK /\ LockNamesTheOneInside /\ RequestsAreOfTicks /\ ReportsAgree

LEMMA OutsideTyped ==
    /\ Outside \in TickJob /\ Outside.pc = "out" /\ Outside.request = 0
    /\ \A pc \in Steps : [Outside EXCEPT !.pc = pc] \in TickJob
  <1>1. 0 \in 0..MaxRequests  BY ClockBoundAssumption
  <1>2. \A pc \in Steps : [pc |-> pc, request |-> 0, ok |-> FALSE] \in TickJob
    BY <1>1 DEF TickJob
  <1>3. "out" \in Steps  BY DEF Steps
  <1>4. Outside \in TickJob  BY <1>2, <1>3 DEF Outside
  <1>5. \A t \in TickJob, pc \in Steps : [t EXCEPT !.pc = pc] \in TickJob  BY DEF TickJob
  <1>6. Outside.pc = "out" /\ Outside.request = 0  BY DEF Outside
  <1> QED  BY <1>4, <1>5, <1>6

LEMMA ReportTyped ==
    ASSUME NEW r \in 0..MaxRequests, NEW said \in BOOLEAN \cup {Nothing}
    PROVE  Report(r, said) \in Reports
  BY DEF Report, Reports

LEMMA ClockStartInv == ASSUME NEW s, DaemonStart(s) PROVE ClockInv
  <1> USE DEF DaemonStart
  <1>1. ClockTypeOK
    <2>1. Outside \in TickJob /\ Report(0, Nothing) \in Reports
      <3>1. 0 \in 0..MaxRequests  BY ClockBoundAssumption
      <3> QED  BY <3>1, OutsideTyped, ReportTyped
    <2>2. NoLock \in [owner : Daemons \cup {Nobody}, stale : BOOLEAN]  BY DEF NoLock
    <2>3. clk \in [Daemons -> TickJob]  BY <2>1
    <2>4. flight \in [Files -> Reports]  BY <2>1
    <2>5. requests \in 0..MaxRequests /\ deaths \in 0..MaxDeaths /\ takeovers \in BOOLEAN
      <3>1. 0 \in 0..MaxRequests /\ 0 \in 0..MaxDeaths  BY ClockBoundAssumption
      <3>2. requests = 0 /\ deaths = 0 /\ takeovers = FALSE  OBVIOUS
      <3> QED  BY <3>1, <3>2
    <2>6. clock_lock \in [owner : Daemons \cup {Nobody}, stale : BOOLEAN]  BY <2>2
    <2> QED  BY <2>3, <2>4, <2>5, <2>6 DEF ClockTypeOK
  <1>2. LockNamesTheOneInside
    BY DEF LockNamesTheOneInside, Inside, At, NoLock, Outside
  <1>3. RequestsAreOfTicks /\ ReportsAgree
    BY DEF RequestsAreOfTicks, ReportsAgree, Ticking, Outside
  <1> QED  BY <1>1, <1>2, <1>3 DEF ClockInv

(* Steps of daemons, of the audit commands and of time keep the types.       *)
LEMMA ClockTypeStep == ClockTypeOK /\ [DaemonNext]_daemon_vars => ClockTypeOK'
  <1> SUFFICES ASSUME ClockTypeOK, [DaemonNext]_daemon_vars PROVE ClockTypeOK'
    OBVIOUS
  <1> USE DaemonAssumption, ClockBoundAssumption DEF ClockTypeOK
  <1>1. CASE UNCHANGED clock_vars
    BY <1>1 DEF clock_vars
  <1>g. ASSUME NEW d \in Daemons, NEW pc \in Steps PROVE [clk[d] EXCEPT !.pc = pc] \in TickJob
    BY DEF TickJob
  <1>j. ASSUME NEW d \in Daemons, NEW job \in TickJob, clk' = [clk EXCEPT ![d] = job] PROVE clk' \in [Daemons -> TickJob]
    BY <1>j
  <1>k. ASSUME NEW d \in Daemons, NEW pc \in Steps, Goto(d, pc) PROVE clk' \in [Daemons -> TickJob]
    BY <1>k, <1>g, <1>j DEF Goto
  <1>f. ASSUME NEW d \in Daemons, NEW f \in Files, NEW said \in BOOLEAN \cup {Nothing},
               flight' = [flight EXCEPT ![f] = Report(clk[d].request, said)]
        PROVE  flight' \in [Files -> Reports]
    <2>1. clk[d].request \in 0..MaxRequests  BY DEF TickJob
    <2> QED  BY <1>f, <2>1, ReportTyped
  <1>2. ASSUME NEW d \in Daemons, TickStep(d) PROVE ClockTypeOK'
    <2>1. CASE CheckStale(d)
      <3>1. clk' \in [Daemons -> TickJob]  BY <2>1, <1>k DEF CheckStale, Steps
      <3> QED  BY <2>1, <3>1 DEF CheckStale
    <2>2. CASE UnlinkStale(d)
      <3>1. clk' \in [Daemons -> TickJob]  BY <2>2, <1>k DEF UnlinkStale, Steps
      <3> QED  BY <2>2, <3>1 DEF UnlinkStale, NoLock
    <2>3. CASE CreateLock(d)
      <3>1. clk' \in [Daemons -> TickJob]  BY <2>3, <1>k DEF CreateLock, Steps
      <3>2. [owner |-> d, stale |-> FALSE] \in [owner : Daemons \cup {Nobody}, stale : BOOLEAN]
        OBVIOUS
      <3>3. clock_lock' \in [owner : Daemons \cup {Nobody}, stale : BOOLEAN]
        BY <2>3, <3>2 DEF CreateLock
      <3> QED  BY <2>3, <3>1, <3>3 DEF CreateLock
    <2>4. CASE ReleaseLock(d)
      <3>1. "out" \in Steps /\ "halted" \in Steps  BY DEF Steps
      <3>2. clk' \in [Daemons -> TickJob]  BY <2>4, <3>1, <1>j, OutsideTyped DEF ReleaseLock
      <3> QED  BY <2>4, <3>2 DEF ReleaseLock, NoLock
    <2>5. CASE AskGovernor(d)
      BY <2>5, <1>1 DEF AskGovernor
    <2>6. CASE GovernorGate(d) \/ KernelGate(d) \/ BreakerGate(d) \/ EvaluateRaises(d)
      <3>1. clk' \in [Daemons -> TickJob]
        BY <2>6, <1>k DEF GovernorGate, KernelGate, BreakerGate, EvaluateRaises, Steps
      <3> QED  BY <2>6, <3>1 DEF GovernorGate, KernelGate, BreakerGate, EvaluateRaises
    <2>7. CASE WritePreflight(d)
      <3>1. requests + 1 \in 0..MaxRequests  BY <2>7 DEF WritePreflight
      <3>2. [clk[d] EXCEPT !.pc = "pipeline", !.request = requests + 1] \in TickJob
        BY <3>1 DEF TickJob, Steps
      <3>3. clk' \in [Daemons -> TickJob]  BY <2>7, <3>2, <1>j DEF WritePreflight
      <3>4. Report(requests + 1, Nothing) \in Reports  BY <3>1, ReportTyped
      <3> QED  BY <2>7, <3>1, <3>3, <3>4 DEF WritePreflight
    <2>8. CASE RunPipeline(d)
      <3>1. \A ok \in BOOLEAN : [clk[d] EXCEPT !.pc = "postflight", !.ok = ok] \in TickJob
        BY DEF TickJob, Steps
      <3>2. clk' \in [Daemons -> TickJob]  BY <2>8, <3>1, <1>j DEF RunPipeline
      <3> QED  BY <2>8, <3>2 DEF RunPipeline
    <2>9. CASE WritePostflight(d) \/ WriteEval(d)
      <3>1. clk' \in [Daemons -> TickJob]  BY <2>9, <1>k DEF WritePostflight, WriteEval, Steps
      <3>2. clk[d].ok \in BOOLEAN  BY DEF TickJob
      <3>3. flight' \in [Files -> Reports]  BY <2>9, <3>2, <1>f DEF WritePostflight, WriteEval, Files
      <3> QED  BY <2>9, <3>1, <3>3 DEF WritePostflight, WriteEval
    <2> QED  BY <1>2, <2>1, <2>2, <2>3, <2>4, <2>5, <2>6, <2>7, <2>8, <2>9 DEF TickStep
  <1>3. ASSUME NEW d \in Daemons, Die(d) \/ StartAgain(d) PROVE ClockTypeOK'
    <2>1. "dead" \in Steps  BY DEF Steps
    <2>2. clk' \in [Daemons -> TickJob]  BY <1>3, <2>1, <1>j, OutsideTyped DEF Die, StartAgain
    <2> QED  BY <1>3, <2>2 DEF Die, StartAgain
  <1>4. CASE LockAges
    BY <1>4 DEF LockAges
  <1>5. CASE Audit
    <2>1. Report(0, Nothing) \in Reports  BY ReportTyped
    <2> QED  BY <1>5, <2>1 DEF Audit
  <1> QED  BY <1>1, <1>2, <1>3, <1>4, <1>5 DEF DaemonNext, ClockNext, daemon_vars

(* A daemon gets in only by creating the file or by a takeover, and until    *)
(* the first takeover the file that is there is its own.                     *)
LEMMA LockStep ==
    ClockTypeOK /\ LockNamesTheOneInside /\ [DaemonNext]_daemon_vars => LockNamesTheOneInside'
  <1> SUFFICES ASSUME ClockTypeOK, LockNamesTheOneInside, [DaemonNext]_daemon_vars
               PROVE  LockNamesTheOneInside'
    OBVIOUS
  <1> USE DaemonAssumption DEF ClockTypeOK, TickJob, LockNamesTheOneInside, Inside, At
  <1>1. CASE UNCHANGED clock_vars
    BY <1>1 DEF clock_vars
  <1>2. ASSUME NEW d \in Daemons, TickStep(d) PROVE LockNamesTheOneInside'
    <2> USE <1>2 DEF Goto
    <2>1. CASE CheckStale(d)
      BY <2>1 DEF CheckStale
    <2>2. CASE UnlinkStale(d)
      BY <2>2 DEF UnlinkStale, NoLock
    <2>3. CASE CreateLock(d)
      BY <2>3 DEF CreateLock, NoLock
    <2>4. CASE ReleaseLock(d)
      BY <2>4 DEF ReleaseLock, NoLock, Outside
    <2>5. CASE AskGovernor(d)
      BY <2>5, <1>1 DEF AskGovernor
    <2>6. CASE GovernorGate(d) \/ KernelGate(d) \/ BreakerGate(d) \/ EvaluateRaises(d)
      BY <2>6 DEF GovernorGate, KernelGate, BreakerGate, EvaluateRaises
    <2>7. CASE WritePreflight(d) \/ RunPipeline(d)
      <3>1. /\ clk[d].pc \in {"evaluate", "pipeline"} /\ clk'[d].pc \in {"pipeline", "postflight"}
            /\ \A e \in Daemons \ {d} : clk'[e] = clk[e]
        <4>1. CASE WritePreflight(d)  BY <4>1 DEF WritePreflight
        <4>2. CASE RunPipeline(d)
          <5>1. PICK ok \in BOOLEAN : clk' = [clk EXCEPT ![d] = [@ EXCEPT !.pc = "postflight", !.ok = ok]]
            BY <4>2 DEF RunPipeline
          <5> QED  BY <4>2, <5>1 DEF RunPipeline
        <4> QED  BY <2>7, <4>1, <4>2
      <3>2. clock_lock' = clock_lock /\ deaths' = deaths /\ takeovers' = takeovers
        BY <2>7 DEF WritePreflight, RunPipeline
      <3> QED  BY <3>1, <3>2
    <2>8. CASE WritePostflight(d) \/ WriteEval(d)
      BY <2>8 DEF WritePostflight, WriteEval
    <2> QED  BY <1>2, <2>1, <2>2, <2>3, <2>4, <2>5, <2>6, <2>7, <2>8 DEF TickStep
  <1>3. ASSUME NEW d \in Daemons, Die(d) PROVE LockNamesTheOneInside'
    <2>1. deaths' > 0  BY <1>3, ClockBoundAssumption DEF Die
    <2> QED  BY <1>3, <2>1 DEF Die, Outside
  <1>4. ASSUME NEW d \in Daemons, StartAgain(d) PROVE LockNamesTheOneInside'
    BY <1>4 DEF StartAgain, Outside
  <1>5. CASE LockAges
    BY <1>5 DEF LockAges
  <1>6. CASE Audit
    BY <1>6 DEF Audit
  <1> QED  BY <1>1, <1>2, <1>3, <1>4, <1>5, <1>6 DEF DaemonNext, ClockNext, daemon_vars

(* A report on file or under way names a request that was begun.             *)
LEMMA RequestStep ==
    ClockTypeOK /\ RequestsAreOfTicks /\ [DaemonNext]_daemon_vars => RequestsAreOfTicks'
  <1> SUFFICES ASSUME ClockTypeOK, RequestsAreOfTicks, [DaemonNext]_daemon_vars
               PROVE  RequestsAreOfTicks'
    OBVIOUS
  <1> USE DaemonAssumption DEF ClockTypeOK, TickJob, RequestsAreOfTicks, Ticking, At
  <1>1. CASE UNCHANGED clk
    BY <1>1
  <1>2. ASSUME NEW d \in Daemons, TickStep(d) PROVE RequestsAreOfTicks'
    <2> USE <1>2 DEF Goto
    <2>1. CASE CheckStale(d) \/ UnlinkStale(d) \/ CreateLock(d)
      BY <2>1 DEF CheckStale, UnlinkStale, CreateLock
    <2>2. CASE ReleaseLock(d)
      BY <2>2 DEF ReleaseLock, Outside
    <2>3. CASE AskGovernor(d)
      BY <2>3, <1>1 DEF AskGovernor, clock_vars
    <2>4. CASE GovernorGate(d) \/ KernelGate(d) \/ BreakerGate(d) \/ EvaluateRaises(d)
      BY <2>4 DEF GovernorGate, KernelGate, BreakerGate, EvaluateRaises
    <2>5. CASE WritePreflight(d)
      BY <2>5, ClockBoundAssumption DEF WritePreflight
    <2>6. CASE RunPipeline(d)
      BY <2>6 DEF RunPipeline
    <2>7. CASE WritePostflight(d) \/ WriteEval(d)
      BY <2>7 DEF WritePostflight, WriteEval
    <2> QED  BY <1>2, <2>1, <2>2, <2>3, <2>4, <2>5, <2>6, <2>7 DEF TickStep
  <1>3. ASSUME NEW d \in Daemons, Die(d) \/ StartAgain(d) PROVE RequestsAreOfTicks'
    BY <1>3 DEF Die, StartAgain, Outside
  <1>4. CASE LockAges \/ Audit
    BY <1>4, <1>1 DEF LockAges, Audit
  <1> QED  BY <1>1, <1>2, <1>3, <1>4 DEF DaemonNext, ClockNext, daemon_vars, clock_vars

(* Without a takeover nobody but the one inside touches a report of a tick. *)
LEMMA ReportStep == ClockInv /\ [DaemonNext]_daemon_vars => ReportsAgree'
  <1> SUFFICES ASSUME ClockInv, [DaemonNext]_daemon_vars PROVE ReportsAgree'
    OBVIOUS
  <1> USE DaemonAssumption
  <1>i. ClockTypeOK /\ LockNamesTheOneInside /\ RequestsAreOfTicks /\ ReportsAgree
    BY DEF ClockInv
  <1>t. /\ clk \in [Daemons -> TickJob] /\ flight \in [Files -> Reports]
        /\ \A d \in Daemons : clk[d] \in [pc : Steps, request : 0..MaxRequests, ok : BOOLEAN]
    BY <1>i DEF ClockTypeOK, TickJob
  <1>u. ASSUME NEW d \in Daemons, NEW e \in Daemons, ~takeovers, Inside(d), clk[e].request # 0
        PROVE  d = e
    <2>1. Inside(e)  BY <1>u, <1>i, <1>t DEF RequestsAreOfTicks, Inside, Ticking
    <2> QED  BY <1>u, <1>i, <2>1 DEF LockNamesTheOneInside
  <1> USE DEF ReportsAgree, Agrees
  <1>1. CASE UNCHANGED <<clk, flight, takeovers>>
    BY <1>1, <1>i
  <1>2. ASSUME NEW d \in Daemons, TickStep(d) PROVE ReportsAgree'
    <2> USE <1>2, <1>i, <1>t DEF Goto, At
    <2>1. CASE CheckStale(d) \/ UnlinkStale(d) \/ CreateLock(d)
      <3>1. clk[d].request = 0  BY <2>1 DEF CheckStale, UnlinkStale, CreateLock, RequestsAreOfTicks, Ticking
      <3>2. /\ clk'[d].request = 0 /\ \A e \in Daemons \ {d} : clk'[e] = clk[e]
            /\ flight' = flight /\ (~takeovers' => ~takeovers)
        <4>1. CASE CheckStale(d)   BY <4>1, <3>1 DEF CheckStale
        <4>2. CASE UnlinkStale(d)  BY <4>2, <3>1 DEF UnlinkStale
        <4>3. CASE CreateLock(d)   BY <4>3, <3>1 DEF CreateLock
        <4> QED  BY <2>1, <4>1, <4>2, <4>3
      <3> QED  BY <3>2
    <2>2. CASE ReleaseLock(d)
      BY <2>2 DEF ReleaseLock, Outside
    <2>3. CASE AskGovernor(d)
      BY <2>3, <1>1 DEF AskGovernor, clock_vars
    <2>4. CASE GovernorGate(d) \/ KernelGate(d) \/ BreakerGate(d) \/ EvaluateRaises(d)
      BY <2>4 DEF GovernorGate, KernelGate, BreakerGate, EvaluateRaises, RequestsAreOfTicks, Ticking
    <2>5. CASE WritePreflight(d)
      BY <2>5, <1>u DEF WritePreflight, Report, Files, Inside
    <2>6. CASE RunPipeline(d)
      BY <2>6, <1>u DEF RunPipeline, Inside
    <2>7. CASE WritePostflight(d)
      BY <2>7, <1>u DEF WritePostflight, Report, Files, Inside
    <2>8. CASE WriteEval(d)
      BY <2>8, <1>u DEF WriteEval, Report, Files, Inside
    <2> QED  BY <2>1, <2>2, <2>3, <2>4, <2>5, <2>6, <2>7, <2>8 DEF TickStep
  <1>3. ASSUME NEW d \in Daemons, Die(d) \/ StartAgain(d) PROVE ReportsAgree'
    BY <1>3, <1>i, <1>t DEF Die, StartAgain, Outside
  <1>4. CASE LockAges
    BY <1>4, <1>1 DEF LockAges
  <1>5. CASE Audit
    BY <1>5, <1>i, <1>t DEF Audit, Report, Files
  <1> QED  BY <1>1, <1>2, <1>3, <1>4, <1>5 DEF DaemonNext, ClockNext, daemon_vars, clock_vars

(* The four parts together hold of every state of the daemons.               *)
LEMMA ClockInvariant == DaemonSpec => []ClockInv
  <1>1. ClockInv /\ [DaemonNext]_daemon_vars => ClockInv'
    BY ClockTypeStep, LockStep, RequestStep, ReportStep DEF ClockInv
  <1>2. DaemonInit => ClockInv
    BY ClockStartInv DEF DaemonInit
  <1> QED  BY <1>1, <1>2, PTL DEF DaemonSpec

(* The daemon's part of TypeOK: lock file, daemons and reports hold values  *)
(* of the kind the code writes (clock.py, contract_evaluator.py).           *)
THEOREM DaemonTypes == DaemonSpec => []DaemonTypeOK
  <1>1. ClockInv /\ GovernorTypeOK => DaemonTypeOK
    BY DEF ClockInv, ClockTypeOK, DaemonTypeOK, TickJob, Reports
  <1> QED  BY <1>1, ClockInvariant, DaemonImplementsGovernor, GovernorTypes, PTL

(* What the invariant says of the properties.                                *)
LEMMA ClockConsequences == ASSUME ClockInv PROVE TicksExclude /\ SuccessLeavesOneRecord
  <1>1. TicksExclude
    BY DEF ClockInv, ClockTypeOK, LockNamesTheOneInside, TicksExclude
  <1>2. SuccessLeavesOneRecord
    <2> SUFFICES ASSUME NEW d \in Daemons, ~takeovers, At(d, "release"), clk[d].request # 0, NEW f \in Files
                 PROVE  Agrees(f, d)
      BY DEF SuccessLeavesOneRecord, Agrees
    <2> QED  BY DEF ClockInv, ReportsAgree, At, Files
  <1> QED  BY <1>1, <1>2

(* FileLock and tick_once: no two daemons tick at once before a lock is     *)
(* judged stale, and a lock file is that of a daemon inside its tick or of  *)
(* one that was killed, for any number of daemons, deaths and restarts.     *)
THEOREM TicksAreExclusive == DaemonSpec => []TicksExclude
  <1>1. ClockInv => TicksExclude
    BY ClockConsequences
  <1> QED  BY <1>1, ClockInvariant, PTL

(* evaluate_cycle: a tick that ends well leaves preflight, postflight and   *)
(* contract_eval of its own request that agree, save what an audit replaced.*)
THEOREM SuccessIsOneRecord == DaemonSpec => []SuccessLeavesOneRecord
  <1>1. ClockInv => SuccessLeavesOneRecord
    BY ClockConsequences
  <1> QED  BY <1>1, ClockInvariant, PTL

(***************************************************************************)
(* The lock.  Every step that changes whose the file is, or who is inside, *)
(* is a step of the lock.                                                  *)
(***************************************************************************)
StaleIsSomebodys == clock_lock.stale => clock_lock.owner # Nobody

LEMMA StaleStep ==
    ClockTypeOK /\ StaleIsSomebodys /\ [DaemonNext]_daemon_vars => StaleIsSomebodys'
  <1> SUFFICES ASSUME ClockTypeOK, StaleIsSomebodys, [DaemonNext]_daemon_vars PROVE StaleIsSomebodys'
    OBVIOUS
  <1> USE DaemonAssumption DEF ClockTypeOK, StaleIsSomebodys
  <1>1. CASE UNCHANGED clock_lock
    BY <1>1
  <1>2. ASSUME NEW d \in Daemons, TickStep(d) PROVE StaleIsSomebodys'
    <2>1. CASE UnlinkStale(d) \/ ReleaseLock(d)
      BY <2>1 DEF UnlinkStale, ReleaseLock, NoLock
    <2>2. CASE CreateLock(d)
      BY <2>2 DEF CreateLock
    <2>3. CASE clock_lock' = clock_lock
      BY <2>3
    <2> QED  BY <1>2, <2>1, <2>2, <2>3
          DEF TickStep, CheckStale, AskGovernor, GovernorGate, KernelGate, BreakerGate, EvaluateRaises,
              WritePreflight, RunPipeline, WritePostflight, WriteEval, clock_vars
  <1>3. CASE LockAges
    BY <1>3 DEF LockAges
  <1>4. CASE \E d \in Daemons : Die(d) \/ StartAgain(d)
    BY <1>4, <1>1 DEF Die, StartAgain
  <1> QED  BY <1>1, <1>2, <1>3, <1>4 DEF DaemonNext, ClockNext, Audit, daemon_vars, clock_vars

(* A step that takes nobody in or out and leaves the file's owner alone is  *)
(* none of the lock's.                                                      *)
LEMMA LockRests ==
    ASSUME takeovers' = takeovers, clock_lock'.owner = clock_lock.owner,
           \A d \in Daemons : Inside(d)' <=> Inside(d)
    PROVE  UNCHANGED <<Holder, Working, takeovers>>
  BY DEF Holder, Working

LEMMA TickLockStep ==
    ASSUME ClockTypeOK, LockNamesTheOneInside, StaleIsSomebodys, [DaemonNext]_daemon_vars
    PROVE  [Lock!Next]_<<Holder, Working, takeovers>>
  <1> USE DaemonAssumption DEF ClockTypeOK, TickJob
  <1>1. CASE takeovers
    <2>1. takeovers'
      BY <1>1 DEF DaemonNext, ClockNext, TickStep, CheckStale, UnlinkStale, CreateLock, ReleaseLock,
               AskGovernor, GovernorGate, KernelGate, BreakerGate, EvaluateRaises, WritePreflight,
               RunPipeline, WritePostflight, WriteEval, Die, StartAgain, LockAges, Audit, clock_vars, daemon_vars
    <2> QED  BY <1>1, <2>1 DEF Holder, Working
  <1>2. CASE UNCHANGED clock_vars
    BY <1>2, LockRests DEF clock_vars, Inside
  <1>3. ASSUME ~takeovers, NEW d \in Daemons, TickStep(d)
        PROVE  [Lock!Next]_<<Holder, Working, takeovers>>
    <2>n. \A e \in Daemons : Inside(e) => clock_lock.owner = e
      BY <1>3 DEF LockNamesTheOneInside
    <2>1. CASE CheckStale(d)
      <3>1. CASE clock_lock.stale
        <4>1. clock_lock.owner # Nobody /\ takeovers'
          BY <2>1, <3>1 DEF CheckStale, StaleIsSomebodys
        <4>2. Holder # Nobody /\ Holder' = Nobody /\ Working' = {}
          BY <1>3, <4>1 DEF Holder, Working
        <4> QED  BY <1>3, <4>1, <4>2 DEF Lock!Next, Lock!Break, Lock!Unlocked
      <3>2. CASE ~clock_lock.stale
        BY <2>1, <3>2, LockRests DEF CheckStale, Goto, At, Inside
      <3> QED  BY <3>1, <3>2
    <2>2. CASE CreateLock(d)
      <3>1. CASE clock_lock = NoLock
        <4>1. clock_lock.owner = Nobody /\ clock_lock'.owner = d /\ clk' = [clk EXCEPT ![d].pc = "governor"]
              /\ takeovers' = takeovers
          BY <2>2, <3>1 DEF CreateLock, Goto, NoLock
        <4>2. Working = {} /\ Working' = {d}
          BY <1>3, <2>n, <4>1 DEF Working, Inside
        <4>3. Holder = Nobody /\ Holder' = d
          BY <1>3, <4>1 DEF Holder
        <4> QED  BY <1>3, <4>1, <4>2, <4>3 DEF Lock!Next, Lock!Enter, Lock!Unlocked
      <3>2. CASE clock_lock # NoLock
        BY <2>2, <3>2, LockRests DEF CreateLock, Goto, At, Inside
      <3> QED  BY <3>1, <3>2
    <2>3. CASE ReleaseLock(d)
      <3>1. /\ clk[d].pc \in {"release", "release_halt"} /\ clk'[d].pc \in {"out", "halted"}
            /\ \A e \in Daemons \ {d} : clk'[e] = clk[e]
            /\ clock_lock'.owner = Nobody /\ takeovers' = takeovers
        BY <2>3 DEF ReleaseLock, Outside, NoLock
      <3>2. clock_lock.owner = d
        BY <2>n, <3>1 DEF Inside
      <3>3. Working = {d} /\ Working' = {}
        BY <1>3, <2>n, <3>1, <3>2 DEF Working, Inside
      <3>4. Holder = d /\ Holder' = Nobody
        BY <1>3, <3>1, <3>2 DEF Holder
      <3> QED  BY <1>3, <3>1, <3>3, <3>4 DEF Lock!Next, Lock!Leave, Lock!Working, Lock!Unlocked
    <2>4. CASE UnlinkStale(d)
      BY <1>3, <2>4 DEF UnlinkStale, LockNamesTheOneInside
    <2>5. CASE AskGovernor(d)
      BY <2>5, <1>2 DEF AskGovernor
    <2>6. CASE GovernorGate(d) \/ KernelGate(d) \/ BreakerGate(d) \/ EvaluateRaises(d)
                \/ WritePostflight(d) \/ WriteEval(d)
      BY <2>6, LockRests DEF GovernorGate, KernelGate, BreakerGate, EvaluateRaises, WritePostflight, WriteEval,
                             Goto, At, Inside
    <2>7. CASE WritePreflight(d) \/ RunPipeline(d)
      <3>1. /\ clk[d].pc \in {"evaluate", "pipeline"} /\ clk'[d].pc \in {"pipeline", "postflight"}
            /\ \A e \in Daemons \ {d} : clk'[e] = clk[e]
            /\ clock_lock' = clock_lock /\ takeovers' = takeovers
        <4>1. CASE WritePreflight(d)  BY <4>1 DEF WritePreflight, At
        <4>2. CASE RunPipeline(d)
          <5>1. PICK ok \in BOOLEAN : clk' = [clk EXCEPT ![d] = [@ EXCEPT !.pc = "postflight", !.ok = ok]]
            BY <4>2 DEF RunPipeline
          <5> QED  BY <4>2, <5>1 DEF RunPipeline, At
        <4> QED  BY <2>7, <4>1, <4>2
      <3> QED  BY <3>1, LockRests DEF Inside
    <2> QED  BY <1>3, <2>1, <2>2, <2>3, <2>4, <2>5, <2>6, <2>7 DEF TickStep
  <1>4. ASSUME ~takeovers, NEW d \in Daemons, Die(d)
        PROVE  [Lock!Next]_<<Holder, Working, takeovers>>
    <2>1. /\ clk'[d].pc = "dead" /\ \A e \in Daemons \ {d} : clk'[e] = clk[e]
          /\ clock_lock' = clock_lock /\ takeovers' = takeovers
      BY <1>4 DEF Die, Outside
    <2>2. CASE Inside(d)
      <3>1. clock_lock.owner = d /\ \A e \in Daemons : Inside(e) => clock_lock.owner = e
        BY <1>4, <2>2 DEF LockNamesTheOneInside
      <3>2. Working = {d} /\ Working' = {}
        BY <1>4, <2>1, <2>2, <3>1 DEF Working, Inside
      <3>3. Holder = d /\ Holder' = d
        BY <1>4, <2>1, <3>1 DEF Holder
      <3> QED  BY <1>4, <2>1, <3>2, <3>3 DEF Lock!Next, Lock!Perish, Lock!Working
    <2>3. CASE ~Inside(d)
      BY <2>1, <2>3, LockRests DEF Inside
    <2> QED  BY <2>2, <2>3
  <1>5. ASSUME NEW d \in Daemons, StartAgain(d)
        PROVE  [Lock!Next]_<<Holder, Working, takeovers>>
    BY <1>5, LockRests DEF StartAgain, Outside, Inside
  <1>6. CASE LockAges \/ Audit
    BY <1>6, LockRests DEF LockAges, Audit, Inside
  <1> QED  BY <1>1, <1>2, <1>3, <1>4, <1>5, <1>6 DEF DaemonNext, ClockNext, daemon_vars

LEMMA LockStarts == ASSUME NEW s, DaemonStart(s) PROVE Lock!Init /\ StaleIsSomebodys
  BY DEF DaemonStart, Lock!Init, Lock!Unlocked, Holder, Working, Inside, Outside, NoLock, StaleIsSomebodys

(* FileLock and tick_once (clock.py): through deaths, restarts, halts and   *)
(* every early return the lock file is a lock until one is judged stale.    *)
THEOREM ClockImplementsTickLock == DaemonSpec => ImplementsTickLock
  <1>1. DaemonInit => Lock!Init /\ StaleIsSomebodys
    BY LockStarts DEF DaemonInit
  <1>2. ClockInv /\ StaleIsSomebodys /\ [DaemonNext]_daemon_vars => StaleIsSomebodys'
    BY StaleStep DEF ClockInv
  <1>3. ClockInv /\ StaleIsSomebodys /\ [DaemonNext]_daemon_vars => [Lock!Next]_<<Holder, Working, takeovers>>
    BY TickLockStep DEF ClockInv
  <1> QED  BY <1>1, <1>2, <1>3, ClockInvariant, PTL DEF DaemonSpec, ImplementsTickLock, Lock!Spec

(***************************************************************************)
(* The kernel.                                                             *)
(***************************************************************************)
LEMMA KernelSizes ==
    /\ Slots \in Nat \ {0} /\ MaxAttempts \in Nat \ {0} /\ Len(Models) \in Nat \ {0}
    /\ OpenFor \in Nat /\ MaxPerSlot \in Nat /\ Drifts \subseteq 0..1000
    /\ Len(Phi5) \in Nat /\ Len(Phi5) > 0
  BY KernelAssumption, CurveAssumption DEF KernelAssumption, CurveAssumption

(* A sum of naturals counts what it sums, whatever the order of the fold.   *)
Units(f, s) == {u \in s \X Nat : u[2] < f[u[1]]}
SumFrom(s) == CHOOSE x \in s : TRUE
Summed(g, f, I) == g = [s \in SUBSET I |-> IF s = {} THEN 0 ELSE f[SumFrom(s)] + g[s \ {SumFrom(s)}]]

(* SumFunction, with the folds it is defined by written out.                 *)
LEMMA FoldSums ==
    ASSUME NEW f PROVE SumFunction(f) = (CHOOSE g : Summed(g, f, DOMAIN f))[DOMAIN f]
  BY DEF SumFunction, SumFunctionOnSet, FoldFunctionOnSet, MapThenFoldSet, Summed, SumFrom

(* One more index adds as many units as the function has there.              *)
LEMMA UnitsGrow ==
    ASSUME NEW I, NEW f \in [I -> Nat], NEW s, s \subseteq I, NEW x \in I, x \notin s, IsFiniteSet(Units(f, s))
    PROVE  /\ IsFiniteSet(Units(f, s \cup {x}))
           /\ Cardinality(Units(f, s \cup {x})) = Cardinality(Units(f, s)) + f[x]
  <1>1. PICK n \in Nat : n = f[x]
    OBVIOUS
  <1>2. PICK D : D = 0..(n - 1)
    OBVIOUS
  <1>3. PICK P : P = {x}
    OBVIOUS
  <1>4. PICK column : column = P \X D
    OBVIOUS
  <1>5. Units(f, s \cup {x}) = Units(f, s) \cup column
    <2>1. \A k : k \in Nat /\ k < n <=> k \in D
      BY <1>1, <1>2
    <2>2. ASSUME NEW u \in Units(f, s \cup {x}) PROVE u \in Units(f, s) \cup column
      <3>1. PICK i \in s \cup {x}, k \in Nat : u = <<i, k>> /\ k < f[i]
        BY DEF Units
      <3>2. CASE i = x
        BY <1>1, <1>3, <1>4, <2>1, <3>1, <3>2
      <3>3. CASE i \in s
        BY <3>1, <3>3 DEF Units
      <3> QED  BY <3>2, <3>3
    <2>3. ASSUME NEW u \in column PROVE u \in Units(f, s \cup {x})
      <3>1. PICK k \in D : u = <<x, k>>
        BY <1>3, <1>4
      <3>2. k \in Nat /\ k < f[x]
        BY <1>1, <2>1
      <3> QED  BY <3>1, <3>2 DEF Units
    <2>4. Units(f, s) \subseteq Units(f, s \cup {x})
      BY DEF Units
    <2> QED  BY <2>2, <2>3, <2>4
  <1>6. Units(f, s) \cap column = {}
    BY <1>3, <1>4 DEF Units
  <1>7. IsFiniteSet(D) /\ Cardinality(D) = n
    <2>1. 0 \in Int /\ n - 1 \in Int
      BY <1>1
    <2>2. IsFiniteSet(D) /\ Cardinality(D) = IF 0 > n - 1 THEN 0 ELSE n - 1 - 0 + 1
      BY <1>2, <2>1, FS_Interval
    <2> QED  BY <1>1, <2>2
  <1>8. IsFiniteSet(P) /\ Cardinality(P) = 1
    <2>1. IsFiniteSet({} \cup {x}) /\ Cardinality({} \cup {x}) = 0 + 1
      BY FS_EmptySet, FS_AddElement
    <2>2. {} \cup {x} = P
      BY <1>3
    <2> QED  BY <2>1, <2>2
  <1>9. IsFiniteSet(column) /\ Cardinality(column) = n
    <2>1. IsFiniteSet(P \X D) /\ Cardinality(P \X D) = Cardinality(P) * Cardinality(D)
      BY <1>7, <1>8, FS_Product
    <2>2. Cardinality(P) * Cardinality(D) = 1 * n
      BY <1>7, <1>8
    <2> QED  BY <1>1, <1>4, <2>1, <2>2
  <1>10. PICK c \in Nat : c = Cardinality(Units(f, s))
    BY FS_CardinalityType
  <1>11. PICK U : U = Units(f, s)
    OBVIOUS
  <1>12. /\ IsFiniteSet(U \cup column)
         /\ Cardinality(U \cup column) = Cardinality(U) + Cardinality(column) - Cardinality(U \cap column)
    BY <1>9, <1>11, FS_Union
  <1>13. Cardinality(U \cap column) = 0
    BY <1>6, <1>11, FS_EmptySet
  <1>14. Cardinality(U) = c /\ c + n - 0 = c + n
    BY <1>10, <1>11
  <1>15. Cardinality(U \cup column) = c + n
    BY <1>9, <1>12, <1>13, <1>14
  <1>16. Units(f, s \cup {x}) = U \cup column
    BY <1>5, <1>11
  <1> QED  BY <1>1, <1>10, <1>12, <1>15, <1>16

(* Finitely many indices have finitely many units.                           *)
LEMMA UnitsFinite ==
    ASSUME NEW I, IsFiniteSet(I), NEW f \in [I -> Nat] PROVE \A s \in SUBSET I : IsFiniteSet(Units(f, s))
  <1>1. PICK bad : bad = {s \in SUBSET I : ~IsFiniteSet(Units(f, s))}
    OBVIOUS
  <1>2. SUFFICES ASSUME bad # {} PROVE FALSE
    BY <1>1
  <1>3. PICK R : R = StrictSubsetOrdering(I)
    OBVIOUS
  <1>4. IsWellFoundedOn(R, SUBSET I)
    BY <1>3, FS_StrictSubsetOrderingWellFounded, FS_FiniteSubsetsOfFinite
  <1>5. PICK s \in bad : \A t \in bad : ~(<<t, s>> \in R)
    <2>1. bad \subseteq SUBSET I
      BY <1>1
    <2> QED  BY <1>2, <1>4, <2>1, WFMin
  <1>6. s \subseteq I /\ ~IsFiniteSet(Units(f, s))
    BY <1>1
  <1>7. CASE s = {}
    <2>1. Units(f, s) = {}
      BY <1>7 DEF Units
    <2> QED  BY <1>6, <2>1, FS_EmptySet
  <1>8. CASE s # {}
    <2>1. PICK x : x \in s
      BY <1>8
    <2>2. PICK t : t = s \ {x}
      OBVIOUS
    <2>3. t \subseteq I /\ t \subseteq s /\ t # s /\ s = t \cup {x} /\ x \notin t /\ x \in I
      BY <1>6, <2>1, <2>2
    <2>4. <<t, s>> \in R
      BY <1>3, <1>6, <2>3 DEF StrictSubsetOrdering
    <2>5. t \notin bad
      BY <1>5, <2>4
    <2>6. IsFiniteSet(Units(f, t))
      BY <1>1, <2>3, <2>5
    <2> QED  BY <1>6, <2>3, <2>6, UnitsGrow
  <1> QED  BY <1>7, <1>8

(* SumFunction counts units: induction on the subsets of the index set by    *)
(* the library's well-founded recursion on StrictSubset.                     *)
LEMMA SumCounts ==
    ASSUME NEW I, IsFiniteSet(I), NEW f \in [I -> Nat] PROVE SumFunction(f) = Cardinality(Units(f, I))
  <1>1. PICK g : g = [s \in SUBSET I |-> Cardinality(Units(f, s))]
    OBVIOUS
  <1>2. Summed(g, f, I)
    <2>1. ASSUME NEW s \in SUBSET I, s # {}
          PROVE  Cardinality(Units(f, s)) = f[SumFrom(s)] + g[s \ {SumFrom(s)}]
      <3>1. PICK x \in s : x = SumFrom(s)
        BY <2>1 DEF SumFrom
      <3>2. PICK t : t = s \ {x}
        OBVIOUS
      <3>3. t \in SUBSET I /\ s = t \cup {x} /\ x \notin t /\ x \in I
        BY <2>1, <3>2
      <3>4. IsFiniteSet(Units(f, t))
        BY <3>3, UnitsFinite
      <3>5. Cardinality(Units(f, t)) \in Nat /\ f[x] \in Nat
        BY <3>3, <3>4, FS_CardinalityType
      <3>6. Cardinality(Units(f, s)) = Cardinality(Units(f, t)) + f[x]
        BY <3>3, <3>4, UnitsGrow
      <3>7. g[t] = Cardinality(Units(f, t))
        BY <1>1, <3>3
      <3> QED  BY <3>1, <3>2, <3>5, <3>6, <3>7
    <2>2. ASSUME NEW s \in SUBSET I, s = {} PROVE Cardinality(Units(f, s)) = 0
      <3>1. Units(f, s) = {}
        BY <2>2 DEF Units
      <3> QED  BY <3>1, FS_EmptySet
    <2>3. g = [s \in SUBSET I |-> IF s = {} THEN 0 ELSE f[SumFrom(s)] + g[s \ {SumFrom(s)}]]
      BY <1>1, <2>1, <2>2
    <2> QED  BY <2>3 DEF Summed
  <1>3. ASSUME NEW h, Summed(h, f, I) PROVE h[I] = g[I]
    <2>1. PICK bad : bad = {s \in SUBSET I : h[s] # g[s]}
      OBVIOUS
    <2>2. SUFFICES ASSUME bad # {} PROVE FALSE
      BY <2>1
    <2>3. PICK R : R = StrictSubsetOrdering(I)
      OBVIOUS
    <2>4. IsWellFoundedOn(R, SUBSET I)
      BY <2>3, FS_StrictSubsetOrderingWellFounded, FS_FiniteSubsetsOfFinite
    <2>5. PICK s \in bad : \A t \in bad : ~(<<t, s>> \in R)
      <3>1. bad \subseteq SUBSET I
        BY <2>1
      <3> QED  BY <2>2, <2>4, <3>1, WFMin
    <2>6. s \in SUBSET I /\ h[s] # g[s]
      BY <2>1
    <2>7. /\ h[s] = IF s = {} THEN 0 ELSE f[SumFrom(s)] + h[s \ {SumFrom(s)}]
          /\ g[s] = IF s = {} THEN 0 ELSE f[SumFrom(s)] + g[s \ {SumFrom(s)}]
      <3>1. h = [r \in SUBSET I |-> IF r = {} THEN 0 ELSE f[SumFrom(r)] + h[r \ {SumFrom(r)}]]
        BY <1>3 DEF Summed
      <3>2. g = [r \in SUBSET I |-> IF r = {} THEN 0 ELSE f[SumFrom(r)] + g[r \ {SumFrom(r)}]]
        BY <1>2 DEF Summed
      <3>3. h[s] = IF s = {} THEN 0 ELSE f[SumFrom(s)] + h[s \ {SumFrom(s)}]
        BY <2>6, <3>1
      <3>4. g[s] = IF s = {} THEN 0 ELSE f[SumFrom(s)] + g[s \ {SumFrom(s)}]
        BY <2>6, <3>2
      <3> QED  BY <3>3, <3>4
    <2>8. s # {}
      BY <2>6, <2>7
    <2>9. PICK x \in s : x = SumFrom(s)
      BY <2>8 DEF SumFrom
    <2>10. PICK t : t = s \ {x}
      OBVIOUS
    <2>11. t \in SUBSET I /\ t \subseteq s /\ t # s
      BY <2>6, <2>9, <2>10
    <2>12. <<t, s>> \in R
      BY <2>3, <2>6, <2>11 DEF StrictSubsetOrdering
    <2>13. h[t] = g[t]
      BY <2>1, <2>5, <2>11, <2>12
    <2> QED  BY <2>6, <2>7, <2>8, <2>9, <2>10, <2>13
  <1>4. DOMAIN f = I
    OBVIOUS
  <1>5. Summed(CHOOSE h : Summed(h, f, I), f, I)
    BY <1>2
  <1>6. (CHOOSE h : Summed(h, f, I))[I] = g[I]
    BY <1>3, <1>5
  <1>7. SumFunction(f) = (CHOOSE h : Summed(h, f, I))[I]
    BY <1>4, FoldSums
  <1>8. g[I] = Cardinality(Units(f, I))
    BY <1>1
  <1> QED  BY <1>6, <1>7, <1>8

(* Induction over the naturals, for a set rather than for an operator: the  *)
(* least number outside of the set would follow one inside of it.           *)
LEMMA NatsFromZero ==
    ASSUME NEW S, 0 \in S, \A k \in Nat : k \in S => k + 1 \in S PROVE Nat \subseteq S
  <1>1. PICK bad : bad = Nat \ S
    OBVIOUS
  <1>2. SUFFICES ASSUME bad # {} PROVE FALSE
    BY <1>1
  <1>3. PICK R : R = {ss \in Nat \X Nat : ss[1] < ss[2]}
    OBVIOUS
  <1>4. IsWellFoundedOn(R, Nat)
    BY <1>3, NatLessThanWellFounded DEF OpToRel
  <1>5. PICK n \in bad : \A m \in bad : ~(<<m, n>> \in R)
    <2>1. bad \subseteq Nat
      BY <1>1
    <2> QED  BY <1>2, <1>4, <2>1, WFMin
  <1>6. n \in Nat /\ n # 0 /\ n - 1 \in Nat /\ n = (n - 1) + 1
    BY <1>1
  <1>7. n - 1 \in bad
    BY <1>1, <1>6
  <1>8. <<n - 1, n>> \in R
    BY <1>3, <1>6
  <1> QED  BY <1>5, <1>7, <1>8

(* The units of a set and of one more index.                                 *)
LEMMA UnitsAddUp ==
    ASSUME NEW I, IsFiniteSet(I), NEW f \in [I -> Nat]
    PROVE  \A s \in SUBSET I, x \in I :
             x \notin s => Cardinality(Units(f, s \cup {x})) = Cardinality(Units(f, s)) + f[x]
  <1> SUFFICES ASSUME NEW s \in SUBSET I, NEW x \in I, x \notin s
               PROVE  Cardinality(Units(f, s \cup {x})) = Cardinality(Units(f, s)) + f[x]
    OBVIOUS
  <1>1. IsFiniteSet(Units(f, s))
    BY UnitsFinite
  <1> QED  BY <1>1, UnitsGrow

(* What the first k of a row of slots count.                                *)
UpTo(f, k) == Cardinality(Units(f, 1..k))

(* Prefix sums step by step, and the last of them is the sum.                *)
LEMMA UpToSteps ==
    ASSUME NEW n \in Nat, NEW f \in [1..n -> Nat]
    PROVE  /\ \A k \in 0..n : UpTo(f, k) \in Nat
           /\ UpTo(f, 0) = 0
           /\ \A k \in 0..(n - 1) : UpTo(f, k + 1) = UpTo(f, k) + f[k + 1]
           /\ SumFunction(f) = UpTo(f, n)
  <1>1. PICK I : I = 1..n
    OBVIOUS
  <1>2. IsFiniteSet(I) /\ f \in [I -> Nat]
    <2>1. 1 \in Int /\ n \in Int
      OBVIOUS
    <2> QED  BY <1>1, <2>1, FS_Interval
  <1>3. \A s \in SUBSET I : IsFiniteSet(Units(f, s))
    BY <1>2, UnitsFinite
  <1>4. ASSUME NEW k \in 0..n PROVE 1..k \in SUBSET I /\ UpTo(f, k) \in Nat
    <2>1. 1..k \in SUBSET I
      BY <1>1
    <2> QED  BY <1>3, <2>1, FS_CardinalityType DEF UpTo
  <1>5. UpTo(f, 0) = 0
    <2>1. 1..0 = {}
      OBVIOUS
    <2>2. Units(f, {}) = {}
      BY DEF Units
    <2> QED  BY <2>1, <2>2, FS_EmptySet DEF UpTo
  <1>6. \A s \in SUBSET I, x \in I :
          x \notin s => Cardinality(Units(f, s \cup {x})) = Cardinality(Units(f, s)) + f[x]
    BY <1>2, UnitsAddUp
  <1>7. ASSUME NEW k \in 0..(n - 1) PROVE UpTo(f, k + 1) = UpTo(f, k) + f[k + 1]
    <2>1. PICK s : s = 1..k
      OBVIOUS
    <2>2. PICK x \in I : x = k + 1
      BY <1>1
    <2>3. s \in SUBSET I /\ x \notin s /\ s \cup {x} = 1..(k + 1)
      BY <1>1, <2>1, <2>2
    <2>4. Cardinality(Units(f, s \cup {x})) = Cardinality(Units(f, s)) + f[x]
      BY <1>6, <2>3
    <2> QED  BY <2>1, <2>2, <2>3, <2>4 DEF UpTo
  <1>8. SumFunction(f) = UpTo(f, n)
    BY <1>1, <1>2, SumCounts DEF UpTo
  <1> QED  BY <1>4, <1>5, <1>7, <1>8

(* Rows that agree slot by slot, or with a shift, or but for one more unit  *)
(* in one slot.                                                             *)
LEMMA AgedCounts ==
    ASSUME NEW f \in [Ages -> Nat]
    PROVE  /\ Aged(f) \in [Ages -> Nat]
           /\ UpTo(Aged(f), 0) = 0
           /\ \A k \in 0..(Slots - 1) : UpTo(Aged(f), k + 1) = UpTo(f, k)
  <1>1. PICK n \in Nat \ {0} : n = Slots
    BY KernelSizes
  <1>2. PICK g : g = Aged(f)
    OBVIOUS
  <1>3. f \in [1..n -> Nat]
    BY <1>1 DEF Ages
  <1>4. g \in [1..n -> Nat] /\ g[1] = 0 /\ \A k \in 1..(n - 1) : g[k + 1] = f[k]
    <2>1. g = [a \in 1..n |-> IF a = 1 THEN 0 ELSE f[a - 1]]
      BY <1>1, <1>2 DEF Aged, Ages
    <2> QED  BY <1>1, <1>3, <2>1
  <1>5. /\ \A k \in 0..n : UpTo(f, k) \in Nat
        /\ UpTo(f, 0) = 0
        /\ \A k \in 0..(n - 1) : UpTo(f, k + 1) = UpTo(f, k) + f[k + 1]
    BY <1>3, UpToSteps
  <1>6. /\ UpTo(g, 0) = 0
        /\ \A k \in 0..(n - 1) : UpTo(g, k + 1) = UpTo(g, k) + g[k + 1]
    BY <1>4, UpToSteps
  <1>7. PICK S : S = {k \in Nat : k <= n - 1 => UpTo(g, k + 1) = UpTo(f, k)}
    OBVIOUS
  <1>8. 0 \in S
    <2>1. UpTo(g, 0 + 1) = UpTo(g, 0) + g[0 + 1]
      BY <1>1, <1>6
    <2>2. g[0 + 1] = 0
      BY <1>4
    <2>3. UpTo(g, 0 + 1) = UpTo(f, 0)
      BY <1>5, <1>6, <2>1, <2>2
    <2> QED  BY <1>7, <2>3
  <1>9. ASSUME NEW k \in Nat, k \in S PROVE k + 1 \in S
    <2>1. SUFFICES ASSUME k + 1 <= n - 1 PROVE UpTo(g, k + 1 + 1) = UpTo(f, k + 1)
      BY <1>7
    <2>2. UpTo(g, k + 1) = UpTo(f, k)
      BY <1>7, <1>9, <2>1
    <2>3. UpTo(g, k + 1 + 1) = UpTo(g, k + 1) + g[k + 1 + 1]
      BY <1>6, <2>1
    <2>4. g[k + 1 + 1] = f[k + 1]
      BY <1>4, <2>1
    <2>5. UpTo(f, k + 1) = UpTo(f, k) + f[k + 1]
      BY <1>5, <2>1
    <2> QED  BY <2>2, <2>3, <2>4, <2>5
  <1>10. Nat \subseteq S
    BY <1>8, <1>9, NatsFromZero
  <1>11. \A k \in 0..(n - 1) : UpTo(g, k + 1) = UpTo(f, k)
    BY <1>7, <1>10
  <1> QED  BY <1>1, <1>2, <1>4, <1>6, <1>11 DEF Ages

(* One more at position j counts in the prefixes from j on.                  *)
LEMMA OneMoreCounts ==
    ASSUME NEW f \in [Ages -> Nat], NEW j \in Ages
    PROVE  /\ [f EXCEPT ![j] = @ + 1] \in [Ages -> Nat]
           /\ \A k \in 0..Slots :
                UpTo([f EXCEPT ![j] = @ + 1], k) = UpTo(f, k) + (IF j <= k THEN 1 ELSE 0)
  <1>1. PICK n \in Nat \ {0} : n = Slots
    BY KernelSizes
  <1>2. PICK g : g = [f EXCEPT ![j] = @ + 1]
    OBVIOUS
  <1>3. f \in [1..n -> Nat] /\ j \in 1..n
    BY <1>1 DEF Ages
  <1>4. g \in [1..n -> Nat] /\ g[j] = f[j] + 1 /\ \A i \in 1..n : i # j => g[i] = f[i]
    BY <1>2, <1>3
  <1>5. /\ \A k \in 0..n : UpTo(f, k) \in Nat
        /\ UpTo(f, 0) = 0
        /\ \A k \in 0..(n - 1) : UpTo(f, k + 1) = UpTo(f, k) + f[k + 1]
    BY <1>3, UpToSteps
  <1>6. /\ UpTo(g, 0) = 0
        /\ \A k \in 0..(n - 1) : UpTo(g, k + 1) = UpTo(g, k) + g[k + 1]
    BY <1>4, UpToSteps
  <1>7. PICK S : S = {k \in Nat : k <= n => UpTo(g, k) = UpTo(f, k) + (IF j <= k THEN 1 ELSE 0)}
    OBVIOUS
  <1>8. 0 \in S
    <2>1. ~(j <= 0)
      BY <1>3
    <2>2. UpTo(g, 0) = UpTo(f, 0) + (IF j <= 0 THEN 1 ELSE 0)
      BY <1>5, <1>6, <2>1
    <2> QED  BY <1>7, <2>2
  <1>9. ASSUME NEW k \in Nat, k \in S PROVE k + 1 \in S
    <2>1. SUFFICES ASSUME k + 1 <= n
                   PROVE  UpTo(g, k + 1) = UpTo(f, k + 1) + (IF j <= k + 1 THEN 1 ELSE 0)
      BY <1>7
    <2>2. UpTo(g, k) = UpTo(f, k) + (IF j <= k THEN 1 ELSE 0)
      BY <1>7, <1>9, <2>1
    <2>3. UpTo(g, k + 1) = UpTo(g, k) + g[k + 1]
      BY <1>6, <2>1
    <2>4. UpTo(f, k + 1) = UpTo(f, k) + f[k + 1] /\ UpTo(f, k) \in Nat /\ f[k + 1] \in Nat
      BY <1>3, <1>5, <2>1
    <2>5. g[k + 1] = f[k + 1] + (IF j = k + 1 THEN 1 ELSE 0)
      <3>1. PICK i \in 1..n : i = k + 1
        BY <2>1
      <3>2. PICK v \in Nat : v = f[i]
        BY <1>3
      <3>3. CASE j = i
        BY <1>4, <3>1, <3>2, <3>3
      <3>4. CASE j # i
        BY <1>4, <3>1, <3>2, <3>4
      <3> QED  BY <3>3, <3>4
    <2>6. PICK u \in Nat, v \in Nat : u = UpTo(f, k) /\ v = f[k + 1]
      BY <2>4
    <2>7. CASE j <= k
      BY <1>3, <2>2, <2>3, <2>4, <2>5, <2>6, <2>7, SMTT(30)
    <2>8. CASE j = k + 1
      BY <1>3, <2>2, <2>3, <2>4, <2>5, <2>6, <2>8
    <2>9. CASE j > k + 1
      BY <1>3, <2>2, <2>3, <2>4, <2>5, <2>6, <2>9
    <2> QED  BY <1>3, <2>7, <2>8, <2>9
  <1>10. Nat \subseteq S
    BY <1>8, <1>9, NatsFromZero
  <1>11. \A k \in 0..n : UpTo(g, k) = UpTo(f, k) + (IF j <= k THEN 1 ELSE 0)
    BY <1>7, <1>10
  <1> QED  BY <1>1, <1>2, <1>4, <1>11 DEF Ages

(* Rows of zeros sum to zero.                                               *)
LEMMA ZerosSumToZero ==
    ASSUME NEW n \in Nat, NEW f \in [1..n -> Nat], \A i \in 1..n : f[i] = 0
    PROVE  SumFunction(f) = 0
  <1>1. SumFunction(f) = Cardinality(Units(f, 1..n))
    BY UpToSteps DEF UpTo
  <1>2. Units(f, 1..n) = {}
    BY DEF Units
  <1> QED  BY <1>1, <1>2, FS_EmptySet

Row == [violations : Nat, requests : Nat, retries : Nat]
Requests == [pc : {"idle", "gate", "calling", "answered"}, model : 1..Len(Models),
             attempt : 0..MaxAttempts - 1]
Rows == [1..Slots -> Row]
Circuits == [1..Len(Models) -> 0..OpenFor]
(* A call is retried less often than MaxAttempts, and violates once at most. *)
RowSound(r) ==
    /\ r.requests <= MaxPerSlot
    /\ r.violations <= r.requests
    /\ r.retries <= r.requests * MaxAttempts
(* The calls that a request which has not been answered may still make.     *)
CallsLeft(q) == (Len(Models) - q.model) * MaxAttempts + (MaxAttempts - q.attempt)

KernelInv ==
    /\ window \in Rows
    /\ \A i \in 1..Slots : RowSound(window[i])
    /\ lag \in 0..Slots
    /\ phi2 \in 0..1000 /\ phi3 \in 0..1000
    /\ idle_for \in 0..Len(Phi5)
    /\ regime \in Regimes
    /\ open_for \in Circuits
    /\ request \in Requests
    /\ recent \in [Ages -> Nat] /\ prompt \in [Ages -> Nat]
    /\ troubled \in BOOLEAN
    /\ request.pc \in {"gate", "calling"} => window[1].requests + CallsLeft(request) <= MaxPerSlot
    /\ request.pc = "answered" => window[1].violations < window[1].requests

QuietRow(r) == r.violations = 0 /\ r.retries = 0
QuietInv ==
    ~troubled => /\ \A i \in 1..Slots : QuietRow(window[i])
                 /\ phi2 = 0 /\ phi3 = 0 /\ request.attempt = 0
                 /\ regime \in {"STABLE", "PRESSURE"}

(* The multiplications by a bound, which the provers need spelled out.       *)
LEMMA Products ==
    ASSUME NEW a \in Nat, NEW m \in Nat
    PROVE  /\ a * m \in Nat
           /\ (a + 1) * m = a * m + m
           /\ \A b \in Nat : a <= b => a * m <= b * m
  <1>1. \A c \in Nat : c * m \in Nat
    OBVIOUS
  <1>2. \A c \in Nat, d \in Nat : (c + d) * m = c * m + d * m
    OBVIOUS
  <1>3. ASSUME NEW b \in Nat, a <= b PROVE a * m <= b * m
    <2>1. PICK d \in Nat : b = a + d
      <3>1. b - a \in Nat /\ b = a + (b - a)
        BY <1>3
      <3> QED  BY <3>1
    <2>2. b * m = a * m + d * m /\ a * m \in Nat /\ d * m \in Nat
      BY <1>1, <1>2, <2>1
    <2>3. PICK u \in Nat, v \in Nat : u = a * m /\ v = d * m
      BY <2>2
    <2>4. b * m = u + v
      BY <2>2, <2>3
    <2> QED  BY <2>3, <2>4
  <1>4. (a + 1) * m = a * m + m
    OBVIOUS
  <1> QED  BY <1>1, <1>3, <1>4

(* The window moved on, and the window with one call or one violation more. *)
LEMMA AdvancedRows ==
    ASSUME NEW w \in Rows, NEW k \in 0..Slots
    PROVE  /\ advance(w, k) \in Rows
           /\ \A i \in 1..Slots : advance(w, k)[i] = (IF i <= k THEN Empty ELSE w[i - k])
           /\ \A i \in 1..Slots : i > k => i - k \in 1..Slots
  <1>1. PICK n \in Nat \ {0} : n = Slots
    BY KernelSizes
  <1>2. Empty \in Row
    BY DEF Empty, Row
  <1>3. \A i \in 1..Slots : i > k => i - k \in 1..Slots
    BY <1>1
  <1>4. \A i \in 1..Slots : (IF i <= k THEN Empty ELSE w[i - k]) \in Row
    BY <1>1, <1>2, <1>3 DEF Rows
  <1> QED  BY <1>3, <1>4 DEF advance, Rows

(* A slot that was just cleared.                                             *)
LEMMA EmptyRow ==
    Empty \in Row /\ RowSound(Empty) /\ Empty.violations = 0 /\ Empty.requests = 0 /\ Empty.retries = 0
  <1>1. Empty \in Row /\ Empty.violations = 0 /\ Empty.requests = 0 /\ Empty.retries = 0
    BY DEF Empty, Row
  <1>2. MaxPerSlot \in Nat /\ MaxAttempts \in Nat
    BY KernelSizes
  <1>3. 0 * MaxAttempts = 0
    BY <1>2
  <1> QED  BY <1>1, <1>2, <1>3 DEF RowSound

WithCall(w, a) == [w EXCEPT ![1].requests = @ + 1, ![1].retries = @ + a]

(* A call counted in the slot of now, with the retries it stands for.        *)
LEMMA CalledRow ==
    ASSUME NEW n \in Nat \ {0}, NEW w \in [1..n -> Row], NEW a \in Nat, NEW z, z = WithCall(w, a)
    PROVE  /\ z \in [1..n -> Row]
           /\ z[1].violations = w[1].violations
           /\ z[1].requests = w[1].requests + 1
           /\ z[1].retries = w[1].retries + a
           /\ \A i \in 1..n : i # 1 => z[i] = w[i]
  <1>1. 1 \in 1..n
    OBVIOUS
  <1>2. PICK r \in Row : r = w[1]
    BY <1>1
  <1>3. PICK v \in Nat, c \in Nat, t \in Nat : r = [violations |-> v, requests |-> c, retries |-> t]
    BY DEF Row
  <1>4. PICK p \in Row : p = [r EXCEPT !.requests = @ + 1]
    <2>1. [r EXCEPT !.requests = @ + 1] = [violations |-> v, requests |-> c + 1, retries |-> t]
      BY <1>3
    <2>2. [violations |-> v, requests |-> c + 1, retries |-> t] \in Row
      BY DEF Row
    <2> QED  BY <2>1, <2>2
  <1>5. PICK q \in Row : q = [p EXCEPT !.retries = @ + a]
    <2>1. p = [violations |-> v, requests |-> c + 1, retries |-> t]
      BY <1>3, <1>4
    <2>2. [p EXCEPT !.retries = @ + a] = [violations |-> v, requests |-> c + 1, retries |-> t + a]
      BY <2>1
    <2>3. [violations |-> v, requests |-> c + 1, retries |-> t + a] \in Row
      BY DEF Row
    <2> QED  BY <2>2, <2>3
  <1>6. /\ q.violations = r.violations /\ q.requests = r.requests + 1 /\ q.retries = r.retries + a
    BY <1>4, <1>5 DEF Row
  <1>7. PICK y : y = [w EXCEPT ![1].requests = @ + 1]
    OBVIOUS
  <1>8. y = [w EXCEPT ![1] = p]
    BY <1>2, <1>4, <1>7
  <1>9. y \in [1..n -> Row] /\ y[1] = p /\ \A i \in 1..n : i # 1 => y[i] = w[i]
    BY <1>1, <1>8
  <1>10. z = [y EXCEPT ![1].retries = @ + a]
    BY <1>7 DEF WithCall
  <1>11. z = [y EXCEPT ![1] = q]
    BY <1>5, <1>9, <1>10
  <1>12. z \in [1..n -> Row] /\ z[1] = q /\ \A i \in 1..n : i # 1 => z[i] = y[i]
    BY <1>1, <1>9, <1>11
  <1> QED  BY <1>2, <1>6, <1>9, <1>12

(* A violation counted in the slot of now.                                   *)
LEMMA ViolatedRow ==
    ASSUME NEW n \in Nat \ {0}, NEW w \in [1..n -> Row], NEW z,
           z = [w EXCEPT ![1].violations = @ + 1]
    PROVE  /\ z \in [1..n -> Row]
           /\ z[1].violations = w[1].violations + 1
           /\ z[1].requests = w[1].requests
           /\ z[1].retries = w[1].retries
           /\ \A i \in 1..n : i # 1 => z[i] = w[i]
  <1>1. 1 \in 1..n
    OBVIOUS
  <1>2. PICK r \in Row : r = w[1]
    BY <1>1
  <1>3. PICK v \in Nat, c \in Nat, t \in Nat : r = [violations |-> v, requests |-> c, retries |-> t]
    BY DEF Row
  <1>4. PICK q \in Row : q = [r EXCEPT !.violations = @ + 1]
    <2>1. [r EXCEPT !.violations = @ + 1] = [violations |-> v + 1, requests |-> c, retries |-> t]
      BY <1>3
    <2>2. [violations |-> v + 1, requests |-> c, retries |-> t] \in Row
      BY DEF Row
    <2> QED  BY <2>1, <2>2
  <1>5. /\ q.violations = r.violations + 1 /\ q.requests = r.requests /\ q.retries = r.retries
    BY <1>4 DEF Row
  <1>6. z = [w EXCEPT ![1] = q]
    BY <1>2, <1>4
  <1>7. z \in [1..n -> Row] /\ z[1] = q /\ \A i \in 1..n : i # 1 => z[i] = w[i]
    BY <1>1, <1>6
  <1> QED  BY <1>2, <1>5, <1>7

(* The calls a request has left depend on its place in the loop and go down  *)
(* with each.                                                                *)
LEMMA CallsLeftOnce ==
    ASSUME NEW q \in Requests
    PROVE  /\ CallsLeft(q) \in Nat \ {0}
           /\ \A p \in Requests :
                /\ p.model = q.model /\ p.attempt = q.attempt => CallsLeft(p) = CallsLeft(q)
                /\ p.model = q.model /\ p.attempt = q.attempt + 1 => CallsLeft(p) + 1 = CallsLeft(q)
                /\ p.model = q.model + 1 /\ p.attempt = 0 => CallsLeft(p) + 1 <= CallsLeft(q)
  <1>1. PICK m \in Nat \ {0}, k \in Nat \ {0} : m = MaxAttempts /\ k = Len(Models)
    BY KernelSizes, ZenonT(30)
  <1>2. \A p \in Requests : p.model \in 1..k /\ p.attempt \in 0..(m - 1)
    BY <1>1 DEF Requests
  <1>3. PICK j \in 1..k, a \in 0..(m - 1) : j = q.model /\ a = q.attempt
    BY <1>2
  <1>4. CallsLeft(q) = (k - j) * m + (m - a)
    BY <1>1, <1>3 DEF CallsLeft
  <1>5. (k - j) * m \in Nat
    <2>1. k - j \in Nat
      BY <1>1, <1>3
    <2> QED  BY <1>1, <2>1, Products
  <1>6. CallsLeft(q) \in Nat \ {0}
    <2>1. PICK u \in Nat : u = (k - j) * m
      BY <1>5
    <2>2. CallsLeft(q) = u + (m - a)
      BY <1>4, <2>1
    <2>3. u + (m - a) \in Nat /\ u + (m - a) # 0
      OBVIOUS
    <2> QED  BY <2>2, <2>3
  <1>7. ASSUME NEW p \in Requests
        PROVE  /\ p.model = q.model /\ p.attempt = q.attempt => CallsLeft(p) = CallsLeft(q)
               /\ p.model = q.model /\ p.attempt = q.attempt + 1 => CallsLeft(p) + 1 = CallsLeft(q)
               /\ p.model = q.model + 1 /\ p.attempt = 0 => CallsLeft(p) + 1 <= CallsLeft(q)
    <2>1. CallsLeft(p) = (k - p.model) * m + (m - p.attempt)
      BY <1>1 DEF CallsLeft
    <2>2. CASE p.model = q.model
      <3>1. CallsLeft(p) = (k - j) * m + (m - p.attempt)
        BY <1>3, <2>1, <2>2
      <3>2. PICK u \in Nat : u = (k - j) * m
        BY <1>5
      <3>3. CallsLeft(p) = u + (m - p.attempt) /\ CallsLeft(q) = u + (m - a)
        BY <1>4, <3>1, <3>2
      <3>4. PICK b \in 0..(m - 1) : b = p.attempt
        BY <1>2
      <3>5. p.attempt = q.attempt => CallsLeft(p) = CallsLeft(q)
        BY <1>3, <3>3
      <3>6. p.attempt = q.attempt + 1 => CallsLeft(p) + 1 = CallsLeft(q)
        <4>1. SUFFICES ASSUME b = a + 1 PROVE u + (m - b) + 1 = u + (m - a)
          BY <1>3, <3>3, <3>4
        <4>2. u + (m - (a + 1)) + 1 = u + (m - a)
          OBVIOUS
        <4> QED  BY <4>1, <4>2
      <3>7. ~(p.model = q.model + 1)
        BY <1>3, <2>2
      <3> QED  BY <3>5, <3>6, <3>7
    <2>3. CASE p.model = q.model + 1 /\ p.attempt = 0
      <3>1. PICK i : i = k - (j + 1)
        OBVIOUS
      <3>2. i \in Nat /\ k - j = i + 1
        <4>1. j + 1 \in 1..k
          BY <1>2, <1>3, <2>3
        <4>2. j + 1 \in 1..k => k - (j + 1) \in Nat /\ k - j = (k - (j + 1)) + 1
          OBVIOUS
        <4> QED  BY <3>1, <4>1, <4>2
      <3>3. (i + 1) * m = i * m + m /\ i * m \in Nat
        BY <1>1, <3>2, Products
      <3>4. PICK u \in Nat : u = i * m
        BY <3>3
      <3>5. CallsLeft(p) = u + (m - 0)
        BY <1>3, <2>1, <2>3, <3>1, <3>4
      <3>6. CallsLeft(q) = u + m + (m - a)
        BY <1>4, <3>2, <3>3, <3>4
      <3>7. u + (m - 0) + 1 <= u + m + (m - a)
        BY <1>1, <1>3, <3>4
      <3>8. ~(p.model = q.model)
        BY <1>3, <2>3
      <3> QED  BY <2>3, <3>5, <3>6, <3>7, <3>8
    <2> QED  BY <1>3, <2>2, <2>3
  <1> QED  BY <1>6, <1>7

(* Integer division: the share of k in x exists and is not too large.        *)
LEMMA Shares ==
    ASSUME NEW x \in Nat, NEW k \in Nat \ {0} PROVE \E y \in Nat : y = x \div k /\ k * y <= x
  <1>1. x \div k \in Nat /\ k * (x \div k) <= x
    OBVIOUS
  <1> QED  BY <1>1

(* A risk in thousandths, and one that neither sheds nor halts.             *)
IsRisk(x) == x \in 0..1000
IsLow(x) == x \in Nat /\ x < 500

(* The share of open circuits is a risk in thousandths.                      *)
LEMMA OpenRatioIsARisk ==
    ASSUME open_for \in Circuits
    PROVE  IsRisk(OpenRatio)
  <1> USE DEF IsRisk
  <1>1. PICK k \in Nat \ {0} : k = Len(Models)
    BY KernelSizes
  <1> DEFINE open == {i \in DOMAIN open_for : open_for[i] > 0}
  <1>2. PICK I : I = 1..k
    OBVIOUS
  <1>3. open \subseteq I
    BY <1>1, <1>2 DEF Circuits
  <1>4. IsFiniteSet(I) /\ Cardinality(I) = k
    <2>1. 1 \in Int /\ k \in Int /\ k - 1 + 1 = k /\ ~(1 > k)
      BY <1>1
    <2>2. IsFiniteSet(I) /\ Cardinality(I) = IF 1 > k THEN 0 ELSE k - 1 + 1
      BY <1>2, <2>1, FS_Interval
    <2> QED  BY <2>1, <2>2
  <1>5. IsFiniteSet(open) /\ Cardinality(open) <= Cardinality(I)
    <2>1. \A T : T \subseteq I => IsFiniteSet(T) /\ Cardinality(T) <= Cardinality(I)
      BY <1>4, FS_Subset
    <2> HIDE DEF open
    <2> QED  BY <1>3, <2>1
  <1>6. PICK c \in Nat : c = Cardinality(open) /\ c <= k
    <2>1. Cardinality(open) \in Nat
      BY <1>5, FS_CardinalityType
    <2>2. Cardinality(open) <= k
      BY <1>4, <1>5
    <2> HIDE DEF open
    <2> QED  BY <2>1, <2>2
  <1>7. OpenRatio = (1000 * c) \div k
    BY <1>1, <1>6 DEF OpenRatio
  <1>8. (1000 * c) \div k \in 0..1000
    <2>1. PICK x \in Nat : x = 1000 * c /\ x <= 1000 * k
      <3>1. 1000 * c \in Nat /\ 1000 * c <= 1000 * k
        BY <1>1, <1>6
      <3> QED  BY <3>1
    <2>2. PICK y \in Nat : y = x \div k /\ k * y <= x
      BY Shares
    <2>3. k * y <= x
      BY <2>2
    <2>4. ASSUME y > 1000 PROVE FALSE
      <3>1. 1001 * k <= y * k
        <4>1. 1001 \in Nat /\ 1001 <= y
          BY <2>4
        <4> QED  BY <4>1, Products
      <3>2. y * k = k * y /\ k * y \in Nat
        BY <1>1, <2>3
      <3>3. PICK v \in Nat : v = k * y
        BY <3>2
      <3> QED  BY <1>1, <2>1, <2>3, <3>1, <3>2, <3>3
    <2>5. x \div k \in 0..1000
      BY <2>2, <2>3, <2>4
    <2> QED  BY <2>1, <2>5
  <1> QED  BY <1>7, <1>8

(* An empty window at the beginning.                                         *)
LEMMA KernelStarts == ASSUME KernelInit PROVE KernelInv
  <1>1. PICK n \in Nat \ {0} : n = Slots
    BY KernelSizes
  <1>2. window \in Rows /\ \A i \in 1..Slots : RowSound(window[i])
    BY EmptyRow DEF KernelInit, Rows
  <1>3. recent \in [Ages -> Nat] /\ prompt \in [Ages -> Nat]
    BY DEF KernelInit
  <1>4. open_for \in Circuits
    BY KernelSizes DEF KernelInit, Circuits
  <1>5. NoRequest \in Requests /\ NoRequest.pc = "idle"
    BY KernelSizes DEF Requests, NoRequest
  <1>6. idle_for \in 0..Len(Phi5)
    BY KernelSizes DEF KernelInit
  <1>7. lag \in 0..Slots /\ phi2 \in 0..1000 /\ phi3 \in 0..1000
    BY <1>1 DEF KernelInit
  <1>8. regime \in Regimes /\ troubled \in BOOLEAN /\ request = NoRequest
    BY DEF KernelInit, Regimes
  <1> QED  BY <1>2, <1>3, <1>4, <1>5, <1>6, <1>7, <1>8 DEF KernelInv

LEMMA GenerateKeeps ==
    ASSUME KernelInv, NEW drift \in Drifts, Generate(drift)
    PROVE  KernelInv'
  <1>1. PICK n \in Nat \ {0} : n = Slots
    BY KernelSizes
  <1>2. PICK w : w = advance(window, lag)
    OBVIOUS
  <1>3. window' = w /\ lag' = 0 /\ phi2' = drift /\ UNCHANGED <<idle_for, open_for, recent, prompt>>
    BY <1>2 DEF Generate
  <1>4. /\ w \in Rows
        /\ \A i \in 1..Slots : w[i] = (IF i <= lag THEN Empty ELSE window[i - lag])
        /\ \A i \in 1..Slots : i > lag => i - lag \in 1..Slots
    <2>1. window \in Rows /\ lag \in 0..Slots
      BY DEF KernelInv
    <2>2. /\ advance(window, lag) \in Rows
          /\ \A i \in 1..Slots : advance(window, lag)[i] = (IF i <= lag THEN Empty ELSE window[i - lag])
          /\ \A i \in 1..Slots : i > lag => i - lag \in 1..Slots
      BY <2>1, AdvancedRows
    <2> QED  BY <1>2, <2>2
  <1>5. \A i \in 1..Slots : RowSound(w[i])
    <2> SUFFICES ASSUME NEW i \in 1..Slots PROVE RowSound(w[i])
      OBVIOUS
    <2>1. CASE i <= lag
      BY <1>4, <2>1, EmptyRow
    <2>2. CASE i > lag
      <3>1. w[i] = window[i - lag]
        BY <1>1, <1>4, <2>2 DEF KernelInv
      <3> QED  BY <1>4, <2>2, <3>1 DEF KernelInv
    <2> QED  BY <1>1, <2>1, <2>2 DEF KernelInv
  <1>6. lag' \in 0..Slots /\ phi2' \in 0..1000
    BY <1>1, <1>3, KernelSizes
  <1>7. phi3' \in 0..1000
    <2>1. OpenRatio \in 0..1000 /\ phi3 \in 0..1000
      <3>1. open_for \in Circuits /\ phi3 \in 0..1000
        BY DEF KernelInv
      <3>2. OpenRatio \in 0..1000
        BY <3>1, OpenRatioIsARisk DEF IsRisk
      <3> QED  BY <3>1, <3>2
    <2>2. phi3' \in {OpenRatio, phi3}
      BY DEF Generate
    <2> QED  BY <2>1, <2>2
  <1>8. regime' \in Regimes
    BY DEF Generate, update_regime, KernelInv, Regimes
  <1>9. /\ idle_for' \in 0..Len(Phi5) /\ open_for' \in Circuits
        /\ recent' \in [Ages -> Nat] /\ prompt' \in [Ages -> Nat]
    BY <1>3 DEF KernelInv
  <1>10. troubled' \in BOOLEAN
    BY DEF Generate, KernelInv
  <1>11. request' \in {NoRequest, [NoRequest EXCEPT !.pc = "gate"]}
    BY DEF Generate
  <1>12. PICK q : q = [pc |-> "gate", model |-> 1, attempt |-> 0]
    OBVIOUS
  <1>13. [NoRequest EXCEPT !.pc = "gate"] = q
    BY <1>12 DEF NoRequest
  <1>14. q \in Requests /\ q.pc = "gate" /\ q.model = 1 /\ q.attempt = 0
    BY <1>12, KernelSizes DEF Requests
  <1>15. NoRequest \in Requests /\ NoRequest.pc = "idle"
    BY KernelSizes DEF Requests, NoRequest
  <1>16. w[1].requests + CallsLeft(q) <= MaxPerSlot
    <2>1. PICK m \in Nat \ {0}, k \in Nat \ {0} : m = MaxAttempts /\ k = Len(Models)
      BY KernelSizes, ZenonT(30)
    <2>2. w[1].requests + k * m <= MaxPerSlot
      BY <1>2, <2>1 DEF Generate
    <2>3. CallsLeft(q) = (k - 1) * m + (m - 0)
      BY <1>14, <2>1 DEF CallsLeft
    <2>4. PICK j \in Nat : j = k - 1
      <3>1. k - 1 \in Nat
        OBVIOUS
      <3> QED  BY <3>1
    <2>5. k = j + 1 /\ (j + 1) * m = j * m + m /\ j * m \in Nat
      BY <2>1, <2>4, Products
    <2>6. PICK u \in Nat : u = j * m
      BY <2>5
    <2>7. k * m = u + m /\ CallsLeft(q) = u + (m - 0)
      BY <2>3, <2>4, <2>5, <2>6
    <2> QED  BY <2>1, <2>2, <2>6, <2>7
  <1>17. CASE request' = NoRequest
    BY <1>3, <1>4, <1>5, <1>6, <1>7, <1>8, <1>9, <1>10, <1>15, <1>17 DEF KernelInv
  <1>18. CASE request' = q
    BY <1>3, <1>4, <1>5, <1>6, <1>7, <1>8, <1>9, <1>10, <1>14, <1>16, <1>18 DEF KernelInv
  <1> QED  BY <1>11, <1>13, <1>17, <1>18

(* A call takes one of the calls that were left.                            *)
LEMMA CallFits ==
    ASSUME KernelInv, Calling
    PROVE  /\ request \in Requests /\ request.pc = "calling" /\ CallsLeft(request) \in Nat \ {0}
           /\ window' \in Rows
           /\ \A i \in 1..Slots : RowSound(window'[i])
           /\ window'[1].violations < window'[1].requests
           /\ window'[1].requests + CallsLeft(request) <= MaxPerSlot + 1
           /\ window'[1].requests \in Nat
           /\ window'[1].violations = window[1].violations
           /\ window'[1].retries = window[1].retries + request.attempt
           /\ \A i \in 1..Slots : i # 1 => window'[i] = window[i]
  <1>1. PICK n \in Nat \ {0} : n = Slots
    BY KernelSizes
  <1>2. PICK m \in Nat \ {0} : m = MaxAttempts
    BY KernelSizes
  <1>3. PICK top \in Nat : top = MaxPerSlot
    BY KernelSizes
  <1>4. request \in Requests /\ request.pc = "calling"
    BY DEF KernelInv, Calling
  <1>5. PICK a \in 0..(m - 1) : a = request.attempt
    BY <1>2, <1>4 DEF Requests
  <1>6. window \in [1..n -> Row] /\ \A i \in 1..n : RowSound(window[i])
    BY <1>1 DEF KernelInv, Rows
  <1>7. window' = [window EXCEPT ![1].requests = @ + 1, ![1].retries = @ + a]
    BY <1>5 DEF Calling
  <1>8. a \in Nat
    OBVIOUS
  <1>9. /\ window' \in [1..n -> Row]
        /\ window'[1].violations = window[1].violations
        /\ window'[1].requests = window[1].requests + 1
        /\ window'[1].retries = window[1].retries + a
        /\ \A i \in 1..n : i # 1 => window'[i] = window[i]
    <2>1. PICK w \in [1..n -> Row] : w = window
      BY <1>6
    <2>2. PICK z : z = window'
      OBVIOUS
    <2>3. z = [w EXCEPT ![1].requests = @ + 1, ![1].retries = @ + a]
      BY <1>7, <2>1, <2>2
    <2>4. /\ z \in [1..n -> Row]
          /\ z[1].violations = w[1].violations
          /\ z[1].requests = w[1].requests + 1
          /\ z[1].retries = w[1].retries + a
          /\ \A i \in 1..n : i # 1 => z[i] = w[i]
      <3>1. PICK b \in Nat : b = a
        BY <1>8
      <3>2. z = WithCall(w, b)
        BY <2>3, <3>1 DEF WithCall
      <3>3. /\ z \in [1..n -> Row]
            /\ z[1].violations = w[1].violations
            /\ z[1].requests = w[1].requests + 1
            /\ z[1].retries = w[1].retries + b
            /\ \A i \in 1..n : i # 1 => z[i] = w[i]
        BY <3>2, CalledRow
      <3> QED  BY <3>1, <3>3
    <2> QED  BY <2>1, <2>2, <2>4
  <1>10. 1 \in 1..n
    OBVIOUS
  <1>11. PICK v \in Nat, c \in Nat, t \in Nat :
              v = window[1].violations /\ c = window[1].requests /\ t = window[1].retries
    BY <1>6, <1>10 DEF Row
  <1>12. c <= top /\ v <= c /\ t <= c * m
    BY <1>2, <1>3, <1>6, <1>10, <1>11 DEF RowSound
  <1>13. CallsLeft(request) \in Nat \ {0}
    BY <1>4, CallsLeftOnce
  <1>14. PICK l \in Nat \ {0} : l = CallsLeft(request)
    BY <1>13
  <1>15. c + l <= top
    BY <1>3, <1>4, <1>11, <1>14 DEF KernelInv
  <1>16. /\ window'[1].violations = v /\ window'[1].requests = c + 1 /\ window'[1].retries = t + a
    BY <1>9, <1>11
  <1>17. RowSound(window'[1])
    <2>1. c + 1 <= top /\ v <= c + 1
      BY <1>12, <1>15
    <2>2. (c + 1) * m = c * m + m /\ c * m \in Nat
      BY Products
    <2>3. PICK u \in Nat : u = c * m
      BY <2>2
    <2>4. t + a <= u + m
      BY <1>12, <2>3
    <2>5. t + a <= (c + 1) * m
      BY <2>2, <2>3, <2>4
    <2> QED  BY <1>2, <1>3, <1>16, <2>1, <2>5 DEF RowSound
  <1>18. \A i \in 1..n : RowSound(window'[i])
    BY <1>6, <1>9, <1>17
  <1>19. v < c + 1 /\ c + 1 + l <= top + 1 /\ c + 1 \in Nat
    BY <1>12, <1>15
  <1> QED
    BY <1>1, <1>3, <1>4, <1>5, <1>9, <1>13, <1>14, <1>16, <1>18, <1>19 DEF Rows

(* The next model has calls left to it, but fewer.                          *)
LEMMA FallsBack ==
    ASSUME KernelInv, request.pc \in {"gate", "calling"}, FallBack
    PROVE  /\ request' \in Requests /\ request'.attempt = 0
           /\ request'.pc \in {"idle", "gate"}
           /\ request'.pc = "gate" => CallsLeft(request') + 1 <= CallsLeft(request)
           /\ request'.pc = "gate" => CallsLeft(request') \in Nat
  <1>1. request \in Requests
    BY DEF KernelInv
  <1>2. PICK k \in Nat \ {0} : k = Len(Models)
    BY KernelSizes
  <1>3. PICK j \in 1..k : j = request.model
    BY <1>1, <1>2 DEF Requests
  <1>4. CASE j < k
    <2>1. PICK q : q = [pc |-> "gate", model |-> j + 1, attempt |-> 0]
      OBVIOUS
    <2>2. [NoRequest EXCEPT !.pc = "gate", !.model = j + 1] = q
      <3>1. PICK g : g = [pc |-> "gate", model |-> 1, attempt |-> 0]
        OBVIOUS
      <3>2. [NoRequest EXCEPT !.pc = "gate"] = g
        BY <3>1 DEF NoRequest
      <3>3. [g EXCEPT !.model = j + 1] = q
        BY <2>1, <3>1
      <3> QED  BY <3>2, <3>3
    <2>3. request' = q
      BY <1>2, <1>3, <1>4, <2>2 DEF FallBack
    <2>4. q \in Requests /\ q.pc = "gate" /\ q.model = j + 1 /\ q.attempt = 0
      <3>1. j + 1 \in 1..k
        BY <1>4
      <3>2. 0 \in 0..(MaxAttempts - 1)
        BY KernelSizes
      <3> QED  BY <1>2, <2>1, <3>1, <3>2 DEF Requests
    <2>5. CallsLeft(q) + 1 <= CallsLeft(request) /\ CallsLeft(q) \in Nat
      BY <1>1, <1>3, <2>4, CallsLeftOnce
    <2> QED  BY <2>3, <2>4, <2>5
  <1>5. CASE ~(j < k)
    <2>1. request' = NoRequest
      BY <1>2, <1>3, <1>5 DEF FallBack
    <2>2. NoRequest \in Requests /\ NoRequest.pc = "idle" /\ NoRequest.attempt = 0
      BY KernelSizes DEF Requests, NoRequest
    <2> QED  BY <2>1, <2>2
  <1> QED  BY <1>4, <1>5

LEMMA CheckCircuitKeeps == ASSUME KernelInv, CheckCircuit PROVE KernelInv'
  <1>1. /\ UNCHANGED <<window, lag, phi2, phi3, idle_for, regime, open_for, recent, prompt, troubled>>
        /\ request.pc = "gate"
    BY DEF CheckCircuit, histories
  <1>2. request \in Requests /\ window[1].requests + CallsLeft(request) <= MaxPerSlot
    BY <1>1 DEF KernelInv
  <1>3. window[1].requests \in Nat
    BY KernelSizes DEF KernelInv, Rows, Row
  <1>4. /\ request' \in Requests
        /\ request'.pc \in {"gate", "calling"} => window[1].requests + CallsLeft(request') <= MaxPerSlot
        /\ request'.pc # "answered"
    <2>1. CASE open_for[request.model] > 0
      <3>1. FallBack
        BY <2>1 DEF CheckCircuit
      <3>2. /\ request' \in Requests /\ request'.pc \in {"idle", "gate"}
            /\ request'.pc = "gate" => CallsLeft(request') + 1 <= CallsLeft(request)
            /\ request'.pc = "gate" => CallsLeft(request') \in Nat
        BY <1>1, <3>1, FallsBack
      <3>3. CallsLeft(request) \in Nat
        BY <1>2, CallsLeftOnce
      <3>4. PICK c \in Nat, l \in Nat, top \in Nat :
                 c = window[1].requests /\ l = CallsLeft(request) /\ top = MaxPerSlot
        BY <1>3, <3>3, KernelSizes
      <3>5. request'.pc = "gate" => c + CallsLeft(request') <= top
        BY <1>2, <3>2, <3>4
      <3> QED  BY <3>2, <3>4, <3>5
    <2>2. CASE ~(open_for[request.model] > 0)
      <3>1. request' = [request EXCEPT !.pc = "calling"]
        BY <2>2 DEF CheckCircuit
      <3>2. /\ request' \in Requests /\ request'.pc = "calling"
            /\ request'.model = request.model /\ request'.attempt = request.attempt
        BY <1>2, <3>1 DEF Requests
      <3>3. CallsLeft(request') = CallsLeft(request)
        BY <1>2, <3>2, CallsLeftOnce
      <3> QED  BY <1>2, <3>2, <3>3
    <2> QED  BY <2>1, <2>2
  <1> QED  BY <1>1, <1>4 DEF KernelInv

LEMMA AnsweredKeeps ==
    ASSUME KernelInv, CallSucceeds \/ CallRaises \/ Answer PROVE KernelInv'
  <1>1. /\ UNCHANGED <<lag, phi2, phi3, regime, recent, prompt, troubled>>
        /\ idle_for' \in {0, idle_for}
    BY DEF CallSucceeds, CallRaises, Answer, histories
  <1>2. idle_for' \in 0..Len(Phi5)
    BY <1>1, KernelSizes DEF KernelInv
  <1>3. NoRequest \in Requests /\ NoRequest.pc = "idle"
    BY KernelSizes DEF Requests, NoRequest
  <1>4. CASE CallSucceeds
    <2>1. Calling /\ request' = [request EXCEPT !.pc = "answered"]
      BY <1>4 DEF CallSucceeds
    <2>2. request \in Requests
      BY DEF KernelInv
    <2>3. request' \in Requests /\ request'.pc = "answered"
      BY <2>1, <2>2 DEF Requests
    <2>4. open_for' \in Circuits
      <3>1. open_for' = [open_for EXCEPT ![request.model] = 0]
        BY <1>4 DEF CallSucceeds
      <3>2. open_for \in Circuits /\ 0 \in 0..OpenFor
        BY KernelSizes DEF KernelInv
      <3> QED  BY <3>1, <3>2 DEF Circuits
    <2>5. /\ window' \in Rows /\ \A i \in 1..Slots : RowSound(window'[i])
          /\ window'[1].violations < window'[1].requests
      BY <2>1, CallFits
    <2> QED  BY <1>1, <1>2, <2>3, <2>4, <2>5 DEF KernelInv
  <1>5. CASE CallRaises
    <2>1. Calling /\ request' = NoRequest /\ UNCHANGED open_for
      BY <1>5 DEF CallRaises
    <2>2. window' \in Rows /\ \A i \in 1..Slots : RowSound(window'[i])
      BY <2>1, CallFits
    <2> QED  BY <1>1, <1>2, <1>3, <2>1, <2>2 DEF KernelInv
  <1>6. CASE Answer
    <2>1. request' = NoRequest /\ UNCHANGED <<window, open_for>>
      BY <1>6 DEF Answer
    <2> QED  BY <1>1, <1>2, <1>3, <2>1 DEF KernelInv
  <1> QED  BY <1>4, <1>5, <1>6

LEMMA UnavailableKeeps == ASSUME KernelInv, CallUnavailable PROVE KernelInv'
  <1>1. /\ UNCHANGED <<lag, phi2, phi3, idle_for, regime, recent, prompt>>
        /\ troubled' = TRUE /\ Calling
    BY DEF CallUnavailable
  <1>2. /\ request \in Requests /\ request.pc = "calling" /\ CallsLeft(request) \in Nat \ {0}
        /\ window' \in Rows
        /\ \A i \in 1..Slots : RowSound(window'[i])
        /\ window'[1].requests + CallsLeft(request) <= MaxPerSlot + 1
        /\ window'[1].requests \in Nat
    BY <1>1, CallFits
  <1>3. PICK c \in Nat, l \in Nat \ {0}, top \in Nat :
             c = window'[1].requests /\ l = CallsLeft(request) /\ top = MaxPerSlot
    BY <1>2, KernelSizes
  <1>4. c + l <= top + 1
    BY <1>2, <1>3
  <1>5. open_for' \in Circuits
    <2>1. open_for \in Circuits /\ OpenFor \in 0..OpenFor
      BY KernelSizes DEF KernelInv
    <2>2. open_for' \in {open_for, [open_for EXCEPT ![request.model] = OpenFor]}
      BY DEF CallUnavailable
    <2> QED  BY <2>1, <2>2 DEF Circuits
  <1>6. /\ request' \in Requests
        /\ request'.pc \in {"gate", "calling"} => c + CallsLeft(request') <= top
        /\ request'.pc # "answered"
    <2>1. CASE FallBack
      <3>1. /\ request' \in Requests /\ request'.pc \in {"idle", "gate"}
            /\ request'.pc = "gate" => CallsLeft(request') + 1 <= CallsLeft(request)
            /\ request'.pc = "gate" => CallsLeft(request') \in Nat
        BY <1>2, <2>1, FallsBack
      <3>2. request'.pc = "gate" => c + CallsLeft(request') <= top
        BY <1>3, <1>4, <3>1
      <3> QED  BY <3>1, <3>2
    <2>2. CASE /\ request.attempt + 1 < MaxAttempts
               /\ request' = [request EXCEPT !.attempt = @ + 1]
      <3>1. PICK m \in Nat \ {0} : m = MaxAttempts
        BY KernelSizes
      <3>2. PICK a \in 0..(m - 1) : a = request.attempt
        BY <1>2, <3>1 DEF Requests
      <3>3. a + 1 \in 0..(m - 1)
        BY <2>2, <3>1, <3>2
      <3>4. request' = [request EXCEPT !.attempt = a + 1]
        BY <2>2, <3>2
      <3>5. /\ request' \in Requests /\ request'.pc = "calling"
            /\ request'.model = request.model /\ request'.attempt = request.attempt + 1
        BY <1>2, <3>1, <3>2, <3>3, <3>4 DEF Requests
      <3>6. CallsLeft(request') + 1 = CallsLeft(request) /\ CallsLeft(request') \in Nat
        BY <1>2, <3>5, CallsLeftOnce
      <3>7. c + CallsLeft(request') <= top
        BY <1>3, <1>4, <3>6
      <3> QED  BY <3>5, <3>7
    <2> QED  BY <2>1, <2>2 DEF CallUnavailable
  <1> QED  BY <1>1, <1>2, <1>3, <1>5, <1>6 DEF KernelInv

LEMMA CountKeeps ==
    ASSUME NEW f \in [Ages -> Nat] PROVE [f EXCEPT ![1] = @ + 1] \in [Ages -> Nat]
  <1>1. 1 \in Ages
    BY KernelSizes DEF Ages
  <1> QED  BY <1>1

LEMMA ViolationKeeps == ASSUME KernelInv, Violation PROVE KernelInv'
  <1>1. /\ UNCHANGED <<lag, phi2, phi3, idle_for, regime, open_for>>
        /\ request.pc = "answered" /\ request' = NoRequest /\ troubled' = TRUE
    BY DEF Violation
  <1>2. NoRequest \in Requests /\ NoRequest.pc = "idle"
    BY KernelSizes DEF Requests, NoRequest
  <1>3. recent' \in [Ages -> Nat] /\ prompt' \in [Ages -> Nat]
    <2>1. recent \in [Ages -> Nat] /\ prompt \in [Ages -> Nat]
      BY DEF KernelInv
    <2>2. PICK r \in [Ages -> Nat], p \in [Ages -> Nat] : r = recent /\ p = prompt
      BY <2>1
    <2>3. [r EXCEPT ![1] = @ + 1] \in [Ages -> Nat] /\ [p EXCEPT ![1] = @ + 1] \in [Ages -> Nat]
      BY CountKeeps
    <2>4. recent' = [r EXCEPT ![1] = @ + 1] /\ prompt' \in {p, [p EXCEPT ![1] = @ + 1]}
      BY <2>2 DEF Violation
    <2> QED  BY <2>3, <2>4
  <1>4. PICK n \in Nat \ {0} : n = Slots
    BY KernelSizes
  <1>5. window \in [1..n -> Row] /\ \A i \in 1..n : RowSound(window[i])
    BY <1>4 DEF KernelInv, Rows
  <1>6. /\ window' \in [1..n -> Row]
        /\ window'[1].violations = window[1].violations + 1
        /\ window'[1].requests = window[1].requests
        /\ window'[1].retries = window[1].retries
        /\ \A i \in 1..n : i # 1 => window'[i] = window[i]
    <2>1. PICK w \in [1..n -> Row] : w = window
      BY <1>5
    <2>2. PICK z : z = window'
      OBVIOUS
    <2>3. z = [w EXCEPT ![1].violations = @ + 1]
      BY <2>1, <2>2 DEF Violation
    <2>4. /\ z \in [1..n -> Row]
          /\ z[1].violations = w[1].violations + 1
          /\ z[1].requests = w[1].requests
          /\ z[1].retries = w[1].retries
          /\ \A i \in 1..n : i # 1 => z[i] = w[i]
      BY <2>3, ViolatedRow, SMTT(30)
    <2> QED  BY <2>1, <2>2, <2>4
  <1>7. 1 \in 1..n
    OBVIOUS
  <1>8. RowSound(window'[1])
    <2>1. PICK v \in Nat, c \in Nat : v = window[1].violations /\ c = window[1].requests
      BY <1>5, <1>7 DEF Row
    <2>2. v < c
      BY <1>1, <2>1 DEF KernelInv
    <2>3. v + 1 <= c
      BY <2>2
    <2>4. window[1].requests <= MaxPerSlot /\ window[1].retries <= window[1].requests * MaxAttempts
      BY <1>5, <1>7 DEF RowSound
    <2> QED  BY <1>6, <2>1, <2>3, <2>4 DEF RowSound
  <1>9. \A i \in 1..n : RowSound(window'[i])
    BY <1>5, <1>6, <1>8
  <1> QED  BY <1>1, <1>2, <1>3, <1>4, <1>6, <1>9 DEF KernelInv, Rows

LEMMA RestartKeeps == ASSUME KernelInv, Restart PROVE KernelInv'
  <1>1. window' \in Rows /\ \A i \in 1..Slots : RowSound(window'[i])
    BY EmptyRow DEF Restart, Rows
  <1>2. recent' \in [Ages -> Nat] /\ prompt' \in [Ages -> Nat]
    BY DEF Restart
  <1>3. NoRequest \in Requests /\ NoRequest.pc = "idle"
    BY KernelSizes DEF Requests, NoRequest
  <1>4. idle_for' \in 0..Len(Phi5) /\ lag' \in 0..Slots /\ phi2' \in 0..1000 /\ phi3' \in 0..1000
    BY KernelSizes DEF Restart
  <1>5. regime' \in Regimes /\ troubled' \in BOOLEAN /\ request' = NoRequest
    BY DEF Restart, Regimes
  <1>6. open_for' \in Circuits
    BY DEF Restart, KernelInv
  <1> QED  BY <1>1, <1>2, <1>3, <1>4, <1>5, <1>6 DEF KernelInv

LEMMA TickKeeps == ASSUME KernelInv, Tick PROVE KernelInv'
  <1>1. UNCHANGED <<window, phi2, phi3, regime, request, troubled>>
    BY DEF Tick
  <1>2. recent' \in [Ages -> Nat] /\ prompt' \in [Ages -> Nat]
    <2>1. PICK r \in [Ages -> Nat], p \in [Ages -> Nat] : r = recent /\ p = prompt
      BY DEF KernelInv
    <2>2. Aged(r) \in [Ages -> Nat] /\ Aged(p) \in [Ages -> Nat]
      BY AgedCounts
    <2> QED  BY <2>1, <2>2 DEF Tick
  <1>3. lag' \in 0..Slots
    BY KernelSizes DEF Tick, KernelInv
  <1>4. idle_for' \in 0..Len(Phi5)
    BY KernelSizes DEF Tick, KernelInv
  <1>5. open_for' \in Circuits
    <2>1. PICK o \in Nat : o = OpenFor
      BY KernelSizes
    <2>2. open_for \in [1..Len(Models) -> 0..o]
      BY <2>1 DEF KernelInv, Circuits
    <2>3. open_for' = [i \in 1..Len(Models) |-> IF open_for[i] > 0 THEN open_for[i] - 1 ELSE 0]
      BY <2>2 DEF Tick
    <2>4. \A i \in 1..Len(Models) : (IF open_for[i] > 0 THEN open_for[i] - 1 ELSE 0) \in 0..o
      BY <2>2
    <2> QED  BY <2>1, <2>3, <2>4 DEF Circuits
  <1> QED  BY <1>1, <1>2, <1>3, <1>4, <1>5 DEF KernelInv

LEMMA KernelInvKept == ASSUME KernelInv, [KernelNext]_kernel_vars PROVE KernelInv'
  <1>1. CASE \E drift \in Drifts : Generate(drift)
    BY <1>1, GenerateKeeps
  <1>2. CASE CheckCircuit
    BY <1>2, CheckCircuitKeeps
  <1>3. CASE CallSucceeds \/ CallRaises \/ Answer
    BY <1>3, AnsweredKeeps
  <1>4. CASE CallUnavailable
    BY <1>4, UnavailableKeeps
  <1>5. CASE Violation
    BY <1>5, ViolationKeeps
  <1>6. CASE Restart
    BY <1>6, RestartKeeps
  <1>7. CASE Tick
    BY <1>7, TickKeeps
  <1>8. CASE UNCHANGED kernel_vars
    BY <1>8 DEF KernelInv, kernel_vars
  <1> QED  BY <1>1, <1>2, <1>3, <1>4, <1>5, <1>6, <1>7, <1>8 DEF KernelNext, Serve

LEMMA KernelInvHolds == KernelSpec => []KernelInv
  <1>1. KernelInit => KernelInv
    BY KernelStarts
  <1>2. KernelInv /\ [KernelNext]_kernel_vars => KernelInv'
    BY KernelInvKept
  <1> QED  BY <1>1, <1>2, PTL DEF KernelSpec

(* The kernel's variables keep their types: the bound on the calls made in  *)
(* one slot, which generate() looks at once, before it admits a request, is *)
(* kept by all the calls, retries and violations of the request.            *)
THEOREM KernelTypesHold == KernelSpec => []KernelTypeOK
  <1>1. KernelInv => KernelTypeOK
    <2> SUFFICES ASSUME KernelInv PROVE KernelTypeOK
      OBVIOUS
    <2>1. window \in [1..Slots -> Slot]
      <3>1. PICK top \in Nat, m \in Nat : top = MaxPerSlot /\ m = MaxAttempts
        BY KernelSizes
      <3>2. ASSUME NEW r \in Row, RowSound(r) PROVE r \in Slot
        <4>1. PICK v \in Nat, c \in Nat, t \in Nat : r = [violations |-> v, requests |-> c, retries |-> t]
          BY DEF Row
        <4>2. c <= top /\ v <= c /\ t <= c * m
          BY <3>1, <3>2, <4>1 DEF RowSound
        <4>3. c * m <= top * m /\ c * m \in Nat /\ top * m \in Nat
          BY <4>2, Products
        <4>4. PICK x \in Nat, y \in Nat : x = c * m /\ y = top * m
          BY <4>3
        <4>5. v \in 0..top /\ c \in 0..top /\ t \in 0..y
          BY <4>2, <4>3, <4>4
        <4> QED  BY <3>1, <4>1, <4>4, <4>5 DEF Slot
      <3>3. window \in [1..Slots -> Row] /\ \A i \in 1..Slots : RowSound(window[i])
        BY DEF KernelInv, Rows
      <3> QED  BY <3>2, <3>3
    <2>2. request \in [pc : {"idle", "gate", "calling", "answered"}, model : 1..Len(Models),
                       attempt : 0..MaxAttempts - 1]
      BY DEF KernelInv, Requests
    <2> QED  BY <2>1, <2>2 DEF KernelInv, KernelTypeOK, Circuits
  <1> QED  BY <1>1, KernelInvHolds, PTL

(* What the next snapshot counts in each slot, and rows of which the one    *)
(* never counts more than the other, up to whatever slot.                   *)
SeenBy(w, k) == [i \in Ages |-> advance(w, k)[i].violations]
Below(f, g) == \A k \in 0..Slots : UpTo(f, k) <= UpTo(g, k)
Between == Below(prompt, SeenBy(window, lag)) /\ Below(SeenBy(window, lag), recent)

Counts == [Ages -> Nat]

(* A window as it is seen k slots later: rows moved up, the oldest gone.     *)
LEMMA SeenSlots ==
    ASSUME NEW w \in Rows, NEW k \in 0..Slots
    PROVE  /\ SeenBy(w, k) \in Counts
           /\ \A i \in Ages : SeenBy(w, k)[i] = (IF i <= k THEN 0 ELSE w[i - k].violations)
           /\ \A i \in Ages : i > k => i - k \in Ages
  <1>1. /\ advance(w, k) \in Rows
        /\ \A i \in 1..Slots : advance(w, k)[i] = (IF i <= k THEN Empty ELSE w[i - k])
        /\ \A i \in 1..Slots : i > k => i - k \in 1..Slots
    BY AdvancedRows
  <1>2. \A i \in Ages : advance(w, k)[i].violations \in Nat
    BY <1>1 DEF Rows, Row, Ages
  <1>3. \A i \in Ages : advance(w, k)[i].violations = (IF i <= k THEN 0 ELSE w[i - k].violations)
    BY <1>1, EmptyRow DEF Ages
  <1> QED  BY <1>1, <1>2, <1>3 DEF SeenBy, Counts, Ages

(* Prefix sums of counts are numbers.                                        *)
LEMMA UpToIsNat == ASSUME NEW f \in Counts, NEW k \in 0..Slots PROVE UpTo(f, k) \in Nat
  <1>1. PICK n \in Nat \ {0} : n = Slots
    BY KernelSizes
  <1>2. f \in [1..n -> Nat]
    BY <1>1 DEF Counts, Ages
  <1>3. \A j \in 0..n : UpTo(f, j) \in Nat
    BY <1>2, UpToSteps
  <1> QED  BY <1>1, <1>3

(* The order of prefix sums is reflexive.                                    *)
LEMMA BelowItself == ASSUME NEW f \in Counts PROVE Below(f, f)
  BY UpToIsNat DEF Below

(* It survives a slot that passes on both sides.                             *)
LEMMA BelowAged ==
    ASSUME NEW f \in Counts, NEW g \in Counts, Below(f, g) PROVE Below(Aged(f), Aged(g))
  <1>1. PICK n \in Nat \ {0} : n = Slots
    BY KernelSizes
  <1>2. UpTo(Aged(f), 0) = 0 /\ \A k \in 0..(Slots - 1) : UpTo(Aged(f), k + 1) = UpTo(f, k)
    BY AgedCounts DEF Counts
  <1>3. UpTo(Aged(g), 0) = 0 /\ \A k \in 0..(Slots - 1) : UpTo(Aged(g), k + 1) = UpTo(g, k)
    BY AgedCounts DEF Counts
  <1>4. ASSUME NEW k \in 0..n PROVE UpTo(Aged(f), k) <= UpTo(Aged(g), k)
    <2>1. CASE k = 0
      BY <1>2, <1>3, <2>1
    <2>2. CASE k # 0
      <3>1. PICK j \in 0..(n - 1) : k = j + 1
        <4>1. k - 1 \in 0..(n - 1) /\ k = (k - 1) + 1
          BY <2>2
        <4> QED  BY <4>1
      <3>2. UpTo(f, j) <= UpTo(g, j)
        <4>1. j \in 0..n
          OBVIOUS
        <4> QED  BY <1>1, <4>1 DEF Below
      <3> QED  BY <1>1, <1>2, <1>3, <3>1, <3>2
    <2> QED  BY <2>1, <2>2
  <1> QED  BY <1>1, <1>4 DEF Below

OneMore(f, j) == [f EXCEPT ![j] = @ + 1]

(* It survives one more violation above, and one on both sides when the one  *)
(* above is as young.                                                        *)
LEMMA BelowOneMore ==
    ASSUME NEW f \in Counts, NEW g \in Counts, Below(f, g), NEW j \in Ages
    PROVE  /\ OneMore(g, j) \in Counts
           /\ Below(f, OneMore(g, j))
           /\ \A i \in Ages : j <= i => Below(OneMore(f, i), OneMore(g, j))
  <1>1. PICK n \in Nat \ {0} : n = Slots
    BY KernelSizes
  <1>2. /\ OneMore(g, j) \in Counts
        /\ \A k \in 0..Slots : UpTo(OneMore(g, j), k) = UpTo(g, k) + (IF j <= k THEN 1 ELSE 0)
    BY OneMoreCounts DEF Counts, OneMore
  <1>3. \A i \in Ages, k \in 0..Slots : UpTo(OneMore(f, i), k) = UpTo(f, k) + (IF i <= k THEN 1 ELSE 0)
    BY OneMoreCounts DEF Counts, OneMore
  <1>4. \A k \in 0..Slots : UpTo(f, k) \in Nat /\ UpTo(g, k) \in Nat /\ UpTo(f, k) <= UpTo(g, k)
    BY UpToIsNat DEF Below
  <1>5. ASSUME NEW k \in 0..Slots PROVE UpTo(f, k) <= UpTo(OneMore(g, j), k)
    <2>1. PICK u \in Nat, v \in Nat : u = UpTo(f, k) /\ v = UpTo(g, k) /\ u <= v
      BY <1>4
    <2>2. UpTo(OneMore(g, j), k) = v + (IF j <= k THEN 1 ELSE 0)
      BY <1>2, <2>1
    <2> QED  BY <2>1, <2>2
  <1>6. ASSUME NEW i \in Ages, j <= i, NEW k \in 0..Slots
        PROVE  UpTo(OneMore(f, i), k) <= UpTo(OneMore(g, j), k)
    <2>1. PICK u \in Nat, v \in Nat : u = UpTo(f, k) /\ v = UpTo(g, k) /\ u <= v
      BY <1>4
    <2>2. UpTo(OneMore(g, j), k) = v + (IF j <= k THEN 1 ELSE 0)
      BY <1>2, <2>1
    <2>3. UpTo(OneMore(f, i), k) = u + (IF i <= k THEN 1 ELSE 0)
      BY <1>3, <2>1
    <2>4. i <= k => j <= k
      BY <1>1, <1>6 DEF Ages
    <2> QED  BY <2>1, <2>2, <2>3, <2>4
  <1> QED  BY <1>2, <1>5, <1>6 DEF Below

(* Nothing is counted and nothing has happened.                              *)
LEMMA BetweenStarts == ASSUME KernelInit PROVE Between
  <1>1. PICK zeros \in Counts : zeros = [a \in Ages |-> 0]
    <2>1. [a \in Ages |-> 0] \in Counts
      BY DEF Counts
    <2> QED  BY <2>1
  <1>2. window \in Rows /\ lag \in 0..Slots
    BY KernelStarts DEF KernelInv
  <1>3. SeenBy(window, lag) = zeros
    <2>1. \A i \in Ages : SeenBy(window, lag)[i] = 0
      <3>1. \A j \in Ages : window[j].violations = 0
        BY EmptyRow DEF KernelInit, Ages
      <3>2. /\ \A i \in Ages : SeenBy(window, lag)[i] = (IF i <= lag THEN 0 ELSE window[i - lag].violations)
            /\ \A i \in Ages : i > lag => i - lag \in Ages
        BY <1>2, SeenSlots
      <3>3. \A i \in Ages : i > lag \/ i <= lag
        BY <1>2, KernelSizes DEF Ages
      <3> QED  BY <3>1, <3>2, <3>3
    <2>2. SeenBy(window, lag) \in Counts
      BY <1>2, SeenSlots
    <2> QED  BY <1>1, <2>1, <2>2 DEF Counts
  <1>4. prompt = zeros /\ recent = zeros
    BY <1>1 DEF KernelInit
  <1> QED  BY <1>3, <1>4, BelowItself DEF Between

(* Moving the window and then looking is looking with the delay.             *)
LEMMA SeenMoved ==
    ASSUME NEW w \in Rows, NEW k \in 0..Slots
    PROVE  advance(w, k) \in Rows /\ SeenBy(advance(w, k), 0) = SeenBy(w, k)
  <1>1. PICK z \in Rows : z = advance(w, k)
    BY AdvancedRows
  <1>2. PICK o \in 0..Slots : o = 0
    BY KernelSizes
  <1>3. SeenBy(z, o) \in Counts /\ SeenBy(w, k) \in Counts
    BY SeenSlots
  <1>4. \A i \in Ages : SeenBy(z, o)[i] = z[i].violations
    <2>1. \A i \in Ages : SeenBy(z, o)[i] = (IF i <= o THEN 0 ELSE z[i - o].violations)
      BY SeenSlots
    <2>2. \A i \in Ages : ~(i <= o) /\ i - o = i
      BY <1>2, KernelSizes DEF Ages
    <2> QED  BY <2>1, <2>2
  <1>5. \A i \in Ages : SeenBy(w, k)[i] = z[i].violations
    BY <1>1 DEF SeenBy
  <1>6. SeenBy(z, o) = SeenBy(w, k)
    BY <1>3, <1>4, <1>5 DEF Counts
  <1> QED  BY <1>1, <1>2, <1>6

(* What is seen depends on the violations alone.                             *)
LEMMA SeenSame ==
    ASSUME NEW w \in Rows, NEW z \in Rows, NEW k \in 0..Slots,
           \A i \in Ages : z[i].violations = w[i].violations
    PROVE  SeenBy(z, k) = SeenBy(w, k)
  <1>1. /\ SeenBy(w, k) \in Counts
        /\ \A i \in Ages : SeenBy(w, k)[i] = (IF i <= k THEN 0 ELSE w[i - k].violations)
        /\ \A i \in Ages : i > k => i - k \in Ages
    BY SeenSlots
  <1>2. /\ SeenBy(z, k) \in Counts
        /\ \A i \in Ages : SeenBy(z, k)[i] = (IF i <= k THEN 0 ELSE z[i - k].violations)
    BY SeenSlots
  <1>3. \A i \in Ages : i > k \/ i <= k
    BY KernelSizes DEF Ages
  <1>4. \A i \in Ages : SeenBy(z, k)[i] = SeenBy(w, k)[i]
    BY <1>1, <1>2, <1>3
  <1> QED  BY <1>1, <1>2, <1>4 DEF Counts

(* A violation is counted lag slots away from where it is recorded, and not *)
(* at all when that is out of the window.                                   *)
LEMMA SeenOneMore ==
    ASSUME NEW w \in Rows, NEW z \in Rows, NEW k \in 0..Slots,
           z[1].violations = w[1].violations + 1, \A i \in Ages : i # 1 => z[i] = w[i]
    PROVE  /\ k = Slots => SeenBy(z, k) = SeenBy(w, k)
           /\ k < Slots => k + 1 \in Ages /\ SeenBy(z, k) = OneMore(SeenBy(w, k), k + 1)
  <1>1. PICK n \in Nat \ {0} : n = Slots
    BY KernelSizes
  <1>2. PICK f \in Counts : f = SeenBy(w, k)
    BY SeenSlots
  <1>3. PICK g \in Counts : g = SeenBy(z, k)
    BY SeenSlots
  <1>4. \A i \in Ages : f[i] = (IF i <= k THEN 0 ELSE w[i - k].violations)
    BY <1>2, SeenSlots
  <1>5. \A i \in Ages : g[i] = (IF i <= k THEN 0 ELSE z[i - k].violations)
    BY <1>3, SeenSlots
  <1>6. Ages = 1..n /\ k \in 0..n
    BY <1>1 DEF Ages
  <1>7. CASE k = n
    <2>1. \A i \in 1..n : i <= k
      BY <1>7
    <2>2. \A i \in 1..n : g[i] = f[i]
      BY <1>4, <1>5, <1>6, <2>1
    <2>3. g = f
      BY <1>6, <2>2 DEF Counts
    <2> QED  BY <1>1, <1>2, <1>3, <1>7, <2>3
  <1>8. CASE k < n
    <2>1. k + 1 \in 1..n
      BY <1>6, <1>8
    <2>2. ASSUME NEW i \in 1..n, i # k + 1 PROVE g[i] = f[i]
      <3>1. CASE i <= k
        BY <1>4, <1>5, <1>6, <3>1
      <3>2. CASE i > k
        <4>1. i - k \in 1..n /\ i - k # 1
          BY <1>6, <2>2, <3>2
        <4>2. z[i - k] = w[i - k]
          BY <1>6, <4>1
        <4>3. ~(i <= k)
          BY <1>6, <3>2
        <4> QED  BY <1>4, <1>5, <1>6, <4>2, <4>3
      <3> QED  BY <1>6, <3>1, <3>2
    <2>3. g[k + 1] = f[k + 1] + 1
      <3>1. ~(k + 1 <= k) /\ (k + 1) - k = 1
        BY <1>6
      <3>2. g[k + 1] = z[1].violations /\ f[k + 1] = w[1].violations
        BY <1>4, <1>5, <1>6, <2>1, <3>1
      <3> QED  BY <3>2
    <2>4. g = [f EXCEPT ![k + 1] = @ + 1]
      BY <1>6, <2>1, <2>2, <2>3 DEF Counts
    <2> QED  BY <1>1, <1>2, <1>3, <1>6, <1>8, <2>1, <2>4 DEF OneMore
  <1> QED  BY <1>1, <1>6, <1>7, <1>8

(* A slot that passes ages what is seen, once.                               *)
LEMMA SeenAged ==
    ASSUME NEW w \in Rows, NEW k \in 0..Slots, NEW l \in 0..Slots, l = (IF k < Slots THEN k + 1 ELSE k)
    PROVE  SeenBy(w, l) = Aged(SeenBy(w, k))
  <1>1. PICK n \in Nat \ {0} : n = Slots
    BY KernelSizes
  <1>2. PICK f \in Counts : f = SeenBy(w, k)
    BY SeenSlots
  <1>3. PICK g \in Counts : g = SeenBy(w, l)
    BY SeenSlots
  <1>4. \A i \in Ages : f[i] = (IF i <= k THEN 0 ELSE w[i - k].violations)
    BY <1>2, SeenSlots
  <1>5. \A i \in Ages : g[i] = (IF i <= l THEN 0 ELSE w[i - l].violations)
    BY <1>3, SeenSlots
  <1>6. Ages = 1..n /\ k \in 0..n /\ l = (IF k < n THEN k + 1 ELSE k)
    BY <1>1 DEF Ages
  <1>7. g[1] = 0
    <2>1. 1 <= l
      BY <1>6
    <2> QED  BY <1>5, <1>6, <2>1
  <1>8. ASSUME NEW i \in 1..n, i # 1 PROVE g[i] = f[i - 1]
    <2>1. i - 1 \in 1..n
      BY <1>8
    <2>2. f[i - 1] = (IF i - 1 <= k THEN 0 ELSE w[(i - 1) - k].violations)
      BY <1>4, <1>6, <2>1
    <2>3. g[i] = (IF i <= l THEN 0 ELSE w[i - l].violations)
      BY <1>5, <1>6
    <2>4. CASE k < n
      <3>1. l = k + 1 /\ (i <= k + 1 <=> i - 1 <= k) /\ i - (k + 1) = (i - 1) - k
        BY <1>6, <2>4
      <3> QED  BY <2>2, <2>3, <3>1
    <2>5. CASE k = n
      <3>1. l = n /\ i <= n /\ i - 1 <= n
        BY <1>6, <2>5
      <3> QED  BY <2>2, <2>3, <2>5, <3>1
    <2> QED  BY <1>6, <2>4, <2>5
  <1>9. Aged(f) = [i \in Ages |-> IF i = 1 THEN 0 ELSE f[i - 1]]
    BY DEF Aged
  <1>10. g = Aged(f)
    <2>1. \A i \in Ages : g[i] = (IF i = 1 THEN 0 ELSE f[i - 1])
      BY <1>6, <1>7, <1>8
    <2> QED  BY <1>9, <2>1 DEF Counts
  <1> QED  BY <1>2, <1>3, <1>10

LEMMA BetweenKept == ASSUME KernelInv, Between, [KernelNext]_kernel_vars PROVE Between'
  <1>1. PICK w \in Rows, k \in 0..Slots, r \in Counts, p \in Counts :
             w = window /\ k = lag /\ r = recent /\ p = prompt
    BY DEF KernelInv, Counts
  <1>2. PICK seen \in Counts : seen = SeenBy(w, k)
    BY SeenSlots
  <1>3. Below(p, seen) /\ Below(seen, r)
    BY <1>1, <1>2 DEF Between
  <1>4. PICK z : z = window'
    OBVIOUS
  <1>5. CASE \E drift \in Drifts : Generate(drift)
    <2>1. window' = advance(w, k) /\ lag' = 0 /\ recent' = r /\ prompt' = p
      BY <1>1, <1>5 DEF Generate
    <2>2. SeenBy(window', lag') = seen
      BY <1>2, <2>1, SeenMoved
    <2> QED  BY <1>3, <2>1, <2>2 DEF Between
  <1>6. CASE CallSucceeds \/ CallUnavailable \/ CallRaises
    <2>1. Calling /\ lag' = k /\ recent' = r /\ prompt' = p
      BY <1>1, <1>6 DEF CallSucceeds, CallUnavailable, CallRaises, histories
    <2>2. /\ window' \in Rows /\ window'[1].violations = window[1].violations
          /\ \A i \in 1..Slots : i # 1 => window'[i] = window[i]
      BY <2>1, CallFits
    <2>3. z \in Rows /\ \A i \in Ages : z[i].violations = w[i].violations
      BY <1>1, <1>4, <2>2 DEF Ages
    <2>4. SeenBy(z, k) = seen
      BY <1>2, <2>3, SeenSame
    <2> QED  BY <1>3, <1>4, <2>1, <2>4 DEF Between
  <1>7. CASE CheckCircuit \/ Answer \/ UNCHANGED kernel_vars
    <2>1. window' = w /\ lag' = k /\ recent' = r /\ prompt' = p
      BY <1>1, <1>7 DEF CheckCircuit, Answer, kernel_vars, histories
    <2> QED  BY <1>2, <1>3, <2>1 DEF Between
  <1>8. CASE Violation
    <2>1. /\ lag' = k
          /\ recent' = OneMore(r, 1)
          /\ prompt' = (IF k = 0 THEN OneMore(p, 1) ELSE p)
      BY <1>1, <1>8 DEF Violation, OneMore
    <2>2. /\ z \in Rows
          /\ z[1].violations = w[1].violations + 1
          /\ \A i \in Ages : i # 1 => z[i] = w[i]
      <3>1. z = [w EXCEPT ![1].violations = @ + 1]
        BY <1>1, <1>4, <1>8 DEF Violation
      <3>2. PICK n \in Nat \ {0} : n = Slots
        BY KernelSizes
      <3>3. PICK v \in [1..n -> Row] : v = w
        BY <3>2 DEF Rows
      <3>4. z = [v EXCEPT ![1].violations = @ + 1]
        BY <3>1, <3>3
      <3>5. /\ z \in [1..n -> Row] /\ z[1].violations = v[1].violations + 1
            /\ \A i \in 1..n : i # 1 => z[i] = v[i]
        BY <3>4, ViolatedRow, SMTT(30)
      <3> QED  BY <3>2, <3>3, <3>5 DEF Rows, Ages
    <2>3. PICK one \in Ages : one = 1
      BY KernelSizes DEF Ages
    <2>4. CASE k = Slots
      <3>1. SeenBy(z, k) = seen
        BY <1>2, <2>2, <2>4, SeenOneMore
      <3>2. prompt' = p
        BY <2>1, <2>4, KernelSizes
      <3>3. Below(seen, OneMore(r, one))
        BY <1>3, BelowOneMore
      <3> QED  BY <1>3, <1>4, <2>1, <2>3, <3>1, <3>2, <3>3 DEF Between
    <2>5. CASE k < Slots
      <3>1. k + 1 \in Ages /\ SeenBy(z, k) = OneMore(seen, k + 1)
        BY <1>2, <2>2, <2>5, SeenOneMore
      <3>2. PICK j \in Ages : j = k + 1
        BY <3>1
      <3>3. one <= j
        BY <2>3, <3>2, KernelSizes
      <3>4. Below(OneMore(seen, j), OneMore(r, one))
        BY <1>3, <3>3, BelowOneMore
      <3>5. Below(p, OneMore(seen, j))
        BY <1>3, BelowOneMore
      <3>6. k = 0 => Below(OneMore(p, one), OneMore(seen, j))
        <4>1. k = 0 => j <= one
          BY <2>3, <3>2
        <4>2. \A i \in Ages : j <= i => Below(OneMore(p, i), OneMore(seen, j))
          BY <1>3, BelowOneMore
        <4> QED  BY <4>1, <4>2
      <3>7. Below(prompt', SeenBy(z, k))
        BY <2>1, <2>3, <3>1, <3>2, <3>5, <3>6
      <3>8. Below(SeenBy(z, k), recent')
        BY <2>1, <2>3, <3>1, <3>2, <3>4
      <3> QED  BY <1>4, <2>1, <3>7, <3>8 DEF Between
    <2> QED  BY <2>4, <2>5, KernelSizes
  <1>9. CASE Restart
    <2>1. PICK zeros \in Counts : zeros = [a \in Ages |-> 0]
      <3>1. [a \in Ages |-> 0] \in Counts
        BY DEF Counts
      <3> QED  BY <3>1
    <2>2. z = [i \in 1..Slots |-> Empty] /\ lag' = 0 /\ recent' = zeros /\ prompt' = zeros
      BY <1>4, <1>9, <2>1 DEF Restart
    <2>3. z \in Rows /\ \A j \in Ages : z[j].violations = 0
      BY <2>2, EmptyRow DEF Rows, Ages
    <2>4. PICK o \in 0..Slots : o = 0
      BY KernelSizes
    <2>5. SeenBy(z, o) = zeros
      <3>1. /\ SeenBy(z, o) \in Counts
            /\ \A i \in Ages : SeenBy(z, o)[i] = (IF i <= o THEN 0 ELSE z[i - o].violations)
            /\ \A i \in Ages : i > o => i - o \in Ages
        BY <2>3, SeenSlots
      <3>2. \A i \in Ages : i > o \/ i <= o
        BY KernelSizes DEF Ages
      <3>3. \A i \in Ages : SeenBy(z, o)[i] = 0
        BY <2>3, <3>1, <3>2
      <3> QED  BY <2>1, <3>1, <3>3 DEF Counts
    <2> QED  BY <1>4, <2>2, <2>4, <2>5, BelowItself DEF Between
  <1>10. CASE Tick
    <2>1. window' = w /\ recent' = Aged(r) /\ prompt' = Aged(p)
      BY <1>1, <1>10 DEF Tick
    <2>2. PICK l \in 0..Slots : l = (IF k < Slots THEN k + 1 ELSE k)
      <3>1. (IF k < Slots THEN k + 1 ELSE k) \in 0..Slots
        BY KernelSizes
      <3> QED  BY <3>1
    <2>3. lag' = l
      BY <1>1, <1>10, <2>2 DEF Tick
    <2>4. SeenBy(w, l) = Aged(seen)
      BY <1>2, <2>2, SeenAged
    <2> QED  BY <1>3, <2>1, <2>3, <2>4, BelowAged DEF Between
  <1> QED  BY <1>5, <1>6, <1>7, <1>8, <1>9, <1>10 DEF KernelNext, Serve

(* The kernel forgets in time, however late it looks: its window counts no  *)
(* violation that has grown older than the window, and every one recorded   *)
(* within the tick in which its request began.  Up to every age, the prompt *)
(* violations are no more than what the next snapshot will count, and that  *)
(* is no more than the violations of that age.                              *)
THEOREM ViolationsAreForgottenInTime == KernelSpec => []WindowForgetsInTime
  <1>1. KernelInit => Between
    BY BetweenStarts
  <1>2. KernelInv /\ Between /\ [KernelNext]_kernel_vars => Between'
    BY BetweenKept
  <1>3. KernelInv /\ Between => WindowForgetsInTime
    <2> SUFFICES ASSUME KernelInv, Between PROVE WindowForgetsInTime
      OBVIOUS
    <2>1. PICK n \in Nat \ {0} : n = Slots
      BY KernelSizes
    <2>2. PICK w \in Rows, k \in 0..Slots : w = window /\ k = lag
      BY DEF KernelInv
    <2>3. PICK seen \in Counts : seen = SeenBy(w, k)
      BY SeenSlots
    <2>4. Total(advance(w, k), "violations") = SumFunction(seen)
      <3>1. PICK a \in Rows : a = advance(w, k)
        BY AdvancedRows
      <3>2. DOMAIN a = Ages
        BY DEF Rows, Ages
      <3>3. [i \in DOMAIN a |-> a[i]["violations"]] = seen
        BY <2>3, <3>1, <3>2 DEF SeenBy
      <3> QED  BY <3>1, <3>3 DEF Total
    <2>5. PICK p \in Counts, r \in Counts : p = prompt /\ r = recent
      BY DEF KernelInv, Counts
    <2>6. ASSUME NEW f \in Counts PROVE SumFunction(f) = UpTo(f, Slots)
      <3>1. f \in [1..n -> Nat]
        BY <2>1 DEF Counts, Ages
      <3>2. SumFunction(f) = UpTo(f, n)
        BY <3>1, UpToSteps
      <3> QED  BY <2>1, <3>2
    <2>7. UpTo(p, Slots) <= UpTo(seen, Slots) /\ UpTo(seen, Slots) <= UpTo(r, Slots)
      <3>1. Slots \in 0..Slots
        BY KernelSizes
      <3> QED  BY <2>2, <2>3, <2>5, <3>1 DEF Between, Below
    <2> QED  BY <2>2, <2>4, <2>5, <2>6, <2>7 DEF WindowForgetsInTime
  <1> QED  BY <1>1, <1>2, <1>3, KernelInvHolds, PTL DEF KernelSpec

(* The values of the two signals' curves that the proof uses.                *)
LEMMA CurvesAreRisks ==
    /\ Curve(Phi1, 0) = 0
    /\ \A k \in Nat : Curve(Phi5, k) \in 0..1000
  <1>1. Phi1[1] = 0 /\ Len(Phi1) > 0
    BY CurveAssumption DEF CurveAssumption
  <1>2. \A i \in 1..Len(Phi5) : Phi5[i] \in 0..1000
    <2>1. PICK risks : risks = 0..1000
      OBVIOUS
    <2>2. Phi5 \in Seq(risks)
      BY <2>1, CurveAssumption DEF CurveAssumption
    <2>3. \A i \in 1..Len(Phi5) : Phi5[i] \in risks
      BY <2>2
    <2> QED  BY <2>1, <2>3
  <1>3. PICK l \in Nat : l = Len(Phi5) /\ l > 0
    BY KernelSizes
  <1>4. Curve(Phi1, 0) = 0
    <2>1. 0 < Len(Phi1) /\ 0 + 1 = 1
      BY CurveAssumption DEF CurveAssumption
    <2> QED  BY <1>1, <2>1 DEF Curve
  <1>5. ASSUME NEW k \in Nat PROVE Curve(Phi5, k) \in 0..1000
    <2>1. CASE k < l
      <3>1. k + 1 \in 1..l
        BY <2>1
      <3> QED  BY <1>2, <1>3, <2>1, <3>1 DEF Curve
    <2>2. CASE ~(k < l)
      <3>1. l \in 1..l
        BY <1>3
      <3> QED  BY <1>2, <1>3, <2>2, <3>1 DEF Curve
    <2> QED  BY <2>1, <2>2
  <1> QED  BY <1>4, <1>5

(* Four signals at rest, and any staleness: 266 thousandths at most.        *)
LEMMA StalenessIsNoUnrest ==
    ASSUME NEW x, IsRisk(x), NEW s, s = <<0, 0, 0, 0, x>>
    PROVE  IsLow(aggregate(s))
  <1>1. s[1] = 0 /\ s[2] = 0 /\ s[3] = 0 /\ s[4] = 0 /\ s[5] = x
    OBVIOUS
  <1> x \in 0..1000
    BY DEF IsRisk
  <1>2. PICK a \in Nat : a = Average(s) /\ a <= 84
    <2>1. Average(s) = (5 * x) \div 60
      BY <1>1 DEF Average
    <2>2. (5 * x) \div 60 \in Nat /\ (5 * x) \div 60 <= 84
      OBVIOUS
    <2> QED  BY <2>1, <2>2
  <1>3. Worst(s) = x
    <2>1. {s[i] : i \in 1..5} = {0, x}
      <3>1. \A i \in 1..5 : i = 1 \/ i = 2 \/ i = 3 \/ i = 4 \/ i = 5
        OBVIOUS
      <3>2. \A i \in 1..5 : s[i] \in {0, x}
        BY <1>1, <3>1
      <3>3. 1 \in 1..5 /\ 5 \in 1..5
        OBVIOUS
      <3> QED  BY <1>1, <3>2, <3>3
    <2>2. Max({0, x}) = x
      <3>1. \A y \in {0, x} : x >= y
        OBVIOUS
      <3>2. \A m \in {0, x} : (\A y \in {0, x} : m >= y) => m = x
        OBVIOUS
      <3> QED  BY <3>1, <3>2 DEF Max
    <2> QED  BY <2>1, <2>2 DEF Worst
  <1>4. aggregate(s) = (8 * a + 2 * x) \div 10
    BY <1>2, <1>3 DEF aggregate
  <1>5. (8 * a + 2 * x) \div 10 \in Nat /\ (8 * a + 2 * x) \div 10 < 500
    <2>1. PICK y \in Nat : y = 8 * a + 2 * x /\ y <= 2672
      <3>1. 8 * a + 2 * x \in Nat /\ 8 * a + 2 * x <= 2672
        BY <1>2
      <3> QED  BY <3>1
    <2>2. y \div 10 \in Nat /\ y \div 10 < 500
      BY <2>1
    <2> QED  BY <2>1, <2>2
  <1> QED  BY <1>4, <1>5 DEF IsLow

(* A window without events has the one signal of its open circuits at most.  *)
LEMMA QuietSignals ==
    ASSUME NEW w \in Rows, \A i \in 1..Slots : QuietRow(w[i]), KernelInv, phi3 = 0
    PROVE  \E x : IsRisk(x) /\ Signals(w, 0) = <<0, 0, 0, 0, x>>
  <1>1. PICK n \in Nat \ {0} : n = Slots
    BY KernelSizes
  <1>2. w \in [1..n -> Row] /\ DOMAIN w = 1..n /\ \A i \in 1..n : QuietRow(w[i])
    BY <1>1 DEF Rows
  <1>3. Total(w, "violations") = 0
    <2>1. PICK f : f = [i \in 1..n |-> w[i]["violations"]]
      OBVIOUS
    <2>2. f \in [1..n -> Nat] /\ \A i \in 1..n : f[i] = 0
      BY <1>2, <2>1 DEF QuietRow
    <2>3. SumFunction(f) = 0
      BY <2>2, ZerosSumToZero
    <2> QED  BY <1>2, <2>1, <2>3 DEF Total
  <1>4. Total(w, "retries") = 0
    <2>1. PICK f : f = [i \in 1..n |-> w[i]["retries"]]
      OBVIOUS
    <2>2. f \in [1..n -> Nat] /\ \A i \in 1..n : f[i] = 0
      BY <1>2, <2>1 DEF QuietRow
    <2>3. SumFunction(f) = 0
      BY <2>2, ZerosSumToZero
    <2> QED  BY <1>2, <2>1, <2>3 DEF Total
  <1>5. PICK c \in Nat : c = Total(w, "requests")
    <2>1. PICK f : f = [i \in 1..n |-> w[i]["requests"]]
      OBVIOUS
    <2>2. f \in [1..n -> Nat]
      BY <1>2, <2>1 DEF Row
    <2>3. SumFunction(f) \in Nat
      <3>1. SumFunction(f) = UpTo(f, n) /\ \A k \in 0..n : UpTo(f, k) \in Nat
        BY <2>2, UpToSteps
      <3> QED  BY <3>1
    <2> QED  BY <1>2, <2>1, <2>3 DEF Total
  <1>6. phi4(w) = 0
    <2>1. CASE c = 0
      BY <1>5, <2>1 DEF phi4
    <2>2. CASE c # 0
      <3>1. PICK d \in Nat \ {0} : d = 3 * c
        <4>1. 3 * c \in Nat \ {0}
          BY <2>2
        <4> QED  BY <4>1
      <3>2. 1000 * 0 = 0 /\ 0 \div d = 0
        OBVIOUS
      <3>3. phi4(w) = clamp(0 \div d)
        BY <1>4, <1>5, <2>2, <3>1, <3>2 DEF phi4
      <3> QED  BY <3>2, <3>3 DEF clamp
    <2> QED  BY <2>1, <2>2
  <1>7. PICK x \in 0..1000 : x = Curve(Phi5, idle_for)
    <2>1. idle_for \in Nat
      BY KernelSizes DEF KernelInv
    <2> QED  BY <2>1, CurvesAreRisks, SMTT(30)
  <1>8. Signals(w, 0) = <<0, 0, 0, 0, x>>
    BY <1>3, <1>6, <1>7, CurvesAreRisks DEF Signals
  <1> QED  BY <1>8 DEF IsRisk

(* Nothing has happened at the beginning.                                    *)
LEMMA QuietStarts == ASSUME KernelInit PROVE QuietInv
  <1>1. \A i \in 1..Slots : QuietRow(window[i])
    BY EmptyRow DEF KernelInit, QuietRow
  <1>2. phi2 = 0 /\ phi3 = 0 /\ request.attempt = 0 /\ regime = "STABLE"
    BY DEF KernelInit, NoRequest
  <1> QED  BY <1>1, <1>2 DEF QuietInv

LEMMA QuietKept ==
    ASSUME KernelInv, KernelInv', QuietInv, [KernelNext]_kernel_vars PROVE QuietInv'
  <1> SUFFICES ASSUME ~(troubled')
               PROVE  /\ \A i \in 1..Slots : QuietRow(window'[i])
                      /\ phi2' = 0 /\ phi3' = 0 /\ request'.attempt = 0
                      /\ regime' \in {"STABLE", "PRESSURE"}
    BY DEF QuietInv
  <1>1. NoRequest.attempt = 0 /\ [NoRequest EXCEPT !.pc = "gate"].attempt = 0
    BY DEF NoRequest
  <1>2. CASE \E drift \in Drifts : Generate(drift)
    <2>1. PICK drift \in Drifts : Generate(drift)
      BY <1>2
    <2>2. ~troubled /\ ~(drift > 0) /\ ~(phi3' > 0)
      BY <2>1 DEF Generate
    <2>3. drift = 0 /\ phi3' = 0
      <3>1. drift \in 0..1000 /\ phi3' \in 0..1000
        BY KernelSizes DEF KernelInv
      <3> QED  BY <2>2, <3>1
    <2>4. (\A i \in 1..Slots : QuietRow(window[i])) /\ phi3 = 0 /\ regime \in {"STABLE", "PRESSURE"}
      BY <2>2 DEF QuietInv
    <2>5. PICK v \in Rows, k \in 0..Slots : v = window /\ k = lag
      BY DEF KernelInv
    <2>6. PICK w \in Rows : w = advance(v, k)
      BY AdvancedRows
    <2>7. \A i \in 1..Slots : QuietRow(w[i])
      <3>1. /\ \A i \in 1..Slots : w[i] = (IF i <= k THEN Empty ELSE v[i - k])
            /\ \A i \in 1..Slots : i > k => i - k \in 1..Slots
        BY <2>6, AdvancedRows
      <3>2. QuietRow(Empty)
        BY EmptyRow DEF QuietRow
      <3>3. \A i \in 1..Slots : i <= k \/ i > k
        BY KernelSizes
      <3> QED  BY <2>4, <2>5, <3>1, <3>2, <3>3
    <2>8. PICK x : IsRisk(x) /\ Signals(w, 0) = <<0, 0, 0, 0, x>>
      BY <2>4, <2>7, QuietSignals
    <2>9. PICK risk \in Nat : risk = aggregate(Signals(w, 0)) /\ risk < 500
      <3>1. IsLow(aggregate(Signals(w, 0)))
        BY <2>8, StalenessIsNoUnrest
      <3> QED  BY <3>1 DEF IsLow
    <2>10. regime' = update_regime(risk)
      BY <2>1, <2>3, <2>5, <2>6, <2>9 DEF Generate
    <2>11. update_regime(risk) \in {"STABLE", "PRESSURE"}
      <3>1. ~(risk >= 800) /\ ~(risk >= 500)
        BY <2>9
      <3> QED  BY <2>4, <3>1 DEF update_regime
    <2>12. window' = w /\ phi2' = 0
      BY <2>1, <2>3, <2>5, <2>6 DEF Generate
    <2>13. request'.attempt = 0
      BY <1>1, <2>1 DEF Generate
    <2> QED  BY <2>3, <2>7, <2>10, <2>11, <2>12, <2>13
  <1>3. CASE CheckCircuit
    <2>1. UNCHANGED <<window, phi2, phi3, regime, troubled>> /\ request.pc = "gate"
      BY <1>3 DEF CheckCircuit, histories
    <2>2. request'.attempt = 0
      <3>1. CASE open_for[request.model] > 0
        <4>1. FallBack
          BY <1>3, <3>1 DEF CheckCircuit
        <4> QED  BY <2>1, <4>1, FallsBack
      <3>2. CASE ~(open_for[request.model] > 0)
        <4>1. request' = [request EXCEPT !.pc = "calling"]
          BY <1>3, <3>2 DEF CheckCircuit
        <4>2. request \in Requests /\ request.attempt = 0
          BY <2>1 DEF KernelInv, QuietInv
        <4> QED  BY <4>1, <4>2 DEF Requests
      <3> QED  BY <3>1, <3>2
    <2> QED  BY <2>1, <2>2 DEF QuietInv
  <1>4. CASE CallSucceeds \/ CallRaises
    <2>1. UNCHANGED <<phi2, phi3, regime, troubled>> /\ Calling
      BY <1>4 DEF CallSucceeds, CallRaises, histories
    <2>2. /\ \A i \in 1..Slots : QuietRow(window[i])
          /\ phi2 = 0 /\ phi3 = 0 /\ request.attempt = 0 /\ regime \in {"STABLE", "PRESSURE"}
      BY <2>1 DEF QuietInv
    <2>3. /\ request \in Requests
          /\ window'[1].violations = window[1].violations
          /\ window'[1].retries = window[1].retries + request.attempt
          /\ \A i \in 1..Slots : i # 1 => window'[i] = window[i]
      BY <2>1, CallFits
    <2>4. 1 \in 1..Slots
      BY KernelSizes
    <2>5. \A i \in 1..Slots : QuietRow(window'[i])
      BY <2>2, <2>3, <2>4 DEF QuietRow
    <2>6. request' \in {NoRequest, [request EXCEPT !.pc = "answered"]}
      BY <1>4 DEF CallSucceeds, CallRaises
    <2>7. request'.attempt = 0
      BY <1>1, <2>2, <2>3, <2>6 DEF Requests
    <2> QED  BY <2>1, <2>2, <2>5, <2>7
  <1>5. CASE CallUnavailable \/ Violation
    BY <1>5 DEF CallUnavailable, Violation
  <1>6. CASE Answer
    <2>1. UNCHANGED <<window, phi2, phi3, regime, troubled>> /\ request' = NoRequest
      BY <1>6 DEF Answer, histories
    <2> QED  BY <1>1, <2>1 DEF QuietInv
  <1>7. CASE Restart
    <2>1. \A i \in 1..Slots : QuietRow(window'[i])
      BY <1>7, EmptyRow DEF Restart, QuietRow
    <2> QED  BY <1>1, <1>7, <2>1 DEF Restart
  <1>8. CASE Tick \/ UNCHANGED kernel_vars
    <2>1. UNCHANGED <<window, phi2, phi3, regime, request, troubled>>
      BY <1>8 DEF Tick, kernel_vars
    <2> QED  BY <2>1 DEF QuietInv
  <1> QED  BY <1>2, <1>3, <1>4, <1>5, <1>6, <1>7, <1>8 DEF KernelNext, Serve

(* Time alone never gets the kernel to shed or to halt: while no drift, no  *)
(* violation, no failing call and no open circuit has raised a risk, the    *)
(* window holds no violation and no retry, the only signal is staleness,    *)
(* and its weight is worth PRESSURE at most, whatever the curve.            *)
THEOREM QuietIsNoReasonToShed == KernelSpec => []QuietNeverSheds
  <1>1. KernelInit => QuietInv
    BY QuietStarts
  <1>2. KernelInv /\ KernelInv' /\ QuietInv /\ [KernelNext]_kernel_vars => QuietInv'
    BY QuietKept
  <1>3. QuietInv => QuietNeverSheds
    BY DEF QuietInv, QuietNeverSheds
  <1> QED  BY <1>1, <1>2, <1>3, KernelInvHolds, PTL DEF KernelSpec

(***************************************************************************)
(* The scheduler.                                                          *)
(***************************************************************************)
Pcs == {"stopped", "tick", "tasks", "hooks"}
Runs == [pc : Pcs, at : Nat, advanced : BOOLEAN, limit : Limits \cup {Never}]
Times == 0..MaxTime \cup {Never}
Returns == [time : Times, tick : 0..MaxTicks]

SchedulerTypes ==
    /\ time \in 0..MaxTime
    /\ tasks \in Seq(Tasks)
    /\ \A i, j \in 1..Len(tasks) : tasks[i] = tasks[j] => i = j
    /\ next_run_at \in [Tasks -> Nat]
    /\ stop_requested \in BOOLEAN
    /\ last_now \in Times
    /\ tick_count \in 0..MaxTicks
    /\ run \in Runs
    /\ completed \in [Tasks -> Returns]

(* A task that has returned is due an interval after the tick it returned   *)
(* in.                                                                      *)
ReturnedIn(t) ==
    /\ completed[t].time \in Nat
    /\ next_run_at[t] = completed[t].time + Interval[t]
    /\ completed[t].tick <= tick_count
    /\ \E i \in 1..Len(tasks) : tasks[i] = t
EachReturned == \A t \in Tasks : completed[t] # NotYet => ReturnedIn(t)

(* In the middle of a tick, the tasks in front have been served in it, and  *)
(* those behind have not returned in it.                                    *)
BehindIsOld ==
    \A i \in 1..Len(tasks) :
        i >= run.at /\ completed[tasks[i]] # NotYet => completed[tasks[i]].tick < tick_count
FrontIsServed ==
    run.at <= Len(tasks) \/ ~stop_requested =>
        \A i \in 1..Len(tasks) : i < run.at => Served(tasks[i])
MidTick == run.pc = "tasks" => last_now \in Nat /\ run.at > 0 /\ BehindIsOld /\ FrontIsServed

SchedulerInv == SchedulerTypes /\ EachReturned /\ MidTick

(* What the assumptions say of the constants.                                *)
LEMMA SchedulerSizes ==
    /\ Interval \in [Tasks -> Nat \ {0}] /\ Resolution \in Nat \ {0}
    /\ MaxTime \in Nat /\ MaxTicks \in Nat /\ Never \notin Nat
  BY IntervalAssumption, ResolutionAssumption, SchedulerBoundAssumption, NeverAssumption
  DEF IntervalAssumption, ResolutionAssumption, SchedulerBoundAssumption, NeverAssumption

Entry(r, pc) == [r EXCEPT !.pc = pc, !.at = 1]

(* A run enters a step at its first task.                                    *)
LEMMA Entered ==
    ASSUME NEW r \in Runs, NEW pc \in Pcs, NEW z, z = Entry(r, pc)
    PROVE  z \in Runs /\ z.pc = pc /\ z.at = 1
  <1>1. PICK y : y = [r EXCEPT !.pc = pc]
    OBVIOUS
  <1>2. y \in Runs /\ y.pc = pc
    BY <1>1 DEF Runs
  <1>3. z = [y EXCEPT !.at = 1]
    BY <1>1 DEF Entry
  <1> QED  BY <1>2, <1>3 DEF Runs

(* No run has begun at the beginning.                                        *)
LEMMA SchedulerStarts == ASSUME SchedulerInit PROVE SchedulerInv
  <1>1. NotYet \in Returns
    BY SchedulerSizes DEF NotYet, Returns, Times
  <1>2. completed \in [Tasks -> Returns] /\ \A t \in Tasks : completed[t] = NotYet
    BY <1>1 DEF SchedulerInit
  <1>3. run \in Runs /\ run.pc = "stopped"
    BY DEF SchedulerInit, NoRun, Runs, Pcs
  <1>4. next_run_at \in [Tasks -> Nat] /\ stop_requested \in BOOLEAN
    BY DEF SchedulerInit
  <1>5. time \in 0..MaxTime /\ last_now \in Times /\ tick_count \in 0..MaxTicks
    BY SchedulerSizes DEF SchedulerInit, Times
  <1>6. tasks \in Seq(Tasks) /\ Len(tasks) = 0
    BY DEF SchedulerInit
  <1>7. SchedulerTypes
    BY <1>2, <1>3, <1>4, <1>5, <1>6 DEF SchedulerTypes
  <1> QED  BY <1>2, <1>3, <1>7 DEF SchedulerInv, EachReturned, MidTick

(* Steps that return no task, are outside of a tick afterwards and leave    *)
(* the tasks as they are.                                                   *)
LEMMA OutsideATick ==
    ASSUME SchedulerInv, UNCHANGED <<tasks, next_run_at, last_now, tick_count, completed>>,
           time' \in 0..MaxTime, stop_requested' \in BOOLEAN, run' \in Runs, run'.pc # "tasks"
    PROVE  SchedulerInv'
  BY DEF SchedulerInv, SchedulerTypes, EachReturned, ReturnedIn, MidTick

LEMMA LoopKeeps ==
    ASSUME SchedulerInv,
           \/ StartRun \/ LeaveLoop \/ RefuseTick \/ TaskRaises \/ ShutdownHook \/ TimeMoves
           \/ EndTick
    PROVE  SchedulerInv'
  <1>1. run \in Runs /\ time \in 0..MaxTime /\ stop_requested \in BOOLEAN
    BY DEF SchedulerInv, SchedulerTypes
  <1>2. UNCHANGED <<tasks, next_run_at, last_now, tick_count, completed>>
    BY DEF StartRun, LeaveLoop, RefuseTick, TaskRaises, ShutdownHook, TimeMoves, EndTick
  <1>3. time' \in 0..MaxTime
    BY <1>1 DEF StartRun, LeaveLoop, RefuseTick, TaskRaises, ShutdownHook, TimeMoves, EndTick
  <1>4. stop_requested' \in BOOLEAN
    BY <1>1 DEF StartRun, LeaveLoop, RefuseTick, TaskRaises, ShutdownHook, TimeMoves, EndTick
  <1>5. NoRun \in Runs /\ NoRun.pc = "stopped"
    BY DEF NoRun, Runs, Pcs
  <1>6. run' \in Runs /\ run'.pc # "tasks"
    <2>1. CASE StartRun
      <3>1. PICK limit \in Limits : run' = [NoRun EXCEPT !.pc = "tick", !.limit = limit]
        BY <2>1 DEF StartRun
      <3>2. run' = [pc |-> "tick", at |-> 0, advanced |-> TRUE, limit |-> limit]
        BY <3>1 DEF NoRun
      <3> QED  BY <3>2 DEF Runs, Pcs
    <2>2. CASE Enter("hooks") \/ Enter("tick")
      <3>1. PICK pc \in {"hooks", "tick"} : run' = [run EXCEPT !.pc = pc, !.at = 1]
        BY <2>2 DEF Enter
      <3>2. pc \in Pcs /\ pc # "tasks"
        BY DEF Pcs
      <3>3. PICK r \in Runs : r = run
        BY <1>1
      <3>4. run' = Entry(r, pc)
        BY <3>1, <3>3 DEF Entry
      <3>5. run' \in Runs /\ run'.pc = pc
        BY <3>2, <3>4, Entered
      <3> QED  BY <3>2, <3>3, <3>5
    <2>3. CASE ShutdownHook
      <3>1. CASE run' = [run EXCEPT !.at = @ + 1]
        <4>1. run.pc = "hooks"
          BY <2>3 DEF ShutdownHook, Running
        <4> QED  BY <1>1, <3>1, <4>1 DEF Runs
      <3> QED  BY <1>5, <2>3, <3>1 DEF ShutdownHook
    <2>4. CASE TimeMoves
      BY <1>1, <2>4 DEF TimeMoves
    <2> QED  BY <2>1, <2>2, <2>3, <2>4 DEF LeaveLoop, RefuseTick, TaskRaises, EndTick
  <1> QED  BY <1>2, <1>3, <1>4, <1>6, OutsideATick

LEMMA RegisterKeeps == ASSUME SchedulerInv, NEW t \in Tasks, RegisterTask(t) PROVE SchedulerInv'
  <1>1. /\ run.pc = "stopped" /\ ~Contains(tasks, t) /\ tasks' = Append(tasks, t)
        /\ next_run_at' = [next_run_at EXCEPT ![t] = time]
        /\ UNCHANGED <<time, stop_requested, last_now, tick_count, run, completed>>
    BY DEF RegisterTask, Running
  <1>2. SchedulerTypes /\ EachReturned
    BY DEF SchedulerInv
  <1>3. PICK n \in Nat : n = Len(tasks)
    BY <1>2 DEF SchedulerTypes
  <1>4. tasks \in Seq(Tasks) /\ \A i \in 1..n : tasks[i] # t
    BY <1>1, <1>2, <1>3 DEF SchedulerTypes, Contains
  <1>5. /\ tasks' \in Seq(Tasks) /\ Len(tasks') = n + 1 /\ tasks'[n + 1] = t
        /\ \A i \in 1..n : tasks'[i] = tasks[i]
    BY <1>1, <1>3, <1>4
  <1>6. ASSUME NEW i \in 1..(n + 1), NEW j \in 1..(n + 1), tasks'[i] = tasks'[j] PROVE i = j
    <2>1. \A k \in 1..(n + 1) : k \in 1..n \/ k = n + 1
      OBVIOUS
    <2>2. \A k, l \in 1..n : tasks[k] = tasks[l] => k = l
      BY <1>2, <1>3 DEF SchedulerTypes
    <2>3. CASE i \in 1..n /\ j \in 1..n
      BY <1>5, <1>6, <2>2, <2>3
    <2>4. CASE i = n + 1 /\ j \in 1..n
      BY <1>4, <1>5, <1>6, <2>4
    <2>5. CASE i \in 1..n /\ j = n + 1
      BY <1>4, <1>5, <1>6, <2>5
    <2>6. CASE i = n + 1 /\ j = n + 1
      BY <2>6
    <2> QED  BY <2>1, <2>3, <2>4, <2>5, <2>6
  <1>7. next_run_at' \in [Tasks -> Nat]
    <2>1. next_run_at \in [Tasks -> Nat] /\ time \in Nat
      BY <1>2, SchedulerSizes DEF SchedulerTypes
    <2> QED  BY <1>1, <2>1
  <1>8. SchedulerTypes'
    BY <1>1, <1>2, <1>5, <1>6, <1>7 DEF SchedulerTypes
  <1>9. ASSUME NEW u \in Tasks, completed'[u] # NotYet PROVE ReturnedIn(u)'
    <2>1. ReturnedIn(u)
      BY <1>1, <1>2, <1>9 DEF EachReturned
    <2>2. PICK i \in 1..n : tasks[i] = u
      BY <1>3, <2>1 DEF ReturnedIn
    <2>3. u # t
      BY <1>4, <2>2
    <2>4. next_run_at'[u] = next_run_at[u]
      BY <1>1, <1>2, <2>3 DEF SchedulerTypes
    <2>5. i \in 1..(n + 1) /\ tasks'[i] = u
      BY <1>5, <2>2
    <2> QED  BY <1>1, <1>5, <2>1, <2>4, <2>5 DEF ReturnedIn
  <1>10. MidTick'
    BY <1>1 DEF MidTick
  <1> QED  BY <1>8, <1>9, <1>10 DEF SchedulerInv, EachReturned

LEMMA StopKeeps == ASSUME SchedulerInv, RequestStop PROVE SchedulerInv'
  <1>1. /\ stop_requested' = TRUE
        /\ UNCHANGED <<time, tasks, next_run_at, last_now, tick_count, run, completed>>
    BY DEF RequestStop
  <1>2. SchedulerTypes'
    BY <1>1 DEF SchedulerInv, SchedulerTypes
  <1>3. EachReturned'
    BY <1>1 DEF SchedulerInv, EachReturned, ReturnedIn
  <1>4. MidTick'
    BY <1>1 DEF SchedulerInv, MidTick, BehindIsOld, FrontIsServed, Served
  <1> QED  BY <1>2, <1>3, <1>4 DEF SchedulerInv

LEMMA BeginTickKeeps == ASSUME SchedulerInv, BeginTick PROVE SchedulerInv'
  <1>1. /\ tick_count < MaxTicks /\ tick_count' = tick_count + 1 /\ last_now' = time
        /\ UNCHANGED <<time, tasks, next_run_at, stop_requested, completed>>
    BY DEF BeginTick
  <1>2. SchedulerTypes /\ EachReturned
    BY DEF SchedulerInv
  <1>3. PICK b \in BOOLEAN :
             run' = [run EXCEPT !.pc = "tasks", !.at = 1, !.advanced = b]
    <2>1. (last_now = Never \/ time > last_now) \in BOOLEAN
      OBVIOUS
    <2> QED  BY <2>1 DEF BeginTick
  <1>4. run' \in Runs /\ run'.pc = "tasks" /\ run'.at = 1
    <2>1. PICK r \in Runs : r = run
      BY <1>2 DEF SchedulerTypes
    <2>2. PICK y : y = Entry(r, "tasks")
      OBVIOUS
    <2>3. y \in Runs /\ y.pc = "tasks" /\ y.at = 1
      <3>1. PICK pc \in Pcs : pc = "tasks"
        BY DEF Pcs
      <3>2. y = Entry(r, pc)
        BY <2>2, <3>1
      <3> QED  BY <3>1, <3>2, Entered
    <2>4. run' = [y EXCEPT !.advanced = b]
      BY <1>3, <2>1, <2>2 DEF Entry
    <2> QED  BY <2>3, <2>4 DEF Runs
  <1>5. last_now' \in Nat /\ last_now' \in Times /\ tick_count' \in 0..MaxTicks /\ tick_count \in Nat
    BY <1>1, <1>2, SchedulerSizes DEF SchedulerTypes, Times
  <1>6. SchedulerTypes'
    BY <1>1, <1>2, <1>4, <1>5 DEF SchedulerTypes
  <1>7. \A t \in Tasks : completed[t] # NotYet => completed[t].tick \in Nat
    BY <1>2, SchedulerSizes DEF SchedulerTypes, Returns
  <1>8. \A t \in Tasks : completed[t] # NotYet => completed[t].tick < tick_count + 1
    BY <1>2, <1>5, <1>7 DEF EachReturned, ReturnedIn
  <1>9. EachReturned'
    <2> SUFFICES ASSUME NEW t \in Tasks, completed[t] # NotYet PROVE ReturnedIn(t)'
      BY <1>1 DEF EachReturned
    <2>1. ReturnedIn(t)
      BY <1>2 DEF EachReturned
    <2>2. completed[t].tick <= tick_count + 1
      BY <1>5, <1>7, <1>8
    <2> QED  BY <1>1, <2>1, <2>2 DEF ReturnedIn
  <1>10. \A i \in 1..Len(tasks) : tasks[i] \in Tasks
    BY <1>2 DEF SchedulerTypes
  <1>11. BehindIsOld'
    BY <1>1, <1>8, <1>10 DEF BehindIsOld
  <1>12. FrontIsServed'
    <2>1. \A i \in 1..Len(tasks) : ~(i < 1)
      OBVIOUS
    <2> QED  BY <1>1, <1>4, <2>1 DEF FrontIsServed
  <1> QED  BY <1>4, <1>5, <1>6, <1>9, <1>11, <1>12 DEF SchedulerInv, MidTick

LEMMA SkipKeeps == ASSUME SchedulerInv, SkipTask PROVE SchedulerInv'
  <1>1. /\ run.pc = "tasks" /\ run.at <= Len(tasks) /\ ~Due(tasks[run.at])
        /\ run' = [run EXCEPT !.at = @ + 1]
        /\ UNCHANGED <<time, tasks, next_run_at, stop_requested, last_now, tick_count, completed>>
    BY DEF SkipTask, Running, Current
  <1>2. SchedulerTypes /\ EachReturned /\ last_now \in Nat /\ run.at > 0 /\ BehindIsOld /\ FrontIsServed
    BY <1>1 DEF SchedulerInv, MidTick
  <1>3. PICK n \in Nat, k \in Nat : n = Len(tasks) /\ k = run.at /\ 0 < k /\ k <= n
    <2>1. Len(tasks) \in Nat /\ run \in Runs
      BY <1>2 DEF SchedulerTypes
    <2>2. run.at \in Nat
      BY <2>1 DEF Runs
    <2> QED  BY <1>1, <1>2, <2>1, <2>2
  <1>4. run' \in Runs /\ run'.pc = "tasks" /\ run'.at = k + 1
    <2>1. PICK r \in Runs : r = run
      BY <1>2 DEF SchedulerTypes
    <2>2. run' = [r EXCEPT !.at = k + 1] /\ r.pc = "tasks" /\ k + 1 \in Nat
      BY <1>1, <1>3, <2>1
    <2> QED  BY <2>1, <2>2 DEF Runs
  <1>5. SchedulerTypes'
    BY <1>1, <1>2, <1>4 DEF SchedulerTypes
  <1>6. EachReturned'
    BY <1>1, <1>2 DEF EachReturned, ReturnedIn
  <1>7. BehindIsOld'
    <2>1. \A i \in 1..n : i >= k + 1 => i >= k
      OBVIOUS
    <2> QED  BY <1>1, <1>2, <1>3, <1>4, <2>1 DEF BehindIsOld
  <1>8. Served(tasks[k])
    <2>1. ~(last_now >= next_run_at[tasks[k]])
      BY <1>1, <1>3 DEF Due
    <2>2. tasks[k] \in Tasks
      BY <1>2, <1>3 DEF SchedulerTypes
    <2>3. next_run_at[tasks[k]] \in Nat
      BY <1>2, <2>2 DEF SchedulerTypes
    <2> QED  BY <1>2, <2>1, <2>3 DEF Served
  <1>9. \A i \in 1..n : i < k + 1 => Served(tasks[i])
    <2>1. \A i \in 1..n : i < k + 1 => i < k \/ i = k
      OBVIOUS
    <2>2. \A i \in 1..n : i < k => Served(tasks[i])
      BY <1>2, <1>3 DEF FrontIsServed
    <2> QED  BY <1>8, <2>1, <2>2
  <1>10. FrontIsServed'
    BY <1>1, <1>3, <1>4, <1>9 DEF FrontIsServed, Served
  <1>11. k + 1 > 0
    OBVIOUS
  <1> QED  BY <1>1, <1>2, <1>4, <1>5, <1>6, <1>7, <1>10, <1>11 DEF SchedulerInv, MidTick

(* A task that returns is due an interval after this tick, and only then.   *)
LEMMA ExecuteKeeps ==
    ASSUME SchedulerInv, ExecuteTask
    PROVE  /\ SchedulerInv'
           /\ \A t \in Tasks : completed'[t] # completed[t] =>
                /\ t = tasks[run.at] /\ run.pc = "tasks" /\ run.at \in 1..Len(tasks)
                /\ completed'[t].tick = tick_count /\ completed'[t].time = last_now
                /\ Due(t)
  <1>1. /\ run.pc = "tasks" /\ run.at <= Len(tasks) /\ Due(tasks[run.at])
        /\ \E asks \in BOOLEAN : stop_requested' = (stop_requested \/ asks)
        /\ next_run_at' = [next_run_at EXCEPT ![tasks[run.at]] = last_now + Interval[tasks[run.at]]]
        /\ completed' = [completed EXCEPT ![tasks[run.at]] = [time |-> last_now, tick |-> tick_count]]
        /\ run' = [run EXCEPT !.at = IF stop_requested' THEN Len(tasks) + 1 ELSE @ + 1]
        /\ UNCHANGED <<time, tasks, last_now, tick_count>>
    BY DEF ExecuteTask, TaskReturns, Running, Current
  <1>2. SchedulerTypes /\ EachReturned /\ last_now \in Nat /\ run.at > 0 /\ BehindIsOld /\ FrontIsServed
    BY <1>1 DEF SchedulerInv, MidTick
  <1>3. PICK n \in Nat, k \in Nat : n = Len(tasks) /\ k = run.at /\ 0 < k /\ k <= n
    BY <1>1, <1>2, SMTT(30) DEF SchedulerTypes, Runs
  <1>4. k \in 1..n
    BY <1>3
  <1>5. PICK t \in Tasks : t = tasks[k]
    BY <1>2, <1>3, <1>4 DEF SchedulerTypes
  <1>6. PICK due \in Nat, step \in Nat \ {0} : due = last_now /\ step = Interval[t]
    BY <1>2, SchedulerSizes
  <1>7. PICK at \in Nat : at = (IF stop_requested' THEN n + 1 ELSE k + 1)
    <2>1. (IF stop_requested' THEN n + 1 ELSE k + 1) \in Nat
      OBVIOUS
    <2> QED  BY <2>1
  <1>8. run' = [run EXCEPT !.at = at]
    BY <1>1, <1>3, <1>7
  <1>9. run' \in Runs /\ run'.pc = "tasks" /\ run'.at = at
    BY <1>1, <1>2, <1>8 DEF SchedulerTypes, Runs
  <1>10. stop_requested' \in BOOLEAN /\ (~(stop_requested') => ~stop_requested)
    BY <1>1, <1>2 DEF SchedulerTypes
  <1>11. next_run_at' = [next_run_at EXCEPT ![t] = due + step]
    BY <1>1, <1>3, <1>5, <1>6
  <1>12. /\ next_run_at' \in [Tasks -> Nat] /\ next_run_at'[t] = due + step
         /\ \A u \in Tasks : u # t => next_run_at'[u] = next_run_at[u]
    BY <1>2, <1>11 DEF SchedulerTypes
  <1>13. PICK c \in Returns : c = [time |-> due, tick |-> tick_count]
    <2>1. [time |-> due, tick |-> tick_count] \in Returns
      BY <1>2, <1>6 DEF SchedulerTypes, Returns
    <2> QED  BY <2>1
  <1>14. completed' = [completed EXCEPT ![t] = c]
    BY <1>1, <1>3, <1>5, <1>6, <1>13
  <1>15. /\ completed' \in [Tasks -> Returns] /\ completed'[t] = c
         /\ \A u \in Tasks : u # t => completed'[u] = completed[u]
    BY <1>2, <1>14 DEF SchedulerTypes
  <1>16. c.time = due /\ c.tick = tick_count
    BY <1>13
  <1>17. SchedulerTypes'
    BY <1>1, <1>2, <1>9, <1>10, <1>12, <1>15 DEF SchedulerTypes
  <1>18. ASSUME NEW u \in Tasks, completed'[u] # NotYet PROVE ReturnedIn(u)'
    <2>1. CASE u = t
      <3>1. tick_count \in Nat
        BY <1>2, SchedulerSizes DEF SchedulerTypes
      <3>2. c.tick <= tick_count
        BY <1>16, <3>1
      <3> QED  BY <1>1, <1>3, <1>4, <1>5, <1>6, <1>12, <1>15, <1>16, <2>1, <3>2 DEF ReturnedIn
    <2>2. CASE u # t
      <3>1. ReturnedIn(u)
        BY <1>2, <1>15, <1>18, <2>2 DEF EachReturned
      <3> QED  BY <1>1, <1>12, <1>15, <2>2, <3>1 DEF ReturnedIn
    <2> QED  BY <2>1, <2>2
  <1>19. \A i \in 1..n : i # k => tasks[i] # t /\ tasks[i] \in Tasks
    BY <1>2, <1>3, <1>4, <1>5 DEF SchedulerTypes
  <1>20. BehindIsOld'
    <2> SUFFICES ASSUME NEW i \in 1..n, i >= at, completed'[tasks[i]] # NotYet
                 PROVE  completed'[tasks[i]].tick < tick_count
      BY <1>1, <1>3, <1>9 DEF BehindIsOld
    <2>1. i # k /\ i >= k
      BY <1>4, <1>7
    <2>2. completed'[tasks[i]] = completed[tasks[i]]
      BY <1>15, <1>19, <2>1
    <2> QED  BY <1>2, <1>3, <2>1, <2>2 DEF BehindIsOld
  <1>21. FrontIsServed'
    <2> SUFFICES ASSUME at <= n \/ ~(stop_requested'), NEW i \in 1..n, i < at
                 PROVE  next_run_at'[tasks[i]] > last_now
      BY <1>1, <1>3, <1>9 DEF FrontIsServed, Served
    <2>1. ~(stop_requested') /\ at = k + 1
      BY <1>7
    <2>2. CASE i = k
      BY <1>3, <1>5, <1>6, <1>12, <2>2
    <2>3. CASE i # k
      <3>1. i < k
        BY <2>1, <2>3
      <3>2. Served(tasks[i])
        BY <1>2, <1>3, <3>1 DEF FrontIsServed
      <3> QED  BY <1>12, <1>19, <2>3, <3>2 DEF Served
    <2> QED  BY <2>2, <2>3
  <1>22. at > 0
    BY <1>7
  <1>23. SchedulerInv'
    BY <1>1, <1>2, <1>9, <1>17, <1>18, <1>20, <1>21, <1>22 DEF SchedulerInv, EachReturned, MidTick
  <1>24. Due(t)
    BY <1>1, <1>3, <1>5
  <1> QED
    BY <1>1, <1>3, <1>4, <1>5, <1>6, <1>15, <1>16, <1>23, <1>24

LEMMA SchedulerInvKept == ASSUME SchedulerInv, [SchedulerNext]_scheduler_vars PROVE SchedulerInv'
  <1>1. CASE \E t \in Tasks : RegisterTask(t)
    BY <1>1, RegisterKeeps
  <1>2. CASE \/ StartRun \/ LeaveLoop \/ RefuseTick \/ TaskRaises \/ ShutdownHook \/ TimeMoves
             \/ EndTick
    BY <1>2, LoopKeeps
  <1>3. CASE BeginTick
    BY <1>3, BeginTickKeeps
  <1>4. CASE SkipTask
    BY <1>4, SkipKeeps
  <1>5. CASE ExecuteTask
    BY <1>5, ExecuteKeeps
  <1>6. CASE RequestStop
    BY <1>6, StopKeeps
  <1>7. CASE UNCHANGED scheduler_vars
    BY <1>7 DEF scheduler_vars, SchedulerInv, SchedulerTypes, EachReturned, ReturnedIn, MidTick,
                BehindIsOld, FrontIsServed, Served
  <1> QED  BY <1>1, <1>2, <1>3, <1>4, <1>5, <1>6, <1>7 DEF SchedulerNext

LEMMA SchedulerInvHolds == SchedulerSpec => []SchedulerInv
  <1>1. SchedulerInit => SchedulerInv
    BY SchedulerStarts
  <1>2. SchedulerInv /\ [SchedulerNext]_scheduler_vars => SchedulerInv'
    BY SchedulerInvKept
  <1> QED  BY <1>1, <1>2, PTL DEF SchedulerSpec

(* The clock's attributes keep their types, across any number of runs.      *)
THEOREM SchedulerTypesHold == SchedulerSpec => []SchedulerTypeOK
  <1>1. SchedulerInv => SchedulerTypeOK
    BY DEF SchedulerInv, SchedulerTypes, SchedulerTypeOK, Runs, Pcs, Returns, Times
  <1> QED  BY <1>1, SchedulerInvHolds, PTL

ScheduleStep ==
    /\ \A t \in Tasks : completed'[t] # completed[t] =>
         /\ completed[t] # NotYet =>
              /\ completed'[t].tick > completed[t].tick
              /\ \/ completed'[t].time - completed[t].time >= Interval[t]
                 \/ ~run.advanced /\ Interval[t] <= Resolution
         /\ \A i \in 1..(run.at - 1) : Served(tasks[i])
    /\ Running("tasks") /\ run'.pc = "tick" /\ ~stop_requested =>
         \A t \in ToSet(tasks) : Served(t)

(* A step of the clock is a step of the schedule or none of it.              *)
LEMMA ScheduleStepHolds ==
    ASSUME SchedulerInv, [SchedulerNext]_scheduler_vars PROVE ScheduleStep
  <1>1. SchedulerTypes /\ EachReturned /\ MidTick
    BY DEF SchedulerInv
  <1>2. ASSUME NEW t \in Tasks, completed'[t] # completed[t]
        PROVE  /\ completed[t] # NotYet =>
                    /\ completed'[t].tick > completed[t].tick
                    /\ \/ completed'[t].time - completed[t].time >= Interval[t]
                       \/ ~run.advanced /\ Interval[t] <= Resolution
               /\ \A i \in 1..(run.at - 1) : Served(tasks[i])
    <2>1. ExecuteTask
      BY <1>2 DEF SchedulerNext, RegisterTask, StartRun, LeaveLoop, RefuseTick, BeginTick, SkipTask,
                  TaskRaises, EndTick, ShutdownHook, RequestStop, TimeMoves, scheduler_vars
    <2>2. /\ t = tasks[run.at] /\ run.pc = "tasks" /\ run.at \in 1..Len(tasks)
          /\ completed'[t].tick = tick_count /\ completed'[t].time = last_now
          /\ Due(t)
      BY <1>2, <2>1, ExecuteKeeps
    <2>3. last_now \in Nat /\ BehindIsOld /\ FrontIsServed
      BY <1>1, <2>2 DEF MidTick
    <2>4. PICK n \in Nat : n = Len(tasks)
      BY <1>1 DEF SchedulerTypes
    <2>5. PICK k \in 1..n : k = run.at
      BY <2>2, <2>4
    <2>6. ASSUME completed[t] # NotYet
          PROVE  /\ completed'[t].tick > completed[t].tick
                 /\ \/ completed'[t].time - completed[t].time >= Interval[t]
                    \/ ~run.advanced /\ Interval[t] <= Resolution
      <3>1. completed[t].tick < tick_count
        <4>1. k >= k
          OBVIOUS
        <4> QED  BY <2>2, <2>3, <2>4, <2>5, <2>6, <4>1 DEF BehindIsOld
      <3>2. completed[t].time \in Nat /\ next_run_at[t] = completed[t].time + Interval[t]
        BY <1>1, <2>6 DEF EachReturned, ReturnedIn
      <3>3. PICK now \in Nat, before \in Nat, step \in Nat :
                 now = last_now /\ before = completed[t].time /\ step = Interval[t]
        BY <2>3, <3>2, SchedulerSizes
      <3>4. now >= before + step => now - before >= step
        OBVIOUS
      <3>5. completed'[t].tick > completed[t].tick
        BY <2>2, <3>1
      <3> QED  BY <2>2, <3>2, <3>3, <3>4, <3>5 DEF Due
    <2>7. ASSUME NEW i \in 1..(run.at - 1) PROVE Served(tasks[i])
      <3>1. i \in 1..n /\ i < k /\ k <= n
        BY <2>5
      <3> QED  BY <2>3, <2>4, <2>5, <3>1 DEF FrontIsServed
    <2> QED  BY <2>6, <2>7
  <1>3. ASSUME Running("tasks"), run'.pc = "tick", ~stop_requested, NEW t \in ToSet(tasks)
        PROVE  Served(t)
    <2>1. run.pc = "tasks" /\ run \in Runs
      BY <1>1, <1>3 DEF Running, SchedulerTypes
    <2>2. EndTick
      <3>1. CASE SkipTask
        BY <1>3, <2>1, <3>1 DEF SkipTask, Runs
      <3>2. CASE ExecuteTask
        <4>1. \E at : run' = [run EXCEPT !.at = at]
          BY <3>2 DEF ExecuteTask, TaskReturns
        <4> QED  BY <1>3, <2>1, <4>1 DEF Runs
      <3>3. CASE TaskRaises
        <4>1. run' = [run EXCEPT !.pc = "hooks", !.at = 1]
          BY <3>3 DEF TaskRaises, Enter
        <4> QED  BY <1>3, <2>1, <4>1 DEF Runs
      <3>4. CASE RequestStop \/ TimeMoves \/ (\E u \in Tasks : RegisterTask(u)) \/ UNCHANGED scheduler_vars
        BY <1>3, <2>1, <3>4 DEF RequestStop, TimeMoves, RegisterTask, scheduler_vars
      <3> QED  BY <2>1, <3>1, <3>2, <3>3, <3>4
               DEF SchedulerNext, StartRun, LeaveLoop, RefuseTick, BeginTick, ShutdownHook, Running
    <2>3. run.at > Len(tasks) /\ FrontIsServed
      BY <1>1, <2>1, <2>2 DEF EndTick, MidTick
    <2>4. PICK i \in 1..Len(tasks) : tasks[i] = t
      BY <1>1, <1>3 DEF ToSet, SchedulerTypes
    <2>5. i < run.at
      <3>1. Len(tasks) \in Nat /\ run.at \in Nat
        BY <1>1, <2>1 DEF SchedulerTypes, Runs
      <3> QED  BY <2>3, <3>1
    <2> QED  BY <1>3, <2>3, <2>4, <2>5 DEF FrontIsServed
  <1> QED  BY <1>2, <1>3 DEF ScheduleStep

(* The promises of the clock's docstring, over runs that are stopped,       *)
(* interrupted, refused and started again: a task returns an interval after *)
(* it returned before, in a later tick, in the order of registration, and   *)
(* no tick that goes on leaves a task behind.                               *)
THEOREM TasksKeepTheSchedule == SchedulerSpec => ScheduleIsKept
  <1>1. SchedulerInv /\ [SchedulerNext]_scheduler_vars => [ScheduleStep]_scheduler_vars
    BY ScheduleStepHolds
  <1> QED  BY <1>1, SchedulerInvHolds, PTL DEF SchedulerSpec, ScheduleIsKept, ScheduleStep

(***************************************************************************)
(* Side by side.  Nothing is shared between the governed commands and the  *)
(* daemons on the one hand, the kernel and the scheduler on the other; and *)
(* the clock starts on whatever file earlier commands have left.           *)
(***************************************************************************)
PlaneInv == GovernorInv /\ IdleHoldsNothing /\ ClockInv /\ StaleIsSomebodys

LEMMA PlaneStarts == ASSUME Init, 2 <= MaxIssued PROVE PlaneInv
  <1>1. PICK s \in State : DaemonStart(s)
    <2>1. 0 \in 0..MaxIssued /\ 1 \in 0..MaxIssued /\ 2 \in 0..MaxIssued
      BY IssuedAssumption
    <2>2. \A enabled \in BOOLEAN, token \in 0..MaxIssued : Left(enabled, token) \in State
      BY <2>1, ConstantsTyped, TickAssumption DEF Left, State
    <2> QED  BY <2>1, <2>2, ConstantsTyped DEF Init, DaemonInit
  <1>2. GovernorInv /\ IdleHoldsNothing
    BY <1>1, GovernorStartInv DEF DaemonStart
  <1> QED  BY <1>1, <1>2, ClockStartInv, LockStarts DEF PlaneInv

(* What a step of the control plane is for each of its parts.  A command is *)
(* no step of the clock, even where a daemon's process runs it.             *)
LEMMA PlaneStep ==
    ASSUME PlaneInv, [Next]_vars
    PROVE  /\ [GovernorNext]_gov_vars
           /\ [DaemonNext]_daemon_vars \/ UNCHANGED clock_vars
  <1>1. CASE (part = "clock" /\ ClockNext) \/ UNCHANGED daemon_vars
    <2>1. [DaemonNext]_daemon_vars
      BY <1>1 DEF DaemonNext
    <2> QED  BY <2>1, DaemonStepIsGovernors DEF PlaneInv, GovernorInv
  <1>2. CASE part = "governor" /\ GovernorNext /\ UNCHANGED clock_vars
    BY <1>2
  <1> QED  BY <1>1, <1>2 DEF Next, vars, daemon_vars

LEMMA PlaneInvStep == PlaneInv /\ [Next]_vars => PlaneInv'
  <1> SUFFICES ASSUME PlaneInv, [Next]_vars PROVE PlaneInv'
    OBVIOUS
  <1> USE DEF PlaneInv
  <1>1. GovernorInv' /\ IdleHoldsNothing'
    BY PlaneStep, GovernorStepInv, IdleHoldsNothingStep DEF GovernorInv
  <1>2. CASE [DaemonNext]_daemon_vars
    BY <1>1, <1>2, ClockTypeStep, LockStep, RequestStep, ReportStep, StaleStep DEF ClockInv
  <1>3. CASE UNCHANGED clock_vars
    <2>1. ClockInv'
      BY <1>3 DEF clock_vars, ClockInv, ClockTypeOK, LockNamesTheOneInside, RequestsAreOfTicks, ReportsAgree,
               Agrees, Inside, At
    <2>2. StaleIsSomebodys'
      BY <1>3 DEF clock_vars, StaleIsSomebodys
    <2> QED  BY <1>1, <2>1, <2>2
  <1> QED  BY <1>2, <1>3, PlaneStep

LEMMA PlaneInvariant == ASSUME 2 <= MaxIssued PROVE Spec => []PlaneInv
  <1>1. Init => PlaneInv
    BY PlaneStarts
  <1> QED  BY <1>1, PlaneInvStep, PTL DEF Spec

(* The kernel (coherence_kernel.py) and the scheduler (core/clock) keep     *)
(* their own specifications beside the commands and the daemons.            *)
THEOREM PartsKeepTheirSpecs == Spec => KernelSpec /\ SchedulerSpec
  <1>1. Init => KernelInit /\ SchedulerInit
    BY DEF Init
  <1>2. [Next]_vars => [KernelNext]_kernel_vars /\ [SchedulerNext]_scheduler_vars
    BY DEF Next, vars
  <1> QED  BY <1>1, <1>2, PTL DEF Spec, KernelSpec, SchedulerSpec

(* State files, copies, locks, reports, window and schedule hold values of  *)
(* the kind the code writes, in every part and on every file the governed   *)
(* commands left before the clock started.                                  *)
THEOREM ControlPlaneTypes == ASSUME 2 <= MaxIssued PROVE Spec => []TypeOK
  <1>1. PlaneInv => DaemonTypeOK
    BY DEF PlaneInv, GovernorInv, ClockInv, ClockTypeOK, DaemonTypeOK, TickJob, Reports
  <1>2. DaemonTypeOK /\ KernelTypeOK /\ SchedulerTypeOK => TypeOK
    BY DEF TypeOK
  <1> QED  BY <1>1, <1>2, PlaneInvariant, PartsKeepTheirSpecs, KernelTypesHold, SchedulerTypesHold, PTL

(* The promises of the governor (activation_governor.py) and of the daemons *)
(* (clock.py) hold as well on a file that earlier commands left, an unused  *)
(* override in it included: DaemonSpec starts without one.                  *)
THEOREM ControlPlaneKeepsItsPromises ==
    ASSUME 2 <= MaxIssued
    PROVE  Spec => /\ [](SpentStaysSpent /\ TicksExclude /\ SuccessLeavesOneRecord)
                   /\ ImplementsTickLock
  <1>1. PlaneInv => SpentStaysSpent
    BY DEF PlaneInv, GovernorInv
  <1>2. PlaneInv => TicksExclude /\ SuccessLeavesOneRecord
    BY ClockConsequences DEF PlaneInv
  <1>3. Init => Lock!Init
    <2>1. Init => \E s : DaemonStart(s)
      BY DEF Init, DaemonInit
    <2> QED  BY <2>1, LockStarts
  <1>4. PlaneInv /\ [Next]_vars => [Lock!Next]_<<Holder, Working, takeovers>>
    <2> SUFFICES ASSUME PlaneInv, [Next]_vars PROVE [Lock!Next]_<<Holder, Working, takeovers>>
      OBVIOUS
    <2>1. CASE [DaemonNext]_daemon_vars
      BY <2>1, TickLockStep DEF PlaneInv, ClockInv
    <2>2. CASE UNCHANGED clock_vars
      BY <2>2, LockRests DEF clock_vars, Inside
    <2> QED  BY <2>1, <2>2, PlaneStep
  <1> QED  BY <1>1, <1>2, <1>3, <1>4, PlaneInvariant, PTL DEF Spec, ImplementsTickLock, Lock!Spec
===============================================================================
