--------------------- MODULE AutomationScheduler_proofs ---------------------
(***************************************************************************)
(* Proofs, for every set of accounts, any number of schedules and every    *)
(* bound, of the safety properties that the run of MCAutomationScheduler   *)
(* checks on one account with two schedules.                               *)
(***************************************************************************)
EXTENDS AutomationScheduler, TLAPS

(* What an account, a schedule and the thread are, by name.                *)
Working == {"clear", "apply", "mark"}

-----------------------------------------------------------------------------
(* Where the thread goes.                                                  *)
LEMMA ToThread ==
  ASSUME thread \in ThreadState, NEW pc \in ThreadPcs \ {"reconcile"}, To(pc)
  PROVE  /\ thread' \in ThreadState
         /\ thread'.pc = pc
         /\ pc \in Working => cur' = cur
         /\ pc \notin Working => cur' = NoSchedule
<1>1. Idle \in ThreadState /\ Idle.pc = "idle" /\ Idle.cur = NoSchedule
  BY SchedulerAssumption DEF Idle, ThreadState, ThreadPcs
<1>2. CASE pc = "idle"
  BY <1>1, <1>2 DEF To, Working, cur
<1>3. CASE pc = "claim"
  BY <1>3 DEF To, Working, cur, ThreadState, ThreadPcs
<1>4. CASE pc \in Working
  BY <1>4 DEF To, Working, cur, ThreadState, ThreadPcs
<1> QED
  BY <1>2, <1>3, <1>4 DEF ThreadPcs, Working

(* A status write gives its account no scheduled session.                  *)
LEMMA SetAccountType ==
  ASSUME TypeOK, NEW a \in Accounts, NEW on \in BOOLEAN, NEW bad \in BOOLEAN,
         SetAccount(a, on, bad)
  PROVE  /\ enabled' \in [Accounts -> BOOLEAN] /\ rejected' \in [Accounts -> BOOLEAN]
         /\ marker' \in [Accounts -> Schedules \cup {NoSchedule}]
         /\ \A s \in Schedules : marker'[AccountOf[s]] = s => marker[AccountOf[s]] = s
<1>1. \A s \in Schedules : s # NoSchedule /\ AccountOf[s] \in Accounts
  BY SchedulerAssumption DEF Schedules, NoSchedule
<1> QED
  BY <1>1 DEF TypeOK, SetAccount

LEMMA SchedulerInit == Init => SchedulerInvariant
<1> SUFFICES ASSUME Init PROVE SchedulerInvariant
  OBVIOUS
<1>1. thread \in ThreadState /\ thread.pc = "idle" /\ thread.cur = NoSchedule
  BY SchedulerAssumption DEF Init, Idle, ThreadState, ThreadPcs
<1>2. \A s \in Schedules : s # NoSchedule /\ AccountOf[s] \in Accounts
  BY SchedulerAssumption DEF Schedules, NoSchedule
<1>3. TypeOK
  BY <1>1, SchedulerAssumption DEF Init, TypeOK, Statuses, Policies
<1> QED
  BY <1>1, <1>2, <1>3 DEF Init, SchedulerInvariant, StartedOnce, ClaimHasNoSession,
     MarkerStarted, ClaimInService, WorkedOnExists, cur

-----------------------------------------------------------------------------
(* Types. The trader, the worker and time.                                 *)
LEMMA TypeEnvironment ==
  ASSUME TypeOK,
         \/ \E s \in Schedules : \/ create_automation_schedule(s)
                                 \/ cancel_automation_schedule(s) \/ ClaimExpires(s)
         \/ \E a \in Accounts : \/ Start(a) \/ Stop(a) \/ WorkerStatus(a)
                                \/ BuySent(a) \/ BuyAnswered(a) \/ Settled(a)
         \/ TimePasses \/ Restart
  PROVE  TypeOK'
<1>1. ASSUME NEW s \in Schedules, create_automation_schedule(s) PROVE TypeOK'
  <2>1. status' \in [Schedules -> Statuses] /\ policy' \in [Schedules -> Policies]
    BY <1>1 DEF TypeOK, create_automation_schedule, Statuses, Due
  <2>2. expired' \subseteq {t \in Schedules : status'[t] = "starting"}
    BY <1>1 DEF TypeOK, create_automation_schedule, clock
  <2> QED
    BY <1>1, <2>1, <2>2 DEF TypeOK, create_automation_schedule, clock, account, trading
<1>2. ASSUME NEW s \in Schedules, cancel_automation_schedule(s) PROVE TypeOK'
  <2>1. status' \in [Schedules -> Statuses]
    BY <1>2 DEF TypeOK, cancel_automation_schedule, Statuses, Terminal
  <2>2. expired' \subseteq {t \in Schedules : status'[t] = "starting"}
    BY <1>2 DEF TypeOK, cancel_automation_schedule
  <2> QED
    BY <1>2, <2>1, <2>2 DEF TypeOK, cancel_automation_schedule, account, trading
<1>3. ASSUME NEW s \in Schedules, ClaimExpires(s) PROVE TypeOK'
  BY <1>3 DEF TypeOK, ClaimExpires, account, trading
<1>4. ASSUME NEW a \in Accounts, NEW on \in BOOLEAN, NEW bad \in BOOLEAN,
             SetAccount(a, on, bad), fence' \in [Accounts -> BOOLEAN],
             UNCHANGED <<status, policy, clock, trading, reported, thread, starts, restarts>>
      PROVE  TypeOK'
  <2>1. /\ enabled' \in [Accounts -> BOOLEAN] /\ rejected' \in [Accounts -> BOOLEAN]
        /\ marker' \in [Accounts -> Schedules \cup {NoSchedule}]
    BY <1>4, SetAccountType
  <2> QED
    BY <1>4, <2>1 DEF TypeOK, clock, trading
<1>5. ASSUME NEW a \in Accounts, Start(a) \/ Stop(a) PROVE TypeOK'
  <2>1. fence' \in [Accounts -> BOOLEAN]
    BY <1>5 DEF TypeOK, Start, Stop
  <2> QED
    BY <1>4, <1>5, <2>1 DEF Start, Stop
<1>6. ASSUME NEW a \in Accounts, WorkerStatus(a) PROVE TypeOK'
  BY <1>4, <1>6 DEF WorkerStatus, TypeOK
<1>7. ASSUME NEW a \in Accounts, BuySent(a) \/ BuyAnswered(a) \/ Settled(a)
      PROVE  TypeOK'
  <2>1. /\ contract' \in [Accounts -> {"none", "sent", "open"}]
        /\ window' \in [Accounts -> SUBSET Schedules]
    <3>1. RunningOn(a) \subseteq Schedules /\ EndedOn(a) \subseteq Schedules
      BY DEF RunningOn, EndedOn
    <3> QED
      BY <1>7, <3>1 DEF TypeOK, BuySent, BuyAnswered, Settled
  <2>2. UNCHANGED <<status, policy, clock, account, reported, thread, starts, restarts>>
    BY <1>7 DEF BuySent, BuyAnswered, Settled
  <2> QED
    BY <2>1, <2>2 DEF TypeOK, clock, account
<1>8. CASE TimePasses
  BY <1>8, SchedulerAssumption DEF TypeOK, TimePasses, account, trading
<1>9. CASE Restart
  <2>1. Idle \in ThreadState /\ Idle.pc = "idle"
    BY SchedulerAssumption DEF Idle, ThreadState, ThreadPcs
  <2> QED
    BY <1>9, <2>1, SchedulerAssumption DEF TypeOK, Restart, clock, account, trading
<1> QED
  BY <1>1, <1>2, <1>3, <1>5, <1>6, <1>7, <1>8, <1>9

(* What the reconciliation makes of a status is a status.                  *)
LEMMA ReconciledType ==
  ASSUME TypeOK, NEW s \in Schedules, NEW past \in BOOLEAN
  PROVE  /\ Reconciled(s, past) \in Statuses
         /\ status[s] \in Terminal => Reconciled(s, past) = status[s]
         /\ Reconciled(s, past) = "running" =>
               \/ status[s] = "running"
               \/ status[s] = "starting" /\ marker[AccountOf[s]] = s
         /\ Reconciled(s, past) \in {"completed", "failed"} =>
               status[s] \in {"running", Reconciled(s, past)}
         /\ Reconciled(s, past) \notin {"running", "completed", "failed"} =>
               status[s] \notin {"running", "completed", "failed"}
         /\ Reconciled(s, past) = "starting" => status[s] = "starting"
<1>1. status[s] \in Statuses
  BY DEF TypeOK
<1> USE DEF Statuses, Due, Terminal
<1>2. CASE status[s] = "starting" /\ enabled[AccountOf[s]]
  <2>1. Reconciled(s, past) = IF marker[AccountOf[s]] = s THEN "running" ELSE "waiting"
    BY <1>2 DEF Reconciled
  <2> QED
    BY <1>2, <2>1
<1>3. CASE status[s] = "starting" /\ ~enabled[AccountOf[s]]
  <2>1. CASE s \in expired
    <3>1. Reconciled(s, past) = IF past THEN "skipped" ELSE "scheduled"
      BY <1>3, <2>1 DEF Reconciled
    <3> QED
      BY <1>3, <3>1
  <2>2. CASE s \notin expired
    <3>1. Reconciled(s, past) = "starting"
      BY <1>3, <2>2 DEF Reconciled
    <3> QED
      BY <1>3, <3>1
  <2> QED
    BY <2>1, <2>2
<1>4. CASE status[s] = "running" /\ ~enabled[AccountOf[s]]
  <2>1. Reconciled(s, past) = IF rejected[AccountOf[s]] THEN "failed" ELSE "completed"
    BY <1>4 DEF Reconciled
  <2> QED
    BY <1>4, <2>1
<1>5. CASE /\ status[s] # "starting"
           /\ ~(status[s] = "running" /\ ~enabled[AccountOf[s]])
  <2>1. Reconciled(s, past) = status[s]
    BY <1>5 DEF Reconciled
  <2> QED
    BY <1>1, <1>5, <2>1
<1> QED
  BY <1>2, <1>3, <1>4, <1>5

(* The thread, up to the claim.                                            *)
LEMMA TypeCycle ==
  ASSUME TypeOK, ClaimInService,
         \/ CycleBegins \/ (\E s \in Schedules : ReconcileSchedule(s))
         \/ AttachFinishedSessionResults
         \/ (\E s \in Schedules : ClaimNextDue(s)) \/ CycleEnds
  PROVE  TypeOK'
<1>0. thread \in ThreadState
  BY DEF TypeOK
<1>1. CASE CycleBegins
  <2>1. thread' \in ThreadState /\ thread'.pc = "reconcile"
    <3> DEFINE live == {s \in Schedules : status[s] \in {"running", "starting"}}
    <3>1. thread' = [pc |-> "reconcile", cur |-> NoSchedule, todo |-> live, left |-> MaxStarts]
      BY <1>1 DEF CycleBegins, Idle
    <3>2. live \in SUBSET Schedules /\ MaxStarts \in 0 .. MaxStarts
      BY SchedulerAssumption
    <3> HIDE DEF live
    <3> QED
      BY <3>1, <3>2 DEF ThreadState, ThreadPcs
  <2> QED
    BY <1>1, <2>1 DEF TypeOK, CycleBegins, clock, account, trading
<1>2. ASSUME NEW s \in Schedules, ReconcileSchedule(s) PROVE TypeOK'
  <2>1. PICK past \in BOOLEAN :
          /\ status' = [status EXCEPT ![s] = Reconciled(s, past)]
          /\ expired' = IF Reconciled(s, past) = "starting" THEN expired ELSE expired \ {s}
    BY <1>2 DEF ReconcileSchedule
  <2>2. status' \in [Schedules -> Statuses]
    BY <2>1, ReconciledType DEF TypeOK
  <2>3. expired' \subseteq {t \in Schedules : status'[t] = "starting"}
    BY <2>1 DEF TypeOK
  <2>4. thread' \in ThreadState /\ thread'.pc = "reconcile"
    BY <1>0, <1>2 DEF ReconcileSchedule, ThreadState
  <2> QED
    BY <1>2, <2>2, <2>3, <2>4 DEF TypeOK, ReconcileSchedule, account, trading
<1>3. CASE AttachFinishedSessionResults
  <2>1. thread' \in ThreadState /\ thread'.pc = "claim"
    BY <1>0, <1>3, ToThread DEF AttachFinishedSessionResults, ThreadPcs
  <2>2. reported' \in [Schedules -> BOOLEAN]
    BY <1>3 DEF TypeOK, AttachFinishedSessionResults
  <2> QED
    BY <1>3, <2>1, <2>2 DEF TypeOK, AttachFinishedSessionResults, clock, account, trading
<1>4. ASSUME NEW s \in Schedules, ClaimNextDue(s) PROVE TypeOK'
  <2>1. status[s] \in Due
    BY <1>4 DEF ClaimNextDue, IsFirst
  <2>2. status' \in [Schedules -> Statuses]
    BY <1>4 DEF TypeOK, ClaimNextDue, Statuses, Terminal
  <2>3. expired' \subseteq {t \in Schedules : status'[t] = "starting"}
    BY <1>4, <2>1 DEF TypeOK, ClaimNextDue, clock, Due
  <2>4. thread' \in ThreadState /\ (thread'.pc \in Working => thread'.cur \in Schedules)
    <3>1. CASE thread' = [thread EXCEPT !.pc = "clear", !.cur = s, !.left = @ - 1]
      <4>1. thread.left - 1 \in 0 .. MaxStarts
        <5>1. thread.left \in 0 .. MaxStarts
          BY <1>0 DEF ThreadState
        <5>2. thread.left > 0
          BY <1>4 DEF ClaimNextDue
        <5> QED
          BY <5>1, <5>2, SchedulerAssumption
      <4>2. thread' = [pc |-> "clear", cur |-> s, todo |-> thread.todo, left |-> thread.left - 1]
        BY <1>0, <3>1 DEF ThreadState
      <4> QED
        BY <1>0, <4>1, <4>2 DEF ThreadState, ThreadPcs
    <3>2. CASE To("idle")
      BY <1>0, <3>2, ToThread DEF ThreadPcs, Working
    <3> QED
      BY <1>4, <3>1, <3>2 DEF ClaimNextDue
  <2> QED
    BY <1>4, <2>2, <2>3, <2>4 DEF TypeOK, ClaimNextDue, Working, clock, account, trading
<1>5. CASE CycleEnds
  <2>1. thread' \in ThreadState /\ thread'.pc = "idle"
    BY <1>0, <1>5, ToThread DEF CycleEnds, ThreadPcs
  <2> QED
    BY <1>5, <2>1 DEF TypeOK, CycleEnds, clock, account, trading
<1> QED
  BY <1>1, <1>2, <1>3, <1>4, <1>5

(* The end of the sessions a replacement finds running.                    *)
LEMMA EndedType ==
  ASSUME TypeOK, cur \in Schedules
  PROVE  /\ Ended \in [Schedules -> Statuses]
         /\ \A s \in Schedules : Ended[s] # status[s] =>
               s # cur /\ status[s] = "running" /\ Ended[s] = "completed"
  BY DEF TypeOK, Ended, RunningOn, Statuses, Terminal

(* The thread, from the claim to its outcome.                              *)
LEMMA TypeWork ==
  ASSUME TypeOK, ClaimInService,
         \/ PremiumBlocks \/ ClearHardStop \/ GiveWay \/ AwaitSettlement \/ SnapshotInvalid
         \/ StartSession \/ ApplyFails \/ MarkTerminal
  PROVE  TypeOK'
<1>0. thread \in ThreadState /\ cur \in Schedules /\ Acct \in Accounts
  <2>1. thread.pc \in Working
    BY DEF PremiumBlocks, ClearHardStop, GiveWay, AwaitSettlement, SnapshotInvalid, StartSession,
       ApplyFails, MarkTerminal, Working
  <2>2. cur \in Schedules
    BY <2>1 DEF TypeOK, Working, cur
  <2> QED
    BY <2>2, SchedulerAssumption DEF TypeOK, Acct
<1> DEFINE NewStatus == /\ status' \in [Schedules -> Statuses]
                        /\ \A s \in Schedules \ {cur} : status[s] = "starting" => status'[s] = "starting"
(* The claim is not in expired, so it may change its status.               *)
<1>1. ASSUME NewStatus, UNCHANGED clock
      PROVE  expired' \subseteq {s \in Schedules : status'[s] = "starting"}
  BY <1>1 DEF TypeOK, clock, ClaimInService
<1>2. ASSUME NEW w \in Statuses,
             \/ status' = status \/ status' = [status EXCEPT ![cur] = w]
             \/ status' = Ended \/ status' = [Ended EXCEPT ![cur] = w]
      PROVE  NewStatus
  BY <1>0, <1>2, EndedType DEF TypeOK
<1>3. ASSUME NEW pc \in {"claim", "apply", "mark"}, To(pc)
      PROVE  thread' \in ThreadState /\ (thread'.pc \in Working => thread'.cur \in Schedules)
  <2>1. pc \in ThreadPcs \ {"reconcile"}
    BY DEF ThreadPcs
  <2> QED
    BY <1>0, <1>3, <2>1, ToThread DEF Working, cur
<1>4. ASSUME NewStatus, NEW pc \in {"claim", "apply", "mark"}, To(pc),
             UNCHANGED <<policy, clock, trading, reported, restarts>>,
             /\ enabled' \in [Accounts -> BOOLEAN] /\ rejected' \in [Accounts -> BOOLEAN]
             /\ marker' \in [Accounts -> Schedules \cup {NoSchedule}]
             /\ fence' \in [Accounts -> BOOLEAN] /\ starts' \in [Schedules -> Nat]
      PROVE  TypeOK'
  <2>1. expired' \subseteq {s \in Schedules : status'[s] = "starting"}
    BY <1>1, <1>4
  <2>2. thread' \in ThreadState /\ (thread'.pc \in Working => thread'.cur \in Schedules)
    BY <1>3, <1>4
  <2> QED
    BY <1>4, <2>1, <2>2 DEF TypeOK, clock, trading, Working
<1>5. {"waiting", "skipped", "running", "failed"} \subseteq Statuses
  BY DEF Statuses, Due, Terminal
<1>6. CASE ClearHardStop
  <2>1. NewStatus
    BY <1>2, <1>5, <1>6 DEF ClearHardStop
  <2>2. fence' \in [Accounts -> BOOLEAN]
    BY <1>0, <1>6 DEF TypeOK, ClearHardStop
  <2> QED
    BY <1>4, <1>6, <2>1, <2>2 DEF ClearHardStop, TypeOK
<1>7. CASE GiveWay
  <2>1. NewStatus
    BY <1>2, <1>5, <1>7 DEF GiveWay
  <2> QED
    BY <1>4, <1>7, <2>1 DEF GiveWay, TypeOK, account
<1>8. CASE AwaitSettlement
  <2>1. NewStatus
    BY <1>2, <1>5, <1>8 DEF AwaitSettlement
  <2>2. /\ enabled' \in [Accounts -> BOOLEAN] /\ rejected' \in [Accounts -> BOOLEAN]
        /\ marker' \in [Accounts -> Schedules \cup {NoSchedule}]
    BY <1>0, <1>8, SetAccountType DEF AwaitSettlement
  <2> QED
    BY <1>4, <1>8, <2>1, <2>2 DEF AwaitSettlement, TypeOK
<1>9. CASE SnapshotInvalid
  <2>1. NewStatus
    BY <1>2, <1>5, <1>9 DEF SnapshotInvalid
  <2>2. /\ enabled' \in [Accounts -> BOOLEAN] /\ rejected' \in [Accounts -> BOOLEAN]
        /\ marker' \in [Accounts -> Schedules \cup {NoSchedule}]
    BY <1>0, <1>9, SetAccountType DEF SnapshotInvalid
  <2> QED
    BY <1>4, <1>9, <2>1, <2>2 DEF SnapshotInvalid, TypeOK
<1>10. CASE StartSession
  <2>1. NewStatus
    BY <1>2, <1>5, <1>10 DEF StartSession
  <2>2. /\ enabled' \in [Accounts -> BOOLEAN]
        /\ marker' \in [Accounts -> Schedules \cup {NoSchedule}]
        /\ starts' \in [Schedules -> Nat]
    BY <1>0, <1>10 DEF StartSession, TypeOK
  <2> QED
    BY <1>4, <1>10, <2>1, <2>2 DEF StartSession, TypeOK
<1>11. CASE ApplyFails
  <2>1. NewStatus
    BY <1>2, <1>5, <1>11 DEF ApplyFails
  <2> QED
    BY <1>4, <1>11, <2>1 DEF ApplyFails, TypeOK, account
<1>12. CASE MarkTerminal
  <2>1. NewStatus
    <3>1. (IF status[cur] \in Terminal THEN status[cur] ELSE "failed") \in Statuses
      BY <1>0, <1>5 DEF TypeOK
    <3> QED
      BY <1>0, <1>2, <1>12, <3>1 DEF MarkTerminal, TypeOK
  <2> QED
    BY <1>4, <1>12, <2>1 DEF MarkTerminal, TypeOK, account
<1>13. CASE PremiumBlocks
  <2>1. NewStatus
    BY <1>2, <1>5, <1>13 DEF PremiumBlocks
  <2>2. /\ enabled' \in [Accounts -> BOOLEAN] /\ rejected' \in [Accounts -> BOOLEAN]
        /\ marker' \in [Accounts -> Schedules \cup {NoSchedule}]
    <3>1. CASE SetAccount(Acct, FALSE, FALSE)
      BY <1>0, <3>1, SetAccountType
    <3>2. CASE UNCHANGED <<enabled, rejected, marker>>
      BY <3>2 DEF TypeOK
    <3> QED
      BY <1>13, <3>1, <3>2 DEF PremiumBlocks
  <2> QED
    BY <1>4, <1>13, <2>1, <2>2 DEF PremiumBlocks, TypeOK
<1> QED
  BY <1>6, <1>7, <1>8, <1>9, <1>10, <1>11, <1>12, <1>13

-----------------------------------------------------------------------------
(* What a step does to the history of a schedule is legal when it starts   *)
(* only a claimed schedule, and gives up none that has started.            *)
Safe == StartedOnce /\ ClaimHasNoSession /\ MarkerStarted /\ ClaimInService
LegalStep(s) ==
  /\ starts'[s] = starts[s]
  /\ status[s] \in {"running", "completed", "failed"} =>
       status'[s] \in {"running", "completed", "failed"}
  /\ status'[s] \in {"running", "completed"} => status[s] \in {"running", status'[s]}

LEMMA LegalStarts ==
  ASSUME TypeOK, StartedOnce, \A s \in Schedules : LegalStep(s)
  PROVE  StartedOnce'
  BY DEF TypeOK, StartedOnce, LegalStep

(* A schedule that is claimed has started nothing, so no marker names it.  *)
LEMMA UnmarkedClaims ==
  ASSUME StartedOnce', MarkerStarted'
  PROVE  ClaimHasNoSession'
  BY DEF StartedOnce, MarkerStarted, ClaimHasNoSession

(* No marker appears, and the thread and the leases do not meet.           *)
LEMMA SafeEnvironment ==
  ASSUME TypeOK, Safe,
         \/ \E s \in Schedules : \/ create_automation_schedule(s)
                                 \/ cancel_automation_schedule(s) \/ ClaimExpires(s)
         \/ \E a \in Accounts : \/ Start(a) \/ Stop(a) \/ WorkerStatus(a)
                                \/ BuySent(a) \/ BuyAnswered(a) \/ Settled(a)
         \/ TimePasses \/ Restart
  PROVE  Safe'
<1> USE DEF Safe
<1>1. \A s \in Schedules : LegalStep(s)
  <2>1. ASSUME NEW s \in Schedules, create_automation_schedule(s)
        PROVE  \A t \in Schedules : LegalStep(t)
    BY <2>1 DEF create_automation_schedule, LegalStep, TypeOK
  <2>2. ASSUME NEW s \in Schedules, cancel_automation_schedule(s)
        PROVE  \A t \in Schedules : LegalStep(t)
    BY <2>2 DEF cancel_automation_schedule, LegalStep, TypeOK, Terminal
  <2>3. CASE UNCHANGED <<status, starts>>
    BY <2>3 DEF LegalStep
  <2> QED
    BY <2>1, <2>2, <2>3 DEF ClaimExpires, Start, Stop, WorkerStatus, BuySent, BuyAnswered,
       Settled, TimePasses, Restart
<1>2. /\ \A s \in Schedules : marker'[AccountOf[s]] = s => marker[AccountOf[s]] = s
      /\ UNCHANGED starts
  <2>1. ASSUME NEW a \in Accounts, Start(a) \/ Stop(a) \/ WorkerStatus(a)
        PROVE  \A s \in Schedules : marker'[AccountOf[s]] = s => marker[AccountOf[s]] = s
    <3>1. PICK on \in BOOLEAN, bad \in BOOLEAN : SetAccount(a, on, bad)
      BY <2>1 DEF Start, Stop, WorkerStatus
    <3> QED
      BY <3>1, SetAccountType
  <2> QED
    BY <2>1 DEF create_automation_schedule, cancel_automation_schedule, ClaimExpires, Start,
       Stop, WorkerStatus, BuySent, BuyAnswered, Settled, TimePasses, Restart, account
<1>3. ClaimInService'
  <2>1. CASE Restart
    <3>1. cur' = NoSchedule /\ expired' \subseteq Schedules
      BY <2>1 DEF Restart, Idle, cur, clock, TypeOK
    <3> QED
      BY <3>1, SchedulerAssumption DEF ClaimInService, Schedules, NoSchedule
  <2>2. ASSUME NEW s \in Schedules, ClaimExpires(s) PROVE ClaimInService'
    BY <2>2 DEF ClaimExpires, ClaimInService, cur
  <2>3. CASE UNCHANGED thread /\ expired' \subseteq expired
    BY <2>3 DEF ClaimInService, cur
  <2> QED
    BY <2>1, <2>2, <2>3 DEF create_automation_schedule, cancel_automation_schedule, Start,
       Stop, WorkerStatus, BuySent, BuyAnswered, Settled, TimePasses, clock
<1>4. StartedOnce' /\ MarkerStarted'
  BY <1>1, <1>2, LegalStarts DEF MarkerStarted
<1> QED
  BY <1>3, <1>4, UnmarkedClaims

(* The thread works on no schedule outside claim and outcome.              *)
LEMMA NoneInService ==
  ASSUME TypeOK', cur' = NoSchedule
  PROVE  ClaimInService'
<1>1. expired' \subseteq Schedules /\ NoSchedule \notin Schedules
  BY SchedulerAssumption DEF TypeOK, Schedules, NoSchedule
<1> QED
  BY <1>1 DEF ClaimInService

LEMMA SafeCycle ==
  ASSUME TypeOK, TypeOK', Safe,
         \/ CycleBegins \/ (\E s \in Schedules : ReconcileSchedule(s))
         \/ AttachFinishedSessionResults
         \/ (\E s \in Schedules : ClaimNextDue(s)) \/ CycleEnds
  PROVE  Safe'
<1> USE DEF Safe
<1>0. thread \in ThreadState
  BY DEF TypeOK
<1>1. UNCHANGED <<marker, starts>>
  BY DEF CycleBegins, ReconcileSchedule, AttachFinishedSessionResults, ClaimNextDue,
     CycleEnds, account
<1>2. \A s \in Schedules : LegalStep(s)
  <2>1. ASSUME NEW s \in Schedules, ReconcileSchedule(s)
        PROVE  \A t \in Schedules : LegalStep(t)
    <3>1. PICK past \in BOOLEAN : status' = [status EXCEPT ![s] = Reconciled(s, past)]
      BY <2>1 DEF ReconcileSchedule
    <3>2. status'[s] = Reconciled(s, past) /\ \A t \in Schedules \ {s} : status'[t] = status[t]
      BY <3>1 DEF TypeOK
    <3>3. ~(status[s] = "starting" /\ marker[AccountOf[s]] = s)
      BY DEF ClaimHasNoSession
    <3>4. LegalStep(s)
      BY <1>1, <3>2, <3>3, ReconciledType DEF LegalStep
    <3> QED
      BY <1>1, <3>2, <3>4 DEF LegalStep
  <2>2. ASSUME NEW s \in Schedules, ClaimNextDue(s)
        PROVE  \A t \in Schedules : LegalStep(t)
    <3>1. status[s] \in Due
      BY <2>2 DEF ClaimNextDue, IsFirst
    <3> QED
      BY <1>1, <2>2, <3>1 DEF ClaimNextDue, LegalStep, TypeOK, Due
  <2>3. CASE UNCHANGED status
    BY <1>1, <2>3 DEF LegalStep
  <2> QED
    BY <2>1, <2>2, <2>3 DEF CycleBegins, AttachFinishedSessionResults, CycleEnds
<1>3. ClaimInService'
  <2>1. CASE CycleBegins
    <3>1. cur' = NoSchedule
      BY <2>1 DEF CycleBegins, Idle, cur
    <3> QED
      BY <3>1, NoneInService
  <2>2. ASSUME NEW s \in Schedules, ReconcileSchedule(s) PROVE ClaimInService'
    <3>1. cur' = cur /\ expired' \subseteq expired
      BY <1>0, <2>2 DEF ReconcileSchedule, cur, ThreadState
    <3> QED
      BY <3>1 DEF ClaimInService
  <2>3. CASE AttachFinishedSessionResults \/ CycleEnds
    <3>1. cur' = NoSchedule
      BY <1>0, <2>3, ToThread DEF AttachFinishedSessionResults, CycleEnds, ThreadPcs, Working
    <3> QED
      BY <3>1, NoneInService
  <2>4. ASSUME NEW s \in Schedules, ClaimNextDue(s) PROVE ClaimInService'
    <3>1. s \notin expired /\ expired' = expired
      BY <2>4 DEF ClaimNextDue, IsFirst, Due, TypeOK, clock
    <3>2. CASE thread' = [thread EXCEPT !.pc = "clear", !.cur = s, !.left = @ - 1]
      <4>1. cur' = s
        BY <1>0, <3>2 DEF cur, ThreadState
      <4> QED
        BY <3>1, <4>1 DEF ClaimInService
    <3>3. CASE To("idle")
      <4>1. cur' = NoSchedule
        BY <1>0, <3>3, ToThread DEF ThreadPcs, Working
      <4> QED
        BY <4>1, NoneInService
    <3> QED
      BY <2>4, <3>2, <3>3 DEF ClaimNextDue
  <2> QED
    BY <2>1, <2>2, <2>3, <2>4
<1>4. StartedOnce' /\ MarkerStarted'
  BY <1>1, <1>2, LegalStarts DEF MarkerStarted
<1> QED
  BY <1>3, <1>4, UnmarkedClaims

LEMMA SafeWork ==
  ASSUME TypeOK, TypeOK', Safe,
         \/ PremiumBlocks \/ ClearHardStop \/ GiveWay \/ AwaitSettlement \/ SnapshotInvalid
         \/ StartSession \/ ApplyFails \/ MarkTerminal
  PROVE  Safe'
<1> USE DEF Safe
<1>0. thread \in ThreadState /\ cur \in Schedules /\ Acct \in Accounts
  <2>1. thread.pc \in Working
    BY DEF PremiumBlocks, ClearHardStop, GiveWay, AwaitSettlement, SnapshotInvalid, StartSession,
       ApplyFails, MarkTerminal, Working
  <2>2. cur \in Schedules
    BY <2>1 DEF TypeOK, Working, cur
  <2> QED
    BY <2>2, SchedulerAssumption DEF TypeOK, Acct
<1>1. ClaimInService'
  <2>1. PICK pc \in {"claim", "apply", "mark"} : To(pc)
    BY DEF PremiumBlocks, ClearHardStop, GiveWay, AwaitSettlement, SnapshotInvalid, StartSession,
       ApplyFails, MarkTerminal
  <2>2. cur' \in {cur, NoSchedule}
    <3>1. pc \in ThreadPcs \ {"reconcile"}
      BY DEF ThreadPcs
    <3> QED
      BY <1>0, <2>1, <3>1, ToThread
  <2>3. expired' = expired
    BY DEF PremiumBlocks, ClearHardStop, GiveWay, AwaitSettlement, SnapshotInvalid, StartSession,
       ApplyFails, MarkTerminal, clock
  <2> QED
    BY <2>2, <2>3, NoneInService DEF ClaimInService
<1>2. CASE StartSession
  <2>1. status[cur] = "starting" /\ starts[cur] = 0
    <3>1. status[cur] = "starting"
      BY <1>2 DEF StartSession, Startable
    <3>2. starts[cur] \in Nat /\ starts[cur] <= 1 /\ starts[cur] # 1
      BY <1>0, <3>1 DEF StartedOnce, TypeOK
    <3> QED
      BY <3>1, <3>2
  <2>2. /\ status'[cur] = "running" /\ starts'[cur] = 1
        /\ \A s \in Schedules \ {cur} : status'[s] = Ended[s] /\ starts'[s] = starts[s]
    BY <1>0, <1>2, <2>1, EndedType DEF StartSession, TypeOK
  <2>3. StartedOnce'
    BY <1>0, <2>2, EndedType DEF StartedOnce
  <2>4. MarkerStarted'
    <3>1. \A s \in Schedules \ {cur} : marker'[AccountOf[s]] = s => marker[AccountOf[s]] = s
      BY <1>0, <1>2, SchedulerAssumption DEF StartSession, TypeOK
    <3> QED
      BY <2>2, <3>1 DEF MarkerStarted
  <2> QED
    BY <1>1, <2>3, <2>4, UnmarkedClaims
<1>3. CASE ~StartSession
  <2>1. \A s \in Schedules : LegalStep(s)
    <3>1. starts' = starts
      BY <1>3 DEF PremiumBlocks, ClearHardStop, GiveWay, AwaitSettlement, SnapshotInvalid, ApplyFails,
         MarkTerminal
    <3>2. CASE ClearHardStop \/ ApplyFails
      BY <3>1, <3>2 DEF ClearHardStop, ApplyFails, LegalStep
    <3>3. CASE GiveWay
      BY <1>0, <3>1, <3>3 DEF GiveWay, Startable, LegalStep, TypeOK
    <3>4. CASE AwaitSettlement
      <4>1. /\ status[cur] = "starting" /\ status'[cur] = "waiting"
            /\ \A s \in Schedules \ {cur} : status'[s] = Ended[s]
        BY <1>0, <3>4, EndedType DEF AwaitSettlement, Startable
      <4> QED
        BY <1>0, <3>1, <4>1, EndedType DEF LegalStep
    <3>5. CASE SnapshotInvalid
      BY <1>0, <3>1, <3>5, EndedType DEF SnapshotInvalid, LegalStep
    <3>6. CASE MarkTerminal
      <4>1. /\ status'[cur] = IF status[cur] \in Terminal THEN status[cur] ELSE "failed"
            /\ \A s \in Schedules \ {cur} : status'[s] = status[s]
        BY <1>0, <3>6 DEF MarkTerminal, TypeOK
      <4> QED
        BY <1>0, <3>1, <4>1 DEF LegalStep
    <3>7. CASE PremiumBlocks
      BY <1>0, <3>1, <3>7 DEF PremiumBlocks, Startable, LegalStep, TypeOK
    <3> QED
      BY <1>3, <3>2, <3>3, <3>4, <3>5, <3>6, <3>7
  <2>2. /\ \A s \in Schedules : marker'[AccountOf[s]] = s => marker[AccountOf[s]] = s
        /\ starts' = starts
    <3>1. CASE AwaitSettlement \/ SnapshotInvalid
      BY <1>0, <3>1, SetAccountType DEF AwaitSettlement, SnapshotInvalid
    <3>2. CASE PremiumBlocks
      BY <1>0, <3>2, SetAccountType DEF PremiumBlocks
    <3> QED
      BY <1>3, <3>1, <3>2 DEF ClearHardStop, GiveWay, ApplyFails, MarkTerminal, account
  <2>3. StartedOnce' /\ MarkerStarted'
    BY <2>1, <2>2, LegalStarts DEF MarkerStarted
  <2> QED
    BY <1>1, <2>3, UnmarkedClaims
<1> QED
  BY <1>2, <1>3

-----------------------------------------------------------------------------
(* What a step may do to one status, and to all of them: it moves one      *)
(* schedule, and completes running ones that are replaced.                 *)
Keeps(s) == status'[s] = status[s] /\ starts'[s] = starts[s]

Starts(s) ==
  /\ status[s] = "starting" /\ status'[s] = "running"
  /\ starts'[s] = starts[s] + 1

Changes(s) ==
  /\ \/ status[s] = "none" /\ status'[s] = "scheduled"
     \/ status[s] \in Due /\ status'[s] = "starting"
     \/ status[s] = "starting" /\ status'[s] \in Due
     \/ status[s] \in Due \cup {"starting"} /\ status'[s] \in Terminal \ {"completed"}
     \/ status[s] = "running" /\ status'[s] \in {"completed", "failed"}
  /\ starts'[s] = starts[s]

Completes(s) ==
  /\ status[s] = "running" /\ status'[s] = "completed"
  /\ starts'[s] = starts[s]

StatusMoves(s) ==
  /\ Keeps(s) \/ Starts(s) \/ Changes(s)
  /\ \A t \in Schedules \ {s} : Keeps(t) \/ Completes(t)

(* What the reconciliation does is one such move.                          *)
LEMMA ReconciledMoves ==
  ASSUME TypeOK, ClaimHasNoSession, NEW s \in Schedules, ReconcileSchedule(s)
  PROVE  StatusMoves(s)
<1>1. PICK past \in BOOLEAN : status' = [status EXCEPT ![s] = Reconciled(s, past)]
  BY DEF ReconcileSchedule
<1>2. /\ status'[s] = Reconciled(s, past) /\ starts' = starts
      /\ \A t \in Schedules \ {s} : Keeps(t)
  BY <1>1 DEF TypeOK, ReconcileSchedule, Keeps
<1>3. ~(status[s] = "starting" /\ marker[AccountOf[s]] = s)
  BY DEF ClaimHasNoSession
<1> USE DEF Due, Terminal
<1>4. CASE status[s] = "starting" /\ enabled[AccountOf[s]]
  <2>1. Reconciled(s, past) = "waiting"
    BY <1>3, <1>4 DEF Reconciled
  <2> QED
    BY <1>2, <1>4, <2>1 DEF StatusMoves, Changes
<1>5. CASE status[s] = "starting" /\ ~enabled[AccountOf[s]] /\ s \in expired
  <2>1. Reconciled(s, past) = IF past THEN "skipped" ELSE "scheduled"
    BY <1>5 DEF Reconciled
  <2> QED
    BY <1>2, <1>5, <2>1 DEF StatusMoves, Changes
<1>6. CASE status[s] = "running" /\ ~enabled[AccountOf[s]]
  <2>1. Reconciled(s, past) = IF rejected[AccountOf[s]] THEN "failed" ELSE "completed"
    BY <1>6 DEF Reconciled
  <2> QED
    BY <1>2, <1>6, <2>1 DEF StatusMoves, Changes
<1>7. CASE /\ ~(status[s] = "starting" /\ (enabled[AccountOf[s]] \/ s \in expired))
           /\ ~(status[s] = "running" /\ ~enabled[AccountOf[s]])
  <2>1. Reconciled(s, past) = status[s]
    BY <1>7 DEF Reconciled
  <2> QED
    BY <1>2, <2>1 DEF StatusMoves, Keeps
<1> QED
  BY <1>4, <1>5, <1>6, <1>7

(* Every step keeps all statuses or makes such a move.                     *)
LEMMA StepMoves ==
  ASSUME TypeOK, ClaimHasNoSession, WorkedOnExists, Next
  PROVE  UNCHANGED <<status, starts>> \/ \E s \in Schedules : StatusMoves(s)
<1> USE DEF Due, Terminal
<1>1. ASSUME NEW s \in Schedules, create_automation_schedule(s) \/ cancel_automation_schedule(s)
      PROVE  StatusMoves(s)
  <2>1. status[s] \in Statuses
    BY DEF TypeOK
  <2>2. /\ \/ status[s] = "none" /\ status'[s] = "scheduled"
           \/ status[s] \in Due \cup {"starting"} /\ status'[s] = "cancelled"
        /\ starts' = starts /\ \A t \in Schedules \ {s} : status'[t] = status[t]
    BY <1>1, <2>1 DEF create_automation_schedule, cancel_automation_schedule, TypeOK, Statuses
  <2> QED
    BY <2>2 DEF StatusMoves, Changes, Keeps
<1>2. ASSUME NEW s \in Schedules, ReconcileSchedule(s) PROVE StatusMoves(s)
  BY <1>2, ReconciledMoves
<1>3. ASSUME NEW s \in Schedules, ClaimNextDue(s) PROVE StatusMoves(s)
  <2>1. status[s] \in Due
    BY <1>3 DEF ClaimNextDue, IsFirst
  <2>2. /\ status'[s] \in {"starting", "skipped"} /\ starts' = starts
        /\ \A t \in Schedules \ {s} : status'[t] = status[t]
    BY <1>3 DEF ClaimNextDue, TypeOK
  <2> QED
    BY <2>1, <2>2 DEF StatusMoves, Changes, Keeps
<1>4. CASE PremiumBlocks \/ GiveWay \/ AwaitSettlement \/ SnapshotInvalid \/ StartSession \/ MarkTerminal
  <2>1. cur \in Schedules /\ status[cur] # "none" /\ status[cur] \in Statuses
    BY <1>4 DEF PremiumBlocks, GiveWay, AwaitSettlement, SnapshotInvalid, StartSession,
       MarkTerminal, TypeOK, WorkedOnExists, cur
  <2>2. Ended \in [Schedules -> Statuses] /\ Ended[cur] = status[cur]
    BY <2>1, EndedType
  <2>3. ASSUME NEW s \in Schedules, status'[s] = Ended[s], starts'[s] = starts[s]
        PROVE  Keeps(s) \/ Completes(s)
    BY <2>1, <2>3, EndedType DEF Keeps, Completes
  <2>4. CASE PremiumBlocks \/ GiveWay
    <3>1. /\ status[cur] = "starting" /\ status'[cur] \in {"waiting", "skipped"}
          /\ starts' = starts /\ \A t \in Schedules \ {cur} : status'[t] = status[t]
      BY <2>1, <2>4 DEF PremiumBlocks, GiveWay, Startable, TypeOK
    <3> QED
      BY <2>1, <3>1 DEF StatusMoves, Changes, Keeps
  <2>5. CASE AwaitSettlement
    <3>1. /\ status[cur] = "starting" /\ status'[cur] = "waiting" /\ starts' = starts
          /\ \A t \in Schedules \ {cur} : status'[t] = Ended[t]
      BY <2>1, <2>2, <2>5 DEF AwaitSettlement, Startable
    <3>2. Changes(cur)
      BY <3>1 DEF Changes
    <3> QED
      BY <2>1, <2>3, <3>1, <3>2 DEF StatusMoves
  <2>6. CASE SnapshotInvalid
    <3>1. status' = Ended /\ starts' = starts
      BY <2>6 DEF SnapshotInvalid
    <3>2. Keeps(cur)
      BY <2>2, <3>1 DEF Keeps
    <3> QED
      BY <2>1, <2>3, <3>1, <3>2 DEF StatusMoves
  <2>7. CASE StartSession
    <3>1. /\ status[cur] = "starting" /\ status'[cur] = "running"
          /\ starts'[cur] = starts[cur] + 1
          /\ \A t \in Schedules \ {cur} : status'[t] = Ended[t] /\ starts'[t] = starts[t]
      BY <2>1, <2>2, <2>7 DEF StartSession, Startable, TypeOK
    <3>2. Starts(cur)
      BY <3>1 DEF Starts
    <3> QED
      BY <2>1, <2>3, <3>1, <3>2 DEF StatusMoves
  <2>8. CASE MarkTerminal
    <3>1. /\ status'[cur] = IF status[cur] \in Terminal THEN status[cur] ELSE "failed"
          /\ starts' = starts /\ \A t \in Schedules \ {cur} : status'[t] = status[t]
      BY <2>1, <2>8 DEF MarkTerminal, TypeOK
    <3>2. Keeps(cur) \/ Changes(cur)
      BY <2>1, <3>1 DEF Keeps, Changes, Statuses
    <3> QED
      BY <2>1, <3>1, <3>2 DEF StatusMoves, Keeps
  <2> QED
    BY <1>4, <2>1, <2>4, <2>5, <2>6, <2>7, <2>8
<1>5. CASE \/ \E a \in Accounts : \/ Start(a) \/ Stop(a) \/ WorkerStatus(a)
                                \/ BuySent(a) \/ BuyAnswered(a) \/ Settled(a)
           \/ CycleBegins \/ AttachFinishedSessionResults \/ CycleEnds \/ ClearHardStop
           \/ ApplyFails \/ TimePasses \/ (\E t \in Schedules : ClaimExpires(t)) \/ Restart
  BY <1>5 DEF Start, Stop, WorkerStatus, BuySent, BuyAnswered, Settled, CycleBegins,
     AttachFinishedSessionResults, CycleEnds, ClearHardStop, ApplyFails, TimePasses,
     ClaimExpires, Restart
<1> QED
  BY <1>1, <1>2, <1>3, <1>4, <1>5 DEF Next, Scheduler

(* The thread works on a schedule that exists: none is created twice, and  *)
(* none ceases to exist.                                                   *)
LEMMA WorkedOnStep ==
  ASSUME TypeOK, ClaimHasNoSession, WorkedOnExists, Next
  PROVE  WorkedOnExists'
<1>0. thread \in ThreadState /\ (thread.pc \in Working => cur \in Schedules)
  BY DEF TypeOK, Working, cur
<1>1. \A s \in Schedules : status[s] # "none" => status'[s] # "none"
  BY StepMoves DEF StatusMoves, Keeps, Starts, Changes, Completes, Due, Terminal
<1>2. CASE thread.pc \in Working /\ cur' = cur
  BY <1>0, <1>1, <1>2 DEF WorkedOnExists, Working
<1>3. CASE thread'.pc \notin Working
  BY <1>3 DEF WorkedOnExists, Working
<1>4. ASSUME NEW s \in Schedules, ClaimNextDue(s) PROVE WorkedOnExists'
  <2>1. CASE To("idle")
    BY <1>0, <1>3, <2>1, ToThread DEF ThreadPcs, Working
  <2>2. CASE /\ status' = [status EXCEPT ![s] = "starting"]
             /\ thread' = [thread EXCEPT !.pc = "clear", !.cur = s, !.left = @ - 1]
    <3>1. cur' = s /\ status'[s] = "starting"
      BY <1>0, <2>2 DEF cur, ThreadState, TypeOK
    <3> QED
      BY <3>1 DEF WorkedOnExists
  <2> QED
    BY <1>4, <2>1, <2>2 DEF ClaimNextDue
<1>5. CASE CycleBegins \/ (\E s \in Schedules : ReconcileSchedule(s)) \/ Restart
  <2>1. thread'.pc \in {"idle", "reconcile"}
    <3>1. CASE CycleBegins
      BY <3>1 DEF CycleBegins, Idle
    <3>2. CASE \E s \in Schedules : ReconcileSchedule(s)
      BY <1>0, <3>2 DEF ReconcileSchedule, ThreadState
    <3>3. CASE Restart
      BY <3>3 DEF Restart, Idle
    <3> QED
      BY <1>5, <3>1, <3>2, <3>3
  <2> QED
    BY <1>3, <2>1 DEF Working
<1>6. CASE AttachFinishedSessionResults \/ CycleEnds
  <2>1. thread'.pc \in {"idle", "claim"}
    BY <1>0, <1>6, ToThread DEF AttachFinishedSessionResults, CycleEnds, ThreadPcs
  <2> QED
    BY <1>3, <2>1 DEF Working
<1>7. CASE \/ PremiumBlocks \/ ClearHardStop \/ GiveWay \/ AwaitSettlement \/ SnapshotInvalid
           \/ StartSession \/ ApplyFails \/ MarkTerminal
  <2>1. PICK pc \in {"claim", "apply", "mark"} : To(pc)
    BY <1>7 DEF PremiumBlocks, ClearHardStop, GiveWay, AwaitSettlement, SnapshotInvalid,
       StartSession, ApplyFails, MarkTerminal
  <2>2. thread.pc \in Working
    BY <1>7 DEF PremiumBlocks, ClearHardStop, GiveWay, AwaitSettlement, SnapshotInvalid,
       StartSession, ApplyFails, MarkTerminal, Working
  <2>3. thread'.pc = pc /\ (pc \in Working => cur' = cur)
    <3>1. pc \in ThreadPcs \ {"reconcile"}
      BY DEF ThreadPcs
    <3> QED
      BY <1>0, <2>1, <3>1, ToThread
  <2> QED
    BY <1>2, <1>3, <2>2, <2>3 DEF Working
<1>8. CASE \/ \E s \in Schedules : \/ create_automation_schedule(s)
                                  \/ cancel_automation_schedule(s) \/ ClaimExpires(s)
           \/ \E a \in Accounts : \/ Start(a) \/ Stop(a) \/ WorkerStatus(a)
                                 \/ BuySent(a) \/ BuyAnswered(a) \/ Settled(a)
           \/ TimePasses
  <2>1. thread' = thread
    BY <1>8 DEF create_automation_schedule, cancel_automation_schedule, ClaimExpires, Start,
       Stop, WorkerStatus, BuySent, BuyAnswered, Settled, TimePasses
  <2> QED
    BY <1>2, <1>3, <2>1 DEF cur
<1> QED
  BY <1>4, <1>5, <1>6, <1>7, <1>8 DEF Next, Scheduler

-----------------------------------------------------------------------------
(* The conjunction is inductive.                                           *)
LEMMA SchedulerStep == SchedulerInvariant /\ [Next]_vars => SchedulerInvariant'
<1> SUFFICES ASSUME SchedulerInvariant, [Next]_vars PROVE SchedulerInvariant'
  OBVIOUS
<1>0. TypeOK /\ Safe /\ ClaimInService
  BY DEF SchedulerInvariant, Safe
<1>1. CASE Next
  <2>1. TypeOK'
    BY <1>0, <1>1, TypeEnvironment, TypeCycle, TypeWork DEF Next, Scheduler
  <2>2. Safe'
    BY <1>0, <1>1, <2>1, SafeEnvironment, SafeCycle, SafeWork DEF Next, Scheduler
  <2>3. WorkedOnExists'
    BY <1>1, WorkedOnStep DEF SchedulerInvariant
  <2> QED
    BY <2>1, <2>2, <2>3 DEF SchedulerInvariant, Safe
<1>2. CASE UNCHANGED vars
  BY <1>2 DEF vars, SchedulerInvariant, TypeOK, StartedOnce, ClaimHasNoSession,
     MarkerStarted, ClaimInService, WorkedOnExists, cur
<1> QED
  BY <1>1, <1>2

(* The inductive invariant holds in every behaviour.                       *)
THEOREM SchedulerCorrect == Spec => []SchedulerInvariant
<1> QED
  BY SchedulerInit, SchedulerStep, PTL DEF Spec

(* Every variable keeps its type, and the thread has a schedule exactly    *)
(* where it works on one.                                                  *)
THEOREM SchedulerTypes == Spec => []TypeOK
<1>1. SchedulerInvariant => TypeOK
  BY DEF SchedulerInvariant
<1> QED
  BY <1>1, SchedulerCorrect, PTL

(* Exactly-once startup: a schedule starts at most one session, through    *)
(* cancellations, interrupted claims, replacements and restarts.           *)
THEOREM StartsOnce == Spec => []StartedOnce
<1>1. SchedulerInvariant => StartedOnce
  BY DEF SchedulerInvariant
<1> QED
  BY <1>1, SchedulerCorrect, PTL

(* The recovery of an interrupted claim never meets a session of its own.  *)
THEOREM ClaimsAreFresh == Spec => []ClaimHasNoSession
<1>1. SchedulerInvariant => ClaimHasNoSession
  BY DEF SchedulerInvariant
<1> QED
  BY <1>1, SchedulerCorrect, PTL

-----------------------------------------------------------------------------
(* Neither reconciliation nor a late failure mark, a replacement or a      *)
(* cancellation changes the outcome of a schedule.                         *)
THEOREM OutcomesAreFinal == Spec => OutcomeFinal
<1>1. ASSUME SchedulerInvariant, [Next]_vars
      PROVE  [\A s \in Schedules : status[s] \in Terminal => status'[s] = status[s]]_vars
  <2>1. CASE Next
    <3>1. ASSUME NEW s \in Schedules, Keeps(s) \/ Starts(s) \/ Changes(s) \/ Completes(s),
                 status[s] \in Terminal
          PROVE  status'[s] = status[s]
      BY <3>1 DEF Keeps, Starts, Changes, Completes, Due, Terminal
    <3> QED
      BY <1>1, <2>1, <3>1, StepMoves DEF SchedulerInvariant, StatusMoves
  <2> QED
    BY <1>1, <2>1
<1> QED
  BY <1>1, SchedulerCorrect, PTL DEF Spec, OutcomeFinal

-----------------------------------------------------------------------------
(* The scheduler implements ScheduledJobs. The state of one job:           *)
LEMMA JobStates ==
  ASSUME TypeOK
  PROVE  /\ JobState \in [Schedules -> Jobs!States]
         /\ \A s \in Schedules :
              /\ status[s] \in Due => JobState[s] = "open"
              /\ status[s] = "starting" => JobState[s] = "claimed"
              /\ status[s] \notin Due \cup {"starting"} => JobState[s] = status[s]
<1>1. \A s \in Schedules : status[s] \in Statuses
  BY DEF TypeOK
<1> QED
  BY <1>1 DEF JobState, Statuses, Due, Terminal, Jobs!States, Jobs!Dropped, Jobs!Over

LEMMA NextJobStates ==
  ASSUME TypeOK'
  PROVE  /\ JobState' \in [Schedules -> Jobs!States]
         /\ \A s \in Schedules :
              /\ status'[s] \in Due => JobState'[s] = "open"
              /\ status'[s] = "starting" => JobState'[s] = "claimed"
              /\ status'[s] \notin Due \cup {"starting"} => JobState'[s] = status'[s]
<1>1. \A s \in Schedules : status'[s] \in Statuses
  BY DEF TypeOK
<1> QED
  BY <1>1 DEF JobState, Statuses, Due, Terminal, Jobs!States, Jobs!Dropped, Jobs!Over

(* A move of a schedule is a move of its job, and the others stay or end.  *)
LEMMA JobMoves ==
  ASSUME SchedulerInvariant, SchedulerInvariant', NEW s \in Schedules, StatusMoves(s),
         UNCHANGED reported
  PROVE  Jobs!Advance(s)
<1> USE DEF Jobs!Moves, Jobs!Dropped, Jobs!Over, Due, Terminal
<1>0. TypeOK /\ TypeOK' /\ StartedOnce /\ StartedOnce'
  BY DEF SchedulerInvariant
<1>j. \A t \in Schedules :
        /\ status[t] \in Due => JobState[t] = "open"
        /\ status[t] = "starting" => JobState[t] = "claimed"
        /\ status[t] \notin Due \cup {"starting"} => JobState[t] = status[t]
  BY <1>0, JobStates
<1>k. \A t \in Schedules :
        /\ status'[t] \in Due => JobState'[t] = "open"
        /\ status'[t] = "starting" => JobState'[t] = "claimed"
        /\ status'[t] \notin Due \cup {"starting"} => JobState'[t] = status'[t]
  BY <1>0, NextJobStates
<1>b. \A t \in Schedules :
        /\ starts[t] \in 0 .. 1 /\ starts'[t] \in 0 .. 1
        /\ starts[t] = 1 => status[t] \in {"running", "completed", "failed"}
        /\ status[t] = "running" => starts[t] = 1
  <2> SUFFICES ASSUME NEW t \in Schedules
               PROVE  /\ starts[t] \in 0 .. 1 /\ starts'[t] \in 0 .. 1
                      /\ starts[t] = 1 => status[t] \in {"running", "completed", "failed"}
                      /\ status[t] = "running" => starts[t] = 1
    OBVIOUS
  <2>1. starts[t] \in Nat /\ starts'[t] \in Nat
    BY <1>0 DEF TypeOK
  <2>2. starts[t] <= 1 /\ starts'[t] <= 1
    BY <1>0 DEF StartedOnce
  <2>3. starts[t] \in 0 .. 1 /\ starts'[t] \in 0 .. 1
    BY <2>1, <2>2
  <2> QED
    BY <1>0, <2>3 DEF StartedOnce
<1>1. ASSUME NEW t \in Schedules, Keeps(t) PROVE Jobs!Stays(t)
  BY <1>1, <1>j, <1>k DEF Keeps, Jobs!Stays
<1>2. ASSUME NEW t \in Schedules, Completes(t) PROVE Jobs!End(t)
  BY <1>2, <1>j, <1>k, <1>b DEF Completes, Jobs!End
<1>3. ASSUME Starts(s) PROVE Jobs!Begin(s)
  <2>1. starts[s] = 0 /\ starts'[s] = 1
    BY <1>3, <1>b DEF Starts
  <2> QED
    BY <1>3, <1>j, <1>k, <2>1 DEF Starts, Jobs!Begin
<1>4. ASSUME Changes(s)
      PROVE  \/ Jobs!Create(s) \/ Jobs!Claim(s) \/ Jobs!GiveBack(s)
             \/ Jobs!Drop(s) \/ Jobs!End(s)
  <2>1. CASE status[s] = "none" /\ status'[s] = "scheduled"
    BY <1>4, <1>j, <1>k, <2>1 DEF Changes, Jobs!Create
  <2>2. CASE status[s] \in Due /\ status'[s] = "starting"
    BY <1>4, <1>j, <1>k, <2>2 DEF Changes, Jobs!Claim
  <2>3. CASE status[s] = "starting" /\ status'[s] \in Due
    BY <1>4, <1>j, <1>k, <2>3 DEF Changes, Jobs!GiveBack
  <2>4. CASE status[s] \in Due \cup {"starting"} /\ status'[s] \in Terminal \ {"completed"}
    <3>1. starts[s] = 0 /\ starts'[s] = 0
      BY <1>4, <1>b, <2>4 DEF Changes
    <3>2. JobState[s] \in {"open", "claimed"} /\ JobState'[s] \in {"skipped", "cancelled", "failed"}
      BY <1>j, <1>k, <2>4
    <3> QED
      BY <3>1, <3>2 DEF Jobs!Drop
  <2>5. CASE status[s] = "running" /\ status'[s] \in {"completed", "failed"}
    BY <1>4, <1>j, <1>k, <1>b, <2>5 DEF Changes, Jobs!End
  <2> QED
    BY <1>4, <2>1, <2>2, <2>3, <2>4, <2>5 DEF Changes
<1>5. \/ Jobs!Create(s) \/ Jobs!Claim(s) \/ Jobs!GiveBack(s) \/ Jobs!Drop(s)
      \/ Jobs!Begin(s) \/ Jobs!End(s) \/ Jobs!Stays(s)
  <2>1. CASE Keeps(s)
    BY <1>1, <2>1
  <2>2. CASE Starts(s)
    BY <1>3, <2>2
  <2>3. CASE Changes(s)
    BY <1>4, <2>3
  <2> QED
    BY <2>1, <2>2, <2>3 DEF StatusMoves
<1>6. \A t \in Schedules \ {s} : Jobs!Stays(t) \/ Jobs!End(t)
  BY <1>1, <1>2 DEF StatusMoves
<1>7. JobState' \in [Schedules -> Jobs!States] /\ starts' \in [Schedules -> 0 .. 1]
  <2>1. starts' = [t \in Schedules |-> starts'[t]]
    BY <1>0 DEF TypeOK
  <2> QED
    BY <1>0, <1>b, <2>1, NextJobStates
<1>8. UNCHANGED reported
  OBVIOUS
<1> QED
  BY <1>5, <1>6, <1>7, <1>8 DEF Jobs!Advance

(* A result is attached only to a session that is over, and once.          *)
LEMMA JobReports ==
  ASSUME SchedulerInvariant, AttachFinishedSessionResults
  PROVE  Jobs!Publish \/ UNCHANGED Jobs!vars
<1>0. TypeOK /\ StartedOnce
  BY DEF SchedulerInvariant
<1>1. UNCHANGED <<JobState, starts>>
  BY DEF AttachFinishedSessionResults, JobState
<1>2. CASE reported' = reported
  BY <1>1, <1>2 DEF Jobs!vars
<1>3. CASE reported' = [s \in Schedules |-> reported[s] \/ Summarises(s)]
  <2>1. ASSUME NEW s \in Schedules, Summarises(s)
        PROVE  Jobs!Report(s)
    <3>1. /\ status[s] \in {"completed", "failed"} /\ JobState[s] = status[s]
          /\ ~reported[s] /\ starts[s] = 1
      BY <1>0, <2>1, JobStates DEF Summarises, EndedOn, Due, TypeOK, StartedOnce
    <3> QED
      BY <1>3, <2>1, <3>1 DEF Jobs!Report, Jobs!Over
  <2>2. \A s \in Schedules : ~Summarises(s) => reported'[s] = reported[s]
    BY <1>0, <1>3 DEF TypeOK
  <2>3. reported' \in [Schedules -> BOOLEAN]
    BY <1>0, <1>3 DEF TypeOK, Summarises
  <2> QED
    BY <1>1, <2>1, <2>2, <2>3 DEF Jobs!Publish
<1> QED
  BY <1>2, <1>3 DEF AttachFinishedSessionResults

(* Every step of the scheduler is a step of the jobs or none.              *)
LEMMA JobStep ==
  ASSUME SchedulerInvariant, [Next]_vars
  PROVE  [Jobs!Next]_(Jobs!vars)
<1>1. SchedulerInvariant'
  BY SchedulerStep
<1>2. CASE AttachFinishedSessionResults
  BY <1>2, JobReports DEF Jobs!Next
<1>3. CASE Next /\ ~AttachFinishedSessionResults
  <2>1. reported' = reported
    BY <1>3 DEF Next, Scheduler, create_automation_schedule, cancel_automation_schedule, Start,
       Stop, WorkerStatus, BuySent, BuyAnswered, Settled, CycleBegins, ReconcileSchedule,
       ClaimNextDue, CycleEnds, PremiumBlocks, ClearHardStop, GiveWay, AwaitSettlement,
       SnapshotInvalid, StartSession, ApplyFails, MarkTerminal, TimePasses, ClaimExpires, Restart
  <2>2. CASE UNCHANGED <<status, starts>>
    BY <2>1, <2>2 DEF Jobs!vars, JobState
  <2>3. ASSUME NEW s \in Schedules, StatusMoves(s) PROVE Jobs!Next
    BY <1>1, <2>1, <2>3, JobMoves DEF Jobs!Next
  <2> QED
    BY <1>3, <2>2, <2>3, StepMoves DEF SchedulerInvariant
<1>4. CASE UNCHANGED vars
  BY <1>4 DEF vars, Jobs!vars, JobState
<1> QED
  BY <1>2, <1>3, <1>4

(* The scheduler implements ScheduledJobs, for any number of schedules: a  *)
(* schedule is claimed before it begins, begins once, is dropped only if   *)
(* it has not begun, ends only if it has, and gets one result.             *)
THEOREM SchedulerKeepsJobs == Spec => KeepsJobs
<1>1. Init => Jobs!Init
  <2> SUFFICES ASSUME Init PROVE Jobs!Init
    OBVIOUS
  <2>1. JobState = [s \in Schedules |-> "none"]
    BY DEF Init, JobState, Due
  <2> QED
    BY <2>1 DEF Init, Jobs!Init
<1>2. SchedulerInvariant /\ [Next]_vars => [Jobs!Next]_(Jobs!vars)
  BY JobStep
<1> QED
  BY <1>1, <1>2, SchedulerCorrect, PTL DEF Spec, KeepsJobs, Jobs!Spec

=============================================================================
