------------------------ MODULE AutomationScheduler ------------------------
(***************************************************************************)
(* The persistent scheduler of trading sessions: one thread of the API     *)
(* process that claims a due schedule, lifts the account's hard stop and   *)
(* starts the session, each in a transaction of its own, and that at the   *)
(* start of every cycle reconciles the schedules with their accounts and   *)
(* attaches a result to the finished ones. HTTP requests, the worker and   *)
(* restarts of the process come between any two of these transactions.     *)
(*                                                                         *)
(* Schedules are numbered in the order of their scheduled time.            *)
(***************************************************************************)
EXTENDS Integers

CONSTANTS Accounts,
          LastSchedule,  \* how many schedules are ever created
          AccountOf,     \* the managed account of each schedule
          MaxStarts,     \* AUTOMATION_SCHEDULE_MAX_STARTS_PER_CYCLE
          MaxRestarts    \* bound: restarts of the API process

Schedules  == 1 .. LastSchedule
NoSchedule == 0

ASSUME SchedulerAssumption ==
  /\ LastSchedule \in Nat /\ MaxStarts \in Nat /\ MaxRestarts \in Nat
  /\ AccountOf \in [Schedules -> Accounts]

VARIABLES status,    \* AutomationSchedule.status
          policy,    \* AutomationSchedule.overlap_policy
          due,       \* schedules 1 .. due have reached their time
          expired,   \* schedules whose claim_expires_at has passed
          enabled,   \* ManagedAccount.enabled
          rejected,  \* its execution status asks for a new token
          marker,    \* the schedule named in its execution_status_reason
          fence,     \* its hard-stop preference is active
          contract,  \* its current contract: none, BUY sent, or open Trade row
          window,    \* schedules in whose session that contract was bought
          reported,  \* whether a schedule's result is attached
          thread,    \* the scheduler thread
          starts,    \* history: sessions each schedule has started
          restarts

clock   == <<due, expired>>
account == <<enabled, rejected, marker, fence>>
trading == <<contract, window>>
vars == <<status, policy, due, expired, enabled, rejected, marker, fence,
          contract, window, reported, thread, starts, restarts>>

Due      == {"scheduled", "waiting"}
Terminal == {"completed", "skipped", "cancelled", "failed"}
Statuses == Due \cup Terminal \cup {"none", "starting", "running"}
Policies == {"wait", "skip", "replace"}
ThreadPcs == {"idle", "reconcile", "claim", "clear", "apply", "mark"}

ThreadState == [pc : ThreadPcs, cur : Schedules \cup {NoSchedule},
                todo : SUBSET Schedules, left : 0 .. MaxStarts]

Idle == [pc |-> "idle", cur |-> NoSchedule, todo |-> {}, left |-> 0]

Init ==
  /\ status = [s \in Schedules |-> "none"] /\ policy = [s \in Schedules |-> "wait"]
  /\ due = 0 /\ expired = {}
  /\ enabled = [a \in Accounts |-> FALSE] /\ rejected = [a \in Accounts |-> FALSE]
  /\ marker = [a \in Accounts |-> NoSchedule] /\ fence = [a \in Accounts |-> FALSE]
  /\ contract = [a \in Accounts |-> "none"] /\ window = [a \in Accounts |-> {}]
  /\ reported = [s \in Schedules |-> FALSE]
  /\ thread = Idle
  /\ starts = [s \in Schedules |-> 0] /\ restarts = 0

RunningOn(a) == {s \in Schedules : AccountOf[s] = a /\ status[s] = "running"}
EndedOn(a) ==
  {s \in Schedules : /\ AccountOf[s] = a /\ starts[s] > 0
                     /\ status[s] \in {"completed", "failed"}}
IsFirst(s, S) == s \in S /\ \A t \in S : s <= t

-----------------------------------------------------------------------------
(* The trader.                                                             *)

create_automation_schedule(s) ==
  /\ status[s] = "none" /\ s > due
  /\ status' = [status EXCEPT ![s] = "scheduled"]
  /\ \E p \in Policies : policy' = [policy EXCEPT ![s] = p]
  /\ UNCHANGED <<clock, account, trading, reported, thread, starts, restarts>>

MutCancelKeepsClaim(s) ==   \* mutant: the claim outlives the cancellation
  /\ status[s] \notin Terminal \cup {"none", "running"}
  /\ status' = [status EXCEPT ![s] = "cancelled"]
  /\ UNCHANGED <<policy, clock, account, trading, reported, thread, starts, restarts>>
cancel_automation_schedule(s) ==
  /\ status[s] \notin Terminal \cup {"none", "running"}
  /\ status' = [status EXCEPT ![s] = "cancelled"]
  /\ expired' = expired \ {s}
  /\ UNCHANGED <<policy, due, account, trading, reported, thread, starts, restarts>>

(* A write of the account row names no scheduled session any more.         *)
SetAccount(a, on, bad) ==
  /\ enabled' = [enabled EXCEPT ![a] = on]
  /\ rejected' = [rejected EXCEPT ![a] = bad]
  /\ marker' = [marker EXCEPT ![a] = NoSchedule]

Start(a) ==
  /\ SetAccount(a, TRUE, FALSE) /\ fence' = [fence EXCEPT ![a] = FALSE]
  /\ UNCHANGED <<status, policy, clock, trading, reported, thread, starts, restarts>>

Stop(a) ==
  /\ SetAccount(a, FALSE, FALSE) /\ fence' = [fence EXCEPT ![a] = TRUE]
  /\ UNCHANGED <<status, policy, clock, trading, reported, thread, starts, restarts>>

-----------------------------------------------------------------------------
(* The worker: it writes statuses of its own, stops at a session limit,    *)
(* quarantines an account and repairs the quarantine, and trades.          *)

WorkerStatus(a) ==
  /\ \/ enabled[a] /\ SetAccount(a, TRUE, FALSE)
     \/ enabled[a] /\ SetAccount(a, FALSE, FALSE)
     \/ SetAccount(a, FALSE, TRUE)
     \/ ~enabled[a] /\ rejected[a] /\ ~fence[a] /\ SetAccount(a, TRUE, FALSE)
  /\ UNCHANGED <<status, policy, clock, fence, trading, reported, thread, starts, restarts>>

(* The provider's purchase time falls into the session of every schedule   *)
(* running then, and of one that ended at most two seconds ago: of any     *)
(* that have ended, as times are left out.                                 *)
BuySent(a) ==
  /\ enabled[a] /\ contract[a] = "none"
  /\ contract' = [contract EXCEPT ![a] = "sent"]
  /\ \E late \in SUBSET EndedOn(a) :
       window' = [window EXCEPT ![a] = RunningOn(a) \cup late]
  /\ UNCHANGED <<status, policy, clock, account, reported, thread, starts, restarts>>

(* The BUY is answered: its Trade row is written, or it was refused.       *)
BuyAnswered(a) ==
  /\ contract[a] = "sent"
  /\ \/ /\ contract' = [contract EXCEPT ![a] = "open"]
        /\ UNCHANGED window
     \/ /\ contract' = [contract EXCEPT ![a] = "none"]
        /\ window' = [window EXCEPT ![a] = {}]
  /\ UNCHANGED <<status, policy, clock, account, reported, thread, starts, restarts>>

Settled(a) ==
  /\ contract[a] = "open"
  /\ contract' = [contract EXCEPT ![a] = "none"] /\ window' = [window EXCEPT ![a] = {}]
  /\ UNCHANGED <<status, policy, clock, account, reported, thread, starts, restarts>>

-----------------------------------------------------------------------------
(* The scheduler thread: run_scheduler_cycle.                              *)

cur  == thread.cur
Acct == AccountOf[cur]

To(pc) == thread' = CASE pc = "idle"  -> Idle
                      [] pc = "claim" -> [thread EXCEPT !.pc = pc, !.cur = NoSchedule]
                      [] OTHER        -> [thread EXCEPT !.pc = pc]

CycleBegins ==
  /\ thread.pc = "idle"
  /\ thread' = [Idle EXCEPT !.pc = "reconcile", !.left = MaxStarts,
                  !.todo = {s \in Schedules : status[s] \in {"running", "starting"}}]
  /\ UNCHANGED <<status, policy, clock, account, trading, reported, starts, restarts>>

MutClaimsAbandoned(s, past) ==   \* mutant: an interrupted claim is left as it is
  LET a == AccountOf[s] IN
  CASE status[s] = "running" /\ ~enabled[a] -> IF rejected[a] THEN "failed" ELSE "completed"
    [] OTHER -> status[s]
MutRunningForgotten(s, past) ==   \* mutant: only claims are reconciled
  LET a == AccountOf[s] IN
  CASE status[s] = "starting" /\ enabled[a] ->
         IF marker[a] = s THEN "running" ELSE "waiting"
    [] status[s] = "starting" /\ ~enabled[a] /\ s \in expired ->
         IF past THEN "skipped" ELSE "scheduled"
    [] OTHER -> status[s]
(* What _reconcile_running_schedules makes of a schedule that is past the  *)
(* late-start grace, or not.                                               *)
Reconciled(s, past) ==
  LET a == AccountOf[s] IN
  CASE status[s] = "starting" /\ enabled[a] ->
         IF marker[a] = s THEN "running" ELSE "waiting"
    [] status[s] = "starting" /\ ~enabled[a] /\ s \in expired ->
         IF past THEN "skipped" ELSE "scheduled"
    [] status[s] = "running" /\ ~enabled[a] ->
         IF rejected[a] THEN "failed" ELSE "completed"
    [] OTHER -> status[s]

(* One schedule of the list read at the start of the cycle, under its row  *)
(* lock; its account is read without one.                                  *)
ReconcileSchedule(s) ==
  /\ thread.pc = "reconcile" /\ IsFirst(s, thread.todo)
  /\ \E past \in BOOLEAN :
       /\ status' = [status EXCEPT ![s] = Reconciled(s, past)]
       /\ expired' = IF Reconciled(s, past) = "starting" THEN expired ELSE expired \ {s}
  /\ thread' = [thread EXCEPT !.todo = @ \ {s}]
  /\ UNCHANGED <<policy, due, account, trading, reported, starts, restarts>>

(* A finished session gets its result once, unless a contract bought in it *)
(* is still open. One whose BUY is unanswered has no row yet.              *)
Summarises(s) ==
  /\ s \in EndedOn(AccountOf[s]) /\ ~reported[s]
  /\ ~(contract[AccountOf[s]] = "open" /\ s \in window[AccountOf[s]])

AttachFinishedSessionResults ==
  /\ thread.pc = "reconcile" /\ thread.todo = {}
  /\ reported' \in {reported, [s \in Schedules |-> reported[s] \/ Summarises(s)]}
  /\ To("claim")
  /\ UNCHANGED <<status, policy, clock, account, trading, starts, restarts>>

(* The first due schedule is claimed, whatever its last outcome was. One   *)
(* that never waited may be past the late-start grace: it is skipped, and  *)
(* the cycle ends.                                                         *)
ClaimNextDue(s) ==
  /\ thread.pc = "claim" /\ thread.left > 0
  /\ IsFirst(s, {t \in 1 .. due : status[t] \in Due})
  /\ \/ /\ status' = [status EXCEPT ![s] = "starting"]
        /\ thread' = [thread EXCEPT !.pc = "clear", !.cur = s, !.left = @ - 1]
     \/ /\ status[s] = "scheduled"
        /\ status' = [status EXCEPT ![s] = "skipped"]
        /\ To("idle")
  /\ UNCHANGED <<policy, clock, account, trading, reported, starts, restarts>>

CycleEnds ==
  /\ thread.pc = "claim"
  /\ thread.left = 0 \/ {t \in 1 .. due : status[t] \in Due} = {}
  /\ To("idle")
  /\ UNCHANGED <<status, policy, clock, account, trading, reported, starts, restarts>>

MutStartableWhenever == status[cur] # "running"   \* mutant: only a second start is refused
Startable == status[cur] = "starting"

(* _premium_schedule_apply: without premium the schedule is skipped, and   *)
(* its account paused, before anything of the start is tried.              *)
PremiumBlocks ==
  /\ thread.pc = "clear" /\ Startable
  /\ status' = [status EXCEPT ![cur] = "skipped"]
  /\ \/ enabled[Acct] /\ SetAccount(Acct, FALSE, FALSE)
     \/ ~enabled[Acct] /\ UNCHANGED <<enabled, rejected, marker>>
  /\ To("claim")
  /\ UNCHANGED <<policy, clock, fence, trading, reported, starts, restarts>>

(* apply_schedule_strategy_v2 lifts the fence before it knows the outcome. *)
ClearHardStop ==
  /\ thread.pc = "clear"
  /\ fence' = [fence EXCEPT ![Acct] = @ /\ status[cur] # "starting"]
  /\ To("apply")
  /\ UNCHANGED <<status, policy, clock, enabled, rejected, marker, trading, reported,
                 starts, restarts>>

(* The schedule gives way to a session that is still active.               *)
GiveWay ==
  /\ thread.pc = "apply" /\ Startable /\ ~rejected[Acct]
  /\ enabled[Acct] /\ policy[cur] \in {"wait", "skip"}
  /\ status' = [status EXCEPT ![cur] = IF policy[cur] = "wait" THEN "waiting" ELSE "skipped"]
  /\ To("claim")
  /\ UNCHANGED <<policy, clock, account, trading, reported, starts, restarts>>

(* The account is free, or its session is replaced: _set_stopped and       *)
(* _finish_replaced_running_schedules.                                     *)
Free == ~enabled[Acct] \/ policy[cur] = "replace"
Ended == [s \in Schedules |->
           IF enabled[Acct] /\ s \in RunningOn(Acct) \ {cur} THEN "completed" ELSE status[s]]

(* An open contract postpones the start, after the replaced session ended. *)
AwaitSettlement ==
  /\ thread.pc = "apply" /\ Startable /\ ~rejected[Acct] /\ Free
  /\ contract[Acct] = "open"
  /\ status' = [Ended EXCEPT ![cur] = "waiting"]
  /\ SetAccount(Acct, FALSE, FALSE)
  /\ To("claim")
  /\ UNCHANGED <<policy, clock, fence, trading, reported, starts, restarts>>

(* An invalid snapshot: the transaction is committed up to there.          *)
SnapshotInvalid ==
  /\ thread.pc = "apply" /\ Startable /\ ~rejected[Acct] /\ Free
  /\ contract[Acct] # "open"
  /\ status' = Ended
  /\ SetAccount(Acct, FALSE, FALSE)
  /\ To("mark")
  /\ UNCHANGED <<policy, clock, fence, trading, reported, starts, restarts>>

MutStartsTwice ==   \* mutant: the start leaves the claim in place
  /\ thread.pc = "apply" /\ Startable /\ ~rejected[Acct] /\ Free
  /\ contract[Acct] # "open"
  /\ status' = Ended
  /\ starts' = [starts EXCEPT ![cur] = @ + 1]
  /\ enabled' = [enabled EXCEPT ![Acct] = TRUE]
  /\ marker' = [marker EXCEPT ![Acct] = cur]
  /\ To("claim")
  /\ UNCHANGED <<policy, clock, rejected, fence, trading, reported, restarts>>
(* The session starts. The audit row that follows the commit may fail.     *)
StartSession ==
  /\ thread.pc = "apply" /\ Startable /\ ~rejected[Acct] /\ Free
  /\ contract[Acct] # "open"
  /\ status' = [Ended EXCEPT ![cur] = "running"]
  /\ starts' = [starts EXCEPT ![cur] = @ + 1]
  /\ enabled' = [enabled EXCEPT ![Acct] = TRUE]
  /\ marker' = [marker EXCEPT ![Acct] = cur]
  /\ To("claim") \/ To("mark")
  /\ UNCHANGED <<policy, clock, rejected, fence, trading, reported, restarts>>

(* No longer startable, no token, or an exception before the commit.       *)
ApplyFails ==
  /\ thread.pc \in {"clear", "apply"}
  /\ To("mark")
  /\ UNCHANGED <<status, policy, clock, account, trading, reported, starts, restarts>>

MarkTerminal ==
  /\ thread.pc = "mark"
  /\ status' = [status EXCEPT ![cur] = IF @ \in Terminal THEN @ ELSE "failed"]
  /\ To("claim")
  /\ UNCHANGED <<policy, clock, account, trading, reported, starts, restarts>>

-----------------------------------------------------------------------------
(* Time, and the death of the API process.                                 *)

TimePasses ==
  /\ due < LastSchedule /\ due' = due + 1
  /\ UNCHANGED <<status, policy, expired, account, trading, reported, thread, starts, restarts>>

(* (The lease of the claim the thread still works on matters to nobody.)   *)
ClaimExpires(s) ==
  /\ status[s] = "starting" /\ s # cur /\ expired' = expired \cup {s}
  /\ UNCHANGED <<status, policy, due, account, trading, reported, thread, starts, restarts>>

Restart ==
  /\ restarts < MaxRestarts /\ restarts' = restarts + 1
  /\ thread' = Idle
  /\ UNCHANGED <<status, policy, clock, account, trading, reported, starts>>

Scheduler ==
  \/ CycleBegins \/ (\E s \in Schedules : ReconcileSchedule(s))
  \/ AttachFinishedSessionResults
  \/ (\E s \in Schedules : ClaimNextDue(s)) \/ CycleEnds
  \/ PremiumBlocks \/ ClearHardStop \/ GiveWay \/ AwaitSettlement \/ SnapshotInvalid
  \/ StartSession \/ ApplyFails \/ MarkTerminal

Next ==
  \/ \E s \in Schedules : create_automation_schedule(s) \/ cancel_automation_schedule(s)
  \/ \E a \in Accounts : Start(a) \/ Stop(a) \/ WorkerStatus(a)
                         \/ BuySent(a) \/ BuyAnswered(a) \/ Settled(a)
  \/ Scheduler
  \/ TimePasses \/ (\E s \in Schedules : ClaimExpires(s)) \/ Restart

Spec == Init /\ [][Next]_vars

(* The loop runs a cycle every quarter of a second, and a claim that is    *)
(* not resolved expires after 45 seconds.                                  *)
Fairness ==
  /\ WF_vars(Scheduler)
  /\ \A s \in Schedules : WF_vars(ClaimExpires(s))

FairSpec == Spec /\ Fairness

-----------------------------------------------------------------------------
(* Every variable keeps its type, and the thread works on the schedule it  *)
(* claimed exactly between claim and outcome.                              *)
TypeOK ==
  /\ status \in [Schedules -> Statuses] /\ policy \in [Schedules -> Policies]
  /\ due \in 0 .. LastSchedule
  /\ expired \subseteq {s \in Schedules : status[s] = "starting"}
  /\ enabled \in [Accounts -> BOOLEAN] /\ rejected \in [Accounts -> BOOLEAN]
  /\ marker \in [Accounts -> Schedules \cup {NoSchedule}]
  /\ fence \in [Accounts -> BOOLEAN]
  /\ contract \in [Accounts -> {"none", "sent", "open"}]
  /\ window \in [Accounts -> SUBSET Schedules]
  /\ reported \in [Schedules -> BOOLEAN]
  /\ thread \in ThreadState
  /\ thread.pc \in {"clear", "apply", "mark"} => thread.cur \in Schedules
  /\ starts \in [Schedules -> Nat] /\ restarts \in 0 .. MaxRestarts

(* Exactly-once startup: through cancellations between claim and start,    *)
(* interrupted claims, replacements and restarts, a schedule starts at     *)
(* most one session, and one that has started is never shown or retried as *)
(* if it had not.                                                          *)
StartedOnce ==
  \A s \in Schedules :
    /\ starts[s] <= 1
    /\ starts[s] = 1 => status[s] \in {"running", "completed", "failed"}
    /\ status[s] \in {"running", "completed"} => starts[s] = 1

(* The recovery of an interrupted claim never meets a session of its own:  *)
(* a claimed schedule is not the one its account's status names.           *)
ClaimHasNoSession ==
  \A s \in Schedules : status[s] = "starting" => marker[AccountOf[s]] # s

(* Why these are preserved: a session names a schedule only if it is the   *)
(* one that schedule has started, and no other cycle recovers the claim    *)
(* the thread works on.                                                    *)
MarkerStarted  == \A s \in Schedules : marker[AccountOf[s]] = s => starts[s] = 1
ClaimInService == cur \notin expired
WorkedOnExists == thread.pc \in {"clear", "apply", "mark"} => status[cur] # "none"

SchedulerInvariant ==
  /\ TypeOK
  /\ StartedOnce
  /\ ClaimHasNoSession
  /\ MarkerStarted
  /\ ClaimInService
  /\ WorkedOnExists

(* No writer (the cycle's reconciliation, a late failure mark, a           *)
(* replacement, a cancellation) changes the outcome of a schedule.         *)
OutcomeFinal ==
  [][\A s \in Schedules : status[s] \in Terminal => status'[s] = status[s]]_vars

(* The scheduler does what ScheduledJobs promises: through interleaved     *)
(* requests, interrupted claims, replacements and restarts, each schedule  *)
(* is claimed before it begins, begins once, ends only if it has begun, is *)
(* dropped only if it has not, and gets its result once.                   *)
JobState ==
  [s \in Schedules |-> CASE status[s] \in Due     -> "open"
                         [] status[s] = "starting" -> "claimed"
                         [] OTHER                  -> status[s]]

Jobs == INSTANCE ScheduledJobs WITH
          Jobs <- Schedules, state <- JobState, begun <- starts,
          reported <- reported

KeepsJobs == Jobs!Spec

(* A claim is always resolved, also one a restart has interrupted.         *)
ClaimResolved ==
  \A s \in Schedules : status[s] = "starting" ~> status[s] # "starting"

(* The schedule of an account that stays stopped does not stay running.    *)
RunningEnds ==
  \A s \in Schedules :
    <>[](~enabled[AccountOf[s]]) => <>[](status[s] # "running")

(* Once no session begins or ends any more, a due schedule whose own       *)
(* account is free is admitted: it leaves the state it was created in.     *)
DueAdmitted ==
  \A s \in Schedules :
    <>[](~enabled[AccountOf[s]]) /\ <>[][FALSE]_enabled =>
      (s <= due /\ status[s] = "scheduled" ~> status[s] # "scheduled")

(* The result of a session is attached when every contract bought in it is *)
(* settled.                                                                *)
ResultComplete ==
  [][\A s \in Schedules : reported'[s] /\ ~reported[s] =>
       \A a \in Accounts : s \notin window[a]]_vars
=============================================================================
