----------------------------- MODULE VirtualHook -----------------------------
(***************************************************************************)
(* The Virtual Hook of one Custom Strategy account: after a number of real *)
(* losses, signals only open zero-stake observations (VirtualTrade rows),  *)
(* and a number of consecutive virtual wins unlocks the real recovery.     *)
(*                                                                         *)
(* The worker counts the ticks it receives and settles an observation on   *)
(* the tick its row names. What keeps real money out meanwhile is memory:  *)
(* the due table and the set of held accounts, rebuilt from the rows by    *)
(* every refresh. Ticks are handled one at a time, but a handler awaits    *)
(* between settling and scheduling, and contract updates, tasks and        *)
(* refreshes run then.                                                     *)
(*                                                                         *)
(* Provider epochs are kept as offsets from the last tick the provider     *)
(* sent to this worker. The hook is on, and one market is traded.          *)
(***************************************************************************)
EXTENDS Integers

CONSTANTS EnterAfter,   \* real losses that enter virtual mode
          ExitAfter,    \* consecutive virtual wins that leave it
          Duration,     \* ticks of a contract
          BufferSize,   \* ticks kept for late settlement (64 in the code)
          MaxSeq,       \* bound: the tick counter saturates
          MaxRestarts   \* bound: deaths of the worker

ASSUME HookAssumption ==
  /\ EnterAfter \in Nat \ {0} /\ ExitAfter \in Nat \ {0}
  /\ Duration \in Nat \ {0} /\ BufferSize \in Nat \ {0}
  /\ MaxSeq \in Nat /\ MaxRestarts \in Nat

VARIABLES running,    \* the account is started
          mode, debt, losses, wins,   \* AccountRiskState
          row, entry, \* the latest VirtualTrade row and its entry tick
          open,       \* a real contract is open
          seq,        \* the worker's tick counter
          handling,   \* the tick handler is between settling and scheduling
          admitted,   \* the account is in _custom_direct_accounts
          due, held,  \* _custom_direct_virtual_due, _custom_virtual_open_ids
          resume,     \* _custom_virtual_resume_after names the current tick
          task,       \* the account's task, and the real path it is on
          sig,        \* tick of the task's signal
          arming,     \* settlement epoch of a handler still awaiting
          barrier,    \* epoch of the post-loss barrier
          missed,     \* history: a tick the observation needs was not seen
          lossAt,     \* history: settlement epoch of the last real loss
          served,     \* history: virtual wins in a row since then
          restarts

risk   == <<mode, debt, losses, wins>>
sample == <<row, entry, missed>>
ticks  == <<seq, handling, resume>>
lock   == <<admitted, due, held>>
work   == <<task, sig>>
epochs == <<arming, barrier, lossAt>>
vars == <<running, mode, debt, losses, wins, row, entry, open, seq, handling,
          admitted, due, held, resume, task, sig, arming, barrier,
          missed, lossAt, served, restarts>>

Modes == {"NORMAL", "REAL", "VIRTUAL"}
Ended == {"win", "loss", "void"}
None == -2   \* no epoch
Exit == entry + Duration

Min2(a, b) == IF a <= b THEN a ELSE b

(* The next provider tick moves every epoch one into the past.             *)
Older(e) == IF e > -1 THEN e - 1 ELSE e

Init ==
  /\ running = FALSE
  /\ mode = "NORMAL" /\ debt = FALSE /\ losses = 0 /\ wins = 0
  /\ row = "none" /\ entry = 0 /\ open = FALSE
  /\ seq = 0 /\ handling = FALSE /\ admitted = FALSE
  /\ due = FALSE /\ held = FALSE /\ resume = FALSE
  /\ task = "none" /\ sig = 0
  /\ arming = None /\ barrier = None
  /\ missed = FALSE /\ lossAt = -1 /\ served = 0 /\ restarts = 0

-----------------------------------------------------------------------------
(* Ticks.                                                                  *)

(* _void_for_retry: a void sample with a debt puts the account (back) into *)
(* virtual mode.                                                           *)
VoidForRetry ==
  /\ row' = "void"
  /\ mode' = IF debt THEN "VIRTUAL" ELSE mode
  /\ UNCHANGED <<debt, wins, served>>

MutKeepsWins(won) ==   \* mutant: a virtual loss does not break the row of wins
  /\ row' = IF won THEN "win" ELSE "loss"
  /\ wins' = IF won THEN wins + 1 ELSE wins
  /\ mode' = IF won /\ wins' >= ExitAfter THEN "REAL" ELSE "VIRTUAL"
  /\ served' = IF won THEN served + 1 ELSE 0
  /\ UNCHANGED debt
(* _settle_one: enough consecutive wins arm the real recovery.             *)
SettleOne(won) ==
  /\ row' = IF won THEN "win" ELSE "loss"
  /\ wins' = IF won THEN wins + 1 ELSE 0
  /\ mode' = IF won /\ wins' >= ExitAfter THEN "REAL" ELSE "VIRTUAL"
  /\ served' = IF won THEN served + 1 ELSE 0
  /\ UNCHANGED debt

(* _snapshot_for_sequence: the tick is one of this process's last ones.    *)
Snapshot(exit) == exit \in 1 .. seq' /\ seq' - exit < BufferSize

Unlock ==
  /\ due' = FALSE /\ held' = FALSE /\ resume' = TRUE
  /\ UNCHANGED <<admitted, entry, losses>>

MutNeverVoids ==   \* mutant: without the exit tick, wait for it
  \/ /\ due /\ row = "open" /\ Snapshot(Exit)
     /\ \E won \in BOOLEAN : SettleOne(won)
     /\ Unlock
  \/ /\ due /\ row = "open" /\ ~Snapshot(Exit) /\ resume' = FALSE
     /\ UNCHANGED <<lock, risk, row, entry, served>>
  \/ /\ ~due /\ resume' = FALSE
     /\ UNCHANGED <<lock, risk, row, entry, served>>
(* _settle_virtual_mirror: an entry of a later tick is another process's,  *)
(* and its sample is void, as is one whose exit tick is out of the buffer. *)
(* A settled or void row releases the lock. (A row no other process ends   *)
(* cannot vanish, and its risk row exists.)                                *)
SettleVirtualMirror ==
  \/ /\ due /\ row = "open"
     /\ entry > seq' \/ (Exit <= seq' /\ ~Snapshot(Exit))
                     \/ (Exit <= seq' /\ mode # "VIRTUAL" /\ ~debt)
     /\ VoidForRetry /\ Unlock
  \/ /\ due /\ row = "open"
     /\ entry <= seq' /\ Snapshot(Exit) /\ (mode = "VIRTUAL" \/ debt)
     /\ \E won \in BOOLEAN : SettleOne(won)
     /\ Unlock
  \/ /\ due => entry <= seq' /\ Exit > seq'
     /\ resume' = FALSE
     /\ UNCHANGED <<lock, risk, row, entry, served>>

(* _direct_on_tick up to its await.                                        *)
HandleTick ==
  /\ ~handling /\ handling' = TRUE
  /\ seq' = Min2(seq + 1, MaxSeq)
  /\ arming' = Older(arming) /\ barrier' = Older(barrier) /\ lossAt' = Older(lossAt)
  /\ SettleVirtualMirror
  /\ UNCHANGED <<running, open, work, missed, restarts>>

MutBarred == barrier > 0 /\ mode = "VIRTUAL"   \* mutant: the settlement's own tick passes
(* schedule_only_after_future_post_loss_tick.                              *)
Barred == barrier >= 0 /\ mode = "VIRTUAL"

(* _schedule_account_matches, inside the two barrier wrappers.             *)
MaySchedule ==
  /\ admitted /\ task = "none" /\ ~open
  /\ ~due /\ ~held
  /\ ~resume /\ ~Barred

(* The rest of the handler: the account's conditions may match this tick.  *)
FinishTick ==
  /\ handling /\ handling' = FALSE
  /\ barrier' = IF Barred THEN barrier ELSE None
  /\ \/ /\ MaySchedule
        /\ seq + Duration + BufferSize <= MaxSeq   \* bound
        /\ task' = "signal" /\ sig' = seq /\ missed' = FALSE
     \/ UNCHANGED <<work, missed>>
  /\ UNCHANGED <<running, risk, row, entry, open, seq, resume, lock,
                 arming, lossAt, served, restarts>>

(* The stream loses a tick: its epoch passes, the counter does not see it. *)
MissTick ==
  /\ ~handling
  /\ missed' = (missed \/ (row = "open" /\ seq < Exit)
                       \/ (task = "signal" /\ seq < sig + Duration))
  /\ arming' = Older(arming) /\ barrier' = Older(barrier) /\ lossAt' = Older(lossAt)
  /\ UNCHANGED <<running, risk, row, entry, open, ticks, lock, work, served, restarts>>

-----------------------------------------------------------------------------
(* The account's task.                                                     *)

(* start_virtual_trade, reached without an await.                          *)
StartVirtualTrade ==
  /\ task = "signal" /\ mode = "VIRTUAL" /\ row # "open"
  /\ row' = "open" /\ entry' = sig
  /\ due' = TRUE /\ task' = "none"
  /\ UNCHANGED <<running, risk, open, ticks, admitted, held, sig, missed,
                 epochs, served, restarts>>

ExecuteReal ==
  /\ task = "signal" /\ mode # "VIRTUAL"
  /\ task' = "real"
  /\ UNCHANGED <<running, risk, sample, open, ticks, lock, sig, epochs, served, restarts>>

(* plan_stake vetoes virtual mode, and forgets the debt of another day.    *)
BuyReal ==
  /\ task = "real" /\ mode # "VIRTUAL"
  /\ open' = TRUE /\ task' = "none"
  /\ \/ UNCHANGED <<risk, served>>
     \/ mode' = "NORMAL" /\ debt' = FALSE /\ losses' = 0 /\ wins' = 0 /\ served' = 0
  /\ UNCHANGED <<running, sample, ticks, lock, sig, epochs, restarts>>

(* No purchase; a failure also drops the account from the runtime, and     *)
(* keeps its observation (_drop_stale_execution_runtime).                  *)
TaskFails ==
  /\ task # "none" /\ task' = "none"
  /\ UNCHANGED admitted \/ admitted' = FALSE
  /\ UNCHANGED <<running, risk, sample, open, ticks, due, held, sig, epochs,
                 served, restarts>>

-----------------------------------------------------------------------------
(* Real contracts.                                                         *)

MutEntersWithWins ==   \* mutant: the wins of an earlier cycle count on
  /\ losses' = Min2(losses + 1, EnterAfter) /\ debt' = TRUE
  /\ mode' = IF losses' = EnterAfter THEN "VIRTUAL" ELSE "REAL"
  /\ UNCHANGED wins
(* A real loss, as RecordLoss to ForceRecovery of RecoveryLedger book it:  *)
(* at the threshold the account enters virtual mode with no wins.          *)
BookLoss ==
  /\ losses' = Min2(losses + 1, EnterAfter) /\ debt' = TRUE
  /\ mode' = IF mode = "VIRTUAL" \/ losses' = EnterAfter THEN "VIRTUAL" ELSE "REAL"
  /\ wins' = IF mode' = "VIRTUAL" /\ mode # "VIRTUAL" THEN 0 ELSE wins

(* A real win pays the debt or one part of it.                             *)
BookWin ==
  /\ losses' = 0 /\ (UNCHANGED debt \/ debt' = FALSE)
  /\ mode' = IF debt' THEN "REAL" ELSE "NORMAL"
  /\ UNCHANGED wins

(* The settlement is booked and the runtime released in one stretch; its   *)
(* epoch is that of the last tick received, or of the next one.            *)
SettleReal ==
  /\ open /\ open' = FALSE
  /\ \/ /\ BookLoss /\ served' = 0
        /\ \E at \in {0, 1} : lossAt' = at /\ arming' = at
     \/ BookWin /\ UNCHANGED <<lossAt, arming, served>>
  /\ UNCHANGED <<running, sample, ticks, lock, work, barrier, restarts>>

(* handle_contract_then_arm_virtual_barrier, after the awaits of the inner *)
(* handler.                                                                *)
ArmBarrier ==
  /\ arming # None /\ arming' = None
  /\ barrier' = IF mode = "VIRTUAL" THEN arming ELSE barrier
  /\ UNCHANGED <<running, risk, sample, open, ticks, lock, work, lossAt, served, restarts>>

-----------------------------------------------------------------------------
(* Refresh, lifecycle, restarts.                                           *)

MutRefreshTrustsMemory(valid) ==   \* mutant: rows are not read again
  /\ admitted' = valid /\ UNCHANGED <<due, held>>
(* _refresh_with_virtual_lock, and the teardown of removed accounts.       *)
RestoreOpenVirtuals(valid) ==
  /\ admitted' = valid
  /\ held' = (valid /\ row = "open")
  /\ due' = IF admitted /\ ~valid THEN FALSE ELSE due \/ held'

Refresh(valid) ==
  /\ valid => running
  /\ RestoreOpenVirtuals(valid)
  /\ task' = IF valid THEN task ELSE "none"
  /\ UNCHANGED <<running, risk, sample, open, ticks, sig, epochs, served, restarts>>

Stop ==
  /\ running /\ running' = FALSE
  /\ UNCHANGED <<risk, sample, open, ticks, lock, work, epochs, served, restarts>>

(* _reset_risk_state_bounded; an OPEN row stays as it is.                  *)
Start ==
  /\ ~running /\ running' = TRUE
  /\ mode' = "NORMAL" /\ debt' = FALSE /\ losses' = 0 /\ wins' = 0 /\ served' = 0
  /\ UNCHANGED <<sample, open, ticks, lock, work, epochs, restarts>>

(* Only rows survive. A restart takes longer than a tick.                  *)
Restart ==
  /\ restarts < MaxRestarts /\ restarts' = restarts + 1
  /\ seq' = 0 /\ handling' = FALSE /\ admitted' = FALSE
  /\ due' = FALSE /\ held' = FALSE /\ resume' = FALSE
  /\ task' = "none" /\ sig' = 0 /\ arming' = None /\ barrier' = None
  /\ missed' = (missed \/ row = "open") /\ lossAt' = -1
  /\ UNCHANGED <<running, risk, row, entry, open, served>>

Next ==
  \/ HandleTick \/ FinishTick \/ MissTick
  \/ StartVirtualTrade \/ ExecuteReal \/ BuyReal \/ TaskFails
  \/ SettleReal \/ ArmBarrier
  \/ (\E valid \in BOOLEAN : Refresh(valid)) \/ Stop \/ Start \/ Restart

(* The stream keeps delivering, the handler's awaits are bounded, and the  *)
(* periodic refresh admits a running account again, now and then between   *)
(* two ticks, however often its session is lost.                           *)
Fairness ==
  /\ WF_vars(FinishTick)
  /\ SF_vars(HandleTick /\ admitted)
  /\ SF_vars(Refresh(TRUE) /\ ~admitted /\ ~handling)

Spec == Init /\ [][Next]_vars
FairSpec == Spec /\ Fairness

-----------------------------------------------------------------------------
TypeOK ==
  /\ running \in BOOLEAN /\ mode \in Modes /\ debt \in BOOLEAN
  /\ losses \in 0 .. EnterAfter /\ wins \in 0 .. ExitAfter
  /\ row \in {"none", "open"} \cup Ended /\ entry \in 0 .. MaxSeq
  /\ open \in BOOLEAN /\ seq \in 0 .. MaxSeq /\ handling \in BOOLEAN
  /\ admitted \in BOOLEAN /\ due \in BOOLEAN /\ held \in BOOLEAN
  /\ resume \in BOOLEAN
  /\ task \in {"none", "signal", "real"} /\ sig \in 0 .. MaxSeq
  /\ arming \in None .. 1 /\ barrier \in None .. 1 /\ lossAt \in -1 .. 1
  /\ missed \in BOOLEAN /\ served \in Nat /\ restarts \in 0 .. MaxRestarts

(* While an observation is open no real purchase is under way and no real  *)
(* contract is open.                                                       *)
NoRealUnderObservation == row = "open" => ~open /\ task # "real"

(* Virtual mode ends only by a Start, or when ExitAfter observations in a  *)
(* row have been won since the last real loss.                             *)
HookIsServed ==
  [][mode = "VIRTUAL" /\ mode' # "VIRTUAL" => Start \/ served' >= ExitAfter]_vars

(* After the loss that enters virtual mode a signal of the settlement's    *)
(* own tick, or of one before it, is taken only between the booking of the *)
(* loss and the arming of the barrier: once armed, the barrier stands      *)
(* until a later tick, whatever ticks, refreshes and tasks come.           *)
BarredOnceArmed ==
  [][task = "none" /\ task' = "signal" /\ mode = "VIRTUAL" /\ lossAt >= 0
       => arming = lossAt]_vars

(* An observation of a running account ends.                               *)
ObservationEnds == row = "open" /\ running ~> row # "open" \/ ~running

(* Why these hold. The memory lock covers exactly the open row; an open    *)
(* row leaves no task and no contract; and virtual mode was entered with   *)
(* no wins, and nothing real happens in it.                                *)
LockCoversRow ==
  /\ due => row = "open"
  /\ held => due
  /\ admitted /\ row = "open" => due

OneActivity ==
  /\ row = "open" => task = "none" /\ ~open
  /\ row = "open" /\ debt => mode = "VIRTUAL"
  /\ open => task = "none"
  /\ mode = "VIRTUAL" => ~open /\ task # "real"

WinsServed == mode = "VIRTUAL" => wins <= served /\ wins < ExitAfter

(* The loss that entered virtual mode is not forgotten before a later      *)
(* tick: its handler still has to arm the barrier, or the barrier is up,   *)
(* and no handler arms it for an older loss.                               *)
LossRemembered ==
  /\ arming \in {None, lossAt}
  /\ mode = "VIRTUAL" /\ lossAt >= 0 => lossAt \in {arming, barrier}

HookInvariant == TypeOK /\ LockCoversRow /\ OneActivity /\ WinsServed /\ LossRemembered

(* What the code says and does not do. An observation is settled by the    *)
(* very tick its contract would have ended on.                             *)
OwnTick == [][row = "open" /\ row' \in {"win", "loss"} => ~missed]_vars

(* After the loss that enters virtual mode no observation is scheduled     *)
(* before a tick strictly later than the settlement.                       *)
FutureTickAfterLoss ==
  [][task = "none" /\ task' = "signal" /\ mode = "VIRTUAL" => lossAt < 0]_vars
=============================================================================
