--------------------------- MODULE RecoveryLedger ---------------------------
(***************************************************************************)
(* The recovery ledger of one Custom Strategy account in Split-N mode: the *)
(* debt its losses leave, the stake planned for the next trade, and the    *)
(* settlement that books an outcome.                                       *)
(*                                                                         *)
(* plan_stake and record_account_outcome are stacks of wrappers around the *)
(* repository's methods. Each layer commits transactions of its own: the   *)
(* AccountRiskState row (debt to mode below) in one, every split           *)
(* preference (remaining, basis, partStake) in another. A step here is one *)
(* such transaction, so that Stop, Start and the death of the worker come  *)
(* between any two of them. One contract is open at a time (see            *)
(* PurchasePipeline).                                                      *)
(*                                                                         *)
(* Amounts are in the account's smallest unit. A proposal of ratio r       *)
(* promises a profit of r per Par of stake; the ratio moves from proposal  *)
(* to proposal, and the contract that is bought has one of its own.        *)
(***************************************************************************)
EXTENDS Integers

CONSTANTS SplitCount,   \* configured number of recovery parts
          BaseStake,    \* configured stake
          MinStake,     \* the provider's minimum stake
          Ratios, Par,  \* the profits proposals promise per Par of stake
          Cushion,      \* what calculate_recovery_stake adds to a debt
          Thresholds,   \* Virtual Hook: losses to enter it, 0 for "off"
          MaxDebt,      \* bound: no contract is bought that could exceed it
          MaxRestarts   \* bound: deaths of the worker

ASSUME LedgerAssumption ==
  /\ SplitCount \in 1 .. 3 /\ BaseStake \in Nat \ {0} /\ MinStake \in Nat \ {0}
  /\ Ratios \subseteq Nat \ {0} /\ Par \in Nat \ {0} /\ Cushion \in Nat
  /\ Thresholds \subseteq Nat
  /\ MaxDebt \in Nat /\ MaxRestarts \in Nat

VARIABLES running,    \* started, and no hard stop
          threshold,  \* the saved Virtual Hook setting
          martingale, \* the account's martingale_enabled
          newDay,     \* the row's trading_day is not today's
          debt, losses, pending, attempt, mode,  \* AccountRiskState
          remaining, basis, partStake,           \* split preferences
          pc,         \* the worker's next transaction
          stake,      \* stake of the planned, then of the open contract
          open,       \* the contract is bought and its Trade row is open
          job,        \* the outcome being recorded; the debt a planner read
          pool,       \* history: the debt after its last loss
          ratio,      \* history: of the first proposal that priced the pool
          legs,       \* history: recovery parts won since its last loss
          short,      \* history: one of them paid less than was priced
          streak,     \* history: losses that no win or hook has answered
          torn,       \* history: a restart cut the booking of this debt
          restarts

risk    == <<debt, losses, pending, attempt, mode>>
split   == <<remaining, basis, partStake>>
trade   == <<stake, open>>
history == <<pool, ratio, legs, short, streak, torn>>
setting == <<running, threshold, martingale, newDay, restarts>>
vars == <<running, threshold, martingale, newDay, debt, losses, pending, attempt,
          mode, remaining, basis, partStake, pc, stake, open, job,
          pool, ratio, legs, short, streak, torn, restarts>>

Modes == {"NORMAL", "REAL", "VIRTUAL"}
PlanPcs == {"repair_basis", "repair_part", "plan", "global", "price", "mark", "planned"}
SettlePcs == {"outcome", "manual", "clear_cycle", "next_part", "equal",
              "equal_parts", "hook", "force", "drop_part", "drop_basis",
              "drop_parts", "pool_basis", "pool_part", "pool_parts"}
NoJob == [won |-> FALSE, amount |-> 0, was |-> FALSE, seen |-> 0]

Max2(a, b) == IF a >= b THEN a ELSE b

CeilDiv(a, b) == (a + b - 1) \div b

MutPartStake(d, r) == (d * Par) \div (SplitCount * r)   \* mutant: rounded down
(* equal_split_part_stake: the stake that earns an N-th of the pool at the *)
(* proposal's ratio, rounded up.                                           *)
PartStake(d, r) == Max2(MinStake, CeilDiv(d * Par, SplitCount * r))

Init ==
  /\ running = FALSE /\ threshold \in Thresholds /\ martingale \in BOOLEAN
  /\ newDay = TRUE
  /\ debt = 0 /\ losses = 0 /\ pending = FALSE /\ attempt = FALSE /\ mode = "NORMAL"
  /\ remaining = 0 /\ basis = 0 /\ partStake = 0
  /\ pc = "idle" /\ stake = 0 /\ open = FALSE /\ job = NoJob
  /\ pool = 0 /\ ratio = 0 /\ legs = 0 /\ short = FALSE
  /\ streak = 0 /\ torn = FALSE /\ restarts = 0

To(next) == pc' = next

ClearRow ==
  debt' = 0 /\ losses' = 0 /\ pending' = FALSE /\ attempt' = FALSE /\ mode' = "NORMAL"
ClearPool == pool' = 0 /\ ratio' = 0 /\ legs' = 0 /\ short' = FALSE /\ torn' = FALSE

(* _is_recovery_snapshot, as read by a layer.                              *)
IsRecovery == debt > 0 /\ (pending \/ attempt \/ mode = "REAL")

-----------------------------------------------------------------------------
(* Planning the stake of a qualifying trade.                               *)

(* The outermost layer: a pool no part has been won of must be priced from *)
(* the debt, and "no part remaining" cannot be while there is a debt.      *)
StaleBasis ==
  /\ debt > 0 /\ mode # "VIRTUAL"
  /\ remaining = 0 \/ (remaining = SplitCount /\ basis # debt)

(* The manual layer reads its snapshot before the layers below it run: the *)
(* debt it would recover.                                                  *)
ReadBefore ==
  job' = [NoJob EXCEPT !.seen =
            IF running /\ IsRecovery /\ ~attempt /\ mode # "VIRTUAL" THEN debt ELSE 0]

PlanBegins ==
  /\ pc = "idle" /\ running /\ ~open
  /\ mode = "VIRTUAL" => threshold = 0   \* a virtual observation instead
  /\ IF StaleBasis THEN remaining' = SplitCount /\ To("repair_basis") /\ UNCHANGED job
                   ELSE ReadBefore /\ To("plan") /\ UNCHANGED remaining
  /\ UNCHANGED <<setting, risk, basis, partStake, trade, history>>

RepairBasis ==
  /\ pc = "repair_basis"
  /\ basis' = debt /\ To("repair_part")
  /\ UNCHANGED <<setting, risk, remaining, partStake, trade, job, history>>

RepairPart ==
  /\ pc = "repair_part"
  /\ partStake' = 0 /\ ReadBefore /\ To("plan")
  /\ UNCHANGED <<setting, risk, remaining, basis, trade, history>>

(* RFDir5Repository.plan_stake begins a new trading day without its debt.  *)
PlanRollsOver ==
  /\ pc = "plan" /\ newDay /\ newDay' = FALSE
  /\ ClearRow /\ ClearPool /\ streak' = 0
  /\ UNCHANGED <<running, threshold, martingale, restarts, split, pc, trade, job>>

(* What the repository plans when the split layers stand aside: the whole  *)
(* debt in one trade, or the base stake.                                   *)
LowerStake(r) ==
  IF debt > 0 /\ pending /\ ~attempt /\ martingale
  THEN Max2(BaseStake, CeilDiv((debt + Cushion) * Par, r))
  ELSE BaseStake

(* _mark_recovery_attempt: an observing account is left alone.             *)
MarkRecoveryAttempt ==
  IF mode = "VIRTUAL"
  THEN UNCHANGED <<pending, attempt, mode>>
  ELSE pending' = TRUE /\ attempt' = TRUE /\ mode' = "REAL"

(* No debt: the base stake. Stopped, or in virtual mode with the hook off: *)
(* the split layers stand aside.                                           *)
PlanLower ==
  /\ pc = "plan" /\ ~newDay
  /\ debt = 0 \/ ~running \/ mode = "VIRTUAL"
  /\ ~(running /\ debt = 0 /\ job.seen > 0)
  /\ \E r \in Ratios : stake' = LowerStake(r)
  /\ job' = NoJob /\ To("global")
  /\ UNCHANGED <<setting, risk, split, open, history>>

PartsBefore == IF remaining = 0 THEN SplitCount ELSE remaining

(* The debt the manual layer has read is gone, with a new day or a Start:  *)
(* it still plans a part of it, unless a balance cap refuses.              *)
PlanForgottenDebt ==
  /\ pc = "plan" /\ ~newDay
  /\ running /\ debt = 0 /\ job.seen > 0
  /\ remaining' = PartsBefore
  /\ \/ /\ MarkRecoveryAttempt
        /\ \E r \in Ratios :
             stake' = Max2(BaseStake, CeilDiv(job.seen * Par, remaining' * r))
     \/ stake' = 0 /\ UNCHANGED <<pending, attempt, mode>>
  /\ job' = NoJob /\ To("global")
  /\ UNCHANGED <<setting, debt, losses, basis, partStake, open, history>>

(* The inner split layers fill in what is missing and plan a part at this  *)
(* proposal's ratio; a balance cap may refuse it before or after one of    *)
(* them has marked the attempt.                                            *)
PlanInner ==
  /\ pc = "plan" /\ ~newDay
  /\ debt > 0 /\ running /\ mode # "VIRTUAL"
  /\ remaining' = PartsBefore
  /\ basis' = IF basis = 0 THEN debt ELSE basis
  /\ \/ /\ MarkRecoveryAttempt
        /\ \/ stake' = 0
           \/ \E r \in Ratios :
                stake' = Max2(BaseStake, CeilDiv(basis' * Par, SplitCount * r))
     \/ stake' = 0 /\ UNCHANGED <<pending, attempt, mode>>
  /\ job' = NoJob /\ To("global")
  /\ UNCHANGED <<setting, debt, losses, partStake, open, history>>

(* _force_recovery_state, in the global layer: without a debt, stopped or  *)
(* observing, the plan of the layers below stands; and the part stake of a *)
(* debt that is gone is dropped.                                           *)
PlanGlobal ==
  /\ pc = "global"
  /\ IF running /\ debt > 0
     THEN pending' = TRUE /\ mode' = IF mode = "VIRTUAL" THEN mode ELSE "REAL"
     ELSE UNCHANGED <<pending, mode>>
  /\ IF running /\ debt > 0 /\ mode # "VIRTUAL"
     THEN stake' = 0 /\ To("price")
     ELSE UNCHANGED stake /\ To(IF stake > 0 THEN "planned" ELSE "idle")
  /\ partStake' = IF running /\ debt = 0 THEN 0 ELSE partStake
  /\ UNCHANGED <<setting, debt, losses, attempt, remaining, basis, open, job, history>>

MutPricesAnew ==   \* mutant: every proposal prices its part again
  /\ pc = "price"
  /\ remaining' = PartsBefore
  /\ \E r \in Ratios :
       /\ partStake' = PartStake(basis, r)
       /\ ratio' = IF ratio = 0 THEN r ELSE ratio
  /\ To("mark") \/ To("idle")
  /\ UNCHANGED <<setting, risk, basis, trade, job, pool, legs, short, streak, torn>>
(* The first proposal of a pool prices its parts, and their stake is kept. *)
(* The balance may not suffice for it.                                     *)
PricePart ==
  /\ pc = "price"
  /\ remaining' = PartsBefore
  /\ \E r \in Ratios :
       /\ partStake' = IF partStake = 0 THEN PartStake(basis, r) ELSE partStake
       /\ ratio' = IF ratio = 0 THEN r ELSE ratio
  /\ To("mark") \/ To("idle")
  /\ UNCHANGED <<setting, risk, basis, trade, job, pool, legs, short, streak, torn>>

MarkRecovery ==
  /\ pc = "mark"
  /\ MarkRecoveryAttempt
  /\ stake' = partStake /\ To("planned")
  /\ UNCHANGED <<setting, debt, losses, split, open, job, history>>

(* mark_recovery_attempt_started, just before the BUY.                     *)
MarkAttempt ==
  /\ attempt' = (attempt \/ (debt > 0 /\ pending))
  /\ pending' = (pending /\ (attempt \/ debt = 0))

(* The second proposal fails or the balance does not suffice; or the BUY   *)
(* is refused, and the attempt stays marked.                               *)
PlanDropped ==
  /\ pc = "planned"
  /\ stake' = 0 /\ To("idle")
  /\ MarkAttempt \/ UNCHANGED <<attempt, pending>>
  /\ UNCHANGED <<setting, debt, losses, mode, split, open, job, history>>

Buy ==
  /\ pc = "planned" /\ debt + stake <= MaxDebt
  /\ open' = TRUE /\ To("idle")
  /\ MarkAttempt
  /\ UNCHANGED <<setting, debt, losses, mode, split, stake, job, history>>

-----------------------------------------------------------------------------
(* Settlement: the Trade row first, then the layers of                     *)
(* record_account_outcome from the inside out.                             *)

(* settle_trade commits; the manual and equal layers read their snapshot   *)
(* before they call the layer below. A win pays what the bought contract   *)
(* promised, a smallest unit at least.                                     *)
SettleTrade ==
  /\ pc = "idle" /\ open
  /\ open' = FALSE /\ stake' = 0 /\ To("outcome")
  /\ \/ job' = [won |-> FALSE, amount |-> stake, was |-> IsRecovery, seen |-> 0]
     \/ \E r \in Ratios :
          job' = [won |-> TRUE, amount |-> Max2(1, (stake * r) \div Par),
                  was |-> IsRecovery, seen |-> 0]
  /\ UNCHANGED <<setting, risk, split, history>>

EntersVirtual(n) == threshold > 0 /\ n >= Max2(2, threshold)

(* RFDir5Repository.record_account_outcome, a loss: the first one already  *)
(* arms the recovery (custom_split_recovery_authority).                    *)
RecordLoss ==
  /\ pc = "outcome" /\ ~job.won
  /\ losses' = losses + 1
  /\ debt' = debt + job.amount
  /\ pending' = TRUE /\ attempt' = FALSE
  /\ mode' = IF EntersVirtual(losses') THEN "VIRTUAL" ELSE mode
  /\ pool' = debt' /\ ratio' = 0 /\ legs' = 0 /\ short' = FALSE /\ streak' = streak + 1
  /\ To("manual")
  /\ UNCHANGED <<setting, split, trade, job, torn>>

MutWinClears ==   \* mutant: any win ends the recovery
  /\ pc = "outcome" /\ job.won
  /\ ClearRow /\ ClearPool /\ streak' = 0
  /\ To("manual")
  /\ UNCHANGED <<setting, split, trade, job>>
(* A win pays off the debt if it was a recovery, and clears it otherwise;  *)
(* with the account's martingale off the first won recovery clears it. A   *)
(* residual debt sends the account to virtual mode.                        *)
RecordWin ==
  /\ pc = "outcome" /\ job.won
  /\ debt' = IF attempt /\ martingale THEN Max2(0, debt - job.amount) ELSE 0
  /\ pending' = (debt' > 0) /\ attempt' = FALSE /\ losses' = 0
  /\ mode' = CASE mode = "VIRTUAL" -> "VIRTUAL"
               [] mode = "REAL" /\ debt' > 0 -> "VIRTUAL"
               [] OTHER -> "NORMAL"
  /\ streak' = 0
  /\ IF debt' = 0 THEN ClearPool
     ELSE /\ legs' = legs + 1
          /\ short' = (short \/ ratio = 0 \/ job.amount * Par < partStake * ratio)
          /\ UNCHANGED <<pool, ratio, torn>>
  /\ To("manual")
  /\ UNCHANGED <<setting, split, trade, job>>

(* final_manual_record_outcome opens a cycle of N parts after a primary    *)
(* loss, and leaves a lost recovery to the layer above.                    *)
CountParts ==
  /\ pc = "manual" /\ ~(job.won /\ job.was)
  /\ remaining' = IF ~job.won /\ ~job.was /\ debt > 0 /\ pending
                  THEN SplitCount ELSE remaining
  /\ To("equal")
  /\ UNCHANGED <<setting, risk, basis, partStake, trade, job, history>>

(* _reset_manual_cycle: the debt is paid, or the last part is won and what *)
(* is left of it is forgiven.                                              *)
ResetManualCycle ==
  /\ pc = "manual" /\ job.won /\ job.was
  /\ debt = 0 \/ PartsBefore = 1
  /\ ClearRow /\ ClearPool
  /\ To("clear_cycle")
  /\ UNCHANGED <<setting, split, trade, job, streak>>

(* _arm_next_split.                                                        *)
ArmNextSplit ==
  /\ pc = "manual" /\ job.won /\ job.was
  /\ debt > 0 /\ PartsBefore > 1
  /\ pending' = TRUE /\ attempt' = FALSE /\ losses' = 0 /\ mode' = "REAL"
  /\ To("next_part")
  /\ UNCHANGED <<setting, debt, split, trade, job, history>>

WritePartsLeft ==
  /\ pc \in {"clear_cycle", "next_part"}
  /\ remaining' = IF pc = "clear_cycle" THEN 0 ELSE PartsBefore - 1
  /\ To("equal")
  /\ UNCHANGED <<setting, risk, basis, partStake, trade, job, history>>

(* record_equal_split_outcome: a loss rebases the pool, a finished cycle   *)
(* drops its basis.                                                        *)
RecordEqualSplit ==
  /\ pc = "equal"
  /\ IF ~job.won
     THEN /\ basis' = IF debt > 0 THEN debt ELSE basis
          /\ To(IF debt > 0 THEN "equal_parts" ELSE "hook")
     ELSE /\ basis' = IF ~job.was THEN basis
                      ELSE IF debt = 0 \/ remaining = 0 \/ ~IsRecovery THEN 0
                      ELSE IF basis = 0 THEN debt + job.amount ELSE basis
          /\ To("force")
  /\ UNCHANGED <<setting, risk, remaining, partStake, trade, job, history>>

RebaseParts ==
  /\ pc = "equal_parts"
  /\ remaining' = SplitCount /\ To("hook")
  /\ UNCHANGED <<setting, risk, basis, partStake, trade, job, history>>

MutHookLate ==   \* mutant: the hook waits for one loss more
  /\ pc = "hook"
  /\ IF threshold > 0 /\ losses > threshold /\ debt > 0
     THEN mode' = "VIRTUAL" /\ pending' = TRUE
     ELSE UNCHANGED <<mode, pending>>
  /\ To("force")
  /\ UNCHANGED <<setting, debt, losses, attempt, split, trade, job, history>>
(* record_outcome_with_saved_virtual_hook enters virtual mode at a         *)
(* threshold of one as well.                                               *)
EnterVirtualHook ==
  /\ pc = "hook"
  /\ IF threshold > 0 /\ losses >= threshold /\ debt > 0
     THEN mode' = "VIRTUAL" /\ pending' = TRUE
     ELSE UNCHANGED <<mode, pending>>
  /\ To("force")
  /\ UNCHANGED <<setting, debt, losses, attempt, split, trade, job, history>>

(* _record_global_recovery: debt is a recovery, whatever the layers below  *)
(* made of it; then the preferences of the debt it has read.               *)
ForceRecovery ==
  /\ pc = "force"
  /\ pending' = (pending \/ debt > 0)
  /\ mode' = IF debt > 0 /\ mode # "VIRTUAL" THEN "REAL" ELSE mode
  /\ IF debt > 0 /\ job.won THEN job' = NoJob ELSE job' = [job EXCEPT !.seen = debt]
  /\ To(IF debt = 0 THEN "drop_part" ELSE IF job.won THEN "idle" ELSE "pool_basis")
  /\ UNCHANGED <<setting, debt, losses, attempt, split, trade, history>>

(* The three writes that end a cycle, and the three that open a pool.      *)
DropPool ==
  \/ /\ pc = "drop_part" /\ To("drop_basis")
     /\ partStake' = 0 /\ UNCHANGED <<basis, remaining, job>>
  \/ /\ pc = "drop_basis" /\ To("drop_parts")
     /\ basis' = 0 /\ UNCHANGED <<partStake, remaining, job>>
  \/ /\ pc = "drop_parts" /\ To("idle")
     /\ remaining' = 0 /\ job' = NoJob /\ UNCHANGED <<partStake, basis>>

OpenPool ==
  \/ /\ pc = "pool_basis" /\ To("pool_part")
     /\ basis' = job.seen /\ UNCHANGED <<partStake, remaining, job>>
  \/ /\ pc = "pool_part" /\ To("pool_parts")
     /\ partStake' = 0 /\ UNCHANGED <<basis, remaining, job>>
  \/ /\ pc = "pool_parts" /\ To("idle")
     /\ remaining' = SplitCount /\ job' = NoJob /\ UNCHANGED <<partStake, basis>>

WritePool == (DropPool \/ OpenPool) /\ UNCHANGED <<setting, risk, trade, history>>

-----------------------------------------------------------------------------
(* The other processes.                                                    *)

(* The Virtual Hook has its wins: _settle_one arms the real recovery.      *)
VirtualConfirmed ==
  /\ mode = "VIRTUAL" /\ threshold > 0 /\ running /\ pc = "idle" /\ ~open
  /\ mode' = "REAL" /\ pending' = (debt > 0)
  /\ streak' = 0
  /\ UNCHANGED <<setting, debt, losses, attempt, split, pc, trade, job,
                 pool, ratio, legs, short, torn>>

Stop ==
  /\ running /\ running' = FALSE
  /\ UNCHANGED <<threshold, martingale, newDay, restarts, risk, split, pc, trade,
                 job, history>>

(* _reset_risk_state_bounded: a fresh Start forgets the debt, and keeps    *)
(* the split preferences.                                                  *)
Start ==
  /\ ~running /\ running' = TRUE /\ newDay' = TRUE
  /\ ClearRow /\ ClearPool /\ streak' = 0
  /\ UNCHANGED <<threshold, martingale, restarts, split, pc, trade, job>>

(* Saving the Custom Strategy of a stopped account without open contracts  *)
(* does the same, and drops the parts; the hook may be another one.        *)
SaveStrategy ==
  /\ ~running /\ ~open /\ newDay' = TRUE
  /\ threshold' \in Thresholds
  /\ ClearRow /\ ClearPool /\ streak' = 0
  /\ remaining' = 0
  /\ UNCHANGED <<running, martingale, restarts, basis, partStake, pc, trade, job>>

(* The account settings are saved at any time, in a running account too.   *)
SaveSettings ==
  /\ martingale' = ~martingale
  /\ UNCHANGED <<running, threshold, newDay, restarts, risk, split, pc, trade, job,
                 history>>

DayPasses ==
  /\ ~newDay /\ newDay' = TRUE
  /\ UNCHANGED <<running, threshold, martingale, restarts, risk, split, pc, trade,
                 job, history>>

(* The worker dies between two transactions; the contract of a sent BUY    *)
(* and every committed row survive. The new worker first repairs accounts  *)
(* with a debt (_repair_existing_recovery_accounts).                       *)
Restart ==
  /\ restarts < MaxRestarts /\ restarts' = restarts + 1
  /\ pc' = "idle" /\ job' = NoJob /\ stake' = IF open THEN stake ELSE 0
  /\ pending' = (pending \/ (running /\ debt > 0))
  /\ mode' = IF running /\ debt > 0 /\ mode # "VIRTUAL" THEN "REAL" ELSE mode
  /\ torn' = (torn \/ (debt > 0 /\ pc \in SettlePcs \ {"outcome"}))
  /\ UNCHANGED <<running, threshold, martingale, newDay, debt, losses, attempt, split,
                 open, pool, ratio, legs, short, streak>>

Plan ==
  \/ PlanBegins \/ RepairBasis \/ RepairPart \/ PlanRollsOver \/ PlanLower
  \/ PlanForgottenDebt \/ PlanInner \/ PlanGlobal \/ PricePart \/ MarkRecovery
Settle ==
  \/ SettleTrade \/ RecordLoss \/ RecordWin \/ CountParts \/ ResetManualCycle
  \/ ArmNextSplit \/ WritePartsLeft \/ RecordEqualSplit \/ RebaseParts
  \/ EnterVirtualHook \/ ForceRecovery \/ WritePool

Next ==
  \/ Plan \/ PlanDropped \/ Buy
  \/ Settle
  \/ VirtualConfirmed \/ Stop \/ Start \/ SaveStrategy \/ SaveSettings
  \/ DayPasses \/ Restart

Spec == Init /\ [][Next]_vars

-----------------------------------------------------------------------------
(* Every variable keeps its type.                                          *)
TypeOK ==
  /\ running \in BOOLEAN /\ threshold \in Thresholds /\ martingale \in BOOLEAN
  /\ newDay \in BOOLEAN
  /\ debt \in Nat /\ losses \in Nat /\ pending \in BOOLEAN /\ attempt \in BOOLEAN
  /\ mode \in Modes
  /\ remaining \in 0 .. SplitCount /\ basis \in Nat /\ partStake \in Nat
  /\ pc \in {"idle"} \cup PlanPcs \cup SettlePcs
  /\ stake \in Nat /\ open \in BOOLEAN
  /\ pc = "planned" \/ open => stake > 0
  /\ job \in [won : BOOLEAN, amount : Nat, was : BOOLEAN, seen : Nat]
  /\ pool \in Nat /\ ratio \in {0} \cup Ratios /\ legs \in Nat /\ short \in BOOLEAN
  /\ streak \in Nat /\ torn \in BOOLEAN /\ restarts \in 0 .. MaxRestarts

(* While a debt is open, a contract is a recovery attempt: a win never     *)
(* clears the debt as if it were a primary trade's.                        *)
DebtTradesAreRecovery == open /\ debt > 0 => attempt

(* A debt leaves the ledger only when a recovery pays it, with a recovery  *)
(* won while the martingale is off, with a fresh Start, a saved strategy   *)
(* or a new trading day; or after the last of its N parts, if one of them  *)
(* paid less than it was priced for. A restart that cut the booking of one *)
(* of its outcomes is the exception.                                       *)
DebtForgivenAfterParts ==
  [][debt > 0 /\ debt' = 0 =>
       \/ torn
       \/ RecordWin /\ (job.amount >= debt \/ ~martingale)
       \/ legs >= SplitCount /\ short
       \/ Start \/ SaveStrategy \/ PlanRollsOver]_vars

(* Every part of a pool is planned with the stake of its first proposal,   *)
(* however the ratio has moved since; the pool is what its last loss left, *)
(* and the parts still to be won are what is left of N, unless a restart   *)
(* cut the booking.                                                        *)
PartsAreEqual ==
  [][MarkRecovery /\ debt > 0 /\ ~torn =>
       /\ ratio # 0 /\ stake' = PartStake(pool, ratio)
       /\ remaining = SplitCount - legs]_vars

(* With the hook on, no real trade is planned once the losses have reached *)
(* its threshold, until a virtual win, a real one, a fresh Start or a new  *)
(* day, unless a restart cut the booking of the loss.                      *)
HookHoldsRealTrades ==
  threshold > 0 /\ ~torn /\ pc \in PlanPcs => streak < threshold

(* Why these are preserved. An open debt is armed or attempted; the worker *)
(* plans and settles one contract at a time; and the outcome of a trade    *)
(* made under a debt is booked as a recovery's.                            *)
DebtIsArmed == debt > 0 => pending \/ attempt

OneContract ==
  /\ open => pc = "idle"
  /\ pc = "mark" => partStake > 0
  /\ pc = "outcome" => job.amount > 0
  /\ pc \in {"clear_cycle", "next_part"} => job.won
  /\ pc = "outcome" /\ debt > 0 => attempt /\ job.was

(* How far the booking of a loss, or of a won part, has come. Between two  *)
(* bookings every part has the first proposal's stake, and the parts won   *)
(* so far, if none paid short, have paid their share of the pool.          *)
LossPcs == {"manual", "equal", "equal_parts", "hook", "force",
            "pool_basis", "pool_part", "pool_parts"}
WonPcs  == {"manual", "next_part", "equal", "force"}

Share(d, l, p) == SplitCount * d <= (SplitCount - l) * p
Priced == basis = pool /\ partStake = IF ratio = 0 THEN 0 ELSE PartStake(pool, ratio)
PoolKept ==
  debt > 0 /\ ~torn =>
    /\ pool > 0 /\ (legs = 0 => debt = pool)
    /\ ~short => Share(debt, legs, pool)
    /\ pc \in {"idle", "plan", "global", "price", "mark", "planned", "outcome"} =>
         Priced /\ legs < SplitCount /\ remaining = SplitCount - legs
    /\ pc = "mark" => ratio # 0
    /\ ~job.won /\ pc \in LossPcs =>
         /\ legs = 0
         /\ pc \in {"pool_basis", "pool_part", "pool_parts"} => job.seen = pool
         /\ pc \in {"pool_part", "pool_parts"} => basis = pool
         /\ ratio = 0 /\ (pc = "pool_parts" => partStake = 0)
    /\ job.won /\ pc # "outcome" =>
         /\ pc \in WonPcs /\ job.was /\ legs \in 1 .. SplitCount
         /\ Priced
         /\ pc \in {"manual", "next_part"} => remaining = SplitCount - legs + 1
         /\ pc \in {"next_part", "equal", "force"} => legs < SplitCount /\ pending
         /\ pc \in {"equal", "force"} => remaining = SplitCount - legs
    /\ pc \notin {"repair_basis", "repair_part", "clear_cycle",
                  "drop_part", "drop_basis", "drop_parts"}

HookKept ==
  /\ streak > 0 => debt > 0
  /\ job.won /\ pc # "outcome" => streak = 0
  /\ streak <= losses
  /\ threshold > 0 /\ ~torn /\ streak >= threshold =>
       \/ mode = "VIRTUAL"
       \/ ~job.won /\ pc \in {"manual", "equal", "equal_parts", "hook"}

LedgerInvariant ==
  /\ TypeOK
  /\ DebtTradesAreRecovery
  /\ DebtIsArmed
  /\ OneContract
  /\ PoolKept
  /\ HookKept
  /\ HookHoldsRealTrades

(* A new or larger loss pool starts a new cycle of N parts.                *)
NewPoolNewCycle ==
  [][MarkRecovery /\ debt > 0 /\ legs = 0 => remaining = SplitCount]_vars
=============================================================================
