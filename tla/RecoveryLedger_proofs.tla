------------------------ MODULE RecoveryLedger_proofs ------------------------
(***************************************************************************)
(* Proofs, for any number of parts up to three, any stakes, debts, hook    *)
(* thresholds and deaths of the worker, of the properties of               *)
(* RecoveryLedger.                                                         *)
(***************************************************************************)
EXTENDS RecoveryLedger, TLAPS

(* The invariant without its types.                                        *)
Kept ==
  /\ DebtTradesAreRecovery
  /\ DebtIsArmed
  /\ OneContract
  /\ PoolKept
  /\ HookKept
  /\ HookHoldsRealTrades

(* Rounding up never asks for less.                                        *)
LEMMA CeilDivCovers ==
  ASSUME NEW a \in Nat, NEW b \in Nat \ {0}
  PROVE  CeilDiv(a, b) \in Nat /\ CeilDiv(a, b) * b >= a
<1> DEFINE q == (a + b - 1) \div b
<1>1. a + b - 1 \in Nat
  OBVIOUS
<1>2. q \in Nat /\ b * q > (a + b - 1) - b
  BY <1>1
<1> HIDE DEF q
<1>3. PICK p \in Nat : p = b * q /\ p = q * b
  BY <1>2
<1>4. q * b >= a
  BY <1>2, <1>3
<1> QED
  BY <1>2, <1>4 DEF CeilDiv, q

LEMMA ProductType ==
  /\ \A a, b \in Nat : a * b \in Nat
  /\ \A a, b \in Nat \ {0} : a * b \in Nat \ {0}
  OBVIOUS

(* A part of a pool is never priced at zero.                               *)
LEMMA PartStakeType ==
  ASSUME NEW d \in Nat, NEW r \in Ratios
  PROVE  PartStake(d, r) \in Nat \ {0}
<1>1. d * Par \in Nat /\ SplitCount * r \in Nat \ {0}
  BY LedgerAssumption
<1> QED
  BY <1>1, CeilDivCovers, LedgerAssumption DEF PartStake, Max2

(* A part that earns what it was priced for earns an N-th of the pool.     *)
LEMMA PartStakeCovers ==
  ASSUME NEW d \in Nat, NEW r \in Ratios, NEW n \in Nat, n * Par >= PartStake(d, r) * r
  PROVE  SplitCount * n >= d
<1> DEFINE c == CeilDiv(d * Par, SplitCount * r)
<1>1. /\ d * Par \in Nat /\ SplitCount * r \in Nat \ {0}
      /\ r \in Nat \ {0} /\ Par \in Nat \ {0} /\ SplitCount \in 1 .. 3
  BY LedgerAssumption
<1>2. c \in Nat /\ c * (SplitCount * r) >= d * Par
  BY <1>1, CeilDivCovers
<1>3. PartStake(d, r) >= c /\ PartStake(d, r) \in Nat
  BY <1>1, <1>2, PartStakeType DEF PartStake, Max2
<1> HIDE DEF c
<1>4. PartStake(d, r) * r >= c * r
  BY <1>1, <1>2, <1>3
<1>5. n * Par >= c * r
  BY <1>1, <1>2, <1>3, <1>4
<1>6. SplitCount * (n * Par) >= SplitCount * (c * r)
  BY <1>1, <1>2, <1>5
<1>7. (SplitCount * n) * Par >= d * Par
  BY <1>1, <1>2, <1>6
<1> QED
  BY <1>1, <1>7

JobType == [won : BOOLEAN, amount : Nat, was : BOOLEAN, seen : Nat]

LEMMA NoJobType == NoJob \in JobType /\ NoJob.won = FALSE
  BY DEF NoJob, JobType

LEMMA SeenType ==
  ASSUME NEW j \in JobType, NEW d \in Nat
  PROVE  [j EXCEPT !.seen = d] \in JobType
  BY DEF JobType

LEMMA LedgerInit == Init => LedgerInvariant
<1> SUFFICES ASSUME Init PROVE LedgerInvariant
  OBVIOUS
<1>1. TypeOK
  <2>1. /\ running \in BOOLEAN /\ threshold \in Thresholds /\ martingale \in BOOLEAN
        /\ newDay \in BOOLEAN /\ ratio = 0 /\ short \in BOOLEAN
        /\ debt = 0 /\ losses = 0 /\ pending \in BOOLEAN /\ attempt \in BOOLEAN
        /\ mode \in Modes /\ pc = "idle" /\ stake = 0 /\ open = FALSE /\ ~open
        /\ pool = 0 /\ legs = 0 /\ streak = 0 /\ torn \in BOOLEAN
        /\ remaining = 0 /\ basis = 0 /\ partStake = 0 /\ restarts = 0
    BY DEF Init, Modes
  <2>2. job \in JobType
    BY NoJobType DEF Init
  <2>3. remaining \in 0 .. SplitCount /\ restarts \in 0 .. MaxRestarts
    BY <2>1, LedgerAssumption
  <2>4. ~(pc = "planned" \/ open)
    BY <2>1
  <2>5. debt \in Nat /\ losses \in Nat /\ basis \in Nat /\ partStake \in Nat /\ stake \in Nat
        /\ pool \in Nat /\ legs \in Nat /\ streak \in Nat /\ open \in BOOLEAN
    BY <2>1
  <2> QED
    BY <2>1, <2>2, <2>3, <2>4, <2>5 DEF TypeOK, JobType
<1>2. Kept
  BY LedgerAssumption DEF Init, Kept, DebtTradesAreRecovery, DebtIsArmed, OneContract, PoolKept,
     HookKept, HookHoldsRealTrades, NoJob
<1> QED
  BY <1>1, <1>2 DEF LedgerInvariant, Kept

(* What a planner has read of the debt is a record of the same type.       *)
LEMMA ReadType ==
  ASSUME TypeOK, ReadBefore
  PROVE  job' \in JobType /\ job'.won = FALSE /\ job'.seen \in {0, debt}
  BY DEF TypeOK, ReadBefore, NoJob, JobType

(* Marking the attempt keeps the two flags Boolean.                        *)
LEMMA MarkType ==
  ASSUME TypeOK, MarkAttempt
  PROVE  pending' \in BOOLEAN /\ attempt' \in BOOLEAN
  BY Zenon DEF TypeOK, MarkAttempt

-----------------------------------------------------------------------------
(* Planning a stake and buying.                                            *)
LEMMA PlanningType ==
  ASSUME LedgerInvariant,
         \/ PlanBegins
         \/ RepairBasis
         \/ RepairPart
         \/ PlanRollsOver
         \/ PlanLower
         \/ PlanForgottenDebt
         \/ PlanInner
         \/ PlanGlobal
         \/ PricePart
         \/ MarkRecovery
         \/ PlanDropped
         \/ Buy
  PROVE  TypeOK'
<1> USE LedgerAssumption, PartStakeType DEF LedgerInvariant, TypeOK, risk, split, trade, history, setting, To
<1>1. CASE PlanBegins
  <2>1. job' \in JobType
    BY <1>1, ReadType DEF PlanBegins, JobType
  <2> QED
    BY <1>1, <2>1 DEF PlanBegins, StaleBasis, OneContract, PlanPcs, SettlePcs, Modes, JobType
<1>2. CASE RepairBasis
  BY <1>2 DEF RepairBasis, OneContract, PlanPcs, SettlePcs, Modes
<1>3. CASE RepairPart
  <2>1. job' \in JobType
    BY <1>3, ReadType DEF RepairPart
  <2> QED
    BY <1>3, <2>1 DEF RepairPart, OneContract, PlanPcs, SettlePcs, Modes, JobType
<1>4. CASE PlanRollsOver
  BY <1>4 DEF PlanRollsOver, ClearRow, ClearPool, OneContract, PlanPcs, SettlePcs, Modes
<1>5. CASE PlanLower
  <2>1. stake' \in Nat
    <3>1. ASSUME NEW r \in Ratios
          PROVE  LowerStake(r) \in Nat
      <4>1. (debt + Cushion) * Par \in Nat /\ r \in Nat \ {0}
        OBVIOUS
      <4> QED
        BY <4>1, CeilDivCovers DEF LowerStake, Max2
    <3> QED
      BY <1>5, <3>1 DEF PlanLower
  <2> QED
    BY <1>5, <2>1, NoJobType DEF PlanLower, OneContract, PlanPcs, JobType
<1>6. CASE PlanForgottenDebt
  <2>1. pending' \in BOOLEAN /\ attempt' \in BOOLEAN /\ mode' \in Modes
    BY <1>6 DEF PlanForgottenDebt, MarkRecoveryAttempt, Modes
  <2>2. remaining' \in 1 .. SplitCount /\ job.seen \in Nat
    BY <1>6 DEF PlanForgottenDebt, PartsBefore
  <2>3. stake' \in Nat
    <3>1. ASSUME NEW r \in Ratios
          PROVE  CeilDiv(job.seen * Par, remaining' * r) \in Nat
      <4>1. job.seen * Par \in Nat /\ remaining' * r \in Nat \ {0}
        <5>1. r \in Nat \ {0} /\ remaining' \in Nat \ {0} /\ Par \in Nat /\ job.seen \in Nat
          BY <2>2
        <5> HIDE DEF LedgerInvariant, TypeOK
        <5> QED
          BY <5>1, ProductType
      <4> QED
        BY <4>1, CeilDivCovers
    <3> QED
      BY <1>6, <3>1 DEF PlanForgottenDebt, Max2
  <2> QED
    BY <1>6, <2>1, <2>2, <2>3, NoJobType DEF PlanForgottenDebt, PlanPcs, JobType, OneContract
<1>7. CASE PlanInner
  <2>1. pending' \in BOOLEAN /\ attempt' \in BOOLEAN /\ mode' \in Modes
    BY <1>7 DEF PlanInner, MarkRecoveryAttempt, Modes
  <2>2. remaining' \in 1 .. SplitCount /\ basis' \in Nat
    BY <1>7 DEF PlanInner, PartsBefore
  <2>3. stake' \in Nat
    <3>1. ASSUME NEW r \in Ratios
          PROVE  CeilDiv(basis' * Par, SplitCount * r) \in Nat
      <4>1. basis' * Par \in Nat /\ SplitCount * r \in Nat \ {0}
        <5>1. r \in Nat \ {0} /\ SplitCount \in Nat \ {0} /\ Par \in Nat /\ basis' \in Nat
          BY <2>2
        <5> HIDE DEF LedgerInvariant, TypeOK
        <5> QED
          BY <5>1, ProductType
      <4> QED
        BY <4>1, CeilDivCovers
    <3> QED
      BY <1>7, <3>1 DEF PlanInner, Max2
  <2> QED
    BY <1>7, <2>1, <2>2, <2>3, NoJobType DEF PlanInner, PlanPcs, JobType, OneContract
<1>8. CASE PlanGlobal
  <2>1. /\ pending' \in BOOLEAN /\ mode' \in Modes /\ partStake' \in Nat
    BY <1>8 DEF PlanGlobal, Modes
  <2>3. /\ stake' \in Nat /\ pc' \in {"planned", "idle", "price"}
        /\ (pc' = "planned" => stake' > 0)
    BY <1>8 DEF PlanGlobal
  <2>2. ~open'
    BY <1>8 DEF PlanGlobal, OneContract
  <2> QED
    BY <1>8, <2>1, <2>2, <2>3 DEF PlanGlobal, PlanPcs
<1>9. CASE PricePart
  <2>1. remaining' \in 0 .. SplitCount /\ partStake' \in Nat /\ ratio' \in {0} \cup Ratios
    BY <1>9 DEF PricePart, PartsBefore
  <2>2. ~open' /\ pc' \in {"mark", "idle"}
    BY <1>9 DEF PricePart, OneContract
  <2> QED
    BY <1>9, <2>1, <2>2 DEF PricePart, PlanPcs
<1>10. CASE MarkRecovery
  <2>1. pending' \in BOOLEAN /\ attempt' \in BOOLEAN /\ mode' \in Modes
    BY <1>10 DEF MarkRecovery, MarkRecoveryAttempt, Modes
  <2>2. stake' \in Nat \ {0}
    BY <1>10 DEF MarkRecovery, OneContract
  <2> QED
    BY <1>10, <2>1, <2>2 DEF MarkRecovery, PlanPcs
<1>11. CASE PlanDropped
  BY <1>11 DEF PlanDropped, MarkAttempt, OneContract, PlanPcs, SettlePcs, Modes
<1>12. CASE Buy
  <2>1. pending' \in BOOLEAN /\ attempt' \in BOOLEAN
    BY <1>12, MarkType DEF Buy
  <2>2. stake' = stake /\ stake > 0
    BY <1>12 DEF Buy
  <2>3. open' \in BOOLEAN /\ pc' = "idle"
    BY <1>12 DEF Buy
  <2> QED
    BY <1>12, <2>1, <2>2, <2>3 DEF Buy
<1> QED
  BY <1>1, <1>2, <1>3, <1>4, <1>5, <1>6, <1>7, <1>8, <1>9, <1>10, <1>11, <1>12

LEMMA PlanningKept ==
  ASSUME LedgerInvariant,
         \/ PlanBegins
         \/ RepairBasis
         \/ RepairPart
         \/ PlanRollsOver
         \/ PlanLower
         \/ PlanForgottenDebt
         \/ PlanInner
         \/ PlanGlobal
         \/ PricePart
         \/ MarkRecovery
         \/ PlanDropped
         \/ Buy
  PROVE  Kept'
<1> USE DEF risk, split, trade, history, setting, To
<1>1. CASE PlanBegins
  BY <1>1, LedgerAssumption, PartStakeType
  DEF PlanBegins, StaleBasis, ReadBefore, NoJob, Modes, SettlePcs, LedgerInvariant,
      Kept, TypeOK, DebtTradesAreRecovery, DebtIsArmed, OneContract,
      PoolKept, Priced, LossPcs, WonPcs, HookKept, HookHoldsRealTrades, PlanPcs, PartsBefore
<1>2. CASE RepairBasis
  BY <1>2, LedgerAssumption, PartStakeType
  DEF RepairBasis, Modes, SettlePcs, LedgerInvariant,
      Kept, TypeOK, DebtTradesAreRecovery, DebtIsArmed, OneContract,
      PoolKept, Priced, LossPcs, WonPcs, HookKept, HookHoldsRealTrades, PlanPcs, PartsBefore
<1>3. CASE RepairPart
  BY <1>3, LedgerAssumption, PartStakeType
  DEF RepairPart, ReadBefore, NoJob, Modes, SettlePcs, LedgerInvariant,
      Kept, TypeOK, DebtTradesAreRecovery, DebtIsArmed, OneContract,
      PoolKept, Priced, LossPcs, WonPcs, HookKept, HookHoldsRealTrades, PlanPcs, PartsBefore
<1>4. CASE PlanRollsOver
  BY <1>4, LedgerAssumption, PartStakeType
  DEF PlanRollsOver, ClearRow, ClearPool, Modes, SettlePcs, LedgerInvariant,
      Kept, TypeOK, DebtTradesAreRecovery, DebtIsArmed, OneContract,
      PoolKept, Priced, LossPcs, WonPcs, HookKept, HookHoldsRealTrades, PlanPcs, PartsBefore
<1>5. CASE PlanLower
  BY <1>5, LedgerAssumption, PartStakeType
  DEF PlanLower, NoJob, Modes, SettlePcs, LedgerInvariant,
      Kept, TypeOK, DebtTradesAreRecovery, DebtIsArmed, OneContract,
      PoolKept, Priced, LossPcs, WonPcs, HookKept, HookHoldsRealTrades, PlanPcs, PartsBefore
<1>6. CASE PlanForgottenDebt
  BY <1>6, LedgerAssumption, PartStakeType
  DEF PlanForgottenDebt, MarkRecoveryAttempt, NoJob, Modes, SettlePcs, LedgerInvariant,
      Kept, TypeOK, DebtTradesAreRecovery, DebtIsArmed, OneContract,
      PoolKept, Priced, LossPcs, WonPcs, HookKept, HookHoldsRealTrades, PlanPcs, PartsBefore
<1>7. CASE PlanInner
  BY <1>7, LedgerAssumption, PartStakeType
  DEF PlanInner, MarkRecoveryAttempt, NoJob, Modes, SettlePcs, LedgerInvariant,
      Kept, TypeOK, DebtTradesAreRecovery, DebtIsArmed, OneContract,
      PoolKept, Priced, LossPcs, WonPcs, HookKept, HookHoldsRealTrades, PlanPcs, PartsBefore
<1>8. CASE PlanGlobal
  BY <1>8, LedgerAssumption, PartStakeType
  DEF PlanGlobal, Modes, SettlePcs, LedgerInvariant,
      Kept, TypeOK, DebtTradesAreRecovery, DebtIsArmed, OneContract,
      PoolKept, Priced, LossPcs, WonPcs, HookKept, HookHoldsRealTrades, PlanPcs, PartsBefore
<1>9. CASE PricePart
  BY <1>9, LedgerAssumption, PartStakeType
  DEF PricePart, Modes, SettlePcs, LedgerInvariant,
      Kept, TypeOK, DebtTradesAreRecovery, DebtIsArmed, OneContract,
      PoolKept, Priced, LossPcs, WonPcs, HookKept, HookHoldsRealTrades, PlanPcs, PartsBefore
<1>10. CASE MarkRecovery
  BY <1>10, LedgerAssumption, PartStakeType
  DEF MarkRecovery, MarkRecoveryAttempt, Modes, SettlePcs, LedgerInvariant,
      Kept, TypeOK, DebtTradesAreRecovery, DebtIsArmed, OneContract,
      PoolKept, Priced, LossPcs, WonPcs, HookKept, HookHoldsRealTrades, PlanPcs, PartsBefore
<1>11. CASE PlanDropped
  BY <1>11, LedgerAssumption, PartStakeType
  DEF PlanDropped, MarkAttempt, Modes, SettlePcs, LedgerInvariant,
      Kept, TypeOK, DebtTradesAreRecovery, DebtIsArmed, OneContract,
      PoolKept, Priced, LossPcs, WonPcs, HookKept, HookHoldsRealTrades, PlanPcs, PartsBefore
<1>12. CASE Buy
  BY <1>12, LedgerAssumption, PartStakeType
  DEF Buy, MarkAttempt, Modes, SettlePcs, LedgerInvariant,
      Kept, TypeOK, DebtTradesAreRecovery, DebtIsArmed, OneContract,
      PoolKept, Priced, LossPcs, WonPcs, HookKept, HookHoldsRealTrades, PlanPcs, PartsBefore
<1> QED
  BY <1>1, <1>2, <1>3, <1>4, <1>5, <1>6, <1>7, <1>8, <1>9, <1>10, <1>11, <1>12

(* A contract settles for a positive amount.                               *)
LEMMA SettledJob ==
  ASSUME TypeOK, SettleTrade
  PROVE  \E won \in BOOLEAN, amount \in Nat \ {0} :
           job' = [won |-> won, amount |-> amount, was |-> IsRecovery, seen |-> 0]
<1>1. stake \in Nat \ {0}
  BY DEF TypeOK, SettleTrade
<1>2. ASSUME NEW r \in Ratios
      PROVE  Max2(1, (stake * r) \div Par) \in Nat \ {0}
  <2>1. stake * r \in Nat /\ Par \in Nat \ {0}
    BY <1>1, LedgerAssumption
  <2>2. (stake * r) \div Par \in Nat
    BY <2>1
  <2> QED
    BY <2>2 DEF Max2
<1> QED
  BY <1>1, <1>2 DEF SettleTrade

(* Booking an outcome: the row of the account, ...                         *)
LEMMA OutcomeType ==
  ASSUME LedgerInvariant,
         \/ SettleTrade
         \/ RecordLoss
         \/ RecordWin
         \/ ResetManualCycle
         \/ ArmNextSplit
         \/ EnterVirtualHook
         \/ ForceRecovery
  PROVE  TypeOK'
<1> USE LedgerAssumption, PartStakeType DEF LedgerInvariant, TypeOK, risk, split, trade, history, setting, To
<1>1. CASE SettleTrade
  <2>1. PICK won \in BOOLEAN, amount \in Nat \ {0} :
          job' = [won |-> won, amount |-> amount, was |-> IsRecovery, seen |-> 0]
    BY <1>1, SettledJob
  <2>2. IsRecovery \in BOOLEAN
    BY Zenon DEF IsRecovery
  <2>3. job' \in JobType
    BY <2>1, <2>2 DEF JobType
  <2> QED
    BY <1>1, <2>3 DEF SettleTrade, SettlePcs, JobType
<1>2. CASE RecordLoss
  <2>1. job.amount \in Nat /\ losses \in Nat /\ debt \in Nat /\ streak \in Nat
    OBVIOUS
  <2>2. losses' \in Nat /\ debt' \in Nat /\ streak' \in Nat /\ pool' \in Nat /\ legs' \in Nat
    BY <1>2, <2>1 DEF RecordLoss
  <2>3. mode' \in Modes
    BY <1>2 DEF RecordLoss, Modes
  <2>4. running' \in BOOLEAN /\ threshold' \in Thresholds /\ newDay' \in BOOLEAN
        /\ martingale' \in BOOLEAN /\ ratio' \in {0} \cup Ratios /\ short' \in BOOLEAN
        /\ pending' \in BOOLEAN /\ attempt' \in BOOLEAN /\ torn' \in BOOLEAN
    BY <1>2 DEF RecordLoss
  <2>5. remaining' \in 0 .. SplitCount /\ basis' \in Nat /\ partStake' \in Nat
        /\ stake' \in Nat /\ open' \in BOOLEAN /\ restarts' \in 0 .. MaxRestarts
    BY <1>2 DEF RecordLoss
  <2>8. job' \in [won : BOOLEAN, amount : Nat, was : BOOLEAN, seen : Nat]
    BY <1>2 DEF RecordLoss
  <2>7. pc' = "manual" /\ open' = open
    BY <1>2 DEF RecordLoss
  <2>6. open = FALSE
    BY <1>2 DEF RecordLoss, OneContract
  <2> QED
    BY <1>2, <2>2, <2>3, <2>4, <2>5, <2>6, <2>7, <2>8 DEF RecordLoss, SettlePcs
<1>3. CASE RecordWin
  <2>1. torn' \in BOOLEAN /\ short' \in BOOLEAN
    <3>1. CASE debt' = 0
      BY <1>3, <3>1 DEF RecordWin, ClearPool
    <3>2. CASE debt' # 0
      BY <1>3, <3>2, Zenon DEF RecordWin
    <3> QED
      BY <3>1, <3>2
  <2>4. pending' \in BOOLEAN
    BY <1>3 DEF RecordWin
  <2>2. mode' \in Modes
    BY <1>3 DEF RecordWin, Modes
  <2>3. debt' \in Nat /\ pool' \in Nat /\ legs' \in Nat /\ ratio' \in {0} \cup Ratios
    BY <1>3 DEF RecordWin, ClearPool, Max2
  <2> QED
    BY <1>3, <2>1, <2>2, <2>3, <2>4 DEF RecordWin, SettlePcs
<1>4. CASE ResetManualCycle
  BY <1>4 DEF ResetManualCycle, ClearRow, ClearPool, PartsBefore, OneContract, PlanPcs, SettlePcs, Modes
<1>5. CASE ArmNextSplit
  BY <1>5 DEF ArmNextSplit, PartsBefore, OneContract, PlanPcs, SettlePcs, Modes
<1>6. CASE EnterVirtualHook
  <2>1. pending' \in BOOLEAN /\ mode' \in Modes
    BY <1>6 DEF EnterVirtualHook, Modes
  <2>2. pc' = "force" /\ UNCHANGED open /\ ~open
    BY <1>6 DEF EnterVirtualHook, OneContract
  <2> QED
    BY <1>6, <2>1, <2>2 DEF EnterVirtualHook, SettlePcs
<1>7. CASE ForceRecovery
  <2>1. pending' \in BOOLEAN
    BY <1>7, Zenon DEF ForceRecovery
  <2>2. job' \in JobType
    <3>1. job \in JobType /\ debt \in Nat
      BY DEF JobType
    <3> QED
      BY <1>7, <3>1, NoJobType, SeenType DEF ForceRecovery
  <2>3. mode' \in Modes /\ pc' \in SettlePcs \cup {"idle"}
    BY <1>7 DEF ForceRecovery, SettlePcs, Modes
  <2> QED
    BY <1>7, <2>1, <2>2, <2>3 DEF ForceRecovery, SettlePcs, JobType
<1> QED
  BY <1>1, <1>2, <1>3, <1>4, <1>5, <1>6, <1>7

LEMMA OutcomeKept ==
  ASSUME LedgerInvariant,
         \/ SettleTrade
         \/ RecordLoss
         \/ RecordWin
         \/ ResetManualCycle
         \/ ArmNextSplit
         \/ EnterVirtualHook
         \/ ForceRecovery
  PROVE  Kept'
<1> USE DEF risk, split, trade, history, setting, To
<1>1. CASE SettleTrade
  <2>1. PICK won \in BOOLEAN, amount \in Nat \ {0} :
          job' = [won |-> won, amount |-> amount, was |-> IsRecovery, seen |-> 0]
    BY <1>1, SettledJob DEF LedgerInvariant
  <2>2. job'.amount > 0 /\ (debt > 0 => attempt /\ job'.was)
    <3>1. debt > 0 => attempt
      BY <1>1 DEF SettleTrade, LedgerInvariant, DebtTradesAreRecovery
    <3>2. job'.amount = amount /\ job'.was = IsRecovery
      BY <2>1
    <3>3. debt > 0 => IsRecovery
      BY <3>1 DEF IsRecovery
    <3> QED
      BY <3>1, <3>2, <3>3
  <2>3. PoolKept'
    BY <1>1 DEF SettleTrade, LedgerInvariant, PoolKept, Priced, LossPcs, WonPcs
  <2> QED
    BY <1>1, <2>2, <2>3 DEF SettleTrade, LedgerInvariant, Kept, TypeOK, DebtTradesAreRecovery,
       DebtIsArmed, OneContract, HookKept, HookHoldsRealTrades, PlanPcs
<1>2. CASE RecordLoss
  BY <1>2, LedgerAssumption, PartStakeType
  DEF RecordLoss, EntersVirtual, Max2, Share, Modes, SettlePcs, LedgerInvariant,
      Kept, TypeOK, DebtTradesAreRecovery, DebtIsArmed, OneContract,
      PoolKept, Priced, LossPcs, WonPcs, HookKept, HookHoldsRealTrades, PlanPcs, PartsBefore
<1>3. CASE RecordWin
  <2>1. /\ debt \in Nat /\ debt' \in Nat /\ pool \in Nat /\ legs \in Nat /\ partStake \in Nat
        /\ job \in JobType /\ job.amount \in Nat \ {0} /\ SplitCount \in 1 .. 3
    BY <1>3, LedgerAssumption
    DEF RecordWin, Max2, LedgerInvariant, TypeOK, OneContract, JobType
  <2>4. /\ pc' = "manual" /\ streak' = 0 /\ losses' = 0 /\ ~open' /\ job' = job /\ job.won
        /\ (debt' > 0 => pending') /\ threshold' \in Nat
    BY <1>3, LedgerAssumption DEF RecordWin, LedgerInvariant, OneContract, TypeOK
  <2>2. CASE debt' > 0 /\ ~torn
    <3>1. attempt /\ martingale /\ debt > 0 /\ job.was /\ debt' = debt - job.amount
      BY <1>3, <2>1, <2>2 DEF RecordWin, Max2, LedgerInvariant, OneContract
    <3>2. /\ Priced /\ legs < SplitCount /\ remaining = SplitCount - legs /\ pool > 0
          /\ (~short => Share(debt, legs, pool))
      BY <1>3, <2>2, <3>1 DEF RecordWin, LedgerInvariant, PoolKept
    <3>3. legs' = legs + 1 /\ UNCHANGED <<pool, ratio, basis, partStake, remaining, job>>
          /\ pc' = "manual" /\ ~torn'
          /\ (~short' => ~short /\ ratio # 0 /\ job.amount * Par >= partStake * ratio)
      <4>1. debt' # 0
        BY <2>1, <2>2
      <4>2. short' = (short \/ ratio = 0 \/ job.amount * Par < partStake * ratio)
        BY <1>3, <4>1 DEF RecordWin
      <4>3. job.amount * Par \in Nat /\ partStake * ratio \in Nat
        BY <2>1, ProductType, LedgerAssumption DEF LedgerInvariant, TypeOK
      <4>4. legs' = legs + 1 /\ UNCHANGED <<pool, ratio, basis, partStake, remaining, job>>
            /\ pc' = "manual" /\ ~torn'
        BY <1>3, <2>2, <4>1 DEF RecordWin
      <4>5. ~short' => ~short /\ ratio # 0 /\ ~(job.amount * Par < partStake * ratio)
        BY <4>2, Zenon
      <4> QED
        BY <4>3, <4>4, <4>5
    <3>4. ~short' => Share(debt', legs', pool')
      <4> SUFFICES ASSUME ~short' PROVE Share(debt', legs', pool')
        OBVIOUS
      <4>1. ratio \in Ratios /\ job.amount * Par >= PartStake(pool, ratio) * ratio
        BY <3>2, <3>3 DEF Priced, LedgerInvariant, TypeOK
      <4>2. SplitCount * job.amount >= pool
        BY <2>1, <4>1, PartStakeCovers
      <4>3. SplitCount * debt <= (SplitCount - legs) * pool
        BY <3>2, <3>3 DEF Share
      <4>4. SplitCount * (debt - job.amount) <= (SplitCount - (legs + 1)) * pool
        <5>1. CASE SplitCount = 1
          BY <2>1, <3>2, <4>2, <4>3, <5>1
        <5>2. CASE SplitCount = 2
          <6>1. legs = 0 \/ legs = 1
            BY <2>1, <3>2, <5>2
          <6> QED
            BY <2>1, <4>2, <4>3, <5>2, <6>1
        <5>3. CASE SplitCount = 3
          <6>1. legs = 0 \/ legs = 1 \/ legs = 2
            BY <2>1, <3>2, <5>3
          <6> QED
            BY <2>1, <4>2, <4>3, <5>3, <6>1
        <5> QED
          BY <2>1, <5>1, <5>2, <5>3
      <4> QED
        BY <3>1, <3>3, <4>4 DEF Share
    <3>5. PoolKept'
      BY <1>3, <2>1, <2>2, <3>1, <3>2, <3>3, <3>4
      DEF RecordWin, PoolKept, Priced, LossPcs, WonPcs
    <3> QED
      BY <2>1, <2>4, <3>5 DEF Kept, DebtTradesAreRecovery, DebtIsArmed, OneContract, HookKept,
         HookHoldsRealTrades, PlanPcs
  <2>3. CASE ~(debt' > 0 /\ ~torn)
    <3>1. debt' = 0 \/ torn'
      BY <1>3, <2>1, <2>3 DEF RecordWin
    <3>2. PoolKept'
      BY <2>1, <3>1 DEF PoolKept
    <3> QED
      BY <2>1, <2>4, <3>2 DEF Kept, DebtTradesAreRecovery, DebtIsArmed, OneContract, HookKept,
         HookHoldsRealTrades, PlanPcs
  <2> QED
    BY <2>2, <2>3
<1>4. CASE ResetManualCycle
  BY <1>4, LedgerAssumption, PartStakeType
  DEF ResetManualCycle, ClearRow, ClearPool, Modes, SettlePcs, LedgerInvariant,
      Kept, TypeOK, DebtTradesAreRecovery, DebtIsArmed, OneContract,
      PoolKept, Priced, LossPcs, WonPcs, HookKept, HookHoldsRealTrades, PlanPcs, PartsBefore
<1>5. CASE ArmNextSplit
  BY <1>5, LedgerAssumption, PartStakeType
  DEF ArmNextSplit, Modes, SettlePcs, LedgerInvariant,
      Kept, TypeOK, DebtTradesAreRecovery, DebtIsArmed, OneContract,
      PoolKept, Priced, LossPcs, WonPcs, HookKept, HookHoldsRealTrades, PlanPcs, PartsBefore
<1>6. CASE EnterVirtualHook
  BY <1>6, LedgerAssumption, PartStakeType
  DEF EnterVirtualHook, Modes, SettlePcs, LedgerInvariant,
      Kept, TypeOK, DebtTradesAreRecovery, DebtIsArmed, OneContract,
      PoolKept, Priced, LossPcs, WonPcs, HookKept, HookHoldsRealTrades, PlanPcs, PartsBefore
<1>7. CASE ForceRecovery
  BY <1>7, LedgerAssumption, PartStakeType
  DEF ForceRecovery, NoJob, Modes, SettlePcs, LedgerInvariant,
      Kept, TypeOK, DebtTradesAreRecovery, DebtIsArmed, OneContract,
      PoolKept, Priced, LossPcs, WonPcs, HookKept, HookHoldsRealTrades, PlanPcs, PartsBefore
<1> QED
  BY <1>1, <1>2, <1>3, <1>4, <1>5, <1>6, <1>7

(* ... and the split preferences.                                          *)
LEMMA PreferenceType ==
  ASSUME LedgerInvariant,
         \/ CountParts
         \/ WritePartsLeft
         \/ RecordEqualSplit
         \/ RebaseParts
         \/ WritePool /\ DropPool
         \/ WritePool /\ OpenPool
  PROVE  TypeOK'
<1> USE LedgerAssumption, PartStakeType DEF LedgerInvariant, TypeOK, risk, split, trade, history, setting, To
<1>1. CASE CountParts
  BY <1>1 DEF CountParts, PartsBefore, OneContract, PlanPcs, SettlePcs
<1>2. CASE WritePartsLeft
  BY <1>2 DEF WritePartsLeft, PartsBefore, OneContract, PlanPcs, SettlePcs
<1>3. CASE RecordEqualSplit
  BY <1>3 DEF RecordEqualSplit, IsRecovery, PartsBefore, OneContract, PlanPcs, SettlePcs
<1>4. CASE RebaseParts
  BY <1>4 DEF RebaseParts, OneContract, PlanPcs, SettlePcs
<1>5. CASE WritePool /\ DropPool
  <2>1. job' \in JobType
    BY <1>5, NoJobType DEF DropPool, JobType
  <2>2. remaining' \in 0 .. SplitCount /\ basis' \in Nat /\ partStake' \in Nat
    BY <1>5, LedgerAssumption DEF DropPool
  <2>3. pc' \in SettlePcs \cup {"idle"} /\ (pc' = "planned" <=> pc = "planned")
    BY <1>5 DEF DropPool, SettlePcs
  <2> QED
    BY <1>5, <2>1, <2>2, <2>3 DEF WritePool, JobType
<1>6. CASE WritePool /\ OpenPool
  <2>1. job' \in JobType
    BY <1>6, NoJobType DEF OpenPool, JobType
  <2>2. remaining' \in 0 .. SplitCount /\ basis' \in Nat /\ partStake' \in Nat
    BY <1>6, LedgerAssumption DEF OpenPool
  <2>3. pc' \in SettlePcs \cup {"idle"} /\ (pc' = "planned" <=> pc = "planned")
    BY <1>6 DEF OpenPool, SettlePcs
  <2> QED
    BY <1>6, <2>1, <2>2, <2>3 DEF WritePool, JobType
<1> QED
  BY <1>1, <1>2, <1>3, <1>4, <1>5, <1>6

LEMMA PreferenceKept ==
  ASSUME LedgerInvariant,
         \/ CountParts
         \/ WritePartsLeft
         \/ RecordEqualSplit
         \/ RebaseParts
         \/ WritePool /\ DropPool
         \/ WritePool /\ OpenPool
  PROVE  Kept'
<1> USE DEF risk, split, trade, history, setting, To
<1>1. CASE CountParts
  BY <1>1, LedgerAssumption, PartStakeType
  DEF CountParts, Modes, SettlePcs, LedgerInvariant,
      Kept, TypeOK, DebtTradesAreRecovery, DebtIsArmed, OneContract,
      PoolKept, Priced, LossPcs, WonPcs, HookKept, HookHoldsRealTrades, PlanPcs, PartsBefore
<1>2. CASE WritePartsLeft
  <2>1. CASE debt > 0 /\ ~torn /\ pc = "next_part" /\ job.won
    <3>1. /\ job.was /\ legs \in 1 .. SplitCount /\ legs < SplitCount /\ pending
          /\ remaining = SplitCount - legs + 1 /\ remaining' = SplitCount - legs
          /\ Priced /\ pool > 0
      BY <1>2, <2>1, LedgerAssumption DEF WritePartsLeft, LedgerInvariant, TypeOK, PoolKept, PartsBefore, WonPcs
    <3>2. PoolKept'
      BY <1>2, <2>1, <3>1 DEF WritePartsLeft, LedgerInvariant, PoolKept, Priced, LossPcs, WonPcs
    <3> QED
      BY <1>2, <2>1, <3>2 DEF WritePartsLeft, LedgerInvariant, Kept, TypeOK, DebtTradesAreRecovery,
         DebtIsArmed, OneContract, HookKept, HookHoldsRealTrades
  <2>2. CASE ~(debt > 0 /\ ~torn /\ pc = "next_part" /\ job.won)
    <3>1. PoolKept'
      BY <1>2, <2>2 DEF WritePartsLeft, LedgerInvariant, OneContract, PoolKept, LossPcs, WonPcs
    <3> QED
      BY <1>2, <3>1 DEF WritePartsLeft, LedgerInvariant, Kept, TypeOK, DebtTradesAreRecovery,
         DebtIsArmed, OneContract, HookKept, HookHoldsRealTrades
  <2> QED
    BY <2>1, <2>2
<1>3. CASE RecordEqualSplit
  BY <1>3, LedgerAssumption, PartStakeType
  DEF RecordEqualSplit, IsRecovery, Modes, SettlePcs, LedgerInvariant,
      Kept, TypeOK, DebtTradesAreRecovery, DebtIsArmed, OneContract,
      PoolKept, Priced, LossPcs, WonPcs, HookKept, HookHoldsRealTrades, PlanPcs, PartsBefore
<1>4. CASE RebaseParts
  BY <1>4, LedgerAssumption, PartStakeType
  DEF RebaseParts, Modes, SettlePcs, LedgerInvariant,
      Kept, TypeOK, DebtTradesAreRecovery, DebtIsArmed, OneContract,
      PoolKept, Priced, LossPcs, WonPcs, HookKept, HookHoldsRealTrades, PlanPcs, PartsBefore
<1>5. CASE WritePool /\ DropPool
  BY <1>5, LedgerAssumption, PartStakeType
  DEF DropPool, WritePool, NoJob, Modes, SettlePcs, LedgerInvariant,
      Kept, TypeOK, DebtTradesAreRecovery, DebtIsArmed, OneContract,
      PoolKept, Priced, LossPcs, WonPcs, HookKept, HookHoldsRealTrades, PlanPcs, PartsBefore
<1>6. CASE WritePool /\ OpenPool
  BY <1>6, LedgerAssumption, PartStakeType
  DEF OpenPool, WritePool, NoJob, Modes, SettlePcs, LedgerInvariant,
      Kept, TypeOK, DebtTradesAreRecovery, DebtIsArmed, OneContract,
      PoolKept, Priced, LossPcs, WonPcs, HookKept, HookHoldsRealTrades, PlanPcs, PartsBefore
<1> QED
  BY <1>1, <1>2, <1>3, <1>4, <1>5, <1>6

(* The other processes.                                                    *)
LEMMA OtherType ==
  ASSUME LedgerInvariant,
         \/ VirtualConfirmed
         \/ Stop
         \/ Start
         \/ SaveStrategy
         \/ SaveSettings
         \/ DayPasses
         \/ Restart
  PROVE  TypeOK'
<1> USE LedgerAssumption, PartStakeType DEF LedgerInvariant, TypeOK, risk, split, trade, history, setting, To
<1>1. CASE VirtualConfirmed
  BY <1>1 DEF VirtualConfirmed, OneContract, PlanPcs, SettlePcs, Modes
<1>2. CASE Stop
  <2>1. UNCHANGED <<threshold, martingale, newDay, restarts, debt, losses, pending, attempt,
                    mode, remaining, basis, partStake, pc, stake, open, job, pool, ratio, legs,
                    short, streak, torn>>
    BY <1>2 DEF Stop
  <2>2. running' \in BOOLEAN
    BY <1>2 DEF Stop
  <2> QED
    BY <2>1, <2>2
<1>3. CASE Start
  BY <1>3 DEF Start, ClearRow, ClearPool, OneContract, PlanPcs, SettlePcs, Modes
<1>4. CASE SaveStrategy
  <2>1. UNCHANGED <<running, martingale, restarts, basis, partStake, pc, stake, open, job>>
    BY <1>4 DEF SaveStrategy
  <2>2. /\ debt' = 0 /\ losses' = 0 /\ pending' = FALSE /\ attempt' = FALSE /\ mode' = "NORMAL"
        /\ pool' = 0 /\ ratio' = 0 /\ legs' = 0 /\ short' = FALSE /\ torn' = FALSE
        /\ streak' = 0 /\ remaining' = 0 /\ newDay' = TRUE /\ threshold' \in Thresholds
    BY <1>4 DEF SaveStrategy, ClearRow, ClearPool
  <2>3. remaining' \in 0 .. SplitCount
    BY <2>2
  <2> QED
    BY <2>1, <2>2, <2>3 DEF Modes
<1>5. CASE SaveSettings
  <2>1. UNCHANGED <<running, threshold, newDay, restarts, debt, losses, pending, attempt, mode,
                    remaining, basis, partStake, pc, stake, open, job, pool, ratio, legs, short,
                    streak, torn>>
    BY <1>5 DEF SaveSettings
  <2>2. martingale' \in BOOLEAN
    BY <1>5 DEF SaveSettings
  <2> QED
    BY <2>1, <2>2
<1>6. CASE DayPasses
  BY <1>6 DEF DayPasses, OneContract, PlanPcs, SettlePcs, Modes
<1>7. CASE Restart
  BY <1>7 DEF Restart, NoJob, PlanPcs, OneContract, PlanPcs, SettlePcs, Modes
<1> QED
  BY <1>1, <1>2, <1>3, <1>4, <1>5, <1>6, <1>7

LEMMA OtherKept ==
  ASSUME LedgerInvariant,
         \/ VirtualConfirmed
         \/ Stop
         \/ Start
         \/ SaveStrategy
         \/ SaveSettings
         \/ DayPasses
         \/ Restart
  PROVE  Kept'
<1> USE DEF risk, split, trade, history, setting, To
<1>1. CASE VirtualConfirmed
  BY <1>1, LedgerAssumption, PartStakeType
  DEF VirtualConfirmed, Modes, SettlePcs, LedgerInvariant,
      Kept, TypeOK, DebtTradesAreRecovery, DebtIsArmed, OneContract,
      PoolKept, Priced, LossPcs, WonPcs, HookKept, HookHoldsRealTrades, PlanPcs, PartsBefore
<1>2. CASE Stop
  BY <1>2, LedgerAssumption, PartStakeType
  DEF Stop, Modes, SettlePcs, LedgerInvariant,
      Kept, TypeOK, DebtTradesAreRecovery, DebtIsArmed, OneContract,
      PoolKept, Priced, LossPcs, WonPcs, HookKept, HookHoldsRealTrades, PlanPcs, PartsBefore
<1>3. CASE Start
  BY <1>3, LedgerAssumption, PartStakeType
  DEF Start, ClearRow, ClearPool, Modes, SettlePcs, LedgerInvariant,
      Kept, TypeOK, DebtTradesAreRecovery, DebtIsArmed, OneContract,
      PoolKept, Priced, LossPcs, WonPcs, HookKept, HookHoldsRealTrades, PlanPcs, PartsBefore
<1>4. CASE SaveStrategy
  BY <1>4, LedgerAssumption, PartStakeType
  DEF SaveStrategy, ClearRow, ClearPool, Modes, SettlePcs, LedgerInvariant,
      Kept, TypeOK, DebtTradesAreRecovery, DebtIsArmed, OneContract,
      PoolKept, Priced, LossPcs, WonPcs, HookKept, HookHoldsRealTrades, PlanPcs, PartsBefore
<1>5. CASE SaveSettings
  BY <1>5, LedgerAssumption, PartStakeType
  DEF SaveSettings, Modes, SettlePcs, LedgerInvariant,
      Kept, TypeOK, DebtTradesAreRecovery, DebtIsArmed, OneContract,
      PoolKept, Priced, LossPcs, WonPcs, HookKept, HookHoldsRealTrades, PlanPcs, PartsBefore
<1>6. CASE DayPasses
  BY <1>6, LedgerAssumption, PartStakeType
  DEF DayPasses, Modes, SettlePcs, LedgerInvariant,
      Kept, TypeOK, DebtTradesAreRecovery, DebtIsArmed, OneContract,
      PoolKept, Priced, LossPcs, WonPcs, HookKept, HookHoldsRealTrades, PlanPcs, PartsBefore
<1>7. CASE Restart
  BY <1>7, LedgerAssumption, PartStakeType
  DEF Restart, NoJob, Modes, SettlePcs, LedgerInvariant,
      Kept, TypeOK, DebtTradesAreRecovery, DebtIsArmed, OneContract,
      PoolKept, Priced, LossPcs, WonPcs, HookKept, HookHoldsRealTrades, PlanPcs, PartsBefore
<1> QED
  BY <1>1, <1>2, <1>3, <1>4, <1>5, <1>6, <1>7

-----------------------------------------------------------------------------
LEMMA LedgerStep == LedgerInvariant /\ [Next]_vars => LedgerInvariant'
<1> SUFFICES ASSUME LedgerInvariant, [Next]_vars PROVE LedgerInvariant'
  OBVIOUS
<1>1. CASE Plan \/ PlanDropped \/ Buy
  BY <1>1, PlanningType, PlanningKept DEF Plan, LedgerInvariant, Kept
<1>2. CASE Settle
  <2>1. CASE WritePool
    BY <2>1, PreferenceType, PreferenceKept DEF WritePool, LedgerInvariant, Kept
  <2>2. CASE CountParts \/ WritePartsLeft \/ RecordEqualSplit \/ RebaseParts
    BY <2>2, PreferenceType, PreferenceKept DEF LedgerInvariant, Kept
  <2> QED
    BY <1>2, <2>1, <2>2, OutcomeType, OutcomeKept DEF Settle, LedgerInvariant, Kept
<1>3. CASE VirtualConfirmed \/ Stop \/ Start \/ SaveStrategy \/ SaveSettings
         \/ DayPasses \/ Restart
  BY <1>3, OtherType, OtherKept DEF LedgerInvariant, Kept
<1>4. CASE UNCHANGED vars
  <2>1. TypeOK'
    BY <1>4 DEF vars, LedgerInvariant, TypeOK
  <2>2. Kept'
    BY <1>4 DEF vars, LedgerInvariant, Kept, DebtTradesAreRecovery, DebtIsArmed, OneContract,
       PoolKept, Priced, HookKept, HookHoldsRealTrades
  <2> QED
    BY <2>1, <2>2 DEF LedgerInvariant, Kept
<1> QED
  BY <1>1, <1>2, <1>3, <1>4 DEF Next

(* The ledger's invariant: how far the booking of an outcome has come      *)
(* determines what every split preference holds.                           *)
THEOREM LedgerInvariantTheorem == Spec => []LedgerInvariant
  BY LedgerInit, LedgerStep, PTL DEF Spec

(* Every variable keeps its type; no trade is planned without a stake.     *)
THEOREM LedgerTypes == Spec => []TypeOK
<1>1. LedgerInvariant => TypeOK
  BY DEF LedgerInvariant
<1> QED
  BY <1>1, LedgerInvariantTheorem, PTL

(* A contract bought under a debt is always booked as a recovery.          *)
THEOREM DebtTradesAreRecoveries == Spec => []DebtTradesAreRecovery
<1>1. LedgerInvariant => DebtTradesAreRecovery
  BY DEF LedgerInvariant
<1> QED
  BY <1>1, LedgerInvariantTheorem, PTL

(* No real trade is planned while the Virtual Hook is owed its wins.       *)
THEOREM HookIsHeld == Spec => []HookHoldsRealTrades
<1>1. LedgerInvariant => HookHoldsRealTrades
  BY DEF LedgerInvariant
<1> QED
  BY <1>1, LedgerInvariantTheorem, PTL

(* A debt is only forgiven after its parts, one of them paid short; with a *)
(* recovery won while the martingale is off; by a Start, a saved strategy  *)
(* or a new day.                                                           *)
THEOREM DebtIsNotForgivenEarly == Spec => DebtForgivenAfterParts
<1> DEFINE Forgiven == debt > 0 /\ debt' = 0 =>
             \/ torn
             \/ RecordWin /\ (job.amount >= debt \/ ~martingale)
             \/ legs >= SplitCount /\ short
             \/ Start \/ SaveStrategy \/ PlanRollsOver
<1>1. LedgerInvariant /\ [Next]_vars => [Forgiven]_vars
  <2> SUFFICES ASSUME LedgerInvariant, Next, debt > 0, debt' = 0, ~torn PROVE Forgiven
    BY DEF vars
  <2>1. debt \in Nat /\ remaining \in 0 .. SplitCount /\ legs \in Nat /\ job.amount \in Nat
        /\ pool \in Nat
    BY DEF LedgerInvariant, TypeOK
  <2>2. CASE RecordWin
    <3>1. attempt
      BY <2>2 DEF RecordWin, LedgerInvariant, OneContract
    <3> QED
      BY <2>1, <2>2, <3>1 DEF RecordWin, Max2
  <2>3. CASE ResetManualCycle
    <3>1. remaining = SplitCount - legs + 1 /\ legs \in 1 .. SplitCount
          /\ (~short => Share(debt, legs, pool))
      BY <2>3 DEF ResetManualCycle, LedgerInvariant, PoolKept
    <3>2. legs = SplitCount
      BY <2>1, <2>3, <3>1, LedgerAssumption DEF ResetManualCycle, PartsBefore
    <3>3. ~Share(debt, legs, pool)
      BY <2>1, <3>2, LedgerAssumption DEF Share
    <3> QED
      BY <2>1, <3>1, <3>2, <3>3
  <2>4. CASE RecordLoss
    BY <2>1, <2>4 DEF RecordLoss
  <2>5. CASE Start \/ SaveStrategy \/ PlanRollsOver
    BY <2>5
  <2>6. CASE UNCHANGED debt
    BY <2>1, <2>6
  <2> QED
    BY <2>2, <2>3, <2>4, <2>5, <2>6
    DEF Next, Plan, Settle, PlanBegins, RepairBasis, RepairPart, PlanLower, PlanForgottenDebt,
        PlanInner, PlanGlobal, PricePart, MarkRecovery, PlanDropped, Buy, SettleTrade, CountParts,
        ArmNextSplit, WritePartsLeft, RecordEqualSplit, RebaseParts, EnterVirtualHook,
        ForceRecovery, WritePool, VirtualConfirmed, Stop, SaveSettings, DayPasses, Restart, risk
<1> QED
  BY <1>1, LedgerInvariantTheorem, PTL DEF Spec, DebtForgivenAfterParts

(* Every part of a pool is planned with the stake its first proposal has   *)
(* priced, whatever the later proposals promise.                           *)
THEOREM PartsStayEqual == Spec => PartsAreEqual
<1> DEFINE Equal == MarkRecovery /\ debt > 0 /\ ~torn =>
             /\ ratio # 0 /\ stake' = PartStake(pool, ratio)
             /\ remaining = SplitCount - legs
<1>1. LedgerInvariant => Equal
  BY DEF MarkRecovery, LedgerInvariant, PoolKept, Priced
<1> QED
  BY <1>1, LedgerInvariantTheorem, PTL DEF Spec, PartsAreEqual
=============================================================================
