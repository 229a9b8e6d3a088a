------------------------- MODULE VirtualHook_proofs -------------------------
(***************************************************************************)
(* Proofs about VirtualHook, for every threshold, duration, buffer and     *)
(* number of restarts.                                                     *)
(***************************************************************************)
EXTENDS VirtualHook, TLAPS

(* Every step keeps the types.                                             *)
LEMMA HookType == HookInvariant /\ [Next]_vars => TypeOK'
<1> SUFFICES ASSUME HookInvariant, [Next]_vars PROVE TypeOK'
  OBVIOUS
<1>0. TypeOK /\ WinsServed /\ OneActivity
  BY DEF HookInvariant
<1> USE HookAssumption DEF risk, sample, ticks, lock, work, epochs, Modes, Ended, None
<1>1. CASE HandleTick
  <2> USE DEF SettleVirtualMirror, Unlock, VoidForRetry, SettleOne, Snapshot,
              Exit, Min2, Older
  <2>1. running' \in BOOLEAN /\ mode' \in Modes /\ debt' \in BOOLEAN
    BY <1>0, <1>1 DEF TypeOK, HandleTick
  <2>2. losses' \in 0 .. EnterAfter /\ wins' \in 0 .. ExitAfter
    BY <1>0, <1>1 DEF TypeOK, WinsServed, OneActivity, HandleTick
  <2>3. row' \in {"none", "open"} \cup Ended /\ entry' \in 0 .. MaxSeq
    BY <1>0, <1>1 DEF TypeOK, HandleTick
  <2>4. open' \in BOOLEAN /\ seq' \in 0 .. MaxSeq /\ handling' \in BOOLEAN
    BY <1>0, <1>1 DEF TypeOK, HandleTick
  <2>5. admitted' \in BOOLEAN /\ due' \in BOOLEAN /\ held' \in BOOLEAN
    BY <1>0, <1>1 DEF TypeOK, HandleTick
  <2>6. resume' \in BOOLEAN
    BY <1>0, <1>1 DEF TypeOK, HandleTick
  <2>7. task' \in {"none", "signal", "real"} /\ sig' \in 0 .. MaxSeq
    BY <1>0, <1>1 DEF TypeOK, HandleTick
  <2>8. arming' \in None .. 1 /\ barrier' \in None .. 1 /\ lossAt' \in -1 .. 1
    BY <1>0, <1>1 DEF TypeOK, HandleTick
  <2>9. missed' \in BOOLEAN
    BY <1>0, <1>1 DEF TypeOK, HandleTick
  <2>10. served' \in Nat /\ restarts' \in 0 .. MaxRestarts
    BY <1>0, <1>1 DEF TypeOK, HandleTick
  <2> QED BY <2>1, <2>2, <2>3, <2>4, <2>5, <2>6, <2>7, <2>8, <2>9, <2>10 DEF TypeOK
<1>2. CASE FinishTick
  <2>1. running' \in BOOLEAN /\ mode' \in Modes /\ debt' \in BOOLEAN
    BY <1>0, <1>2 DEF TypeOK, FinishTick, MaySchedule, Barred
  <2>2. losses' \in 0 .. EnterAfter /\ wins' \in 0 .. ExitAfter
    BY <1>0, <1>2 DEF TypeOK, FinishTick, MaySchedule, Barred
  <2>3. row' \in {"none", "open"} \cup Ended /\ entry' \in 0 .. MaxSeq
    BY <1>0, <1>2 DEF TypeOK, FinishTick, MaySchedule, Barred
  <2>4. open' \in BOOLEAN /\ seq' \in 0 .. MaxSeq /\ handling' \in BOOLEAN
    BY <1>0, <1>2 DEF TypeOK, FinishTick, MaySchedule, Barred
  <2>5. admitted' \in BOOLEAN /\ due' \in BOOLEAN /\ held' \in BOOLEAN
    BY <1>0, <1>2 DEF TypeOK, FinishTick, MaySchedule, Barred
  <2>6. resume' \in BOOLEAN
    BY <1>0, <1>2 DEF TypeOK, FinishTick, MaySchedule, Barred
  <2>7. task' \in {"none", "signal", "real"} /\ sig' \in 0 .. MaxSeq
    BY <1>0, <1>2 DEF TypeOK, FinishTick, MaySchedule, Barred
  <2>8. arming' \in None .. 1 /\ barrier' \in None .. 1 /\ lossAt' \in -1 .. 1
    BY <1>0, <1>2 DEF TypeOK, FinishTick, MaySchedule, Barred
  <2>9. missed' \in BOOLEAN
    BY <1>0, <1>2 DEF TypeOK, FinishTick, MaySchedule, Barred
  <2>10. served' \in Nat /\ restarts' \in 0 .. MaxRestarts
    BY <1>0, <1>2 DEF TypeOK, FinishTick, MaySchedule, Barred
  <2> QED BY <2>1, <2>2, <2>3, <2>4, <2>5, <2>6, <2>7, <2>8, <2>9, <2>10 DEF TypeOK
<1>3. CASE MissTick
  <2>1. running' \in BOOLEAN /\ mode' \in Modes /\ debt' \in BOOLEAN
    BY <1>0, <1>3 DEF TypeOK, MissTick, Exit, Older
  <2>2. losses' \in 0 .. EnterAfter /\ wins' \in 0 .. ExitAfter
    BY <1>0, <1>3 DEF TypeOK, MissTick, Exit, Older
  <2>3. row' \in {"none", "open"} \cup Ended /\ entry' \in 0 .. MaxSeq
    BY <1>0, <1>3 DEF TypeOK, MissTick, Exit, Older
  <2>4. open' \in BOOLEAN /\ seq' \in 0 .. MaxSeq /\ handling' \in BOOLEAN
    BY <1>0, <1>3 DEF TypeOK, MissTick, Exit, Older
  <2>5. admitted' \in BOOLEAN /\ due' \in BOOLEAN /\ held' \in BOOLEAN
    BY <1>0, <1>3 DEF TypeOK, MissTick, Exit, Older
  <2>6. resume' \in BOOLEAN
    BY <1>0, <1>3 DEF TypeOK, MissTick, Exit, Older
  <2>7. task' \in {"none", "signal", "real"} /\ sig' \in 0 .. MaxSeq
    BY <1>0, <1>3 DEF TypeOK, MissTick, Exit, Older
  <2>8. arming' \in None .. 1 /\ barrier' \in None .. 1 /\ lossAt' \in -1 .. 1
    BY <1>0, <1>3 DEF TypeOK, MissTick, Exit, Older
  <2>9. missed' \in BOOLEAN
    BY <1>0, <1>3 DEF TypeOK, MissTick, Exit, Older
  <2>10. served' \in Nat /\ restarts' \in 0 .. MaxRestarts
    BY <1>0, <1>3 DEF TypeOK, MissTick, Exit, Older
  <2> QED BY <2>1, <2>2, <2>3, <2>4, <2>5, <2>6, <2>7, <2>8, <2>9, <2>10 DEF TypeOK
<1>4. CASE StartVirtualTrade
  <2>1. running' \in BOOLEAN /\ mode' \in Modes /\ debt' \in BOOLEAN
    BY <1>0, <1>4 DEF TypeOK, StartVirtualTrade
  <2>2. losses' \in 0 .. EnterAfter /\ wins' \in 0 .. ExitAfter
    BY <1>0, <1>4 DEF TypeOK, StartVirtualTrade
  <2>3. row' \in {"none", "open"} \cup Ended /\ entry' \in 0 .. MaxSeq
    BY <1>0, <1>4 DEF TypeOK, StartVirtualTrade
  <2>4. open' \in BOOLEAN /\ seq' \in 0 .. MaxSeq /\ handling' \in BOOLEAN
    BY <1>0, <1>4 DEF TypeOK, StartVirtualTrade
  <2>5. admitted' \in BOOLEAN /\ due' \in BOOLEAN /\ held' \in BOOLEAN
    BY <1>0, <1>4 DEF TypeOK, StartVirtualTrade
  <2>6. resume' \in BOOLEAN
    BY <1>0, <1>4 DEF TypeOK, StartVirtualTrade
  <2>7. task' \in {"none", "signal", "real"} /\ sig' \in 0 .. MaxSeq
    BY <1>0, <1>4 DEF TypeOK, StartVirtualTrade
  <2>8. arming' \in None .. 1 /\ barrier' \in None .. 1 /\ lossAt' \in -1 .. 1
    BY <1>0, <1>4 DEF TypeOK, StartVirtualTrade
  <2>9. missed' \in BOOLEAN
    BY <1>0, <1>4 DEF TypeOK, StartVirtualTrade
  <2>10. served' \in Nat /\ restarts' \in 0 .. MaxRestarts
    BY <1>0, <1>4 DEF TypeOK, StartVirtualTrade
  <2> QED BY <2>1, <2>2, <2>3, <2>4, <2>5, <2>6, <2>7, <2>8, <2>9, <2>10 DEF TypeOK
<1>5. CASE ExecuteReal
  <2>1. running' \in BOOLEAN /\ mode' \in Modes /\ debt' \in BOOLEAN
    BY <1>0, <1>5 DEF TypeOK, ExecuteReal
  <2>2. losses' \in 0 .. EnterAfter /\ wins' \in 0 .. ExitAfter
    BY <1>0, <1>5 DEF TypeOK, ExecuteReal
  <2>3. row' \in {"none", "open"} \cup Ended /\ entry' \in 0 .. MaxSeq
    BY <1>0, <1>5 DEF TypeOK, ExecuteReal
  <2>4. open' \in BOOLEAN /\ seq' \in 0 .. MaxSeq /\ handling' \in BOOLEAN
    BY <1>0, <1>5 DEF TypeOK, ExecuteReal
  <2>5. admitted' \in BOOLEAN /\ due' \in BOOLEAN /\ held' \in BOOLEAN
    BY <1>0, <1>5 DEF TypeOK, ExecuteReal
  <2>6. resume' \in BOOLEAN
    BY <1>0, <1>5 DEF TypeOK, ExecuteReal
  <2>7. task' \in {"none", "signal", "real"} /\ sig' \in 0 .. MaxSeq
    BY <1>0, <1>5 DEF TypeOK, ExecuteReal
  <2>8. arming' \in None .. 1 /\ barrier' \in None .. 1 /\ lossAt' \in -1 .. 1
    BY <1>0, <1>5 DEF TypeOK, ExecuteReal
  <2>9. missed' \in BOOLEAN
    BY <1>0, <1>5 DEF TypeOK, ExecuteReal
  <2>10. served' \in Nat /\ restarts' \in 0 .. MaxRestarts
    BY <1>0, <1>5 DEF TypeOK, ExecuteReal
  <2> QED BY <2>1, <2>2, <2>3, <2>4, <2>5, <2>6, <2>7, <2>8, <2>9, <2>10 DEF TypeOK
<1>6. CASE BuyReal
  <2>1. running' \in BOOLEAN /\ mode' \in Modes /\ debt' \in BOOLEAN
    BY <1>0, <1>6 DEF TypeOK, BuyReal
  <2>2. losses' \in 0 .. EnterAfter /\ wins' \in 0 .. ExitAfter
    BY <1>0, <1>6 DEF TypeOK, BuyReal
  <2>3. row' \in {"none", "open"} \cup Ended /\ entry' \in 0 .. MaxSeq
    BY <1>0, <1>6 DEF TypeOK, BuyReal
  <2>4. open' \in BOOLEAN /\ seq' \in 0 .. MaxSeq /\ handling' \in BOOLEAN
    BY <1>0, <1>6 DEF TypeOK, BuyReal
  <2>5. admitted' \in BOOLEAN /\ due' \in BOOLEAN /\ held' \in BOOLEAN
    BY <1>0, <1>6 DEF TypeOK, BuyReal
  <2>6. resume' \in BOOLEAN
    BY <1>0, <1>6 DEF TypeOK, BuyReal
  <2>7. task' \in {"none", "signal", "real"} /\ sig' \in 0 .. MaxSeq
    BY <1>0, <1>6 DEF TypeOK, BuyReal
  <2>8. arming' \in None .. 1 /\ barrier' \in None .. 1 /\ lossAt' \in -1 .. 1
    BY <1>0, <1>6 DEF TypeOK, BuyReal
  <2>9. missed' \in BOOLEAN
    BY <1>0, <1>6 DEF TypeOK, BuyReal
  <2>10. served' \in Nat /\ restarts' \in 0 .. MaxRestarts
    BY <1>0, <1>6 DEF TypeOK, BuyReal
  <2> QED BY <2>1, <2>2, <2>3, <2>4, <2>5, <2>6, <2>7, <2>8, <2>9, <2>10 DEF TypeOK
<1>7. CASE TaskFails
  <2>1. running' \in BOOLEAN /\ mode' \in Modes /\ debt' \in BOOLEAN
    BY <1>0, <1>7 DEF TypeOK, TaskFails
  <2>2. losses' \in 0 .. EnterAfter /\ wins' \in 0 .. ExitAfter
    BY <1>0, <1>7 DEF TypeOK, TaskFails
  <2>3. row' \in {"none", "open"} \cup Ended /\ entry' \in 0 .. MaxSeq
    BY <1>0, <1>7 DEF TypeOK, TaskFails
  <2>4. open' \in BOOLEAN /\ seq' \in 0 .. MaxSeq /\ handling' \in BOOLEAN
    BY <1>0, <1>7 DEF TypeOK, TaskFails
  <2>5. admitted' \in BOOLEAN /\ due' \in BOOLEAN /\ held' \in BOOLEAN
    BY <1>0, <1>7 DEF TypeOK, TaskFails
  <2>6. resume' \in BOOLEAN
    BY <1>0, <1>7 DEF TypeOK, TaskFails
  <2>7. task' \in {"none", "signal", "real"} /\ sig' \in 0 .. MaxSeq
    BY <1>0, <1>7 DEF TypeOK, TaskFails
  <2>8. arming' \in None .. 1 /\ barrier' \in None .. 1 /\ lossAt' \in -1 .. 1
    BY <1>0, <1>7 DEF TypeOK, TaskFails
  <2>9. missed' \in BOOLEAN
    BY <1>0, <1>7 DEF TypeOK, TaskFails
  <2>10. served' \in Nat /\ restarts' \in 0 .. MaxRestarts
    BY <1>0, <1>7 DEF TypeOK, TaskFails
  <2> QED BY <2>1, <2>2, <2>3, <2>4, <2>5, <2>6, <2>7, <2>8, <2>9, <2>10 DEF TypeOK
<1>8. CASE SettleReal
  <2>0. /\ BookLoss \/ BookWin
        /\ served' = 0 \/ served' = served
        /\ UNCHANGED restarts /\ UNCHANGED barrier
        /\ (UNCHANGED <<lossAt, arming>>) \/ (\E at \in {0, 1} : lossAt' = at /\ arming' = at)
    BY <1>8 DEF SettleReal
  <2>1. running' \in BOOLEAN /\ mode' \in Modes /\ debt' \in BOOLEAN
    BY <1>0, <1>8 DEF TypeOK, SettleReal, BookLoss, BookWin, Min2
  <2>2. losses' \in 0 .. EnterAfter /\ wins' \in 0 .. ExitAfter
    BY <1>0, <2>0 DEF TypeOK, BookLoss, BookWin, Min2
  <2>3. row' \in {"none", "open"} \cup Ended /\ entry' \in 0 .. MaxSeq
    BY <1>0, <1>8 DEF TypeOK, SettleReal, BookLoss, BookWin, Min2
  <2>4. open' \in BOOLEAN /\ seq' \in 0 .. MaxSeq /\ handling' \in BOOLEAN
    BY <1>0, <1>8 DEF TypeOK, SettleReal, BookLoss, BookWin, Min2
  <2>5. admitted' \in BOOLEAN /\ due' \in BOOLEAN /\ held' \in BOOLEAN
    BY <1>0, <1>8 DEF TypeOK, SettleReal, BookLoss, BookWin, Min2
  <2>6. resume' \in BOOLEAN
    BY <1>0, <1>8 DEF TypeOK, SettleReal, BookLoss, BookWin, Min2
  <2>7. task' \in {"none", "signal", "real"} /\ sig' \in 0 .. MaxSeq
    BY <1>0, <1>8 DEF TypeOK, SettleReal, BookLoss, BookWin, Min2
  <2>8. arming' \in None .. 1 /\ barrier' \in None .. 1 /\ lossAt' \in -1 .. 1
    BY <1>0, <2>0 DEF TypeOK
  <2>9. missed' \in BOOLEAN
    BY <1>0, <1>8 DEF TypeOK, SettleReal, BookLoss, BookWin, Min2
  <2>10. served' \in Nat /\ restarts' \in 0 .. MaxRestarts
    BY <1>0, <2>0 DEF TypeOK
  <2> QED BY <2>1, <2>2, <2>3, <2>4, <2>5, <2>6, <2>7, <2>8, <2>9, <2>10 DEF TypeOK
<1>9. CASE ArmBarrier
  <2>1. running' \in BOOLEAN /\ mode' \in Modes /\ debt' \in BOOLEAN
    BY <1>0, <1>9 DEF TypeOK, ArmBarrier
  <2>2. losses' \in 0 .. EnterAfter /\ wins' \in 0 .. ExitAfter
    BY <1>0, <1>9 DEF TypeOK, ArmBarrier
  <2>3. row' \in {"none", "open"} \cup Ended /\ entry' \in 0 .. MaxSeq
    BY <1>0, <1>9 DEF TypeOK, ArmBarrier
  <2>4. open' \in BOOLEAN /\ seq' \in 0 .. MaxSeq /\ handling' \in BOOLEAN
    BY <1>0, <1>9 DEF TypeOK, ArmBarrier
  <2>5. admitted' \in BOOLEAN /\ due' \in BOOLEAN /\ held' \in BOOLEAN
    BY <1>0, <1>9 DEF TypeOK, ArmBarrier
  <2>6. resume' \in BOOLEAN
    BY <1>0, <1>9 DEF TypeOK, ArmBarrier
  <2>7. task' \in {"none", "signal", "real"} /\ sig' \in 0 .. MaxSeq
    BY <1>0, <1>9 DEF TypeOK, ArmBarrier
  <2>8. arming' \in None .. 1 /\ barrier' \in None .. 1 /\ lossAt' \in -1 .. 1
    BY <1>0, <1>9 DEF TypeOK, ArmBarrier
  <2>9. missed' \in BOOLEAN
    BY <1>0, <1>9 DEF TypeOK, ArmBarrier
  <2>10. served' \in Nat /\ restarts' \in 0 .. MaxRestarts
    BY <1>0, <1>9 DEF TypeOK, ArmBarrier
  <2> QED BY <2>1, <2>2, <2>3, <2>4, <2>5, <2>6, <2>7, <2>8, <2>9, <2>10 DEF TypeOK
<1>10. ASSUME NEW valid \in BOOLEAN, Refresh(valid) PROVE TypeOK'
  <2>1. running' \in BOOLEAN /\ mode' \in Modes /\ debt' \in BOOLEAN
    BY <1>0, <1>10 DEF TypeOK, Refresh, RestoreOpenVirtuals
  <2>2. losses' \in 0 .. EnterAfter /\ wins' \in 0 .. ExitAfter
    BY <1>0, <1>10 DEF TypeOK, Refresh, RestoreOpenVirtuals
  <2>3. row' \in {"none", "open"} \cup Ended /\ entry' \in 0 .. MaxSeq
    BY <1>0, <1>10 DEF TypeOK, Refresh, RestoreOpenVirtuals
  <2>4. open' \in BOOLEAN /\ seq' \in 0 .. MaxSeq /\ handling' \in BOOLEAN
    BY <1>0, <1>10 DEF TypeOK, Refresh, RestoreOpenVirtuals
  <2>5. admitted' \in BOOLEAN /\ due' \in BOOLEAN /\ held' \in BOOLEAN
    BY <1>0, <1>10 DEF TypeOK, Refresh, RestoreOpenVirtuals
  <2>6. resume' \in BOOLEAN
    BY <1>0, <1>10 DEF TypeOK, Refresh, RestoreOpenVirtuals
  <2>7. task' \in {"none", "signal", "real"} /\ sig' \in 0 .. MaxSeq
    BY <1>0, <1>10 DEF TypeOK, Refresh, RestoreOpenVirtuals
  <2>8. arming' \in None .. 1 /\ barrier' \in None .. 1 /\ lossAt' \in -1 .. 1
    BY <1>0, <1>10 DEF TypeOK, Refresh, RestoreOpenVirtuals
  <2>9. missed' \in BOOLEAN
    BY <1>0, <1>10 DEF TypeOK, Refresh, RestoreOpenVirtuals
  <2>10. served' \in Nat /\ restarts' \in 0 .. MaxRestarts
    BY <1>0, <1>10 DEF TypeOK, Refresh, RestoreOpenVirtuals
  <2> QED BY <2>1, <2>2, <2>3, <2>4, <2>5, <2>6, <2>7, <2>8, <2>9, <2>10 DEF TypeOK
<1>11. CASE Stop
  <2>1. running' \in BOOLEAN /\ mode' \in Modes /\ debt' \in BOOLEAN
    BY <1>0, <1>11 DEF TypeOK, Stop
  <2>2. losses' \in 0 .. EnterAfter /\ wins' \in 0 .. ExitAfter
    BY <1>0, <1>11 DEF TypeOK, Stop
  <2>3. row' \in {"none", "open"} \cup Ended /\ entry' \in 0 .. MaxSeq
    BY <1>0, <1>11 DEF TypeOK, Stop
  <2>4. open' \in BOOLEAN /\ seq' \in 0 .. MaxSeq /\ handling' \in BOOLEAN
    BY <1>0, <1>11 DEF TypeOK, Stop
  <2>5. admitted' \in BOOLEAN /\ due' \in BOOLEAN /\ held' \in BOOLEAN
    BY <1>0, <1>11 DEF TypeOK, Stop
  <2>6. resume' \in BOOLEAN
    BY <1>0, <1>11 DEF TypeOK, Stop
  <2>7. task' \in {"none", "signal", "real"} /\ sig' \in 0 .. MaxSeq
    BY <1>0, <1>11 DEF TypeOK, Stop
  <2>8. arming' \in None .. 1 /\ barrier' \in None .. 1 /\ lossAt' \in -1 .. 1
    BY <1>0, <1>11 DEF TypeOK, Stop
  <2>9. missed' \in BOOLEAN
    BY <1>0, <1>11 DEF TypeOK, Stop
  <2>10. served' \in Nat /\ restarts' \in 0 .. MaxRestarts
    BY <1>0, <1>11 DEF TypeOK, Stop
  <2> QED BY <2>1, <2>2, <2>3, <2>4, <2>5, <2>6, <2>7, <2>8, <2>9, <2>10 DEF TypeOK
<1>12. CASE Start
  <2>1. running' \in BOOLEAN /\ mode' \in Modes /\ debt' \in BOOLEAN
    BY <1>0, <1>12 DEF TypeOK, Start
  <2>2. losses' \in 0 .. EnterAfter /\ wins' \in 0 .. ExitAfter
    BY <1>0, <1>12 DEF TypeOK, Start
  <2>3. row' \in {"none", "open"} \cup Ended /\ entry' \in 0 .. MaxSeq
    BY <1>0, <1>12 DEF TypeOK, Start
  <2>4. open' \in BOOLEAN /\ seq' \in 0 .. MaxSeq /\ handling' \in BOOLEAN
    BY <1>0, <1>12 DEF TypeOK, Start
  <2>5. admitted' \in BOOLEAN /\ due' \in BOOLEAN /\ held' \in BOOLEAN
    BY <1>0, <1>12 DEF TypeOK, Start
  <2>6. resume' \in BOOLEAN
    BY <1>0, <1>12 DEF TypeOK, Start
  <2>7. task' \in {"none", "signal", "real"} /\ sig' \in 0 .. MaxSeq
    BY <1>0, <1>12 DEF TypeOK, Start
  <2>8. arming' \in None .. 1 /\ barrier' \in None .. 1 /\ lossAt' \in -1 .. 1
    BY <1>0, <1>12 DEF TypeOK, Start
  <2>9. missed' \in BOOLEAN
    BY <1>0, <1>12 DEF TypeOK, Start
  <2>10. served' \in Nat /\ restarts' \in 0 .. MaxRestarts
    BY <1>0, <1>12 DEF TypeOK, Start
  <2> QED BY <2>1, <2>2, <2>3, <2>4, <2>5, <2>6, <2>7, <2>8, <2>9, <2>10 DEF TypeOK
<1>13. CASE Restart
  <2>1. running' \in BOOLEAN /\ mode' \in Modes /\ debt' \in BOOLEAN
    BY <1>0, <1>13 DEF TypeOK, Restart
  <2>2. losses' \in 0 .. EnterAfter /\ wins' \in 0 .. ExitAfter
    BY <1>0, <1>13 DEF TypeOK, Restart
  <2>3. row' \in {"none", "open"} \cup Ended /\ entry' \in 0 .. MaxSeq
    BY <1>0, <1>13 DEF TypeOK, Restart
  <2>4. open' \in BOOLEAN /\ seq' \in 0 .. MaxSeq /\ handling' \in BOOLEAN
    <3>1. seq' \in 0 .. MaxSeq
      BY <1>13 DEF Restart
    <3>2. open' \in BOOLEAN /\ handling' \in BOOLEAN
      BY <1>0, <1>13 DEF TypeOK, Restart
    <3> QED BY <3>1, <3>2
  <2>5. admitted' \in BOOLEAN /\ due' \in BOOLEAN /\ held' \in BOOLEAN
    BY <1>0, <1>13 DEF TypeOK, Restart
  <2>6. resume' \in BOOLEAN
    BY <1>0, <1>13 DEF TypeOK, Restart
  <2>7. task' \in {"none", "signal", "real"} /\ sig' \in 0 .. MaxSeq
    BY <1>0, <1>13 DEF TypeOK, Restart
  <2>8. arming' \in None .. 1 /\ barrier' \in None .. 1 /\ lossAt' \in -1 .. 1
    BY <1>0, <1>13 DEF TypeOK, Restart
  <2>9. missed' \in BOOLEAN
    BY <1>0, <1>13 DEF TypeOK, Restart
  <2>10. served' \in Nat /\ restarts' \in 0 .. MaxRestarts
    BY <1>0, <1>13 DEF TypeOK, Restart
  <2> QED BY <2>1, <2>2, <2>3, <2>4, <2>5, <2>6, <2>7, <2>8, <2>9, <2>10 DEF TypeOK
<1>14. CASE UNCHANGED vars
  BY <1>0, <1>14 DEF TypeOK, vars
<1> QED BY <1>1, <1>2, <1>3, <1>4, <1>5, <1>6, <1>7, <1>8, <1>9, <1>10, <1>11, <1>12, <1>13, <1>14 DEF Next

(* Every step keeps the lock and the row together.                         *)
LEMMA LockKept == HookInvariant /\ [Next]_vars => LockCoversRow'
<1> SUFFICES ASSUME HookInvariant, [Next]_vars PROVE LockCoversRow'
  OBVIOUS
<1> USE HookAssumption DEF HookInvariant, LockCoversRow, TypeOK,
                            risk, sample, ticks, lock, work, epochs
<1>1. CASE HandleTick
  BY <1>1 DEF HandleTick, SettleVirtualMirror, Unlock, VoidForRetry, SettleOne,
     Snapshot, Exit, Min2, Older
<1>2. CASE FinishTick
  BY <1>2 DEF FinishTick, MaySchedule, Barred
<1>3. CASE MissTick
  BY <1>3 DEF MissTick, Exit, Older
<1>4. CASE StartVirtualTrade
  BY <1>4 DEF StartVirtualTrade
<1>5. CASE ExecuteReal
  BY <1>5 DEF ExecuteReal
<1>6. CASE BuyReal
  BY <1>6 DEF BuyReal
<1>7. CASE TaskFails
  BY <1>7 DEF TaskFails
<1>8. CASE SettleReal
  BY <1>8 DEF SettleReal, BookLoss, BookWin, Min2
<1>9. CASE ArmBarrier
  BY <1>9 DEF ArmBarrier
<1>10. ASSUME NEW valid \in BOOLEAN, Refresh(valid) PROVE LockCoversRow'
  BY <1>10 DEF Refresh, RestoreOpenVirtuals
<1>11. CASE Stop
  BY <1>11 DEF Stop
<1>12. CASE Start
  BY <1>12 DEF Start
<1>13. CASE Restart
  BY <1>13 DEF Restart
<1>14. CASE UNCHANGED vars
  BY <1>14 DEF vars
<1> QED BY <1>1, <1>2, <1>3, <1>4, <1>5, <1>6, <1>7, <1>8, <1>9, <1>10, <1>11, <1>12, <1>13, <1>14 DEF Next

(* Every step keeps observations and real trades apart.                    *)
LEMMA ActivityKept == HookInvariant /\ [Next]_vars => OneActivity'
<1> SUFFICES ASSUME HookInvariant, [Next]_vars PROVE OneActivity'
  OBVIOUS
<1> USE HookAssumption DEF HookInvariant, OneActivity, LockCoversRow, TypeOK,
                            risk, sample, ticks, lock, work, epochs
<1>1. CASE HandleTick
  BY <1>1 DEF HandleTick, SettleVirtualMirror, Unlock, VoidForRetry, SettleOne,
     Snapshot, Exit, Min2, Older
<1>2. CASE FinishTick
  BY <1>2 DEF FinishTick, MaySchedule, Barred
<1>3. CASE MissTick
  BY <1>3 DEF MissTick, Exit, Older
<1>4. CASE StartVirtualTrade
  BY <1>4 DEF StartVirtualTrade
<1>5. CASE ExecuteReal
  BY <1>5 DEF ExecuteReal
<1>6. CASE BuyReal
  BY <1>6 DEF BuyReal
<1>7. CASE TaskFails
  BY <1>7 DEF TaskFails
<1>8. CASE SettleReal
  BY <1>8 DEF SettleReal, BookLoss, BookWin, Min2
<1>9. CASE ArmBarrier
  BY <1>9 DEF ArmBarrier
<1>10. ASSUME NEW valid \in BOOLEAN, Refresh(valid) PROVE OneActivity'
  BY <1>10 DEF Refresh, RestoreOpenVirtuals
<1>11. CASE Stop
  BY <1>11 DEF Stop
<1>12. CASE Start
  BY <1>12 DEF Start
<1>13. CASE Restart
  BY <1>13 DEF Restart
<1>14. CASE UNCHANGED vars
  BY <1>14 DEF vars
<1> QED BY <1>1, <1>2, <1>3, <1>4, <1>5, <1>6, <1>7, <1>8, <1>9, <1>10, <1>11, <1>12, <1>13, <1>14 DEF Next

(* Every step keeps the count of wins true.                                *)
LEMMA WinsKept == HookInvariant /\ [Next]_vars => WinsServed'
<1> SUFFICES ASSUME HookInvariant, [Next]_vars PROVE WinsServed'
  OBVIOUS
<1> USE HookAssumption DEF HookInvariant, WinsServed, OneActivity, TypeOK,
                            risk, sample, ticks, lock, work, epochs
<1>1. CASE HandleTick
  BY <1>1 DEF HandleTick, SettleVirtualMirror, Unlock, VoidForRetry, SettleOne,
     Snapshot, Exit, Min2, Older
<1>2. CASE FinishTick
  BY <1>2 DEF FinishTick, MaySchedule, Barred
<1>3. CASE MissTick
  BY <1>3 DEF MissTick, Exit, Older
<1>4. CASE StartVirtualTrade
  BY <1>4 DEF StartVirtualTrade
<1>5. CASE ExecuteReal
  BY <1>5 DEF ExecuteReal
<1>6. CASE BuyReal
  BY <1>6 DEF BuyReal
<1>7. CASE TaskFails
  BY <1>7 DEF TaskFails
<1>8. CASE SettleReal
  BY <1>8 DEF SettleReal, BookLoss, BookWin, Min2
<1>9. CASE ArmBarrier
  BY <1>9 DEF ArmBarrier
<1>10. ASSUME NEW valid \in BOOLEAN, Refresh(valid) PROVE WinsServed'
  BY <1>10 DEF Refresh, RestoreOpenVirtuals
<1>11. CASE Stop
  BY <1>11 DEF Stop
<1>12. CASE Start
  BY <1>12 DEF Start
<1>13. CASE Restart
  BY <1>13 DEF Restart
<1>14. CASE UNCHANGED vars
  BY <1>14 DEF vars
<1> QED BY <1>1, <1>2, <1>3, <1>4, <1>5, <1>6, <1>7, <1>8, <1>9, <1>10, <1>11, <1>12, <1>13, <1>14 DEF Next

(* Every step keeps the loss remembered: its epoch, the one still to be    *)
(* armed and the one of the barrier age together.                          *)
LEMMA LossKept == HookInvariant /\ [Next]_vars => LossRemembered'
<1> SUFFICES ASSUME HookInvariant, [Next]_vars PROVE LossRemembered'
  OBVIOUS
<1> USE HookAssumption DEF HookInvariant, LossRemembered, OneActivity, TypeOK, None,
                            risk, sample, ticks, lock, work, epochs
<1>1. CASE HandleTick
  BY <1>1 DEF HandleTick, SettleVirtualMirror, Unlock, VoidForRetry, SettleOne,
     Snapshot, Exit, Min2, Older
<1>2. CASE FinishTick
  BY <1>2 DEF FinishTick, MaySchedule, Barred
<1>3. CASE MissTick
  BY <1>3 DEF MissTick, Exit, Older
<1>4. CASE StartVirtualTrade
  BY <1>4 DEF StartVirtualTrade
<1>5. CASE ExecuteReal
  BY <1>5 DEF ExecuteReal
<1>6. CASE BuyReal
  BY <1>6 DEF BuyReal
<1>7. CASE TaskFails
  BY <1>7 DEF TaskFails
<1>8. CASE SettleReal
  BY <1>8 DEF SettleReal, BookLoss, BookWin, Min2
<1>9. CASE ArmBarrier
  BY <1>9 DEF ArmBarrier
<1>10. ASSUME NEW valid \in BOOLEAN, Refresh(valid) PROVE LossRemembered'
  BY <1>10 DEF Refresh, RestoreOpenVirtuals
<1>11. CASE Stop
  BY <1>11 DEF Stop
<1>12. CASE Start
  BY <1>12 DEF Start
<1>13. CASE Restart
  BY <1>13 DEF Restart
<1>14. CASE UNCHANGED vars
  BY <1>14 DEF vars
<1> QED BY <1>1, <1>2, <1>3, <1>4, <1>5, <1>6, <1>7, <1>8, <1>9, <1>10, <1>11, <1>12, <1>13, <1>14 DEF Next

(* The inductive invariant holds in every behaviour.                       *)
THEOREM HookInvariantTheorem == Spec => []HookInvariant
<1>1. Init => HookInvariant
  <2> SUFFICES ASSUME Init PROVE HookInvariant
    OBVIOUS
  <2>1. /\ losses \in 0 .. EnterAfter /\ wins \in 0 .. ExitAfter /\ entry \in 0 .. MaxSeq
        /\ seq \in 0 .. MaxSeq /\ sig \in 0 .. MaxSeq /\ restarts \in 0 .. MaxRestarts
        /\ served \in Nat
    BY HookAssumption DEF Init
  <2>2. arming \in None .. 1 /\ barrier \in None .. 1 /\ lossAt \in -1 .. 1
    BY DEF Init, None
  <2>3. TypeOK
    BY <2>1, <2>2 DEF Init, TypeOK, Modes, Ended
  <2>4. LockCoversRow /\ OneActivity /\ WinsServed /\ LossRemembered
    BY DEF Init, LockCoversRow, OneActivity, WinsServed, LossRemembered
  <2> QED BY <2>3, <2>4 DEF HookInvariant
<1>2. HookInvariant /\ [Next]_vars => HookInvariant'
  BY HookType, LockKept, ActivityKept, WinsKept, LossKept DEF HookInvariant
<1> QED BY <1>1, <1>2, PTL DEF Spec

(* Every variable keeps its type: among others the tick counter stays      *)
(* within its bound and the wins never pass the required number.           *)
THEOREM HookTypes == Spec => []TypeOK
<1>1. HookInvariant => TypeOK
  BY DEF HookInvariant
<1> QED BY <1>1, HookInvariantTheorem, PTL

(* While an observation is open no real purchase is under way and no real  *)
(* contract is open.                                                       *)
THEOREM NoMoneyUnderObservation == Spec => []NoRealUnderObservation
<1>1. HookInvariant => NoRealUnderObservation
  BY DEF HookInvariant, OneActivity, NoRealUnderObservation
<1> QED BY <1>1, HookInvariantTheorem, PTL

(* A step that leaves virtual mode is a Start or the last required win.    *)
LEMMA StepServesHook ==
  HookInvariant /\ [Next]_vars =>
    (mode = "VIRTUAL" /\ mode' # "VIRTUAL" => Start \/ served' >= ExitAfter)
<1> SUFFICES ASSUME HookInvariant, [Next]_vars, mode = "VIRTUAL", mode' # "VIRTUAL"
             PROVE  Start \/ served' >= ExitAfter
  OBVIOUS
<1>1. CASE HandleTick
  BY <1>1, HookAssumption DEF HookInvariant, TypeOK, OneActivity, WinsServed, HandleTick, SettleVirtualMirror, VoidForRetry, SettleOne, risk
<1>2. CASE FinishTick
  BY <1>2 DEF FinishTick, risk
<1>3. CASE MissTick
  BY <1>3 DEF MissTick, risk
<1>4. CASE StartVirtualTrade
  BY <1>4 DEF StartVirtualTrade, risk
<1>5. CASE ExecuteReal
  BY <1>5 DEF ExecuteReal, risk
<1>6. CASE BuyReal
  BY <1>6 DEF HookInvariant, OneActivity, BuyReal, risk
<1>7. CASE TaskFails
  BY <1>7 DEF TaskFails, risk
<1>8. CASE SettleReal
  BY <1>8 DEF HookInvariant, OneActivity, SettleReal, risk
<1>9. CASE ArmBarrier
  BY <1>9 DEF ArmBarrier, risk
<1>10. ASSUME NEW valid \in BOOLEAN, Refresh(valid) PROVE FALSE
  BY <1>10 DEF Refresh, risk
<1>11. CASE Stop
  BY <1>11 DEF Stop, risk
<1>12. CASE Start
  BY <1>12
<1>13. CASE Restart
  BY <1>13 DEF Restart, risk
<1>14. CASE UNCHANGED vars
  BY <1>14 DEF vars
<1> QED BY <1>1, <1>2, <1>3, <1>4, <1>5, <1>6, <1>7, <1>8, <1>9, <1>10, <1>11, <1>12, <1>13, <1>14 DEF Next

(* Virtual mode ends only by a Start or after the required wins in a row.  *)
THEOREM HookServes == Spec => HookIsServed
<1> QED BY StepServesHook, HookInvariantTheorem, PTL DEF Spec, HookIsServed

(* Signals are taken by FinishTick only, under the barrier.                *)
LEMMA StepBarred ==
  HookInvariant /\ [Next]_vars =>
    (task = "none" /\ task' = "signal" /\ mode = "VIRTUAL" /\ lossAt >= 0
       => arming = lossAt)
<1> SUFFICES ASSUME HookInvariant, [Next]_vars, task = "none", task' = "signal",
                    mode = "VIRTUAL", lossAt >= 0
             PROVE  arming = lossAt
  OBVIOUS
<1>1. CASE FinishTick
  <2>1. ~Barred
    BY <1>1 DEF FinishTick, MaySchedule, work
  <2> QED
    BY <2>1 DEF HookInvariant, LossRemembered, Barred
<1>2. CASE HandleTick \/ MissTick \/ StartVirtualTrade \/ ExecuteReal \/ BuyReal
           \/ TaskFails \/ SettleReal \/ ArmBarrier \/ Stop \/ Start \/ Restart
  BY <1>2 DEF HandleTick, MissTick, StartVirtualTrade, ExecuteReal, BuyReal, TaskFails,
     SettleReal, ArmBarrier, Stop, Start, Restart, work
<1>3. ASSUME NEW valid \in BOOLEAN, Refresh(valid) PROVE FALSE
  BY <1>3 DEF Refresh
<1>4. CASE UNCHANGED vars
  BY <1>4 DEF vars
<1> QED BY <1>1, <1>2, <1>3, <1>4 DEF Next

(* Once the barrier of the loss that entered virtual mode is armed, no     *)
(* signal is taken before a later tick.                                    *)
THEOREM BarrierHolds == Spec => BarredOnceArmed
<1> QED BY StepBarred, HookInvariantTheorem, PTL DEF Spec, BarredOnceArmed
=============================================================================
