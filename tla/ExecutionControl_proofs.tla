---------------------- MODULE ExecutionControl_proofs ----------------------
(***************************************************************************)
(* Proofs, for every set of requests, of the safety properties that the    *)
(* runs of MCExecutionControl check on three. The lemmas take one group of *)
(* actions each, one step per action.                                      *)
(***************************************************************************)
EXTENDS ExecutionControl, TLAPS

-----------------------------------------------------------------------------
(* A request or the worker moving to a legal place keeps its type.         *)
LEMMA GotoType ==
  ASSUME req \in [Requests -> RequestState], NEW r \in Requests,
         NEW pc \in RequestPcs, Goto(r, pc)
  PROVE  req' \in [Requests -> RequestState]
  BY DEF Goto, Request, RequestState, Wanted

LEMMA ToType ==
  ASSUME worker \in WorkerState, NEW pc \in WorkerPcs, To(pc)
  PROVE  worker' \in WorkerState /\ worker'.pc = pc
  BY DEF To, Idle, WorkerState, WorkerPcs

(* The types of the initial state.                                         *)
LEMMA TypeInit == Init => TypeOK
<1> SUFFICES ASSUME Init PROVE TypeOK
  OBVIOUS
<1>1. worker \in WorkerState /\ worker.pc \notin LockedPcs
  BY DEF Init, Idle, WorkerState, WorkerPcs, LockedPcs
<1>2. req \in [Requests -> RequestState]
  BY DEF Init, Request, RequestState, RequestPcs, Wanted
<1> QED
  BY <1>1, <1>2 DEF Init, TypeOK, Statuses, Reasons, Intents, Writers

-----------------------------------------------------------------------------
(* Every HTTP handler keeps the types.                                     *)
LEMMA TypeHandler ==
  ASSUME TypeOK, NEW r \in Requests, Handler(r)
  PROVE  TypeOK'
<1>1. CASE DirectStop(r)
  <2>1. req' \in [Requests -> RequestState]
    BY <1>1, GotoType DEF TypeOK, DirectStop, RequestPcs
  <2> QED
    BY <1>1, <2>1 DEF TypeOK, DirectStop, row, set_direct_hard_stop, Intents
<1>2. CASE NormalizeStoppedAccount(r)
  <2>1. req' \in [Requests -> RequestState]
    BY <1>2, GotoType DEF TypeOK, NormalizeStoppedAccount, RequestPcs
  <2>2. intent' \in Intents
    BY <1>2 DEF TypeOK, NormalizeStoppedAccount, StopLands, Intents
  <2>3. enabled' \in BOOLEAN /\ status' \in Statuses /\ reason' \in Reasons
    BY <1>2 DEF TypeOK, NormalizeStoppedAccount, row, Statuses, Reasons
  <2> QED
    BY <1>2, <2>1, <2>2, <2>3 DEF TypeOK, NormalizeStoppedAccount
<1>3. CASE StopMiddleware(r)
  <2>1. PICK wanted \in {StopRow, PauseRow} :
          req' = [req EXCEPT ![r].pc = "handler", ![r].want = wanted]
    BY <1>3 DEF StopMiddleware
  <2>2. wanted \in Wanted /\ "handler" \in RequestPcs
    BY DEF Wanted, RequestPcs
  <2>3. req' \in [Requests -> RequestState]
    BY <2>1, <2>2 DEF TypeOK, RequestState
  <2> QED
    BY <1>3, <2>3 DEF TypeOK, StopMiddleware, row, set_direct_hard_stop,
       history, Intents
<1>4. CASE StopSentinel(r)
  <2>1. req' \in [Requests -> RequestState]
    BY <1>4, GotoType DEF TypeOK, StopSentinel, RequestPcs, RequestState
  <2> QED
    BY <1>4, <2>1 DEF TypeOK, StopSentinel, row, set_direct_hard_stop,
       history, Intents
<1>5. CASE ReadRow(r)
  <2>1. req' \in [Requests -> RequestState]
    <3>1. Dirty(req[r].want) \in SUBSET Columns /\ "write" \in RequestPcs
      BY DEF Dirty, RequestPcs
    <3> QED
      BY <1>5, <3>1 DEF TypeOK, ReadRow, RequestState
  <2> QED
    BY <1>5, <2>1 DEF TypeOK, ReadRow, row, history
<1>6. CASE WriteRow(r)
  <2>1. req' \in [Requests -> RequestState]
    BY <1>6, GotoType DEF TypeOK, WriteRow, RequestPcs
  <2> DEFINE want == req[r].want
  <2>2. want \in Wanted
    BY DEF TypeOK, RequestState
  <2>3. /\ want.enabled = FALSE
        /\ want.status \in Statuses /\ want.reason \in Reasons
    BY <2>2 DEF Wanted, StopRow, PauseRow, LifecycleRow, RejectedRow,
       Statuses, Reasons
  <2>4. /\ enabled' \in {want.enabled, enabled}
        /\ status' \in {want.status, status} /\ reason' \in {want.reason, reason}
    BY <1>6 DEF WriteRow, CurrentRow
  <2>5. intent' \in Intents
    BY <1>6 DEF TypeOK, WriteRow, StopLands, Intents
  <2> QED
    BY <1>6, <2>1, <2>3, <2>4, <2>5 DEF TypeOK, WriteRow
<1>7. CASE arm_browser_direct(r)
  <2>1. req' \in [Requests -> RequestState]
    BY <1>7, GotoType DEF TypeOK, arm_browser_direct, RequestPcs
  <2> QED
    BY <1>7, <2>1 DEF TypeOK, arm_browser_direct, row, UserStart, Writers,
       Statuses, TargetStops, Reasons, Intents
<1>8. CASE start_with_session_limits(r)
  <2>1. req' \in [Requests -> RequestState]
    BY <1>8, GotoType DEF TypeOK, start_with_session_limits, RequestPcs
  <2> QED
    BY <1>8, <2>1 DEF TypeOK, start_with_session_limits, row, UserStart,
       Writers, Statuses, TargetStops, Reasons, Intents
<1>9. CASE ClearStopSentinel(r)
  <2>1. req' \in [Requests -> RequestState]
    BY <1>9, GotoType DEF TypeOK, ClearStopSentinel, RequestPcs
  <2> QED
    BY <1>9, <2>1 DEF TypeOK, ClearStopSentinel, row, history
<1>10. CASE exact_session_lifecycle(r)
  <2>1. req' \in [Requests -> RequestState]
    <3>1. Dirty(LifecycleRow) \in SUBSET Columns /\ "write" \in RequestPcs
      BY DEF Dirty, RequestPcs
    <3> QED
      BY <1>10, <3>1 DEF TypeOK, exact_session_lifecycle, RequestState
  <2> QED
    BY <1>10, <2>1 DEF TypeOK, exact_session_lifecycle, row, history
<1>11. CASE RejectCurrentAccount(r)
  <2>1. req' \in [Requests -> RequestState]
    BY <1>11 DEF TypeOK, RejectCurrentAccount, RequestState, RequestPcs,
       Wanted
  <2> QED
    BY <1>11, <2>1 DEF TypeOK, RejectCurrentAccount, row, history
<1>12. CASE ListManagedAccounts(r)
  <2>1. req' \in [Requests -> RequestState]
    BY <1>12 DEF TypeOK, ListManagedAccounts, RequestState, RequestPcs
  <2> QED
    BY <1>12, <2>1 DEF TypeOK, ListManagedAccounts, row, history
<1>13. CASE SyncCredential(r)
  <2>1. req' \in [Requests -> RequestState]
    BY <1>13 DEF TypeOK, SyncCredential, RequestState, RequestPcs
  <2>2. enabled' \in BOOLEAN
    BY <1>13 DEF TypeOK, SyncCredential, RequestState
  <2>3. intent' \in Intents /\ restartedBy' \in Writers
    BY <1>13 DEF TypeOK, SyncCredential, Restarts, history, Writers
  <2> QED
    BY <1>13, <2>1, <2>2, <2>3 DEF TypeOK, SyncCredential
<1>14. CASE SyncThroughModeLock(r)
  <2>1. req' \in [Requests -> RequestState]
    BY <1>14, GotoType DEF TypeOK, SyncThroughModeLock, RequestState, RequestPcs
  <2>2. enabled' \in BOOLEAN /\ reason' \in Reasons /\ status' = status
    BY <1>14 DEF TypeOK, SyncThroughModeLock, ModeLock, Reasons
  <2> QED
    BY <1>14, <2>1, <2>2 DEF TypeOK, SyncThroughModeLock, history
<1>15. CASE SyncStatus(r)
  <2>1. req' \in [Requests -> RequestState]
    BY <1>15, GotoType DEF TypeOK, SyncStatus, RequestPcs
  <2> QED
    BY <1>15, <2>1 DEF TypeOK, SyncStatus, history, Statuses, Reasons
<1> QED
  BY <1>1, <1>2, <1>3, <1>4, <1>5, <1>6, <1>7, <1>8, <1>9, <1>10, <1>11,
     <1>12, <1>13, <1>14, <1>15 DEF Handler

(* Every layer of the worker's status writer keeps the types.              *)
LEMMA TypeStatusWriter ==
  ASSUME TypeOK, StatusWriter
  PROVE  TypeOK'
<1>1. CASE Observe
  BY <1>1 DEF TypeOK, Observe, ApiRow, row, history
<1>2. CASE RequestStatus
  <2>1. worker' \in WorkerState /\ (rowLock' <=> worker'.pc \in LockedPcs)
    BY <1>2 DEF TypeOK, RequestStatus, WorkerPcs, LockedPcs, WorkerState, At,
       To, Idle
  <2> QED
    BY <1>2, <2>1 DEF TypeOK, RequestStatus, row, Api, history
<1>3. CASE LeaseAwareSetStatus
  <2>1. worker' \in WorkerState /\ (rowLock' <=> worker'.pc \in LockedPcs)
    BY <1>3 DEF TypeOK, LeaseAwareSetStatus, WorkerPcs, LockedPcs,
       WorkerState, At, To, Idle
  <2> QED
    BY <1>3, <2>1 DEF TypeOK, LeaseAwareSetStatus, row, Api, history
<1>4. CASE PreserveBrowserOwner
  <2>1. worker' \in WorkerState /\ (rowLock' <=> worker'.pc \in LockedPcs)
    BY <1>4, ToType DEF TypeOK, PreserveBrowserOwner, WorkerPcs, LockedPcs,
       LockOrSkip, At, WorkerState
  <2> QED
    BY <1>4, <2>1 DEF TypeOK, PreserveBrowserOwner, row, Api, LockOrSkip,
       history, LockOrSkip
<1>5. CASE PreserveBrowserOwnerCommit
  <2>1. worker' \in WorkerState /\ (rowLock' <=> worker'.pc \in LockedPcs)
    BY <1>5, ToType DEF TypeOK, PreserveBrowserOwnerCommit, WorkerPcs,
       LockedPcs, At, KeepEnabled
  <2> QED
    BY <1>5, <2>1 DEF TypeOK, PreserveBrowserOwnerCommit, row, Api,
       KeepEnabled, Restarts, Writers, Statuses, TargetStops, Reasons
<1>6. CASE FinalSetStatus
  <2>1. worker' \in WorkerState /\ (rowLock' <=> worker'.pc \in LockedPcs)
    BY <1>6 DEF TypeOK, FinalSetStatus, WorkerPcs, LockedPcs, WorkerState, At,
       To, Idle
  <2> QED
    BY <1>6, <2>1 DEF TypeOK, FinalSetStatus, row, Api, history
<1>7. CASE ForceRetryState
  <2>1. worker' \in WorkerState /\ (rowLock' <=> worker'.pc \in LockedPcs)
    BY <1>7, ToType DEF TypeOK, ForceRetryState, WorkerPcs, LockedPcs,
       LockOrSkip, At, WorkerState
  <2> QED
    BY <1>7, <2>1 DEF TypeOK, ForceRetryState, row, Api, LockOrSkip, history,
       LockOrSkip
<1>8. CASE ForceRetryStateCommit
  <2>1. worker' \in WorkerState /\ (rowLock' <=> worker'.pc \in LockedPcs)
    BY <1>8, ToType DEF TypeOK, ForceRetryStateCommit, WorkerPcs, LockedPcs,
       At, KeepEnabled
  <2> QED
    BY <1>8, <2>1 DEF TypeOK, ForceRetryStateCommit, row, Api, KeepEnabled,
       Restarts, Writers, Statuses, TargetStops, Reasons
<1>9. CASE StatusWithoutAutomaticStop
  <2>1. worker' \in WorkerState /\ (rowLock' <=> worker'.pc \in LockedPcs)
    BY <1>9, ToType DEF TypeOK, StatusWithoutAutomaticStop, WorkerPcs,
       LockedPcs, At, KeepEnabled
  <2> QED
    BY <1>9, <2>1 DEF TypeOK, StatusWithoutAutomaticStop, row, Api,
       KeepEnabled, Restarts, Writers, Statuses, TargetStops, Reasons, history
<1>10. CASE BrowserOwnedStatusGuard
  <2>1. worker' \in WorkerState /\ (rowLock' <=> worker'.pc \in LockedPcs)
    BY <1>10, ToType DEF TypeOK, BrowserOwnedStatusGuard, WorkerPcs,
       LockedPcs, At
  <2> QED
    BY <1>10, <2>1 DEF TypeOK, BrowserOwnedStatusGuard, row, Api, history
<1>11. CASE GuardedSetStatus
  <2>1. worker' \in WorkerState /\ (rowLock' <=> worker'.pc \in LockedPcs)
    BY <1>11, ToType DEF TypeOK, GuardedSetStatus, WorkerPcs, LockedPcs, At
  <2> QED
    BY <1>11, <2>1 DEF TypeOK, GuardedSetStatus, row, Api, history, Statuses,
       TargetStops, Reasons
<1>12. CASE ManualLockingSetStatus
  <2>1. worker' \in WorkerState /\ (rowLock' <=> worker'.pc \in LockedPcs)
    BY <1>12, ToType DEF TypeOK, ManualLockingSetStatus, WorkerPcs, LockedPcs,
       At
  <2> QED
    BY <1>12, <2>1 DEF TypeOK, ManualLockingSetStatus, ModeLock, Api, history,
       Reasons
<1>13. CASE StatusWithAutomaticPause
  <2>1. worker' \in WorkerState /\ (rowLock' <=> worker'.pc \in LockedPcs)
    BY <1>13, ToType DEF TypeOK, StatusWithAutomaticPause, WorkerPcs,
       LockedPcs, At
  <2> QED
    BY <1>13, <2>1 DEF TypeOK, StatusWithAutomaticPause, row, Api, history,
       WorkerState, Statuses, TargetStops, Reasons
<1> QED
  BY <1>1, <1>2, <1>3, <1>4, <1>5, <1>6, <1>7, <1>8, <1>9, <1>10, <1>11,
     <1>12, <1>13 DEF StatusWriter

(* Every step of a quarantine keeps the types.                             *)
LEMMA TypeQuarantine ==
  ASSUME TypeOK, Quarantine
  PROVE  TypeOK'
<1>1. CASE RequestQuarantine
  <2>1. worker' \in WorkerState /\ (rowLock' <=> worker'.pc \in LockedPcs)
    BY <1>1, ToType DEF TypeOK, RequestQuarantine, WorkerPcs, LockedPcs, At
  <2> QED
    BY <1>1, <2>1 DEF TypeOK, RequestQuarantine, row, Api, history
<1>2. CASE FinalQuarantine
  <2>1. worker' \in WorkerState /\ (rowLock' <=> worker'.pc \in LockedPcs)
    BY <1>2 DEF TypeOK, FinalQuarantine, WorkerPcs, LockedPcs, WorkerState,
       At, To, Idle
  <2> QED
    BY <1>2, <2>1 DEF TypeOK, FinalQuarantine, row, Api, history
<1>3. CASE QuarantineAsRetry
  <2>1. worker' \in WorkerState /\ (rowLock' <=> worker'.pc \in LockedPcs)
    BY <1>3, ToType DEF TypeOK, QuarantineAsRetry, WorkerPcs, LockedPcs, At
  <2> QED
    BY <1>3, <2>1 DEF TypeOK, QuarantineAsRetry, row, Api, history
<1>4. CASE QuarantineManagedAccount
  <2>1. worker' \in WorkerState /\ (rowLock' <=> worker'.pc \in LockedPcs)
    BY <1>4, ToType DEF TypeOK, QuarantineManagedAccount, WorkerPcs,
       LockedPcs, At
  <2> QED
    BY <1>4, <2>1 DEF TypeOK, QuarantineManagedAccount, row, Api, history,
       Statuses, TargetStops, Reasons
<1>5. CASE PreserveEnabledRetry
  <2>1. worker' \in WorkerState /\ (rowLock' <=> worker'.pc \in LockedPcs)
    BY <1>5, ToType DEF TypeOK, PreserveEnabledRetry, WorkerPcs, LockedPcs,
       LockOrSkip, At, WorkerState
  <2> QED
    BY <1>5, <2>1 DEF TypeOK, PreserveEnabledRetry, row, Api, LockOrSkip,
       history, LockOrSkip
<1>6. CASE PreserveEnabledRetryCommit
  <2>1. worker' \in WorkerState /\ (rowLock' <=> worker'.pc \in LockedPcs)
    BY <1>6, ToType DEF TypeOK, PreserveEnabledRetryCommit, WorkerPcs,
       LockedPcs, At, KeepEnabled
  <2> QED
    BY <1>6, <2>1 DEF TypeOK, PreserveEnabledRetryCommit, row, Api,
       KeepEnabled, Restarts, Writers, Statuses, TargetStops, Reasons
<1>7. CASE QuarantineAfter
  <2>1. worker' \in WorkerState /\ worker'.pc \in {"preserve", "idle"}
    <3>1. CASE worker.was /\ ~TerminalAllowed
      BY <1>7, <3>1 DEF TypeOK, QuarantineAfter, WorkerState, WorkerPcs
    <3>2. CASE ~(worker.was /\ ~TerminalAllowed)
      BY <1>7, <3>2, ToType DEF TypeOK, QuarantineAfter, WorkerPcs
    <3> QED
      BY <3>1, <3>2
  <2>2. rowLock' <=> worker'.pc \in LockedPcs
    BY <1>7, <2>1 DEF TypeOK, QuarantineAfter, At, LockedPcs
  <2> QED
    BY <1>7, <2>1, <2>2 DEF TypeOK, QuarantineAfter, row, Api, history
<1>8. CASE ForceRetryQuarantined
  <2>1. worker' \in WorkerState /\ (rowLock' <=> worker'.pc \in LockedPcs)
    BY <1>8, ToType DEF TypeOK, ForceRetryQuarantined, WorkerPcs, LockedPcs,
       LockOrSkip, At, WorkerState
  <2> QED
    BY <1>8, <2>1 DEF TypeOK, ForceRetryQuarantined, row, Api, LockOrSkip,
       history, LockOrSkip
<1>9. CASE ForceRetryQuarantinedCommit
  <2>1. worker' \in WorkerState /\ (rowLock' <=> worker'.pc \in LockedPcs)
    BY <1>9, ToType DEF TypeOK, ForceRetryQuarantinedCommit, WorkerPcs,
       LockedPcs, At, KeepEnabled
  <2> QED
    BY <1>9, <2>1 DEF TypeOK, ForceRetryQuarantinedCommit, row, Api,
       KeepEnabled, Restarts, Writers, Statuses, TargetStops, Reasons
<1> QED
  BY <1>1, <1>2, <1>3, <1>4, <1>5, <1>6, <1>7, <1>8, <1>9 DEF Quarantine

(* Every other writer of the worker keeps the types.                       *)
LEMMA TypeOtherWriter ==
  ASSUME TypeOK, OtherWriter
  PROVE  TypeOK'
<1>1. CASE KeepAccountRunning
  <2>1. worker' \in WorkerState /\ (rowLock' <=> worker'.pc \in LockedPcs)
    BY <1>1, ToType DEF TypeOK, KeepAccountRunning, WorkerPcs, LockedPcs, At
  <2> QED
    BY <1>1, <2>1 DEF TypeOK, KeepAccountRunning, row, Api, history
<1>2. CASE KeepAccountRunningCommit
  <2>1. worker' \in WorkerState /\ (rowLock' <=> worker'.pc \in LockedPcs)
    BY <1>2, ToType DEF TypeOK, KeepAccountRunningCommit, WorkerPcs,
       LockedPcs, At
  <2>2. CASE UNCHANGED <<row, Api, history>>
    BY <1>2, <2>1, <2>2 DEF TypeOK, KeepAccountRunningCommit, row, Api, history
  <2>3. CASE KeepEnabled("reconnecting", "unfenced")
    BY <1>2, <2>1, <2>3 DEF TypeOK, KeepAccountRunningCommit, Api,
       KeepEnabled, Restarts, Writers, Statuses, Reasons
  <2> QED
    BY <1>2, <2>2, <2>3 DEF KeepAccountRunningCommit
<1>3. CASE RepairDirectAutomaticStops
  <2>1. worker' \in WorkerState /\ (rowLock' <=> worker'.pc \in LockedPcs)
    BY <1>3 DEF TypeOK, RepairDirectAutomaticStops, WorkerPcs, LockedPcs,
       RepairScan, WorkerState, At
  <2> QED
    BY <1>3, <2>1 DEF TypeOK, RepairDirectAutomaticStops, row, Api,
       RepairScan, history
<1>4. CASE RepairExistingRecoveryAccounts
  <2>1. worker' \in WorkerState /\ (rowLock' <=> worker'.pc \in LockedPcs)
    BY <1>4 DEF TypeOK, RepairExistingRecoveryAccounts, WorkerPcs, LockedPcs,
       RepairScan, WorkerState, At
  <2> QED
    BY <1>4, <2>1 DEF TypeOK, RepairExistingRecoveryAccounts, row, Api,
       RepairScan, history
<1>5. CASE RepairCommit
  <2>1. worker' \in WorkerState /\ (rowLock' <=> worker'.pc \in LockedPcs)
    BY <1>5, ToType DEF TypeOK, RepairCommit, WorkerPcs, LockedPcs, At
  <2> QED
    BY <1>5, <2>1 DEF TypeOK, RepairCommit, row, Api, Restarts, Writers,
       history, Statuses, TargetStops, Reasons
<1>6. CASE EnforceSessionRiskLimit
  <2>1. worker' \in WorkerState /\ (rowLock' <=> worker'.pc \in LockedPcs)
    BY <1>6, ToType DEF TypeOK, EnforceSessionRiskLimit, WorkerPcs, LockedPcs,
       At
  <2> QED
    BY <1>6, <2>1 DEF TypeOK, EnforceSessionRiskLimit, row, Api, history
<1>7. CASE StopForRiskLimit
  <2>1. worker' \in WorkerState /\ (rowLock' <=> worker'.pc \in LockedPcs)
    BY <1>7, ToType DEF TypeOK, StopForRiskLimit, WorkerPcs, LockedPcs, At
  <2> QED
    BY <1>7, <2>1 DEF TypeOK, StopForRiskLimit, row, Api, Intents, Statuses,
       TargetStops, Reasons
<1>8. CASE RefreshEnabledOauthRows
  <2>1. worker' \in WorkerState /\ (rowLock' <=> worker'.pc \in LockedPcs)
    BY <1>8, ToType DEF TypeOK, RefreshEnabledOauthRows, WorkerPcs, LockedPcs,
       At
  <2> QED
    BY <1>8, <2>1 DEF TypeOK, RefreshEnabledOauthRows, row, Api, history
<1>9. CASE OauthRefreshed
  <2>1. worker' \in WorkerState /\ (rowLock' <=> worker'.pc \in LockedPcs)
    BY <1>9, ToType DEF TypeOK, OauthRefreshed, WorkerPcs, LockedPcs, At
  <2> QED
    BY <1>9, <2>1 DEF TypeOK, OauthRefreshed, Api, Restarts, Writers, history
<1>10. CASE OauthRefreshFails
  <2>1. worker' \in WorkerState /\ (rowLock' <=> worker'.pc \in LockedPcs)
    BY <1>10 DEF TypeOK, OauthRefreshFails, WorkerPcs, LockedPcs, WorkerState,
       At
  <2> QED
    BY <1>10, <2>1 DEF TypeOK, OauthRefreshFails, row, Api, history
<1> QED
  BY <1>1, <1>2, <1>3, <1>4, <1>5, <1>6, <1>7, <1>8, <1>9, <1>10 DEF OtherWriter

(* Types are kept by every step.                                           *)
LEMMA TypeStep == TypeOK /\ [Next]_vars => TypeOK'
<1> SUFFICES ASSUME TypeOK, [Next]_vars PROVE TypeOK'
  OBVIOUS
<1>1. CASE UNCHANGED vars
  BY <1>1 DEF vars, TypeOK
<1>2. CASE WorkerRestarts
  <2>1. worker' \in WorkerState /\ worker'.pc \notin LockedPcs
    BY <1>2 DEF WorkerRestarts, Idle, WorkerState, WorkerPcs, LockedPcs
  <2> QED
    BY <1>2, <2>1 DEF WorkerRestarts, TypeOK, ApiRow, row, history
<1> QED
  BY <1>1, <1>2, TypeHandler, TypeStatusWriter, TypeQuarantine,
     TypeOtherWriter DEF Next

(* Every variable keeps its type, and the row lock is held exactly between *)
(* the check and the commit of the worker's locked transactions.           *)
THEOREM TypeCorrect == Spec => []TypeOK
<1>1. Init => TypeOK
  BY TypeInit
<1>2. TypeOK /\ [Next]_vars => TypeOK'
  BY TypeStep
<1> QED
  BY <1>1, <1>2, PTL DEF Spec

-----------------------------------------------------------------------------
(* Every HTTP handler preserves the invariant.                             *)
LEMMA ControlHandler ==
  ASSUME ControlInvariant, TypeOK', NEW r \in Requests, Handler(r)
  PROVE  ControlInvariant'
<1> USE DEF ControlInvariant, TypeOK, StopFenceDurable, OwnerKnown,
      OnlyUnfencedWritersRestart, StartInFlight, BrowserOwned, fence, landed,
      At, TargetStops, row, history
<1>1. CASE DirectStop(r)
  BY <1>1 DEF DirectStop, set_direct_hard_stop, Goto, Request
<1>2. CASE NormalizeStoppedAccount(r)
  <2>1. CASE UNCHANGED <<row, owner, intent>>
    BY <1>2, <2>1 DEF NormalizeStoppedAccount, Goto, Request
  <2>2. CASE ~rowLock /\ ~enabled' /\ status' = "stopped" /\ StopLands(TRUE)
    BY <1>2, <2>2 DEF NormalizeStoppedAccount, StopLands, Goto, Request, LockedPcs
  <2> QED
    BY <1>2, <2>1, <2>2 DEF NormalizeStoppedAccount
<1>3. CASE StopMiddleware(r)
  BY <1>3 DEF StopMiddleware, set_direct_hard_stop
<1>4. CASE StopSentinel(r)
  <2>1. CASE set_direct_hard_stop /\ req' = [req EXCEPT ![r].pc = "read"]
    BY <1>4, <2>1 DEF StopSentinel, set_direct_hard_stop
  <2>2. CASE UNCHANGED <<sentinel, history>> /\ Goto(r, "done")
    BY <1>4, <2>2 DEF StopSentinel, Goto, Request
  <2> QED
    BY <1>4, <2>1, <2>2 DEF StopSentinel
<1>5. CASE ReadRow(r)
  BY <1>5 DEF ReadRow
<1>6. CASE WriteRow(r)
  <2> DEFINE want == req[r].want
  <2>1. ~want.enabled /\ want.status \notin TargetStops \cup {"direct_browser"}
    BY DEF RequestState, Wanted, StopRow, PauseRow, LifecycleRow, RejectedRow
  <2>2. /\ enabled' \in {want.enabled, enabled}
        /\ status' \in {want.status, status}
        /\ intent' \in {intent, IF fence /\ ~enabled' THEN "landed" ELSE intent}
    BY <1>6 DEF WriteRow, CurrentRow, StopLands
  <2>3. ~rowLock /\ Goto(r, "done")
        /\ UNCHANGED <<sentinel, owner, rowLock, worker, restartedBy>>
    BY <1>6 DEF WriteRow
  <2>4. ~StartInFlight => ~StartInFlight'
    BY <2>3 DEF Goto, Request
  <2>5. enabled' => enabled
    BY <2>1, <2>2
  <2>6. fence' => fence
    BY <2>2
  <2>7. (landed' => landed \/ ~enabled') /\ (landed' => fence)
    BY <2>2
  <2> HIDE DEF want
  <2> QED
    BY <2>1, <2>2, <2>3, <2>4, <2>5, <2>6, <2>7 DEF LockedPcs
<1>7. CASE arm_browser_direct(r)
  BY <1>7, OwnerAssumption DEF arm_browser_direct, UserStart, Goto, Request
<1>8. CASE start_with_session_limits(r)
  BY <1>8 DEF start_with_session_limits, UserStart, Goto, Request
<1>9. CASE ClearStopSentinel(r)
  BY <1>9 DEF ClearStopSentinel, Goto, Request
<1>10. CASE exact_session_lifecycle(r)
  BY <1>10 DEF exact_session_lifecycle
<1>11. CASE RejectCurrentAccount(r)
  BY <1>11 DEF RejectCurrentAccount
<1>12. CASE ListManagedAccounts(r)
  BY <1>12 DEF ListManagedAccounts
<1>13. CASE SyncCredential(r)
  <2>1. ~StartInFlight => ~StartInFlight'
    BY <1>13 DEF SyncCredential
  <2>2. /\ ~rowLock /\ UNCHANGED <<status, sentinel, owner, rowLock, worker, intent>>
        /\ landed /\ enabled' => enabled \/ restartedBy' = "unfenced"
        /\ restartedBy' \in {restartedBy, "unfenced"}
    BY <1>13 DEF SyncCredential, Restarts, RequestState
  <2> QED
    BY <2>1, <2>2 DEF LockedPcs
<1>14. CASE SyncThroughModeLock(r)
  <2>1. ~StartInFlight => ~StartInFlight'
    <3>1. req' = [req EXCEPT ![r].pc = "syncStatus"] \/ Goto(r, "done")
      BY <1>14 DEF SyncThroughModeLock
    <3>2. CASE req' = [req EXCEPT ![r].pc = "syncStatus"]
      BY <3>2
    <3>3. CASE Goto(r, "done")
      BY <3>3 DEF Goto, Request
    <3> QED
      BY <3>1, <3>2, <3>3
  <2>2. /\ enabled' => enabled
        /\ UNCHANGED <<status, sentinel, owner, rowLock, worker, intent, restartedBy>>
    BY <1>14 DEF SyncThroughModeLock, ModeLock
  <2> QED
    BY <2>1, <2>2
<1>15. CASE SyncStatus(r)
  BY <1>15 DEF SyncStatus, Goto, Request
<1> QED
  BY <1>1, <1>2, <1>3, <1>4, <1>5, <1>6, <1>7, <1>8, <1>9, <1>10, <1>11,
     <1>12, <1>13, <1>14, <1>15 DEF Handler

(* Every layer of the status writer preserves the invariant.               *)
LEMMA ControlStatusWriter ==
  ASSUME ControlInvariant, TypeOK', StatusWriter
  PROVE  ControlInvariant'
<1> USE DEF ControlInvariant, TypeOK, StopFenceDurable, OwnerKnown,
      OnlyUnfencedWritersRestart, StartInFlight, BrowserOwned, fence, landed,
      At, TargetStops, row, history
<1>1. CASE Observe
  BY <1>1 DEF Observe, ApiRow, LockedPcs
<1>2. CASE RequestStatus
  BY <1>2 DEF RequestStatus, Api, To, Idle, WorkerState, LockedPcs
<1>3. CASE LeaseAwareSetStatus
  BY <1>3 DEF LeaseAwareSetStatus, Api, To, Idle, WorkerState, LockedPcs
<1>4. CASE PreserveBrowserOwner
  BY <1>4 DEF PreserveBrowserOwner, Api, LockOrSkip, To, Idle,
     TerminalAllowed, WorkerState, FreshOwnerHeartbeat, LockedPcs
<1>5. CASE PreserveBrowserOwnerCommit
  BY <1>5 DEF PreserveBrowserOwnerCommit, Api, KeepEnabled, Restarts, To,
     Idle, LockedPcs
<1>6. CASE FinalSetStatus
  BY <1>6 DEF FinalSetStatus, Api, To, Idle, WorkerState, LockedPcs
<1>7. CASE ForceRetryState
  BY <1>7 DEF ForceRetryState, Api, LockOrSkip, To, Idle, TerminalAllowed,
     WorkerState, LockedPcs
<1>8. CASE ForceRetryStateCommit
  BY <1>8 DEF ForceRetryStateCommit, Api, KeepEnabled, Restarts, To, Idle,
     LockedPcs
<1>9. CASE StatusWithoutAutomaticStop
  BY <1>9 DEF StatusWithoutAutomaticStop, Api, KeepEnabled, Restarts, To,
     Idle, LockedPcs
<1>10. CASE BrowserOwnedStatusGuard
  BY <1>10 DEF BrowserOwnedStatusGuard, Api, To, Idle, WorkerState, LockedPcs
<1>11. CASE GuardedSetStatus
  BY <1>11 DEF GuardedSetStatus, Api, To, Idle, WorkerState, LockedPcs
<1>12. CASE ManualLockingSetStatus
  BY <1>12 DEF ManualLockingSetStatus, ModeLock, Api, To, Idle, WorkerState, LockedPcs
<1>13. CASE StatusWithAutomaticPause
  BY <1>13 DEF StatusWithAutomaticPause, Api, To, Idle, WorkerState, LockedPcs
<1> QED
  BY <1>1, <1>2, <1>3, <1>4, <1>5, <1>6, <1>7, <1>8, <1>9, <1>10, <1>11,
     <1>12, <1>13 DEF StatusWriter

(* Every step of a quarantine preserves the invariant.                     *)
LEMMA ControlQuarantine ==
  ASSUME ControlInvariant, TypeOK', Quarantine
  PROVE  ControlInvariant'
<1> USE DEF ControlInvariant, TypeOK, StopFenceDurable, OwnerKnown,
      OnlyUnfencedWritersRestart, StartInFlight, BrowserOwned, fence, landed,
      At, TargetStops, row, history
<1>1. CASE RequestQuarantine
  BY <1>1 DEF RequestQuarantine, Api, To, Idle, WorkerState, LockedPcs
<1>2. CASE FinalQuarantine
  BY <1>2 DEF FinalQuarantine, Api, To, Idle, WorkerState, LockedPcs
<1>3. CASE QuarantineAsRetry
  BY <1>3 DEF QuarantineAsRetry, Api, To, Idle, WorkerState, LockedPcs
<1>4. CASE QuarantineManagedAccount
  BY <1>4 DEF QuarantineManagedAccount, Api, To, Idle, WorkerState, LockedPcs
<1>5. CASE PreserveEnabledRetry
  BY <1>5 DEF PreserveEnabledRetry, Api, LockOrSkip, To, Idle,
     TerminalAllowed, WorkerState, LockedPcs
<1>6. CASE PreserveEnabledRetryCommit
  BY <1>6 DEF PreserveEnabledRetryCommit, Api, KeepEnabled, Restarts, To,
     Idle, LockedPcs
<1>7. CASE QuarantineAfter
  <2>1. worker'.pc \in {"preserve", "idle"}
    <3>1. CASE worker.was /\ ~TerminalAllowed
      BY <1>7, <3>1 DEF QuarantineAfter, WorkerState
    <3>2. CASE ~(worker.was /\ ~TerminalAllowed)
      BY <1>7, <3>2 DEF QuarantineAfter, To, Idle
    <3> QED
      BY <3>1, <3>2
  <2> QED
    BY <1>7, <2>1 DEF QuarantineAfter, Api, LockedPcs
<1>8. CASE ForceRetryQuarantined
  BY <1>8 DEF ForceRetryQuarantined, Api, LockOrSkip, To, Idle,
     TerminalAllowed, WorkerState, LockedPcs
<1>9. CASE ForceRetryQuarantinedCommit
  BY <1>9 DEF ForceRetryQuarantinedCommit, Api, KeepEnabled, Restarts, To,
     Idle, LockedPcs
<1> QED
  BY <1>1, <1>2, <1>3, <1>4, <1>5, <1>6, <1>7, <1>8, <1>9 DEF Quarantine

(* Every other writer of the worker preserves the invariant.              *)
LEMMA ControlOtherWriter ==
  ASSUME ControlInvariant, TypeOK', OtherWriter
  PROVE  ControlInvariant'
<1> USE DEF ControlInvariant, TypeOK, StopFenceDurable, OwnerKnown,
      OnlyUnfencedWritersRestart, StartInFlight, BrowserOwned, fence, landed,
      At, TargetStops, row, history
<1>1. CASE KeepAccountRunning
  BY <1>1 DEF KeepAccountRunning, Api, To, Idle, WorkerState, LockedPcs
<1>2. CASE KeepAccountRunningCommit
  BY <1>2 DEF KeepAccountRunningCommit, Api, KeepEnabled, Restarts, To, Idle,
     LockedPcs
<1>3. CASE RepairDirectAutomaticStops
  BY <1>3 DEF RepairDirectAutomaticStops, Api, RepairScan, To, Idle,
     WorkerState, LockedPcs
<1>4. CASE RepairExistingRecoveryAccounts
  BY <1>4 DEF RepairExistingRecoveryAccounts, Api, RepairScan,
     AutomaticTerminal, To, Idle, WorkerState, LockedPcs
<1>5. CASE RepairCommit
  BY <1>5 DEF RepairCommit, Api, Restarts, To, Idle, WorkerState, LockedPcs
<1>6. CASE EnforceSessionRiskLimit
  BY <1>6 DEF EnforceSessionRiskLimit, Api, To, Idle, WorkerState, LockedPcs
<1>7. CASE StopForRiskLimit
  BY <1>7 DEF StopForRiskLimit, Api, To, Idle, WorkerState, LockedPcs
<1>8. CASE RefreshEnabledOauthRows
  BY <1>8 DEF RefreshEnabledOauthRows, AllowsNewExecution, Lifecycle, Api, To,
     Idle, WorkerState, LockedPcs
<1>9. CASE OauthRefreshed
  BY <1>9 DEF OauthRefreshed, Api, Restarts, To, Idle, LockedPcs
<1>10. CASE OauthRefreshFails
  BY <1>10 DEF OauthRefreshFails, Api, WorkerState, LockedPcs
<1> QED
  BY <1>1, <1>2, <1>3, <1>4, <1>5, <1>6, <1>7, <1>8, <1>9, <1>10 DEF OtherWriter

(* The invariant is inductive.                                             *)
LEMMA ControlInit == Init => ControlInvariant
<1> SUFFICES ASSUME Init PROVE ControlInvariant
  OBVIOUS
<1> QED
  BY TypeInit DEF Init, Idle, Request, ControlInvariant, StopFenceDurable,
     OwnerKnown, OnlyUnfencedWritersRestart, BrowserOwned, fence, landed, At

LEMMA ControlStep == ControlInvariant /\ [Next]_vars => ControlInvariant'
<1> SUFFICES ASSUME ControlInvariant, [Next]_vars PROVE ControlInvariant'
  OBVIOUS
<1> USE DEF ControlInvariant
<1>1. TypeOK'
  BY TypeStep
<1>2. CASE UNCHANGED vars
  BY <1>1, <1>2 DEF vars, StopFenceDurable, OwnerKnown, BrowserOwned,
     OnlyUnfencedWritersRestart, StartInFlight, fence, landed, At
<1>3. CASE WorkerRestarts
  BY <1>1, <1>3 DEF WorkerRestarts, ApiRow, Idle, TypeOK, StopFenceDurable,
     OwnerKnown, BrowserOwned, OnlyUnfencedWritersRestart, StartInFlight, fence,
     landed, At, row, history
<1> QED
  BY <1>1, <1>2, <1>3, ControlHandler, ControlStatusWriter,
     ControlQuarantine, ControlOtherWriter DEF Next

(* ControlInvariant holds of every reachable state.                        *)
THEOREM ControlCorrect == Spec => []ControlInvariant
<1>1. Init => ControlInvariant
  BY ControlInit
<1>2. ControlInvariant /\ [Next]_vars => ControlInvariant'
  BY ControlStep
<1> QED
  BY <1>1, <1>2, PTL DEF Spec

(* The sentinel of a Stop in force is never lost: no handler, worker layer *)
(* or repair between that Stop and the next Start removes it.              *)
THEOREM FenceDurable == Spec => []StopFenceDurable
<1>1. ControlInvariant => StopFenceDurable
  BY DEF ControlInvariant
<1> QED
  BY <1>1, ControlCorrect, PTL

(* A browser-owned row always has the epoch of its browser on record.      *)
THEOREM BrowserOwnerKnown == Spec => []OwnerKnown
<1>1. ControlInvariant => OwnerKnown
  BY DEF ControlInvariant
<1> QED
  BY <1>1, ControlCorrect, PTL

(* After a Stop's row write, the writers that check the sentinel under the *)
(* row lock never enable the row again.                                    *)
THEOREM LockedWritersHonourStop == Spec => []OnlyUnfencedWritersRestart
<1>1. ControlInvariant => OnlyUnfencedWritersRestart
  BY DEF ControlInvariant
<1> QED
  BY <1>1, ControlCorrect, PTL


(* No step of an HTTP handler other than a Start enables a disabled row to *)
(* execute; a token synchronisation may enable it and leaves its status.   *)
LEMMA HandlerEnables ==
  ASSUME TypeOK, NEW r \in Requests, Handler(r), ~enabled, enabled'
  PROVE  intent' = "started" \/ status' = status
<1>1. CASE WriteRow(r)
  <2>1. ~req[r].want.enabled
    BY DEF TypeOK, RequestState, Wanted, StopRow, PauseRow, LifecycleRow,
       RejectedRow
  <2> QED
    BY <1>1, <2>1 DEF WriteRow, CurrentRow
<1>2. CASE arm_browser_direct(r) \/ start_with_session_limits(r)
  BY <1>2 DEF arm_browser_direct, start_with_session_limits, UserStart
<1>3. CASE SyncCredential(r) \/ SyncThroughModeLock(r)
  BY <1>3 DEF SyncCredential, SyncThroughModeLock, ModeLock
<1> QED
  BY <1>1, <1>2, <1>3 DEF Handler, DirectStop, NormalizeStoppedAccount,
     StopMiddleware, StopSentinel, ReadRow, ClearStopSentinel,
     exact_session_lifecycle, RejectCurrentAccount, ListManagedAccounts,
     SyncStatus, row

(* A worker step enables a target-stopped row in the policy layer only: the*)
(* other writers are never at their commit on such a row.                  *)
LEMMA WorkerEnables ==
  ASSUME ControlInvariant, StatusWriter \/ Quarantine \/ OtherWriter,
         ~enabled, status \in TargetStops, enabled'
  PROVE  At("global")
<1>1. ~rowLock /\ worker.pc \notin LockedPcs
  BY DEF ControlInvariant, TypeOK
<1>2. worker.pc \notin {"repairCommit", "recoveryRepairCommit", "oauth"}
  BY DEF ControlInvariant
<1>3. CASE StatusWriter
  BY <1>1, <1>3 DEF StatusWriter, Observe, RequestStatus, LeaseAwareSetStatus,
     PreserveBrowserOwner, PreserveBrowserOwnerCommit, FinalSetStatus,
     ForceRetryState, ForceRetryStateCommit, StatusWithoutAutomaticStop,
     BrowserOwnedStatusGuard, GuardedSetStatus, ManualLockingSetStatus,
     ModeLock, StatusWithAutomaticPause, LockOrSkip, LockedPcs, At, ApiRow, row
<1>4. CASE Quarantine
  BY <1>1, <1>4 DEF Quarantine, RequestQuarantine, FinalQuarantine,
     QuarantineAsRetry, QuarantineManagedAccount, PreserveEnabledRetry,
     PreserveEnabledRetryCommit, QuarantineAfter, ForceRetryQuarantined,
     ForceRetryQuarantinedCommit, LockOrSkip, LockedPcs, At, row
<1>5. CASE OtherWriter
  BY <1>2, <1>5 DEF OtherWriter, KeepAccountRunning, KeepAccountRunningCommit,
     RepairDirectAutomaticStops, RepairExistingRecoveryAccounts, RepairScan,
     RepairCommit, RefreshEnabledOauthRows, OauthRefreshed, OauthRefreshFails,
     EnforceSessionRiskLimit, StopForRiskLimit, At, row
<1> QED
  BY <1>3, <1>4, <1>5

(* A take profit or stop loss is undone by a Start, or by the debt branch  *)
(* of the policy layer, and by nothing else.                               *)
THEOREM LimitStopsHold == Spec => LimitStopHolds
<1>1. ControlInvariant /\ [Next]_vars =>
        [~enabled /\ status \in TargetStops /\ enabled'
           => \/ intent' = "started"
              \/ At("global")
              \/ ~AllowsNewExecution(enabled', status')]_vars
  <2> SUFFICES ASSUME ControlInvariant, Next, ~enabled, status \in TargetStops,
                      enabled'
               PROVE  \/ intent' = "started"
                      \/ At("global")
                      \/ ~AllowsNewExecution(enabled', status')
    BY DEF vars
  <2>1. TypeOK
    BY DEF ControlInvariant
  <2>2. status' = status => ~AllowsNewExecution(enabled', status')
    BY DEF AllowsNewExecution, Lifecycle, TargetStops
  <2>3. ~WorkerRestarts
    BY DEF WorkerRestarts, ApiRow, row
  <2> QED
    BY <2>1, <2>2, <2>3, HandlerEnables, WorkerEnables DEF Next
<1> QED
  BY <1>1, ControlCorrect, PTL DEF Spec, LimitStopHolds
=============================================================================
