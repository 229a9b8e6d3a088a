---------------------- MODULE PurchasePipeline_proofs ----------------------
(***************************************************************************)
(* Proofs, for every set of signals, of the safety properties that the     *)
(* run of MCPurchasePipeline checks on three.                              *)
(***************************************************************************)
EXTENDS PurchasePipeline, TLAPS

TaskType == ActivePcs \cup EndPcs \cup {"unused"}

-----------------------------------------------------------------------------
(* Where an attempt goes, and what it does to the set of active ones.      *)

(* A task that moves changes its own place and no other.                   *)
LEMMA Moves ==
  ASSUME task \in [Signals -> TaskType], NEW a \in Signals, NEW pc \in TaskType,
         Move(a, pc)
  PROVE  /\ task' \in [Signals -> TaskType]
         /\ task'[a] = pc
         /\ \A b \in Signals \ {a} : task'[b] = task[b]
  BY DEF Move

(* An attempt that goes on leaves the set of active ones as it is.         *)
LEMMA Continues ==
  ASSUME task \in [Signals -> TaskType], NEW a \in active, NEW pc \in ActivePcs,
         Move(a, pc)
  PROVE  active' = active
<1>1. a \in Signals /\ pc \in TaskType /\ task[a] \in ActivePcs
  BY DEF active, TaskType
<1> QED
  BY <1>1, Moves DEF active

(* The only attempt ends: none is active any more.                         *)
LEMMA Ends ==
  ASSUME task \in [Signals -> TaskType], PurchaseExclusive, NEW a \in active,
         NEW pc \in EndPcs, Move(a, pc)
  PROVE  active' = {}
<1>1. a \in Signals /\ pc \in TaskType /\ pc \notin ActivePcs
  BY DEF active, TaskType, ActivePcs, EndPcs
<1>2. \A b \in Signals \ {a} : task[b] \notin ActivePcs
  BY DEF PurchaseExclusive, active
<1> QED
  BY <1>1, <1>2, Moves DEF active

(* A lost connection orphans the waiting BUY and ends no attempt.          *)
LEMMA Orphans ==
  ASSUME task \in [Signals -> TaskType], task' = orphan
  PROVE  /\ task' \in [Signals -> TaskType]
         /\ active' = active
         /\ \A a \in Signals : task'[a] # task[a] => task[a] = "buying" /\ task'[a] = "orphaned"
<1>1. \A a \in Signals : task'[a] = IF task[a] = "buying" THEN "orphaned" ELSE task[a]
  BY DEF orphan
<1>2. {"buying", "orphaned"} \subseteq ActivePcs /\ "orphaned" \in TaskType
  BY DEF ActivePcs, TaskType
<1>3. task' \in [Signals -> TaskType]
  BY <1>2 DEF orphan
<1> QED
  BY <1>1, <1>2, <1>3 DEF active

(* Tasks that are cancelled wherever they are leave none active.           *)
LEMMA Cancels ==
  ASSUME task \in [Signals -> TaskType],
         task' = [a \in Signals |-> IF a \in active THEN "done" ELSE task[a]]
  PROVE  /\ task' \in [Signals -> TaskType]
         /\ active' = {}
         /\ \A a \in Signals : task'[a] # task[a] => a \in active /\ task'[a] = "done"
<1>1. \A a \in Signals : task'[a] = IF a \in active THEN "done" ELSE task[a]
  OBVIOUS
<1>2. "done" \in TaskType /\ "done" \notin ActivePcs
  BY DEF ActivePcs, EndPcs, TaskType
<1>3. task' \in [Signals -> TaskType]
  BY <1>2
<1> QED
  BY <1>1, <1>2, <1>3 DEF active

-----------------------------------------------------------------------------
(* The initial state.                                                      *)
LEMMA PipelineInit == Init => PipelineInvariant
<1> SUFFICES ASSUME Init PROVE PipelineInvariant
  OBVIOUS
<1>1. active = {}
  BY DEF Init, active, ActivePcs
<1>2. TypeOK
  BY SignalAssumption DEF Init, TypeOK, Contract
<1> QED
  BY <1>1, <1>2 DEF Init, PipelineInvariant, PurchaseExclusive, LedgerTruthful,
     LoadedTradesWatched, AttemptsAdmitted, CycleUp, NothingUnsent, OneLateBuy, NoneFollows

-----------------------------------------------------------------------------
(* Every step of an attempt keeps the types.                               *)
LEMMA TypeAttempt ==
  ASSUME TypeOK, NEW a \in Signals, ScheduleAccountMatch(a) \/ Attempt(a)
  PROVE  TypeOK'
<1>0. /\ task \in [Signals -> TaskType]
      /\ {"scheduled", "quoting", "requoting", "buying", "done", "uncertain"} \subseteq TaskType
  BY DEF TypeOK, TaskType, ActivePcs, EndPcs
<1>1. CASE ScheduleAccountMatch(a)
  <2>1. task' \in [Signals -> TaskType]
    BY <1>0, <1>1, Moves DEF row, ScheduleAccountMatch
  <2> QED
    BY <1>1, <2>1, SignalAssumption DEF row, TypeOK, TaskType, ScheduleAccountMatch, up, ledger, lock
<1>2. CASE GuardedExecute(a)
  <2>1. task' \in [Signals -> TaskType]
    BY <1>0, <1>2, Moves DEF row, GuardedExecute, Finish
  <2> QED
    BY <1>2, <2>1, SignalAssumption DEF row, TypeOK, TaskType, GuardedExecute, Finish, up, ledger, lock
<1>3. CASE Requote(a)
  <2>1. task' \in [Signals -> TaskType]
    BY <1>0, <1>3, Moves DEF row, Requote, Finish
  <2> QED
    BY <1>3, <2>1, SignalAssumption DEF row, TypeOK, TaskType, Requote, Finish, up, ledger, lock
<1>4. CASE Abort(a)
  <2>1. task' \in [Signals -> TaskType]
    BY <1>0, <1>4, Moves DEF row, Abort, Finish
  <2> QED
    BY <1>4, <2>1, SignalAssumption DEF row, TypeOK, TaskType, Abort, Finish, up, ledger, lock
<1>5. CASE SendBuy(a)
  <2>1. task' \in [Signals -> TaskType]
    BY <1>0, <1>5, Moves DEF row, SendBuy
  <2> QED
    BY <1>5, <2>1, SignalAssumption DEF row, TypeOK, TaskType, SendBuy, Contract, up, ledger, lock
<1>6. CASE Acknowledged(a)
  <2>1. task' \in [Signals -> TaskType]
    BY <1>0, <1>6, Moves DEF row, Acknowledged, Finish
  <2> QED
    BY <1>6, <2>1, SignalAssumption DEF row, TypeOK, TaskType, Acknowledged, Finish, Register, Contract, up, ledger, lock
<1>7. CASE Refused(a)
  <2>1. task' \in [Signals -> TaskType]
    BY <1>0, <1>7, Moves DEF row, Refused, Finish
  <2> QED
    BY <1>7, <2>1, SignalAssumption DEF row, TypeOK, TaskType, Refused, Finish, up, ledger, lock
<1>8. CASE TimedOut(a)
  <2>1. task' \in [Signals -> TaskType]
    BY <1>0, <1>8, Moves DEF row, TimedOut, FinishUncertain
  <2> QED
    BY <1>8, <2>1, SignalAssumption DEF row, TypeOK, TaskType, TimedOut, FinishUncertain, up, ledger, lock
<1> QED
  BY <1>1, <1>2, <1>3, <1>4, <1>5, <1>6, <1>7, <1>8 DEF row, Attempt

(* Every other step keeps the types.                                       *)
LEMMA TypeOther ==
  ASSUME TypeOK,
         \/ \E a \in Signals : ProviderSettles(a) \/ HandleContractUpdate(a)
         \/ Reconcile
         \/ Stop \/ Start \/ Disconnect \/ Connect
         \/ AdmitAccount \/ DropAccount \/ RotateCredential
         \/ CycleEnds \/ CycleStarts \/ Restart
  PROVE  TypeOK'
<1>0. task \in [Signals -> TaskType]
  BY DEF TypeOK, TaskType
<1>1. CASE \E a \in Signals : ProviderSettles(a) \/ HandleContractUpdate(a)
  BY <1>1 DEF row, TypeOK, ProviderSettles, HandleContractUpdate, Contract, up, memory, lock
<1>2. CASE \E b \in Signals : ReconcileFinds(b)
  BY <1>2 DEF row, TypeOK, ReconcileFinds, Register, ReleaseLock, Contract, up, memory
<1>3. CASE ReconcileGivesUp \/ ReconcileStops
  BY <1>3 DEF row, TypeOK, ReconcileGivesUp, ReconcileStops, ReleaseLock, up, memory, ledger
<1>4. CASE Stop \/ Start
  <2>1. running' \in BOOLEAN /\ UNCHANGED <<up, memory, ledger, lock>>
    BY <1>4 DEF Stop, Start
  <2>2. lateBuys' = lateBuys \/ lateBuys' = 0
    BY <1>4 DEF Stop, Start
  <2> QED
    BY <2>1, <2>2 DEF TypeOK, up, memory, ledger, lock
<1>5. CASE Disconnect
  <2>1. task' \in [Signals -> TaskType]
    BY <1>0, <1>5, Orphans DEF row, Disconnect
  <2> QED
    BY <1>5, <2>1 DEF row, TypeOK, TaskType, Disconnect, up, ledger, lock
<1>6. CASE Connect \/ AdmitAccount
  <2>1. /\ connected' \in BOOLEAN /\ admitted' \in BOOLEAN
        /\ UNCHANGED <<row, up, task, inflight, stale, ledger, lock>>
    BY <1>6 DEF row, TypeOK, Connect, AdmitAccount
  <2> QED
    BY <2>1 DEF row, TypeOK, up, ledger, lock
<1>7. CASE DropAccount
  <2>1. task' \in [Signals -> TaskType]
    BY <1>0, <1>7, Cancels DEF row, DropAccount
  <2> QED
    BY <1>7, <2>1 DEF row, TypeOK, TaskType, DropAccount, up, ledger, lock
<1>8. CASE RotateCredential
  <2>1. task' \in [Signals -> TaskType]
    BY <1>0, <1>8, Orphans DEF row, RotateCredential
  <2>2. stale' \subseteq Signals
    BY <1>8 DEF row, TypeOK, RotateCredential, active
  <2> QED
    BY <1>8, <2>1, <2>2 DEF row, TypeOK, TaskType, RotateCredential, up, lock
<1>9. CASE CycleEnds \/ CycleStarts
  <2>1. CASE CycleEnds
    BY <2>1 DEF row, TypeOK, CycleEnds, lock
  <2>2. CASE CycleStarts
    <3>1. /\ admitted' \in BOOLEAN /\ loaded' \in BOOLEAN
          /\ watched' \subseteq Signals
      BY <2>2 DEF row, TypeOK, CycleStarts
    <3> QED
      BY <2>2, <3>1 DEF row, TypeOK, CycleStarts, lock
  <2> QED
    BY <1>9, <2>1, <2>2
<1>10. CASE Restart
  <2>1. task' \in [Signals -> TaskType]
    BY <1>0, <1>10, Cancels DEF row, Restart
  <2> QED
    BY <1>10, <2>1 DEF row, TypeOK, TaskType, Restart, ReleaseLock
<1> QED
  BY <1>1, <1>2, <1>3, <1>4, <1>5, <1>6, <1>7, <1>8, <1>9, <1>10 DEF row, Reconcile

(* The types are inductive by themselves.                                  *)
LEMMA TypeStep == TypeOK /\ [Next]_vars => TypeOK'
<1> SUFFICES ASSUME TypeOK, [Next]_vars PROVE TypeOK'
  OBVIOUS
<1>1. CASE Next
  BY <1>1, TypeAttempt, TypeOther DEF Next
<1>2. CASE UNCHANGED vars
  BY <1>2 DEF TypeOK, vars
<1> QED
  BY <1>1, <1>2

-----------------------------------------------------------------------------
(* Attempts exclude each other and every outstanding purchase, because an  *)
(* attempt belongs to an admitted account of a cycle that is up.           *)
Exclusion == PurchaseExclusive /\ AttemptsAdmitted /\ CycleUp

LEMMA ExclusionAttempt ==
  ASSUME TypeOK, Exclusion, NEW a \in Signals, ScheduleAccountMatch(a) \/ Attempt(a)
  PROVE  Exclusion'
<1>0. /\ task \in [Signals -> TaskType]
      /\ {"scheduled", "quoting", "requoting", "buying"} \subseteq ActivePcs
      /\ {"done", "uncertain"} \subseteq EndPcs
  BY DEF TypeOK, TaskType, ActivePcs, EndPcs
<1>1. CASE ScheduleAccountMatch(a)
  <2>1. active = {} /\ admitted /\ cycle
    BY <1>1 DEF ScheduleAccountMatch, Exclusion, PurchaseExclusive, CycleUp
  <2>2. active' = {a}
    BY <1>0, <1>1, <2>1, Moves DEF ScheduleAccountMatch, active, TaskType
  <2> QED
    BY <1>1, <2>1, <2>2 DEF Exclusion, PurchaseExclusive, AttemptsAdmitted, CycleUp,
       ScheduleAccountMatch, OpenActual, up, ledger, lock
<1>2. ASSUME task[a] \in ActivePcs, UNCHANGED <<up, admitted, inflight, watched, ambiguous>>,
             NEW pc \in ActivePcs, Move(a, pc)
      PROVE  Exclusion'
  <2>1. a \in active
    BY <1>2 DEF active
  <2>2. active' = active
    BY <1>0, <1>2, <2>1, Continues
  <2> QED
    BY <1>2, <2>2 DEF Exclusion, PurchaseExclusive, AttemptsAdmitted, CycleUp, up
<1>3. ASSUME task[a] \in ActivePcs, UNCHANGED <<up, admitted>>,
             NEW pc \in EndPcs, Move(a, pc), inflight' = FALSE
      PROVE  Exclusion'
  <2>1. a \in active
    BY <1>3 DEF active
  <2>2. active' = {}
    BY <1>0, <1>3, <2>1, Ends DEF Exclusion
  <2> QED
    BY <1>3, <2>2 DEF Exclusion, PurchaseExclusive, AttemptsAdmitted, CycleUp, up
<1>4. CASE GuardedExecute(a)
  BY <1>0, <1>2, <1>3, <1>4 DEF GuardedExecute, Finish, ledger, lock
<1>5. CASE Requote(a)
  BY <1>0, <1>2, <1>3, <1>5 DEF Requote, Finish, ledger, lock
<1>6. CASE Abort(a)
  BY <1>0, <1>3, <1>6 DEF Abort, Finish
<1>7. CASE SendBuy(a)
  BY <1>0, <1>2, <1>7 DEF SendBuy, lock
<1>8. CASE Acknowledged(a)
  BY <1>0, <1>3, <1>8 DEF Acknowledged, Finish
<1>9. CASE Refused(a)
  BY <1>0, <1>3, <1>9 DEF Refused, Finish
<1>10. CASE TimedOut(a)
  <2>1. task[a] \in ActivePcs
    BY <1>10 DEF TimedOut, ActivePcs
  <2> QED
    BY <1>0, <1>3, <1>10, <2>1 DEF TimedOut, FinishUncertain
<1> QED
  BY <1>1, <1>4, <1>5, <1>6, <1>7, <1>8, <1>9, <1>10 DEF Attempt

LEMMA ExclusionOther ==
  ASSUME TypeOK, Exclusion,
         \/ \E a \in Signals : ProviderSettles(a) \/ HandleContractUpdate(a)
         \/ Reconcile
         \/ Stop \/ Start \/ Disconnect \/ Connect
         \/ AdmitAccount \/ DropAccount \/ RotateCredential
         \/ CycleEnds \/ CycleStarts \/ Restart
  PROVE  Exclusion'
<1>0. task \in [Signals -> TaskType]
  BY DEF TypeOK, TaskType
<1> USE DEF Exclusion, PurchaseExclusive, AttemptsAdmitted, CycleUp
<1>1. CASE \E a \in Signals : ProviderSettles(a) \/ HandleContractUpdate(a)
  BY <1>1 DEF ProviderSettles, HandleContractUpdate, up, memory, lock, active
<1>2. CASE Reconcile
  <2>1. ambiguous /\ ~ambiguous' /\ UNCHANGED <<up, memory>>
    BY <1>2 DEF Reconcile, ReconcileFinds, ReconcileGivesUp, ReconcileStops, ReleaseLock
  <2> QED
    BY <2>1 DEF up, memory, active
<1>3. CASE Stop \/ Start
  BY <1>3 DEF Stop, Start, up, memory, ledger, lock, active
<1>4. CASE Disconnect
  <2>1. active' = active
    BY <1>0, <1>4, Orphans DEF Disconnect
  <2> QED
    BY <1>4, <2>1 DEF Disconnect, up, ledger, lock
<1>5. CASE Connect
  BY <1>5 DEF Connect, up, ledger, lock, active
<1>6. CASE AdmitAccount
  BY <1>6 DEF AdmitAccount, up, ledger, lock, active
<1>7. CASE DropAccount
  <2>1. active' = {}
    BY <1>0, <1>7, Cancels DEF DropAccount
  <2> QED
    BY <1>7, <2>1 DEF DropAccount, up
<1>8. CASE RotateCredential
  <2>1. active' = active
    BY <1>0, <1>8, Orphans DEF RotateCredential
  <2> QED
    BY <1>8, <2>1 DEF RotateCredential, up, lock
<1>9. CASE CycleEnds
  BY <1>9 DEF CycleEnds, active, lock
<1>10. CASE CycleStarts
  BY <1>10 DEF CycleStarts, active, lock
<1>11. CASE Restart
  <2>1. active' = {}
    BY <1>0, <1>11, Cancels DEF Restart
  <2> QED
    BY <1>11, <2>1 DEF Restart
<1> QED
  BY <1>1, <1>2, <1>3, <1>4, <1>5, <1>6, <1>7, <1>8, <1>9, <1>10, <1>11

-----------------------------------------------------------------------------
(* The ledger books what the provider did, because a BUY is sent once.     *)
Ledger == LedgerTruthful /\ NothingUnsent

LEMMA LedgerStep ==
  ASSUME TypeOK, Ledger, Next
  PROVE  Ledger'
<1>0. /\ task \in [Signals -> TaskType]
      /\ {"scheduled", "quoting", "requoting", "buying", "done", "uncertain"} \subseteq TaskType
  BY DEF TypeOK, TaskType, ActivePcs, EndPcs
<1> DEFINE Unsent == {"unused", "scheduled", "quoting", "requoting"}
<1> USE DEF Ledger, LedgerTruthful, NothingUnsent
(* A step that sends no BUY, and books at most what the provider opened.   *)
<1>1. ASSUME provider' = provider, NEW b \in Signals, provider[b] # "none",
             \/ trade' = [trade EXCEPT ![b] = IF @ = "none" THEN "open" ELSE @]
             \/ trade' = trade,
             \A c \in Signals : task'[c] \in Unsent => task[c] \in Unsent
      PROVE  Ledger'
  BY <1>1 DEF TypeOK
<1>2. ASSUME UNCHANGED <<provider, trade>>,
             \A c \in Signals : task'[c] \in Unsent => task[c] \in Unsent
      PROVE  Ledger'
  BY <1>2
<1>3. ASSUME NEW a \in Signals, NEW pc \in TaskType, Move(a, pc),
             pc \in Unsent => task[a] \in Unsent
      PROVE  \A c \in Signals : task'[c] \in Unsent => task[c] \in Unsent
  BY <1>0, <1>3, Moves
<1>4. ASSUME NEW a \in Signals, ScheduleAccountMatch(a) \/ Attempt(a)
      PROVE  Ledger'
  <2>1. CASE ScheduleAccountMatch(a)
    BY <1>0, <1>2, <1>3, <2>1 DEF ScheduleAccountMatch, ledger
  <2>2. CASE GuardedExecute(a)
    BY <1>0, <1>2, <1>3, <2>2 DEF GuardedExecute, Finish, ledger
  <2>3. CASE Requote(a)
    BY <1>0, <1>2, <1>3, <2>3 DEF Requote, Finish, ledger
  <2>4. CASE Abort(a)
    BY <1>0, <1>2, <1>3, <2>4 DEF Abort, Finish, ledger
  <2>5. CASE SendBuy(a)
    <3>1. task'[a] = "buying" /\ \A c \in Signals \ {a} : task'[c] = task[c]
      BY <1>0, <2>5, Moves DEF SendBuy
    <3>2. provider[a] = "none" /\ trade[a] = "none" /\ trade' = trade
      BY <2>5 DEF SendBuy, TypeOK, Contract
    <3>3. \A c \in Signals \ {a} : provider'[c] = provider[c]
      BY <2>5 DEF SendBuy, TypeOK
    <3> QED
      BY <3>1, <3>2, <3>3
  <2>6. CASE Acknowledged(a)
    BY <1>0, <1>1, <1>3, <2>6 DEF Acknowledged, Finish, Register
  <2>7. CASE Refused(a)
    BY <1>0, <1>2, <1>3, <2>7 DEF Refused, Finish, ledger
  <2>8. CASE TimedOut(a)
    BY <1>0, <1>2, <1>3, <2>8 DEF TimedOut, FinishUncertain, ledger
  <2> QED
    BY <1>4, <2>1, <2>2, <2>3, <2>4, <2>5, <2>6, <2>7, <2>8 DEF Attempt
<1>5. ASSUME NEW a \in Signals, ProviderSettles(a) PROVE Ledger'
  BY <1>5 DEF ProviderSettles, memory, TypeOK
<1>6. ASSUME NEW a \in Signals, HandleContractUpdate(a) PROVE Ledger'
  BY <1>6 DEF HandleContractUpdate, memory, TypeOK
<1>7. ASSUME NEW b \in Signals, ReconcileFinds(b) PROVE Ledger'
  <2>1. provider[b] # "none"
    BY <1>7 DEF ReconcileFinds
  <2> QED
    BY <1>1, <1>7, <2>1 DEF ReconcileFinds, Register, memory
<1>8. CASE ReconcileGivesUp \/ ReconcileStops
  BY <1>2, <1>8 DEF ReconcileGivesUp, ReconcileStops, memory, ledger
<1>9. CASE Stop \/ Start
  BY <1>2, <1>9 DEF Stop, Start, memory, ledger
<1>10. CASE Disconnect \/ RotateCredential
  <2>1. task' = orphan /\ UNCHANGED <<provider, trade>>
    BY <1>10 DEF Disconnect, RotateCredential, ledger
  <2> QED
    BY <1>0, <1>2, <2>1, Orphans
<1>11. CASE Connect \/ AdmitAccount
  BY <1>2, <1>11 DEF Connect, AdmitAccount, ledger
<1>12. CASE DropAccount \/ Restart
  <2>1. /\ task' = [a \in Signals |-> IF a \in active THEN "done" ELSE task[a]]
        /\ UNCHANGED <<provider, trade>>
    BY <1>12 DEF DropAccount, Restart, ledger
  <2> QED
    BY <1>0, <1>2, <2>1, Cancels
<1>13. CASE CycleEnds \/ CycleStarts
  BY <1>2, <1>13 DEF CycleEnds, CycleStarts
<1> QED
  BY <1>4, <1>5, <1>6, <1>7, <1>8, <1>9, <1>10, <1>11, <1>12, <1>13 DEF Next, Reconcile

-----------------------------------------------------------------------------
(* A cycle that loaded the open trades goes on watching them.              *)
LEMMA LoadedStep ==
  ASSUME TypeOK, Exclusion, Ledger, LoadedTradesWatched, Next
  PROVE  LoadedTradesWatched'
<1> USE DEF LoadedTradesWatched
<1> DEFINE Watching == watched \cup retired
<1>1. ASSUME UNCHANGED <<up, trade>>, watched \cup retired \subseteq watched' \cup retired',
             \A b \in Signals : provider'[b] = "open" => provider[b] = "open" \/ trade[b] = "none"
      PROVE  LoadedTradesWatched'
  BY <1>1 DEF up
<1>2. ASSUME NEW b \in Signals, Register(b), UNCHANGED up
      PROVE  LoadedTradesWatched'
  BY <1>2 DEF Register, up, TypeOK
<1>3. ASSUME NEW a \in Signals, ScheduleAccountMatch(a) \/ Attempt(a)
      PROVE  LoadedTradesWatched'
  <2>1. CASE SendBuy(a)
    <3>1. provider[a] = "none" /\ trade[a] = "none"
      BY <2>1 DEF SendBuy, Ledger, NothingUnsent, LedgerTruthful
    <3>2. \A b \in Signals \ {a} : provider'[b] = provider[b]
      BY <2>1 DEF SendBuy, TypeOK
    <3> QED
      BY <1>1, <2>1, <3>1, <3>2 DEF SendBuy
  <2>2. CASE Acknowledged(a)
    BY <1>2, <2>2 DEF Acknowledged
  <2>3. CASE \/ ScheduleAccountMatch(a) \/ GuardedExecute(a) \/ Requote(a)
             \/ Abort(a) \/ Refused(a) \/ TimedOut(a)
    <3>1. UNCHANGED <<up, ledger>>
      BY <2>3 DEF ScheduleAccountMatch, GuardedExecute, Requote, Abort, Refused, TimedOut
    <3> QED
      BY <1>1, <3>1 DEF ledger
  <2> QED
    BY <1>3, <2>1, <2>2, <2>3 DEF Attempt
<1>4. ASSUME NEW a \in Signals, ProviderSettles(a) PROVE LoadedTradesWatched'
  BY <1>1, <1>4 DEF ProviderSettles, TypeOK
<1>5. ASSUME NEW a \in Signals, HandleContractUpdate(a) PROVE LoadedTradesWatched'
  <2>1. \A b \in Signals : trade'[b] = "open" => trade[b] = "open"
    BY <1>5 DEF HandleContractUpdate, TypeOK
  <2> QED
    BY <1>5, <2>1 DEF HandleContractUpdate, up
<1>6. CASE Reconcile
  <2>1. ASSUME NEW b \in Signals, ReconcileFinds(b) PROVE LoadedTradesWatched'
    BY <1>2, <2>1 DEF ReconcileFinds
  <2>2. CASE ReconcileGivesUp \/ ReconcileStops
    <3>1. UNCHANGED <<up, ledger>>
      BY <2>2 DEF ReconcileGivesUp, ReconcileStops
    <3> QED
      BY <1>1, <3>1 DEF ledger
  <2> QED
    BY <1>6, <2>1, <2>2 DEF Reconcile
<1>7. CASE Stop \/ Start \/ Disconnect \/ Connect \/ AdmitAccount \/ DropAccount
  <2>1. UNCHANGED <<up, ledger>>
    BY <1>7 DEF Stop, Start, Disconnect, Connect, AdmitAccount, DropAccount
  <2> QED
    BY <1>1, <2>1 DEF ledger
<1>8. CASE RotateCredential
  BY <1>1, <1>8 DEF RotateCredential
<1>9. CASE CycleStarts
  BY <1>9 DEF CycleStarts, Exclusion, CycleUp
<1>10. CASE CycleEnds \/ Restart
  <2>1. ~cycle'
    BY <1>10 DEF CycleEnds, Restart
  <2> QED
    BY <2>1
<1> QED
  BY <1>3, <1>4, <1>5, <1>6, <1>7, <1>8, <1>9, <1>10 DEF Next

-----------------------------------------------------------------------------
(* One BUY at most is late: it takes the only attempt past its checks, and *)
(* no other attempt passes one while the account is stopped.               *)
Late == OneLateBuy /\ NoneFollows

LEMMA LateStep ==
  ASSUME TypeOK, PurchaseExclusive, Late, Next
  PROVE  Late'
<1> DEFINE Checked == {"quoting", "requoting"}
<1>0. /\ task \in [Signals -> TaskType]
      /\ {"scheduled", "quoting", "requoting", "buying", "done", "uncertain"} \subseteq TaskType
      /\ {"scheduled", "buying", "orphaned", "done", "uncertain"} \cap Checked = {}
  BY DEF TypeOK, TaskType, ActivePcs, EndPcs
<1> USE DEF Late, OneLateBuy, NoneFollows
(* A step that sends nothing, and lets no attempt past a check unless the  *)
(* account runs.                                                           *)
<1>1. ASSUME UNCHANGED row,
             \A c \in Signals : task'[c] \in Checked => task[c] \in Checked \/ running
      PROVE  Late'
  BY <1>1 DEF row
<1>2. ASSUME UNCHANGED row, NEW a \in Signals, NEW pc \in TaskType, Move(a, pc),
             pc \in Checked => running
      PROVE  Late'
  BY <1>0, <1>1, <1>2, Moves
<1>3. ASSUME NEW a \in Signals, ScheduleAccountMatch(a) \/ Attempt(a)
      PROVE  Late'
  <2>1. CASE ScheduleAccountMatch(a)
    BY <1>0, <1>2, <2>1 DEF ScheduleAccountMatch
  <2>2. CASE GuardedExecute(a)
    BY <1>0, <1>2, <2>2 DEF GuardedExecute, Finish
  <2>3. CASE Requote(a)
    BY <1>0, <1>2, <2>3 DEF Requote, Finish
  <2>4. CASE Abort(a)
    BY <1>0, <1>2, <2>4 DEF Abort, Finish
  <2>5. CASE SendBuy(a)
    <3>1. /\ task[a] \in Checked /\ running' = running
          /\ lateBuys' = IF running THEN lateBuys ELSE lateBuys + 1
      BY <2>5 DEF SendBuy
    <3>2. lateBuys = 0
      BY <3>1
    <3>3. task'[a] = "buying" /\ \A b \in Signals \ {a} : task'[b] = task[b]
      BY <1>0, <2>5, Moves DEF SendBuy
    <3>4. \A b \in Signals \ {a} : task[b] \notin Checked
      BY <3>1 DEF PurchaseExclusive, active, ActivePcs
    <3>5. \A b \in Signals : task'[b] \notin Checked
      BY <1>0, <3>3, <3>4
    <3> QED
      BY <3>1, <3>2, <3>5
  <2>6. CASE Acknowledged(a)
    BY <1>0, <1>2, <2>6 DEF Acknowledged, Finish
  <2>7. CASE Refused(a)
    BY <1>0, <1>2, <2>7 DEF Refused, Finish
  <2>8. CASE TimedOut(a)
    BY <1>0, <1>2, <2>8 DEF TimedOut, FinishUncertain
  <2> QED
    BY <1>3, <2>1, <2>2, <2>3, <2>4, <2>5, <2>6, <2>7, <2>8 DEF Attempt
<1>4. CASE \/ \E a \in Signals : ProviderSettles(a) \/ HandleContractUpdate(a)
           \/ Reconcile
           \/ Connect \/ AdmitAccount \/ CycleEnds \/ CycleStarts
  <2>1. UNCHANGED <<row, task>>
    BY <1>4 DEF ProviderSettles, HandleContractUpdate, Reconcile, ReconcileFinds,
       ReconcileGivesUp, ReconcileStops, Connect, AdmitAccount, CycleEnds, CycleStarts, memory
  <2> QED
    BY <1>1, <2>1
<1>5. CASE Stop
  <2>1. running /\ UNCHANGED <<lateBuys, task>>
    BY <1>5 DEF Stop, memory
  <2> QED
    BY <2>1
<1>6. CASE Start
  BY <1>6 DEF Start
<1>7. CASE Disconnect \/ RotateCredential
  <2>1. UNCHANGED row /\ task' = orphan
    BY <1>7 DEF Disconnect, RotateCredential
  <2> QED
    BY <1>0, <1>1, <2>1, Orphans
<1>8. CASE DropAccount \/ Restart
  <2>1. /\ UNCHANGED row
        /\ task' = [a \in Signals |-> IF a \in active THEN "done" ELSE task[a]]
    BY <1>8 DEF DropAccount, Restart
  <2> QED
    BY <1>0, <1>1, <2>1, Cancels
<1> QED
  BY <1>3, <1>4, <1>5, <1>6, <1>7, <1>8 DEF Next

-----------------------------------------------------------------------------
(* The conjunction is inductive.                                           *)
LEMMA PipelineStep == PipelineInvariant /\ [Next]_vars => PipelineInvariant'
<1> SUFFICES ASSUME PipelineInvariant, [Next]_vars PROVE PipelineInvariant'
  OBVIOUS
<1>0. TypeOK /\ Exclusion /\ Ledger /\ LoadedTradesWatched /\ Late
  BY DEF PipelineInvariant, Exclusion, Ledger, Late
<1>1. CASE Next
  <2>1. TypeOK'
    BY <1>0, <1>1, TypeStep
  <2>2. Exclusion'
    BY <1>0, <1>1, ExclusionAttempt, ExclusionOther DEF Next
  <2>3. Ledger' /\ LoadedTradesWatched'
    BY <1>0, <1>1, LedgerStep, LoadedStep
  <2>4. Late'
    BY <1>0, <1>1, LateStep DEF Exclusion
  <2> QED
    BY <2>1, <2>2, <2>3, <2>4 DEF PipelineInvariant, Exclusion, Ledger, Late
<1>2. CASE UNCHANGED vars
  BY <1>2 DEF vars, PipelineInvariant, TypeOK, PurchaseExclusive, active, LedgerTruthful,
     LoadedTradesWatched, AttemptsAdmitted, CycleUp, NothingUnsent,
     OneLateBuy, NoneFollows
<1> QED
  BY <1>1, <1>2

(* The inductive invariant holds in every behaviour: with it every promise *)
(* the pipeline keeps about locks, ledger and watched contracts.           *)
THEOREM PipelineCorrect == Spec => []PipelineInvariant
<1> QED
  BY PipelineInit, PipelineStep, PTL DEF Spec

(* Every variable keeps its type, and the ambiguity lock is held exactly   *)
(* while a reconciliation task exists.                                     *)
THEOREM PipelineTypes == Spec => []TypeOK
<1>1. PipelineInvariant => TypeOK
  BY DEF PipelineInvariant
<1> QED
  BY <1>1, PipelineCorrect, PTL

(* At most one attempt is under way, and never next to a contract of the   *)
(* current session or to an ambiguous purchase.                            *)
THEOREM OnePurchase == Spec => []PurchaseExclusive
<1>1. PipelineInvariant => PurchaseExclusive
  BY DEF PipelineInvariant
<1> QED
  BY <1>1, PipelineCorrect, PTL

(* The ledger books only what the provider did.                            *)
THEOREM LedgerBooksWhatHappened == Spec => []LedgerTruthful
<1>1. PipelineInvariant => LedgerTruthful
  BY DEF PipelineInvariant
<1> QED
  BY <1>1, PipelineCorrect, PTL

(* Once loaded, an open trade of an open contract stays watched.           *)
THEOREM WatchedWhileLoaded == Spec => []LoadedTradesWatched
<1>1. PipelineInvariant => LoadedTradesWatched
  BY DEF PipelineInvariant
<1> QED
  BY <1>1, PipelineCorrect, PTL

(* A Stop comes too late for one BUY at most.                              *)
THEOREM StopIsLateForOneBuy == Spec => []OneLateBuy
<1>1. PipelineInvariant => OneLateBuy
  BY DEF PipelineInvariant
<1> QED
  BY <1>1, PipelineCorrect, PTL

-----------------------------------------------------------------------------
(* Only SendBuy sends a BUY, and a BUY is an attempt of its own.           *)
LEMMA BuySender ==
  ASSUME TypeOK, Next, NEW a \in Signals, BuySent(a)
  PROVE  SendBuy(a)
<1>0. /\ task \in [Signals -> TaskType]
      /\ {"scheduled", "quoting", "requoting", "buying", "done", "uncertain"} \subseteq TaskType
  BY DEF TypeOK, TaskType, ActivePcs, EndPcs
<1> USE DEF BuySent
<1>1. ASSUME NEW b \in Signals, NEW pc \in TaskType, Move(b, pc)
      PROVE  pc = "buying" /\ a = b
  BY <1>0, <1>1, Moves
<1>2. ASSUME NEW b \in Signals, ScheduleAccountMatch(b) \/ Attempt(b)
      PROVE  SendBuy(a)
  BY <1>0, <1>1, <1>2 DEF ScheduleAccountMatch, Attempt, GuardedExecute, Requote, Abort,
     Acknowledged, Refused, TimedOut, SendBuy, Finish, FinishUncertain
<1>3. CASE \/ \E b \in Signals : ProviderSettles(b) \/ HandleContractUpdate(b)
           \/ Reconcile
           \/ Stop \/ Start \/ Connect \/ AdmitAccount \/ CycleEnds \/ CycleStarts
  <2>1. task' = task
    BY <1>3 DEF ProviderSettles, HandleContractUpdate, Reconcile, ReconcileFinds,
       ReconcileGivesUp, ReconcileStops, Stop, Start, Connect, AdmitAccount, CycleEnds,
       CycleStarts, memory
  <2> QED
    BY <2>1
<1>4. CASE Disconnect \/ RotateCredential
  BY <1>0, <1>4, Orphans DEF Disconnect, RotateCredential
<1>5. CASE DropAccount \/ Restart
  BY <1>0, <1>5, Cancels DEF DropAccount, Restart
<1> QED
  BY <1>2, <1>3, <1>4, <1>5 DEF Next

(* A BUY overlaps a booked, open contract only if a rotation retired the   *)
(* session that watches it, or the cycle never loaded it.                  *)
THEOREM OverlapOnlyRetired == Spec => BuysOverlapOnlyRetired
<1>1. ASSUME PipelineInvariant, [Next]_vars
      PROVE  [\A a, b \in Signals :
                BuySent(a) /\ trade[b] = "open" /\ provider[b] = "open"
                  => b \in retired \/ ~loaded]_vars
  <2> SUFFICES ASSUME Next, NEW a \in Signals, NEW b \in Signals, BuySent(a),
                      trade[b] = "open", provider[b] = "open", loaded
               PROVE  b \in retired
    BY <1>1
  <2>1. SendBuy(a)
    BY <1>1, BuySender DEF PipelineInvariant
  <2>2. watched = {}
    <3>1. a \in active
      BY <2>1 DEF SendBuy, active, ActivePcs
    <3> QED
      BY <1>1, <3>1 DEF PipelineInvariant, PurchaseExclusive
  <2> QED
    BY <1>1, <2>2 DEF PipelineInvariant, CycleUp, LoadedTradesWatched
<1> QED
  BY <1>1, PipelineCorrect, PTL DEF Spec, BuysOverlapOnlyRetired

-----------------------------------------------------------------------------
(* The journal.                                                            *)

stage == [a \in Signals |-> IF task[a] = "unused" THEN "unused"
                            ELSE IF a \in active THEN "active" ELSE "over"]

LEMMA Stages ==
  ASSUME task \in [Signals -> TaskType]
  PROVE  /\ stage \in [Signals -> {"unused", "active", "over"}]
         /\ \A a \in Signals : /\ stage[a] = "unused" <=> task[a] = "unused"
                               /\ stage[a] = "active" <=> a \in active
                               /\ stage[a] = "over" <=> task[a] \in EndPcs
  BY DEF stage, active, TaskType, ActivePcs, EndPcs

(* A task that moves changes the stage of its own signal only.             *)
LEMMA StageMoves ==
  ASSUME task \in [Signals -> TaskType], NEW a \in Signals, NEW pc \in TaskType,
         Move(a, pc), NEW st, st = IF pc = "unused" THEN "unused"
                                   ELSE IF pc \in ActivePcs THEN "active" ELSE "over"
  PROVE  stage' = [stage EXCEPT ![a] = st]
<1>1. /\ task' \in [Signals -> TaskType] /\ task'[a] = pc
      /\ \A b \in Signals \ {a} : task'[b] = task[b]
  BY Moves
<1>2. \A b \in Signals : stage'[b] = IF b = a THEN st ELSE stage[b]
  BY <1>1 DEF stage, active
<1>3. stage' = [b \in Signals |-> stage'[b]] /\ stage = [b \in Signals |-> stage[b]]
  BY DEF stage
<1> QED
  BY <1>2, <1>3

LEMMA StageAttempt ==
  ASSUME PipelineInvariant, NEW a \in Signals, ScheduleAccountMatch(a) \/ Attempt(a)
  PROVE  Journal!Next \/ UNCHANGED <<stage, provider, trade>>
<1>0. /\ task \in [Signals -> TaskType] /\ PurchaseExclusive /\ NothingUnsent
      /\ {"unused", "scheduled", "quoting", "requoting", "buying", "orphaned",
          "done", "uncertain"} \subseteq TaskType
      /\ provider \in [Signals -> Contract] /\ trade \in [Signals -> Contract]
  BY DEF PipelineInvariant, TypeOK, TaskType, ActivePcs, EndPcs
<1>s. /\ stage \in [Signals -> {"unused", "active", "over"}]
      /\ \A b \in Signals : /\ stage[b] = "unused" <=> task[b] = "unused"
                            /\ stage[b] = "active" <=> b \in active
  BY <1>0, Stages
<1>a. ASSUME NEW pc \in ActivePcs, Move(a, pc), task[a] \in ActivePcs
      PROVE  stage' = stage
  <2>1. pc \in TaskType /\ pc # "unused" /\ stage[a] = "active"
    BY <1>a, <1>s DEF TaskType, ActivePcs, active
  <2>2. stage' = [stage EXCEPT ![a] = "active"]
    BY <1>0, <1>a, <2>1, StageMoves
  <2> QED
    BY <2>1, <2>2, <1>s
<1>b. ASSUME NEW pc \in EndPcs, Move(a, pc), task[a] \in ActivePcs
      PROVE  stage' = [stage EXCEPT ![a] = "over"] /\ stage[a] = "active"
  <2>1. pc \in TaskType /\ pc # "unused" /\ pc \notin ActivePcs /\ stage[a] = "active"
    BY <1>b, <1>s DEF TaskType, ActivePcs, EndPcs, active
  <2> QED
    BY <1>0, <1>b, <2>1, StageMoves
<1>1. CASE ScheduleAccountMatch(a)
  <2>1. \A b \in Signals : stage[b] # "active"
    BY <1>0, <1>1, <1>s DEF ScheduleAccountMatch, PurchaseExclusive
  <2>2. stage[a] = "unused" /\ stage' = [stage EXCEPT ![a] = "active"]
    BY <1>0, <1>1, <1>s, StageMoves DEF ScheduleAccountMatch, ActivePcs
  <2>3. Journal!Begin(a)
    BY <1>1, <2>1, <2>2 DEF Journal!Begin, stage, ScheduleAccountMatch, ledger
  <2> QED
    BY <2>3 DEF Journal!Next
<1>2. CASE (GuardedExecute(a) \/ Requote(a)) /\ ~Finish(a)
  <2>1. stage' = stage
    BY <1>2, <1>a DEF GuardedExecute, Requote, ActivePcs
  <2> QED
    BY <1>2, <2>1 DEF GuardedExecute, Requote, ledger
<1>3. CASE SendBuy(a)
  <2>1. stage' = stage /\ stage[a] = "active" /\ provider[a] = "none"
    BY <1>0, <1>3, <1>a, <1>s DEF SendBuy, ActivePcs, active, NothingUnsent
  <2>2. Journal!Buy(a) \/ provider' = provider
    BY <1>3, <2>1 DEF Journal!Buy, stage, SendBuy
  <2> QED
    BY <1>3, <2>1, <2>2 DEF Journal!Next, SendBuy
<1>4. CASE \/ (GuardedExecute(a) \/ Requote(a)) /\ Finish(a)
           \/ Abort(a) \/ Refused(a) \/ TimedOut(a)
  <2>1. stage' = [stage EXCEPT ![a] = "over"] /\ stage[a] = "active"
    BY <1>4, <1>b DEF GuardedExecute, Requote, Abort, Refused, TimedOut, Finish,
       FinishUncertain, ActivePcs, EndPcs
  <2>2. UNCHANGED <<provider, trade>>
    BY <1>4 DEF GuardedExecute, Requote, Abort, Refused, TimedOut, ledger
  <2>3. Journal!End(a)
    BY <2>1, <2>2 DEF Journal!End, stage
  <2> QED
    BY <2>3 DEF Journal!Next
<1>5. CASE Acknowledged(a)
  <2>1. stage' = [stage EXCEPT ![a] = "over"] /\ stage[a] = "active"
    BY <1>5, <1>b DEF Acknowledged, Finish, ActivePcs, EndPcs
  <2>2. provider' = provider /\ provider[a] # "none"
    BY <1>5 DEF Acknowledged, Register
  <2>3. Journal!Booking(a) \/ trade' = trade
    BY <1>0, <1>5, <2>2 DEF Journal!Booking, Acknowledged, Register
  <2>4. Journal!End(a)
    BY <2>1, <2>2, <2>3 DEF Journal!End, stage
  <2> QED
    BY <2>4 DEF Journal!Next
<1> QED
  BY <1>1, <1>2, <1>3, <1>4, <1>5 DEF Attempt

(* Every step of the pipeline is a step of the journal or none.            *)
LEMMA JournalStep ==
  ASSUME PipelineInvariant, [Next]_vars
  PROVE  [Journal!Next]_(Journal!vars)
<1>0. /\ task \in [Signals -> TaskType] /\ PurchaseExclusive
      /\ provider \in [Signals -> Contract] /\ trade \in [Signals -> Contract]
  BY DEF PipelineInvariant, TypeOK, TaskType
<1>s. /\ stage \in [Signals -> {"unused", "active", "over"}]
      /\ \A b \in Signals : /\ stage[b] = "active" <=> b \in active
                            /\ stage[b] = "over" <=> task[b] \in EndPcs
  BY <1>0, Stages
<1>v. UNCHANGED <<stage, provider, trade>> => UNCHANGED Journal!vars
  BY DEF Journal!vars, stage
<1>1. ASSUME NEW a \in Signals, ScheduleAccountMatch(a) \/ Attempt(a)
      PROVE  [Journal!Next]_(Journal!vars)
  BY <1>1, <1>v, StageAttempt
<1>2. ASSUME NEW a \in Signals, ProviderSettles(a)
      PROVE  [Journal!Next]_(Journal!vars)
  <2>1. stage' = stage /\ trade' = trade
    BY <1>2 DEF ProviderSettles, stage, active, memory
  <2>2. Journal!Settle(a)
    BY <1>2, <2>1 DEF Journal!Settle, stage, ProviderSettles
  <2> QED
    BY <2>2 DEF Journal!Next
<1>3. ASSUME NEW a \in Signals, HandleContractUpdate(a)
      PROVE  [Journal!Next]_(Journal!vars)
  <2>1. stage' = stage /\ provider' = provider
    BY <1>3 DEF HandleContractUpdate, stage, active, memory
  <2>2. CASE a \notin unregistered /\ trade[a] = "open"
    <3>1. trade' = [trade EXCEPT ![a] = "settled"]
      BY <1>0, <1>3, <2>2 DEF HandleContractUpdate
    <3>2. Journal!BookResult(a)
      BY <1>3, <2>1, <2>2, <3>1 DEF Journal!BookResult, stage, HandleContractUpdate
    <3> QED
      BY <3>2 DEF Journal!Next
  <2>3. CASE ~(a \notin unregistered /\ trade[a] = "open")
    <3>1. trade' = trade
      BY <1>0, <1>3, <2>3 DEF HandleContractUpdate
    <3> QED
      BY <2>1, <3>1, <1>v
  <2> QED
    BY <2>2, <2>3
<1>4. ASSUME NEW b \in Signals, ReconcileFinds(b)
      PROVE  [Journal!Next]_(Journal!vars)
  <2>1. stage' = stage /\ provider' = provider
    BY <1>4 DEF ReconcileFinds, Register, stage, active, memory
  <2>2. provider[b] # "none"
    BY <1>4 DEF ReconcileFinds
  <2>3. CASE trade' = trade
    BY <2>1, <2>3, <1>v
  <2>4. CASE trade' # trade
    <3>1. trade[b] = "none" /\ trade' = [trade EXCEPT ![b] = "open"]
      BY <1>0, <1>4, <2>4 DEF ReconcileFinds, Register
    <3>2. b \notin active
      BY <1>0, <1>4 DEF ReconcileFinds, PurchaseExclusive
    <3>3. task[b] # "unused"
      BY <2>2 DEF PipelineInvariant, NothingUnsent
    <3>4. stage[b] = "over"
      BY <3>2, <3>3 DEF stage
    <3>5. Journal!Book(b)
      BY <2>1, <2>2, <3>1, <3>4 DEF Journal!Book, Journal!Booking, stage
    <3> QED
      BY <3>5 DEF Journal!Next
  <2> QED
    BY <2>3, <2>4
<1>5. CASE \/ UNCHANGED vars \/ ReconcileGivesUp \/ ReconcileStops \/ Stop \/ Start
           \/ Connect \/ AdmitAccount \/ CycleEnds \/ CycleStarts
  <2>1. UNCHANGED <<task, provider, trade>>
    BY <1>5 DEF vars, ReconcileGivesUp, ReconcileStops, Stop, Start, Connect, AdmitAccount,
       CycleEnds, CycleStarts, memory, ledger
  <2> QED
    BY <2>1, <1>v DEF stage, active
<1>6. CASE Disconnect \/ RotateCredential
  <2>1. task' = orphan /\ UNCHANGED <<provider, trade>>
    BY <1>6 DEF Disconnect, RotateCredential, ledger
  <2>2. /\ active' = active
        /\ \A a \in Signals : task'[a] = "unused" <=> task[a] = "unused"
    BY <1>0, <2>1, Orphans
  <2> QED
    BY <2>1, <2>2, <1>v DEF stage
<1>7. CASE DropAccount \/ Restart
  <2>1. /\ task' = [a \in Signals |-> IF a \in active THEN "done" ELSE task[a]]
        /\ UNCHANGED <<provider, trade>>
    BY <1>7 DEF DropAccount, Restart, ledger
  <2>2. /\ task' \in [Signals -> TaskType] /\ active' = {}
        /\ \A a \in Signals : task'[a] # task[a] => a \in active /\ task'[a] = "done"
    BY <1>0, <2>1, Cancels
  <2>3. CASE active = {}
    BY <2>1, <2>2, <2>3, <1>v DEF stage
  <2>4. ASSUME NEW a \in active
        PROVE  Journal!End(a)
    <3>1. a \in Signals /\ task'[a] = "done" /\ stage[a] = "active"
      BY <2>1, <1>s DEF active
    <3>2. \A b \in Signals \ {a} : task'[b] = task[b] /\ b \notin active
      BY <1>0, <2>2 DEF PurchaseExclusive
    <3>3. \A b \in Signals : stage'[b] = IF b = a THEN "over" ELSE stage[b]
      BY <2>2, <3>1, <3>2 DEF stage
    <3>4. stage' = [b \in Signals |-> stage'[b]] /\ stage = [b \in Signals |-> stage[b]]
      BY DEF stage
    <3>5. stage' = [stage EXCEPT ![a] = "over"]
      BY <3>3, <3>4
    <3> QED
      BY <2>1, <3>1, <3>5 DEF Journal!End, stage
  <2> QED
    BY <2>3, <2>4 DEF Journal!Next, active
<1> QED
  BY <1>1, <1>2, <1>3, <1>4, <1>5, <1>6, <1>7 DEF Next, Reconcile

(* The pipeline implements the journal: its safety part, for every set of  *)
(* signals. (That every attempt ends is checked by the run.)               *)
THEOREM PipelineKeepsJournal == Spec => Journal!Spec
<1>1. Init => Journal!Init
  <2>1. Init => stage = [a \in Signals |-> "unused"]
    BY DEF Init, stage
  <2> QED
    BY <2>1 DEF Init, Journal!Init, stage
<1>2. PipelineInvariant /\ [Next]_vars => [Journal!Next]_(Journal!vars)
  BY JournalStep
<1> QED
  BY <1>1, <1>2, PipelineCorrect, PTL DEF Spec, Journal!Spec

=============================================================================
