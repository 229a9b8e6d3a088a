----------------------- MODULE ConnectionLanes_proofs -----------------------
(***************************************************************************)
(* Proofs about ConnectionLanes, for every finite set of sessions and every*)
(* number of lanes.                                                        *)
(***************************************************************************)
EXTENDS ConnectionLanes, FiniteSetTheorems, TLAPS

(* Both queues are finite, and a counter above zero has somebody to count. *)
LEMMA QueuesFinite ==
  ASSUME LanesCounted
  PROVE  /\ IsFiniteSet(Holders) /\ IsFiniteSet(UrgentQueue)
         /\ active > 0 => \E t \in Sessions : at[t] \in InLane
         /\ urgentWaiters > 0 => \E t \in Sessions : urgent[t] /\ at[t] \in Waiting
<1>1. Holders \subseteq Sessions /\ UrgentQueue \subseteq Sessions
  BY DEF Holders, UrgentQueue
<1>2. IsFiniteSet(Holders) /\ IsFiniteSet(UrgentQueue)
  BY <1>1, LaneAssumption, FS_Subset
<1>3. active > 0 => Holders # {}
  BY <1>2, FS_EmptySet DEF LanesCounted
<1>4. urgentWaiters > 0 => UrgentQueue # {}
  BY <1>2, FS_EmptySet DEF LanesCounted
<1> QED BY <1>2, <1>3, <1>4 DEF Holders, UrgentQueue

(* The initial states satisfy the invariant.                               *)
LEMMA LaneInit == Init => LaneInvariant
<1> SUFFICES ASSUME Init PROVE LaneInvariant
  OBVIOUS
<1>1. TypeOK
  <2>1. at \in [Sessions -> Stages]
    BY DEF Init, Stages
  <2>2. next \in [Sessions -> {"backoff", "connected", "idle"}]
    BY DEF Init
  <2>3. urgent \in [Sessions -> BOOLEAN] /\ priority \in [Sessions -> BOOLEAN]
    BY DEF Init
  <2>4. active = 0 /\ urgentWaiters = 0 /\ penalty \in BOOLEAN
    BY DEF Init
  <2>5. active \in 0 .. Limit /\ urgentWaiters \in Nat
    BY <2>4, LaneAssumption
  <2> QED BY <2>1, <2>2, <2>3, <2>4, <2>5 DEF TypeOK
<1>2. Holders = {} /\ UrgentQueue = {}
  BY DEF Init, Holders, UrgentQueue, InLane, Waiting
<1>3. LanesCounted
  BY <1>2, FS_EmptySet DEF LanesCounted, Init
<1>4. SleeperHasWaker /\ UrgentSleepsWhenFull
  BY DEF Init, SleeperHasWaker, UrgentSleepsWhenFull
<1> QED BY <1>1, <1>3, <1>4 DEF LaneInvariant

(* A session that moves without touching the condition: it is neither      *)
(* waiting nor changing the lane it is in.                                 *)
Quiet(s) ==
  \/ ConnectAndRun(s) \/ WaitForStartSlot(s) \/ GetOtpUrl(s) \/ OpenSocket(s)
  \/ BootstrapFails(s) \/ ConnectionLost(s) \/ LoopEnds(s) \/ Wake(s)
  \/ PriorityEnds(s)

LEMMA LaneType == LaneInvariant /\ [Next]_vars => TypeOK'
<1> SUFFICES ASSUME LaneInvariant, [Next]_vars PROVE TypeOK'
  OBVIOUS
<1>0. TypeOK
  BY DEF LaneInvariant
<1> USE LaneAssumption DEF Go, Stages, Waiting, InLane
<1>1. ASSUME NEW s \in Sessions, Quiet(s) PROVE TypeOK'
  BY <1>0, <1>1 DEF TypeOK, Quiet, ConnectAndRun, WaitForStartSlot, GetOtpUrl,
     OpenSocket, BootstrapFails, ConnectionLost, LoopEnds, Wake, PriorityEnds
<1>2. ASSUME NEW s \in Sessions, Acquire(s) PROVE TypeOK'
  BY <1>0, <1>2 DEF TypeOK, Acquire, MayEnter
<1>3. ASSUME NEW s \in Sessions, Enter(s) PROVE TypeOK'
  BY <1>0, <1>3 DEF TypeOK, Enter, MayEnter, Uncount
<1>4. ASSUME NEW s \in Sessions, SleepAgain(s) PROVE TypeOK'
  BY <1>0, <1>4 DEF TypeOK, SleepAgain
<1>5. ASSUME NEW s \in Sessions, Release(s) PROVE TypeOK'
  BY <1>0, <1>5 DEF TypeOK, Release
<1>6. ASSUME NEW s \in Sessions, CancelTask(s) PROVE TypeOK'
  BY <1>0, <1>6 DEF TypeOK, CancelTask
<1>7. ASSUME NEW s \in Sessions, Abort(s) PROVE TypeOK'
  BY <1>0, <1>7 DEF TypeOK, Abort, Uncount
<1>8. CASE PenaltyEnds
  BY <1>0, <1>8 DEF TypeOK, PenaltyEnds
<1>9. CASE UNCHANGED vars
  BY <1>0, <1>9 DEF TypeOK, vars
<1> QED BY <1>1, <1>2, <1>3, <1>4, <1>5, <1>6, <1>7, <1>8, <1>9 DEF Next, Quiet

(* The counters follow every step: each adds or removes the session that   *)
(* takes the step, and no other.                                           *)
LEMMA LaneCounts == LaneInvariant /\ [Next]_vars => LanesCounted'
<1> SUFFICES ASSUME LaneInvariant, [Next]_vars PROVE LanesCounted'
  OBVIOUS
<1>0. TypeOK /\ LanesCounted
  BY DEF LaneInvariant
<1>f. IsFiniteSet(Holders) /\ IsFiniteSet(UrgentQueue)
  BY <1>0, QueuesFinite
<1>n. Cardinality(Holders) \in Nat /\ Cardinality(UrgentQueue) \in Nat
  BY <1>f, FS_CardinalityType
<1> USE DEF Go, Waiting, InLane
<1>1. ASSUME NEW s \in Sessions, Quiet(s) PROVE LanesCounted'
  <2>1. Holders' = Holders /\ UrgentQueue' = UrgentQueue
    BY <1>0, <1>1 DEF TypeOK, Holders, UrgentQueue, Quiet, ConnectAndRun,
       WaitForStartSlot, GetOtpUrl, OpenSocket, BootstrapFails, ConnectionLost,
       LoopEnds, Wake, PriorityEnds
  <2>2. UNCHANGED <<active, urgentWaiters>>
    BY <1>1 DEF Quiet, ConnectAndRun, WaitForStartSlot, GetOtpUrl, OpenSocket,
       BootstrapFails, ConnectionLost, LoopEnds, Wake, PriorityEnds
  <2> QED BY <1>0, <2>1, <2>2 DEF LanesCounted
<1>2. ASSUME NEW s \in Sessions, Acquire(s) PROVE LanesCounted'
  <2>0. s \notin Holders /\ s \notin UrgentQueue
    BY <1>2 DEF Acquire, Holders, UrgentQueue
  <2>1. CASE MayEnter(s, urgentWaiters)
    <3>1. Holders' = Holders \union {s} /\ UrgentQueue' = UrgentQueue
      BY <1>0, <1>2, <2>1 DEF TypeOK, Acquire, Holders, UrgentQueue
    <3>2. Cardinality(Holders') = Cardinality(Holders) + 1
      BY <3>1, <2>0, <1>f, FS_AddElement
    <3>3. active' = active + 1 /\ urgentWaiters' = urgentWaiters
      BY <1>2, <2>1 DEF Acquire
    <3> QED BY <1>0, <3>1, <3>2, <3>3 DEF LanesCounted
  <2>2. CASE ~MayEnter(s, urgentWaiters) /\ urgent[s]
    <3>1. Holders' = Holders /\ UrgentQueue' = UrgentQueue \union {s}
      BY <1>0, <1>2, <2>2 DEF TypeOK, Acquire, Holders, UrgentQueue
    <3>2. Cardinality(UrgentQueue') = Cardinality(UrgentQueue) + 1
      BY <3>1, <2>0, <1>f, FS_AddElement
    <3>3. active' = active /\ urgentWaiters' = urgentWaiters + 1
      BY <1>2, <2>2 DEF Acquire
    <3> QED BY <1>0, <3>1, <3>2, <3>3 DEF LanesCounted
  <2>3. CASE ~MayEnter(s, urgentWaiters) /\ ~urgent[s]
    <3>1. Holders' = Holders /\ UrgentQueue' = UrgentQueue
      BY <1>0, <1>2, <2>3 DEF TypeOK, Acquire, Holders, UrgentQueue
    <3>2. active' = active /\ urgentWaiters' = urgentWaiters
      BY <1>2, <2>3 DEF Acquire
    <3> QED BY <1>0, <3>1, <3>2 DEF LanesCounted
  <2> QED BY <2>1, <2>2, <2>3
<1>3. ASSUME NEW s \in Sessions, at[s] \in Waiting,
             UrgentQueue' = UrgentQueue \ {s}, urgentWaiters' = Uncount(s)
      PROVE  urgentWaiters' = Cardinality(UrgentQueue')
  <2>1. s \in UrgentQueue <=> urgent[s]
    BY <1>3 DEF UrgentQueue
  <2>2. urgent[s] => Cardinality(UrgentQueue) # 0
    BY <2>1, <1>f, FS_EmptySet
  <2>3. Cardinality(UrgentQueue \ {s}) =
          IF urgent[s] THEN Cardinality(UrgentQueue) - 1 ELSE Cardinality(UrgentQueue)
    BY <2>1, <1>f, FS_RemoveElement
  <2> QED BY <1>0, <1>3, <1>n, <2>2, <2>3 DEF Uncount, LanesCounted
<1>4. ASSUME NEW s \in Sessions, Enter(s) PROVE LanesCounted'
  <2>1. Holders' = Holders \union {s} /\ UrgentQueue' = UrgentQueue \ {s}
    BY <1>0, <1>4 DEF TypeOK, Enter, Holders, UrgentQueue
  <2>2. s \notin Holders /\ at[s] \in Waiting
    BY <1>4 DEF Enter, Holders
  <2>3. Cardinality(Holders') = Cardinality(Holders) + 1
    BY <2>1, <2>2, <1>f, FS_AddElement
  <2>4. urgentWaiters' = Cardinality(UrgentQueue')
    BY <2>1, <2>2, <1>3, <1>4 DEF Enter
  <2> QED BY <1>0, <1>4, <2>3, <2>4 DEF LanesCounted, Enter
<1>5. ASSUME NEW s \in Sessions, SleepAgain(s) PROVE LanesCounted'
  <2>1. Holders' = Holders /\ UrgentQueue' = UrgentQueue
    BY <1>0, <1>5 DEF TypeOK, SleepAgain, Holders, UrgentQueue
  <2> QED BY <1>0, <1>5, <2>1 DEF LanesCounted, SleepAgain
<1>6. ASSUME NEW s \in Sessions, Release(s) PROVE LanesCounted'
  <2>1. Holders' = Holders \ {s} /\ s \in Holders
    BY <1>0, <1>6 DEF TypeOK, Release, Holders
  <2>2. UrgentQueue' = UrgentQueue
    BY <1>0, <1>6 DEF TypeOK, Release, UrgentQueue
  <2>3. Cardinality(Holders') = Cardinality(Holders) - 1 /\ Cardinality(Holders) # 0
    BY <2>1, <1>f, FS_RemoveElement, FS_EmptySet
  <2> QED BY <1>0, <1>6, <1>n, <2>2, <2>3 DEF LanesCounted, Release
<1>7. ASSUME NEW s \in Sessions, CancelTask(s) PROVE LanesCounted'
  <2>1. Holders' = Holders /\ UrgentQueue' = UrgentQueue
    BY <1>0, <1>7 DEF TypeOK, CancelTask, Holders, UrgentQueue
  <2> QED BY <1>0, <1>7, <2>1 DEF LanesCounted, CancelTask
<1>8. ASSUME NEW s \in Sessions, Abort(s) PROVE LanesCounted'
  <2>1. Holders' = Holders /\ UrgentQueue' = UrgentQueue \ {s}
    BY <1>0, <1>8 DEF TypeOK, Abort, Holders, UrgentQueue
  <2>2. at[s] \in Waiting
    BY <1>8 DEF Abort
  <2>3. urgentWaiters' = Cardinality(UrgentQueue')
    BY <2>1, <2>2, <1>3, <1>8 DEF Abort
  <2> QED BY <1>0, <1>8, <2>1, <2>3 DEF LanesCounted, Abort
<1>9. CASE PenaltyEnds \/ UNCHANGED vars
  BY <1>0, <1>9 DEF LanesCounted, Holders, UrgentQueue, PenaltyEnds, vars
<1> QED BY <1>1, <1>2, <1>4, <1>5, <1>6, <1>7, <1>8, <1>9 DEF Next, Quiet

(* An urgent session falls asleep only at the limit, and a lane is freed   *)
(* only by a release, which wakes everybody.                               *)
LEMMA LaneFull == LaneInvariant /\ [Next]_vars => UrgentSleepsWhenFull'
<1> SUFFICES ASSUME LaneInvariant, [Next]_vars,
                    NEW u \in Sessions, at'[u] = "asleep", urgent'[u]
             PROVE  active' = Limit
  BY DEF UrgentSleepsWhenFull
<1>0. TypeOK /\ UrgentSleepsWhenFull
  BY DEF LaneInvariant
<1> USE LaneAssumption DEF Go, Waiting, InLane
<1>1. ASSUME NEW s \in Sessions, Quiet(s) PROVE active' = Limit
  <2>1. at[u] = "asleep" /\ urgent[u] /\ active' = active
    BY <1>0, <1>1 DEF TypeOK, Quiet, ConnectAndRun, WaitForStartSlot, GetOtpUrl,
       OpenSocket, BootstrapFails, ConnectionLost, LoopEnds, Wake, PriorityEnds
  <2> QED BY <1>0, <2>1 DEF UrgentSleepsWhenFull
<1>2. ASSUME NEW s \in Sessions, Acquire(s) PROVE active' = Limit
  BY <1>0, <1>2 DEF TypeOK, Acquire, MayEnter, UrgentSleepsWhenFull
<1>3. ASSUME NEW s \in Sessions, Enter(s) PROVE active' = Limit
  BY <1>0, <1>3 DEF TypeOK, Enter, MayEnter, UrgentSleepsWhenFull
<1>4. ASSUME NEW s \in Sessions, SleepAgain(s) PROVE active' = Limit
  BY <1>0, <1>4 DEF TypeOK, SleepAgain, MayEnter, UrgentSleepsWhenFull
<1>5. ASSUME NEW s \in Sessions, Release(s) PROVE active' = Limit
  BY <1>0, <1>5 DEF TypeOK, Release
<1>6. ASSUME NEW s \in Sessions, CancelTask(s) PROVE active' = Limit
  BY <1>0, <1>6 DEF TypeOK, CancelTask, UrgentSleepsWhenFull
<1>7. ASSUME NEW s \in Sessions, Abort(s) PROVE active' = Limit
  BY <1>0, <1>7 DEF TypeOK, Abort, UrgentSleepsWhenFull
<1>8. CASE PenaltyEnds \/ UNCHANGED vars
  BY <1>0, <1>8 DEF UrgentSleepsWhenFull, PenaltyEnds, vars
<1> QED BY <1>1, <1>2, <1>3, <1>4, <1>5, <1>6, <1>7, <1>8 DEF Next, Quiet

(* A session that must sleep leaves somebody who will wake it: with every  *)
(* lane taken a holder, and otherwise an urgent session that still runs.   *)
LEMMA WhoWakes ==
  ASSUME LaneInvariant, NEW s \in Sessions, ~MayEnter(s, urgentWaiters),
         at[s] \in {"queueing", "awake"}
  PROVE  \E t \in Sessions \ {s} : at[t] \in InLane \union {"awake", "aborting"}
<1>0. TypeOK /\ LanesCounted /\ UrgentSleepsWhenFull
  BY DEF LaneInvariant
<1> USE LaneAssumption
<1>1. CASE active = Limit
  <2>1. PICK t \in Sessions : at[t] \in InLane
    BY <1>0, <1>1, QueuesFinite
  <2> QED BY <2>1 DEF InLane
<1>2. CASE active # Limit
  <2>1. ~urgent[s] /\ urgentWaiters > 0
    BY <1>0, <1>2 DEF TypeOK, MayEnter
  <2>2. PICK t \in Sessions : urgent[t] /\ at[t] \in Waiting
    BY <1>0, <2>1, QueuesFinite
  <2>3. at[t] # "asleep"
    BY <1>0, <1>2, <2>2 DEF UrgentSleepsWhenFull
  <2> QED BY <2>1, <2>2, <2>3 DEF Waiting
<1> QED BY <1>1, <1>2

LEMMA LaneWakes == LaneInvariant /\ [Next]_vars => SleeperHasWaker'
<1> SUFFICES ASSUME LaneInvariant, [Next]_vars,
                    NEW z \in Sessions, at'[z] = "asleep"
             PROVE  \E t \in Sessions : at'[t] \in InLane \union {"awake", "aborting"}
  BY DEF SleeperHasWaker, InLane
<1> DEFINE Waker(t) == at[t] \in InLane \union {"awake", "aborting"}
           NextWaker(t) == at'[t] \in InLane \union {"awake", "aborting"}
<1>0. TypeOK /\ SleeperHasWaker
  BY DEF LaneInvariant
<1>a. at[z] = "asleep" => \E t \in Sessions : Waker(t)
  BY <1>0 DEF SleeperHasWaker
<1> USE DEF Go, Waiting, InLane
<1>1. ASSUME NEW s \in Sessions, Quiet(s) PROVE \E t \in Sessions : NextWaker(t)
  <2>1. at[z] = "asleep" /\ \A t \in Sessions : Waker(t) => NextWaker(t)
    BY <1>0, <1>1 DEF TypeOK, Quiet, ConnectAndRun, WaitForStartSlot, GetOtpUrl,
       OpenSocket, BootstrapFails, ConnectionLost, LoopEnds, Wake, PriorityEnds
  <2> QED BY <1>a, <2>1
<1>2. ASSUME NEW s \in Sessions, Acquire(s) PROVE \E t \in Sessions : NextWaker(t)
  <2>1. CASE MayEnter(s, urgentWaiters)
    BY <1>0, <1>2, <2>1 DEF TypeOK, Acquire
  <2>2. CASE ~MayEnter(s, urgentWaiters)
    <3>1. PICK t \in Sessions \ {s} : Waker(t)
      BY <1>2, <2>2, WhoWakes DEF Acquire
    <3> QED BY <1>0, <1>2, <2>2, <3>1 DEF TypeOK, Acquire
  <2> QED BY <2>1, <2>2
<1>3. ASSUME NEW s \in Sessions, Enter(s) PROVE \E t \in Sessions : NextWaker(t)
  BY <1>0, <1>3 DEF TypeOK, Enter
<1>4. ASSUME NEW s \in Sessions, SleepAgain(s) PROVE \E t \in Sessions : NextWaker(t)
  <2>1. PICK t \in Sessions \ {s} : Waker(t)
    BY <1>4, WhoWakes DEF SleepAgain
  <2> QED BY <1>0, <1>4, <2>1 DEF TypeOK, SleepAgain
<1>5. ASSUME NEW s \in Sessions, Release(s) PROVE \E t \in Sessions : NextWaker(t)
  BY <1>0, <1>5 DEF TypeOK, Release
<1>6. ASSUME NEW s \in Sessions, CancelTask(s) PROVE \E t \in Sessions : NextWaker(t)
  <2>1. at[z] = "asleep" /\ \A t \in Sessions : Waker(t) => NextWaker(t)
    BY <1>0, <1>6 DEF TypeOK, CancelTask
  <2> QED BY <1>a, <2>1
<1>7. ASSUME NEW s \in Sessions, Abort(s) PROVE \E t \in Sessions : NextWaker(t)
  BY <1>0, <1>7 DEF TypeOK, Abort
<1>8. CASE PenaltyEnds \/ UNCHANGED vars
  BY <1>a, <1>8 DEF PenaltyEnds, vars
<1> QED BY <1>1, <1>2, <1>3, <1>4, <1>5, <1>6, <1>7, <1>8 DEF Next, Quiet

(* The inductive invariant of the lanes (vps_low_latency_runtime.py).      *)
THEOREM LaneInvariantTheorem == Spec => []LaneInvariant
<1>1. LaneInvariant /\ [Next]_vars => LaneInvariant'
  BY LaneType, LaneCounts, LaneFull, LaneWakes DEF LaneInvariant
<1> QED BY LaneInit, <1>1, PTL DEF Spec

(* Every variable keeps its type, and no more than Limit lanes are held.   *)
THEOREM LaneTypes == Spec => []TypeOK
<1>1. LaneInvariant => TypeOK
  BY DEF LaneInvariant
<1> QED BY <1>1, LaneInvariantTheorem, PTL

(* The counters of the lanes count the sessions that are there, through    *)
(* every failure and cancellation.                                         *)
THEOREM LanesStayCounted == Spec => []LanesCounted
<1>1. LaneInvariant => LanesCounted
  BY DEF LaneInvariant
<1> QED BY <1>1, LaneInvariantTheorem, PTL

(* No wakeup is lost: a session never sleeps with nobody left to wake it.  *)
THEOREM NoLostWakeup == Spec => []SleeperHasWaker
<1>1. LaneInvariant => SleeperHasWaker
  BY DEF LaneInvariant
<1> QED BY <1>1, LaneInvariantTheorem, PTL

(* A session comes into a lane through the predicate of wait_for, whose    *)
(* counter is zero only when the urgent queue is empty.                    *)
LEMMA LaneGiven ==
  ASSUME LaneInvariant, Next, NEW s \in Sessions, at[s] \notin InLane, at'[s] \in InLane
  PROVE  urgent[s] \/ UrgentQueue = {}
<1>0. at \in [Sessions -> Stages]
  BY DEF LaneInvariant, TypeOK
<1>1. MayEnter(s, urgentWaiters)
  <2> USE DEF Go, InLane, Waiting
  <2>1. ASSUME NEW t \in Sessions, Acquire(t) \/ Enter(t) PROVE MayEnter(s, urgentWaiters)
    BY <1>0, <2>1 DEF Acquire, Enter
  <2>2. ASSUME NEW t \in Sessions, SleepAgain(t) \/ Release(t) \/ CancelTask(t) \/ Abort(t)
        PROVE  FALSE
    <3>1. CASE SleepAgain(t) \/ CancelTask(t)
      BY <1>0, <3>1 DEF SleepAgain, CancelTask
    <3>2. CASE Release(t)
      BY <1>0, <3>2 DEF Release, LaneInvariant, TypeOK
    <3>3. CASE Abort(t)
      BY <1>0, <3>3 DEF Abort
    <3> QED
      BY <2>2, <3>1, <3>2, <3>3
  <2>3. ASSUME NEW t \in Sessions, Quiet(t) PROVE FALSE
    BY <1>0, <2>3 DEF Quiet, ConnectAndRun, WaitForStartSlot, GetOtpUrl, OpenSocket,
       BootstrapFails, ConnectionLost, LoopEnds, Wake, PriorityEnds
  <2>4. CASE PenaltyEnds
    BY <2>4 DEF PenaltyEnds
  <2> QED
    BY <2>1, <2>2, <2>3, <2>4 DEF Next, Quiet
<1>2. urgentWaiters = 0 => UrgentQueue = {}
  <2>1. LanesCounted
    BY DEF LaneInvariant
  <2>2. IsFiniteSet(UrgentQueue)
    BY <2>1, QueuesFinite
  <2> QED
    BY <2>1, <2>2, FS_EmptySet DEF LanesCounted
<1> QED
  BY <1>1, <1>2 DEF MayEnter

(* No normal session takes a lane an urgent one is waiting for.            *)
THEOREM UrgentComeFirst == Spec => UrgentFirst
<1>1. ASSUME LaneInvariant, [Next]_vars
      PROVE  [\A s \in Sessions :
                at[s] \notin InLane /\ at'[s] \in InLane => urgent[s] \/ UrgentQueue = {}]_vars
  BY <1>1, LaneGiven
<1> QED
  BY <1>1, LaneInvariantTheorem, PTL DEF Spec, UrgentFirst
=============================================================================
