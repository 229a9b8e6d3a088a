--------------------------- MODULE ConnectionLanes ---------------------------
(***************************************************************************)
(* How the private sessions of the worker share the provider: at most      *)
(* Limit of them fetch an OTP and open a socket at a time, urgent sessions *)
(* before others, and none starts under a penalty of the provider.         *)
(*                                                                         *)
(* The lanes are an asyncio.Condition. Its lock is never held across an    *)
(* await, so what runs under it is one step. Who wants it (queueing, awake,*)
(* leaving or aborting sessions) waits for those before it; the order is   *)
(* left open here. wait() keeps the promise of Python 3.13, the image's:   *)
(* a cancelled waiter takes the lock back and notifies another one before  *)
(* the exception leaves it.                                                *)
(***************************************************************************)
EXTENDS Naturals, FiniteSets

CONSTANTS Sessions,  \* the ClientSessions of the worker
          Limit      \* BOOTSTRAP_CONCURRENCY

ASSUME LaneAssumption == IsFiniteSet(Sessions) /\ Limit \in Nat \ {0}

VARIABLES at,        \* where the session's task is
          next,      \* where it goes when it has left its lane
          urgent,    \* urgency, as sampled before acquire()
          priority,  \* _session_is_urgent now
          active,    \* _active
          urgentWaiters, \* _urgent_waiters
          penalty    \* _penalty_until lies in the future

vars == <<at, next, urgent, priority, active, urgentWaiters, penalty>>

Waiting == {"asleep", "awake", "aborting"}   \* inside wait_for
InLane == {"slot", "otp", "wss", "leaving"}
Stages == {"idle", "queueing", "backoff", "connected"} \union Waiting \union InLane

Init ==
  /\ at = [s \in Sessions |-> "idle"]
  /\ next = [s \in Sessions |-> "backoff"]
  /\ urgent = [s \in Sessions |-> FALSE]
  /\ priority = [s \in Sessions |-> FALSE]
  /\ active = 0 /\ urgentWaiters = 0 /\ penalty = FALSE

Go(s, stage) == at' = [at EXCEPT ![s] = stage]

-----------------------------------------------------------------------------
(* acquire and release.                                                    *)

(* A new task, or the next turn of the loop: urgency is sampled here.      *)
ConnectAndRun(s) ==
  /\ at[s] \in {"idle", "backoff"}
  /\ Go(s, "queueing")
  /\ urgent' = [urgent EXCEPT ![s] = priority[s]]
  /\ UNCHANGED <<next, priority, active, urgentWaiters, penalty>>

MutOneTooMany(s, waiters) ==   \* mutant: off by one at the limit
  active <= Limit /\ (urgent[s] \/ waiters = 0)
(* The predicate of wait_for: a normal session also waits for urgent ones. *)
MayEnter(s, waiters) == active < Limit /\ (urgent[s] \/ waiters = 0)

(* acquire, up to the wait: an urgent session counts itself, looks, and    *)
(* either takes the lane, which uncounts it, or sleeps.                    *)
Acquire(s) ==
  /\ at[s] = "queueing"
  /\ \/ /\ MayEnter(s, urgentWaiters)
        /\ Go(s, "slot")
        /\ active' = active + 1
        /\ UNCHANGED urgentWaiters
     \/ /\ ~MayEnter(s, urgentWaiters)
        /\ Go(s, "asleep")
        /\ urgentWaiters' = IF urgent[s] THEN urgentWaiters + 1 ELSE urgentWaiters
        /\ UNCHANGED active
  /\ UNCHANGED <<next, urgent, priority, penalty>>

Uncount(s) == IF urgent[s] /\ urgentWaiters > 0 THEN urgentWaiters - 1
              ELSE urgentWaiters

MutKeepsCount(s) ==   \* mutant: a session that enters stays counted as waiting
  /\ at[s] = "awake" /\ MayEnter(s, urgentWaiters)
  /\ Go(s, "slot")
  /\ active' = active + 1
  /\ UNCHANGED <<next, urgent, priority, penalty, urgentWaiters>>
(* A notified session finds its turn has come.                             *)
Enter(s) ==
  /\ at[s] = "awake" /\ MayEnter(s, urgentWaiters)
  /\ Go(s, "slot")
  /\ active' = active + 1
  /\ urgentWaiters' = Uncount(s)
  /\ UNCHANGED <<next, urgent, priority, penalty>>

(* Or it has not, and the session sleeps again.                            *)
SleepAgain(s) ==
  /\ at[s] = "awake" /\ ~MayEnter(s, urgentWaiters)
  /\ Go(s, "asleep")
  /\ UNCHANGED <<next, urgent, priority, active, urgentWaiters, penalty>>

(* release, and what the loop does next: an open socket ends the priority. *)
Release(s) ==
  /\ at[s] = "leaving"
  /\ active' = IF active > 0 THEN active - 1 ELSE 0
  /\ at' = [t \in Sessions |-> IF t = s THEN next[s]
                               ELSE IF at[t] = "asleep" THEN "awake" ELSE at[t]]
  /\ next' = [next EXCEPT ![s] = "backoff"]
  /\ priority' = IF next[s] = "connected" THEN [priority EXCEPT ![s] = FALSE]
                 ELSE priority
  /\ UNCHANGED <<urgent, urgentWaiters, penalty>>

-----------------------------------------------------------------------------
(* Inside a lane: _vps_connect_and_run from the start slot to the socket.  *)

(* wait_for_start_slot looks again after every sleep.                      *)
WaitForStartSlot(s) ==
  /\ at[s] = "slot" /\ ~penalty
  /\ Go(s, "otp")
  /\ UNCHANGED <<next, urgent, priority, active, urgentWaiters, penalty>>

GetOtpUrl(s) ==
  /\ at[s] = "otp"
  /\ Go(s, "wss")
  /\ UNCHANGED <<next, urgent, priority, active, urgentWaiters, penalty>>

OpenSocket(s) ==
  /\ at[s] = "wss"
  /\ Go(s, "leaving") /\ next' = [next EXCEPT ![s] = "connected"]
  /\ UNCHANGED <<urgent, priority, active, urgentWaiters, penalty>>

(* No URL in time, no socket, or a refusal for rate, which penalizes all.  *)
BootstrapFails(s) ==
  /\ at[s] \in {"otp", "wss"}
  /\ Go(s, "leaving")
  /\ penalty' \in {penalty, TRUE}
  /\ UNCHANGED <<next, urgent, priority, active, urgentWaiters>>

ConnectionLost(s) ==
  /\ at[s] = "connected"
  /\ Go(s, "backoff")
  /\ UNCHANGED <<next, urgent, priority, active, urgentWaiters, penalty>>

(* The loop ends: the account is no longer configured and owes no contract.*)
LoopEnds(s) ==
  /\ at[s] = "backoff"
  /\ Go(s, "idle")
  /\ UNCHANGED <<next, urgent, priority, active, urgentWaiters, penalty>>

-----------------------------------------------------------------------------
(* The rest of the worker.                                                 *)

MutLeavesUncounted(s) ==   \* mutant: no finally around the lane
  /\ at[s] \notin {"idle", "leaving", "aborting"}
  /\ Go(s, IF at[s] \in {"asleep", "awake"} THEN "aborting" ELSE "idle")
  /\ UNCHANGED <<next, urgent, priority, active, urgentWaiters, penalty>>
(* The session's task is cancelled, once: a refresh, a Stop, a new key.    *)
(* Inside wait_for it must take the lock back, inside a lane its finally   *)
(* releases the lane.                                                      *)
CancelTask(s) ==
  /\ at[s] \notin {"idle", "leaving", "aborting"}
  /\ IF at[s] \in InLane
     THEN Go(s, "leaving") /\ next' = [next EXCEPT ![s] = "idle"]
     ELSE /\ Go(s, IF at[s] \in Waiting THEN "aborting" ELSE "idle")
          /\ UNCHANGED next
  /\ UNCHANGED <<urgent, priority, active, urgentWaiters, penalty>>

MutNotifiesNone(s) ==   \* mutant: the wait() of Python before 3.13
  /\ at[s] = "aborting"
  /\ urgentWaiters' = Uncount(s)
  /\ Go(s, "idle")
  /\ UNCHANGED <<next, urgent, priority, active, penalty>>
(* The exception leaves wait(): one sleeper, if any, is notified, and the  *)
(* finally of acquire uncounts the session.                                *)
Abort(s) ==
  /\ at[s] = "aborting"
  /\ urgentWaiters' = Uncount(s)
  /\ \/ /\ \A t \in Sessions : at[t] # "asleep"
        /\ Go(s, "idle")
     \/ \E t \in Sessions : /\ at[t] = "asleep"
                            /\ at' = [at EXCEPT ![s] = "idle", ![t] = "awake"]
  /\ UNCHANGED <<next, urgent, priority, active, penalty>>

(* A Start, a takeover or a contract: _priority_wake_private_connection.   *)
Wake(s) ==
  /\ ~priority[s]
  /\ priority' = [priority EXCEPT ![s] = TRUE]
  /\ UNCHANGED <<at, next, urgent, active, urgentWaiters, penalty>>

(* TAKEOVER_PRIORITY_SECONDS pass, or the last contract is settled.        *)
PriorityEnds(s) ==
  /\ priority[s]
  /\ priority' = [priority EXCEPT ![s] = FALSE]
  /\ UNCHANGED <<at, next, urgent, active, urgentWaiters, penalty>>

PenaltyEnds ==
  /\ penalty /\ penalty' = FALSE
  /\ UNCHANGED <<at, next, urgent, priority, active, urgentWaiters>>

Next ==
  \/ \E s \in Sessions :
       \/ ConnectAndRun(s) \/ Acquire(s) \/ Enter(s) \/ SleepAgain(s)
       \/ Release(s) \/ WaitForStartSlot(s) \/ GetOtpUrl(s) \/ OpenSocket(s)
       \/ BootstrapFails(s) \/ ConnectionLost(s) \/ LoopEnds(s)
       \/ CancelTask(s) \/ Abort(s) \/ Wake(s) \/ PriorityEnds(s)
  \/ PenaltyEnds

Spec == Init /\ [][Next]_vars

(* What waits for the condition's lock gets it; every await inside a lane  *)
(* is bounded by a timeout, and a penalty ends. A notified session whose   *)
(* turn keeps coming enters: those notified run in the order in which they *)
(* went to sleep, and a new one queues behind them.                        *)
Fairness ==
  /\ \A s \in Sessions :
       /\ WF_vars(Acquire(s)) /\ WF_vars(SleepAgain(s)) /\ SF_vars(Enter(s))
       /\ WF_vars(Release(s)) /\ WF_vars(Abort(s))
       /\ WF_vars(WaitForStartSlot(s))
       /\ WF_vars(GetOtpUrl(s) \/ OpenSocket(s) \/ BootstrapFails(s))
  /\ WF_vars(PenaltyEnds)

FairSpec == Spec /\ Fairness

-----------------------------------------------------------------------------
TypeOK ==
  /\ at \in [Sessions -> Stages]
  /\ next \in [Sessions -> {"backoff", "connected", "idle"}]
  /\ urgent \in [Sessions -> BOOLEAN] /\ priority \in [Sessions -> BOOLEAN]
  /\ active \in 0 .. Limit /\ urgentWaiters \in Nat /\ penalty \in BOOLEAN

Holders == {s \in Sessions : at[s] \in InLane}
UrgentQueue == {s \in Sessions : urgent[s] /\ at[s] \in Waiting}

(* The counters of the lanes count the sessions in a lane and the urgent   *)
(* sessions in wait_for, through every failure and cancellation: no lane   *)
(* is lost and no session is deferred to one that has gone.                *)
LanesCounted ==
  active = Cardinality(Holders) /\ urgentWaiters = Cardinality(UrgentQueue)

(* No wakeup is lost: while a session sleeps, a session in a lane will     *)
(* notify it, or a notified one is still to run.                           *)
SleeperHasWaker ==
  \A s \in Sessions : at[s] = "asleep" =>
    \E t \in Sessions : at[t] \in InLane \union {"awake", "aborting"}

(* A lane is given to an urgent session, or while no urgent one waits for  *)
(* it: a session that starts or trades is never overtaken by a normal one, *)
(* whatever failures and cancellations have left of the counters.          *)
UrgentFirst ==
  [][\A s \in Sessions :
       at[s] \notin InLane /\ at'[s] \in InLane => urgent[s] \/ UrgentQueue = {}]_vars

(* A session that queues for a lane gets one or is cancelled, unless       *)
(* urgent sessions keep coming or the provider keeps refusing.             *)
QueuedGetsLane ==
  \A s \in Sessions :
    \/ []<>(at[s] \notin {"queueing", "asleep", "awake"})
    \/ []<>(UrgentQueue \ {s} # {})
    \/ []<>penalty

(* Why no wakeup is lost: an urgent session sleeps only while every lane   *)
(* is taken.                                                               *)
UrgentSleepsWhenFull ==
  \A s \in Sessions : at[s] = "asleep" /\ urgent[s] => active = Limit

LaneInvariant ==
  TypeOK /\ LanesCounted /\ SleeperHasWaker /\ UrgentSleepsWhenFull
=============================================================================
