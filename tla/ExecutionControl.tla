-------------------------- MODULE ExecutionControl --------------------------
(***************************************************************************)
(* The execution control plane of one account: the ManagedAccount row, the *)
(* durable Stop sentinel and the browser-owner preference, all in one      *)
(* Postgres database under READ COMMITTED, written by two processes:       *)
(*                                                                         *)
(*   - the API process, whose HTTP handlers (Requests) interleave freely;  *)
(*   - the worker, one asyncio thread. Its status writer is a chain of     *)
(*     synchronous wrappers, each with a transaction of its own, so the    *)
(*     chain interleaves with the API between layers but never with        *)
(*     another worker activity. It may restart at any point, which rolls   *)
(*     its open transaction back.                                          *)
(*                                                                         *)
(* A transaction that takes the row FOR UPDATE is one step, or two steps   *)
(* around rowLock when it also reads the (unlocked) sentinel. One that     *)
(* reads the row without a lock is a read step and a write step, and its   *)
(* UPDATE names only the columns whose value differs from the one read.    *)
(*                                                                         *)
(* Two inputs change at any time for reasons of their own and are chosen   *)
(* where they are read: whether the account owes a recovery debt, which    *)
(* settlements open and clear, and whether the owner's heartbeat is young. *)
(***************************************************************************)
EXTENDS Naturals

CONSTANTS Requests,   \* the HTTP requests that arrive; also the browser epochs
          NoOwner     \* "no owner preference is stored"

ASSUME OwnerAssumption == NoOwner \notin Requests

VARIABLES enabled,     \* ManagedAccount.enabled
          status,      \* ManagedAccount.execution_status
          reason,      \* ManagedAccount.execution_status_reason, by kind
          sentinel,    \* the hard-stop preference is active
          owner,       \* epoch in the direct-execution owner preference
          rowLock,     \* the worker holds the row FOR UPDATE
          req,         \* the state of each HTTP request
          worker,      \* the worker's position in its status writers
          viewed,      \* a worker activity has seen the row runnable
          intent,      \* history: the last thing the user asked for
          restartedBy  \* history: who enabled the row after a Stop landed

row     == <<enabled, status, reason>>
history == <<intent, restartedBy>>
vars == <<enabled, status, reason, sentinel, owner, rowLock,
          req, worker, viewed, intent, restartedBy>>

-----------------------------------------------------------------------------
(* Statuses. "running" stands for the statuses the worker promotes a row   *)
(* to, "reconnecting" for its retry statuses, "token_required" for the     *)
(* automatic failures.                                                     *)

TargetStops == {"take_profit", "stop_loss"}
Statuses == TargetStops \cup {"stopped", "manual_pause", "direct_browser",
                              "starting", "running", "reconnecting",
                              "token_required"}
ManualStatuses == {"stopped", "manual_pause"}
AutomaticTerminal == {"token_required", "stopped", "manual_pause"}

(* Reason texts by what the code looks for in them.                        *)
Reasons == {"userStop", "stoppedManually", "pausedManually", "generic",
            "limit", "automatic", "live"}
ExplicitManual(text)  == text \in {"userStop", "stoppedManually", "pausedManually"}
MentionsStopped(text) == text \in {"stoppedManually", "generic", "limit"}

BrowserOwned(e, s) == e /\ s = "direct_browser"

Lifecycle(e, s) ==
  CASE s = "stopped" -> "stopped"
    [] s # "stopped" /\ (~e \/ s \in TargetStops \cup {"manual_pause", "token_required"})
         -> "paused"
    [] OTHER -> "running"

AllowsNewExecution(e, s) == ~BrowserOwned(e, s) /\ Lifecycle(e, s) = "running"

CurrentRow == [enabled |-> enabled, status |-> status, reason |-> reason]
Columns == {"enabled", "status", "reason"}

(* The user asked for nothing yet (or a limit stopped the session), a      *)
(* Start is in force, a Stop is in force, and the row has been disabled    *)
(* since that Stop.                                                        *)
Intents == {"none", "started", "stopped", "landed"}
fence  == intent \in {"stopped", "landed"}
landed == intent = "landed"

(* What the handlers that read the row without a lock want to write.       *)
StopRow      == [enabled |-> FALSE, status |-> "stopped", reason |-> "stoppedManually"]
PauseRow     == [enabled |-> FALSE, status |-> "manual_pause", reason |-> "pausedManually"]
LifecycleRow == [enabled |-> FALSE, status |-> "stopped", reason |-> "generic"]
RejectedRow  == [enabled |-> FALSE, status |-> "token_required", reason |-> "automatic"]

WorkerPcs == {"idle", "oauth", "lease", "preserve", "preserveCommit", "final",
              "retry", "retryCommit", "global", "guard", "stopGuard", "modeLock",
              "base", "quarantine", "quarantineInner", "quarantineBase",
              "quarantineKeep", "quarantineKeepCommit", "quarantineAfter",
              "force", "forceCommit", "keepCommit", "repairCommit",
              "recoveryRepairCommit", "limitCommit"}
RequestPcs == {"new", "normalize", "handler", "read", "write", "clear",
               "sync", "syncLock", "syncStatus", "done"}
Wanted == {StopRow, PauseRow, LifecycleRow, RejectedRow}
RequestState == [pc : RequestPcs, want : Wanted, dirty : SUBSET Columns, was : BOOLEAN]
WorkerState == [pc : WorkerPcs, requested : {"running", "token_required"},
                was : BOOLEAN, then : {"final", "retry", "force"}]
Writers == {"user", "fenced", "unfenced", "global"}
LockedPcs == {"preserveCommit", "retryCommit", "quarantineKeepCommit", "forceCommit"}

(* A request that has read nothing yet, and a worker between activities.   *)
Request == [pc |-> "new", want |-> LifecycleRow, dirty |-> {}, was |-> FALSE]
Idle    == [pc |-> "idle", requested |-> "running", was |-> FALSE, then |-> "final"]

-----------------------------------------------------------------------------
Init ==
  /\ enabled = FALSE /\ status = "stopped" /\ reason = "generic"
  /\ sentinel = FALSE
  /\ owner = NoOwner
  /\ rowLock = FALSE
  /\ req = [r \in Requests |-> Request]
  /\ worker = Idle /\ viewed = FALSE
  /\ intent = "none" /\ restartedBy = "user"

StartInFlight == \E r \in Requests : req[r].pc = "clear"

(* A Stop's sentinel transaction. A Stop that overtakes the tail of a      *)
(* Start still in flight is not counted as in force: that Start's own      *)
(* sentinel deletion comes last.                                           *)
set_direct_hard_stop ==
  /\ sentinel' = TRUE
  /\ intent' = IF fence THEN intent ELSE IF StartInFlight THEN "none" ELSE "stopped"
  /\ UNCHANGED restartedBy

(* An automatic writer enables the row: a layer that reads the sentinel    *)
(* under the row lock ("fenced"), the policy layer ("global") or another.  *)
Restarts(writer) ==
  /\ restartedBy' = IF landed THEN writer ELSE restartedBy
  /\ UNCHANGED intent

(* The account-mode lock's row, before it lets a promotion through.        *)
ModeLock ==
  /\ enabled' = (enabled /\ Lifecycle(enabled, status) # "stopped")
  /\ reason' = IF BrowserOwned(enabled, status) THEN "live" ELSE reason
  /\ UNCHANGED status

(* A request that moves on without a snapshot of the row drops the old one.*)
Goto(r, pc) == req' = [req EXCEPT ![r] = [Request EXCEPT !.pc = pc]]

-----------------------------------------------------------------------------
(* Stop, Pause and Start handlers of the API.                              *)

(* A Stop's row transaction commits and leaves the row disabled.           *)
StopLands(disabled) ==
  intent' = IF fence /\ disabled THEN "landed" ELSE intent

DirectStop(r) ==
  /\ req[r].pc = "new"
  /\ set_direct_hard_stop
  /\ Goto(r, "normalize")
  /\ UNCHANGED <<row, owner, rowLock, worker, viewed>>

(* mutant: deletes every direct_execution preference, not only the owner   *)
MutNormalizeDeletesSentinel(r) ==
  /\ req[r].pc = "normalize" /\ ~rowLock
  /\ enabled' = FALSE /\ status' = "stopped" /\ reason' = "userStop"
  /\ owner' = NoOwner /\ sentinel' = FALSE
  /\ StopLands(TRUE)
  /\ Goto(r, "done")
  /\ UNCHANGED <<rowLock, worker, viewed, restartedBy>>

(* The background task of DirectStop. Any exception leaves the row alone.  *)
NormalizeStoppedAccount(r) ==
  /\ req[r].pc = "normalize"
  /\ \/ /\ ~rowLock
        /\ enabled' = FALSE /\ status' = "stopped" /\ reason' = "userStop"
        /\ owner' = NoOwner
        /\ StopLands(TRUE)
     \/ UNCHANGED <<row, owner, intent>>
  /\ Goto(r, "done")
  /\ UNCHANGED <<sentinel, rowLock, worker, viewed, restartedBy>>

(* /me/stop-trading and /me/pause-trading: the middleware writes the       *)
(* sentinel first and swallows a failure of that write.                    *)
StopMiddleware(r) ==
  /\ req[r].pc = "new"
  /\ \E wanted \in {StopRow, PauseRow} :
       req' = [req EXCEPT ![r].pc = "handler", ![r].want = wanted]
  /\ \/ set_direct_hard_stop
     \/ UNCHANGED <<sentinel, history>>
  /\ UNCHANGED <<row, owner, rowLock, worker, viewed>>

(* The handler writes it again in a transaction of its own; a failure of   *)
(* this one is a 500 and the row is never touched.                         *)
StopSentinel(r) ==
  /\ req[r].pc = "handler"
  /\ \/ set_direct_hard_stop /\ req' = [req EXCEPT ![r].pc = "read"]
     \/ UNCHANGED <<sentinel, history>> /\ Goto(r, "done")
  /\ UNCHANGED <<row, owner, rowLock, worker, viewed>>

(* The SELECT of a transaction that does not lock the row fixes which      *)
(* columns its UPDATE will set.                                            *)
Dirty(want) == {c \in Columns : want[c] # CurrentRow[c]}

ReadRow(r) ==
  /\ req[r].pc = "read"
  /\ req' = [req EXCEPT ![r].pc = "write", ![r].dirty = Dirty(req[r].want)]
  /\ UNCHANGED <<row, sentinel, owner, rowLock, worker, viewed, history>>

(* The UPDATE waits for a row lock.                                        *)
WriteRow(r) ==
  /\ req[r].pc = "write" /\ ~rowLock
  /\ LET want == req[r].want
         Set(c) == IF c \in req[r].dirty THEN want[c] ELSE CurrentRow[c]
     IN /\ enabled' = Set("enabled") /\ status' = Set("status") /\ reason' = Set("reason")
        /\ StopLands(want \in {StopRow, PauseRow} /\ ~enabled')
  /\ Goto(r, "done")
  /\ UNCHANGED <<sentinel, owner, rowLock, worker, viewed, restartedBy>>

UserStart(s) ==
  /\ enabled' = TRUE /\ status' = s /\ reason' = "live"
  /\ intent' = "started" /\ restartedBy' = "user"

(* /me/direct-execution/arm: one locked transaction.                       *)
arm_browser_direct(r) ==
  /\ req[r].pc = "new" /\ ~rowLock
  /\ UserStart("direct_browser")
  /\ sentinel' = FALSE
  /\ owner' = r
  /\ Goto(r, "clear")
  /\ UNCHANGED <<rowLock, worker, viewed>>

(* /me/resume-trading and /me/auto-trade: the owner preference of an       *)
(* earlier browser session survives.                                       *)
start_with_session_limits(r) ==
  /\ req[r].pc = "new" /\ ~rowLock
  /\ UserStart("starting")
  /\ Goto(r, "clear")
  /\ UNCHANGED <<sentinel, owner, rowLock, worker, viewed>>

(* The middleware clears the sentinel after the Start handler returned a   *)
(* 2xx and swallows a failure of that write.                               *)
ClearStopSentinel(r) ==
  /\ req[r].pc = "clear"
  /\ sentinel' \in {sentinel, FALSE}
  /\ Goto(r, "done")
  /\ UNCHANGED <<row, owner, rowLock, worker, viewed, history>>

(* GET /me/trading-lifecycle normalises a disabled row it has read without *)
(* a lock.                                                                 *)
exact_session_lifecycle(r) ==
  /\ req[r].pc = "new"
  /\ ~enabled /\ status \notin TargetStops \cup {"manual_pause"}
  /\ status # "stopped" \/ ~MentionsStopped(reason)
  /\ req' = [req EXCEPT ![r].pc = "write", ![r].dirty = Dirty(LifecycleRow)]
  /\ UNCHANGED <<row, sentinel, owner, rowLock, worker, viewed, history>>

(* Token synchronisation in the API process quarantines through the        *)
(* repository method without the worker's wrappers.                        *)
RejectCurrentAccount(r) ==
  /\ req[r].pc = "new"
  /\ req' = [req EXCEPT ![r].pc = "read", ![r].want = RejectedRow]
  /\ UNCHANGED <<row, sentinel, owner, rowLock, worker, viewed, history>>

(* Synchronisation of a verified token writes back the enabled flag of the *)
(* account list it started from ...                                        *)
ListManagedAccounts(r) ==
  /\ req[r].pc = "new"
  /\ req' = [req EXCEPT ![r].pc = "sync", ![r].was = enabled]
  /\ UNCHANGED <<row, sentinel, owner, rowLock, worker, viewed, history>>

SyncCredential(r) ==
  /\ req[r].pc = "sync" /\ ~rowLock
  /\ enabled' = req[r].was
  /\ req' = [req EXCEPT ![r].pc = IF req[r].was THEN "syncLock" ELSE "syncStatus"]
  /\ IF req[r].was THEN Restarts("unfenced") ELSE UNCHANGED history
  /\ UNCHANGED <<status, reason, sentinel, owner, rowLock, worker, viewed>>

(* ... and then a status that depends on it: "connecting" through the      *)
(* account-mode lock, or "disabled" (here "stopped", for no user's reason).*)
SyncThroughModeLock(r) ==
  /\ req[r].pc = "syncLock" /\ ~rowLock
  /\ ModeLock
  /\ IF AllowsNewExecution(enabled, status)
       THEN req' = [req EXCEPT ![r].pc = "syncStatus"] ELSE Goto(r, "done")
  /\ UNCHANGED <<sentinel, owner, rowLock, worker, viewed, history>>

SyncStatus(r) ==
  /\ req[r].pc = "syncStatus" /\ ~rowLock
  /\ status' = (IF req[r].was THEN "running" ELSE "stopped") /\ reason' = "automatic"
  /\ Goto(r, "done")
  /\ UNCHANGED <<enabled, sentinel, owner, rowLock, worker, viewed, history>>

-----------------------------------------------------------------------------
(* The worker. Its activities see a runnable account, await (connecting,   *)
(* proposing, decrypting a credential) and then write a status on that     *)
(* view. Nothing bounds its age, so only a restart resets viewed.          *)

At(pc) == worker.pc = pc
To(pc) == worker' = IF pc = "idle" THEN Idle ELSE [worker EXCEPT !.pc = pc]
Api    == <<req, sentinel, owner, viewed>>
ApiRow == <<req, sentinel, owner, row>>

WorkerRestarts ==
  /\ worker' = Idle /\ viewed' = FALSE /\ rowLock' = FALSE
  /\ UNCHANGED <<ApiRow, history>>

Observe ==
  /\ At("idle") /\ AllowsNewExecution(enabled, status)
  /\ viewed' = TRUE
  /\ UNCHANGED <<ApiRow, worker, rowLock, history>>

RequestStatus ==
  /\ At("idle") /\ viewed
  /\ \E s \in {"running", "token_required"} :
       worker' = [worker EXCEPT !.pc = "lease", !.requested = s]
  /\ UNCHANGED <<row, Api, rowLock, history>>

RequestQuarantine ==
  /\ At("idle") /\ viewed /\ To("quarantine")
  /\ UNCHANGED <<row, Api, rowLock, history>>

MutTargetStopsOnly == status \in TargetStops   \* mutant: forgets the sentinel
MutSentinelOnly    == sentinel                  \* mutant: forgets TP and SL
TerminalAllowed == sentinel \/ status \in TargetStops

(* Layer 1, _lease_aware_set_status: its own read of sentinel and row.     *)
LeaseAwareSetStatus ==
  /\ At("lease")
  /\ worker' = [worker EXCEPT !.pc = IF TerminalAllowed THEN "final" ELSE "preserve",
                              !.then = "final"]
  /\ UNCHANGED <<row, Api, rowLock, history>>

(* mutant: a missing epoch counts as fresh                                 *)
MutNoEpochNeeded(young) == BrowserOwned(enabled, status) \/ young

FreshOwnerHeartbeat(young) ==
  BrowserOwned(enabled, status) \/ (owner # NoOwner /\ young)

(* A locked transaction that decides to write keeps the row lock until its *)
(* commit; one that returns early releases it at once.                     *)
MutLockLeaks(condition, locked, skip) ==   \* mutant: early return keeps the lock
  /\ rowLock' = TRUE
  /\ To(IF condition THEN locked ELSE skip)
  /\ UNCHANGED <<row, Api, history>>

LockOrSkip(condition, locked, skip) ==
  /\ rowLock' = condition
  /\ To(IF condition THEN locked ELSE skip)
  /\ UNCHANGED <<row, Api, history>>

KeepEnabled(s, writer) ==
  /\ enabled' = TRUE /\ status' = s /\ reason' = "automatic"
  /\ Restarts(writer)
  /\ UNCHANGED Api

PreserveBrowserOwner ==
  /\ At("preserve")
  /\ \E young \in BOOLEAN :
       LockOrSkip(~TerminalAllowed /\ FreshOwnerHeartbeat(young), "preserveCommit", worker.then)

PreserveBrowserOwnerCommit ==
  /\ At("preserveCommit")
  /\ KeepEnabled("direct_browser", "fenced")
  /\ rowLock' = FALSE /\ To("idle")

(* Layer 2, _final_set_status.                                             *)
FinalSetStatus ==
  /\ At("final")
  /\ \/ /\ worker.requested = "running"
        /\ To("guard")
     \/ /\ worker.requested # "running" /\ TerminalAllowed
        /\ To("global")
     \/ /\ worker.requested # "running" /\ ~TerminalAllowed
        /\ worker' = [worker EXCEPT !.pc = "preserve", !.then = "retry"]
  /\ UNCHANGED <<row, Api, rowLock, history>>

ForceRetryState ==
  /\ At("retry")
  /\ LockOrSkip(~TerminalAllowed /\ enabled, "retryCommit", "global")

ForceRetryStateCommit ==
  /\ At("retryCommit")
  /\ KeepEnabled("reconnecting", "fenced")
  /\ rowLock' = FALSE /\ To("idle")

(* Layer 3, _status_without_automatic_stop, for an automatic failure: a    *)
(* locked transaction that reads the recovery debt and not the sentinel.   *)
StatusWithoutAutomaticStop ==
  /\ At("global")
  /\ \/ /\ ~enabled
        /\ reason' = "automatic"
        /\ UNCHANGED <<enabled, status, Api, history>>
     \/ KeepEnabled("reconnecting", "global")   \* enabled, or in debt
  /\ To("idle")
  /\ UNCHANGED rowLock

(* Layer 4, browser_owned_status_guard, only ever reached by a promotion.  *)
BrowserOwnedStatusGuard ==
  /\ At("guard")
  /\ To(IF BrowserOwned(enabled, status) THEN "idle" ELSE "stopGuard")
  /\ UNCHANGED <<row, Api, rowLock, history>>

(* Layer 6, guarded_set_status of the manual Stop guard.                   *)
GuardedSetStatus ==
  /\ At("stopGuard")
  /\ IF enabled \/ status \in TargetStops \cup {"manual_pause"}
       THEN UNCHANGED row
       ELSE status' = "stopped" /\ reason' = "generic" /\ UNCHANGED enabled
  /\ To(IF enabled THEN "modeLock" ELSE "idle")
  /\ UNCHANGED <<Api, rowLock, history>>

(* Layer 7, the account-mode lock.                                         *)
ManualLockingSetStatus ==
  /\ At("modeLock")
  /\ ModeLock
  /\ To(IF AllowsNewExecution(enabled, status) THEN "base" ELSE "idle")
  /\ UNCHANGED <<Api, rowLock, history>>

(* Layer 8, the repository's write, in yet another transaction.            *)
StatusWithAutomaticPause ==
  /\ At("base")
  /\ status' = worker.requested /\ reason' = "automatic"
  /\ To("idle")
  /\ UNCHANGED <<enabled, Api, rowLock, history>>

-----------------------------------------------------------------------------
(* Quarantine of an account the worker cannot use.                         *)

FinalQuarantine ==
  /\ At("quarantine")
  /\ worker' = [worker EXCEPT !.pc = "quarantineInner", !.was = enabled]
  /\ UNCHANGED <<row, Api, rowLock, history>>

QuarantineAsRetry ==
  /\ At("quarantineInner")
  /\ To(IF enabled THEN "quarantineKeep" ELSE "quarantineBase")
  /\ UNCHANGED <<row, Api, rowLock, history>>

QuarantineManagedAccount ==
  /\ At("quarantineBase")
  /\ enabled' = FALSE /\ status' = "token_required" /\ reason' = "automatic"
  /\ To("quarantineAfter")
  /\ UNCHANGED <<Api, rowLock, history>>

PreserveEnabledRetry ==
  /\ At("quarantineKeep")
  /\ LockOrSkip(~TerminalAllowed /\ ~(status \in ManualStatuses /\ ExplicitManual(reason)),
                "quarantineKeepCommit", "quarantineAfter")

PreserveEnabledRetryCommit ==
  /\ At("quarantineKeepCommit")
  /\ KeepEnabled("reconnecting", "fenced")
  /\ rowLock' = FALSE /\ To("quarantineAfter")

QuarantineAfter ==
  /\ At("quarantineAfter")
  /\ IF worker.was /\ ~TerminalAllowed
       THEN worker' = [worker EXCEPT !.pc = "preserve", !.then = "force"]
       ELSE To("idle")
  /\ UNCHANGED <<row, Api, rowLock, history>>

(* _force_retry_state with require_enabled = False.                        *)
ForceRetryQuarantined ==
  /\ At("force")
  /\ LockOrSkip(~TerminalAllowed, "forceCommit", "idle")

ForceRetryQuarantinedCommit ==
  /\ At("forceCommit")
  /\ KeepEnabled("reconnecting", "fenced")
  /\ rowLock' = FALSE /\ To("idle")

-----------------------------------------------------------------------------
(* The worker's other writers of the row.                                  *)

(* _keep_account_running: the sentinel is read in one transaction ...      *)
KeepAccountRunning ==
  /\ At("idle") /\ viewed
  /\ To(IF sentinel THEN "idle" ELSE "keepCommit")
  /\ UNCHANGED <<row, Api, rowLock, history>>

(* ... and the locked write is the next one.                               *)
KeepAccountRunningCommit ==
  /\ At("keepCommit")
  /\ IF status \in TargetStops \/ (status \in ManualStatuses /\ ExplicitManual(reason))
       THEN UNCHANGED <<row, Api, history>>
       ELSE KeepEnabled("reconnecting", "unfenced")
  /\ To("idle")
  /\ UNCHANGED rowLock

(* The three-second repair scan, also run once at boot, and the boot       *)
(* repair of accounts in recovery. Both read without a lock.               *)
RepairScan(commit) ==
  /\ At("idle") /\ ~sentinel
  /\ worker' = [worker EXCEPT !.pc = commit, !.was = enabled]
  /\ UNCHANGED <<row, Api, rowLock, history>>

RepairDirectAutomaticStops ==
  /\ ~enabled /\ status = "token_required"
  /\ RepairScan("repairCommit")

(* (A status reason of the worker may name a recovery stake.)              *)
RepairExistingRecoveryAccounts ==
  /\ ~viewed
  /\ status \in AutomaticTerminal \/ (status \notin TargetStops /\ reason = "automatic")
  /\ ~(status \in ManualStatuses /\ ExplicitManual(reason))
  /\ RepairScan("recoveryRepairCommit")

RepairCommit ==
  /\ worker.pc \in {"repairCommit", "recoveryRepairCommit"}
  /\ enabled' = (enabled \/ ~worker.was)
  /\ status' = IF At("repairCommit") THEN "reconnecting" ELSE "running"
  /\ reason' = "automatic"
  /\ IF worker.was THEN UNCHANGED history ELSE Restarts("unfenced")
  /\ To("idle")
  /\ UNCHANGED <<Api, rowLock>>

(* At boot, the worker lists the runnable rows, refreshes an expiring      *)
(* OAuth token over HTTP and enables the row it stores it in, whatever has *)
(* happened to it since; a failed refresh is a status write.               *)
RefreshEnabledOauthRows ==
  /\ At("idle") /\ ~viewed /\ AllowsNewExecution(enabled, status)
  /\ To("oauth")
  /\ UNCHANGED <<row, Api, rowLock, history>>

OauthRefreshed ==
  /\ At("oauth") /\ To("idle")
  /\ enabled' = TRUE
  /\ IF enabled THEN UNCHANGED history ELSE Restarts("unfenced")
  /\ UNCHANGED <<status, reason, Api, rowLock>>

OauthRefreshFails ==
  /\ At("oauth")
  /\ \E s \in {"running", "token_required"} :
       worker' = [worker EXCEPT !.pc = "lease", !.requested = s]
  /\ UNCHANGED <<row, Api, rowLock, history>>

(* _enforce_session_risk_limit: the session P/L and its limits are read in *)
(* one transaction, the row is stopped in the next.                        *)
EnforceSessionRiskLimit ==
  /\ At("idle") /\ To("limitCommit")
  /\ UNCHANGED <<row, Api, rowLock, history>>

StopForRiskLimit ==
  /\ At("limitCommit")
  /\ enabled' = FALSE /\ status' \in TargetStops /\ reason' = "limit"
  /\ intent' = IF intent = "started" THEN "none" ELSE intent
  /\ To("idle")
  /\ UNCHANGED <<Api, rowLock, restartedBy>>

-----------------------------------------------------------------------------
Handler(r) ==
  \/ DirectStop(r) \/ NormalizeStoppedAccount(r)
  \/ StopMiddleware(r) \/ StopSentinel(r) \/ ReadRow(r) \/ WriteRow(r)
  \/ arm_browser_direct(r) \/ start_with_session_limits(r) \/ ClearStopSentinel(r)
  \/ exact_session_lifecycle(r) \/ RejectCurrentAccount(r)
  \/ ListManagedAccounts(r) \/ SyncCredential(r)
  \/ SyncThroughModeLock(r) \/ SyncStatus(r)

StatusWriter ==
  \/ Observe \/ RequestStatus
  \/ LeaseAwareSetStatus \/ PreserveBrowserOwner \/ PreserveBrowserOwnerCommit
  \/ FinalSetStatus \/ ForceRetryState \/ ForceRetryStateCommit
  \/ StatusWithoutAutomaticStop \/ BrowserOwnedStatusGuard \/ GuardedSetStatus
  \/ ManualLockingSetStatus \/ StatusWithAutomaticPause

Quarantine ==
  \/ RequestQuarantine \/ FinalQuarantine \/ QuarantineAsRetry
  \/ QuarantineManagedAccount \/ PreserveEnabledRetry \/ PreserveEnabledRetryCommit
  \/ QuarantineAfter \/ ForceRetryQuarantined \/ ForceRetryQuarantinedCommit

OtherWriter ==
  \/ KeepAccountRunning \/ KeepAccountRunningCommit
  \/ RepairDirectAutomaticStops \/ RepairExistingRecoveryAccounts \/ RepairCommit
  \/ RefreshEnabledOauthRows \/ OauthRefreshed \/ OauthRefreshFails
  \/ EnforceSessionRiskLimit \/ StopForRiskLimit

Next ==
  \/ \E r \in Requests : Handler(r)
  \/ StatusWriter \/ Quarantine \/ OtherWriter
  \/ WorkerRestarts

Spec == Init /\ [][Next]_vars

-----------------------------------------------------------------------------
(* Every variable keeps its type, and the row lock is held exactly by a    *)
(* worker between the check and the commit of a locked transaction.        *)
TypeOK ==
  /\ enabled \in BOOLEAN /\ status \in Statuses /\ reason \in Reasons
  /\ sentinel \in BOOLEAN
  /\ owner \in Requests \cup {NoOwner}
  /\ rowLock \in BOOLEAN
  /\ req \in [Requests -> RequestState]
  /\ worker \in WorkerState /\ viewed \in BOOLEAN
  /\ intent \in Intents
  /\ restartedBy \in Writers
  /\ rowLock <=> worker.pc \in LockedPcs

(* A user Stop that no Start has followed keeps its sentinel: nothing the  *)
(* worker, a lifecycle poll or a failed middleware write does removes it.  *)
StopFenceDurable == fence => sentinel

(* A row owned by the browser has an owner preference: no interleaving of  *)
(* Stop's deletion of it with an arm or with the worker's lease            *)
(* preservation leaves direct_browser without an epoch.                    *)
OwnerKnown == BrowserOwned(enabled, status) => owner # NoOwner

(* Once a Stop has disabled the row, the lease preservation and the retry  *)
(* layers of the worker, which re-read the sentinel under the row lock,    *)
(* never enable it again, and no handler but a Start or a token            *)
(* synchronisation does; what can are the writers that read no sentinel,   *)
(* or read it in an earlier statement than their write.                    *)
OnlyUnfencedWritersRestart ==
  landed /\ enabled => restartedBy \in {"global", "unfenced"}

(* Why the properties above are preserved: a Start in flight keeps a Stop  *)
(* from counting as in force; no locked writer is past its sentinel check  *)
(* once a Stop has landed, and none holds a target-stop row; the lease     *)
(* preservation commits only with an owner, and an owner is deleted with   *)
(* the status that needs it; no repair or token refresh is under way on a  *)
(* row that has reached a target stop.                                     *)
ControlInvariant ==
  /\ TypeOK
  /\ StopFenceDurable
  /\ OwnerKnown
  /\ status = "direct_browser" => owner # NoOwner
  /\ OnlyUnfencedWritersRestart
  /\ fence => ~StartInFlight
  /\ landed => ~rowLock
  /\ rowLock => status \notin TargetStops
  /\ At("preserveCommit") => owner # NoOwner
  /\ worker.pc \in {"repairCommit", "recoveryRepairCommit", "oauth"} => status \notin TargetStops

(* A step that enables a row a take profit or stop loss has disabled is a  *)
(* user's Start, the debt branch of _status_without_automatic_stop, or the *)
(* stale flag of a token synchronisation, which leaves the limit's status  *)
(* in place and with it the account paused.                                *)
LimitStopHolds ==
  [][~enabled /\ status \in TargetStops /\ enabled'
       => \/ intent' = "started"
          \/ At("global")
          \/ ~AllowsNewExecution(enabled', status')]_vars

(* The worker's status writer never enables a row a user's Stop disabled.  *)
StatusWriterHonoursStop == landed /\ enabled => restartedBy # "global"

(* A started account stays enabled until Stop, take profit or stop loss;   *)
(* an automatic failure the repair scan will undo is not a stop.           *)
StartSticks == intent = "started" => enabled \/ status = "token_required"
=============================================================================
