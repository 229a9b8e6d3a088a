# Legacy Model: specifications of the trading worker and its control plane

These TLA+ modules describe the stateful core of the VPS application: which
writer may change an account's execution row, how one BUY becomes one settled
contract, how a scheduled session is started exactly once, how a payment becomes
one week of access, how losses become a debt and its recovery parts, how the
virtual hook keeps real money out, and how sessions and REST calls share the
provider. They are written from the Python source under `src/`, are
model-checked with TLC on small instances, and their safety properties are
proved with TLAPS for any number of requests, signals, schedules, payments,
sessions and callers.

    tlc -workers 2 -config MCExecutionControl.cfg MCExecutionControl.tla
    tlapm ExecutionControl_proofs.tla

`PROJECT.json` lists the components, the runs, one mutant per checked property,
the source lines every definition stands for, the hazards and the theorems.

## 1. The system and its parts

One VPS runs an API container (FastAPI, one process, handlers of which the
synchronous ones run in a thread pool), a worker container (one asyncio loop,
`python -m app.custom_strategy_worker`) and PostgreSQL. API and worker share
nothing but the database, which runs at READ COMMITTED. The trading provider
(Deriv) is reached over one authenticated WebSocket per account. Most behaviour
is installed at import time by "authority" modules that wrap or replace methods
of an older class, so the code in force for an operation is the outermost
wrapper plus whatever that wrapper still calls; each definition maps the code
that is in force.

| Component | State | Operations | Interacts with | What is hard | What makes it correct |
|---|---|---|---|---|---|
| Execution control plane | `ManagedAccount.enabled/execution_status/execution_status_reason`, the hard-stop preference, the owner-heartbeat preference | Stop, Pause, Start, arm, lifecycle poll, token sync; the worker's layered status writer, quarantine, repairs, limit stops, boot token refresh | written by API and worker through the database; read by pipeline and scheduler | eight writer layers with a transaction each; handlers that read without a lock; middleware that swallows errors | a Stop stays a Stop; a limit stays a limit; ownership is never half written |
| Purchase pipeline | in-flight set, `pending_contracts`, ambiguity set, Trade rows, sessions | schedule, propose, BUY, register, time out, reconcile, settle; refresh, rotate, reconnect | provider; control plane's row; recovery ledger | awaits between check and BUY; answers that never come; memory lost at restart or rotation | at most one purchase outstanding; no blind retry; the ledger tells the truth; every lock is released |
| Automation scheduler | `AutomationSchedule` rows, claim lease, account row, hard stop | create, cancel, claim, start, replace, reconcile, summarise | starts and stops sessions in the control plane; reads Trade rows | a claim and its outcome in different transactions; restarts; overlap policies | exactly one start; final outcomes; claims resolved; nobody starved; complete results |
| Premium payments | payment attempts, webhook events, access periods | create attempt, STK push, webhook, activate, renew, sweep | payment provider; gates the control plane | webhook before the response; redelivery; two transactions per activation | weeks for paid attempts only; no acknowledged payment lost; no account runs on unpaid |
| Recovery ledger, stake plan | `AccountRiskState`, split preferences | plan a stake, record an outcome, Start, roll over a day | called by the pipeline | a stack of wrappers with a transaction each | no debt forgiven before its last part; equal parts; the hook's threshold is kept |
| Virtual hook | VirtualTrade rows, risk mode, the worker's due table and barriers | observe, settle, void, lock, unlock | gates the pipeline's real BUYs | memory rebuilt from rows; lost ticks; handlers that await between settling and scheduling | no real money under an observation; the hook is served before recovery; observations end |
| Provider transport | lanes and penalty; in-flight requests, cache, circuit | queue, connect, cancel; coalesce, retry, open and close the circuit | used by every session of the pipeline | cancellation at any await; waiters of a shared request; wakeups | no lane or wakeup lost; one request shared; every call ends |
| Browser-direct execution | receipts and checkpoint in preferences | arm, heartbeat, receipt, checkpoint | control plane | receipts without a client in the repository | |
| Strategy condition engine | none (pure) | evaluate conditions on ticks | pipeline | windows at the start of history | equals its definition |
| OAuth and credentials | tokens, expiry | login, refresh, sync | control plane, pipeline (session key) | I/O between read and write | a refresh does not restart a stopped account |
| Guardian agent | its own SQLite store | collect, propose, apply patches | none of the above | | |
| Dashboard, realtime, Telegram | none of its own | present | reads all | | |
| Legacy RF, AIDR, bulk, cohort runtimes | | | not imported by the worker's entry point | | |

The first seven are modelled here (each `partly`: section 13 says what is left
out); the order of the others is in section 12.

## 2. ExecutionControl: who may enable an account

`ExecutionControl.tla` models one account's row, its sentinel and its owner
preference. `Requests` is the set of HTTP requests that arrive; each takes any
of the handlers once, in steps that end where the code commits a transaction.

* `row` is `enabled`, `status`, `reason`. Reasons and statuses are grouped by what
  the code tests for: `MentionsStopped` and `ExplicitManual` are the substring
  tests of the lifecycle poll and of the repairs.
* A handler that locks the row (`arm_browser_direct`, `start_with_session_limits`,
  `NormalizeStoppedAccount`) is one step, blocked while the worker holds the row.
  A handler that reads without a lock is `ReadRow` then `WriteRow`: the ORM's
  UPDATE sets only the columns that differed when it was read (`dirty`).
* The worker's status writer is the chain `LeaseAwareSetStatus` (outermost),
  `PreserveBrowserOwner`, `FinalSetStatus`, `ForceRetryState`,
  `StatusWithoutAutomaticStop`, `BrowserOwnedStatusGuard`, `GuardedSetStatus`,
  `ManualLockingSetStatus`, `StatusWithAutomaticPause`, in the order in which the
  authorities are installed. Two layers read the sentinel while they hold the row
  lock, and so are a check step and a commit step around `rowLock`: the sentinel
  is not locked and may be written in between.
* `viewed` says that some activity of the worker has seen the account runnable
  and may still act on that view. Between its view and its write lie awaits of
  unbounded length, so only `WorkerRestarts` resets it.
* Two facts that others change at any time are chosen where they are read:
  whether the owner's heartbeat is young, and whether the account owes a debt.

History variables: `intent` (the last thing the user asked for, and whether the
Stop has reached the row) and `restartedBy` (the kind of writer that enabled the
row afterwards).

| Run | Question | Answer |
|---|---|---|
| `control` | types, `StopFenceDurable`, `OwnerKnown`, `OnlyUnfencedWritersRestart`, `LimitStopHolds` | hold: 3 requests, about 2.7 million states |
| `control_stop_undone` | may the status writer undo a Stop? `tp_sl_manual_only_authority.py:145` says it never starts a row that was already disabled | violated in 10 steps: the debt branch of `_status_without_automatic_stop` reads no sentinel |

Three requests suffice for a Stop, a Start and a third party (a second Stop, a
lifecycle poll, a token sync); the requests are symmetric and the symmetry is
used, as every property checked is a safety property. Nothing else is bounded.
There is no fairness: the module states safety only.

## 3. PurchasePipeline: one outstanding purchase

`PurchasePipeline.tla` models one account's attempts in the worker, where a step
runs from one await to the next. `task` is where the asyncio task of a signal is;
`inflight`, `watched` (`pending_contracts`), `ambiguous` and `reconciling` are the
worker's memory; `trade` is the durable row and `provider` what the provider did.
The provider settles, refuses or never sees a BUY as it likes, and an answer may
come, come as an error, or never come.

* `GuardedExecute`, `Requote` and `SendBuy` are separate because an await lies
  between each check and the BUY. `SendBuy` has no lifecycle conjunct:
  `buy_with_reconnect_not_stop` replaced the method that had one.
* `TimedOut` takes the ambiguity lock; `ReconcileFinds` adopts a contract only
  when it is the single candidate of one query (`near` is the set of same-stake
  purchases within 45 s, any subset that holds the attempt); `ReconcileGivesUp`
  is the end of the 75 s window.
* `DropAccount` cancels tasks wherever they are; `RotateCredential` replaces the
  session and keeps the old one to settle; `CycleStarts` loads open trades for
  the accounts valid at that moment; `Restart` forgets all memory.

| Run | Question | Answer |
|---|---|---|
| `purchase` | `PurchaseExclusive`, `OneLateBuy`, `LoadedTradesWatched`, `BuysOverlapOnlyRetired`, types, and under fairness `LockReleased` and the refinement `KeepsJournal` | hold: 2 signals, 35,099 states, no symmetry |
| `purchase_uncertain_forgotten` | is an uncertain BUY reconciled before the next (`src/README.md:63`)? | violated after `ReconcileGivesUp` |

Two signals give an uncertain or open purchase and an attempt that must not
overlap it, or a second same-stake purchase in the provider's history; the safety
properties are proved for any number of them (section 10), and the liveness
properties concern one attempt and one lock. The violation run checks safety only
and uses three signals with their symmetry. Each signal is used once; nothing else
is bounded.

Fairness (`FairSpec`): weak fairness of an attempt, because every await of it has
a deadline of 8 to 15 seconds; strong fairness of the
cycle start with this account, its admission, its connection and the
reconciliation, because each sits in a loop that retries for ever while its
guard can be switched off by a disconnect or a restart between two tries. The
provider, the user and the network get none.

`PurchaseJournal.tla` is what the pipeline promises, without tasks, sessions or
locks: signals are attempted one at a time and each at most once, a contract is
bought only under its own attempt, what is booked has happened and is booked
once, and every attempt ends. `Journal == INSTANCE PurchaseJournal WITH ...` in
PurchasePipeline maps the task of a signal to its attempt, the provider's side
to `contract` and the Trade row to `booked`; `KeepsJournal` is `Journal!FairSpec`,
fairness included. It replaces a separate property that attempts end. Overlap of
contracts is not promised: the journal allows what `BuysOverlapOnlyRetired` bounds.
`LedgerTruthful`, a part of the inductive invariant, is what the journal needs of
the ledger, and has no place of its own in the run.

`OneLateBuy` bounds what `StopBarsBuy` (section 11) shows to be broken: the history
variable `lateBuys` counts the BUYs sent since the row was stopped, and a Start
resets it. An attempt past its lifecycle check still buys; no other follows.

## 4. AutomationScheduler: exactly one start

`AutomationScheduler.tla` models the scheduler thread of the API process
(`thread.pc` walks one cycle: reconcile, attach results, claim, clear the hard
stop, apply, mark) with one step per transaction, next to the trader's requests,
the worker's writes to the account row, and the life of one contract per account.
Schedules are numbered in the order of their time, `due` counts those whose time
has come, `expired` those whose claim lease has run out. `FOR UPDATE SKIP LOCKED`
needs no lock variable: a claim that skips a row being cancelled is the claim that
comes after the cancellation. `marker` is the schedule that the row's reason
text names, which any other status write erases. The premium gate of the start
(`PremiumBlocks`) may refuse any claim; in the default configuration, which is
free of charge, it never does.

| Run | Question | Answer |
|---|---|---|
| `scheduler` | `StartedOnce`, `ClaimResolved`, `RunningEnds`, the refinement `KeepsJobs`, types | hold: 1 account, 2 schedules, 1 restart, 402,063 states |
| `scheduler_starved` | is a due schedule of a free account admitted (`automation_scheduler_v2_authority.py:10`)? | violated: a waiting schedule of another, busy account is the head of every claim |

Bounds: two schedules on one account are enough for the second to find the first
waiting, claimed or running and to wait, skip or replace; two accounts only where
they should not concern each other. `MaxStarts` 1 lets a cycle claim once, so the
next claim meets a new reconciliation; `MaxRestarts` bounds interrupted cycles.
Fairness: the thread's loop runs every quarter of a second
(`WF_vars(Scheduler)`), and a claim lease ends after 45 s (`WF_vars(ClaimExpires)`).

`ScheduledJobs.tla` is what the scheduler promises, without accounts, threads,
leases or clocks: a job is open until it is claimed; a claim begins it, gives it
back or drops it; a job begins once, one that was dropped never does, one that has
begun only ends, and its result is published once. `Jobs == INSTANCE ScheduledJobs
WITH ...` maps `scheduled` and `waiting` to open and `starting` to claimed; one step
may begin a job and end the ones it replaces. `KeepsJobs` is `Jobs!Spec`; it implies
that outcomes are final.

A contract belongs to the sessions into which its purchase time falls (`window`),
and to one that ended up to two seconds before. The model leaves times out, so it
lets a contract belong to any of the account's ended sessions (`EndedOn`), and says
only whether a result is attached (`reported`). An open contract delays the
result, an unanswered BUY does not: `ResultComplete` in section 11.

`ClaimHasNoSession`, which is proved (section 10), shows that the branch of
`_reconcile_running_schedules` which promotes a `starting` schedule whose own
session is found enabled cannot be reached: session and `running` are written in
one transaction.

## 5. PremiumPayments: one payment, one week

`PremiumPayments.tla` models one customer with one linked account in paid mode,
that is with `PUBLIC_TESTING_FREE_ACCESS=false`; the default bypasses every gate
of it. One step is one transaction or one call of the provider.

* `request` is where the STK handler of an attempt is: access read (`StkRequest`),
  attempt created or reused under the customer's lock (`CreateAttempt`,
  `ReuseAttempt`), the provider called (`InitiateStkPush`), its answer stored
  (`SetAttemptProviderResult`). Handlers run in threads, so two of them interleave.
* `hook` is the webhook in progress. The handler is a coroutine that awaits
  nothing after the body is read, so webhooks come one after the other, and
  interleave with the threads. Its steps are the transactions of `lipana_webhook`
  in their order; `WebhookFails` ends a delivery between any two of them, and the
  next delivery of the same body starts again unless its event is final.
* `period`, `customer` and `attempt` are the rows, `provider` and `paidAt` what
  really happened. The payment time is the provider's, the webhook's, or the time
  of receipt, so any moment from the payment to now.
* The sweep is two steps (`SweepReads`, `SweepExpires`): it selects its candidates
  without a lock, and the ORM does not refresh a row that the session holds
  already when it is locked. `overtaken` records that a payment came between.
* The worker's question and its pause are two transactions
  (`PremiumAllowsNewExecution`, `PauseManagedAccountForPremium`); so are the gate
  of a start and its write (`PremiumGate`, `StartWrites`).

| Run | Question | Answer |
|---|---|---|
| `premium` | `ProcessedIsGranted`, `OneLiveAttempt`, `PaidWeekIsActive`, the refinement `KeepsSubscription`, types, and under fairness `UnpaidAccountStops` | hold: 2 attempts, one body each, 687,062 states |
| `premium_replay_moves` | can a replay move the expiry (`premium_access_service.py:267`)? | violated: the redelivery of an unfinished payment books its week over a newer one |

`PaidSubscription.tla` is what the payments promise, without prompts, webhooks or
threads: a payment made grants one period, which ends a fixed time after some moment
since the payment; access is the period of one payment and ends only because it was
due when that was decided; a payment is settled once its period is booked, grants
nothing from then on, and is acknowledged only then. `Subscription == INSTANCE
PaidSubscription WITH ...` maps the periods to `week`, the activated attempts to
`settled` and the processed success events to `acknowledged`; a step of the handler,
of the sweep's reading or of the worker is a stutter or one of its actions.
`AccessIsPaid` and `ActivationIsFinal`, which it implies, are proved and have no
place of their own in the run. The abstract `Grant` says what the violation run
shows: a payment whose booking has not been settled may take the access back from
one that came in between.

Bounds: two attempts, because every property relates one payment to another or
to a sweep; one body per attempt, delivered any number of times; a clock of one
tick and weeks of one tick (`MaxClock`, `PeriodLength`), enough for a week that is
paid at 0, due at 1 and renewed at 1. Fairness: the worker asks on every refresh of
its accounts (`WF` of the question), and a restart may interrupt a pause but not
every one (`SF` of the pause); the sweep gets none, because
`UnpaidAccountStops` must hold without it.

What the model contains and no property denies: a success webhook that comes
before the handler has stored the transaction id is ignored for good, and a
verification that fails for a passing reason is rejected for good, so those
paid weeks are never granted (`ProcessedIsGranted` speaks of processed events);
and a sweep that a payment overtakes ends the new week.
They are listed under `hazards`.

## 6. RecoveryLedger: debt and its parts

`RecoveryLedger.tla` models one account in Split-N mode. `plan_stake` and
`record_account_outcome` are stacks of wrappers; every layer commits transactions
of its own, the `AccountRiskState` row (`debt`, `losses`, `pending`, `attempt`,
`mode`) in one and each split preference (`remaining`, `basis`, `partStake`) in
another. `pc` is the worker's next transaction, so `Stop`, `Start`, `SaveStrategy`,
`SaveSettings`, `DayPasses` and `Restart` come between any two.

* Planning: `PlanBegins`, `RepairBasis` and `RepairPart` are the outermost repair
  (`StaleBasis`). Then the manual layer reads its snapshot (`ReadBefore`), the
  repository rolls the trading day over (`PlanRollsOver`), and one of three plans is
  made: `PlanLower` where the split layers stand aside, `PlanInner` under a debt,
  `PlanForgottenDebt` where the debt of the snapshot is gone by now. `PlanGlobal`
  makes the debt a recovery again and drops the part stake of a debt that is gone,
  `PricePart` prices a part and `MarkRecovery` marks the attempt. `Buy` sends the
  contract, or `PlanDropped` ends the plan.
* Prices: every proposal has a payout ratio of its own, a profit of `r \in Ratios`
  per `Par` of stake. `PartStake(pool, r)` is the stake that earns an N-th of the
  pool at `r`, rounded up; the first proposal of a pool stores it in `partStake`, and
  the later ones, whatever their ratio, take the stored one.
* Settling: `RecordLoss` or `RecordWin` is the row's transaction, and the actions
  after it are the wrappers' preference writes in the order in which they run.
* A win pays what the bought contract promised, which may be less than what its
  part was priced for. The debt then outlives the last part, which the code
  forgives (`legs >= SplitCount /\ short`).
* Martingale: the account's `martingale_enabled` is a setting of its own, saved at
  any time, a debt open or not (`SaveSettings`), and the split layers plan their
  parts without asking it. While it is off, the first won recovery sets the whole
  debt to zero (`rf_dir5_bot.py:1771`, `rf_dir5_repository.py:817`):
  `DebtForgivenAfterParts` names this way out of the ledger.

History: `pool` (the debt after its last loss), `ratio` (of the proposal that priced
it), `legs` (parts won since), `short` (one of them paid less than priced), `streak`
(losses nothing has answered), `torn` (a restart cut the booking of this debt).

| Run | Question | Answer |
|---|---|---|
| `recovery` | types, `HookHoldsRealTrades`, `DebtForgivenAfterParts`, `PartsAreEqual` | hold: 3 parts, base stake 2, ratios 1/2 and 1, thresholds 0 to 2, debt up to 8, 2 restarts, 2,477,070 states |

Two ratios, one half and one, make the stored stake differ from what a later proposal
would ask, and a win differ from what its part was priced for, in both
directions. A base stake of 2 in 3 parts makes a pool that the parts do not divide;
a debt of 8 holds a loss that enlarges a pool after a won part; threshold 2 lets the
hook wait for a second loss; the second restart can fall into the repair of what the
first one tore. No fairness: the properties are safety. The exceptions `torn` are
real: a death of the worker between the row and the preferences leaves debt and parts
disagreeing, and so does, without a trace, a death between the settlement of the
Trade row and `RecordLoss`, which loses the debt of that loss (the settlement is not
a candidate again).

What the model contains and no property denies: after a rollover, or a Stop and a
Start, during the planning of a trade, the manual layer plans a part of the debt it
has read before, which is forgotten by then (`PlanForgottenDebt`).

## 7. VirtualHook: no real money under an observation

`VirtualHook.tla` models one hook-on account on one market, tick by tick.
`row`/`entry` are the latest VirtualTrade row; `due`, `held` and `resume` the
worker's tables; `seq` its tick counter; `task` and `sig` the account's task;
`arming` and `barrier` the two halves of the post-loss barrier.

* A tick is `HandleTick` (count, settle) and `FinishTick` (schedule), because the
  handler awaits the other accounts in between; contract updates, tasks and
  refreshes run there.
* `SettleVirtualMirror` settles from the tick buffer or voids: an entry that
  lies ahead of the counter is another process's, one out of the buffer is lost.
  A void sample with a debt puts the account back into virtual mode.
* `Refresh` rebuilds the lock from the open row; `Restart` forgets all memory, and
  takes longer than a tick; `MissTick` is a tick the worker never sees.
* Epochs are offsets from the last tick of the provider, so they stay bounded.

| Run | Question | Answer |
|---|---|---|
| `virtual` | types, `NoRealUnderObservation`, `HookIsServed`, `BarredOnceArmed`, and under fairness `ObservationEnds` | hold: two losses to enter, two wins to leave, 2 restarts, 212,986 states |

`BarredOnceArmed` says how far the barrier after a loss goes: `lossAt` is the tick
of the loss that entered virtual mode, and a signal is taken on it only while its
barrier is still to be armed. What happens in that window is `FutureTickAfterLoss`
in section 11.

`EnterAfter` and `ExitAfter` of 2 distinguish a first from a last loss and win; a
contract of 2 ticks has a tick of its own in between; a buffer of 2 lets an
observation fall out of it. The counter saturates at `MaxSeq` 7, and no
observation starts within `Duration + BufferSize` of it, so that the last one can
still end. Fairness: the stream keeps delivering (`SF` of an admitted tick), the
handler's awaits are bounded, and the periodic refresh admits a running account
again. Network, Stop and Start get none.

## 8. ConnectionLanes: who may connect

`ConnectionLanes.tla` models the private sessions of the worker in
`_vps_connect_and_run`: `acquire` and `release` of `_VpsBootstrapScheduler`, the
start slot, OTP, socket, failure, backoff, connection, and cancellation at every
await. The condition's lock is never held across an await, so what runs under it
is one step. A session in `wait_for` is `asleep`, `awake` (notified, to look again)
or `aborting` (cancelled, taking the lock back); the image runs Python 3.13
(`Dockerfile`), whose `Condition.wait` notifies another waiter before the
cancellation leaves it. The mutant of `Abort` is the `wait` of earlier versions, and
loses a wakeup.

| Run | Question | Answer |
|---|---|---|
| `lanes` | types, `LanesCounted`, `SleeperHasWaker`, and under fairness `QueuedGetsLane` | hold: 3 sessions, 2 lanes, 195,568 states |

Three sessions for two lanes let one wait while two hold, be overtaken by an
urgent one, or be cancelled while notified. The order in which the lock is granted
is left open, so safety holds for every order; the strong fairness of `Enter` is
what FIFO order gives (waiters run in the order in which they went to sleep). The
rest is weak fairness of steps with a timeout, and of the penalty's end.
`QueuedGetsLane` excuses a session only for a stream of urgent sessions that never
ends, or a provider that refuses for ever. Urgency is sampled before the wait
(line 504), so a session that becomes urgent while it queues stays behind others;
the model has it (`urgent` against `priority`). The action property `UrgentFirst`,
that no lane goes to a normal session while an urgent one queues, is proved
(section 10) and has no run of its own.

## 9. RequestBroker: one request for all who ask

`RequestBroker.tla` models the REST calls of the worker: `request` of the broker
inside the circuit inside `_bounded_startup_rest_request`. A flight is one
`_perform`: `TakeSlot`, `Answer`, `Retry`; callers of one account list `Create` or
`Join` it, `Resume` with its answer, or leave it by `StartupTimeout`, which cancels
the caller at any await. A creator that leaves removes the flight from `_inflight`
while the shielded task goes on (`Popped`, `Left`).

| Run | Question | Answer |
|---|---|---|
| `broker` | types, `WaitersServed`, `ListsShared`, and under fairness `CallsEnd` | hold: 2 callers of the list, 1 of an OTP, 2 flights, 1 slot, 51,360 states (the safety part also with 3 flights: 2.74 million) |

Two list callers are a creator and a waiter; the OTP caller competes for the one
slot; two flights are an abandoned request and its successor. The streak of refusals
only sets how long a cooldown lasts, and times are left out, so `streak` says whether
it is zero. `TypeOK` includes that a request is sent no more often than its kind
allows (`TriesBounded`). Fairness: the client's timeout ends every request, a retry sleeps at most 2 s, the semaphore is FIFO
(`SF` of `TakeSlot`); the timeout around the call gets none, so `CallsEnd` says that
the broker answers by itself.

What the model contains and no property denies: a refused request is sent again
(`RefusedNotResent`, section 11); a rate limit in the provider's
`errors` array opens no circuit, closes an open streak and is cached; a refusal that
arrives after its caller's timeout opens no circuit; flights that queue for a slot are sent although the
circuit has opened meanwhile; and the 15 s around a startup call are shorter than
the broker's own boundary of 20 s and the 45 s of the lanes.

## 10. What is proved

`ExecutionControl_proofs.tla` proves, for any set of requests and from the one
assumption that `NoOwner` is not a request:

* `TypeCorrect`: `Spec => []TypeOK`. It includes that the row lock is held exactly
  between the check and the commit of a locked layer.
* `ControlCorrect`: `Spec => []ControlInvariant`, and from it `FenceDurable`,
  `BrowserOwnerKnown` and `LockedWritersHonourStop`.
* `LimitStopsHold`: the action property `LimitStopHolds`.

The safety properties are not inductive by themselves. That a Stop keeps its
sentinel needs that no Start is in flight while a Stop counts as in force
(`fence => ~StartInFlight`); that the locked layers never undo a Stop needs that
none of them is past its check once the Stop has reached the row
(`landed => ~rowLock`: the Stop's row write waits for the lock, and a check after it
sees the sentinel); that a browser-owned row has an owner needs that the commit
of the lease preservation still finds one, and that the status alone implies one;
that a limit holds needs that no repair or token refresh in progress has a row at
its limit. `ControlInvariant` is the conjunction, `ControlInit` and `ControlStep`
prove it inductive, with one lemma per group of actions and one step per action.

`PurchasePipeline_proofs.tla` proves, for any set of signals that satisfies
`SignalAssumption`:

* `PipelineTypes`, `OnePurchase` (`PurchaseExclusive`), `LedgerBooksWhatHappened`
  (`LedgerTruthful`), `WatchedWhileLoaded` (`LoadedTradesWatched`) and
  `StopIsLateForOneBuy` (`OneLateBuy`), from `PipelineCorrect`:
  `Spec => []PipelineInvariant`.
* `PipelineKeepsJournal`: the safety part of the refinement, `Spec => Journal!Spec`;
  its fairness part is checked by TLC.
* `OverlapOnlyRetired`: the action property `BuysOverlapOnlyRetired`, from the same
  invariant and a lemma that `SendBuy` is the only step that puts a BUY on its way.

That one attempt excludes the others rests on where attempts live: an attempt is
active only under an admitted account (`AttemptsAdmitted`), and an account is
admitted only in a cycle that is up (`CycleUp`), so the steps that end a cycle or
drop an account end the attempts with it. That the ledger is truthful needs that the
provider has nothing of a signal whose BUY has not been sent (`NothingUnsent`).
That one BUY at most comes after a Stop needs that after it no attempt is past a
lifecycle check while the account stays stopped (`NoneFollows`), which follows from
one attempt at a time: whoever was past the check has sent the late BUY.

`AutomationScheduler_proofs.tla` proves, for any accounts, schedules and bounds
that satisfy `SchedulerAssumption`:

* `SchedulerTypes`, `StartsOnce` (`StartedOnce`) and `ClaimsAreFresh`
  (`ClaimHasNoSession`), from `SchedulerCorrect`: `Spec => []SchedulerInvariant`.
* `OutcomesAreFinal`: the action property `OutcomeFinal`.
* `SchedulerKeepsJobs`: the refinement `Spec => Jobs!Spec` (`KeepsJobs`), with one
  lemma per group of actions that says which step of a job each action is.

A claim could start a schedule again only if its row had been reclaimed under the
thread that applies it, or if another schedule's session were taken for its own.
So the invariant adds that the claim in the thread's hands has no expired lease
(`ClaimInService`) and that the account's reason text names a started schedule
only (`MarkerStarted`). The refinement also needs that the thread works on a
schedule that was created (`WorkedOnExists`): without it, a schedule could be dropped
that no job stands for.

`PremiumPayments_proofs.tla` proves, for any attempts, events, period length and
end of the clock that satisfy `PaymentAssumption`:

* `PaymentsKeepSubscription`: the refinement `Spec => Subscription!Spec`
  (`KeepsSubscription`).
* `PremiumTypes`, `PaidAccessOnly` (`AccessIsPaid`), `NoPaymentLost`
  (`ProcessedIsGranted`), `OneAttemptOpen` (`OneLiveAttempt`) and `PaidWeeksLast`
  (`PaidWeekIsActive`), from `PremiumCorrect`: `Spec => []PremiumInvariant`.
* `ActivationsFinal` and `ReplaysKeepExpiry`: the action properties
  `ActivationIsFinal` and `ReplayKeepsExpiry`.

The strengthening is `RequestsInStep` and `WebhookInStep`. A transaction id is
stored by the last step of the request handler, so no webhook finds an attempt that
a handler still writes; and past its lookup a webhook works on an attempt that is
not activated until this webhook has booked the week and marked it, because no
other webhook runs in between. Without the second a rejected verification could
overwrite an activation. The refinement needs two more of their parts: a handler
that has created its attempt finds it still `initiating`, so the provider's answer
never overwrites a settled payment; and the event in the webhook's hands is still
open, so a final event is never written again.

`RecoveryLedger_proofs.tla` proves, for any stakes, payout ratios, thresholds and
bounds and one to three parts (`LedgerAssumption`, the range the settings allow; a
proposal without a profit is not bought):

* `LedgerTypes`, `DebtTradesAreRecoveries` (`DebtTradesAreRecovery`) and `HookIsHeld`
  (`HookHoldsRealTrades`), from the inductive `LedgerInvariant`.
* `DebtIsNotForgivenEarly` and `PartsStayEqual`: the action properties
  `DebtForgivenAfterParts` and `PartsAreEqual`.

The strengthening (`PoolKept`, `HookKept`) says how far the booking has come at each
`pc`: what `remaining`, `basis` and `partStake` are between two of the transactions.
That the parts stay equal needs that `partStake` is unset or what the first proposal
priced from the pool (`Priced`), through every loss that rebases the pool. That a
debt is forgiven only after a part that paid short needs arithmetic: as long as no
part has, `l` won parts leave at most `(N - l) / N` of the pool (`Share`), so N of
them leave nothing. `PartStakeCovers` is its step: a part that earns what it was
priced for earns an N-th of the pool, because the stake is rounded up.

`VirtualHook_proofs.tla` proves, for any thresholds, duration, buffer and bounds
(`HookAssumption`): `HookTypes`, `NoMoneyUnderObservation` and the action properties
`HookServes` and `BarrierHolds` (`BarredOnceArmed`). `LockCoversRow` (the memory lock covers exactly the open row while the
account is admitted) and `OneActivity` (an open row leaves no task and no contract)
are what makes the first inductive; `WinsServed` ties the row's counter to the wins. The barrier needs `LossRemembered`:
in virtual mode the tick of the loss is either still to be armed or the barrier, and
what is to be armed is never the tick of another loss. The second half alone is not
inductive: arming an older loss would replace the barrier of the newer.

`ConnectionLanes_proofs.tla` proves, for any finite set of sessions and any limit:
`LaneTypes`, `LanesStayCounted`, `NoLostWakeup` and the action property
`UrgentComeFirst` (`UrgentFirst`): as the counter counts the urgent sessions in the
queue exactly, what the predicate of `wait_for` reads is true of them. Wakeups need
`UrgentSleepsWhenFull`: an urgent session sleeps only while every lane is taken, so
whoever wakes and goes back to sleep leaves a lane holder behind.

`RequestBroker_proofs.tla` proves, for any callers, flights and slots: `BrokerTypes`,
`NobodyWaitsInVain` and `RequestsAreShared`, with `CreatorsWait` and
`InflightCreated`: a creator waits for what it created, and the request in
`_inflight` still has its creator. `BrokerTypes` includes the bound of the tries.

Left to TLC: the liveness properties, as fairness and ENABLED are out of the
prover's reach (`LockReleased`, the fairness part of `KeepsJournal`, `ClaimResolved`,
`RunningEnds`, `UnpaidAccountStops`, `ObservationEnds`, `QueuedGetsLane`,
`CallsEnd`), and the violation runs. Every other property of a passing run is stated
by a theorem. No module declares a RECURSIVE operator, and no theorem needs
induction over data.

## 11. What TLC refutes

The violation runs are disagreements between the code and a sentence of the
repository, listed with its quotation under `findings`:

* `control_stop_undone`: the debt branch of the status writer undoes a Stop.
* `purchase_uncertain_forgotten`: after 75 seconds an uncertain contract is given up.
* `scheduler_starved`: one waiting schedule starves all other accounts.
* `premium_replay_moves`: a webhook replay moves the expiry, and books a week again.

Further properties are defined in the modules, are refuted by TLC when added to a
configuration, and have no run of their own:

| Module | Property | What the repository says | What happens |
|---|---|---|---|
| ExecutionControl | `StartSticks` | a started account runs until Stop, TP or SL (`src/README.md:38`) | the queued normalisation of an earlier Stop stops it |
| PurchasePipeline | `StopBarsBuy` | a BUY is sent only for a row that runs (`custom_strategy_manual_stop_guard.py:58`) | Stop during the proposal |
| PurchasePipeline | `SentBuyRegistered` | a BUY sent before Stop is registered (same file, line 61) | the refresh cancels the task |
| PurchasePipeline | `OpenTradesWatched` | every persisted contract is monitored (`src/README.md:58`) | an account admitted into a running cycle |
| AutomationScheduler | `ResultComplete` | the result waits for the last purchased contract (`automation_scheduler_v2_authority.py:91`) | it is frozen while a BUY is unanswered |
| RecoveryLedger | `NewPoolNewCycle` | a new pool starts a new cycle of N parts | a restart between row and preferences |
| RequestBroker | `RefusedNotResent` | a rate limit stops the requests (`deriv_rate_limit_circuit.py:84`) | the retry predicate was replaced, and a refused request is sent again |
| VirtualHook | `OwnTick` | an observation is settled by its own tick | the tick was lost and a later one takes its number |
| VirtualHook | `FutureTickAfterLoss` | no observation before a tick later than the loss | the barrier is armed after an await |

The passing runs say how far these go: `OnlyUnfencedWritersRestart` says that no
writer but those named can undo a Stop, `BuysOverlapOnlyRetired` that
contracts overlap in no way but a rotation or a cycle that never loaded them,
`OneLateBuy` that a Stop comes too late for one BUY at most, and `BarredOnceArmed`
that a signal passes the barrier only before it is armed.

## 12. Plan

Done in this order: ExecutionControl, PurchasePipeline, AutomationScheduler,
PremiumPayments, RecoveryLedger, VirtualHook, ConnectionLanes, RequestBroker, and
the abstract PurchaseJournal, ScheduledJobs and PaidSubscription with their
refinements, each with its proofs. What would come next:

1. A composed module of the control plane and the pipeline, which replaces the
   free `Stop` and `Start` of PurchasePipeline by the rows ExecutionControl can
   produce, and one of RecoveryLedger and VirtualHook, which share the risk mode.
2. The condition engine as operators against reference definitions.

## 13. What is not modelled

* ExecutionControl: the premium pause, the OAuth login and account-linking
  handlers of `app/api.py` (lines 651, 966, 1636, 2194), the token-status healing of
  `GET /me`, the `settlement_only` status, and the token discard and the fail-closed
  writer (`_final_discard_token`, `_final_fail_closed` in
  `tp_sl_manual_only_authority.py:165-255`), whose own part ends in
  `ForceRetryState`. `/me/clear-trades` locks the row and writes a cutoff
  preference only (`global_trade_history_cutoff.py`), no column of the row. Process failure of the API between
  two transactions of a handler is covered as a request that takes no further step.
* PurchasePipeline: zero-stake virtual trades (VirtualHook has them), stale-contract
  pruning, stake amounts, and what a settlement books (RecoveryLedger has it).
* AutomationScheduler: the strategy snapshot's content (it is valid or not), what a
  result counts, all times (the grace, the lease, the two seconds in which a
  contract still counts for an ended session), what makes premium active
  (PremiumPayments has it), and alert delivery.
* Browser-direct execution: no client in the repository posts receipts or uses the
  session route, so there is no behaviour to check; Arm and Stop are in
  ExecutionControl.
* PremiumPayments: linking several accounts to one customer and merging customers,
  signature checking, amounts and currencies (a verification succeeds, is early or
  fails), webhooks of other kinds, and an error of the sweep's transaction.
* RecoveryLedger: the multiplier mode; changes of the stake, of the mode and of N
  (hook and martingale do change); the balance cap's amount (a cap refuses or does
  not); a proposal without a profit; database errors of a preference write, which the
  wrappers swallow; two contracts at a time. The transactions of the inner split
  layers are one step (`PlanInner`), and so are the state write and the part drop of
  `PlanGlobal`, so a Stop, a Start or a death of the worker inside these two is left
  out (between a plan and its mark they are covered at `MarkRecovery`). With the
  hook off, a win that leaves a residual debt sends the account to VIRTUAL until
  the next part is armed; a threshold of one that a crash cuts skips the hook:
  both are in the model and excused by `torn` or by the threshold.
* VirtualHook: the hook-off switch, several markets, the older per-account
  runtimes, and rows cancelled by other processes, which the VPS path does not do.
* ConnectionLanes: delays, the wake event of the backoff, a second cancellation of
  a task that is releasing its lane, the public tick socket, and status writes.
* RequestBroker: the HTTP session pool and its lock, delays, the size of the streak
  (each waiter of one refused request raises it), and bulk purchases,
  which the worker's path does not send.
* Components with status `not_modelled` in `PROJECT.json`: the guardian agent
  shares no state with trading; dashboard and notification only present; the
  legacy runtimes are not imported by the worker; the others are planned above.
