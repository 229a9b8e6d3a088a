-------------------------- MODULE PurchasePipeline --------------------------
(***************************************************************************)
(* The worker's purchase pipeline for one account, from a qualifying tick  *)
(* to the settlement of the contract: the asyncio task of each attempt,    *)
(* the in-flight, open-contract and ambiguity locks that keep attempts     *)
(* apart, the reconciliation of a BUY whose acknowledgement timed out, and *)
(* the account refreshes, credential rotations, run cycles and restarts    *)
(* that take the worker's memory away under them.                          *)
(*                                                                         *)
(* A step runs from one await to the next. The provider and the durable    *)
(* Trade rows survive everything; the rest is the worker's memory.         *)
(***************************************************************************)
EXTENDS Naturals

CONSTANTS Signals,    \* qualifying signals; each is tried at most once
          NoSignal    \* "no purchase is being reconciled"

ASSUME SignalAssumption == NoSignal \notin Signals

VARIABLES running,      \* the ManagedAccount row allows new execution
          lateBuys,     \* history: BUYs sent since the last Stop
          cycle,        \* a run cycle of the worker is up
          loaded,       \* that cycle loaded this account's open trades
          admitted,     \* the account is in _custom_direct_accounts
          connected,    \* its current private session is connected
          task,         \* where the task of each signal is
          inflight,     \* the account is in _custom_direct_inflight
          stale,        \* signals whose runtime item names a replaced token
          provider,     \* what the provider did with each signal's BUY
          trade,        \* the durable Trade row of each signal's contract
          watched,      \* pending_contracts of the current session
          retired,      \* pending_contracts of sessions kept for settlement
          unregistered, \* contracts whose registration failed
          ambiguous,    \* the account is in the ambiguity set
          reconciling   \* the signal the reconciliation task looks for

row    == <<running, lateBuys>>
memory == <<admitted, connected, task, inflight, stale>>
ledger == <<provider, trade, watched, retired, unregistered>>
lock   == <<ambiguous, reconciling>>
up     == <<cycle, loaded>>
vars == <<running, lateBuys, cycle, loaded, admitted, connected, task, inflight, stale,
          provider, trade, watched, retired, unregistered, ambiguous, reconciling>>

ActivePcs == {"scheduled", "quoting", "requoting", "buying", "orphaned"}
EndPcs    == {"done", "uncertain"}   \* "uncertain": its BUY was never answered
Contract  == {"none", "open", "settled"}
active    == {a \in Signals : task[a] \in ActivePcs}

Init ==
  /\ running = FALSE /\ lateBuys = 0 /\ cycle = FALSE /\ loaded = FALSE
  /\ admitted = FALSE /\ connected = FALSE
  /\ task = [a \in Signals |-> "unused"] /\ inflight = FALSE /\ stale = {}
  /\ provider = [a \in Signals |-> "none"] /\ trade = [a \in Signals |-> "none"]
  /\ watched = {} /\ retired = {} /\ unregistered = {}
  /\ ambiguous = FALSE /\ reconciling = NoSignal

-----------------------------------------------------------------------------
(* One attempt.                                                            *)

Move(a, pc) == task' = [task EXCEPT ![a] = pc]

(* The task ends; its finally clause discards the in-flight mark.          *)
Finish(a) == Move(a, "done") /\ inflight' = FALSE
FinishUncertain(a) == Move(a, "uncertain") /\ inflight' = FALSE

(* AccountExecutionSession.prepare().                                      *)
Prepared(a) == cycle /\ connected /\ a \notin stale

MutNoAmbiguity == watched # {}   \* mutant: the lock is left out of the check
MutNoPending   == ambiguous      \* mutant: only the lock is checked
OpenActual == ambiguous \/ watched # {}

ScheduleAccountMatch(a) ==
  /\ task[a] = "unused" /\ admitted /\ ~inflight /\ ~OpenActual
  /\ Move(a, "scheduled") /\ inflight' = TRUE
  /\ UNCHANGED <<row, up, admitted, connected, stale, ledger, lock>>

MutChecksLater(a) ==   \* mutant: the lifecycle is left to the checks that follow
  /\ task[a] = "scheduled"
  /\ \/ Prepared(a) /\ Move(a, "quoting") /\ UNCHANGED inflight
     \/ ~Prepared(a) /\ Finish(a)
  /\ UNCHANGED <<row, up, admitted, connected, stale, ledger, lock>>
(* The lifecycle check at task entry and the one before the proposal, with *)
(* no await between them.                                                  *)
GuardedExecute(a) ==
  /\ task[a] = "scheduled"
  /\ \/ running /\ Prepared(a) /\ Move(a, "quoting") /\ UNCHANGED inflight
     \/ ~(running /\ Prepared(a)) /\ Finish(a)
  /\ UNCHANGED <<row, up, admitted, connected, stale, ledger, lock>>

(* The planned stake differs from the quoted one: a second proposal, with  *)
(* a lifecycle check of its own.                                           *)
Requote(a) ==
  /\ task[a] = "quoting"
  /\ \/ running /\ Prepared(a) /\ Move(a, "requoting") /\ UNCHANGED inflight
     \/ ~(running /\ Prepared(a)) /\ Finish(a)
  /\ UNCHANGED <<row, up, admitted, connected, stale, ledger, lock>>

(* The proposal fails, the stake plan rejects, or the exact tick is past.  *)
Abort(a) ==
  /\ task[a] \in {"quoting", "requoting"}
  /\ Finish(a)
  /\ UNCHANGED <<row, up, admitted, connected, stale, ledger, lock>>

(* buy_with_reconnect_not_stop sends the BUY without reading the lifecycle *)
(* again. The provider opens the contract, or refuses or never sees it.    *)
SendBuy(a) ==
  /\ task[a] \in {"quoting", "requoting"} /\ Prepared(a)
  /\ Move(a, "buying")
  /\ provider' \in {provider, [provider EXCEPT ![a] = "open"]}
  /\ lateBuys' = IF running THEN lateBuys ELSE lateBuys + 1
  /\ UNCHANGED <<running, up, admitted, connected, inflight, stale, trade,
                 watched, retired, unregistered, lock>>

(* register_purchase: the Trade row is inserted unless one exists. If the  *)
(* write fails the contract is watched all the same, as unregistered.      *)
Register(b) ==
  /\ \/ /\ trade' = [trade EXCEPT ![b] = IF @ = "none" THEN "open" ELSE @]
        /\ UNCHANGED unregistered
     \/ /\ unregistered' = unregistered \cup {b}
        /\ UNCHANGED trade
  /\ watched' = watched \cup {b}
  /\ UNCHANGED <<provider, retired>>

Acknowledged(a) ==
  /\ task[a] = "buying" /\ provider[a] # "none"
  /\ Register(a)
  /\ Finish(a)
  /\ UNCHANGED <<row, up, admitted, connected, stale, lock>>

(* An error response, or one without a contract id, asks for a reconnect.  *)
Refused(a) ==
  /\ task[a] = "buying" /\ provider[a] = "none"
  /\ Finish(a)
  /\ connected' \in {connected, FALSE}
  /\ UNCHANGED <<row, up, admitted, stale, ledger, lock>>

(* AmbiguousPurchaseTimeout: the lock is taken and a reconciliation task   *)
(* started unless one still runs; an enabled account reconnects.           *)
TimedOut(a) ==
  /\ task[a] \in {"buying", "orphaned"}
  /\ FinishUncertain(a)
  /\ ambiguous' = TRUE
  /\ reconciling' = IF reconciling = NoSignal THEN a ELSE reconciling
  /\ connected' = (connected /\ ~running)
  /\ UNCHANGED <<row, up, admitted, stale, ledger>>

-----------------------------------------------------------------------------
(* The reconciliation task of an ambiguous purchase.                       *)

ReleaseLock == ambiguous' = FALSE /\ reconciling' = NoSignal

(* The portfolio lists open contracts, the profit table settled ones; each *)
(* query may fail. Same-stake purchases of the last 45 seconds (near) are  *)
(* indistinguishable, and only a single candidate is taken.                *)
ReconcileFinds(b) ==
  /\ ambiguous /\ running /\ Prepared(reconciling)
  /\ \E near \in SUBSET Signals, state \in {"open", "settled"} :
       /\ reconciling \in near
       /\ {c \in near : provider[c] = state} = {b}
  /\ Register(b)
  /\ ReleaseLock
  /\ UNCHANGED <<row, up, memory>>

MutLooksForever ==   \* mutant: a purchase that never happened is awaited
  /\ ambiguous /\ running /\ cycle /\ connected
  /\ provider[reconciling] # "none"
  /\ ReleaseLock
  /\ UNCHANGED <<row, up, memory, ledger>>
(* 75 seconds on, the last pair of queries found nothing, were ambiguous   *)
(* or failed.                                                              *)
ReconcileGivesUp ==
  /\ ambiguous /\ running /\ cycle /\ connected
  /\ ReleaseLock
  /\ UNCHANGED <<row, up, memory, ledger>>

MutStopKeepsLock ==   \* mutant: the loop's exit skips the finally clause
  /\ ambiguous /\ ~running
  /\ reconciling' = NoSignal
  /\ UNCHANGED <<row, up, memory, ledger, ambiguous>>
(* The loop ends when the account is disabled; its finally clause releases *)
(* the lock.                                                               *)
ReconcileStops ==
  /\ ambiguous /\ ~running
  /\ ReleaseLock
  /\ UNCHANGED <<row, up, memory, ledger>>

Reconcile == (\E b \in Signals : ReconcileFinds(b)) \/ ReconcileGivesUp \/ ReconcileStops

-----------------------------------------------------------------------------
(* Settlement.                                                             *)

ProviderSettles(a) ==
  /\ provider[a] = "open"
  /\ provider' = [provider EXCEPT ![a] = "settled"]
  /\ UNCHANGED <<row, up, memory, trade, watched, retired, unregistered, lock>>

MutSettlesUnbooked(a) ==   \* mutant: an unregistered contract is settled as well
  /\ a \in watched \cup retired /\ provider[a] = "settled"
  /\ trade' = [trade EXCEPT ![a] = "settled"]
  /\ watched' = watched \ {a} /\ retired' = retired \ {a}
  /\ unregistered' = unregistered \ {a}
  /\ UNCHANGED <<row, up, memory, provider, lock>>
(* handle_contract_update with a terminal state: an unregistered contract  *)
(* is released without being booked, a Trade row is settled once.          *)
HandleContractUpdate(a) ==
  /\ a \in watched \cup retired /\ provider[a] = "settled"
  /\ trade' = [trade EXCEPT ![a] =
                 IF a \notin unregistered /\ @ = "open" THEN "settled" ELSE @]
  /\ watched' = watched \ {a} /\ retired' = retired \ {a}
  /\ unregistered' = unregistered \ {a}
  /\ UNCHANGED <<row, up, memory, provider, lock>>

-----------------------------------------------------------------------------
(* What happens around the pipeline.                                       *)

Stop  == running /\ running' = FALSE
         /\ UNCHANGED <<lateBuys, up, memory, ledger, lock>>
Start == ~running /\ running' = TRUE /\ lateBuys' = 0
         /\ UNCHANGED <<up, memory, ledger, lock>>

(* The connection goes: the answer to a BUY in flight will not come, and   *)
(* its future is dropped rather than failed.                               *)
orphan == [a \in Signals |-> IF task[a] = "buying" THEN "orphaned" ELSE task[a]]

Disconnect ==
  /\ connected /\ connected' = FALSE
  /\ task' = orphan
  /\ UNCHANGED <<row, up, admitted, inflight, stale, ledger, lock>>

Connect ==
  /\ cycle /\ ~connected /\ (admitted \/ watched # {})
  /\ connected' = TRUE
  /\ UNCHANGED <<row, up, admitted, task, inflight, stale, ledger, lock>>

(* A refresh validates the account and admits it, in the session kept for  *)
(* settlement if there is one.                                             *)
AdmitAccount ==
  /\ cycle /\ running /\ ~admitted
  /\ admitted' = TRUE
  /\ UNCHANGED <<row, up, connected, task, inflight, stale, ledger, lock>>

(* A refresh leaves the account out, because it was stopped or because its *)
(* validation failed: its tasks are cancelled, wherever they are, and its  *)
(* session is kept only to settle what it watches.                         *)
DropAccount ==
  /\ cycle /\ admitted
  /\ admitted' = FALSE
  /\ task' = [a \in Signals |-> IF a \in active THEN "done" ELSE task[a]]
  /\ inflight' = FALSE
  /\ connected' = (connected /\ watched # {})
  /\ UNCHANGED <<row, up, stale, ledger, lock>>

MutRotationForgets ==   \* mutant: a replaced session is closed at once
  /\ cycle /\ admitted /\ running
  /\ stale' = stale \cup active \cup ({reconciling} \cap Signals)
  /\ watched' = {} /\ connected' = FALSE /\ task' = orphan
  /\ UNCHANGED <<row, up, admitted, inflight, provider, trade, retired,
                 unregistered, lock>>
(* A refreshed OAuth credential changes the runtime key: the account gets  *)
(* a new session, the old one stays while it has contracts to settle.      *)
RotateCredential ==
  /\ cycle /\ admitted /\ running
  /\ stale' = stale \cup active \cup ({reconciling} \cap Signals)
  /\ retired' = retired \cup watched /\ watched' = {}
  /\ connected' = FALSE /\ task' = orphan
  /\ UNCHANGED <<row, up, admitted, inflight, provider, trade, unregistered, lock>>

(* No account is left: the run cycle ends and its sessions with it. The    *)
(* ambiguity lock and its task are not part of the cycle.                  *)
CycleEnds ==
  /\ cycle /\ ~admitted
  /\ cycle' = FALSE /\ loaded' = FALSE /\ connected' = FALSE
  /\ watched' = {} /\ retired' = {} /\ unregistered' = {}
  /\ UNCHANGED <<row, admitted, task, inflight, stale, provider, trade, lock>>

(* A cycle starts for this account or for another one; open trades are     *)
(* loaded for the accounts that are valid at that moment.                  *)
CycleStarts ==
  /\ ~cycle /\ cycle' = TRUE
  /\ \/ /\ running
        /\ admitted' = TRUE /\ loaded' = TRUE
        /\ watched' = {a \in Signals : trade[a] = "open"}
     \/ UNCHANGED <<admitted, loaded, watched>>
  /\ UNCHANGED <<row, connected, task, inflight, stale, provider, trade,
                 retired, unregistered, lock>>

(* The worker process dies; only the database and the provider remember.   *)
Restart ==
  /\ cycle' = FALSE /\ loaded' = FALSE /\ admitted' = FALSE /\ connected' = FALSE
  /\ task' = [a \in Signals |-> IF a \in active THEN "done" ELSE task[a]]
  /\ inflight' = FALSE /\ stale' = {}
  /\ watched' = {} /\ retired' = {} /\ unregistered' = {}
  /\ ReleaseLock
  /\ UNCHANGED <<row, provider, trade>>

-----------------------------------------------------------------------------
Attempt(a) ==
  \/ GuardedExecute(a) \/ Requote(a) \/ Abort(a) \/ SendBuy(a)
  \/ Acknowledged(a) \/ Refused(a) \/ TimedOut(a)

Next ==
  \/ \E a \in Signals : ScheduleAccountMatch(a) \/ Attempt(a)
                        \/ ProviderSettles(a) \/ HandleContractUpdate(a)
  \/ Reconcile
  \/ Stop \/ Start \/ Disconnect \/ Connect
  \/ AdmitAccount \/ DropAccount \/ RotateCredential
  \/ CycleEnds \/ CycleStarts \/ Restart

Spec == Init /\ [][Next]_vars

(* Every await of an attempt has a deadline; the run loop, the refresh and *)
(* the session's connect loop retry for ever, and the provider lets one of *)
(* the retries through; the reconciliation loop polls on.                  *)
Fairness ==
  /\ \A a \in Signals : WF_vars(Attempt(a))
  /\ SF_vars(CycleStarts /\ admitted') /\ SF_vars(AdmitAccount) /\ SF_vars(Connect)
  /\ SF_vars(Reconcile)

FairSpec == Spec /\ Fairness

-----------------------------------------------------------------------------
(* Every variable keeps its type, and the ambiguity lock is held exactly   *)
(* while a reconciliation task exists that will release it.                *)
TypeOK ==
  /\ running \in BOOLEAN /\ lateBuys \in Nat /\ cycle \in BOOLEAN /\ loaded \in BOOLEAN
  /\ admitted \in BOOLEAN /\ connected \in BOOLEAN
  /\ task \in [Signals -> ActivePcs \cup EndPcs \cup {"unused"}]
  /\ inflight \in BOOLEAN /\ stale \subseteq Signals
  /\ provider \in [Signals -> Contract] /\ trade \in [Signals -> Contract]
  /\ watched \subseteq Signals /\ retired \subseteq Signals
  /\ unregistered \subseteq Signals
  /\ ambiguous \in BOOLEAN /\ reconciling \in Signals \cup {NoSignal}
  /\ ambiguous <=> reconciling # NoSignal

(* At most one attempt is under way, the in-flight mark says so, and it is *)
(* never under way next to a contract of the current session or to an      *)
(* ambiguous purchase, whatever the refreshes, rotations and restarts.     *)
PurchaseExclusive ==
  /\ \A a, b \in active : a = b
  /\ inflight <=> active # {}
  /\ active # {} => watched = {} /\ ~ambiguous

(* The ledger books no contract the provider did not open, and none as     *)
(* settled before the provider settled it.                                 *)
LedgerTruthful ==
  \A a \in Signals : /\ trade[a] # "none" => provider[a] # "none"
                     /\ trade[a] = "settled" => provider[a] = "settled"

(* In a run cycle that began with the account, every open trade of a still *)
(* open contract is watched by its session or by one kept for settlement.  *)
(* (A settled one may be lost: a reconciliation that takes it for its own  *)
(* candidate and fails to register it marks it unregistered.)              *)
LoadedTradesWatched ==
  cycle /\ loaded =>
    \A a \in Signals : trade[a] = "open" /\ provider[a] = "open"
                       => a \in watched \cup retired

(* A Stop comes too late for one BUY at most: the attempt that has passed  *)
(* its last lifecycle check may still buy, and no other one follows it,    *)
(* however long the account stays stopped and admitted.                    *)
OneLateBuy == lateBuys <= 1

(* Why these are preserved: an attempt ends when its account is dropped,   *)
(* and an account is admitted or loaded only while a cycle is up, so that  *)
(* no cycle starts under an attempt; the provider has nothing of a signal  *)
(* before its BUY is sent; and after a late BUY no attempt has passed a    *)
(* lifecycle check until the next Start.                                   *)
AttemptsAdmitted == active # {} => admitted
CycleUp == admitted \/ loaded => cycle
NothingUnsent ==
  \A a \in Signals : task[a] \in {"unused", "scheduled", "quoting", "requoting"}
                      => provider[a] = "none"
NoneFollows ==
  /\ running => lateBuys = 0
  /\ lateBuys # 0 => \A a \in Signals : task[a] \notin {"quoting", "requoting"}

PipelineInvariant ==
  /\ TypeOK
  /\ PurchaseExclusive
  /\ LedgerTruthful
  /\ LoadedTradesWatched
  /\ AttemptsAdmitted
  /\ CycleUp
  /\ NothingUnsent
  /\ OneLateBuy
  /\ NoneFollows

BuySent(a) == task[a] # "buying" /\ task'[a] = "buying"

(* A BUY is sent while a booked contract is still open only if a rotation  *)
(* retired the session that watches it, or the cycle never loaded it.      *)
BuysOverlapOnlyRetired ==
  [][\A a, b \in Signals :
       BuySent(a) /\ trade[b] = "open" /\ provider[b] = "open"
         => b \in retired \/ ~loaded]_vars

(* Every attempt ends: no loss of the connection leaves it waiting.        *)
AttemptsEnd == inflight ~> ~inflight

(* The pipeline implements the journal of PurchaseJournal: whatever the    *)
(* tasks, sessions and locks go through, signals are attempted one at a    *)
(* time and once, contracts bought under their attempt only and once, and  *)
(* their purchases and results booked once, after the provider had them.   *)
Journal == INSTANCE PurchaseJournal
  WITH attempt <- [a \in Signals |-> IF task[a] = "unused" THEN "unused"
                                     ELSE IF a \in active THEN "active" ELSE "over"],
       contract <- provider, booked <- trade

KeepsJournal == Journal!FairSpec

(* The ambiguity lock is always released.                                  *)
LockReleased == ambiguous ~> ~ambiguous

(* The lifecycle row still allows execution when a BUY is sent.            *)
StopBarsBuy ==
  [][\A a \in Signals : BuySent(a) => running]_vars

(* What the provider opened for an attempt is known to the worker: booked, *)
(* watched as unregistered, or being reconciled.                           *)
Accounted(a) ==
  provider[a] = "none" \/ trade[a] # "none" \/ a \in unregistered \/ reconciling = a

(* No BUY is sent while the contract of an earlier BUY that was never      *)
(* answered is open and unaccounted for.                                   *)
UncertainBuyReconciledFirst ==
  [][\A a, b \in Signals :
       BuySent(a) /\ task[b] = "uncertain" /\ provider[b] = "open" => Accounted(b)]_vars

(* A contract whose BUY was sent before a Stop is still registered.        *)
SentBuyRegistered ==
  \A a \in Signals :
    ~running /\ task[a] \in EndPcs /\ provider[a] = "open" => Accounted(a)

(* The open trades of an account that executes are watched.                *)
OpenTradesWatched ==
  running /\ admitted =>
    \A a \in Signals : trade[a] = "open" => a \in watched \cup retired
=============================================================================
