---------------------------- MODULE RequestBroker ----------------------------
(***************************************************************************)
(* The worker's REST calls to the provider: one pool of connections, one   *)
(* request for all who ask for the same account list, bounded retries, and *)
(* a circuit that stays open after a refusal for rate.                     *)
(*                                                                         *)
(* A call is a coroutine of its caller; the request for an account list is *)
(* a task of its own, which its callers only wait for. Around both lies    *)
(* the timeout of _bounded_startup_rest_request, which cancels the caller  *)
(* at any await. Times are left out: cooldown, cache and timeouts end when *)
(* they end; so the streak of refusals, which sets how long a cooldown is, *)
(* is zero or not.                                                         *)
(***************************************************************************)
EXTENDS Naturals, FiniteSets

CONSTANTS Listers,   \* callers of the account list of one credential
          Openers,   \* callers of an OTP, for one account each
          Flights,   \* bound: the requests that are under way at a time
          NoFlight, Nobody,
          Slots      \* DERIV_HTTP_CONCURRENCY

Callers == Listers \union Openers

ASSUME BrokerAssumption ==
  /\ Listers \intersect Openers = {}
  /\ NoFlight \notin Flights /\ Nobody \notin Callers
  /\ IsFiniteSet(Flights) /\ Slots \in Nat \ {0}

VARIABLES open, streak, \* _rate_limit_until in the future; _rate_limit_streak > 0
          waits,        \* the flight a caller waits for
          flight,       \* stage, kind, tries, last answer, who created it
          inflight,     \* _inflight of the account list
          cached        \* _cache of the account list is fresh

circuit == <<open, streak>>
vars == <<open, streak, waits, flight, inflight, cached>>

(* An answer is a payload, an "error" for rate or another retryable one, a *)
(* final one, or the provider's current form, an "errors" array, for rate. *)
Answers == {"payload", "limited", "fault", "refused", "limitedArray"}
Live == {"slot", "sent", "backoff"}
Kinds == {"list", "otp"}
Kind(c) == IF c \in Listers THEN "list" ELSE "otp"

Tries(kind) == IF kind = "list" THEN 3 ELSE 2

(* _vps_broker_retryable_response, which replaced the circuit's own.       *)
Retryable(answer) == answer \in {"limited", "fault", "limitedArray"}

NoError(answer) == answer \in {"payload", "limitedArray"}

Free == [stage |-> "free", kind |-> "otp", tries |-> 1, answer |-> "fault",
         creator |-> Nobody]

Init ==
  /\ open = FALSE /\ streak = FALSE
  /\ waits = [c \in Callers |-> NoFlight]
  /\ flight = [f \in Flights |-> Free]
  /\ inflight = NoFlight /\ cached = FALSE

Current(f) == f \in Flights /\ flight[f].stage # "done"
Waiters(f) == {c \in Callers : waits[c] = f}

-----------------------------------------------------------------------------
(* A call begins. While the circuit is open it is answered at once and     *)
(* changes nothing; so is a call for a list in the cache, but that its     *)
(* answer, having no error, ends the streak.                               *)

AnswerFromCache(c) ==
  /\ waits[c] = NoFlight /\ c \in Listers
  /\ ~open /\ cached /\ streak
  /\ streak' = FALSE
  /\ UNCHANGED <<open, waits, flight, inflight, cached>>

Join(c) ==
  /\ waits[c] = NoFlight /\ c \in Listers
  /\ ~open /\ ~cached /\ Current(inflight)
  /\ waits' = [waits EXCEPT ![c] = inflight]
  /\ UNCHANGED <<circuit, flight, inflight, cached>>

MutAlwaysCreates(c, f) ==   \* mutant: the in-flight request is not looked up
  /\ waits[c] = NoFlight /\ ~open
  /\ c \in Listers => ~cached
  /\ flight[f].stage = "free"
  /\ flight' = [flight EXCEPT ![f] =
       [Free EXCEPT !.stage = "slot", !.kind = Kind(c), !.creator = c]]
  /\ waits' = [waits EXCEPT ![c] = f]
  /\ inflight' = IF c \in Listers THEN f ELSE inflight
  /\ UNCHANGED <<circuit, cached>>
Create(c, f) ==
  /\ waits[c] = NoFlight /\ ~open
  /\ c \in Listers => ~cached /\ ~Current(inflight)
  /\ flight[f].stage = "free"
  /\ flight' = [flight EXCEPT ![f] =
       [Free EXCEPT !.stage = "slot", !.kind = Kind(c), !.creator = c]]
  /\ waits' = [waits EXCEPT ![c] = f]
  /\ inflight' = IF c \in Listers THEN f ELSE inflight
  /\ UNCHANGED <<circuit, cached>>

-----------------------------------------------------------------------------
(* _perform and _send_once.                                                *)

Stage(f, stage) ==
  /\ flight' = [flight EXCEPT ![f].stage = stage]
  /\ UNCHANGED <<circuit, waits, inflight, cached>>

TakeSlot(f) ==
  /\ flight[f].stage = "slot"
  /\ Cardinality({g \in Flights : flight[g].stage = "sent"}) < Slots
  /\ Stage(f, "sent")

MutOneTryMore(f) ==   \* mutant: the tries are compared one too late
  \E answer \in Answers :
    LET ends == ~Retryable(answer) \/ flight[f].tries > Tries(flight[f].kind)
    IN /\ flight[f].stage = "sent"
       /\ flight' = [flight EXCEPT ![f] =
            IF ends /\ Waiters(f) = {} THEN Free
            ELSE [@ EXCEPT !.stage = IF ends THEN "done" ELSE "backoff",
                           !.answer = answer]]
       /\ UNCHANGED <<circuit, waits, inflight, cached>>
(* The answer, a failure or the client's timeout; with tries left, some    *)
(* are retried. A finished request nobody waits for any more is dropped.   *)
Answer(f) ==
  \E answer \in Answers :
    LET ends == ~Retryable(answer) \/ flight[f].tries >= Tries(flight[f].kind)
    IN /\ flight[f].stage = "sent"
       /\ flight' = [flight EXCEPT ![f] =
            IF ends /\ Waiters(f) = {} THEN Free
            ELSE [@ EXCEPT !.stage = IF ends THEN "done" ELSE "backoff",
                           !.answer = answer]]
       /\ UNCHANGED <<circuit, waits, inflight, cached>>

MutRetriesForEver(f) ==   \* mutant: a retry is not counted
  /\ flight[f].stage = "backoff"
  /\ flight' = [flight EXCEPT ![f].stage = "slot"]
  /\ UNCHANGED <<circuit, waits, inflight, cached>>
Retry(f) ==
  /\ flight[f].stage = "backoff"
  /\ flight' = [flight EXCEPT ![f] =
       [flight[f] EXCEPT !.stage = "slot", !.tries = flight[f].tries + 1]]
  /\ UNCHANGED <<circuit, waits, inflight, cached>>

-----------------------------------------------------------------------------
(* A call ends. Its creator removes the request from _inflight, unless     *)
(* another one has taken its place.                                        *)

Popped(c) ==
  IF inflight \in Flights /\ inflight = waits[c] /\ flight[inflight].creator = c
  THEN NoFlight ELSE inflight

(* What the caller leaves behind: nothing, if its request is over and it   *)
(* is the last to see it; else a request without its creator.              *)
Left(c, over) ==
  LET f == waits[c]
  IN [flight EXCEPT ![f] =
        IF over /\ Waiters(f) = {c} THEN Free
        ELSE [flight[f] EXCEPT
                !.creator = IF flight[f].creator = c THEN Nobody ELSE flight[f].creator]]

(* _open_circuit.                                                          *)
OpenCircuit == open' = TRUE /\ streak' = TRUE

(* The creator caches an answer without "error"; every caller opens the    *)
(* circuit for the error of a rate limit, and closes it for no error.      *)
Resume(c) ==
  /\ waits[c] # NoFlight /\ flight[waits[c]].stage = "done"
  /\ LET f == waits[c]
         answer == flight[f].answer
     IN /\ waits' = [waits EXCEPT ![c] = NoFlight]
        /\ flight' = Left(c, TRUE)
        /\ inflight' = Popped(c)
        /\ cached' = (cached \/ /\ flight[f].creator = c /\ c \in Listers
                                /\ NoError(answer))
        /\ \/ answer = "limited" /\ OpenCircuit
           \/ /\ NoError(answer) /\ streak
              /\ open' = FALSE /\ streak' = FALSE
           \/ /\ answer # "limited" /\ ~(NoError(answer) /\ streak)
              /\ UNCHANGED circuit

MutNoShield(c) ==   \* mutant: the creator's cancellation reaches the task
  /\ waits[c] # NoFlight
  /\ waits' = [waits EXCEPT ![c] = NoFlight]
  /\ flight' = IF flight[waits[c]].creator = c
               THEN [flight EXCEPT ![waits[c]] = Free] ELSE Left(c, FALSE)
  /\ inflight' = Popped(c)
  /\ UNCHANGED <<circuit, cached>>
(* The timeout around the call, or the end of the caller's task: the OTP's *)
(* own request ends with it, a shared one goes on; an answer that has come *)
(* but was not seen is lost to the circuit.                                *)
StartupTimeout(c) ==
  /\ waits[c] # NoFlight
  /\ c \in Openers => flight[waits[c]].stage # "done"
  /\ waits' = [waits EXCEPT ![c] = NoFlight]
  /\ flight' = Left(c, c \in Openers \/ flight[waits[c]].stage = "done")
  /\ inflight' = Popped(c)
  /\ UNCHANGED <<circuit, cached>>

CooldownEnds ==
  /\ open /\ open' = FALSE
  /\ UNCHANGED <<streak, waits, flight, inflight, cached>>

CacheExpires ==
  /\ cached /\ cached' = FALSE
  /\ UNCHANGED <<circuit, waits, flight, inflight>>

Next ==
  \/ \E c \in Callers :
       \/ AnswerFromCache(c) \/ Join(c)
       \/ \E f \in Flights : Create(c, f)
       \/ Resume(c) \/ StartupTimeout(c)
  \/ \E f \in Flights : TakeSlot(f) \/ Answer(f) \/ Retry(f)
  \/ CooldownEnds \/ CacheExpires

Spec == Init /\ [][Next]_vars

(* The client's timeout ends every request, a retry sleeps for at most two *)
(* seconds, and the semaphore serves those who wait in their order. The    *)
(* timeout around a call gets no fairness: the broker must answer without. *)
Fairness ==
  /\ \A f \in Flights : SF_vars(TakeSlot(f)) /\ WF_vars(Answer(f)) /\ WF_vars(Retry(f))
  /\ \A c \in Callers : WF_vars(Resume(c))

FairSpec == Spec /\ Fairness

-----------------------------------------------------------------------------
(* A request is sent no more often than its kind allows.                   *)
TriesBounded(fl) ==
  /\ fl.tries <= Tries(fl.kind)
  /\ fl.stage = "backoff" => fl.tries < Tries(fl.kind)

FlightRecord ==
  [stage : Live \union {"free", "done"}, kind : Kinds, tries : 1 .. 3,
   answer : Answers, creator : Callers \union {Nobody}]

FlightType == {fl \in FlightRecord : TriesBounded(fl)}

(* Every variable keeps its type, the bound of a request's tries included. *)
TypeOK ==
  /\ open \in BOOLEAN /\ streak \in BOOLEAN /\ cached \in BOOLEAN
  /\ waits \in [Callers -> Flights \union {NoFlight}]
  /\ flight \in [Flights -> FlightType]
  /\ inflight \in Flights \union {NoFlight}

(* Whoever waits, waits for a request of its kind that is still there: the *)
(* end of one caller takes the request from no other.                      *)
WaitersServed ==
  \A c \in Callers : waits[c] # NoFlight =>
    /\ flight[waits[c]].stage # "free" /\ flight[waits[c]].kind = Kind(c)
    /\ c \in Openers => flight[waits[c]].creator = c

(* Of two requests for the same list under way at a time at most one still *)
(* has its creator: callers share, and only an abandoned one is repeated.  *)
ListsShared ==
  \A f, g \in Flights :
    /\ flight[f].kind = "list" /\ flight[f].stage \in Live /\ flight[f].creator # Nobody
    /\ flight[g].kind = "list" /\ flight[g].stage \in Live /\ flight[g].creator # Nobody
    => f = g

(* Every call ends, answered by the broker.                                *)
CallsEnd == \A c \in Callers : waits[c] # NoFlight ~> waits[c] = NoFlight

(* Why these hold: a creator waits for what it created, and a request that *)
(* still has its creator is the one in flight.                             *)
CreatorsWait ==
  \A f \in Flights :
    /\ flight[f].creator # Nobody =>
         /\ flight[f].creator \in Callers /\ waits[flight[f].creator] = f
         /\ flight[f].stage # "free"
    /\ flight[f].kind = "list" /\ flight[f].creator # Nobody
         /\ flight[f].stage \in Live => inflight = f

InflightCreated ==
  inflight # NoFlight =>
    /\ flight[inflight].kind = "list" /\ flight[inflight].stage # "free"
    /\ flight[inflight].creator # Nobody

BrokerInvariant ==
  TypeOK /\ WaitersServed /\ ListsShared /\ CreatorsWait /\ InflightCreated

(* What the code says and does not do. A request refused for rate is not   *)
(* sent again by its own retry loop.                                       *)
RefusedNotResent ==
  [][\A f \in Flights :
       TakeSlot(f) /\ flight[f].tries > 1 =>
         flight[f].answer \notin {"limited", "limitedArray"}]_vars
=============================================================================
