------------------------ MODULE RequestBroker_proofs ------------------------
(***************************************************************************)
(* Proofs about RequestBroker, for any callers, requests and slots.        *)
(***************************************************************************)
EXTENDS RequestBroker, TLAPS

(* The types of a flight, and of what a caller waits for.                  *)
LEMMA FreeType == Free \in FlightType
  BY DEF Free, FlightType, FlightRecord, TriesBounded, Tries, Live, Kinds, Answers

(* A flight that differs in its stage or its creator, without reaching a   *)
(* backoff, keeps its type.                                                *)
LEMMA FlightKeepsType ==
  ASSUME NEW fl \in FlightType, NEW next \in FlightRecord,
         next.kind = fl.kind, next.tries = fl.tries,
         next.stage = "backoff" => fl.tries < Tries(fl.kind)
  PROVE  next \in FlightType
  BY DEF FlightType, TriesBounded

LEMMA KindType == \A c \in Callers : Kind(c) \in Kinds
  BY DEF Kind, Kinds

(* What a caller that waits leaves behind: its flight is free, when it was *)
(* the only one waiting, or as it was, without it as the creator.          *)
LEMMA LeftBehind ==
  ASSUME TypeOK, NEW c \in Callers, NEW over \in BOOLEAN, waits[c] # NoFlight
  PROVE  /\ waits[c] \in Flights
         /\ Left(c, over) \in [Flights -> FlightType]
         /\ \A g \in Flights : g # waits[c] => Left(c, over)[g] = flight[g]
         /\ \/ /\ over /\ Waiters(waits[c]) = {c}
               /\ Left(c, over)[waits[c]] = Free
            \/ /\ Left(c, over)[waits[c]].stage = flight[waits[c]].stage
               /\ Left(c, over)[waits[c]].kind = flight[waits[c]].kind
               /\ Left(c, over)[waits[c]].creator =
                    IF flight[waits[c]].creator = c THEN Nobody
                    ELSE flight[waits[c]].creator
<1> DEFINE f == waits[c]
           Kept == [flight[f] EXCEPT
             !.creator = IF flight[f].creator = c THEN Nobody ELSE flight[f].creator]
<1>1. f \in Flights /\ flight \in [Flights -> FlightType]
  BY DEF TypeOK, FlightType
<1>2. flight[f] \in FlightType
  BY <1>1
<1>3. Kept \in FlightType
  <2>1. Kept \in FlightRecord /\ Kept.kind = flight[f].kind
        /\ Kept.tries = flight[f].tries /\ Kept.stage = flight[f].stage
    BY <1>2 DEF FlightType, FlightRecord
  <2> QED
    BY <1>2, <2>1, FlightKeepsType DEF FlightType, TriesBounded
<1>4. /\ Kept.stage = flight[f].stage /\ Kept.kind = flight[f].kind
      /\ Kept.creator = IF flight[f].creator = c THEN Nobody ELSE flight[f].creator
  BY <1>2 DEF FlightType, FlightRecord
<1>5. Left(c, over) = [flight EXCEPT ![f] = IF over /\ Waiters(f) = {c} THEN Free ELSE Kept]
  BY <1>1 DEF Left
<1> HIDE DEF Kept
<1>6. CASE over /\ Waiters(f) = {c}
  BY <1>1, <1>5, <1>6, FreeType
<1>7. CASE ~(over /\ Waiters(f) = {c})
  BY <1>1, <1>3, <1>4, <1>5, <1>7
<1> QED BY <1>6, <1>7

(* The initial states satisfy the invariant.                               *)
LEMMA BrokerInit == Init => BrokerInvariant
<1> SUFFICES ASSUME Init PROVE BrokerInvariant
  OBVIOUS
<1>1. open \in BOOLEAN /\ cached \in BOOLEAN
  BY DEF Init
<1>2. streak \in BOOLEAN
  BY DEF Init
<1>3. waits \in [Callers -> Flights \union {NoFlight}] /\ inflight \in Flights \union {NoFlight}
  BY DEF Init
<1>4. flight \in [Flights -> FlightType]
  BY FreeType DEF Init
<1>5. TypeOK
  BY <1>1, <1>2, <1>3, <1>4 DEF TypeOK, FlightType
<1>6. \A f \in Flights : flight[f].creator = Nobody
  BY DEF Init, Free
<1>7. WaitersServed /\ InflightCreated
  BY DEF Init, WaitersServed, InflightCreated
<1> QED BY <1>5, <1>6, <1>7 DEF BrokerInvariant, ListsShared, CreatorsWait

(* The steps of a flight leave its kind and its creator alone.             *)
LEMMA FlightMoves ==
  ASSUME BrokerInvariant, NEW f \in Flights, TakeSlot(f) \/ Answer(f) \/ Retry(f)
  PROVE  /\ flight' \in [Flights -> FlightType]
         /\ UNCHANGED <<open, streak, waits, inflight, cached>>
         /\ flight[f].stage \in Live
         /\ \A g \in Flights :
              g # f => flight'[g] = flight[g]
         /\ \/ /\ flight'[f].kind = flight[f].kind
               /\ flight'[f].creator = flight[f].creator
               /\ flight'[f].stage # "free"
            \/ Waiters(f) = {} /\ flight'[f] = Free
<1>0. TypeOK /\ flight \in [Flights -> FlightType] /\ flight[f] \in FlightType
  BY DEF BrokerInvariant, TypeOK, FlightType
<1> USE DEF circuit
<1>1. CASE TakeSlot(f)
  <2> DEFINE new == [flight[f] EXCEPT !.stage = "sent"]
  <2>1. new \in FlightRecord /\ new.kind = flight[f].kind /\ new.tries = flight[f].tries
        /\ new.creator = flight[f].creator /\ new.stage = "sent"
    BY <1>0 DEF FlightType, FlightRecord, Live
  <2>2. new \in FlightType
    BY <1>0, <2>1, FlightKeepsType
  <2>3. flight' = [flight EXCEPT ![f] = new]
    BY <1>1 DEF TakeSlot, Stage
  <2> HIDE DEF new
  <2> QED BY <1>0, <1>1, <2>1, <2>2, <2>3 DEF TakeSlot, Stage, Live
<1>2. CASE Answer(f)
  <2>0. flight[f].tries \in Nat /\ Tries(flight[f].kind) \in Nat
    BY <1>0 DEF FlightType, FlightRecord, Tries
  <2> DEFINE Over(answer) ==
               ~Retryable(answer) \/ flight[f].tries >= Tries(flight[f].kind)
  <2>a. PICK answer \in Answers :
          /\ flight[f].stage = "sent"
          /\ flight' = [flight EXCEPT ![f] =
               IF Over(answer) /\ Waiters(f) = {} THEN Free
               ELSE [@ EXCEPT !.stage = IF Over(answer) THEN "done" ELSE "backoff",
                              !.answer = answer]]
          /\ UNCHANGED <<circuit, waits, inflight, cached>>
    BY <1>2 DEF Answer
  <2>b. Over(answer) \in BOOLEAN /\ (Over(answer) \/ flight[f].tries < Tries(flight[f].kind))
    BY <2>0 DEF Retryable
  <2> HIDE DEF Over
  <2>1. PICK ends \in BOOLEAN :
          /\ flight[f].stage = "sent"
          /\ flight' = [flight EXCEPT ![f] =
               IF ends /\ Waiters(f) = {} THEN Free
               ELSE [@ EXCEPT !.stage = IF ends THEN "done" ELSE "backoff",
                              !.answer = answer]]
          /\ ends \/ flight[f].tries < Tries(flight[f].kind)
          /\ UNCHANGED <<circuit, waits, inflight, cached>>
    BY <2>a, <2>b
  <2>2. CASE ends /\ Waiters(f) = {}
    BY <1>0, <2>1, <2>2, FreeType DEF Live
  <2>3. CASE ~(ends /\ Waiters(f) = {})
    <3> DEFINE new == [flight[f] EXCEPT !.stage = IF ends THEN "done" ELSE "backoff",
                                       !.answer = answer]
    <3>1. new \in FlightRecord /\ new.kind = flight[f].kind /\ new.tries = flight[f].tries
          /\ new.creator = flight[f].creator /\ new.stage # "free"
          /\ (new.stage = "backoff" => ~ends)
      BY <1>0, <2>a DEF FlightType, FlightRecord, Live
    <3>2. flight' = [flight EXCEPT ![f] = new]
      BY <1>0, <2>1, <2>3
    <3> HIDE DEF new
    <3>3. new \in FlightType
      <4>1. new.stage = "backoff" => flight[f].tries < Tries(flight[f].kind)
        BY <2>1, <3>1
      <4> QED BY <1>0, <3>1, <4>1, FlightKeepsType
    <3> QED BY <1>0, <2>1, <3>1, <3>2, <3>3 DEF Live
  <2> QED BY <2>2, <2>3
<1>3. CASE Retry(f)
  <2> DEFINE new == [flight[f] EXCEPT !.stage = "slot", !.tries = flight[f].tries + 1]
  <2>1. new \in FlightType /\ new.kind = flight[f].kind
        /\ new.creator = flight[f].creator /\ new.stage # "free"
    <3> DEFINE more == flight[f].tries + 1
    <3>1. /\ flight[f].tries \in 1 .. 3 /\ flight[f].tries < Tries(flight[f].kind)
          /\ Tries(flight[f].kind) \in 2 .. 3
      BY <1>0, <1>3 DEF Retry, FlightType, FlightRecord, TriesBounded, Tries
    <3>2. more \in 1 .. 3 /\ more <= Tries(flight[f].kind)
      BY <3>1
    <3> HIDE DEF more
    <3>3. new \in FlightRecord /\ new.kind = flight[f].kind /\ new.tries = more
          /\ new.creator = flight[f].creator /\ new.stage = "slot"
      BY <1>0, <3>2 DEF FlightType, FlightRecord, Live, more
    <3> HIDE DEF new
    <3> QED BY <3>2, <3>3 DEF FlightType, TriesBounded
  <2>2. flight' = [flight EXCEPT ![f] = new]
    BY <1>3 DEF Retry
  <2> HIDE DEF new
  <2> QED BY <1>0, <1>3, <2>1, <2>2 DEF Retry, Live
<1> QED BY <1>1, <1>2, <1>3

(* The step of a caller that leaves its flight, answered or not.           *)
LEMMA CallerLeaves ==
  ASSUME BrokerInvariant, NEW c \in Callers, Resume(c) \/ StartupTimeout(c)
  PROVE  \E over \in BOOLEAN :
           /\ waits[c] # NoFlight
           /\ waits' = [waits EXCEPT ![c] = NoFlight]
           /\ flight' = Left(c, over)
           /\ inflight' = Popped(c)
           /\ c \in Openers => over
<1>1. CASE Resume(c)
  <2>1. /\ waits[c] # NoFlight /\ waits' = [waits EXCEPT ![c] = NoFlight]
        /\ flight' = Left(c, TRUE) /\ inflight' = Popped(c)
    BY <1>1 DEF Resume
  <2> QED BY <2>1
<1>2. CASE StartupTimeout(c)
  <2> DEFINE over == c \in Openers \/ flight[waits[c]].stage = "done"
  <2>1. /\ waits[c] # NoFlight /\ waits' = [waits EXCEPT ![c] = NoFlight]
        /\ flight' = Left(c, over) /\ inflight' = Popped(c)
    BY <1>2 DEF StartupTimeout
  <2>2. over \in BOOLEAN /\ (c \in Openers => over)
    OBVIOUS
  <2> HIDE DEF over
  <2> QED BY <2>1, <2>2
<1> QED BY <1>1, <1>2

LEMMA BrokerType == BrokerInvariant /\ [Next]_vars => TypeOK'
<1> SUFFICES ASSUME BrokerInvariant, [Next]_vars PROVE TypeOK'
  OBVIOUS
<1>0. TypeOK /\ flight \in [Flights -> FlightType]
  BY DEF BrokerInvariant, TypeOK, FlightType
<1>s. open' \in BOOLEAN /\ streak' \in BOOLEAN /\ cached' \in BOOLEAN
  BY <1>0 DEF TypeOK, Next, AnswerFromCache, Join, Create, Resume, StartupTimeout,
     TakeSlot, Stage, Answer, Retry, CooldownEnds, CacheExpires, OpenCircuit,
     circuit, vars
<1> DEFINE Rest == /\ waits' \in [Callers -> Flights \union {NoFlight}]
                   /\ flight' \in [Flights -> FlightType]
                   /\ inflight' \in Flights \union {NoFlight}
<1>1. ASSUME NEW c \in Callers, AnswerFromCache(c) PROVE Rest
  BY <1>0, <1>1 DEF TypeOK, AnswerFromCache
<1>2. ASSUME NEW c \in Callers, Join(c) PROVE Rest
  BY <1>0, <1>2 DEF TypeOK, Join, Current
<1>3. ASSUME NEW c \in Callers, NEW f \in Flights, Create(c, f) PROVE Rest
  <2>1. [Free EXCEPT !.stage = "slot", !.kind = Kind(c), !.creator = c] \in FlightType
    <3> DEFINE new == [Free EXCEPT !.stage = "slot", !.kind = Kind(c), !.creator = c]
    <3>1. new \in FlightRecord /\ new.tries = 1 /\ new.stage = "slot"
      BY KindType, FreeType DEF FlightType, FlightRecord, Live, Free
    <3> HIDE DEF new
    <3>2. new \in FlightType
      BY <3>1 DEF FlightType, TriesBounded, Tries
    <3> QED BY <3>2 DEF new
  <2> QED BY <1>0, <1>3, <2>1 DEF TypeOK, Create
<1>4. ASSUME NEW c \in Callers, Resume(c) \/ StartupTimeout(c) PROVE Rest
  <2>1. PICK over \in BOOLEAN :
           /\ waits[c] # NoFlight
           /\ waits' = [waits EXCEPT ![c] = NoFlight]
           /\ flight' = Left(c, over)
           /\ inflight' = Popped(c)
    BY <1>4, CallerLeaves
  <2> QED BY <1>0, <2>1, LeftBehind DEF TypeOK, Popped
<1>5. ASSUME NEW f \in Flights, TakeSlot(f) \/ Answer(f) \/ Retry(f) PROVE Rest
  BY <1>0, <1>5, FlightMoves DEF TypeOK
<1> HIDE DEF Rest
<1>6. Rest
  <2>1. CASE \E c \in Callers : \E f \in Flights : Create(c, f)
    BY <2>1, <1>3
  <2>2. CASE \E c \in Callers : AnswerFromCache(c) \/ Join(c)
    BY <2>2, <1>1, <1>2
  <2>3. CASE \E c \in Callers : Resume(c) \/ StartupTimeout(c)
    BY <2>3, <1>4
  <2>4. CASE \E f \in Flights : TakeSlot(f) \/ Answer(f) \/ Retry(f)
    BY <2>4, <1>5
  <2>5. CASE CooldownEnds \/ CacheExpires \/ UNCHANGED vars
    BY <1>0, <2>5 DEF TypeOK, CooldownEnds, CacheExpires, circuit, vars, Rest
  <2> QED BY <2>1, <2>2, <2>3, <2>4, <2>5 DEF Next
<1> QED BY <1>s, <1>6 DEF TypeOK, FlightType, Rest

(* The rest of the invariant.                                              *)
Shared == WaitersServed /\ ListsShared /\ CreatorsWait /\ InflightCreated

LEMMA BrokerShared == BrokerInvariant /\ [Next]_vars => Shared'
<1> SUFFICES ASSUME BrokerInvariant, [Next]_vars PROVE Shared'
  OBVIOUS
<1>0. TypeOK /\ WaitersServed /\ ListsShared /\ CreatorsWait /\ InflightCreated
  BY DEF BrokerInvariant
<1>a. flight \in [Flights -> FlightType] /\ waits \in [Callers -> Flights \union {NoFlight}]
  BY <1>0 DEF TypeOK, FlightType
<1>b. CreatorsWait' => ListsShared'
  BY DEF CreatorsWait, ListsShared
<1> USE BrokerAssumption
<1>1. ASSUME UNCHANGED <<waits, flight, inflight>> PROVE Shared'
  BY <1>0, <1>1 DEF Shared, WaitersServed, ListsShared, CreatorsWait, InflightCreated, Waiters
<1>2. ASSUME NEW c \in Callers, Join(c) PROVE Shared'
  <2>1. inflight \in Flights /\ flight[inflight].kind = "list"
        /\ flight[inflight].stage # "free" /\ inflight # NoFlight
    BY <1>0, <1>2 DEF Join, Current, InflightCreated
  <2>2. Kind(c) = "list" /\ c \notin Openers
    BY <1>2 DEF Join, Kind
  <2>3. WaitersServed'
    BY <1>0, <1>a, <1>2, <2>1, <2>2 DEF Join, WaitersServed
  <2>4. CreatorsWait'
    BY <1>0, <1>a, <1>2, <2>1 DEF Join, CreatorsWait
  <2>5. InflightCreated'
    BY <1>0, <1>2 DEF Join, InflightCreated
  <2> QED BY <1>b, <2>3, <2>4, <2>5 DEF Shared
<1>3. ASSUME NEW c \in Callers, NEW f \in Flights, Create(c, f) PROVE Shared'
  <2> DEFINE new == [Free EXCEPT !.stage = "slot", !.kind = Kind(c), !.creator = c]
  <2>1. new.stage = "slot" /\ new.kind = Kind(c) /\ new.creator = c
    BY DEF Free
  <2>2. /\ flight'[f] = new
        /\ \A g \in Flights : g # f => flight'[g] = flight[g]
        /\ waits'[c] = f
        /\ \A d \in Callers : d # c => waits'[d] = waits[d]
    BY <1>a, <1>3 DEF Create
  <2>3. /\ waits[c] = NoFlight /\ flight[f].stage = "free" /\ c # Nobody
        /\ inflight' = IF c \in Listers THEN f ELSE inflight
        /\ c \in Listers => ~Current(inflight)
    BY <1>3 DEF Create
  <2>4. \A d \in Callers : waits[d] # f
    BY <1>0, <2>3 DEF WaitersServed
  <2>5. \A g \in Flights : flight[g].creator # c
    BY <1>0, <2>3 DEF CreatorsWait
  <2> HIDE DEF new
  <2>6. WaitersServed'
    <3> SUFFICES ASSUME NEW d \in Callers, waits'[d] # NoFlight
                 PROVE  /\ flight'[waits'[d]].stage # "free"
                        /\ flight'[waits'[d]].kind = Kind(d)
                        /\ d \in Openers => flight'[waits'[d]].creator = d
      BY DEF WaitersServed
    <3>1. CASE d = c
      BY <2>1, <2>2, <3>1
    <3>2. CASE d # c
      <4>1. waits'[d] = waits[d] /\ waits[d] \in Flights /\ waits[d] # f
        BY <1>a, <2>2, <2>4, <3>2
      <4>2. flight'[waits[d]] = flight[waits[d]]
        BY <2>2, <4>1
      <4> QED BY <1>0, <4>1, <4>2 DEF WaitersServed
    <3> QED BY <3>1, <3>2
  <2>7. flight[f].creator = Nobody
    BY <1>0, <2>3 DEF CreatorsWait
  <2>8. Kind(c) = "list" <=> c \in Listers
    BY DEF Kind
  <2>9. CreatorsWait'
    BY <1>0, <2>1, <2>2, <2>3, <2>5, <2>8 DEF CreatorsWait, Current, Live
  <2>10. inflight # NoFlight => inflight # f
    BY <1>0, <2>3 DEF InflightCreated
  <2>11. InflightCreated'
    BY <1>0, <2>1, <2>2, <2>3, <2>8, <2>10 DEF InflightCreated, TypeOK
  <2> QED BY <1>b, <2>6, <2>9, <2>11 DEF Shared
<1>4. ASSUME NEW c \in Callers, Resume(c) \/ StartupTimeout(c) PROVE Shared'
  <2>1. PICK over \in BOOLEAN :
           /\ waits[c] # NoFlight
           /\ waits' = [waits EXCEPT ![c] = NoFlight]
           /\ flight' = Left(c, over)
           /\ inflight' = Popped(c)
           /\ c \in Openers => over
    BY <1>4, CallerLeaves
  <2> DEFINE f == waits[c]
  <2>2. /\ f \in Flights
        /\ \A g \in Flights : g # f => flight'[g] = flight[g]
        /\ \/ over /\ Waiters(f) = {c} /\ flight'[f] = Free
           \/ /\ flight'[f].stage = flight[f].stage
              /\ flight'[f].kind = flight[f].kind
              /\ flight'[f].creator = IF flight[f].creator = c THEN Nobody
                                      ELSE flight[f].creator
    BY <1>0, <2>1, LeftBehind
  <2>3. waits'[c] = NoFlight /\ \A d \in Callers : d # c => waits'[d] = waits[d]
    BY <1>a, <2>1
  <2>4. Waiters(f) = {c} => \A d \in Callers : d # c => waits[d] # f
    BY DEF Waiters
  <2>5. Free.creator = Nobody
    BY DEF Free
  <2> HIDE DEF f
  <2>6. ASSUME NEW d \in Callers, waits'[d] # NoFlight
        PROVE  /\ flight'[waits'[d]].stage # "free"
               /\ flight'[waits'[d]].kind = Kind(d)
               /\ d \in Openers => flight'[waits'[d]].creator = d
    <3>1. d # c /\ waits'[d] = waits[d] /\ waits[d] \in Flights
      BY <1>a, <2>3, <2>6
    <3>2. /\ flight[waits[d]].stage # "free" /\ flight[waits[d]].kind = Kind(d)
          /\ d \in Openers => flight[waits[d]].creator = d
      BY <1>0, <2>6, <3>1 DEF WaitersServed
    <3>3. CASE waits[d] # f
      BY <2>2, <3>1, <3>2, <3>3
    <3>4. CASE waits[d] = f
      BY <2>2, <2>4, <3>1, <3>2, <3>4
    <3> QED BY <3>3, <3>4
  <2>7. WaitersServed'
    BY <2>6 DEF WaitersServed
  <2>8. \A g \in Flights : flight'[g].creator # Nobody =>
          /\ flight'[g].creator = flight[g].creator /\ flight[g].creator # c
          /\ flight'[g].stage = flight[g].stage /\ flight'[g].kind = flight[g].kind
    <3> SUFFICES ASSUME NEW g \in Flights, flight'[g].creator # Nobody
                 PROVE  /\ flight'[g].creator = flight[g].creator /\ flight[g].creator # c
                        /\ flight'[g].stage = flight[g].stage
                        /\ flight'[g].kind = flight[g].kind
      OBVIOUS
    <3>1. CASE g = f
      BY <2>2, <2>5, <3>1
    <3>2. CASE g # f
      <4>1. flight'[g] = flight[g]
        BY <2>2, <3>2
      <4>2. flight[g].creator # c
        BY <1>0, <3>2, <4>1 DEF CreatorsWait, f
      <4> QED BY <4>1, <4>2
    <3> QED BY <3>1, <3>2
  <2>9. inflight' = IF inflight \in Flights /\ inflight = f /\ flight[inflight].creator = c
                    THEN NoFlight ELSE inflight
    BY <2>1 DEF Popped, f
  <2>10. CreatorsWait'
    <3> SUFFICES ASSUME NEW g \in Flights, flight'[g].creator # Nobody
                 PROVE  /\ flight'[g].creator \in Callers /\ waits'[flight'[g].creator] = g
                        /\ flight'[g].stage # "free"
                        /\ flight'[g].kind = "list" /\ flight'[g].stage \in Live
                             => inflight' = g
      BY DEF CreatorsWait
    <3>1. /\ flight'[g].creator = flight[g].creator /\ flight[g].creator # c
          /\ flight'[g].stage = flight[g].stage /\ flight'[g].kind = flight[g].kind
      BY <2>8
    <3>2. /\ flight[g].creator \in Callers /\ waits[flight[g].creator] = g
          /\ flight[g].stage # "free"
          /\ flight[g].kind = "list" /\ flight[g].stage \in Live => inflight = g
      BY <1>0, <3>1 DEF CreatorsWait
    <3> QED BY <2>3, <2>9, <3>1, <3>2
  <2>11. InflightCreated'
    <3> SUFFICES ASSUME inflight' # NoFlight
                 PROVE  /\ flight'[inflight'].kind = "list" /\ flight'[inflight'].stage # "free"
                        /\ flight'[inflight'].creator # Nobody
      BY DEF InflightCreated
    <3>1. inflight' = inflight /\ inflight \in Flights
          /\ ~(inflight = f /\ flight[inflight].creator = c)
      BY <1>0, <2>9 DEF TypeOK
    <3>2. /\ flight[inflight].kind = "list" /\ flight[inflight].stage # "free"
          /\ flight[inflight].creator # Nobody
      BY <1>0, <3>1 DEF InflightCreated
    <3>3. CASE inflight # f
      BY <2>2, <3>1, <3>2, <3>3
    <3>4. CASE inflight = f
      <4>1. flight[f].creator \in Callers /\ waits[flight[f].creator] = f
        BY <1>0, <2>2, <3>2, <3>4 DEF CreatorsWait
      <4>2. ~(Waiters(f) = {c})
        BY <2>4, <3>1, <3>4, <4>1
      <4> QED BY <2>2, <3>1, <3>2, <3>4, <4>2
    <3> QED BY <3>3, <3>4
  <2> QED BY <1>b, <2>7, <2>10, <2>11 DEF Shared
<1>5. ASSUME NEW f \in Flights, TakeSlot(f) \/ Answer(f) \/ Retry(f) PROVE Shared'
  <2>1. /\ UNCHANGED <<waits, inflight>>
        /\ flight[f].stage \in Live
        /\ \A g \in Flights : g # f => flight'[g] = flight[g]
        /\ \/ /\ flight'[f].kind = flight[f].kind
              /\ flight'[f].creator = flight[f].creator
              /\ flight'[f].stage # "free"
           \/ Waiters(f) = {} /\ flight'[f] = Free
    BY <1>5, FlightMoves
  <2>2. CASE Waiters(f) = {} /\ flight'[f] = Free
    <3>1. \A d \in Callers : waits[d] # f
      BY <2>2 DEF Waiters
    <3>2. flight[f].creator = Nobody /\ flight'[f].creator = Nobody
      BY <1>0, <2>2, <3>1 DEF CreatorsWait, Free
    <3>3. inflight # f
      BY <1>0, <3>2 DEF InflightCreated
    <3>4. WaitersServed'
      BY <1>0, <1>a, <2>1, <3>1 DEF WaitersServed
    <3>5. CreatorsWait'
      BY <1>0, <2>1, <3>2 DEF CreatorsWait
    <3>6. InflightCreated'
      BY <1>0, <2>1, <3>3 DEF InflightCreated, TypeOK
    <3> QED BY <1>b, <3>4, <3>5, <3>6 DEF Shared
  <2>3. CASE /\ flight'[f].kind = flight[f].kind
             /\ flight'[f].creator = flight[f].creator
             /\ flight'[f].stage # "free"
    <3>4. WaitersServed'
      BY <1>0, <1>a, <2>1, <2>3 DEF WaitersServed
    <3>5. CreatorsWait'
      BY <1>0, <2>1, <2>3 DEF CreatorsWait
    <3>6. InflightCreated'
      BY <1>0, <2>1, <2>3 DEF InflightCreated, TypeOK
    <3> QED BY <1>b, <3>4, <3>5, <3>6 DEF Shared
  <2> QED BY <2>1, <2>2, <2>3
<1>6. ASSUME NEW c \in Callers, AnswerFromCache(c) PROVE Shared'
  BY <1>1, <1>6 DEF AnswerFromCache
<1>7. CASE CooldownEnds \/ CacheExpires \/ UNCHANGED vars
  BY <1>1, <1>7 DEF CooldownEnds, CacheExpires, vars
<1> QED BY <1>2, <1>3, <1>4, <1>5, <1>6, <1>7 DEF Next

(* The inductive invariant of the broker (deriv_request_broker.py).        *)
THEOREM BrokerInvariantTheorem == Spec => []BrokerInvariant
<1>1. BrokerInvariant /\ [Next]_vars => BrokerInvariant'
  BY BrokerType, BrokerShared DEF BrokerInvariant, Shared
<1> QED BY BrokerInit, <1>1, PTL DEF Spec

(* Every variable keeps its type, and no request is sent more often than   *)
(* its kind allows.                                                        *)
THEOREM BrokerTypes == Spec => []TypeOK
<1>1. BrokerInvariant => TypeOK
  BY DEF BrokerInvariant
<1> QED BY <1>1, BrokerInvariantTheorem, PTL

(* No caller's end takes a shared request from those who still wait.       *)
THEOREM NobodyWaitsInVain == Spec => []WaitersServed
<1>1. BrokerInvariant => WaitersServed
  BY DEF BrokerInvariant
<1> QED BY <1>1, BrokerInvariantTheorem, PTL

(* Account lists are requested once for all who ask at a time, but for     *)
(* requests whose creator is gone.                                         *)
THEOREM RequestsAreShared == Spec => []ListsShared
<1>1. BrokerInvariant => ListsShared
  BY DEF BrokerInvariant
<1> QED BY <1>1, BrokerInvariantTheorem, PTL
=============================================================================
