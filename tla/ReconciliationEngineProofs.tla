--------------------- MODULE ReconciliationEngineProofs ---------------------
(***************************************************************************)
(* Proofs about the reconciliation engine and its operator queue, for any  *)
(* number of intents, workers, tokens, crashes and restarts and any way    *)
(* the provider may answer.                                                *)
(*                                                                         *)
(* A restart rebuilds the queue from its transition log, continues the     *)
(* numbering after the item of the last snapshot and starts an empty log   *)
(* (queue.py:130-137). So the index is right until the first restart, and  *)
(* a later one may lose items, but never changes one.                      *)
(***************************************************************************)
EXTENDS ReconciliationEngine, TLAPS

(* A token is held by one worker and is older than the next one.           *)
TokensInv ==
  /\ \A w \in Workers : worker[w].token < nextToken
  /\ \A v, w \in Workers : v # w /\ worker[v].token = worker[w].token => worker[w].token = 0

(* As long as the item carries the call's token, the call works under the  *)
(* latest claim, and what it has read of the item is still so.             *)
OwnerKnows(c) ==
  /\ c.claim = claims[c.item]
  /\ c.pc \in {"reading", "answered"} => c.attempts = items[c.item].attempts

CallInv(c) ==
  c.pc # "idle" =>
    /\ c.item \in ItemIds /\ c.token > 0
    /\ c.pc = "answered" => c.class \in ReconciliationClass
    /\ items[c.item].token = c.token => OwnerKnows(c)

(* The log has each item as it is or not at all, and all of them until the *)
(* first restart.                                                          *)
LogInv ==
  /\ \A i \in ItemIds : log.items[i] \in {NoItem, items[i]}
  /\ restarts = 0 => log.items = items /\ log.byIntent = byIntent

(* Until then the index and the items in use agree.                        *)
IndexInv ==
  restarts = 0 =>
    /\ \A i \in ItemIds : i >= sequence => items[i] = NoItem
    /\ \A n \in Intents : byIntent[n] # 0 => items[byIntent[n]].intent = {n}
    /\ \A i \in ItemIds : InUse(i) =>
         \E n \in Intents : items[i].intent = {n} /\ byIntent[n] = i

EngineInv ==
  /\ TypeOK /\ TokensInv /\ LogInv /\ IndexInv
  /\ \A w \in Workers : CallInv(worker[w])
  /\ BoundedRequeue

-----------------------------------------------------------------------------
(* The records and the helpers                                             *)

LEMMA Statuses ==
  /\ {PENDING, CLASSIFYING, SAFE_RETRYABLE, ESCALATED, RESOLVED, ABANDONED} \subseteq QueueItemStatus
  /\ "NONE" \notin QueueItemStatus
  /\ PENDING # SAFE_RETRYABLE /\ CLASSIFYING # PENDING /\ CLASSIFYING # SAFE_RETRYABLE
  /\ RESOLVED # PENDING /\ RESOLVED # SAFE_RETRYABLE
  /\ ABANDONED # PENDING /\ ABANDONED # SAFE_RETRYABLE
  /\ ESCALATED # PENDING /\ ESCALATED # SAFE_RETRYABLE /\ RESOLVED # ESCALATED
BY DEF QueueItemStatus, PENDING, CLASSIFYING, SAFE_RETRYABLE, ESCALATED, RESOLVED, ABANDONED

LEMMA NoItemType ==
  /\ NoItem \in QueueItem /\ NoItem.status = "NONE" /\ NoItem.token = 0
  /\ NoItem.attempts = 0 /\ NoItem.escalatedFrom = "NONE" /\ NoItem.intent = {}
BY DEF NoItem, QueueItem

LEMMA NewItem ==
  ASSUME NEW n \in Intents, NEW kind \in Kinds
  PROVE  LET y == [NoItem EXCEPT !.intent = {n}, !.kind = kind, !.status = PENDING] IN
           /\ y \in QueueItem /\ y.intent = {n} /\ y.status = PENDING /\ y.attempts = 0
           /\ y.token = 0 /\ y.escalatedFrom = "NONE"
BY Statuses DEF NoItem, QueueItem

LEMMA ClaimedItem ==
  ASSUME NEW x \in QueueItem, NEW t \in Nat
  PROVE  LET y == [x EXCEPT !.status = CLASSIFYING, !.token = t] IN
           /\ y \in QueueItem /\ y.intent = x.intent /\ y.status = CLASSIFYING
           /\ y.attempts = x.attempts /\ y.token = t /\ y.escalatedFrom = x.escalatedFrom
BY Statuses DEF QueueItem

LEMMA DecidedItem ==
  ASSUME NEW x \in QueueItem, NEW next \in QueueItemStatus
  PROVE  LET y == [x EXCEPT !.status = next] IN
           /\ y \in QueueItem /\ y.intent = x.intent /\ y.status = next
           /\ y.attempts = x.attempts /\ y.token = x.token /\ y.escalatedFrom = x.escalatedFrom
BY DEF QueueItem

LEMMA IdleType ==
  /\ Idle \in Call /\ Idle.pc = "idle" /\ Idle.token = 0
  /\ \A t \in 0..MaxToken : LET d == [Idle EXCEPT !.token = t] IN
       d \in Call /\ d.pc = "idle" /\ d.token = t
BY QueueAssumption DEF Idle, Call

LEMMA CallFields ==
  ASSUME NEW c \in Call
  PROVE  /\ c.pc \in {"idle", "claimed", "reading", "answered"} /\ c.item \in 0..MaxItems
         /\ c.token \in 0..MaxToken /\ c.attempts \in Nat /\ c.claim \in Nat
         /\ c.class \in ReconciliationClass \cup {"NONE"}
BY DEF Call

(* Where a classification sends an item: back to the queue only while      *)
(* attempts are left, to the retry lane only on ABSENT.                    *)
LEMMA NextStatusFacts ==
  ASSUME NEW class \in ReconciliationClass, NEW attempts \in Nat
  PROVE  /\ NextStatus(class, attempts) \in QueueItemStatus
         /\ NextStatus(class, attempts) = PENDING => attempts + 1 < MaxAttempts
         /\ NextStatus(class, attempts) = SAFE_RETRYABLE => class = "ABSENT"
BY DEF NextStatus, ReconciliationClass, QueueItemStatus, PENDING, CLASSIFYING,
   SAFE_RETRYABLE, ESCALATED, RESOLVED, ABANDONED

LEMMA ClassifyType ==
  ASSUME NEW n \in Intents, NEW kind, NEW read, NEW query, NEW ping,
         doc \in [Intents -> Docs]
  PROVE  Classify(n, kind, read, query, ping) \in ReconciliationClass
BY DEF Classify, ClassifyPost, ClassifyPayment, Rejected, ReconciliationClass

-----------------------------------------------------------------------------
(* Writing an item                                                         *)

LEMMA Stored ==
  ASSUME QueueTypeOK, NEW i \in ItemIds, NEW item \in QueueItem, Store(i, item)
  PROVE  /\ items' \in [ItemIds -> QueueItem] /\ items'[i] = item
         /\ \A j \in ItemIds : j # i => items'[j] = items[j]
         /\ log' \in Log /\ log'.items[i] = item
         /\ \A j \in ItemIds : j # i => log'.items[j] = log.items[j]
         /\ \A n \in Intents : log'.byIntent[n] = IF n \in item.intent THEN i ELSE log.byIntent[n]
         /\ log'.last = i
<1>1. /\ log.items \in [ItemIds -> QueueItem] /\ log.byIntent \in [Intents -> 0..MaxItems]
      /\ i \in 0..MaxItems
  BY QueueAssumption DEF QueueTypeOK, Log, ItemIds
<1> DEFINE f == [log.items EXCEPT ![i] = item]
           g == [n \in Intents |-> IF n \in item.intent THEN i ELSE log.byIntent[n]]
           new == [items |-> f, byIntent |-> g, last |-> i]
<1>2. f \in [ItemIds -> QueueItem] /\ f[i] = item /\ \A j \in ItemIds : j # i => f[j] = log.items[j]
  BY <1>1
<1>3. g \in [Intents -> 0..MaxItems]
      /\ \A n \in Intents : g[n] = IF n \in item.intent THEN i ELSE log.byIntent[n]
  BY <1>1
<1>4. log' = new
  BY DEF Store
<1> HIDE DEF f, g
<1>5. new \in Log /\ new.items = f /\ new.byIntent = g /\ new.last = i
  BY <1>1, <1>2, <1>3 DEF Log
<1>6. /\ items' \in [ItemIds -> QueueItem] /\ items'[i] = item
      /\ \A j \in ItemIds : j # i => items'[j] = items[j]
  BY DEF Store, QueueTypeOK
<1> QED BY <1>2, <1>3, <1>4, <1>5, <1>6

(* Every transition of an item in use keeps its intent.                    *)
LEMMA Rewritten ==
  ASSUME QueueTypeOK, LogInv, IndexInv, NEW i \in ItemIds, InUse(i), NEW item \in QueueItem,
         item.intent = items[i].intent, item.status # "NONE", Store(i, item),
         UNCHANGED <<byIntent, sequence, restarts>>
  PROVE  /\ QueueTypeOK' /\ LogInv' /\ IndexInv' /\ items'[i] = item
         /\ \A j \in ItemIds : j # i => items'[j] = items[j]
<1>1. /\ items' \in [ItemIds -> QueueItem] /\ items'[i] = item
      /\ \A j \in ItemIds : j # i => items'[j] = items[j]
      /\ log' \in Log /\ log'.items[i] = item
      /\ \A j \in ItemIds : j # i => log'.items[j] = log.items[j]
      /\ \A n \in Intents : log'.byIntent[n] = IF n \in item.intent THEN i ELSE log.byIntent[n]
  BY Stored
<1>2. QueueTypeOK'
  BY <1>1 DEF QueueTypeOK
<1>3. /\ log'.items \in [ItemIds -> QueueItem] /\ log'.byIntent \in [Intents -> 0..MaxItems]
  BY <1>1 DEF Log
<1>4. LogInv'
  <2>1. \A j \in ItemIds : log'.items[j] \in {NoItem, items'[j]}
    BY <1>1 DEF LogInv
  <2>2. ASSUME restarts = 0 PROVE log'.items = items'
    BY <1>1, <1>3, <2>2 DEF LogInv
  <2>3. ASSUME restarts = 0 PROVE log'.byIntent = byIntent
    <3>1. PICK n \in Intents : item.intent = {n} /\ byIntent[n] = i
      BY <2>3 DEF IndexInv
    <3>2. \A m \in Intents : log'.byIntent[m] = byIntent[m]
      BY <1>1, <2>3, <3>1 DEF LogInv
    <3> QED BY <1>3, <3>2 DEF QueueTypeOK
  <2> QED BY <2>1, <2>2, <2>3 DEF LogInv
<1>5. IndexInv'
  <2> SUFFICES ASSUME restarts = 0
               PROVE  /\ \A j \in ItemIds : j >= sequence => items'[j] = NoItem
                      /\ \A n \in Intents : byIntent[n] # 0 => items'[byIntent[n]].intent = {n}
                      /\ \A j \in ItemIds : items'[j].status # "NONE" =>
                           \E n \in Intents : items'[j].intent = {n} /\ byIntent[n] = j
    BY DEF IndexInv, InUse
  <2>1. \A j \in ItemIds : j >= sequence => items'[j] = NoItem
    BY <1>1, NoItemType DEF IndexInv, InUse
  <2>2. \A n \in Intents : byIntent[n] # 0 => byIntent[n] \in ItemIds
    BY QueueAssumption DEF QueueTypeOK, ItemIds
  <2>3. \A n \in Intents : byIntent[n] # 0 => items'[byIntent[n]].intent = {n}
    BY <1>1, <2>2 DEF IndexInv
  <2>4. \A j \in ItemIds : items'[j].status # "NONE" =>
          \E n \in Intents : items'[j].intent = {n} /\ byIntent[n] = j
    BY <1>1 DEF IndexInv, InUse
  <2> QED BY <2>1, <2>3, <2>4
<1> QED BY <1>1, <1>2, <1>4, <1>5

(* A call that is not part of the step keeps what it knows.                *)
LEMMA CallKept ==
  ASSUME NEW v \in Workers, CallInv(worker[v]), worker'[v] = worker[v], doc' = doc,
         worker[v].pc # "idle" /\ items'[worker[v].item].token = worker[v].token =>
           /\ items[worker[v].item].token = worker[v].token
           /\ items'[worker[v].item].attempts = items[worker[v].item].attempts
           /\ items'[worker[v].item].intent = items[worker[v].item].intent
           /\ claims'[worker[v].item] = claims[worker[v].item]
  PROVE  CallInv(worker[v])'
BY DEF CallInv, OwnerKnows

LEMMA WorkerSet ==
  ASSUME worker \in [Workers -> Call], NEW w \in Workers, NEW d \in Call,
         worker' = [worker EXCEPT ![w] = d]
  PROVE  /\ worker' \in [Workers -> Call] /\ worker'[w] = d
         /\ \A v \in Workers : v # w => worker'[v] = worker[v]
OBVIOUS

LEMMA TokensKept ==
  ASSUME TokensInv, nextToken' = nextToken,
         \A v \in Workers : worker'[v].token = worker[v].token
  PROVE  TokensInv'
BY DEF TokensInv

LEMMA BoundKept ==
  ASSUME BoundedRequeue, NEW i \in ItemIds,
         \A j \in ItemIds : j # i => items'[j] = items[j],
         items'[i].status = PENDING => items'[i].attempts < MaxAttempts
  PROVE  BoundedRequeue'
BY DEF BoundedRequeue

(* The step of one worker that leaves the queue alone.                     *)
LEMMA CallStep ==
  ASSUME EngineInv, NEW w \in Workers, NEW d \in Call, worker' = [worker EXCEPT ![w] = d],
         d.token = worker[w].token, UNCHANGED <<queueVars, doc, nextToken, claims>>,
         crashes' \in 0..MaxCrashes, CallInv(d)
  PROVE  EngineInv'
<1>1. /\ items' = items /\ byIntent' = byIntent /\ sequence' = sequence /\ log' = log
      /\ restarts' = restarts /\ doc' = doc /\ nextToken' = nextToken /\ claims' = claims
  BY DEF queueVars
<1>2. TypeOK /\ TokensInv /\ LogInv /\ IndexInv /\ BoundedRequeue
      /\ \A v \in Workers : CallInv(worker[v])
  BY DEF EngineInv
<1>3. /\ worker' \in [Workers -> Call] /\ worker'[w] = d
      /\ \A v \in Workers : v # w => worker'[v] = worker[v]
  BY <1>2, WorkerSet DEF TypeOK
<1>4. TypeOK'
  BY <1>1, <1>2, <1>3 DEF TypeOK, QueueTypeOK
<1>5. TokensInv'
  BY <1>1, <1>2, <1>3, TokensKept
<1>6. LogInv' /\ IndexInv' /\ BoundedRequeue'
  BY <1>1, <1>2 DEF LogInv, IndexInv, InUse, BoundedRequeue
<1>7. ASSUME NEW v \in Workers PROVE CallInv(worker[v])'
  <2>1. CASE v = w
    BY <1>1, <1>3, <2>1 DEF CallInv, OwnerKnows
  <2>2. CASE v # w
    BY <1>1, <1>2, <1>3, <2>2, CallKept
  <2> QED BY <2>1, <2>2
<1> QED BY <1>4, <1>5, <1>6, <1>7 DEF EngineInv

LEMMA EnqueueStep ==
  ASSUME EngineInv, NEW n \in Intents, NEW kind \in Kinds, EnqueueUncertain(n, kind)
  PROVE  EngineInv'
<1> DEFINE item == [NoItem EXCEPT !.intent = {n}, !.kind = kind, !.status = PENDING]
           q == sequence
<1>1. TypeOK /\ QueueTypeOK /\ TokensInv /\ LogInv /\ IndexInv /\ BoundedRequeue
      /\ \A v \in Workers : CallInv(worker[v])
  BY DEF EngineInv, TypeOK
<1>2. /\ byIntent[n] = 0 /\ q \in ItemIds /\ Store(q, item)
      /\ byIntent' = [byIntent EXCEPT ![n] = q] /\ sequence' = q + 1
      /\ claims' = [claims EXCEPT ![q] = 0] /\ restarts' = restarts /\ crashes' = crashes
      /\ worker' = worker /\ doc' = doc /\ nextToken' = nextToken
  BY <1>1, QueueAssumption DEF EnqueueUncertain, Enqueue, QueueTypeOK, ItemIds
<1>3. /\ item \in QueueItem /\ item.intent = {n} /\ item.status = PENDING /\ item.attempts = 0
      /\ item.token = 0 /\ item.escalatedFrom = "NONE"
  BY NewItem
<1> HIDE DEF item
<1>4. /\ items' \in [ItemIds -> QueueItem] /\ items'[q] = item
      /\ \A j \in ItemIds : j # q => items'[j] = items[j]
      /\ log' \in Log /\ log'.items[q] = item
      /\ \A j \in ItemIds : j # q => log'.items[j] = log.items[j]
      /\ \A m \in Intents : log'.byIntent[m] = IF m \in item.intent THEN q ELSE log.byIntent[m]
  BY <1>1, <1>2, <1>3, Stored
<1>5. byIntent' \in [Intents -> 0..MaxItems] /\ sequence' \in 1..(MaxItems + 1)
      /\ claims' \in [ItemIds -> Nat]
  BY <1>1, <1>2, QueueAssumption DEF TypeOK, QueueTypeOK, ItemIds
<1>6. TypeOK'
  BY <1>1, <1>2, <1>4, <1>5 DEF TypeOK, QueueTypeOK
<1>7. TokensInv'
  BY <1>1, <1>2, TokensKept
<1>8. LogInv'
  <2>1. \A j \in ItemIds : log'.items[j] \in {NoItem, items'[j]}
    BY <1>1, <1>4 DEF LogInv
  <2>2. /\ log'.items \in [ItemIds -> QueueItem] /\ log'.byIntent \in [Intents -> 0..MaxItems]
    BY <1>4 DEF Log
  <2>3. ASSUME restarts = 0 PROVE log'.items = items'
    BY <1>1, <1>4, <2>2, <2>3 DEF LogInv
  <2>4. ASSUME restarts = 0 PROVE log'.byIntent = byIntent'
    <3>1. \A m \in Intents : log'.byIntent[m] = byIntent'[m]
      BY <1>1, <1>2, <1>3, <1>4, <2>4 DEF LogInv, QueueTypeOK
    <3> QED BY <1>5, <2>2, <3>1
  <2> QED BY <1>2, <2>1, <2>3, <2>4 DEF LogInv
<1>9. IndexInv'
  <2> SUFFICES ASSUME restarts = 0
               PROVE  /\ \A j \in ItemIds : j >= q + 1 => items'[j] = NoItem
                      /\ \A m \in Intents : byIntent'[m] # 0 => items'[byIntent'[m]].intent = {m}
                      /\ \A j \in ItemIds : items'[j].status # "NONE" =>
                           \E m \in Intents : items'[j].intent = {m} /\ byIntent'[m] = j
    BY <1>2 DEF IndexInv, InUse
  <2>1. q \in Nat /\ ItemIds \subseteq Nat
    BY <1>2 DEF ItemIds
  <2>2. \A j \in ItemIds : j >= q + 1 => items'[j] = NoItem
    <3>1. \A j \in ItemIds : j >= q => items[j] = NoItem
      BY <1>1 DEF IndexInv
    <3>2. \A j \in ItemIds : j >= q + 1 => j >= q /\ j # q
      BY <2>1
    <3> QED BY <3>1, <3>2, <1>4
  <2>3. items[q] = NoItem
    BY <1>1, <1>2, <2>1 DEF IndexInv
  <2>4. \A m \in Intents : m # n => byIntent'[m] = byIntent[m]
    BY <1>1, <1>2 DEF QueueTypeOK
  <2>5. byIntent'[n] = q
    BY <1>1, <1>2 DEF QueueTypeOK
  <2>6. \A m \in Intents : byIntent[m] # 0 => byIntent[m] \in ItemIds /\ byIntent[m] # q
    <3>1. \A m \in Intents : byIntent[m] # 0 => byIntent[m] \in ItemIds
      BY <1>1, QueueAssumption DEF QueueTypeOK, ItemIds
    <3>2. \A m \in Intents : byIntent[m] # 0 => items[byIntent[m]].intent = {m}
      BY <1>1 DEF IndexInv
    <3> QED BY <2>3, <3>1, <3>2, NoItemType
  <2>7. \A m \in Intents : byIntent'[m] # 0 => items'[byIntent'[m]].intent = {m}
    BY <1>1, <1>3, <1>4, <2>4, <2>5, <2>6 DEF IndexInv
  <2>8. ASSUME NEW j \in ItemIds, items'[j].status # "NONE"
        PROVE  \E m \in Intents : items'[j].intent = {m} /\ byIntent'[m] = j
    <3>1. CASE j = q
      BY <1>3, <1>4, <2>5, <3>1
    <3>2. CASE j # q
      <4>1. PICK m \in Intents : items[j].intent = {m} /\ byIntent[m] = j
        BY <1>1, <1>4, <2>8, <3>2 DEF IndexInv, InUse
      <4>2. m # n
        BY <1>2, <2>1, <4>1 DEF ItemIds
      <4> QED BY <1>4, <2>4, <3>2, <4>1, <4>2
    <3> QED BY <3>1, <3>2
  <2> QED BY <2>2, <2>7, <2>8
<1>10. ASSUME NEW v \in Workers PROVE CallInv(worker[v])'
  <2>1. \A i \in ItemIds : i # q => claims'[i] = claims[i]
    BY <1>1, <1>2 DEF TypeOK
  <2>2. worker[v].pc # "idle" => worker[v].item \in ItemIds /\ worker[v].token > 0
    BY <1>1 DEF CallInv
  <2>3. worker[v].token \in Nat
    BY <1>1, CallFields DEF TypeOK
  <2> QED BY <1>1, <1>2, <1>3, <1>4, <2>1, <2>2, <2>3, CallKept
<1>11. BoundedRequeue'
  BY <1>1, <1>2, <1>3, <1>4, EngineAssumption, BoundKept
<1> QED BY <1>6, <1>7, <1>8, <1>9, <1>10, <1>11 DEF EngineInv

LEMMA NewTokenStep ==
  ASSUME EngineInv, NEW w \in Workers, NewToken(w)
  PROVE  EngineInv'
<1> DEFINE d == [worker[w] EXCEPT !.token = nextToken]
<1>1. TypeOK /\ TokensInv /\ LogInv /\ IndexInv /\ BoundedRequeue
      /\ \A v \in Workers : CallInv(worker[v])
  BY DEF EngineInv
<1>2. /\ worker[w].pc = "idle" /\ nextToken \in 1..MaxToken /\ nextToken' = nextToken + 1
      /\ items' = items /\ byIntent' = byIntent /\ sequence' = sequence /\ log' = log
      /\ restarts' = restarts /\ doc' = doc /\ claims' = claims /\ crashes' = crashes
  BY <1>1, QueueAssumption DEF NewToken, queueVars, TypeOK
<1>3. worker' = [worker EXCEPT ![w] = d]
  BY DEF NewToken
<1>4. \A c \in Call, t \in 0..MaxToken : LET e == [c EXCEPT !.token = t] IN
        e \in Call /\ e.pc = c.pc /\ e.token = t
  BY DEF Call
<1>5. d \in Call /\ d.pc = "idle" /\ d.token = nextToken
  <2>1. worker[w] \in Call /\ nextToken \in 0..MaxToken
    BY <1>1, <1>2 DEF TypeOK
  <2> QED BY <1>2, <1>4, <2>1
<1> HIDE DEF d
<1>6. /\ worker' \in [Workers -> Call] /\ worker'[w] = d
      /\ \A v \in Workers : v # w => worker'[v] = worker[v]
  BY <1>1, <1>3, <1>5, WorkerSet DEF TypeOK
<1>7. TypeOK'
  BY <1>1, <1>2, <1>6, QueueAssumption DEF TypeOK, QueueTypeOK
<1>8. TokensInv'
  <2>1. \A v \in Workers : worker[v].token \in Nat
    BY <1>1, CallFields DEF TypeOK
  <2> QED BY <1>1, <1>2, <1>5, <1>6, <2>1 DEF TokensInv
<1>9. LogInv' /\ IndexInv' /\ BoundedRequeue'
  BY <1>1, <1>2 DEF LogInv, IndexInv, InUse, BoundedRequeue
<1>10. ASSUME NEW v \in Workers PROVE CallInv(worker[v])'
  <2>1. CASE v = w
    BY <1>5, <1>6, <2>1 DEF CallInv
  <2>2. CASE v # w
    BY <1>1, <1>2, <1>6, <2>2, CallKept
  <2> QED BY <2>1, <2>2
<1> QED BY <1>7, <1>8, <1>9, <1>10 DEF EngineInv

(* classify_next and the takeover: the worker's token goes to the item.    *)
LEMMA ClaimStep ==
  ASSUME EngineInv, NEW w \in Workers, NEW i \in ItemIds, worker[w].token > 0, InUse(i),
         Store(i, [items[i] EXCEPT !.status = CLASSIFYING, !.token = worker[w].token]),
         UNCHANGED <<byIntent, sequence, restarts>>, Claimed(w, i)
  PROVE  EngineInv'
<1> DEFINE t == worker[w].token
           item == [items[i] EXCEPT !.status = CLASSIFYING, !.token = t]
           d == [worker[w] EXCEPT !.pc = "claimed", !.item = i, !.claim = claims[i] + 1]
<1>1. TypeOK /\ QueueTypeOK /\ TokensInv /\ LogInv /\ IndexInv /\ BoundedRequeue
      /\ \A v \in Workers : CallInv(worker[v])
  BY DEF EngineInv, TypeOK
<1>2. /\ worker[w] \in Call /\ items[i] \in QueueItem /\ claims[i] \in Nat
      /\ claims \in [ItemIds -> Nat] /\ i \in 0..MaxItems
  BY <1>1, QueueAssumption DEF TypeOK, QueueTypeOK, ItemIds
<1>3. t \in Nat
  BY <1>2, CallFields
<1>4. /\ worker' = [worker EXCEPT ![w] = d] /\ claims' = [claims EXCEPT ![i] = @ + 1]
      /\ doc' = doc /\ nextToken' = nextToken /\ crashes' = crashes
  BY DEF Claimed
<1>5. \A c \in Call, k \in Nat :
        LET e == [c EXCEPT !.pc = "claimed", !.item = i, !.claim = k] IN
          /\ e \in Call /\ e.pc = "claimed" /\ e.item = i /\ e.claim = k /\ e.token = c.token
  BY <1>2 DEF Call
<1>6. d \in Call /\ d.pc = "claimed" /\ d.item = i /\ d.claim = claims[i] + 1 /\ d.token = t
  <2>1. claims[i] + 1 \in Nat
    BY <1>2
  <2> QED BY <1>2, <1>5, <2>1
<1>7. /\ item \in QueueItem /\ item.intent = items[i].intent /\ item.status = CLASSIFYING
      /\ item.attempts = items[i].attempts /\ item.token = t
      /\ item.escalatedFrom = items[i].escalatedFrom
  BY <1>2, <1>3, ClaimedItem
<1>8. Store(i, item)
  OBVIOUS
<1> HIDE DEF item, d
<1>9. /\ QueueTypeOK' /\ LogInv' /\ IndexInv' /\ items'[i] = item
      /\ \A j \in ItemIds : j # i => items'[j] = items[j]
  BY <1>1, <1>7, <1>8, Statuses, Rewritten
<1>10. /\ worker' \in [Workers -> Call] /\ worker'[w] = d
       /\ \A v \in Workers : v # w => worker'[v] = worker[v]
  BY <1>1, <1>4, <1>6, WorkerSet DEF TypeOK
<1>11. claims' \in [ItemIds -> Nat] /\ claims'[i] = claims[i] + 1
       /\ \A j \in ItemIds : j # i => claims'[j] = claims[j]
  BY <1>2, <1>4
<1>12. TypeOK'
  BY <1>1, <1>4, <1>9, <1>10, <1>11 DEF TypeOK
<1>13. TokensInv'
  BY <1>1, <1>4, <1>6, <1>10, TokensKept
<1>14. ASSUME NEW v \in Workers PROVE CallInv(worker[v])'
  <2>1. CASE v = w
    BY <1>6, <1>10, <1>11, <2>1 DEF CallInv, OwnerKnows
  <2>2. CASE v # w
    <3>1. worker[v].token # t
      BY <1>1, <1>3, <2>2 DEF TokensInv
    <3>2. worker[v].pc # "idle" => worker[v].item \in ItemIds
      BY <1>1 DEF CallInv
    <3> QED BY <1>1, <1>4, <1>7, <1>9, <1>10, <1>11, <2>2, <3>1, <3>2, CallKept
  <2> QED BY <2>1, <2>2
<1>15. BoundedRequeue'
  BY <1>1, <1>7, <1>9, Statuses, BoundKept
<1> QED BY <1>9, <1>12, <1>13, <1>14, <1>15 DEF EngineInv

(* A call completes the item it owns.                                      *)
LEMMA CompleteStep ==
  ASSUME EngineInv, NEW w \in Workers, NEW i \in ItemIds, NEW class \in ReconciliationClass,
         NEW next \in QueueItemStatus, Complete(w, i, class, next),
         next = PENDING => items[i].attempts + 1 < MaxAttempts
  PROVE  EngineInv'
<1> DEFINE item == [items[i] EXCEPT !.status = next, !.attempts = @ + 1, !.token = 0,
                      !.escalatedFrom = IF next = ESCALATED THEN class ELSE @]
           d == [Idle EXCEPT !.token = worker[w].token]
<1>1. TypeOK /\ QueueTypeOK /\ TokensInv /\ LogInv /\ IndexInv /\ BoundedRequeue
      /\ \A v \in Workers : CallInv(worker[v])
  BY DEF EngineInv, TypeOK
<1>2. /\ MayComplete(i, class, next) /\ Store(i, item)
      /\ UNCHANGED <<byIntent, sequence, restarts>>
      /\ worker' = [worker EXCEPT ![w] = d]
      /\ doc' = doc /\ nextToken' = nextToken /\ crashes' = crashes /\ claims' = claims
  BY DEF Complete, CompleteClassification, Finish
<1>3. items[i] \in QueueItem /\ worker[w].token \in 0..MaxToken
  BY <1>1, CallFields DEF TypeOK, QueueTypeOK
<1>4. /\ item \in QueueItem /\ item.intent = items[i].intent /\ item.status = next
      /\ item.attempts = items[i].attempts + 1 /\ item.token = 0
      /\ item.escalatedFrom = IF next = ESCALATED THEN class ELSE items[i].escalatedFrom
  <2> DEFINE x == items[i]
             a == x.attempts + 1
             f == IF next = ESCALATED THEN class ELSE x.escalatedFrom
             y == [x EXCEPT !.status = next, !.attempts = a, !.token = 0, !.escalatedFrom = f]
  <2>1. /\ y \in QueueItem /\ y.intent = x.intent /\ y.status = next
        /\ y.attempts = a /\ y.token = 0 /\ y.escalatedFrom = f
    <3>1. x \in QueueItem /\ a \in Nat /\ f \in ReconciliationClass \cup {"NONE"}
      BY <1>3 DEF QueueItem
    <3> HIDE DEF x, a, f
    <3> QED BY <3>1 DEF QueueItem
  <2>2. item = y
    OBVIOUS
  <2> HIDE DEF item, y
  <2> QED BY <2>1, <2>2
<1>5. d \in Call /\ d.pc = "idle" /\ d.token = worker[w].token
  BY <1>3, IdleType
<1> HIDE DEF item, d
<1>6. InUse(i)
  BY <1>2 DEF MayComplete, ALLOWED, InUse, PENDING, CLASSIFYING, SAFE_RETRYABLE, ESCALATED
<1>7. /\ QueueTypeOK' /\ LogInv' /\ IndexInv' /\ items'[i] = item
      /\ \A j \in ItemIds : j # i => items'[j] = items[j]
  BY <1>1, <1>2, <1>4, <1>6, Statuses, Rewritten
<1>8. /\ worker' \in [Workers -> Call] /\ worker'[w] = d
      /\ \A v \in Workers : v # w => worker'[v] = worker[v]
  BY <1>1, <1>2, <1>5, WorkerSet DEF TypeOK
<1>9. TypeOK'
  BY <1>1, <1>2, <1>7, <1>8 DEF TypeOK
<1>10. TokensInv'
  BY <1>1, <1>2, <1>5, <1>8, TokensKept
<1>11. ASSUME NEW v \in Workers PROVE CallInv(worker[v])'
  <2>1. CASE v = w
    BY <1>5, <1>8, <2>1 DEF CallInv
  <2>2. CASE v # w
    <3>1. worker[v].pc # "idle" => worker[v].item \in ItemIds /\ worker[v].token # 0
      BY <1>1 DEF CallInv
    <3> QED BY <1>1, <1>2, <1>4, <1>7, <1>8, <2>2, <3>1, CallKept
  <2> QED BY <2>1, <2>2
<1>13. BoundedRequeue'
  BY <1>1, <1>4, <1>7, BoundKept
<1> QED BY <1>7, <1>9, <1>10, <1>11, <1>13 DEF EngineInv

(* mark_retried and abandon: only the status of the item changes.          *)
LEMMA DecideStep ==
  ASSUME EngineInv, NEW i \in ItemIds, NEW next \in {RESOLVED, ABANDONED}, InUse(i),
         Store(i, [items[i] EXCEPT !.status = next]),
         UNCHANGED <<byIntent, sequence, restarts, worker, doc, nextToken, crashes, claims>>
  PROVE  EngineInv'
<1> DEFINE item == [items[i] EXCEPT !.status = next]
<1>1. TypeOK /\ QueueTypeOK /\ TokensInv /\ LogInv /\ IndexInv /\ BoundedRequeue
      /\ \A v \in Workers : CallInv(worker[v])
  BY DEF EngineInv, TypeOK
<1>2. items[i] \in QueueItem /\ next \in QueueItemStatus
  BY <1>1, Statuses DEF QueueTypeOK
<1>3. /\ item \in QueueItem /\ item.intent = items[i].intent /\ item.status = next
      /\ item.attempts = items[i].attempts /\ item.token = items[i].token
  BY <1>2, DecidedItem
<1>4. Store(i, item)
  OBVIOUS
<1> HIDE DEF item
<1>5. /\ QueueTypeOK' /\ LogInv' /\ IndexInv' /\ items'[i] = item
      /\ \A j \in ItemIds : j # i => items'[j] = items[j]
  BY <1>1, <1>2, <1>3, <1>4, Statuses, Rewritten
<1>6. TypeOK'
  BY <1>1, <1>5 DEF TypeOK
<1>7. TokensInv'
  BY <1>1, TokensKept
<1>8. ASSUME NEW v \in Workers PROVE CallInv(worker[v])'
  <2>1. worker[v].pc # "idle" => worker[v].item \in ItemIds
    BY <1>1 DEF CallInv
  <2> QED BY <1>1, <1>3, <1>5, <2>1, CallKept
<1>9. BoundedRequeue'
  BY <1>1, <1>3, <1>5, Statuses, BoundKept
<1> QED BY <1>5, <1>6, <1>7, <1>8, <1>9 DEF EngineInv

LEMMA FinishStep ==
  ASSUME EngineInv, NEW w \in Workers, Finish(w), crashes' \in 0..MaxCrashes,
         UNCHANGED <<queueVars, doc, nextToken, claims>>
  PROVE  EngineInv'
<1> DEFINE d == [Idle EXCEPT !.token = worker[w].token]
<1>1. worker[w].token \in 0..MaxToken
  BY CallFields DEF EngineInv, TypeOK
<1>2. d \in Call /\ d.pc = "idle" /\ d.token = worker[w].token
  BY <1>1, IdleType
<1>3. worker' = [worker EXCEPT ![w] = d]
  BY DEF Finish
<1>4. CallInv(d)
  BY <1>2 DEF CallInv
<1> HIDE DEF d
<1> QED BY <1>2, <1>3, <1>4, CallStep

LEMMA GetItemStep ==
  ASSUME EngineInv, NEW w \in Workers, GetItem(w)
  PROVE  EngineInv'
<1> DEFINE a == items[worker[w].item].attempts
           d == [worker[w] EXCEPT !.pc = "reading", !.attempts = a]
<1>1. TypeOK /\ CallInv(worker[w]) /\ worker[w] \in Call
  BY DEF EngineInv, TypeOK
<1>2. /\ worker[w].pc = "claimed" /\ worker' = [worker EXCEPT ![w] = d]
      /\ UNCHANGED <<queueVars, doc, nextToken, claims>> /\ crashes' = crashes
  BY DEF GetItem
<1>3. a \in Nat
  <2>1. worker[w].item \in ItemIds
    BY <1>1, <1>2 DEF CallInv
  <2> QED BY <1>1, <2>1 DEF TypeOK, QueueTypeOK, QueueItem
<1>4. \A c \in Call, k \in Nat : LET e == [c EXCEPT !.pc = "reading", !.attempts = k] IN
        /\ e \in Call /\ e.pc = "reading" /\ e.attempts = k /\ e.item = c.item
        /\ e.token = c.token /\ e.claim = c.claim
  BY DEF Call
<1>5. /\ d \in Call /\ d.pc = "reading" /\ d.attempts = a /\ d.item = worker[w].item
      /\ d.token = worker[w].token /\ d.claim = worker[w].claim
  BY <1>1, <1>3, <1>4
<1> HIDE DEF d
<1>6. CallInv(d)
  BY <1>1, <1>2, <1>5 DEF CallInv, OwnerKnows
<1>7. crashes' \in 0..MaxCrashes
  BY <1>1, <1>2 DEF TypeOK
<1> QED BY <1>2, <1>5, <1>6, <1>7, CallStep

LEMMA ReadBackStep ==
  ASSUME EngineInv, NEW w \in Workers, NEW n \in Intents, NEW read \in Modes,
         NEW query \in Modes, NEW ping \in Modes, ReadBack(w, n, read, query, ping)
  PROVE  EngineInv'
<1> DEFINE cl == Classify(n, items[worker[w].item].kind, read, query, ping)
           d == [worker[w] EXCEPT !.pc = "answered", !.class = cl]
<1>1. TypeOK /\ CallInv(worker[w]) /\ worker[w] \in Call /\ doc \in [Intents -> Docs]
  BY DEF EngineInv, TypeOK
<1>2. /\ worker[w].pc = "reading" /\ worker' = [worker EXCEPT ![w] = d]
      /\ items[worker[w].item].intent = {n}
      /\ UNCHANGED <<queueVars, doc, nextToken, claims>> /\ crashes' = crashes
  BY DEF ReadBack
<1>3. cl \in ReconciliationClass
  BY <1>1, ClassifyType
<1> HIDE DEF cl
<1>5. \A c \in Call, k \in ReconciliationClass :
        LET e == [c EXCEPT !.pc = "answered", !.class = k] IN
          /\ e \in Call /\ e.pc = "answered" /\ e.class = k /\ e.item = c.item
          /\ e.attempts = c.attempts /\ e.token = c.token /\ e.claim = c.claim
  BY DEF Call
<1>6. /\ d \in Call /\ d.pc = "answered" /\ d.class = cl /\ d.item = worker[w].item
      /\ d.attempts = worker[w].attempts /\ d.token = worker[w].token
      /\ d.claim = worker[w].claim
  BY <1>1, <1>3, <1>5
<1> HIDE DEF d
<1>8. CallInv(d)
  BY <1>1, <1>2, <1>3, <1>6 DEF CallInv, OwnerKnows
<1>9. crashes' \in 0..MaxCrashes
  BY <1>1, <1>2 DEF TypeOK
<1> QED BY <1>2, <1>6, <1>8, <1>9, CallStep

(* What the owner of an item is about to apply.                            *)
LEMMA OwnersAnswer ==
  ASSUME EngineInv, NEW w \in Workers, NEW i \in ItemIds, ApplyAnswer(w, i)
  PROVE  /\ worker[w].class \in ReconciliationClass /\ worker[w].attempts \in Nat
         /\ items[i].token = worker[w].token
         /\ OwnerKnows(worker[w]) /\ worker[w].attempts = items[i].attempts
<1>1. CallInv(worker[w]) /\ worker[w] \in Call
  BY DEF EngineInv, TypeOK
<1>2. worker[w].pc = "answered" /\ worker[w].item = i /\ items[i].token = worker[w].token
  BY DEF ApplyAnswer, Complete, CompleteClassification, Owns
<1> QED BY <1>1, <1>2, CallFields DEF CallInv, OwnerKnows

LEMMA ApplyStep ==
  ASSUME EngineInv, NEW w \in Workers, NEW i \in ItemIds, ApplyAnswer(w, i)
  PROVE  EngineInv'
<1> DEFINE class == worker[w].class
           next == NextStatus(worker[w].class, worker[w].attempts)
<1>1. /\ class \in ReconciliationClass /\ worker[w].attempts \in Nat
      /\ worker[w].attempts = items[i].attempts
  BY OwnersAnswer
<1>2. next \in QueueItemStatus /\ (next = PENDING => worker[w].attempts + 1 < MaxAttempts)
  BY <1>1, NextStatusFacts
<1>3. Complete(w, i, class, next)
  BY DEF ApplyAnswer
<1> HIDE DEF class, next
<1> QED BY <1>1, <1>2, <1>3, CompleteStep

LEMMA ResolveStep ==
  ASSUME EngineInv, NEW w \in Workers, NEW i \in ItemIds, OperatorResolves(w, i)
  PROVE  EngineInv'
<1>1. Complete(w, i, "AMBIGUOUS", RESOLVED)
  BY DEF OperatorResolves
<1>2. "AMBIGUOUS" \in ReconciliationClass /\ RESOLVED \in QueueItemStatus /\ RESOLVED # PENDING
  BY Statuses DEF ReconciliationClass
<1> QED BY <1>1, <1>2, CompleteStep

LEMMA RestartStep ==
  ASSUME EngineInv, Restart
  PROVE  EngineInv'
<1>1. TypeOK /\ QueueTypeOK /\ LogInv /\ BoundedRequeue
  BY DEF EngineInv, TypeOK
<1>2. /\ restarts' = restarts + 1 /\ restarts < MaxRestarts /\ items' = log.items
      /\ byIntent' = log.byIntent /\ sequence' = log.last + 1 /\ log' = EmptyLog
      /\ worker' = [w \in Workers |-> Idle] /\ nextToken' = 1
      /\ doc' = doc /\ crashes' = crashes /\ claims' = claims
  BY DEF Restart, Replay
<1>3. EmptyLog \in Log /\ EmptyLog.items = [i \in ItemIds |-> NoItem]
  BY NoItemType, QueueAssumption DEF EmptyLog, Log
<1>4. QueueTypeOK'
  BY <1>1, <1>2, <1>3, QueueAssumption DEF QueueTypeOK, Log
<1>5. TypeOK'
  BY <1>1, <1>2, <1>4, IdleType, QueueAssumption DEF TypeOK
<1>6. restarts' # 0
  BY <1>1, <1>2 DEF QueueTypeOK
<1>7. LogInv' /\ IndexInv'
  BY <1>2, <1>3, <1>6 DEF LogInv, IndexInv
<1>8. TokensInv' /\ \A w \in Workers : CallInv(worker[w])'
  BY <1>2, IdleType DEF TokensInv, CallInv
<1>9. \A i \in ItemIds : items'[i] \in {NoItem, items[i]}
  BY <1>1, <1>2 DEF LogInv
<1>10. BoundedRequeue'
  BY <1>1, <1>9, NoItemType DEF BoundedRequeue, PENDING
<1> QED BY <1>5, <1>7, <1>8, <1>10 DEF EngineInv

LEMMA MovesStep ==
  ASSUME EngineInv, NEW n \in Intents, NEW d \in Docs, ProviderMoves(n, d)
  PROVE  EngineInv'
<1>1. TypeOK /\ TokensInv /\ LogInv /\ IndexInv /\ BoundedRequeue
      /\ \A v \in Workers : CallInv(worker[v])
  BY DEF EngineInv
<1>2. /\ <<doc[n], d>> \in DocSteps /\ doc' = [doc EXCEPT ![n] = d]
      /\ items' = items /\ byIntent' = byIntent /\ sequence' = sequence /\ log' = log
      /\ restarts' = restarts /\ worker' = worker /\ nextToken' = nextToken
      /\ crashes' = crashes /\ claims' = claims
  BY DEF ProviderMoves, queueVars
<1>3. TypeOK'
  BY <1>1, <1>2 DEF TypeOK, QueueTypeOK
<1>4. TokensInv' /\ LogInv' /\ IndexInv' /\ BoundedRequeue'
  BY <1>1, <1>2 DEF TokensInv, LogInv, IndexInv, InUse, BoundedRequeue
<1>6. \A v \in Workers : CallInv(worker[v])'
  BY <1>1, <1>2 DEF CallInv, OwnerKnows
<1> QED BY <1>3, <1>4, <1>6 DEF EngineInv

LEMMA InitInv ==
  ASSUME Init
  PROVE  EngineInv
<1> USE DEF Init, QueueInit
<1>1. EmptyLog \in Log /\ EmptyLog.items = [i \in ItemIds |-> NoItem]
      /\ EmptyLog.byIntent = [n \in Intents |-> 0]
  BY NoItemType, QueueAssumption DEF EmptyLog, Log
<1>2. TypeOK
  BY <1>1, NoItemType, IdleType, QueueAssumption, EngineAssumption DEF TypeOK, QueueTypeOK
<1>3. TokensInv /\ \A w \in Workers : CallInv(worker[w])
  BY IdleType DEF TokensInv, CallInv
<1>4. LogInv /\ IndexInv
  BY <1>1, NoItemType DEF LogInv, IndexInv, InUse
<1>5. BoundedRequeue
  BY NoItemType DEF BoundedRequeue, PENDING
<1> QED BY <1>2, <1>3, <1>4, <1>5 DEF EngineInv

LEMMA NextInv ==
  ASSUME EngineInv, [Next]_vars
  PROVE  EngineInv'
<1>0. crashes \in 0..MaxCrashes
  BY DEF EngineInv, TypeOK
<1>1. CASE \E n \in Intents, kind \in Kinds : EnqueueUncertain(n, kind)
  BY <1>1, EnqueueStep
<1>2. ASSUME NEW w \in Workers, NewToken(w) PROVE EngineInv'
  BY <1>2, NewTokenStep
<1>3. ASSUME NEW w \in Workers, Classification(w) PROVE EngineInv'
  <2>1. CASE GetItem(w)
    BY <2>1, GetItemStep
  <2>2. CASE \E n \in Intents, read, query, ping \in Modes \ {"unreachable"} :
               ReadBack(w, n, read, query, ping)
    BY <2>2, ReadBackStep
  <2>3. CASE ReadBackRaises(w)
    BY <1>0, <2>3, FinishStep DEF ReadBackRaises
  <2>4. ASSUME NEW i \in ItemIds, ApplyAnswer(w, i) PROVE EngineInv'
    BY <2>4, ApplyStep
  <2>5. ASSUME NEW i \in ItemIds, AnswerRefused(w, i) PROVE EngineInv'
    BY <1>0, <2>5, FinishStep DEF AnswerRefused
  <2> QED BY <1>3, <2>1, <2>2, <2>3, <2>4, <2>5 DEF Classification
<1>4. ASSUME NEW w \in Workers, WorkerDies(w) PROVE EngineInv'
  <2>1. crashes' \in 0..MaxCrashes
    BY <1>0, <1>4, EngineAssumption DEF WorkerDies
  <2> QED BY <1>4, <2>1, FinishStep DEF WorkerDies
<1>5. ASSUME NEW w \in Workers, NEW i \in ItemIds, ClassifyNext(w, i) PROVE EngineInv'
  <2>1. InUse(i)
    BY <1>5 DEF ClassifyNext, ClaimNext, InUse, PENDING
  <2> QED BY <1>5, <2>1, ClaimStep DEF ClassifyNext, ClaimNext
<1>6. ASSUME NEW w \in Workers, NEW i \in ItemIds, TakeOver(w, i) PROVE EngineInv'
  <2>1. InUse(i)
    BY <1>6 DEF TakeOver, ClaimItem, InUse, CLASSIFYING, SAFE_RETRYABLE, ESCALATED
  <2> QED BY <1>6, <2>1, ClaimStep DEF TakeOver, ClaimItem
<1>7. ASSUME NEW w \in Workers, NEW i \in ItemIds, OperatorResolves(w, i) PROVE EngineInv'
  BY <1>7, ResolveStep
<1>8. ASSUME NEW i \in ItemIds, CloseRetried(i) PROVE EngineInv'
  <2>1. InUse(i)
    BY <1>8 DEF CloseRetried, MarkRetried, InUse, SAFE_RETRYABLE
  <2> QED BY <1>8, <2>1, DecideStep DEF CloseRetried, MarkRetried
<1>9. ASSUME NEW i \in ItemIds, OperatorAbandons(i) PROVE EngineInv'
  <2>1. InUse(i)
    BY <1>9 DEF OperatorAbandons, Abandon, InUse, ESCALATED
  <2> QED BY <1>9, <2>1, DecideStep DEF OperatorAbandons, Abandon
<1>10. CASE Restart
  BY <1>10, RestartStep
<1>11. CASE \E n \in Intents, d \in Docs : ProviderMoves(n, d)
  BY <1>11, MovesStep
<1>12. CASE UNCHANGED vars
  BY <1>12 DEF vars, EngineInv, TypeOK, QueueTypeOK, TokensInv, LogInv, IndexInv, InUse,
     CallInv, OwnerKnows, BoundedRequeue
<1> QED BY <1>1, <1>2, <1>3, <1>4, <1>5, <1>6, <1>7, <1>8, <1>9, <1>10, <1>11, <1>12 DEF Next

-----------------------------------------------------------------------------
(* The theorems                                                            *)

(* The invariant holds in every reachable state of engine and queue.       *)
THEOREM EngineInvariance == Spec => []EngineInv
<1>1. Init => EngineInv
  BY InitInv
<1>2. EngineInv /\ [Next]_vars => EngineInv'
  BY NextInv
<1> QED BY <1>1, <1>2, PTL DEF Spec

(* The items are sound through any number of takeovers, crashes and        *)
(* restarts, and until the first restart also one per intent and found     *)
(* under it.                                                               *)
THEOREM ItemsSound == Spec => []ItemsInv
<1>1. EngineInv => ItemsInv
  <2> SUFFICES ASSUME EngineInv, restarts = 0 PROVE OneItemPerIntent
    BY DEF EngineInv, ItemsInv
  <2>1. IndexInv
    BY DEF EngineInv
  <2>2. \A n \in Intents : byIntent[n] # 0 => items[byIntent[n]].intent = {n}
    BY <2>1 DEF IndexInv
  <2>3. ASSUME NEW i \in ItemIds, NEW j \in ItemIds, InUse(i), InUse(j), i # j
        PROVE  items[i].intent # items[j].intent
    <3>1. PICK n \in Intents : items[i].intent = {n} /\ byIntent[n] = i
      BY <2>1, <2>3 DEF IndexInv
    <3>2. PICK m \in Intents : items[j].intent = {m} /\ byIntent[m] = j
      BY <2>1, <2>3 DEF IndexInv
    <3> QED BY <2>3, <3>1, <3>2
  <2> QED BY <2>2, <2>3 DEF OneItemPerIntent
<1> QED BY <1>1, EngineInvariance, PTL

(* What a restart does to the items, by LogInv.                            *)
LEMMA RestartItems ==
  ASSUME EngineInv, Restart
  PROVE  /\ \A i \in ItemIds : items'[i] \in {items[i], NoItem}
         /\ restarts = 0 => items' = items /\ byIntent' = byIntent
         /\ restarts' # restarts
<1>1. restarts \in Nat
  BY DEF EngineInv, TypeOK, QueueTypeOK
<1> QED BY <1>1 DEF EngineInv, LogInv, Restart, Replay

(* Only a restart counts as one.                                           *)
LEMMA OthersRestartNothing ==
  ASSUME [Next]_vars, ~Restart
  PROVE  restarts' = restarts
BY DEF Next, vars, queueVars, EnqueueUncertain, Enqueue, NewToken, Classification, GetItem,
   ReadBack, ReadBackRaises, ApplyAnswer, Complete, CompleteClassification, AnswerRefused,
   WorkerDies, ClassifyNext, ClaimNext, TakeOver, ClaimItem, OperatorResolves, CloseRetried,
   MarkRetried, OperatorAbandons, Abandon, ProviderMoves

(* The first restart restores everything; any later one restores an item   *)
(* as it was or loses it, and never takes one back to an earlier state.    *)
THEOREM RestartKeepsItems == Spec => RestartReplays
<1>1. EngineInv /\ [Next]_vars =>
        [restarts' # restarts =>
           /\ \A i \in ItemIds : items'[i] \in {items[i], NoItem}
           /\ restarts = 0 => items' = items /\ byIntent' = byIntent]_queueVars
  BY RestartItems, OthersRestartNothing
<1> QED BY <1>1, EngineInvariance, PTL DEF Spec, RestartReplays

(* A step that ends a call with an answer and counts an attempt is the     *)
(* call's own, and the call owns the item.                                 *)
Stale(w, i) ==
  /\ worker[w].pc = "answered" /\ worker[w].item = i
  /\ items'[i].attempts # items[i].attempts /\ worker'[w].pc = "idle"
  /\ restarts' = restarts
  /\ worker[w].claim # claims[i]

LEMMA StaleStep ==
  ASSUME EngineInv, [Next]_vars, NEW w \in Workers, NEW i \in ItemIds
  PROVE  ~Stale(w, i)
<1> SUFFICES ASSUME Stale(w, i) PROVE FALSE
  OBVIOUS
<1>0. worker \in [Workers -> Call] /\ worker[w].pc = "answered" /\ worker'[w].pc = "idle"
  BY DEF EngineInv, TypeOK, Stale
<1>1. items' # items /\ worker'[w] # worker[w]
  BY <1>0 DEF Stale
<1>2. ASSUME NEW v \in Workers, NEW d, worker' = [worker EXCEPT ![v] = d] PROVE v = w
  BY <1>0, <1>1, <1>2
<1>3. ~\E n \in Intents, kind \in Kinds : EnqueueUncertain(n, kind)
  BY <1>1 DEF EnqueueUncertain
<1>4. ASSUME NEW v \in Workers, NEW j \in ItemIds, Claimed(v, j) PROVE v = w
  BY <1>0, <1>1, <1>4 DEF Claimed
<1>5. ASSUME NEW v \in Workers, NEW j \in ItemIds PROVE ~ClassifyNext(v, j) /\ ~TakeOver(v, j)
  BY <1>0, <1>4 DEF ClassifyNext, TakeOver
<1>6. ASSUME NEW v \in Workers, NEW j \in ItemIds, OperatorResolves(v, j) PROVE FALSE
  BY <1>0, <1>2, <1>6 DEF OperatorResolves, Complete, Finish
<1>7. ASSUME NEW v \in Workers, NEW j \in ItemIds, ApplyAnswer(v, j) PROVE FALSE
  <2>1. v = w
    BY <1>2, <1>7 DEF ApplyAnswer, Complete, Finish
  <2>2. j = i
    BY <1>7, <2>1 DEF ApplyAnswer, Stale
  <2> QED BY <1>7, <2>1, <2>2, OwnersAnswer DEF OwnerKnows, Stale
<1>8. ASSUME NEW v \in Workers, Classification(v) PROVE FALSE
  <2>1. \A j \in ItemIds : ~ApplyAnswer(v, j)
    BY <1>7
  <2>2. items' = items
    BY <1>8, <2>1 DEF Classification, GetItem, ReadBack, ReadBackRaises, AnswerRefused, queueVars
  <2> QED BY <1>1, <2>2
<1>9. ASSUME NEW v \in Workers PROVE ~NewToken(v) /\ ~WorkerDies(v)
  BY <1>1 DEF NewToken, WorkerDies, queueVars
<1>10. ASSUME NEW j \in ItemIds PROVE ~CloseRetried(j) /\ ~OperatorAbandons(j)
  BY <1>1 DEF CloseRetried, OperatorAbandons
<1>11. ~Restart
  BY RestartItems DEF Stale
<1>12. ~\E n \in Intents, d \in Docs : ProviderMoves(n, d)
  BY <1>1 DEF ProviderMoves, queueVars
<1>13. ~UNCHANGED vars
  BY <1>1 DEF vars
<1> QED BY <1>3, <1>5, <1>6, <1>8, <1>9, <1>10, <1>11, <1>12, <1>13 DEF Next

(* A worker that was overtaken after its read-back writes nothing.         *)
THEOREM OvertakenWritesNothing == Spec => StaleAnswersIgnored
<1> DEFINE A == \A w \in Workers, i \in ItemIds :
                  /\ worker[w].pc = "answered" /\ worker[w].item = i
                  /\ items'[i].attempts # items[i].attempts /\ worker'[w].pc = "idle"
                  /\ restarts' = restarts
                  => worker[w].claim = claims[i]
<1>1. EngineInv /\ [Next]_vars => [A]_vars
  BY StaleStep DEF Stale
<1>2. Spec => [][A]_vars
  BY <1>1, EngineInvariance, PTL DEF Spec
<1> QED BY <1>2 DEF StaleAnswersIgnored

=============================================================================
