---------------------------- MODULE OperatorQueue ----------------------------
(***************************************************************************)
(* The operator queue of src/reconciliation/queue.py: one item per intent, *)
(* fenced classification claims, a transition log and restart by replay.   *)
(*                                                                         *)
(* Every method holds the queue's lock, so each is one step. A call the    *)
(* queue refuses (ItemLocked, InvalidTransition) or answers from what it   *)
(* has (a second enqueue, claim_next on an empty queue) changes nothing    *)
(* and is no step. The audit record of a transition is appended under the  *)
(* same lock, one per logged snapshot, and is not kept apart from the log. *)
(***************************************************************************)
EXTENDS Naturals, FiniteSets

CONSTANTS
  Intents,      \* idempotency keys under recovery
  MaxItems,     \* bound: item numbers ever used
  MaxToken,     \* bound: fencing tokens callers present
  MaxCompletions, \* bound: an item classified so often is not claimed again
  MaxRestarts   \* bound: restarts

ASSUME QueueAssumption ==
  /\ MaxItems \in Nat /\ MaxToken \in Nat /\ MaxRestarts \in Nat
  /\ MaxCompletions \in Nat

VARIABLES
  items,     \* _items, by item number
  byIntent,  \* _by_intent: item number of each intent, 0 if none
  sequence,  \* next value of _sequence
  log,       \* _log, reduced to what replay makes of it
  restarts   \* number of restarts so far

queueVars == <<items, byIntent, sequence, log, restarts>>

-----------------------------------------------------------------------------

PENDING        == "PENDING"
CLASSIFYING    == "CLASSIFYING"
SAFE_RETRYABLE == "SAFE_RETRYABLE"
ESCALATED      == "ESCALATED"
RESOLVED       == "RESOLVED"
ABANDONED      == "ABANDONED"

QueueItemStatus == {PENDING, CLASSIFYING, SAFE_RETRYABLE, ESCALATED, RESOLVED,
                    ABANDONED}

ReconciliationClass == {"PRESENT", "ABSENT", "AMBIGUOUS", "UNAVAILABLE"}

Kinds == {"INVOICE_POST", "PAYMENT_RECORD"}

ItemIds == 1..MaxItems

(* intent is {} for a number not in use, escalatedFrom is "NONE" until an  *)
(* escalation. References, reasons and times are left out.                 *)
QueueItem ==
  [intent : SUBSET Intents, kind : Kinds \cup {"NONE"},
   status : QueueItemStatus \cup {"NONE"}, attempts : Nat, token : Nat,
   escalatedFrom : ReconciliationClass \cup {"NONE"}]

NoItem == [intent |-> {}, kind |-> "NONE", status |-> "NONE", attempts |-> 0,
           token |-> 0, escalatedFrom |-> "NONE"]

(* What replay needs of the log: the latest snapshot of each item, the     *)
(* number of the latest snapshot naming each intent, and the number of the *)
(* last snapshot (0 if there is none).                                     *)
Log == [items : [ItemIds -> QueueItem], byIntent : [Intents -> 0..MaxItems],
        last : 0..MaxItems]

EmptyLog == [items |-> [i \in ItemIds |-> NoItem],
             byIntent |-> [n \in Intents |-> 0], last |-> 0]

QueueTypeOK ==
  /\ items \in [ItemIds -> QueueItem]
  /\ byIntent \in [Intents -> 0..MaxItems]
  /\ sequence \in 1..(MaxItems + 1)
  /\ log \in Log
  /\ restarts \in 0..MaxRestarts

QueueInit ==
  /\ items = [i \in ItemIds |-> NoItem]
  /\ byIntent = [n \in Intents |-> 0]
  /\ sequence = 1
  /\ log = EmptyLog
  /\ restarts = 0

-----------------------------------------------------------------------------
(* Transitions. Store writes the new snapshot of an item and logs it.      *)

Store(i, item) ==
  /\ items' = [items EXCEPT ![i] = item]
  /\ log' = [items |-> [log.items EXCEPT ![i] = item],
             byIntent |-> [n \in Intents |->
                             IF n \in item.intent THEN i ELSE log.byIntent[n]],
             last |-> i]

ALLOWED(status) ==
  CASE status = PENDING        -> {CLASSIFYING}
    [] status = CLASSIFYING    -> {RESOLVED, SAFE_RETRYABLE, ESCALATED, PENDING}
    [] status = SAFE_RETRYABLE -> {RESOLVED, CLASSIFYING}
    [] status = ESCALATED      -> {ABANDONED, CLASSIFYING}
    [] OTHER                   -> {}

(* enqueue of an intent not seen before.                                   *)
Enqueue(n, kind) ==
  /\ byIntent[n] = 0
  /\ sequence <= MaxItems
  /\ Store(sequence, [NoItem EXCEPT !.intent = {n}, !.kind = kind,
                                    !.status = PENDING])
  /\ byIntent' = [byIntent EXCEPT ![n] = sequence]
  /\ sequence' = sequence + 1
  /\ UNCHANGED restarts

(* Mutant of ClaimNext: an item put back after an outage is not seen.      *)
ClaimNextFreshOnly(i, token) ==
  /\ items[i].status = PENDING /\ items[i].attempts = 0
  /\ \A j \in ItemIds : items[j].status = PENDING => i <= j
  /\ Store(i, [items[i] EXCEPT !.status = CLASSIFYING, !.token = token])
  /\ UNCHANGED <<byIntent, sequence, restarts>>

(* claim_next: the oldest PENDING item, under whatever token is presented. *)
ClaimNext(i, token) ==
  /\ items[i].status = PENDING
  /\ \A j \in ItemIds : items[j].status = PENDING => i <= j
  /\ items[i].attempts < MaxCompletions
  /\ Store(i, [items[i] EXCEPT !.status = CLASSIFYING, !.token = token])
  /\ UNCHANGED <<byIntent, sequence, restarts>>

(* claim_item: takeover or operator override under a newer token.          *)
ClaimItem(i, token) ==
  /\ items[i].status \in {CLASSIFYING, SAFE_RETRYABLE, ESCALATED}
  /\ token > items[i].token
  /\ items[i].attempts < MaxCompletions
  /\ Store(i, [items[i] EXCEPT !.status = CLASSIFYING, !.token = token])
  /\ UNCHANGED <<byIntent, sequence, restarts>>

(* Mutant of Owns: any token will do.                                      *)
OwnsAnyToken(i, token) == items[i].token > 0 /\ token > 0

(* _assert_owner.                                                          *)
Owns(i, token) == items[i].token = token /\ token > 0

(* The guards of complete_classification on an owned item.                 *)
MayComplete(i, class, next) ==
  /\ next \in ALLOWED(items[i].status)
  /\ next = RESOLVED => class \notin {"ABSENT", "UNAVAILABLE"}
  /\ next = SAFE_RETRYABLE => items[i].escalatedFrom # "AMBIGUOUS"

CompleteClassification(i, token, class, next) ==
  /\ Owns(i, token)
  /\ MayComplete(i, class, next)
  /\ Store(i, [items[i] EXCEPT
                 !.status = next,
                 !.attempts = @ + 1,
                 !.token = 0,
                 !.escalatedFrom = IF next = ESCALATED THEN class ELSE @])
  /\ UNCHANGED <<byIntent, sequence, restarts>>

(* Mutant of MarkRetried: the transition is not logged.                    *)
MarkRetriedUnlogged(i) ==
  /\ items[i].status = SAFE_RETRYABLE
  /\ items' = [items EXCEPT ![i].status = RESOLVED]
  /\ UNCHANGED <<byIntent, sequence, log, restarts>>

MarkRetried(i) ==
  /\ items[i].status = SAFE_RETRYABLE
  /\ Store(i, [items[i] EXCEPT !.status = RESOLVED])
  /\ UNCHANGED <<byIntent, sequence, restarts>>

Abandon(i) ==
  /\ items[i].status = ESCALATED
  /\ Store(i, [items[i] EXCEPT !.status = ABANDONED])
  /\ UNCHANGED <<byIntent, sequence, restarts>>

(* The process restarts and the queue is rebuilt with replay from its      *)
(* transition log. The numbering continues after the number of the last    *)
(* snapshot, and the new queue starts with an empty log.                   *)
Replay ==
  /\ restarts < MaxRestarts
  /\ restarts' = restarts + 1
  /\ items' = log.items
  /\ byIntent' = log.byIntent
  /\ sequence' = log.last + 1
  /\ log' = EmptyLog

-----------------------------------------------------------------------------
(* Properties.                                                             *)

InUse(i) == items[i].status # "NONE"

(* The index and the items agree: an enqueued intent finds an item that    *)
(* is its own, and no two items serve the same intent, so that an intent   *)
(* is never recovered twice ("one item per idempotency key"). Violated     *)
(* once a restart has continued the numbering after the item that changed  *)
(* last: the next enqueue overwrites a newer item.                         *)
OneItemPerIntent ==
  /\ \A n \in Intents : byIntent[n] # 0 => items[byIntent[n]].intent = {n}
  /\ \A i, j \in ItemIds : InUse(i) /\ InUse(j) /\ i # j =>
       items[i].intent # items[j].intent

(* A restart restores every item and the index exactly as they were, as    *)
(* the runbook promises. Violated by the second restart: replay leaves the *)
(* new queue's log empty, so items that did not change since are gone.     *)
RestartRestores ==
  [][restarts' # restarts => items' = items /\ byIntent' = byIntent]_queueVars

(* What restarts do restore. The first one restores all items and the      *)
(* index, whatever calls it cuts off. A later one may lose items, but      *)
(* never brings one back in an earlier state: an item that was resolved or *)
(* escalated does not return to the queue or to the retry lane.            *)
RestartReplays ==
  [][restarts' # restarts =>
       /\ \A i \in ItemIds : items'[i] \in {items[i], NoItem}
       /\ restarts = 0 => items' = items /\ byIntent' = byIntent]_queueVars

=============================================================================
