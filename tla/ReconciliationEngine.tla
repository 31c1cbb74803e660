------------------------ MODULE ReconciliationEngine ------------------------
(***************************************************************************)
(* src/reconciliation/engine.py over the operator queue: workers that      *)
(* claim an item, read the provider back and apply the classification,     *)
(* operators that override, and a provider that may be unable to answer.   *)
(*                                                                         *)
(* classify_item holds no lock between reading the item, asking the        *)
(* provider and completing, so these are separate steps; a worker may be   *)
(* overtaken by a claim_item under a newer token in between.               *)
(***************************************************************************)
EXTENDS OperatorQueue

CONSTANTS
  Workers,      \* engine workers and operators
  MaxAttempts,  \* max_attempts of the engine
  Modes,        \* the ways the provider may answer, a subset of ProviderModes
  StartDocs,    \* what the provider may hold of an intent to begin with
  DocSteps,     \* how the provider's documents may change by themselves
  MaxCrashes    \* bound: worker crashes

(* up: the provider answers. outage: simulate_outage of the fixture, ping  *)
(* answers no. http_error: ERPNext answers a read-back with an HTTP error, *)
(* raised as DocumentRejected. unreachable: no answer, UncertainOutcome.   *)
ProviderModes == {"up", "outage", "http_error", "unreachable"}

(* What the provider holds for an intent's anchor. dropped is posted but   *)
(* missing from the query index; unknown is an anchor it never heard of.   *)
Docs == {"posted", "dropped", "draft", "unknown"}

ASSUME EngineAssumption ==
  /\ MaxAttempts \in Nat \ {0}
  /\ Modes \subseteq ProviderModes
  /\ StartDocs \subseteq Docs
  /\ DocSteps \subseteq (Docs \X Docs)
  /\ MaxCrashes \in Nat

VARIABLES
  worker,    \* the call each worker is in
  doc,       \* the provider's document for each intent
  nextToken, \* the next fencing token a lease hands out
  crashes,   \* number of crashes so far
  claims     \* history: number of claims made on each item

vars == <<items, byIntent, sequence, log, restarts, worker, doc, nextToken,
          crashes, claims>>

(* attempts and class are what the call has read; claim is the number of   *)
(* the claim it works under (history).                                     *)
Call == [pc : {"idle", "claimed", "reading", "answered"},
         item : 0..MaxItems, token : 0..MaxToken, attempts : Nat,
         class : ReconciliationClass \cup {"NONE"}, claim : Nat]

Idle == [pc |-> "idle", item |-> 0, token |-> 0, attempts |-> 0,
         class |-> "NONE", claim |-> 0]

TypeOK ==
  /\ QueueTypeOK
  /\ worker \in [Workers -> Call]
  /\ doc \in [Intents -> Docs]
  /\ nextToken \in 1..(MaxToken + 1)
  /\ crashes \in 0..MaxCrashes
  /\ claims \in [ItemIds -> Nat]

Init ==
  /\ QueueInit
  /\ worker = [w \in Workers |-> Idle]
  /\ doc \in [Intents -> StartDocs]
  /\ nextToken = 1
  /\ crashes = 0
  /\ claims = [i \in ItemIds |-> 0]

-----------------------------------------------------------------------------
(* The provider read-back.                                                 *)

(* _classify_post with the handler of classify_item around it. The three   *)
(* provider calls, reconcile_post, query_invoices and ping, may each find  *)
(* the provider in a different mode. A rejection is AMBIGUOUS if ping then *)
(* answers, UNAVAILABLE if not. reconcile_post itself answers during an    *)
(* outage, and ERPNext's reports any HTTP error as "Draft not found".      *)
Rejected(ping) == IF ping = "up" THEN "AMBIGUOUS" ELSE "UNAVAILABLE"

ClassifyPost(d, read, query, ping) ==
  CASE read = "http_error" \/ d = "draft" -> "ABSENT"
    [] d = "unknown" \/ query # "up"      -> Rejected(ping)
    [] OTHER -> IF d = "posted" THEN "PRESENT" ELSE "AMBIGUOUS"

(* _classify_payment: any rejection of the read-back is ABSENT.            *)
ClassifyPayment(d, read) ==
  IF d \in {"posted", "dropped"} /\ read # "http_error" THEN "PRESENT" ELSE "ABSENT"

Classify(n, kind, read, query, ping) ==
  IF kind = "INVOICE_POST" THEN ClassifyPost(doc[n], read, query, ping)
                           ELSE ClassifyPayment(doc[n], read)

(* Mutant of NextStatus: one requeue too many.                             *)
NextStatusLate(class, attempts) ==
  CASE class = "PRESENT"   -> RESOLVED
    [] class = "ABSENT"    -> SAFE_RETRYABLE
    [] class = "AMBIGUOUS" -> ESCALATED
    [] OTHER -> IF attempts < MaxAttempts THEN PENDING ELSE ESCALATED

(* The rest of classify_item: where a classification sends the item.       *)
NextStatus(class, attempts) ==
  CASE class = "PRESENT"   -> RESOLVED
    [] class = "ABSENT"    -> SAFE_RETRYABLE
    [] class = "AMBIGUOUS" -> ESCALATED
    [] OTHER -> IF attempts + 1 < MaxAttempts THEN PENDING ELSE ESCALATED

-----------------------------------------------------------------------------

EnqueueUncertain(n, kind) ==
  /\ Enqueue(n, kind)
  /\ claims' = [claims EXCEPT ![sequence] = 0]
  /\ UNCHANGED <<worker, doc, nextToken, crashes>>

(* A worker obtains a lease with a new fencing token; it keeps presenting  *)
(* that token until it obtains another.                                    *)
NewToken(w) ==
  /\ worker[w].pc = "idle"
  /\ nextToken <= MaxToken
  /\ worker' = [worker EXCEPT ![w].token = nextToken]
  /\ nextToken' = nextToken + 1
  /\ UNCHANGED <<queueVars, doc, crashes, claims>>

Claimed(w, i) ==
  /\ worker' = [worker EXCEPT ![w].pc = "claimed", ![w].item = i,
                              ![w].claim = claims[i] + 1]
  /\ claims' = [claims EXCEPT ![i] = @ + 1]
  /\ UNCHANGED <<doc, nextToken, crashes>>

(* classify_next: claim the oldest pending item, then classify it.         *)
ClassifyNext(w, i) ==
  /\ worker[w].pc = "idle" /\ worker[w].token > 0
  /\ ClaimNext(i, worker[w].token)
  /\ Claimed(w, i)

(* claim_item, the takeover, followed by classify_item.                    *)
TakeOver(w, i) ==
  /\ worker[w].pc = "idle" /\ worker[w].token > 0
  /\ ClaimItem(i, worker[w].token)
  /\ Claimed(w, i)

(* classify_item reads the item ...                                        *)
GetItem(w) ==
  /\ worker[w].pc = "claimed"
  /\ worker' = [worker EXCEPT ![w].pc = "reading",
                              ![w].attempts = items[worker[w].item].attempts]
  /\ UNCHANGED <<queueVars, doc, nextToken, crashes, claims>>

Finish(w) == worker' = [worker EXCEPT ![w] = [Idle EXCEPT !.token = worker[w].token]]

(* ... asks the provider ...                                               *)
ReadBack(w, n, read, query, ping) ==
  /\ worker[w].pc = "reading"
  /\ items[worker[w].item].intent = {n}
  /\ worker' = [worker EXCEPT ![w].pc = "answered",
                              ![w].class = Classify(n, items[worker[w].item].kind,
                                                    read, query, ping)]
  /\ UNCHANGED <<queueVars, doc, nextToken, crashes, claims>>

(* ... which may raise UncertainOutcome, that classify_item does not catch *)
ReadBackRaises(w) ==
  /\ worker[w].pc = "reading"
  /\ "unreachable" \in Modes
  /\ Finish(w)
  /\ UNCHANGED <<queueVars, doc, nextToken, crashes, claims>>

(* ... and completes.                                                      *)
Complete(w, i, class, next) ==
  /\ CompleteClassification(i, worker[w].token, class, next)
  /\ Finish(w)
  /\ UNCHANGED <<doc, nextToken, crashes, claims>>

ApplyAnswer(w, i) ==
  /\ worker[w].pc = "answered" /\ worker[w].item = i
  /\ Complete(w, i, worker[w].class, NextStatus(worker[w].class, worker[w].attempts))

(* The queue refuses: the caller lost the item or the guard forbids it.    *)
AnswerRefused(w, i) ==
  /\ worker[w].pc = "answered" /\ worker[w].item = i
  /\ ~(/\ Owns(i, worker[w].token)
       /\ MayComplete(i, worker[w].class,
                      NextStatus(worker[w].class, worker[w].attempts)))
  /\ Finish(w)
  /\ UNCHANGED <<queueVars, doc, nextToken, crashes, claims>>

(* An operator who claimed the item resolves it after checking by hand.    *)
OperatorResolves(w, i) ==
  /\ worker[w].pc = "claimed" /\ worker[w].item = i
  /\ Complete(w, i, "AMBIGUOUS", RESOLVED)

CloseRetried(i) ==
  /\ MarkRetried(i)
  /\ UNCHANGED <<worker, doc, nextToken, crashes, claims>>

OperatorAbandons(i) ==
  /\ Abandon(i)
  /\ UNCHANGED <<worker, doc, nextToken, crashes, claims>>

(* A worker dies during classification.                                    *)
WorkerDies(w) ==
  /\ worker[w].pc # "idle"
  /\ crashes < MaxCrashes
  /\ crashes' = crashes + 1
  /\ Finish(w)
  /\ UNCHANGED <<queueVars, doc, nextToken, claims>>

(* The whole process restarts: every call and every lease is gone, the     *)
(* queue is replayed, and the per-process token counter starts again.      *)
Restart ==
  /\ Replay
  /\ worker' = [w \in Workers |-> Idle]
  /\ nextToken' = 1
  /\ UNCHANGED <<doc, crashes, claims>>

(* The provider's document changes by itself.                              *)
ProviderMoves(n, d) ==
  /\ <<doc[n], d>> \in DocSteps
  /\ doc' = [doc EXCEPT ![n] = d]
  /\ UNCHANGED <<queueVars, worker, nextToken, crashes, claims>>

Classification(w) ==
  \/ GetItem(w)
  \/ \E n \in Intents, read, query, ping \in Modes \ {"unreachable"} :
       ReadBack(w, n, read, query, ping)
  \/ ReadBackRaises(w)
  \/ \E i \in ItemIds : ApplyAnswer(w, i) \/ AnswerRefused(w, i)

Next ==
  \/ \E n \in Intents, kind \in Kinds : EnqueueUncertain(n, kind)
  \/ \E w \in Workers :
       \/ NewToken(w)
       \/ Classification(w)
       \/ WorkerDies(w)
       \/ \E i \in ItemIds :
            ClassifyNext(w, i) \/ TakeOver(w, i) \/ OperatorResolves(w, i)
  \/ \E i \in ItemIds : CloseRetried(i) \/ OperatorAbandons(i)
  \/ Restart
  \/ \E n \in Intents, d \in Docs : ProviderMoves(n, d)

Spec == Init /\ [][Next]_vars

(* Workers keep asking for the next item and finish what they started;     *)
(* nobody is obliged to take over, resolve, retry or abandon.              *)
FairSpec ==
  /\ Spec
  /\ \A w \in Workers :
       /\ WF_vars(Classification(w))
       /\ WF_vars(NewToken(w))
       /\ WF_vars(\E i \in ItemIds : ClassifyNext(w, i))

-----------------------------------------------------------------------------
(* Properties.                                                             *)

(* A classification is only ever applied by the claim that is still the    *)
(* latest on its item: a worker overtaken between its read-back and its    *)
(* completion writes nothing. (A restart ends every call and may lose      *)
(* items; it applies no classification.)                                   *)
StaleAnswersIgnored ==
  [][\A w \in Workers, i \in ItemIds :
       /\ worker[w].pc = "answered" /\ worker[w].item = i
       /\ items'[i].attempts # items[i].attempts /\ worker'[w].pc = "idle"
       /\ restarts' = restarts
       => worker[w].claim = claims[i]]_vars

(* The requeue after UNAVAILABLE is bounded: an item waiting in the queue  *)
(* has used fewer than max_attempts classifications, although the engine   *)
(* decides on a count it read before it asked the provider.                *)
BoundedRequeue ==
  \A i \in ItemIds : items[i].status = PENDING => items[i].attempts < MaxAttempts

(* The items are sound: well typed, requeued within bounds through any     *)
(* takeover, crash and restart, and, until the first restart, one per      *)
(* intent and found under it (OneItemPerIntent says what comes after).     *)
ItemsInv == TypeOK /\ BoundedRequeue /\ (restarts = 0 => OneItemPerIntent)

(* An item becomes SAFE_RETRYABLE only when the provider has no such       *)
(* document or payment: ABSENT is "verified" in the runbook, and the retry *)
(* that follows would duplicate it. Violated: ERPNext's adapter raises     *)
(* DocumentRejected for every HTTP error of a read-back, and the engine    *)
(* takes that for ABSENT.                                                  *)
RetryOnlyWhenAbsent ==
  [][\A i \in ItemIds, n \in Intents :
       /\ items[i].intent = {n}
       /\ items[i].status # SAFE_RETRYABLE /\ items'[i].status = SAFE_RETRYABLE
       => doc[n] \notin {"posted", "dropped"}]_vars

(* An item once escalated for AMBIGUOUS is never again in the retry lane,  *)
(* "even under a fresh operator claim" (complete_classification). Violated:*)
(* a later escalation for UNAVAILABLE overwrites escalated_from, and the   *)
(* guard goes with it.                                                     *)
AmbiguousNeverRetried ==
  \A i \in ItemIds :
    [](items[i].escalatedFrom = "AMBIGUOUS" => [](items[i].status # SAFE_RETRYABLE))

Decided == {RESOLVED, SAFE_RETRYABLE, ESCALATED, ABANDONED}

(* No item remains silently stuck, as engine.py and the runbook say: a     *)
(* waiting item is eventually decided. Violated without any crash: an      *)
(* UncertainOutcome of the read-back escapes classify_item, the item stays *)
(* CLASSIFYING and only an operator's takeover frees it.                   *)
NoItemStuck ==
  \A i \in ItemIds : items[i].status = PENDING ~> items[i].status \in Decided

(* What holds of waiting items however often the provider is down: each    *)
(* one leaves the queue for good, be it behind others that are requeued,   *)
(* and ends decided or claimed by a call that is over (raised, died, was   *)
(* refused or restarted away) and whose item waits for a takeover.         *)
WaitingItemsLeave ==
  \A i \in ItemIds :
    items[i].status = PENDING ~>
      \/ items[i].status \in Decided
      \/ /\ items[i].status = CLASSIFYING
         /\ \A w \in Workers : worker[w].pc # "idle" => worker[w].item # i

=============================================================================
