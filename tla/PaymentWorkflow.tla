--------------------------- MODULE PaymentWorkflow ---------------------------
(***************************************************************************)
(* Payments: src/workflows/payments/workflow.py over a provider that keeps *)
(* its books as the fixture ERP does and promises no more than the port    *)
(* (erp_port.py): it may refuse any payment, may or may not have applied   *)
(* what it reports as uncertain, may apply a reversal whose answer is      *)
(* lost, and need not look for an earlier payment with the same evidence.  *)
(* The fixture, which refuses a second one and has always applied what it  *)
(* reports as uncertain, is one such provider.                             *)
(*                                                                         *)
(* Every method holds the workflow's lock, so one request at a time is in  *)
(* progress (call). record_payment is split where the provider may be      *)
(* changed by somebody else: invoices are cancelled by the invoice         *)
(* workflow, which has a lock of its own. A request that is refused before *)
(* it changes anything is no step. Account alias and currency are fixed by *)
(* the policy of the unit and left out; MayRecord is what authorize        *)
(* decides. The queue entry made for an uncertain payment is the subject   *)
(* of ReconciliationEngine.                                                *)
(***************************************************************************)
EXTENDS Naturals, Sequences, FiniteSets, FiniteSetsExt

CONSTANTS
  Actors, Units, Invoices, Evidence,
  Keys,        \* idempotency keys callers may give; without one, the evidence
  Amounts,     \* amounts callers may name
  UnitOf,      \* operating unit of an invoice
  Total,       \* total of an invoice
  MayRecord,   \* pairs of actor and unit with PAYMENT_RECORD
  MaxPayments, \* bound: payment entries at the provider
  MaxClaims    \* bound: keys ever claimed

ASSUME PaymentAssumption ==
  /\ UnitOf \in [Invoices -> Units] /\ Total \in [Invoices -> Nat]
  /\ Amounts \subseteq Nat \ {0} /\ MaxPayments \in Nat /\ MaxClaims \in Nat
  /\ MayRecord \subseteq Actors \X Units

VARIABLES
  claims,      \* _claims, in insertion order
  byEvidence,  \* _by_evidence_ref
  pending,     \* _pending_uncertain
  reversed,    \* _reversed
  call,        \* the record_payment holding the lock, if any
  payments,    \* the provider's payment entries; the index is the reference
  open,        \* the provider's open amount of each invoice
  status       \* the provider's status of each invoice

workflowVars == <<claims, byEvidence, pending, reversed>>
providerVars == <<payments, open, status>>
vars == <<claims, byEvidence, pending, reversed, call, payments, open, status>>

-----------------------------------------------------------------------------

NoRef == 0
Refs  == 1..MaxPayments

ClaimKeys == Keys \cup Evidence
Payload   == [invoice : Invoices, amount : Amounts, evidence : Evidence]
Outcomes  == {"PENDING", "RECORDED", "REJECTED", "UNCERTAIN"}

(* The invoice that anchors an UNCERTAIN claim is the one of its payload.  *)
ClaimState == [actor : Actors, key : ClaimKeys, payload : Payload,
               outcome : Outcomes, ref : {NoRef} \cup Refs]

Idle  == [at |-> "idle"]
Calls == {Idle} \cup
         [at : {"sending", "readback"}, actor : Actors, key : ClaimKeys,
          payload : Payload, ref : {NoRef} \cup Refs]

(* The provider's reversal records, which nothing reads but the refusal to *)
(* reverse them, are not kept.                                             *)
Entry == [invoice : Invoices, amount : Amounts, evidence : Evidence,
          reversed : BOOLEAN]

PaymentTypeOK ==
  /\ claims \in Seq(ClaimState)
  /\ byEvidence \in [Evidence -> {NoRef} \cup Refs]
  /\ pending \subseteq Evidence
  /\ reversed \subseteq Refs
  /\ call \in Calls
  /\ payments \in Seq(Entry) /\ Len(payments) <= MaxPayments
  /\ open \in [Invoices -> Nat]
  /\ status \in [Invoices -> {"POSTED", "CANCELLED"}]

Init ==
  /\ claims = <<>>
  /\ byEvidence = [e \in Evidence |-> NoRef]
  /\ pending = {}
  /\ reversed = {}
  /\ call = Idle
  /\ payments = <<>>
  /\ open = Total
  /\ status = [i \in Invoices |-> "POSTED"]

-----------------------------------------------------------------------------
(* The provider                                                            *)

(* The provider applies a payment only if this holds.                      *)
Acceptable(p) ==
  /\ status[p.invoice] = "POSTED"
  /\ p.amount <= open[p.invoice]

ApplyPayment(p) ==
  /\ Len(payments) < MaxPayments
  /\ payments' = Append(payments, [invoice |-> p.invoice, amount |-> p.amount,
                                   evidence |-> p.evidence, reversed |-> FALSE])
  /\ open' = [open EXCEPT ![p.invoice] = @ - p.amount]
  /\ UNCHANGED status

(* The payments a read-back by evidence reference finds, reversed or not.  *)
Found(e) == {r \in DOMAIN payments : payments[r].evidence = e}

Live(i) == {r \in DOMAIN payments : payments[r].invoice = i /\ ~payments[r].reversed}

VoidInvoice(i) ==
  /\ status[i] = "POSTED"
  /\ status' = [status EXCEPT ![i] = "CANCELLED"]
  /\ open' = [open EXCEPT ![i] = 0]
  /\ UNCHANGED <<workflowVars, call, payments>>

(* cancel_posted of the invoice workflow: refused while the invoice has a  *)
(* payment that is not reversed.                                           *)
CancelInvoice(i) == Live(i) = {} /\ VoidInvoice(i)

-----------------------------------------------------------------------------
(* record_payment                                                          *)

Claim(a, k) == {i \in DOMAIN claims : claims[i].actor = a /\ claims[i].key = k}

(* Assignment to _claims: a known key keeps its place.                     *)
PutClaim(c) ==
  LET known == Claim(c.actor, c.key)
  IN claims' = IF known = {} THEN Append(claims, c)
               ELSE [i \in DOMAIN claims |-> IF i \in known THEN c ELSE claims[i]]

(* The claim lets a request through if it is new, or has the same payload  *)
(* and was rejected. RECORDED is answered from the claim, UNCERTAIN and    *)
(* another payload are refused.                                            *)
ClaimAllows(a, k, p) ==
  \A i \in Claim(a, k) : /\ claims[i].payload = p
                         /\ claims[i].outcome \in {"REJECTED", "PENDING"}

(* An evidence reference already recorded is refused to any other claim.   *)
EvidenceFree(a, k, e) ==
  \/ byEvidence[e] = NoRef
  \/ \E i \in Claim(a, k) : claims[i].ref = byEvidence[e]

(* The request passes every other check, claims its key and goes to the    *)
(* provider.                                                               *)
SubmitPayment(a, k, p) ==
  /\ call = Idle
  /\ status[p.invoice] = "POSTED"
  /\ <<a, UnitOf[p.invoice]>> \in MayRecord
  /\ ClaimAllows(a, k, p)
  /\ p.amount <= open[p.invoice]
  /\ EvidenceFree(a, k, p.evidence)
  /\ Claim(a, k) = {} => Len(claims) < MaxClaims
  /\ PutClaim([actor |-> a, key |-> k, payload |-> p, outcome |-> "PENDING",
               ref |-> NoRef])
  /\ call' = [at |-> "sending", actor |-> a, key |-> k, payload |-> p,
              ref |-> NoRef]
  /\ UNCHANGED <<byEvidence, pending, reversed, providerVars>>

RecordPayment(a, k, p) == p.evidence \notin pending /\ SubmitPayment(a, k, p)

(* The end of a call: the claim gets its outcome, the lock is released.    *)
Settle(outcome, ref) ==
  /\ PutClaim([actor |-> call.actor, key |-> call.key, payload |-> call.payload,
               outcome |-> outcome, ref |-> ref])
  /\ call' = Idle

ProviderAccepts ==
  /\ call.at = "sending"
  /\ Acceptable(call.payload)
  /\ ApplyPayment(call.payload)
  /\ call' = [call EXCEPT !.at = "readback", !.ref = Len(payments) + 1]
  /\ UNCHANGED <<workflowVars>>

(* UncertainOutcome: the evidence reference is blocked until reconciled.   *)
ProviderUncertain(applied) ==
  /\ call.at = "sending"
  /\ IF applied THEN Acceptable(call.payload) /\ ApplyPayment(call.payload)
     ELSE UNCHANGED providerVars
  /\ Settle("UNCERTAIN", NoRef)
  /\ pending' = pending \cup {call.payload.evidence}
  /\ UNCHANGED <<byEvidence, reversed>>

(* DocumentRejected, by a check of the provider or in an outage.           *)
ProviderRejects ==
  /\ call.at = "sending"
  /\ Settle("REJECTED", NoRef)
  /\ UNCHANGED <<byEvidence, pending, reversed, providerVars>>

ReadBack ==
  /\ call.at = "readback"
  /\ Settle("RECORDED", call.ref)
  /\ byEvidence' = [byEvidence EXCEPT ![call.payload.evidence] = call.ref]
  /\ UNCHANGED <<pending, reversed, providerVars>>

(* The read-back raises or does not match: as after UncertainOutcome, but  *)
(* the claim keeps the reference.                                          *)
ReadBackFails ==
  /\ call.at = "readback"
  /\ Settle("UNCERTAIN", call.ref)
  /\ pending' = pending \cup {call.payload.evidence}
  /\ UNCHANGED <<byEvidence, reversed, providerVars>>
-----------------------------------------------------------------------------
(* reconcile_payment                                                       *)

Uncertain == {i \in DOMAIN claims : claims[i].outcome = "UNCERTAIN"}

(* _anchor_invoice: the caller's claim under this evidence reference, else *)
(* the last one of anybody, else the caller's only other uncertain claim.  *)
(* The result is a set of at most one invoice.                             *)
Anchor(a, e) ==
  LET exact == {i \in Uncertain : claims[i].key = e}
      own   == {i \in exact : claims[i].actor = a}
      mine  == {i \in Uncertain \ exact : claims[i].actor = a}
      chosen == IF own # {} THEN own
                ELSE IF exact # {} THEN {Max(exact)}
                ELSE IF Cardinality(mine) = 1 THEN mine ELSE {}
  IN {claims[i].payload.invoice : i \in chosen}

Resolve(is, outcome, ref) ==
  claims' = [i \in DOMAIN claims |->
               IF i \in is
               THEN [claims[i] EXCEPT !.outcome = outcome, !.ref = ref]
               ELSE claims[i]]

OfUnit(unit) == {i \in DOMAIN claims : UnitOf[claims[i].payload.invoice] = unit}

ResolveClaimsOfAnyOutcome(unit, outcome, ref, last) ==
  Resolve(OfUnit(unit) \cap 1..last, outcome, ref)

(* The loop over _claims as far as position last: every uncertain claim of *)
(* the unit gets the outcome and the reference of this reconciliation.     *)
ResolveClaims(unit, outcome, ref, last) ==
  Resolve(Uncertain \cap OfUnit(unit) \cap 1..last, outcome, ref)

(* The part before the classification. The still uncertain outcome of the  *)
(* read-back changes nothing and is no step.                               *)
MayReconcile(a, e, unit) ==
  /\ call = Idle
  /\ e \in pending
  /\ \E i \in Anchor(a, e) : unit = UnitOf[i]
  /\ <<a, unit>> \in MayRecord

(* The provider has the payment. Each claim's invoice is read on the way,  *)
(* and if one read fails the method ends there: the claims before it are   *)
(* resolved, the evidence reference is no longer pending and not indexed.  *)
ReconcilePresent(a, e) ==
  \E unit \in Units, r \in Found(e) :
    /\ MayReconcile(a, e, unit)
    /\ pending' = pending \ {e}
    /\ \/ /\ ResolveClaims(unit, "RECORDED", r, Len(claims))
          /\ byEvidence' = [byEvidence EXCEPT ![e] = r]
       \/ /\ \E i \in Uncertain : ResolveClaims(unit, "RECORDED", r, i - 1)
          /\ UNCHANGED byEvidence
    /\ UNCHANGED <<reversed, call, providerVars>>

(* The provider has no such payment.                                       *)
ReconcileAbsent(a, e) ==
  \E unit \in Units :
    /\ MayReconcile(a, e, unit)
    /\ Found(e) = {}
    /\ pending' = pending \ {e}
    /\ \/ ResolveClaims(unit, "REJECTED", NoRef, Len(claims))
       \/ \E i \in Uncertain : ResolveClaims(unit, "REJECTED", NoRef, i - 1)
    /\ UNCHANGED <<byEvidence, reversed, call, providerVars>>
-----------------------------------------------------------------------------
(* reverse_payment                                                         *)

MayReverse(a, r) ==
  /\ call = Idle
  /\ r \in DOMAIN payments
  /\ r \notin reversed
  /\ <<a, UnitOf[payments[r].invoice]>> \in MayRecord

UndoPayment(r) ==
  /\ status[payments[r].invoice] = "POSTED"
  /\ payments' = [payments EXCEPT ![r].reversed = TRUE]
  /\ open' = [open EXCEPT ![payments[r].invoice] = @ + payments[r].amount]
  /\ UNCHANGED status

ProviderReverses(r) == ~payments[r].reversed /\ UndoPayment(r)

ReversePaymentUnconfirmed(a, r) ==
  /\ MayReverse(a, r)
  /\ ProviderReverses(r) \/ UNCHANGED providerVars
  /\ reversed' = reversed \cup {r}
  /\ UNCHANGED <<claims, byEvidence, pending, call>>

ReversePayment(a, r) ==
  /\ MayReverse(a, r)
  /\ ProviderReverses(r)
  /\ reversed' = reversed \cup {r}
  /\ UNCHANGED <<claims, byEvidence, pending, call>>

(* The provider reverses the payment and its answer is lost: the workflow  *)
(* reports a rejection and does not mark the payment.                      *)
ReversalAnswerLost(a, r) ==
  /\ MayReverse(a, r)
  /\ ProviderReverses(r)
  /\ UNCHANGED <<workflowVars, call>>

-----------------------------------------------------------------------------

Next ==
  \/ \E a \in Actors, p \in Payload :
       \E k \in Keys \cup {p.evidence} : RecordPayment(a, k, p)
  \/ ProviderAccepts
  \/ \E applied \in BOOLEAN : ProviderUncertain(applied)
  \/ ProviderRejects
  \/ ReadBack
  \/ ReadBackFails
  \/ \E a \in Actors, e \in Evidence :
       ReconcilePresent(a, e) \/ ReconcileAbsent(a, e)
  \/ \E a \in Actors, r \in Refs :
       ReversePayment(a, r) \/ ReversalAnswerLost(a, r)
  \/ \E i \in Invoices : CancelInvoice(i)

Spec == Init /\ [][Next]_vars

-----------------------------------------------------------------------------

(* The open amount is what the payments that are not reversed leave of the *)
(* total, never less than nothing, and a cancelled invoice keeps nobody's  *)
(* money, whatever reversals, cancellations and uncertain payments race    *)
(* (erp.py _apply_payment, reverse_payment, cancel_invoice).               *)
ReceivableConserved ==
  \A i \in Invoices :
    IF status[i] = "POSTED"
    THEN open[i] + MapThenSumSet(LAMBDA r : payments[r].amount, Live(i)) = Total[i]
    ELSE Live(i) = {}

(* The books are well typed and add up.                                    *)
BooksInv == PaymentTypeOK /\ ReceivableConserved

(* One evidence reference pays once, over several actors and keys. The     *)
(* comment at workflow.py:355-356 says that a second key cannot apply it   *)
(* again; the workflow does not see to that, because a reconciliation that *)
(* fails on a claim's invoice has dropped the pending mark already and has *)
(* not yet indexed the payment (workflow.py:556-567).                      *)
EvidencePaidOnce ==
  \A r, s \in DOMAIN payments :
    payments[r].evidence = payments[s].evidence => r = s

(* What the workflow does see to: no payment is made with an evidence      *)
(* reference that awaits reconciliation or is known to have paid, by       *)
(* anybody under any key, although the claim of that key may be a rejected *)
(* or an old one (workflow.py:283-285 and 329-362).                        *)
NoBlindRetry ==
  [][\A r \in DOMAIN payments' \ DOMAIN payments :
       /\ payments'[r].evidence \notin pending
       /\ byEvidence[payments'[r].evidence] = NoRef]_vars

(* What the workflow tells its callers exists: a RECORDED claim names some *)
(* payment of the provider (not always its own: RecordedForItsEvidence),   *)
(* the evidence index a payment made with that evidence, and a payment it  *)
(* holds for reversed is reversed, whatever answers were lost.             *)
LocalViewIsTrue ==
  /\ \A i \in DOMAIN claims : claims[i].outcome = "RECORDED" =>
       claims[i].ref \in DOMAIN payments
  /\ \A e \in Evidence : byEvidence[e] # NoRef =>
       /\ byEvidence[e] \in DOMAIN payments
       /\ payments[byEvidence[e]].evidence = e
  /\ \A r \in reversed : r \in DOMAIN payments /\ payments[r].reversed

(* A claim answered RECORDED gives the reference of a payment made with    *)
(* the evidence it was opened for: the claim ties the key to one payload   *)
(* and a replay returns the result of that request (workflow.py:334-342,   *)
(* DUPLICATE_PAYMENT_POLICY.md:18). Violated: reconciling one evidence     *)
(* reference gives its payment to every uncertain claim of the unit        *)
(* (workflow.py:557-566).                                                  *)
RecordedForItsEvidence ==
  \A i \in DOMAIN claims : claims[i].outcome = "RECORDED" =>
    payments[claims[i].ref].evidence = claims[i].payload.evidence

(* An answer RECORDED is final, so every replay of its key returns the     *)
(* same reference (workflow.py:341), and a reconciliation decides only     *)
(* uncertain claims of one unit, one in which its caller may record        *)
(* payments, also when it is anchored on a claim of another actor, or of   *)
(* another evidence, and when it stops half way (workflow.py:485-567).     *)
ReconcileStaysInScope ==
  [][/\ \A i \in DOMAIN claims :
          claims[i].outcome = "RECORDED" => claims'[i] = claims[i]
     /\ \A a \in Actors, e \in Evidence :
          ReconcilePresent(a, e) \/ ReconcileAbsent(a, e) =>
            \E unit \in Units :
              /\ <<a, unit>> \in MayRecord
              /\ \A i \in DOMAIN claims : claims'[i] # claims[i] =>
                   i \in Uncertain \cap OfUnit(unit)]_vars

(* A step decides the claims of one actor only: a reconciliation does no   *)
(* cross-actor resolution (workflow.py:464-465). Violated: the loop over   *)
(* the claims looks at their unit and not at their actor.                  *)
NoCrossActorResolution ==
  [][\A i, j \in DOMAIN claims :
       claims'[i] # claims[i] /\ claims'[j] # claims[j] =>
         claims[i].actor = claims[j].actor]_vars

=============================================================================
