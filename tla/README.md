# Verification of erp-agentic

TLA+ modules, TLC runs and TLAPS proofs for the parts of erp-agentic that decide
whether money moves once and who may see and do what: the idempotent mutation
path and its durable claims, the audit chain, the reconciliation of outcomes
nobody knows, the drafting, invoice and payment workflows with authorization,
settings and identity policy, the ERPNext and CRM adapters, and the owner's
reports. Paths below are relative to the repository (its Python packages live
in `src/src`).

## 1. The system

erp-agentic is a control layer in front of an ERP (ERPNext, or a fixture). Every
financial operation, such as posting an invoice or recording a payment, is a
*mutation* of the ERP identified by an idempotency key. The ERP may be slow,
down, or answer after having been given up on, so an operation ends in one of
three ways: known to have happened, known not to have happened, or uncertain;
the uncertain ones are queued, read back and classified by the reconciliation
engine, and retried only if the ERP is known to have nothing.

| Component | State it keeps | Operations | Who uses it |
|---|---|---|---|
| mutation executor (`mutations/executor.py`) | none of its own | `execute`, `recover` | callers with a lease; calls store, chain, provider |
| mutation store (`mutations/store.py`) | rows by key, registered references, fencing registry, capacity | `claim`, `rollback_claim`, `write_success`, `write_failure`, `resolve`, `register_fencing` | executor |
| lease (`mutations/lease.py`) | per-process token counter | `claim`, `assert_fresh`, expiry | executor, engine callers |
| audit chain (`audit/chain.py`) | hash-linked records | `append`, `verify` | executor, queue |
| durable claim store (`mutations/durable_store.py`, `claim_store.py`) | SQLite claims with owner, token, expiry | `claim`, `get` | no production caller yet |
| reconciliation queue (`reconciliation/queue.py`) | items, index by intent, transition log | `enqueue`, `claim_next`, `claim_item`, `complete_classification`, `mark_retried`, `abandon`, `replay` | engine, operators |
| reconciliation engine (`reconciliation/engine.py`) | none of its own | `enqueue_*`, `classify_next`, `classify_item` | workers; calls queue and provider |
| provider adapters (`adapters/fixture`, `adapters/erpnext`) | documents, payments, deliveries | create, post, record, reverse, cancel, read-back | workflows, engine |
| workflows (`workflows/invoice_draft`, `invoice_post`, `payments`) | drafts, intents, uncertain claims | open, lines, preview, post, reconcile, record, reverse | API layer |
| unit settings (`units/settings.py`) | versions of a unit's settings | `draft`, `activate`, `rollback`, `get_active` | workflows |
| authorization (`authz/access.py`) | none: assignments are handed over by the caller | `authorize` | workflows, reports |
| financial identity (`policy/financial_identity.py`) | policies, approved catalog, issuers, fixed at construction | `resolve` | draft workflow |
| CRM port and adapters (`crm/port.py`, `adapters/fixture_crm`, `adapters/erpnext_crm`) | leads, quotations, the roster of assigned units | create, transfer, archive, quote, search, export, conflict check | API layer |
| reports (`reports/owner`, `reports/receivables`) | none: rows collected during a call | `query` (roll-up, aging) | owner; read the provider |
| unit registry, imports, isolation policy, operations | see section 7 | validation or I/O | - |

**What is hard.** Only `store.claim` of the store takes a lock: everything else
that `execute` and `recover` do is a sequence of unlocked reads and writes,
interleaved with an audit append and a provider call that can fail, time out
after having taken effect, or outlive the worker. Durable claims are taken over
when a lease expires, by processes whose clocks are read before they wait for
the database. `classify_item` reads the item, asks the provider (up to three
calls, during which the provider may go up or down) and completes without
holding the queue's lock, while operators take items over; the queue is rebuilt
from its log after a restart. The draft, post and payment workflows have a lock
each, so a draft changes in the middle of its post and an invoice is cancelled in
the middle of a payment. Settings are replaced without any lock, and assignments,
settings and policies change between a draft, its preview and its review. One
operation of the ERPNext adapters is a sequence of requests, any of which can be
refused, lose its answer or meet an expired session, with other clients between
them; reports list and read invoices one by one while others change them.

**What makes each component correct.** The list has what the code keeps. What the
repository promises and the code does not keep is in section 5.

- *executor, store, chain*: one provider call per key; no call without its audit
  event; the call carries the payload the key is bound to; a recorded reference is
  one the provider issued, and is never lost or exchanged; the audit trail claims
  nothing the store does not hold.
- *durable claims*: all owners of a key were told so for its payload; the stored
  token never goes back; nobody takes over a lease that still runs; nobody becomes
  an owner under a smaller token than a living owner; recorded outcomes are final.
- *queue*: one item per intent until a restart; the first restart restores
  everything, later ones never bring an item back in an earlier state.
- *engine*: an overtaken worker writes nothing; requeueing is bounded; a waiting
  item is not starved by the others.
- *drafting, authorization, policy*: a revised assignment freezes the draft opened
  under it; keys replay to the same draft; equal hashes show equal previews; a
  review shows what holds at the time its caller gives; an override only decides an
  ambiguity.
- *settings*: at most one active version, also when calls race; with callers in
  turn, windows of service chain without overlap and can be walked back.
- *invoice workflows*: a draft gets one official number; no numbered invoice is
  lost; the read model agrees with the provider; snapshots are immutable.
- *payment workflow*: the open amount is what live payments leave; evidence that is
  known to have paid, or awaits reconciliation, is not sent again; what is reported
  exists; recorded answers are final; a reconciliation stays within one unit its
  caller may record in.
- *ERPNext adapter*: what it reports as done is done; no entry on a foreign
  document; every operation ends.
- *CRM*: owners were assigned; leads stay in scope; a walk through the pages is
  complete.
- *reports*: no invoice twice, each with an amount it had open meanwhile; none left
  out that was open throughout in a unit that fits on one page; only authorized units.

## 2. Modules

### `MutationExecutor`: the mutation path

State: `data`, `extRefs`, `fencing` are the store's `_data`, `_external_refs`
and `_fencing`; `chain` the audit records; `nextToken` the counter of
`lease.py`; `lease` and `worker` what each thread holds and where it is in
`execute` or `recover`; `calls` and `applied` are history variables recording
what the provider was asked and what it did; `others` counts the rows of keys that are not followed
here, which other calls add and roll back (`OtherKeys`), so that a store may fill up
between any two steps of a call; `faults` counts injected faults.

A call is split at every access to shared state that no lock protects:

| Step of the code | Action |
|---|---|
| `MutationLease.claim`, time passing | `LeaseClaim`, `LeaseExpires` |
| `execute`: checks, read in `register_fencing` | `BeginExecute` |
| write in `register_fencing` | `RegisterFencing` |
| `store.claim` (locked: one step) | `Claim` |
| `_audit_event`: read length and head; `append` | `ReadHead`; `Append_`, `AppendRejected`, `AppendFails` |
| `rollback_claim` after a failed pre-audit | `RollbackClaim` |
| provider returns / raises / takes effect and raises | `ProviderReturns` / `ProviderFails` / `ProviderTimesOut` |
| `write_failure` | `WriteFailure` |
| `write_success`: check, write, injected failure | `CheckCollision`, `StoreSuccess`, `WriteSuccessFails` |
| `resolve` to UNCERTAIN after a failed success audit | `Downgrade` |
| `recover`: checks; `get`; `resolve`; audit | `BeginRecover`; `ReadBack`; `Resolve`; the append actions |
| a thread dies in the middle | `WorkerDies` |
| claims and rollbacks of other keys | `OtherKeys` |

Abstractions: keys, payloads and references are model values; the payload hash
is the payload (equal hashes, equal payloads); `IdempotencyKey.derive` is the
constant function `DerivedKey`; a record's sequence number stands for itself and
for the hash of its predecessor; time is only "this lease has expired at this
call". A refused call that has written nothing is not a step. The audit append
distinguishes the two ways it can raise, because the handlers do: an injected
`RuntimeError` is handled, the `InvalidDomainValue` of a lost race is a
`ValueError` that `execute` does not catch, and the call ends there.

### `MutationContract`: what callers may rely on

An abstract specification without workers, leases, fencing or audit: `Accept`,
`GiveUp` (only if never called), `CallProvider` (once), `Settle` (a reference the
provider really issued, or failed, which promises only that the call is over: see
section 5), `Revise` (between RESOLVED_PRESENT and UNCERTAIN, keeping the reference). `MutationExecutor!ImplementsContract`
instantiates it with the rows and the history variables.

### `OperatorQueue`: the queue

Items by number, the index, the number sequence and the log. Every method holds
the queue's lock, so every method is one action; calls that are refused or
answered from existing state change nothing. The log is kept reduced to what
`replay` makes of it: the latest snapshot per item, the last number per intent,
and the number of the last snapshot (which is what the code continues from).
The module is run through `ReconciliationEngine`, which extends it.

### `ReconciliationEngine`: workers over the queue

Extends `OperatorQueue` with workers (`claimed`, `reading`, `answered`), the
provider's documents and a provider mode chosen *per call*: up, in outage, answering
with an HTTP error (which the ERPNext adapter reports as a rejection) or unreachable,
so the provider may go down between the read-back, the query and the ping. `StartDocs`
and `DocSteps` say what the provider has of an intent at first and how that may change
by itself: posted, left as a draft, dropped, or not known. `Classify` translates
`_classify_post` and `_classify_payment` with the exception handler around
them. Operators take over (`TakeOver`) and resolve (`OperatorResolves`);
workers die; the process restarts, losing its leases and its token counter. `claims`
is a history variable, counting the claims made on an item.

### `InvoicePosting`: drafts, posts, deliveries

State: `drafts` of the draft workflow; `posted`, `byDraft` and `pending` are
`_posted`, `_by_draft_id` and `_pending_uncertain` of the post workflow;
`version` the active settings version; `docs` and `deliveries` the fixture's
`_invoices` and `_deliveries`; `call` the post that holds the post workflow's
lock. `official` says whether a document was ever given a number.

| Step of the code | Action |
|---|---|
| `open_draft`, `set_lines`, `cancel` (draft lock: one step each) | `OpenDraft`, `SetLines`, `CancelDraft` |
| `UnitSettingsStore.activate` | `ActivateSettings` |
| `post`: checks and `recompute_preview_expectation` | `Post` |
| `get_draft` and `create_draft_invoice` | `CreateDraftInvoice`, `CreateRejected` |
| `post_invoice` and its four outcomes | `PostSucceeds`, `PostRejected`, `PostUncertain`, `PostRaises` |
| `reconcile_post` | `ReconcilePost` |
| `cancel_posted`, `enqueue_delivery` | `CancelPosted`, `EnqueueDelivery` |

A preview is the lines and the settings version it was made from: total, hash
and branding follow from them, and the workflow accepts only a preview equal to
the recomputed one. The read model keeps of the lines what follows from them.
Steps of `reconcile_post` are not split: its two accesses to the draft are
before its only provider call that decides anything.

### `PaymentWorkflow`: record, reconcile, reverse

State: `claims` (in insertion order, which the loops of `reconcile_payment`
follow), `byEvidence`, `pending`, `reversed` are the workflow's dictionaries;
`payments`, `open`, `status` the provider's books; `call` the `record_payment`
that holds the lock. `RecordPayment` is everything up to the provider call,
then `ProviderAccepts`, `ProviderUncertain` or `ProviderRejects`, then
`ReadBack` or `ReadBackFails`; `ReconcilePresent` and `ReconcileAbsent` include
the case that the loop over the claims is cut short by a failing read;
`CancelInvoice` is the invoice workflow interfering. The provider keeps its port
(`contracts/erp_port.py`) and no more: what it calls uncertain may have been applied or
not, the answer of a reversal may be lost, and a second payment with the same evidence
reference is accepted like any other. The fixture, which has always applied what it
calls uncertain and refuses evidence it knows, is one such provider. `MayRecord` says
who holds the role in which unit.

The workflow is not modelled over the ERPNext adapter: `_resolve_unit_ref` reads
the operating unit from `payload["identity"]`, which ERPNext's documents do not
have, so every command would be refused.

### `UnitSettings`: versions without a lock

One unit. `draft` and `rollback` append to the list they find, `activate` builds a
new list and puts it in place of the old one, so `lists` holds every list there
ever was, `current` the one the store points at, and a racing call may append to
a list that has been replaced. Calls are split at each access (`BeginDraft`,
`BeginActivate`, `BeginRollback`, then `Step`); `Look` is a caller reading the
version it will expect. `serial` is chosen in the initial state: callers that
take turns, or callers that race.

### `DurableClaimStore`: claims that outlive a process

`rows` is the table, `lease`, `counter` and `call` what each process holds,
`grants` what its worker has been told it owns. `BeginClaim` checks the caller's
own lease and keeps the instant it was given, `Transaction` is the immediate
SQLite transaction with all its answers (new, replay, conflict, busy, stale,
takeover, terminal, capacity); `Tick` moves the clock between them and `Restart`
kills a process and starts its token counter again. `RecordOutcome` is external:
no code in the repository writes outcomes into this table yet. Every process numbers
its leases itself, from 1, as `MutationLease.claim` does (`lease.py:14`), so two
processes hold equal tokens.

### `ErpNextProvider`: operations as requests

Each operation of the adapter is a program counter over its HTTP requests: login,
reads, creation, submit, cancel, read-back. `Login` and `Unauthorized` are the session
handling of `_request`. Each request may succeed, be refused, meet an expired session
(`SessionExpires`), or fail (`Lost`): before or after it took effect, as an HTTP error,
which becomes `DocumentRejected`, or by its timeout, which becomes `UncertainOutcome`.
A request given up by its client (`GivesUp`) is kept in `late` and may still take effect
at any later time (`Lands`), since the timeout is the client's and does not stop the
server.
`loggedIn` is shared by the adapter's threads, `session` is the server's view. A
list operation stands for the reads that change nothing (`query_invoices`,
`ping`, `known_draft_refs`, the evidence index).

### `UnitCrm`: two adapters over one port

`adapter` is fixed in the initial state. Calls of the fixture are one step. Those
of the ERPNext adapter read, decide and send (`Begin*`, `Send`, `SendFails`, which
applies the write or not); `StartWalk`, the searches and `Count` walk a list page
by page; `ChangeRoster` and `Desk` are people acting in between. The reads before a write
(roster, lead, new owner: `erpnext_crm_adapter.py:195-205`) are one step, `ReadThen`;
what can change between them can as well change between that step and `Send`. Statuses keep
ERPNext's native labels and are mapped by the adapter's tables. `Ascending` lists
what matches in creation order, the order of both adapters.

### `AccessControl`, `FinancialPolicy`: decisions

Operators without state: `Authorize` translates `authorize` check by check in the
code's order, `Resolve` the resolver with validity, approval, requested identity and
signed override. An HMAC is the pair of key and payload.
`DraftReview` and `OwnerReports` extend them.

### `DraftReview`: drafting and review

`drafts`, the previews given out (`issued`), the last one shown (`reviewed`) and the
answers of `open_draft` (`opened`, history), over a `roster` that is revised, settings
that are activated and a clock; callers pass any time up to now, since the code takes
`at` from them. Each method of the workflow holds its lock and is one action:
`OpenDraft`, `SetLines`, `Cancel`, `Preview`, `RenderForReview`. The review is given
any preview with any hash ever issued.

### `OwnerReports`: roll-up and aging

One report at a time, as the calls it makes: `QueryRollup` or `QueryAging` checks
the scope, `QueryUnit` lists a unit's invoices, `ReadInvoice` reads each,
`FinishUnit` and `Finish` add up (`OwnerTotal`, `AgingTotal`, `UnitTotals`), `NoReport` is every refusal in the middle;
what is left to do is a set (`todo` of units, `refs` of invoices) taken in the code's
order, units by their place in `sorted()` (`UnitRank`), invoices by reference;
`PostInvoice`, `PayInvoice`, `ReversePayment` and `CancelInvoice` happen in between. A
list is one page: a unit with more than `PageLength` posted invoices (1000 in
`erpnext_adapter.py:600`) is answered with any that many of them (`Answers`). `had` is
a history variable: every amount an invoice had open since the report began.

### `*Proofs`, `MC*`

`MutationExecutorProofs`, `InvoicePostingProofs`, `DurableClaimStoreProofs`,
`PaymentWorkflowProofs`, `ReconciliationEngineProofs` and `ErpNextProviderProofs`
extend the module they are named after and hold its theorems (section 4). `UnitProofs`
holds those of `UnitSettings` and `UnitCrm`, `DraftAndReportProofs` those of
`DraftReview` and `OwnerReports`; so that two specifications fit in one module,
`UnitCrm` and `OwnerReports` have names of their own (`CrmInit`, `CrmSpec`,
`ReportNext`, `reportVars`, ...). Each specification has an `MC` module giving TLC its
constants.

## 3. Runs

Twelve runs. Deadlock is looked for in `reports` only: elsewhere leases, restarts,
edits or requests are bounded, and a system whose callers have nothing left to ask
may stop.

| Run | Bounds | Shows |
|---|---|---|
| `executor` | 1 key followed and others that fill the store, capacity 2, 2 payloads, 2 workers, 2 references, 2 leases, 2 faults of any kind (507,000 states) | `ProviderAtMostOnce`, `AuditBeforeProvider`, `CallsClaimedPayload`, `ReferencesAreReal`, `AuditNeverOverclaims`, `ImplementsContract` (`TypeOK` and `OutcomeProgress` are proved) |
| `engine` | 2 intents, 2 item numbers, 2 workers, 2 tokens, 2 completions, `max_attempts` 2, 2 restarts, provider up, answering with errors or unreachable per call; intents and workers symmetric (1,786,000) | `ItemsInv` (`TypeOK`, `BoundedRequeue`, and `OneItemPerIntent` until a restart), `StaleAnswersIgnored`, `RestartReplays` |
| `engine_liveness` | 2 intents, 1 worker that may die once, 2 tokens, 2 completions, all four modes, all documents, with fairness (617,000) | `WaitingItemsLeave` |
| `invoices` | 2 drafts, 3 provider documents, 2 line lists, 2 settings versions, 2 actors of whom 1 may post (1,759,000) | `DraftPostedOnce`, `NoLostInvoice`, `ReadModelMatches`, `SnapshotFrozen` (`InvoiceTypeOK` is proved) |
| `payments` | 2 actors, 2 units with an invoice each (totals 1 and 2), 2 evidence references, 1 explicit key, 2 claims, 2 payments (333,000) | `BooksInv` (`PaymentTypeOK`, `ReceivableConserved`), `LocalViewIsTrue`, `NoBlindRetry`, `ReconcileStaysInScope` |
| `settings` | 2 callers, 2 instants, 3 versions in turn, 2 racing (211,000) | `VersionsInv` (`TypeOK`, `OneActiveVersion`), `HistoryIsAChain` |
| `claims` | 2 processes, 2 keys, room for 1, 2 payloads, time to 3, leases of 2, 3 tokens per process, 1 restart (2,145,000) | `ClaimsInv` (`TypeOK`, `OwnersShareThePayload`), `FencingNeverRegresses`, `TakeoverWaits`, `LatestOwnerOnly` |
| `erpnext` | a client that posts, pays and reconciles and one that drafts, cancels and reverses, an own and a foreign invoice, 1 evidence reference, 2 entries, 1 fault, any number of expired sessions, with fairness (475,000) | `AnswersAreTrue`, `DocumentsInv` (`TypeOK`, `EntriesInScope`), `EveryCallEnds` |
| `crm` | 2 clients, 2 actors, 3 units of which 2 in scope, 2 leads, 1 quotation, pages of 1 (416,000) | `LeadsInv` (`CrmTypeOK`, `OwnerWasAssigned`), `PagesAreComplete` |
| `drafting` | 2 actors, 2 units, 3 assignments, 2 drafts, 2 previews, time to 2, 1 change of the roster, settings that change a currency, overlapping policies, an unapproved identity, a catalog signed with another key; customers and lines symmetric (107,000) | `DraftsInv` (`TypeOK`, `PinnedGrants`, `OpenIsIdempotent`), `HashIdentifiesPreview`, `OverrideOnlyDecides`, `RevisedDraftsAreFrozen`, `ReviewIsCurrent` |
| `drafting_relabel` | the same | violated: `PreviewNeverRelabels` (section 5) |
| `reports` | 1 actor, 2 units, 3 invoices, pages of 2, amounts 0 and 1, 2 instants, several rosters (922,000) | `ReportInv` (`ReportTypeOK`, `ReportIsComplete`), `RollupIsAuthorized` |

Where a run checks an invariant named `...Inv`, it is the conjunction of the
module's type invariant and the parts in parentheses.

Besides these, the files named `MC<module>Promises.cfg` and their like (section 5) each
make TLC show that the code breaks a promise.

**Why the bounds are enough.** In `executor` a key's row interacts with other keys only
through the room in the store (and the collision of references, section 5), so one key
is followed while others come and go; two workers cover the races of a claim, two leases
one worker that is overtaken, two faults a failure while another is handled. In `engine`
a worker and its overtaker need two tokens; two intents and two restarts are the least
at which an item is numbered over and at which a log is replayed that itself follows a
replay. Liveness has a run of its own, with one worker: the question there is whether an
item is starved by another one that is requeued, and whether a worker that dies or raises
leaves the other item waiting. Invoices of two drafts
meet only in the numbering, and three documents let a draft be tried again after
a rejection and after an uncertain post. Two claims are what the loops of
`reconcile_payment` need to confuse two payments, across units and actors. Amounts of 1
against totals of 1 and 2 give full, partial and
excessive payments. Three versions are an activation, its successor and a
rollback past both; two racing rows let two calls build on the same list. Leases
of 2 within a time of 3 let a claim be taken over while its first owner still
runs, three tokens let a fenced-off owner come back, and each process numbers its own. In
`erpnext` one fault per behaviour reaches each of the places where an operation can be
left half done or a request be left to land later, and the entries left behind are
retried. Two leads and pages of one make a walk of several requests. Two drafts with one
key, two units and a second policy cover replay, ambiguity and override. In `reports` three
invoices on pages of two reach the limit of a page; amounts of 0 and 1 tell paid from open.
The proofs of section 4 have none of these bounds.

**Fairness.** `ReconciliationEngine!FairSpec`: weak fairness of `Classification` (a
worker in a classification goes on), `NewToken` and `ClassifyNext` (workers keep
asking for work): `classify_next` is meant to be called in a loop and no step of it
waits for anything but the provider's answer. Nothing is assumed of takeovers,
operators or retries, and nothing of the provider: with it down for ever, items
are escalated. `WaitingItemsLeave` says what that gives: a waiting item does not wait for
ever, but it may end in CLASSIFYING with nobody working on it, if its worker died, or met
an `UncertainOutcome`, or was refused by the queue; from there only a takeover frees it,
and no fairness can be justified for that. What the runbook says is stronger, and false
(section 5). `ErpNextProvider!FairSpec`: weak fairness of each client's
operation in progress, because every request is sent with a timeout and the adapter
waits for nothing else.

**Mutants.** For every property of a passing run PROJECT.json names a definition
and a plausible wrong version of it, kept beside it in the module, under which
the property is violated.

## 4. Proofs

Every safety property that a passing run checks is also a theorem, for every value of
the constants that satisfies the module's assumptions. No theorem has a further
hypothesis. Where the code keeps a promise only up to a point (the first restart, a unit that
fits on one page, callers in turn), the property itself says so.

### The executor

`MutationExecutorProofs`, checked by TLAPS for any sets of keys, payloads,
references and workers and any capacity, number of leases and number of faults.
Assumed: `ConstantsAssumption` (the bounds are naturals, `DerivedKey` is defined
on payloads, the fault kinds are the known ones, the set of keys is finite).

| Theorem | Statement |
|---|---|
| `TypeCorrect` | `Spec => []TypeOK` |
| `ClaimSafety` | `Spec => []ClaimInv`, the inductive invariant |
| `AtMostOnce` | `Spec => []ProviderAtMostOnce` |
| `FailClosedAudit` | `Spec => []AuditBeforeProvider` |
| `PayloadBinding` | `Spec => []CallsClaimedPayload` |
| `RealOutcomes` | `Spec => []ReferencesAreReal` |
| `OutcomesDevelop` | `Spec => OutcomeProgress` |
| `Refinement` | `Spec => ImplementsContract` |
| `TrailIsTrue` | `Spec => []AuditNeverOverclaims` |

*The argument.* That the provider is called at most once is not inductive: from a
state in which two workers stand before the call, or in which the row of a key
already called for has vanished, it would fail. `ClaimInv` rules both out. Its
parts follow a claim through its life:

- `BeforeCallInv`: a worker between its claim and the call owns a PENDING row
  with its payload, of a key never called for (so a rollback cannot erase a
  called key);
- `WritingInv`: between the call and the first write the row is still PENDING,
  the key was called exactly once, and the reference in hand was issued;
- `ConfirmingInv`, `ResolvingInv`: a success being audited and a row being
  recovered still have the reference the worker read, although it read it
  without a lock;
- `OneOwner`: no two workers are between claim and downgrade for one key. It
  follows from the lock in `claim` alone. Neither leases nor fencing nor the
  audit chain are needed, so the races in `register_fencing` and `append` do
  not endanger it;
- `RowInv`: an absent row was never called for, every decided row exactly once;
- `AuditInv`: whoever stands before the call, and every call made, has its
  pre-mutation event in the chain.

Each action that touches a row disturbs few of these parts; the lemmas
`ReadsClaimInv`, `ReturnKeeps`, `LaterWriteKeeps` and their like treat the
others once. For the refinement, `ShapeInv` adds that a row without a first
successful write names no reference and no effect precedes a call; `NextCases`
sorts the steps into those that leave rows and history alone (stutters of the
contract) and the ones that map to `Accept`, `GiveUp`, `CallProvider`,
`Settle` and `Revise`.

Events are written after the row they are about, without a lock. `TrailInv` therefore
also speaks of events still to come (`AnnouncedInv`: the row already says what a worker
is about to log) and of who may still change a row (`SettledInv`: while the owner may
downgrade its success, no success of that key is logged and nobody recovers it).

`OtherKeys` touches none of this: what other keys do changes only whether the store has
room, and every branch of a full store is one that leaves the row as it was or removes a
row never called for. `ReferencesAreReal` follows from `RowInv`.

A by-product: `RowInv` includes `status # ResolvedAbsent`. An UNCERTAIN row always
has a reference, so the branch of `recover` that writes RESOLVED_ABSENT is
unreachable.

### Invoice posting

`InvoicePostingProofs`, for any sets of actors, posters, line lists and channels
and any bounds. Assumed: `InvoiceAssumption` (bounds are naturals, there is a
settings version, callers cannot set an empty list of lines).

| Theorem | Statement |
|---|---|
| `InvariantHolds` | `Spec => []PostingInv`, the inductive invariant |
| `TypeCorrect` | `Spec => []InvoiceTypeOK` |
| `PostedOnce` | `Spec => []DraftPostedOnce` |
| `NothingLost` | `Spec => []NoLostInvoice` |
| `ReadModelAgrees` | `Spec => []ReadModelMatches` |
| `SnapshotNeverChanges` | `Spec => SnapshotFrozen` |

*The argument.* Neither property is inductive: nothing in `DraftPostedOnce` keeps
a post from numbering the document of a draft that has one already.
`PostingInv` says where a draft leads. `OfficialInv`: a numbered document is the
one its draft's index or pending entry names. `PendingInv`: a pending document
belongs to its draft, is not cancelled, and its draft is not indexed; so a draft
leads to one document at most. `CallInv`: a post in progress has a draft that
leads nowhere yet and a document that is still a draft. `DocInv`: drafts of the
provider have no number. `IndexInv`: index and read model agree. A post that
fails leaves its document unnumbered, which is why leftover documents do no
harm; that clean-ups may fail is part of the model.

### Durable claims

`DurableClaimStoreProofs`, for any processes, keys, payloads and bounds. Assumed:
`ClaimAssumption` (bounds are naturals, a lease lasts), `RecordedAssumption` (outcomes
written from outside are known statuses).

| Theorem | Statement |
|---|---|
| `ClaimStoreInvariance` | `Spec => []ClaimStoreInv`, the inductive invariant |
| `ClaimsSafe` | `Spec => []ClaimsInv` |
| `FencingMonotone` | `Spec => FencingNeverRegresses` |
| `NoEarlyTakeover` | `Spec => TakeoverWaits` |
| `LatestOwner` | `Spec => LatestOwnerOnly` |

*The argument.* Tokens are numbered per process, so a token does not tell who holds it,
and nothing is said about that. What holds is in the row and in what each process was
told. `GrantInv`: a granted claim has its row, bound to the payload it was granted for, and
the row's token is no smaller than the grant's. `CallInv`: a transaction uses an instant that
was read earlier, under a real lease, so it takes over only what has expired by now as
well. The stored token never goes back because a claim with a smaller one is stale,
whichever process numbered it.

### Settings

`UnitProofs`, for any callers, instants and bounds. Assumed:
`SettingsAssumption` (instants are positive, bounds are naturals).

| Theorem | Statement |
|---|---|
| `SettingsInvariance` | `Spec => []SettingsInv`, the inductive invariant |
| `OneActiveVersionHolds` | `Spec => []VersionsInv` |
| `HistoryHolds` | `Spec => []HistoryIsAChain` |

*The argument.* A racing call may install a list it built from one that has been
replaced, so `ActiveInv` speaks of every list there ever was and of those about to be
installed; appends only add drafts. With callers in turn, `TurnsInv` says that versions
of the installed list are numbered by their place, that their windows do not overlap and
each but the first names the version retired for it (`Chain`), and what a call in the
middle knows of that list (`CallKnows`).

### Payments

`PaymentWorkflowProofs`, for any actors, units, invoices, evidence references and
amounts, and any provider of the port. Assumed: `PaymentAssumption` (totals and
amounts are naturals, amounts positive, every invoice has a unit, `MayRecord` pairs actors
and units).

| Theorem | Statement |
|---|---|
| `PaymentInvariance` | `Spec => []PaymentInv`, the inductive invariant |
| `BooksBalance` | `Spec => []BooksInv` |
| `ViewIsTrue` | `Spec => []LocalViewIsTrue` |
| `BlindRetryExcluded` | `Spec => NoBlindRetry` |
| `ScopeKept` | `Spec => ReconcileStaysInScope` |

*The argument.* `CallInv` says of the request that holds the lock that its claim is
still PENDING, that its evidence reference awaits no reconciliation and is not known to
have paid, and that an answer it is reading back names a payment made with that
reference; `UniqueClaims`, that an actor and a key have one claim, so the loops of
`reconcile_payment` cannot take one claim for another; `UnpaidNamesNone`, that a claim
which may be tried again names no payment. With them the view of the workflow is inductive. `Conserved`
gives the balance for posted and for cancelled invoices. It needs sums over a set that
grows and shrinks by one payment. The model sums with a fold, which is a recursive
function on the subsets of the set; `SumIsSum` and its corollaries derive its
equations from a least counterexample (well-foundedness of the order on the naturals)
in place of the induction theorem, which the provers cannot instantiate.

### Queue and engine

`ReconciliationEngineProofs`, for any intents, workers, tokens, modes and bounds.
Assumed: `QueueAssumption`, `EngineAssumption`.

| Theorem | Statement |
|---|---|
| `EngineInvariance` | `Spec => []EngineInv`, the inductive invariant |
| `ItemsSound` | `Spec => []ItemsInv` |
| `RestartKeepsItems` | `Spec => RestartReplays` |
| `OvertakenWritesNothing` | `Spec => StaleAnswersIgnored` |

*The argument.* A worker reads an item, asks the provider and completes, all without
the queue's lock. `TokensInv`: a token is held by one worker. `OwnerKnows`: as long as
the item carries a worker's token, that worker works under the latest claim, and the
attempts it read are still the item's. So a completion either is refused or was decided
on what still holds. A restart loses the leases and starts the tokens again, and ends
every call with them.

`LogInv` gives what a restart restores: the log has each item as it is or not at all, and
all of them until the first restart. It is what the code does and no more: the replayed
queue starts with an empty log (`queue.py:130`), so a second restart loses what did not
change since the first, and a restart may number a new item over an old one
(`queue.py:137`), so the index (`IndexInv`) is right until the first.

### The ERPNext adapter

`ErpNextProviderProofs`, for any clients running any of the operations, any invoices,
evidence and number of faults. Assumed: `ProviderAssumption` (the scope is some of the
invoices, bounds are naturals).

| Theorem | Statement |
|---|---|
| `ProviderInvariance` | `Spec => []ProviderInv`, the inductive invariant |
| `AnswersHold` | `Spec => []AnswersAreTrue` |
| `ScopeHolds` | `Spec => []DocumentsInv` |

*The argument.* An answer is given requests after the effect it reports, and stays with
the caller while others go on and what was given up lands. `CallOK` says what a client in
the middle of an operation already knows of its documents, `AnswerOK` what it was told,
`LateOK` that a payment that may still land is on an invoice in scope. Every step, a
landing included, lets the documents only grow (`Grows`: what was ever posted stays so,
a cancelled entry stays cancelled, entries stay in scope), and none of the three can lose
by that.

### Drafting, authorization, policy

`DraftAndReportProofs`, for any actors, roster, settings, configurations and bounds.
Assumed: `DraftBounds` (bounds are naturals, assignments and each configuration's
policies are finitely many, every unit has settings, line amounts are naturals, policies
start at an instant).

| Theorem | Statement |
|---|---|
| `ReviewInvariance` | `Spec => []ReviewInv`, the inductive invariant |
| `DraftsHold` | `Spec => []DraftsInv` |
| `HashBinds` | `Spec => []HashIdentifiesPreview` |
| `FrozenHolds` | `Spec => RevisedDraftsAreFrozen` |
| `ReviewCurrent` | `Spec => ReviewIsCurrent` |
| `OverrideDecides` | `Spec => []OverrideOnlyDecides` |

*The argument.* Three lemmas say what a yes means, for every request, roster and
configuration: `GrantedUnder` and `JudgedAllowed` (one assignment in force serves the
request, with the expected revision and pin and a role that grants the action) and
`ResolvedBy` (one policy in force matches, its identity is approved, an override is
trusted and made out for its version). `SelectedIsAuthorized` shows that `authorize` and
the separate search of `_selected_assignment` agree, `PinStands` that whoever may go on
with a draft finds its assignment unrevised. The invariant adds that revisions never
fall behind the pins on them (so a revised assignment cannot come back to a pinned
number), that a draft keeps its owner, key, unit and customer, one per actor and key, and
that a preview is a function of its hash and its draft's unit (`PreviewsFollow`).

### Reports

`DraftAndReportProofs`, for any actors, units, currencies, rosters and amounts and any
finite number of invoices and any page length. Assumed: `ReportBounds` (references are
finitely many naturals, a page has room, `UnitRank` orders the units, rosters are
rosters, bounds are naturals).

| Theorem | Statement |
|---|---|
| `ReportInvariant` | `ReportSpec => []ReportIInv`, the inductive invariant |
| `ReportsAreComplete` | `ReportSpec => []ReportInv` |
| `RollupsAreAuthorized` | `ReportSpec => []RollupIsAuthorized` |

*The argument.* The properties speak of finished reports; the invariant says what a
report in progress has read and still owes. `RemainsOK`: what is left to list and to
read belongs to the scope, and the references at hand are those of the unit at hand.
`HadOK`: `had` has what each invoice has open now. `RowsOK`: a row has the unit its invoice still has, and an
amount in `had`. `RowsDistinct`: no invoice has two rows, because a row's reference is no
longer to be read and its unit no longer to be listed. `NothingIsMissing`: an invoice of the
scope that was open throughout, in a unit that fits on one page (`PageHolds`), has its row, or
awaits its reading or the listing of its unit. `ChangeKeeps` shows once that what happens
at the provider (an invoice keeps its unit, `had` only grows) disturbs none of it.
`ReadIsAuthorized` says of the units listed so far, not of the whole scope, that
`authorize` allows them; when nothing is left to do they are the scope.

### CRM

`UnitProofs`, for any clients, actors, units, contacts, native labels, rosters, page
sizes, searches and bounds. Assumed: `CrmBounds` (pages have a row, rosters and searches
are of their kind, the labels of new documents exist, bounds are naturals).

| Theorem | Statement |
|---|---|
| `CrmInvariant` | `CrmSpec => []CrmIInv`, the inductive invariant |
| `LeadsHold` | `CrmSpec => []LeadsInv` |
| `PagesComplete` | `CrmSpec => []PagesAreComplete` |

*The argument.* A write is sent a request after it was decided, when the roster may
have changed. `PendingOK` says that the owner and unit it will write were assigned at
some time, which survives any change; `Owned` says it of the leads. `WalkOK` says of a
walk that the rows seen are the first of the list as it is now, how many, and how the
rows fetched, the page size and the offset are related; `PutKeeps` shows that a write
leaves a walk alone only when it appends to what is being listed, `GotoKeeps` that other
calls do not concern it. That `Ascending` lists exactly the matching references, each
once and in order, is derived from its recursion by a least counterexample, like the
sums of the payments.

### Only model-checked

`WaitingItemsLeave` (engine) and `EveryCallEnds` (ERPNext adapter): liveness under
fairness, out of the prover's reach. That the mutants violate their properties, and that
every action can happen, is also TLC's to show.

## 5. Disagreements between code and documentation

`drafting_relabel`, a finding in PROJECT.json: `set_lines` refuses lines in another
currency than the unit's, "The preview must never silently relabel a foreign line"
(`invoice_draft/workflow.py:386-387`). `preview` takes the currency of the settings
active when it is called (line 481) and does not look at the lines' own. Lines are
entered, settings with another currency are activated, and the preview shows the
same numbers under the new currency.

The following promises are stated as properties of the modules too, and are violated by
what the code does. They are no invariants of the passing runs; each has a configuration
beside them under which TLC prints a counterexample, for example

    tlc -workers 2 -config MCMutationExecutorPromises.cfg MCMutationExecutor

Where a file holds several, one is active and the others are comments, since TLC reports
one at a time. Promises of the source are quoted from it; those of the Indonesian
runbook are translated.

| Property (configuration) | The code | The promise |
|---|---|---|
| `FailedMeansNoMutation` (`MCMutationExecutorPromises`) | `executor.py:125` records every `RuntimeError` of the provider, `UncertainOutcome` included, as FAILED_NO_MUTATION, also when the mutation was made and its answer lost | `IDEMPOTENCY_AUDIT_RECOVERY.md:31`: "Provider request sent/outcome unavailable: `RECOVERY_REQUIRED`; query provider by external reference." |
| `ExternalRefUnique` (the same) | `store.py:91` checks for a collision and registers the reference without the lock that `claim` takes; a failing write registers it unchecked (line 84) | `store.py:3-4`: "external reference uniqueness"; `DATA_MODEL.md:163`: "unique `external_reference`/idempotency namespace." |
| `SuccessIsAudited` (the same) | `store.py:115`: `resolve` is refused in a full store although it replaces a row, so a success whose audit failed stays RESOLVED_PRESENT without its event | `executor.py:10-12`: "if the success audit fails, the outcome is transitioned to UNCERTAIN so the store never contradicts the audit trail." |
| `OneItemPerIntent` (`MCReconciliationEngineRestarts`) | `queue.py:137`: `replay` numbers on from the item of the last snapshot, which need not be the highest, so the next `enqueue` overwrites the item of another intent | `queue.py:143`: "Idempotent enqueue: one item per idempotency key."; `runbooks/reconciliation.md:58`: replay restores the sequence too |
| `RestartRestores` (the same) | `queue.py:130`: the replayed queue starts with an empty log, so the next restart loses every item that did not change since | `runbooks/reconciliation.md:43`: no item is lost silently |
| `AmbiguousNeverRetried` (`MCReconciliationEnginePromises`) | `queue.py:290`: `escalated_from` is overwritten by every escalation, so an item escalated as AMBIGUOUS and then as UNAVAILABLE loses the guard | `queue.py:277-279`: "can never enter the auto-retry lane, even under a fresh operator claim"; line 291: "AMBIGUOUS guard survives any number of re-claims." |
| `RetryOnlyWhenAbsent` (the same) | `engine.py:159` takes `DocumentRejected` for ABSENT, and `erpnext_adapter.py:219` raises it for any HTTP error of the read-back | `runbooks/reconciliation.md:32`, of ABSENT: the provider is verified not to have the record |
| `NoItemStuck` (the same) | `engine.py:86`: the `UncertainOutcome` of an unreachable provider escapes `classify_item` and leaves the item in CLASSIFYING; so does an answer the queue refuses | `engine.py:15`: "No item remains silently stuck."; `runbooks/reconciliation.md:41`: no item is stranded unseen in CLASSIFYING |
| `DocumentAsPreviewed` (`MCInvoicePostingPromises`) | `invoice_post/workflow.py:358`: `post` verifies the preview, then fetches the lines again; a `set_lines` in between is posted while the snapshot shows the reviewed lines | line 356: "Build provider draft command from preview-bound state" |
| `EvidencePaidOnce` (`MCPaymentWorkflowPromises`) | `payments/workflow.py:556`: a reconciliation drops the pending mark before its loop and indexes the payment after it; a read that fails in the loop leaves the payment neither pending nor known, and its evidence is sent again under another key | lines 355-356: "Duplicate evidence ref with a different claim key still cannot double-apply: the provider rejects it", which the port (`erp_port.py:147`) does not ask of a provider; `ac-08.md:12`: "never double-applied" |
| `RecordedForItsEvidence` (the same) | `payments/workflow.py:564` gives the payment of one evidence reference to every uncertain claim of the unit | `DUPLICATE_PAYMENT_POLICY.md:18`: "Return same safe result after current authorization" for the same command |
| `NoCrossActorResolution` (the same) | `payments/workflow.py:557` decides the uncertain claims of the unit, whoever made them | lines 464-465: "only claims inside the caller's authorized scope are resolved — no cross-actor/cross-unit resolution." |
| `ExactlyOneWinner` (`MCUnitSettingsPromises`) | `settings.py:205`: `activate` compares, builds and installs without a lock: two activations that expect the same version both succeed, and the second drops the first | `settings.py:169`: "CAS activate: exactly one winner" |
| `OneLiveOwner` (`MCDurableClaimStorePromises`) | `lease.py:14` counts tokens per process, and `claim` knows the owner of a row by its token alone: a second process with the same token is told CLAIM_HELD while the first one's lease runs | `claim_store.py:20`: "idempotent re-claim of a non-terminal row by owner"; `IDEMPOTENCY_AUDIT_RECOVERY.md:22`: "Claim records owner, monotonic fencing token" |
| `RejectedMeansNoMutation` (`MCErpNextProviderRejected`) | `erpnext_adapter.py:379`: a read-back that is rejected after the submit, or an HTTP error of a submit that took effect, is answered as REJECTED for a posted invoice | `erp_port.py:84`: "verified: zero provider mutation" |
| `OneEntryPerEvidence` (`MCErpNextProviderEvidence`) | `erpnext_adapter.py:409` looks for the evidence three requests before it creates the entry (line 467): two clients both find none | lines 398-399: "Enforces evidence_ref uniqueness: a second payment with the same evidence_ref raises DocumentRejected." |
| `ViewsAgree` (`MCUnitCrmPromises`) | `erpnext_crm_adapter.py:315`: the search for QUALIFIED asks for the label "Qualified", while the export calls Replied, Opportunity, Quotation and Interested QUALIFIED, and "Qualified" NEW | `crm/port.py:57`: one status of a lead; `erpnext_crm_adapter.py:133`: one mapping |
| `CurrenciesNeverMixed` (`MCOwnerReportsPromises`) | `roll_up.py:246` adds the open amounts of all currencies of a unit | `roll_up.py:26`: "Currencies are never silently mixed."; `PLAN_GATE.md:73` |

## 6. Behaviours met while modelling

What the code does and a caller may not expect, though no document denies it. The models
have all of it, and the properties of the passing runs hold with it.

Mutation path:

- `recover` resolves before it audits (`executor.py:201`): a recovered success may lack its
  event. This is why `AuditNeverOverclaims` is stated in one direction only.
- `register_fencing` (`store.py:126-128`) and `append` (`chain.py:62-75`) read and
  write without a lock; the fencing check of `recover` (`executor.py:189`) is
  stale when the row is resolved. The safety properties hold regardless.
- A claim whose worker died stays PENDING for ever: `recover` returns it as it is
  (`executor.py:197`) and `execute` refuses it.
- In a full store `write_failure` raises, so a rejected call leaves its claim PENDING.

Queue and engine:

- Completion resets an item's token to 0 (`queue.py:297`), so the same token may
  claim the item again.
- The AMBIGUOUS guard refuses a later ABSENT (`queue.py:285`), which leaves the item in
  CLASSIFYING until a takeover.

Invoices and payments:

- An uncertain post, `set_lines`, a new preview and `reconcile_post` freeze the new total
  onto the old document, without any concurrency.
- A draft cancelled while its post is uncertain has no preview to present, so the
  post is never reconciled (`invoice_post/workflow.py:495`); a `post_invoice` that raises
  leaves its document at the provider without clean-up (lines 397-401).
- After `reconcile_payment` has decided another evidence's claim, that evidence stays
  pending with no claim to anchor on, which the comment at `payments/workflow.py:481` calls
  impossible.
- A read that fails inside its loop leaves later claims UNCERTAIN with their
  evidence no longer pending: no call can resolve them (lines 541-546, 556-561).

Settings, drafting, reports:

- Two racing drafts of settings share a number; a refused rollback leaves its DRAFT behind
  (`settings.py:224-226`); between an activation that starts in the future and its start
  nothing can be served.
- The hash of a preview binds the redacted identity: a policy that changes only the
  account passes the review. A retried `open_draft` after a revision returns a draft
  that can no longer be edited. Callers pass the time, so an expired assignment, or an
  expired policy, still passes with an earlier one; `ReviewIsCurrent` says so. An override
  is bound to a policy's version only.
- Aging authorizes the first unit only, ignores the dates and roles of the others and
  sums over currencies (`aging.py`); `RollupIsAuthorized` is about the roll-up.
- A unit with more than 1000 posted invoices is reported incompletely, without a sign of it.

Adapters:

- ERPNext: an entry left as a draft blocks retries of its evidence while
  the read-back says absent; a request applied after its timeout may post or pay what was
  reported uncertain or rejected; a second thread that meets the renewal of a session is
  told that its document was rejected.
- CRM: a write whose answer is lost raises `CrmDenied`, although the port says nothing
  was mutated (`crm/port.py:21`); transfers and archives read, then write, so a lead may have
  left the caller's unit when it is written (`PLAN_GATE.md:63` accepts that); a row that
  leaves the list shifts the following pages.

## 7. Not modelled, and why

- *Unit registry, isolation policy, domain types, provider contract*: configuration and
  values validated once, interfaces and exception types; no state changes after
  construction.
- *Imports*: CSV parsing and string checks, and a ledger whose operations are single
  assignments.
- *Operations and scripts* (`validate_plan_gate.py`, backup, restore, observability), UI:
  file-system and text processing, pure I/O.
- String validation of keys and settings, redaction, hashing, decimal rounding and
  rendering are abstracted away in the modules above.

## 8. Plan

All components with state are modelled, and all the safety properties the runs check
are proved without hypotheses; the two liveness properties stay with TLC (section 4).
What is left depends on the code. When one of the lines named in section 5 is changed, the
promise belongs into the run of its module and, if it is a safety property, among the
theorems: the invariants of section 4 say what is known at that place today.
