--------------------------- MODULE InvoicePosting ---------------------------
(***************************************************************************)
(* Invoices from draft to delivery: src/workflows/invoice_draft and        *)
(* src/workflows/invoice_post over the fixture ERP, with the active        *)
(* version of the unit's settings.                                         *)
(*                                                                         *)
(* The two workflows have a lock each. A draft method is one step; post    *)
(* holds the lock of the post workflow and takes that of the draft         *)
(* workflow twice, once to verify the preview and once to fetch the lines, *)
(* so it is split there and at the provider's answers.                     *)
(*                                                                         *)
(* A preview is the lines and the settings version it was made from (the   *)
(* hash, total, template and identity fields follow from them). post and   *)
(* reconcile_post accept only a preview equal to the one recomputed, so    *)
(* the preview presented is the one of the current state; it exists only   *)
(* if the draft has lines. preview and render_for_review change nothing.   *)
(***************************************************************************)
EXTENDS Naturals

CONSTANTS
  Actors,      \* may open drafts
  Posters,     \* have INVOICE_POST for the unit
  LineSets,    \* line lists callers may set
  Channels,    \* delivery channels
  MaxDrafts,   \* bound: drafts opened
  MaxDocs,     \* bound: documents created at the provider
  MaxVersions  \* bound: settings versions activated

ASSUME InvoiceAssumption ==
  /\ {} \notin LineSets
  /\ MaxDrafts \in Nat /\ MaxDocs \in Nat /\ MaxVersions \in Nat \ {0}

VARIABLES
  drafts,      \* _drafts of the draft workflow
  version,     \* configuration version of the active settings
  posted,      \* _posted, by document
  byDraft,     \* _by_draft_id
  pending,     \* _pending_uncertain: document of each draft
  call,        \* the post holding the lock of the post workflow, if any
  docs,        \* _invoices of the provider
  deliveries   \* _deliveries of the provider

postVars == <<posted, byDraft, pending>>
vars == <<drafts, version, posted, byDraft, pending, call, docs, deliveries>>

-----------------------------------------------------------------------------

DraftIds == 1..MaxDrafts
Docs     == 1..MaxDocs
Versions == 1..MaxVersions
NoDraft  == 0
NoDoc    == 0
NoLines  == {}

(* A draft number not in use has status NONE and no opener.                *)
DraftState == [opener : SUBSET Actors, status : {"NONE", "OPEN", "CANCELLED"},
               lines : LineSets \cup {NoLines}]

NoDraftState == [opener |-> {}, status |-> "NONE", lines |-> NoLines]

(* official: the document has been given an official number. draft is the  *)
(* draft it was made for, which the provider does not know.                *)
InvoiceState == [draft : DraftIds \cup {NoDraft}, lines : LineSets \cup {NoLines},
                 official : BOOLEAN,
                 status : {"NONE", "DRAFT", "POSTED", "CANCELLED"}]

NoInvoice == [draft |-> NoDraft, lines |-> NoLines, official |-> FALSE,
              status |-> "NONE"]

(* The read model keeps what follows from the previewed lines: total and   *)
(* currency.                                                               *)
PostedState == [status : {"NONE", "POSTED", "CANCELLED"},
                draft : DraftIds \cup {NoDraft}, lines : LineSets \cup {NoLines},
                version : Versions \cup {0}]

NotPosted == [status |-> "NONE", draft |-> NoDraft, lines |-> NoLines, version |-> 0]

Calls == [at : {"idle", "verified", "created"}, draft : DraftIds \cup {NoDraft},
          lines : LineSets \cup {NoLines}, version : Versions \cup {0},
          doc : Docs \cup {NoDoc}]

Idle == [at |-> "idle", draft |-> NoDraft, lines |-> NoLines, version |-> 0,
         doc |-> NoDoc]

DeliveryStatus == {"NONE", "FAILED_RETRYABLE", "SENT"}

(* Types. That documents have lines is a promise of create_draft_invoice,  *)
(* which a draft cancelled in the middle of its post puts to the test.     *)
InvoiceTypeOK ==
  /\ drafts \in [DraftIds -> DraftState]
  /\ version \in Versions
  /\ posted \in [Docs -> PostedState]
  /\ byDraft \in [DraftIds -> Docs \cup {NoDoc}]
  /\ pending \in [DraftIds -> Docs \cup {NoDoc}]
  /\ call \in Calls
  /\ docs \in [Docs -> InvoiceState]
  /\ \A r \in Docs : docs[r].status # "NONE" => docs[r].lines # NoLines
  /\ deliveries \in [Docs \X Channels -> DeliveryStatus]

Init ==
  /\ drafts = [d \in DraftIds |-> NoDraftState]
  /\ version = 1
  /\ posted = [r \in Docs |-> NotPosted]
  /\ byDraft = [d \in DraftIds |-> NoDoc]
  /\ pending = [d \in DraftIds |-> NoDoc]
  /\ call = Idle
  /\ docs = [r \in Docs |-> NoInvoice]
  /\ deliveries = [x \in Docs \X Channels |-> "NONE"]

(* Numbers are given out in order.                                         *)
IsNext(n, table) ==
  table[n].status = "NONE" /\ \A m \in 1..(n - 1) : table[m].status # "NONE"

-----------------------------------------------------------------------------
(* The draft workflow. Only the opener may change a draft.                 *)

(* A repeated open with the same idempotency key finds its draft and is    *)
(* no step.                                                                *)
OpenDraft(a, d) ==
  /\ IsNext(d, drafts)
  /\ drafts' = [drafts EXCEPT ![d] = [opener |-> {a}, status |-> "OPEN",
                                      lines |-> NoLines]]
  /\ UNCHANGED <<version, postVars, call, docs, deliveries>>

SetLines(d, lines) ==
  /\ drafts[d].status = "OPEN"
  /\ drafts' = [drafts EXCEPT ![d].lines = lines]
  /\ UNCHANGED <<version, postVars, call, docs, deliveries>>

CancelDraft(d) ==
  /\ drafts[d].status = "OPEN"
  /\ drafts' = [drafts EXCEPT ![d].status = "CANCELLED", ![d].lines = NoLines]
  /\ UNCHANGED <<version, postVars, call, docs, deliveries>>

(* Activation gives the unit a new version; numbers are never reused.      *)
ActivateSettings ==
  /\ version < MaxVersions
  /\ version' = version + 1
  /\ UNCHANGED <<drafts, postVars, call, docs, deliveries>>
-----------------------------------------------------------------------------
(* post                                                                    *)

(* Authorization, review separation, freshness and authenticity: a poster  *)
(* other than the opener presents the preview of the current lines and     *)
(* settings.                                                               *)
MayPresent(a, d) ==
  /\ a \in Posters
  /\ a \notin drafts[d].opener
  /\ drafts[d].lines # NoLines

StartPost(a, d) ==
  /\ call = Idle
  /\ MayPresent(a, d)
  /\ byDraft[d] = NoDoc
  /\ call' = [at |-> "verified", draft |-> d, lines |-> drafts[d].lines,
              version |-> version, doc |-> NoDoc]
  /\ UNCHANGED <<drafts, version, postVars, docs, deliveries>>

(* Nothing starts while an earlier post of the draft is uncertain.         *)
Post(a, d) == pending[d] = NoDoc /\ StartPost(a, d)

(* The lines are fetched again, after the verification.                    *)
CreateDraftInvoice(r) ==
  /\ call.at = "verified"
  /\ drafts[call.draft].lines # NoLines
  /\ IsNext(r, docs)
  /\ docs' = [docs EXCEPT ![r] = [draft |-> call.draft, official |-> FALSE,
                                  lines |-> drafts[call.draft].lines,
                                  status |-> "DRAFT"]]
  /\ call' = [call EXCEPT !.at = "created", !.doc = r]
  /\ UNCHANGED <<drafts, version, postVars, deliveries>>

(* The draft has no lines any more, or the provider is down.               *)
CreateRejected ==
  /\ call.at = "verified"
  /\ call' = Idle
  /\ UNCHANGED <<drafts, version, postVars, docs, deliveries>>

(* The provider gives the document its official number.                    *)
AssignOfficial(r) ==
  docs' = [docs EXCEPT ![r].official = TRUE, ![r].status = "POSTED"]

(* The read model of the posted invoice, as the preview had it.            *)
Freeze(d, r, preview) ==
  /\ posted' = [posted EXCEPT ![r] = [status |-> "POSTED", draft |-> d,
                                      lines |-> preview.lines,
                                      version |-> preview.version]]
  /\ byDraft' = [byDraft EXCEPT ![d] = r]

PostSucceeds ==
  /\ call.at = "created"
  /\ AssignOfficial(call.doc)
  /\ Freeze(call.draft, call.doc, call)
  /\ call' = Idle
  /\ UNCHANGED <<drafts, version, pending, deliveries>>

(* cancel_invoice as a clean-up: it may fail, and nobody is told.          *)
CleanUp(r) ==
  \/ docs' = [docs EXCEPT ![r].status = "CANCELLED"]
  \/ UNCHANGED docs

PostRejected ==
  /\ call.at = "created"
  /\ CleanUp(call.doc)
  /\ call' = Idle
  /\ UNCHANGED <<drafts, version, postVars, deliveries>>

PostUncertainUntracked(applied) ==
  /\ call.at = "created"
  /\ IF applied THEN AssignOfficial(call.doc) ELSE UNCHANGED docs
  /\ call' = Idle
  /\ UNCHANGED <<drafts, version, postVars, deliveries>>

(* The outcome is not known; the document has its number or has not.       *)
PostUncertain(applied) ==
  /\ call.at = "created"
  /\ IF applied THEN AssignOfficial(call.doc) ELSE UNCHANGED docs
  /\ pending' = [pending EXCEPT ![call.draft] = call.doc]
  /\ call' = Idle
  /\ UNCHANGED <<drafts, version, posted, byDraft, deliveries>>

(* post_invoice raises, as in an outage: the document stays a draft.       *)
PostRaises ==
  /\ call.at = "created"
  /\ call' = Idle
  /\ UNCHANGED <<drafts, version, postVars, docs, deliveries>>
-----------------------------------------------------------------------------
(* reconcile_post: the provider's answer decides the pending post, and the *)
(* snapshot is that of the preview presented now.                          *)

ReconcileDocument(a, d, r) ==
  /\ call = Idle
  /\ MayPresent(a, d)
  /\ r # NoDoc
  /\ IF docs[r].status = "POSTED"
     THEN /\ Freeze(d, r, [lines |-> drafts[d].lines, version |-> version])
          /\ UNCHANGED docs
     ELSE CleanUp(r) /\ UNCHANGED <<posted, byDraft>>
  /\ pending' = [pending EXCEPT ![d] = NoDoc]
  /\ UNCHANGED <<drafts, version, call, deliveries>>

ReconcileAgain(a, d) ==
  \E r \in {pending[d], byDraft[d]} : ReconcileDocument(a, d, r)

ReconcilePost(a, d) == ReconcileDocument(a, d, pending[d])

-----------------------------------------------------------------------------
(* cancel_posted and enqueue_delivery                                      *)

CancelProviderOnly(r) ==
  /\ call = Idle
  /\ posted[r].status = "POSTED"
  /\ docs' = [docs EXCEPT ![r].status = "CANCELLED"]
  /\ UNCHANGED <<drafts, version, postVars, call, deliveries>>

(* The provider may refuse (a payment, an outage); that changes nothing.   *)
CancelPosted(r) ==
  /\ call = Idle
  /\ posted[r].status = "POSTED"
  /\ docs' = [docs EXCEPT ![r].status = "CANCELLED"]
  /\ posted' = [posted EXCEPT ![r].status = "CANCELLED"]
  /\ UNCHANGED <<drafts, version, byDraft, pending, call, deliveries>>

(* One outbox entry per document and channel; a failed one is sent again   *)
(* on request, a sent one never.                                           *)
EnqueueDelivery(r, channel, result) ==
  /\ call = Idle
  /\ posted[r].status # "NONE"
  /\ docs[r].status = "POSTED"
  /\ deliveries[<<r, channel>>] # "SENT"
  /\ deliveries' = [deliveries EXCEPT ![<<r, channel>>] = result]
  /\ UNCHANGED <<drafts, version, postVars, call, docs>>

-----------------------------------------------------------------------------

Next ==
  \/ \E a \in Actors, d \in DraftIds : OpenDraft(a, d)
  \/ \E d \in DraftIds :
       \/ \E lines \in LineSets : SetLines(d, lines)
       \/ CancelDraft(d)
       \/ \E a \in Posters : Post(a, d) \/ ReconcilePost(a, d)
  \/ ActivateSettings
  \/ \E r \in Docs : CreateDraftInvoice(r)
  \/ CreateRejected
  \/ PostSucceeds
  \/ PostRejected
  \/ \E applied \in BOOLEAN : PostUncertain(applied)
  \/ PostRaises
  \/ \E r \in Docs :
       \/ CancelPosted(r)
       \/ \E channel \in Channels, result \in {"FAILED_RETRYABLE", "SENT"} :
            EnqueueDelivery(r, channel, result)

Spec == Init /\ [][Next]_vars

-----------------------------------------------------------------------------

(* A draft gets at most one official number, whatever is retried after     *)
(* rejections, outages and uncertain outcomes (post, F-03).                *)
DraftPostedOnce ==
  \A r, s \in Docs :
    docs[r].official /\ docs[s].official /\ docs[r].draft = docs[s].draft => r = s

(* No invoice with an official number is forgotten: the post workflow has  *)
(* it as posted or still awaits its reconciliation.                        *)
NoLostInvoice ==
  \A r \in Docs : docs[r].official =>
    posted[r].status # "NONE" \/ pending[docs[r].draft] = r

(* What the post workflow shows as posted is the document of that draft,   *)
(* has its number and is cancelled exactly if the provider's is.           *)
ReadModelMatches ==
  \A r \in Docs : posted[r].status # "NONE" =>
    /\ docs[r].official
    /\ docs[r].draft = posted[r].draft
    /\ docs[r].status = posted[r].status

(* "POSTED: freeze immutable snapshot": once frozen, a snapshot keeps its  *)
(* lines and settings version, and a cancelled invoice stays cancelled,    *)
(* whatever happens to the draft and the settings (post, R-020).           *)
SnapshotFrozen ==
  [][\A r \in Docs : posted[r].status # "NONE" =>
       /\ posted'[r].status # "NONE"
       /\ posted'[r].lines = posted[r].lines
       /\ posted'[r].version = posted[r].version
       /\ posted[r].status = "CANCELLED" => posted'[r].status = "CANCELLED"]_vars

(* "Build provider draft command from preview-bound state" (post): what the *)
(* read model shows of an invoice, its total among it, is what the document *)
(* that carries the official number says.                                   *)
DocumentAsPreviewed ==
  \A r \in Docs : posted[r].status # "NONE" => docs[r].lines = posted[r].lines

=============================================================================
