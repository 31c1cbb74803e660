--------------------------- MODULE ErpNextProvider ---------------------------
(***************************************************************************)
(* src/adapters/erpnext/erpnext_adapter.py: every operation of the ERP     *)
(* port as the sequence of HTTP requests it makes, the session the         *)
(* requests share, and what ERPNext does with them.                        *)
(*                                                                         *)
(* A request may be refused, fail in the server, meet an expired session,  *)
(* or lose its answer, before or after it took effect; a request its       *)
(* client gave up may still take effect later. Other clients of the        *)
(* adapter run between any two requests of one operation.                  *)
(***************************************************************************)
EXTENDS Naturals, FiniteSets

CONSTANTS
  Clients,    \* threads that use the adapter
  Does,       \* the operations each of them calls
  Invoices,   \* names of Sales Invoices
  InScope,    \* those that belong to a company in the authorized scope
  Evidence,   \* evidence references, reference_no of a Payment Entry
  MaxEntries, \* bound: Payment Entries
  Total,      \* grand_total of an invoice, in units of one payment
  MaxFaults   \* bound: lost answers and server errors

ASSUME ProviderAssumption ==
  /\ InScope \subseteq Invoices
  /\ MaxEntries \in Nat /\ Total \in Nat /\ MaxFaults \in Nat

VARIABLES
  invoice,   \* docstatus of each Sales Invoice
  entry,     \* the Payment Entries
  loggedIn,  \* _logged_in
  session,   \* the server accepts the session cookie
  call,      \* the operation each client is in
  answer,    \* what its last operation returned or raised
  late,      \* the request given up at each fault, if ERPNext still has it
  faults     \* number of faults so far

db == <<invoice, entry>>
vars == <<invoice, entry, loggedIn, session, call, answer, late, faults>>

-----------------------------------------------------------------------------

(* docstatus 0, 1 and 2, before the document was created and after its     *)
(* draft was deleted.                                                      *)
DocStatus == {"absent", "DRAFT", "POSTED", "CANCELLED", "deleted"}

EntryIds == 1..MaxEntries

Entry == [status : DocStatus, evidence : SUBSET Evidence, invoice : SUBSET Invoices]
NoEntry == [status |-> "absent", evidence |-> {}, invoice |-> {}]

Ops == {"create", "post", "pay", "reverse", "cancel", "reconcile_post",
        "reconcile_payment", "list"}

(* What operations return about a document.                                *)
Outcomes == {"none", "POSTED", "REJECTED", "REF", "REV"}

(* at is the next request of the operation; auth says whether it has its   *)
(* session, retried whether the session was renewed for it.                *)
Call == [op : Ops \cup {"idle"}, at : 0..5, invoice : SUBSET Invoices,
         evidence : SUBSET Evidence, entry : 0..MaxEntries,
         auth : {"unchecked", "expired", "ready"}, retried : BOOLEAN]

Idle == [op |-> "idle", at |-> 0, invoice |-> {}, evidence |-> {}, entry |-> 0,
         auth |-> "unchecked", retried |-> FALSE]

Answer == [op : Ops \cup {"idle"}, out : Outcomes, invoice : SUBSET Invoices,
           entry : 0..MaxEntries]

NoAnswer == [op |-> "idle", out |-> "none", invoice |-> {}, entry |-> 0]

TypeOK ==
  /\ invoice \in [Invoices -> DocStatus]
  /\ entry \in [EntryIds -> Entry]
  /\ loggedIn \in BOOLEAN /\ session \in BOOLEAN
  /\ call \in [Clients -> Call]
  /\ answer \in [Clients -> Answer]
  /\ late \in [1..MaxFaults -> Call]
  /\ faults \in 0..MaxFaults

Init ==
  /\ invoice = [i \in Invoices |-> IF i \in InScope THEN "absent" ELSE "POSTED"]
  /\ entry = [e \in EntryIds |-> NoEntry]
  /\ loggedIn = FALSE /\ session = FALSE
  /\ call = [c \in Clients |-> Idle]
  /\ answer = [c \in Clients |-> NoAnswer]
  /\ late = [f \in 1..MaxFaults |-> Idle]
  /\ faults = 0

-----------------------------------------------------------------------------
(* Calls, answers and the session.                                         *)

Start(c, op, i, e, n) ==
  /\ call[c].op = "idle" /\ op \in Does[c]
  /\ call' = [call EXCEPT ![c] = [Idle EXCEPT !.op = op, !.at = 1, !.invoice = i,
                                              !.evidence = e, !.entry = n]]
  /\ answer' = [answer EXCEPT ![c] = NoAnswer]
  /\ UNCHANGED <<db, loggedIn, session, late, faults>>

(* The operation ends: it returns or raises. An exception, and an outcome  *)
(* that names no document, leave the caller with nothing.                  *)
Ends(c, out, n) ==
  /\ answer' = [answer EXCEPT ![c] =
       IF out \in {"DONE", "DocumentRejected", "UncertainOutcome"} THEN NoAnswer
       ELSE [op |-> call[c].op, out |-> out, invoice |-> call[c].invoice, entry |-> n]]
  /\ call' = [call EXCEPT ![c] = Idle]

(* The operation goes on to its next request.                              *)
Continues(c, at, n) ==
  /\ call' = [call EXCEPT ![c] = [@ EXCEPT !.at = at, !.entry = n,
                                           !.auth = "unchecked", !.retried = FALSE]]
  /\ UNCHANGED answer

(* DocumentRejected out of a request: post_invoice and reconcile_post      *)
(* catch it and answer REJECTED, the other operations let it pass.         *)
IsRejected(c) ==
  Ends(c, IF call[c].op \in {"post", "reconcile_post"} THEN "REJECTED"
                                                       ELSE "DocumentRejected",
       call[c].entry)

IsUncertain(c) == Ends(c, "UncertainOutcome", call[c].entry)

(* _login, before the first request and after a session expired. A failed  *)
(* login is uncertain, whatever the request would have done.               *)
Login(c) ==
  /\ call[c].op # "idle"
  /\ \/ call[c].auth = "unchecked" /\ ~loggedIn
     \/ call[c].auth = "expired"
  /\ loggedIn' = TRUE /\ session' = TRUE
  /\ call' = [call EXCEPT ![c].auth = IF @ = "expired" THEN "unchecked" ELSE "ready"]
  /\ UNCHANGED <<db, answer, late, faults>>

LoginFails(c) ==
  /\ call[c].op # "idle"
  /\ \/ call[c].auth = "unchecked" /\ ~loggedIn
     \/ call[c].auth = "expired"
  /\ faults < MaxFaults /\ faults' = faults + 1
  /\ IsUncertain(c)
  /\ UNCHANGED <<db, loggedIn, session, late>>

SessionExpires ==
  /\ session /\ session' = FALSE
  /\ UNCHANGED <<db, loggedIn, call, answer, late, faults>>

MaySend(c) == call[c].auth = "ready" \/ (call[c].auth = "unchecked" /\ loggedIn)

(* Mutant of Unauthorized: the session is renewed as often as it expires.  *)
UnauthorizedForever(c) ==
  /\ call[c].op # "idle" /\ MaySend(c) /\ ~session
  /\ loggedIn' = FALSE
  /\ call' = [call EXCEPT ![c].auth = "expired", ![c].retried = TRUE]
  /\ UNCHANGED <<db, session, answer, late, faults>>

(* 401 or 403: the session is renewed once per request. A client that      *)
(* finds another one already renewing it gives up.                         *)
Unauthorized(c) ==
  /\ call[c].op # "idle" /\ MaySend(c) /\ ~session
  /\ IF loggedIn /\ ~call[c].retried
     THEN /\ loggedIn' = FALSE
          /\ call' = [call EXCEPT ![c].auth = "expired", ![c].retried = TRUE]
          /\ UNCHANGED answer
     ELSE IsRejected(c) /\ UNCHANGED loggedIn
  /\ UNCHANGED <<db, session, late, faults>>

(* A request without a usable answer: any HTTP error is DocumentRejected,  *)
(* a timeout or a broken connection UncertainOutcome, whatever ERPNext did *)
(* or is still doing with the request.                                     *)
Lost(c) ==
  /\ faults < MaxFaults /\ faults' = faults + 1
  /\ IsRejected(c) \/ IsUncertain(c)
  /\ UNCHANGED <<loggedIn, session>>

(* It never takes effect ...                                               *)
RequestFails(c) ==
  /\ call[c].op # "idle" /\ MaySend(c)
  /\ Lost(c) /\ UNCHANGED <<db, late>>

-----------------------------------------------------------------------------
(* Requests. At(c, op, n) is a client that sends request n of op; Answered *)
(* is one that gets its answer.                                            *)

At(c, op, n) == call[c].op = op /\ call[c].at = n /\ MaySend(c) /\ session

Answered == UNCHANGED <<loggedIn, session, late, faults>>

(* ... or it has taken effect when it is answered or lost.                 *)
Effect(c, Follows) == (Follows /\ Answered) \/ (Lost(c) /\ UNCHANGED late)

(* A request without effect.                                               *)
Read(Follows) == Follows /\ Answered /\ UNCHANGED db

(* Mutant of Readable: the unit of the document is not compared.           *)
ReadableAnywhere(c, i) ==
  call[c].invoice = {i} /\ invoice[i] \in {"DRAFT", "POSTED", "CANCELLED"}

(* read_invoice of a name that exists and is in scope.                     *)
Readable(c, i) ==
  call[c].invoice = {i} /\ i \in InScope /\ invoice[i] \in {"DRAFT", "POSTED", "CANCELLED"}

Refused(c) == \A i \in call[c].invoice : ~Readable(c, i)

-----------------------------------------------------------------------------
(* What ERPNext does with the requests that change a document.             *)

Drafts(i) ==
  invoice[i] = "absent" /\ invoice' = [invoice EXCEPT ![i] = "DRAFT"] /\ UNCHANGED entry

(* A document that is already posted is saved unchanged.                   *)
Submittable(i) == invoice[i] \in {"DRAFT", "POSTED"}
Submits(i) ==
  Submittable(i) /\ invoice' = [invoice EXCEPT ![i] = "POSTED"] /\ UNCHANGED entry

Deletes(i) ==
  invoice[i] = "DRAFT" /\ invoice' = [invoice EXCEPT ![i] = "deleted"] /\ UNCHANGED entry

Paid(i) == {n \in EntryIds : entry[n].status = "POSTED" /\ entry[n].invoice = {i}}

(* Only a posted invoice nobody has paid on is cancelled.                  *)
Cancellable(i) == invoice[i] = "POSTED" /\ Paid(i) = {}
Cancels(i) ==
  Cancellable(i) /\ invoice' = [invoice EXCEPT ![i] = "CANCELLED"] /\ UNCHANGED entry

(* A payment needs a posted invoice with enough outstanding, when its      *)
(* entry is saved and when it is submitted.                                *)
Payable(i) == invoice[i] = "POSTED" /\ Cardinality(Paid(i)) < Total

(* Entries are named in the order they are saved.                          *)
Enters(i, evidence, n) ==
  /\ Payable(i) /\ entry[n].status = "absent"
  /\ \A m \in 1..(n - 1) : entry[m].status # "absent"
  /\ entry' = [entry EXCEPT ![n] = [status |-> "DRAFT", evidence |-> evidence,
                                     invoice |-> {i}]]
  /\ UNCHANGED invoice

PaymentSubmittable(i, n) == Payable(i) /\ entry[n].status = "DRAFT"
SubmitsPayment(i, n) ==
  /\ PaymentSubmittable(i, n)
  /\ entry' = [entry EXCEPT ![n].status = "POSTED"] /\ UNCHANGED invoice

CancelsPayment(n) ==
  /\ entry[n].status = "POSTED"
  /\ entry' = [entry EXCEPT ![n].status = "CANCELLED"] /\ UNCHANGED invoice

(* The requests that change a document.                                    *)
Writes(k) ==
  <<k.op, k.at>> \in {<<"create", 1>>, <<"post", 2>>, <<"cancel", 2>>, <<"cancel", 3>>,
                      <<"pay", 4>>, <<"pay", 5>>, <<"reverse", 3>>}

(* A client gives up a request that ERPNext, or a gateway before it, still *)
(* works on ...                                                            *)
GivesUp(c) ==
  /\ call[c].op # "idle" /\ MaySend(c) /\ session /\ Writes(call[c])
  /\ Lost(c) /\ late' = [late EXCEPT ![faults + 1] = call[c]]
  /\ UNCHANGED db

(* ... and that takes effect at last, if it still can.                     *)
Lands(f) ==
  LET k == late[f] IN
  /\ late' = [late EXCEPT ![f] = Idle]
  /\ UNCHANGED <<loggedIn, session, call, answer, faults>>
  /\ \/ \E i \in k.invoice :
          \/ k.op = "create" /\ Drafts(i)
          \/ k.op = "post" /\ Submits(i)
          \/ k.op = "cancel" /\ k.at = 2 /\ Deletes(i)
          \/ k.op = "cancel" /\ k.at = 3 /\ Cancels(i)
          \/ k.op = "pay" /\ k.at = 4 /\ \E n \in EntryIds : Enters(i, k.evidence, n)
          \/ k.op = "pay" /\ k.at = 5 /\ SubmitsPayment(i, k.entry)
     \/ k.op = "reverse" /\ CancelsPayment(k.entry)

-----------------------------------------------------------------------------
(* create_draft_invoice, of a unit in scope; ERPNext gives it a new name.  *)

NewName(i) ==
  /\ i \in InScope /\ invoice[i] = "absent"
  /\ \A d \in Clients : call[d].op = "create" => call[d].invoice # {i}
  /\ \A f \in 1..MaxFaults : late[f].op = "create" => late[f].invoice # {i}

CreateDraft(c, i) ==
  /\ At(c, "create", 1) /\ call[c].invoice = {i}
  /\ Drafts(i) /\ Effect(c, Ends(c, "DONE", 0))

-----------------------------------------------------------------------------
(* post_invoice: read, submit, read back.                                  *)

PostReads(c, i) ==
  /\ At(c, "post", 1) /\ call[c].invoice = {i} /\ ~Refused(c)
  /\ Read(CASE invoice[i] = "POSTED" -> Ends(c, "POSTED", 0)
            [] invoice[i] = "DRAFT"  -> Continues(c, 2, 0)
            [] OTHER                 -> IsRejected(c))

PostSubmits(c, i) ==
  /\ At(c, "post", 2) /\ call[c].invoice = {i}
  /\ \/ Submits(i) /\ Effect(c, Continues(c, 3, 0))
     \/ ~Submittable(i) /\ Read(IsRejected(c))

PostReadsBack(c, i) ==
  /\ At(c, "post", 3) /\ call[c].invoice = {i} /\ ~Refused(c)
  /\ Read(Ends(c, "POSTED", 0))

(* reconcile_post: the same read, without the submit.                      *)
ReconcilePost(c, i) ==
  /\ At(c, "reconcile_post", 1) /\ call[c].invoice = {i} /\ ~Refused(c)
  /\ Read(IF invoice[i] = "POSTED" THEN Ends(c, "POSTED", 0) ELSE IsRejected(c))

(* cancel_invoice: a draft is deleted, a posted invoice cancelled.         *)
CancelReads(c, i) ==
  /\ At(c, "cancel", 1) /\ call[c].invoice = {i} /\ ~Refused(c)
  /\ Read(CASE invoice[i] = "DRAFT"  -> Continues(c, 2, 0)
            [] invoice[i] = "POSTED" -> Continues(c, 3, 0)
            [] OTHER                 -> IsRejected(c))

CancelDeletes(c, i) ==
  /\ At(c, "cancel", 2) /\ call[c].invoice = {i}
  /\ \/ Deletes(i) /\ Effect(c, Ends(c, "DONE", 0))
     \/ invoice[i] # "DRAFT" /\ Read(IsRejected(c))

CancelSubmitted(c, i) ==
  /\ At(c, "cancel", 3) /\ call[c].invoice = {i}
  /\ \/ Cancels(i) /\ Effect(c, Ends(c, "DONE", 0))
     \/ ~Cancellable(i) /\ Read(IsRejected(c))

(* Any operation whose first or last request reads an invoice it may not.  *)
ReadRefused(c) ==
  /\ \/ \E op \in {"post", "reconcile_post", "cancel"} : At(c, op, 1)
     \/ At(c, "post", 3) \/ At(c, "pay", 2)
  /\ Refused(c)
  /\ Read(IsRejected(c))

-----------------------------------------------------------------------------
(* record_payment: look for the evidence, read the invoice and its         *)
(* company, create the entry, submit it.                                   *)

(* Entries of any docstatus count.                                         *)
EvidenceUsed(e) == \E n \in EntryIds : entry[n].evidence = {e}

PayLooksUp(c, e) ==
  /\ At(c, "pay", 1) /\ call[c].evidence = {e}
  /\ Read(IF EvidenceUsed(e) THEN IsRejected(c) ELSE Continues(c, 2, 0))

PayReads(c) ==
  \/ At(c, "pay", 2) /\ ~Refused(c) /\ Read(Continues(c, 3, 0))
  \/ At(c, "pay", 3) /\ Read(Continues(c, 4, 0))

PayCreates(c, i, n) ==
  /\ At(c, "pay", 4) /\ call[c].invoice = {i}
  /\ \/ Enters(i, call[c].evidence, n) /\ Effect(c, Continues(c, 5, n))
     \/ ~Payable(i) /\ Read(IsRejected(c))

(* Mutant of PaySubmits: the entry is left for ERPNext to submit.          *)
PaySubmitsLater(c, i) ==
  /\ At(c, "pay", 5) /\ call[c].invoice = {i}
  /\ Read(Ends(c, "REF", call[c].entry))

PaySubmits(c, i) ==
  LET n == call[c].entry IN
  /\ At(c, "pay", 5) /\ call[c].invoice = {i}
  /\ \/ SubmitsPayment(i, n) /\ Effect(c, Ends(c, "REF", n))
     \/ ~PaymentSubmittable(i, n) /\ Read(IsRejected(c))

-----------------------------------------------------------------------------
(* Reading and reversing payments. An entry belongs to the company of the  *)
(* invoice it pays.                                                        *)

ReadablePayment(n) == entry[n].status # "absent" /\ entry[n].invoice \subseteq InScope

(* reverse_payment: read_payment, read its docstatus, cancel it.           *)
ReverseReads(c, n) ==
  /\ call[c].entry = n
  /\ \/ /\ At(c, "reverse", 1)
        /\ Read(IF ReadablePayment(n) THEN Continues(c, 2, n) ELSE IsRejected(c))
     \/ /\ At(c, "reverse", 2)
        /\ Read(IF entry[n].status = "POSTED" THEN Continues(c, 3, n) ELSE IsRejected(c))

ReverseCancels(c, n) ==
  /\ At(c, "reverse", 3) /\ call[c].entry = n
  /\ \/ CancelsPayment(n) /\ Effect(c, Ends(c, "REV", n))
     \/ entry[n].status # "POSTED" /\ Read(IsRejected(c))

(* reconcile_payment: a submitted entry in scope with the evidence.        *)
ReconcilePaymentLists(c, e) ==
  LET applied == {n \in EntryIds : /\ entry[n].evidence = {e} /\ entry[n].status = "POSTED"
                                   /\ entry[n].invoice \subseteq InScope} IN
  /\ At(c, "reconcile_payment", 1) /\ call[c].evidence = {e}
  /\ \/ applied = {} /\ Read(IsRejected(c))
     \/ \E n \in applied : Read(Continues(c, 2, n))

ReconcilePaymentReads(c) ==
  /\ At(c, "reconcile_payment", 2)
  /\ Read(Ends(c, "REF", call[c].entry))

(* query_invoices, known_draft_refs, payment_evidence_index and ping.      *)
Lists(c) == At(c, "list", 1) /\ Read(Ends(c, "DONE", 0))

-----------------------------------------------------------------------------

(* Callers name documents that exist or have existed.                      *)
Named == {i \in Invoices : invoice[i] # "absent"}
Entered == {n \in EntryIds : entry[n].status # "absent"}

Begin(c) ==
  \/ \E i \in Invoices : NewName(i) /\ Start(c, "create", {i}, {}, 0)
  \/ Start(c, "list", {}, {}, 0)
  \/ \E i \in Named, op \in {"post", "cancel", "reconcile_post"} :
       Start(c, op, {i}, {}, 0)
  \/ \E i \in Named, e \in Evidence : Start(c, "pay", {i}, {e}, 0)
  \/ \E e \in Evidence : Start(c, "reconcile_payment", {}, {e}, 0)
  \/ \E n \in Entered : Start(c, "reverse", {}, {}, n)

Request(c) ==
  \/ ReadRefused(c) \/ PayReads(c) \/ ReconcilePaymentReads(c) \/ Lists(c)
  \/ \E i \in Invoices :
       \/ CreateDraft(c, i)
       \/ PostReads(c, i) \/ PostSubmits(c, i) \/ PostReadsBack(c, i)
       \/ ReconcilePost(c, i)
       \/ CancelReads(c, i) \/ CancelDeletes(c, i) \/ CancelSubmitted(c, i)
       \/ PaySubmits(c, i)
       \/ \E n \in EntryIds : PayCreates(c, i, n)
  \/ \E e \in Evidence : PayLooksUp(c, e) \/ ReconcilePaymentLists(c, e)
  \/ \E n \in EntryIds : ReverseReads(c, n) \/ ReverseCancels(c, n)

Progress(c) ==
  \/ Login(c) \/ LoginFails(c) \/ Unauthorized(c)
  \/ RequestFails(c) \/ GivesUp(c) \/ Request(c)

Next ==
  \/ SessionExpires
  \/ \E f \in 1..MaxFaults : Lands(f)
  \/ \E c \in Clients : Begin(c) \/ Progress(c)

Spec == Init /\ [][Next]_vars

(* Every request is answered, refused or given up after the timeout.       *)
FairSpec == Spec /\ \A c \in Clients : WF_vars(Progress(c))

-----------------------------------------------------------------------------
(* Properties.                                                             *)

EverPosted == {"POSTED", "CANCELLED"}

(* A document an operation reports as done is done, whatever other clients *)
(* did between its requests and whatever lands late: a posted invoice and  *)
(* a recorded payment were submitted and never become drafts again, and a  *)
(* reversed payment stays cancelled (post_invoice, record_payment,         *)
(* reverse_payment and the two reconciling reads). Nothing is said of an   *)
(* operation that reports a rejection: see RejectedMeansNoMutation.        *)
AnswersAreTrue ==
  \A c \in Clients : LET a == answer[c] IN
    /\ a.out = "POSTED" => \A i \in a.invoice : invoice[i] \in EverPosted
    /\ a.out = "REF" => entry[a.entry].status \in EverPosted
    /\ a.out = "REV" => entry[a.entry].status = "CANCELLED"

(* erp_port.py:84 of PostingOutcome.REJECTED: "verified: zero provider     *)
(* mutation". When nobody else posts, an invoice that post_invoice read as *)
(* a draft is not posted when it answers REJECTED. Violated: the read-back *)
(* after the submit, or an HTTP error of a submit that took effect, is     *)
(* caught as a rejection (erpnext_adapter.py:373-390).                     *)
RejectedMeansNoMutation ==
  [][\A c \in Clients :
       /\ call[c].op = "post" /\ call[c].at \in {2, 3} /\ answer'[c].out = "REJECTED"
       /\ \A d \in Clients \ {c} : "post" \notin Does[d]
       => \A i \in call[c].invoice : invoice'[i] \notin EverPosted]_vars

(* The docstring of record_payment: "Enforces evidence_ref uniqueness: a   *)
(* second payment with the same evidence_ref raises DocumentRejected."     *)
(* Violated: the lookup (erpnext_adapter.py:409) is three requests before  *)
(* the creation (467), and ERPNext itself does not check.                  *)
OneEntryPerEvidence ==
  \A m, n \in EntryIds : m # n /\ entry[m].evidence # {} =>
    entry[m].evidence # entry[n].evidence

(* No payment is ever entered on a document outside the authorized scope,  *)
(* which record_payment checks when it reads the invoice, two requests     *)
(* before the entry is created.                                            *)
EntriesInScope == \A n \in EntryIds : entry[n].invoice \subseteq InScope

(* The documents are well typed and the payments within the scope.         *)
DocumentsInv == TypeOK /\ EntriesInScope

(* Every operation comes to an end, however often the session expires: a   *)
(* request renews it once and then gives up.                               *)
EveryCallEnds == \A c \in Clients : call[c].op # "idle" ~> call[c].op = "idle"

=============================================================================
