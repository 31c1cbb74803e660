------------------------ MODULE ErpNextProviderProofs ------------------------
(***************************************************************************)
(* Proofs about ErpNextProvider, for any number of clients, documents and  *)
(* faults, whatever operations the clients run and whatever lands late.    *)
(*                                                                         *)
(* An answer is given requests after the effect it reports, and stays with *)
(* the caller while others go on. ProviderInv therefore says what a client *)
(* in the middle of an operation already knows of the documents (CallOK),  *)
(* what it was told (AnswerOK) and what a request given up may still do    *)
(* (LateOK). Every step is shown to let the documents only grow (Grows),   *)
(* which none of these can lose.                                           *)
(***************************************************************************)
EXTENDS ErpNextProvider, TLAPS

CallOK(c) ==
  /\ call[c].op # "idle" => answer[c] = NoAnswer
  /\ call[c].op = "post" /\ call[c].at = 3 =>
       \A i \in call[c].invoice : invoice[i] \in EverPosted
  /\ call[c].op = "pay" /\ call[c].at \in {3, 4, 5} => call[c].invoice \subseteq InScope
  /\ call[c].op = "pay" /\ call[c].at = 5 => call[c].entry \in EntryIds
  /\ call[c].op = "reconcile_payment" /\ call[c].at = 2 =>
       call[c].entry \in EntryIds /\ entry[call[c].entry].status \in EverPosted

AnswerOK(c) ==
  /\ answer[c].out = "POSTED" => \A i \in answer[c].invoice : invoice[i] \in EverPosted
  /\ answer[c].out = "REF" =>
       answer[c].entry \in EntryIds /\ entry[answer[c].entry].status \in EverPosted
  /\ answer[c].out = "REV" =>
       answer[c].entry \in EntryIds /\ entry[answer[c].entry].status = "CANCELLED"

LateOK ==
  \A f \in 1..MaxFaults :
    late[f].op = "pay" /\ late[f].at = 4 => late[f].invoice \subseteq InScope

(* What surrounds the documents and the calls.                             *)
Around ==
  /\ loggedIn \in BOOLEAN /\ session \in BOOLEAN
  /\ late \in [1..MaxFaults -> Call] /\ faults \in 0..MaxFaults
  /\ LateOK

ProviderInv ==
  /\ TypeOK
  /\ EntriesInScope
  /\ LateOK
  /\ \A c \in Clients : CallOK(c) /\ AnswerOK(c)

-----------------------------------------------------------------------------
(* What no step undoes: a document that was ever posted, a cancellation,   *)
(* and the scope of the payments.                                          *)
Grows ==
  /\ invoice' \in [Invoices -> DocStatus] /\ entry' \in [EntryIds -> Entry]
  /\ \A i \in Invoices : invoice[i] \in EverPosted => invoice'[i] \in EverPosted
  /\ \A n \in EntryIds :
       /\ entry[n].status \in EverPosted => entry'[n].status \in EverPosted
       /\ entry[n].status = "CANCELLED" => entry'[n].status = "CANCELLED"
       /\ entry'[n].invoice \subseteq InScope

LEMMA NoEffect == ProviderInv /\ UNCHANGED <<invoice, entry>> => Grows
BY DEF ProviderInv, TypeOK, EntriesInScope, Grows

(* One invoice that was not cancelled gets another status, and keeps the   *)
(* past of a posted one.                                                   *)
LEMMA InvoiceGrows ==
  ASSUME ProviderInv, NEW i \in Invoices, NEW status \in DocStatus,
         invoice' = [invoice EXCEPT ![i] = status], UNCHANGED entry,
         invoice[i] \in EverPosted => status \in EverPosted
  PROVE  Grows /\ invoice'[i] = status
<1>1. invoice \in [Invoices -> DocStatus]
  BY DEF ProviderInv, TypeOK
<1> QED
  BY <1>1 DEF ProviderInv, TypeOK, EntriesInScope, Grows

(* The writing requests on invoices ...                                    *)
LEMMA InvoiceWrites ==
  ASSUME ProviderInv, NEW i \in Invoices
  PROVE  /\ Drafts(i) \/ Deletes(i) \/ Cancels(i) => Grows
         /\ Submits(i) => Grows /\ invoice'[i] \in EverPosted
<1>1. {"DRAFT", "POSTED", "deleted", "CANCELLED"} \subseteq DocStatus
  BY DEF DocStatus
<1>2. Drafts(i) => Grows
  BY <1>1, InvoiceGrows DEF Drafts, EverPosted
<1>3. Deletes(i) => Grows
  BY <1>1, InvoiceGrows DEF Deletes, EverPosted
<1>4. Cancels(i) => Grows
  BY <1>1, InvoiceGrows DEF Cancels, EverPosted
<1>5. Submits(i) => Grows /\ invoice'[i] \in EverPosted
  BY <1>1, InvoiceGrows DEF Submits, EverPosted
<1> QED
  BY <1>2, <1>3, <1>4, <1>5

(* ... and on payments: a new one, ...                                     *)
LEMMA EnterGrows ==
  ASSUME ProviderInv, NEW i \in InScope, NEW e \in SUBSET Evidence, NEW n \in EntryIds,
         Enters(i, e, n)
  PROVE  Grows
<1> DEFINE new == [status |-> "DRAFT", evidence |-> e, invoice |-> {i}]
<1>1. entry' = [entry EXCEPT ![n] = new] /\ UNCHANGED invoice
      /\ entry[n].status = "absent"
  BY DEF Enters
<1>2. new \in Entry /\ new.invoice \subseteq InScope
  BY ProviderAssumption DEF Entry, DocStatus
<1> HIDE DEF new
<1>3. entry \in [EntryIds -> Entry]
  BY DEF ProviderInv, TypeOK
<1>4. /\ entry' \in [EntryIds -> Entry] /\ entry'[n] = new
      /\ \A m \in EntryIds \ {n} : entry'[m] = entry[m]
  BY <1>1, <1>2, <1>3
<1> QED
  BY <1>1, <1>2, <1>4 DEF ProviderInv, TypeOK, EntriesInScope, Grows, EverPosted

(* ... and an old one that is submitted or cancelled.                      *)
LEMMA PaymentWrites ==
  ASSUME ProviderInv, NEW n, NEW i
  PROVE  /\ SubmitsPayment(i, n) =>
              Grows /\ (n \in EntryIds => entry'[n].status \in EverPosted)
         /\ CancelsPayment(n) =>
              Grows /\ (n \in EntryIds => entry'[n].status = "CANCELLED")
<1>1. entry \in [EntryIds -> Entry]
  BY DEF ProviderInv, TypeOK
<1>2. ASSUME NEW status \in {"POSTED", "CANCELLED"}, UNCHANGED invoice,
             entry' = [entry EXCEPT ![n].status = status],
             entry[n].status = "CANCELLED" => status = "CANCELLED"
      PROVE  Grows /\ (n \in EntryIds => entry'[n].status = status)
  <2>1. status \in DocStatus /\ status \in EverPosted
    BY DEF DocStatus, EverPosted
  <2>2. CASE n \in EntryIds
    <3> DEFINE old == entry[n]
               new == [old EXCEPT !.status = status]
    <3>1. old \in Entry
      BY <1>1, <2>2
    <3>2. entry' = [entry EXCEPT ![n] = new]
      BY <1>2
    <3> HIDE DEF old
    <3>3. new \in Entry /\ new.status = status /\ new.invoice = old.invoice
      BY <2>1, <3>1 DEF Entry
    <3> HIDE DEF new
    <3>4. /\ entry' \in [EntryIds -> Entry] /\ entry'[n] = new
          /\ \A m \in EntryIds \ {n} : entry'[m] = entry[m]
      BY <1>1, <2>2, <3>2, <3>3
    <3>5. entry[n].invoice \subseteq InScope
      BY <2>2 DEF ProviderInv, EntriesInScope
    <3> QED
      BY <1>2, <2>1, <3>3, <3>4, <3>5
         DEF old, ProviderInv, TypeOK, EntriesInScope, Grows
  <2>3. CASE n \notin EntryIds
    <3>1. entry' = entry
      BY <1>1, <1>2, <2>3
    <3> QED
      BY <1>2, <2>3, <3>1, NoEffect
  <2> QED
    BY <2>2, <2>3
<1> QED
  BY <1>2 DEF SubmitsPayment, CancelsPayment, PaymentSubmittable, EverPosted

-----------------------------------------------------------------------------
(* What a step may do to the clients.                                      *)

OnlyOf(c) ==
  \A d \in Clients \ {c} : call'[d] = call[d] /\ answer'[d] = answer[d]

(* A client that is not in the step keeps what it knows and was told.      *)
LEMMA KnowledgeKept ==
  ASSUME ProviderInv, Grows, NEW d \in Clients,
         call'[d] = call[d], answer'[d] = answer[d]
  PROVE  CallOK(d)' /\ AnswerOK(d)'
<1>1. CallOK(d) /\ AnswerOK(d)
  BY DEF ProviderInv
<1>2. call[d].invoice \subseteq Invoices /\ answer[d].invoice \subseteq Invoices
  BY DEF ProviderInv, TypeOK, Call, Answer
<1>3. CallOK(d)'
  BY <1>1, <1>2 DEF CallOK, Grows
<1>4. AnswerOK(d)'
  BY <1>1, <1>2 DEF AnswerOK, Grows
<1> QED
  BY <1>3, <1>4

LEMMA StepKeeps ==
  ASSUME ProviderInv, Grows, Around', NEW c \in Clients, OnlyOf(c),
         call' \in [Clients -> Call], answer' \in [Clients -> Answer],
         CallOK(c)', AnswerOK(c)'
  PROVE  ProviderInv'
<1>1. TypeOK' /\ LateOK'
  BY DEF Grows, Around, TypeOK
<1>2. EntriesInScope'
  BY DEF EntriesInScope, Grows
<1>3. \A d \in Clients : CallOK(d)' /\ AnswerOK(d)'
  BY KnowledgeKept DEF OnlyOf
<1> QED
  BY <1>1, <1>2, <1>3 DEF ProviderInv

LEMMA RestTypes == Idle \in Call /\ NoAnswer \in Answer
<1>1. 0 \in 0..MaxEntries /\ 0 \in 0..5
  BY ProviderAssumption
<1> QED
  BY <1>1 DEF Idle, Call, NoAnswer, Answer, Outcomes

(* An operation that ends, and answers what has happened.                  *)
LEMMA EndsKeeps ==
  ASSUME ProviderInv, Grows, Around', NEW c \in Clients,
         NEW out \in Outcomes \cup {"DONE", "DocumentRejected", "UncertainOutcome"},
         NEW n \in 0..MaxEntries, Ends(c, out, n),
         out = "POSTED" => \A i \in call[c].invoice : invoice'[i] \in EverPosted,
         out = "REF" => n \in EntryIds /\ entry'[n].status \in EverPosted,
         out = "REV" => n \in EntryIds /\ entry'[n].status = "CANCELLED"
  PROVE  ProviderInv'
<1>t. call \in [Clients -> Call] /\ answer \in [Clients -> Answer]
  BY DEF ProviderInv, TypeOK
<1> DEFINE a == [op |-> call[c].op, out |-> out, invoice |-> call[c].invoice, entry |-> n]
           said == IF out \in {"DONE", "DocumentRejected", "UncertainOutcome"}
                   THEN NoAnswer ELSE a
<1>1. call' = [call EXCEPT ![c] = Idle] /\ answer' = [answer EXCEPT ![c] = said]
  BY DEF Ends
<1>2. said \in Answer
  <2>1. call[c].op \in Ops \cup {"idle"} /\ call[c].invoice \in SUBSET Invoices
    BY <1>t DEF Call
  <2>2. out \notin {"DONE", "DocumentRejected", "UncertainOutcome"} => a \in Answer
    BY <2>1 DEF Answer
  <2> QED
    BY <2>2, RestTypes
<1>3. \/ said = NoAnswer
      \/ said.out = out /\ said.invoice = call[c].invoice /\ said.entry = n
  OBVIOUS
<1> HIDE DEF said
<1>4. call' \in [Clients -> Call] /\ answer' \in [Clients -> Answer]
  BY <1>t, <1>1, <1>2, RestTypes
<1>5. call'[c] = Idle /\ answer'[c] = said /\ OnlyOf(c)
  BY <1>t, <1>1 DEF OnlyOf
<1>6. CallOK(c)'
  BY <1>5 DEF CallOK, Idle
<1>7. AnswerOK(c)'
  BY <1>3, <1>5 DEF AnswerOK, NoAnswer
<1> QED
  BY <1>4, <1>5, <1>6, <1>7, StepKeeps

(* An operation that goes on, knowing what its next request needs.         *)
LEMMA ContinuesKeeps ==
  ASSUME ProviderInv, Grows, Around', NEW c \in Clients, call[c].op # "idle",
         NEW at \in 1..5, NEW n \in 0..MaxEntries, Continues(c, at, n),
         call[c].op = "post" /\ at = 3 =>
           \A i \in call[c].invoice : invoice'[i] \in EverPosted,
         call[c].op = "pay" /\ at \in {3, 4, 5} => call[c].invoice \subseteq InScope,
         call[c].op = "pay" /\ at = 5 => n \in EntryIds,
         call[c].op = "reconcile_payment" /\ at = 2 =>
           n \in EntryIds /\ entry'[n].status \in EverPosted
  PROVE  ProviderInv'
<1>t. call \in [Clients -> Call] /\ answer \in [Clients -> Answer]
  BY DEF ProviderInv, TypeOK
<1> DEFINE k == call[c]
           next == [k EXCEPT !.at = at, !.entry = n, !.auth = "unchecked",
                             !.retried = FALSE]
<1>0. k \in Call /\ at \in 0..5
  BY <1>t
<1>1. call' = [call EXCEPT ![c] = next] /\ UNCHANGED answer
  BY DEF Continues
<1> HIDE DEF k
<1>2. /\ next \in Call
      /\ next.op = k.op /\ next.at = at /\ next.entry = n
      /\ next.invoice = k.invoice
  BY <1>0 DEF Call
<1> HIDE DEF next
<1> USE DEF k
<1>3. call' \in [Clients -> Call] /\ answer' \in [Clients -> Answer]
  BY <1>t, <1>1, <1>2
<1>4. OnlyOf(c) /\ call'[c] = next /\ answer'[c] = answer[c]
  BY <1>t, <1>1 DEF OnlyOf
<1>5. answer[c] = NoAnswer
  BY DEF ProviderInv, CallOK
<1>6. CallOK(c)'
  BY <1>2, <1>4, <1>5 DEF CallOK
<1>7. AnswerOK(c)'
  BY <1>4, <1>5 DEF AnswerOK, NoAnswer
<1> QED
  BY <1>3, <1>4, <1>6, <1>7, StepKeeps

(* A new operation.                                                        *)
LEMMA StartKeeps ==
  ASSUME ProviderInv, NEW c \in Clients, NEW op \in Ops, NEW i \in SUBSET Invoices,
         NEW e \in SUBSET Evidence, NEW n \in 0..MaxEntries, Start(c, op, i, e, n)
  PROVE  ProviderInv'
<1>t. call \in [Clients -> Call] /\ answer \in [Clients -> Answer]
  BY DEF ProviderInv, TypeOK
<1> DEFINE r == Idle
           k == [r EXCEPT !.op = op, !.at = 1, !.invoice = i, !.evidence = e,
                          !.entry = n]
<1>0. r \in Call /\ 1 \in 0..5
  BY RestTypes
<1>1. /\ call' = [call EXCEPT ![c] = k]
      /\ answer' = [answer EXCEPT ![c] = NoAnswer]
      /\ UNCHANGED <<invoice, entry, loggedIn, session, late, faults>>
  BY DEF Start, db
<1> HIDE DEF r
<1>2. k \in Call /\ k.at = 1
  BY <1>0 DEF Call
<1> HIDE DEF k
<1>3. call' \in [Clients -> Call] /\ answer' \in [Clients -> Answer]
  BY <1>t, <1>1, <1>2, RestTypes
<1>4. OnlyOf(c) /\ call'[c] = k /\ answer'[c] = NoAnswer
  BY <1>t, <1>1 DEF OnlyOf
<1>5. Grows /\ Around'
  BY <1>1, NoEffect DEF ProviderInv, TypeOK, Around, LateOK
<1>6. CallOK(c)' /\ AnswerOK(c)'
  BY <1>2, <1>4 DEF CallOK, AnswerOK, NoAnswer
<1> QED
  BY <1>3, <1>4, <1>5, <1>6, StepKeeps

(* Renewing the session changes only what the operation knows of it.       *)
LEMMA SessionKeeps ==
  ASSUME ProviderInv, NEW c \in Clients,
         NEW auth \in {"unchecked", "expired", "ready"}, NEW retried \in BOOLEAN,
         call' = [call EXCEPT ![c].auth = auth, ![c].retried = retried],
         UNCHANGED <<invoice, entry, answer, late, faults>>,
         loggedIn' \in BOOLEAN, session' \in BOOLEAN
  PROVE  ProviderInv'
<1>t. call \in [Clients -> Call] /\ answer \in [Clients -> Answer]
  BY DEF ProviderInv, TypeOK
<1> DEFINE k == call[c]
           next == [k EXCEPT !.auth = auth, !.retried = retried]
<1>0. k \in Call
  BY <1>t
<1>1. call' = [call EXCEPT ![c] = next]
  BY <1>t
<1>2. /\ next \in Call
      /\ next.op = k.op /\ next.at = k.at /\ next.entry = k.entry
      /\ next.invoice = k.invoice
  BY <1>0 DEF Call
<1> HIDE DEF next
<1>3. call' \in [Clients -> Call] /\ answer' \in [Clients -> Answer]
  BY <1>t, <1>1, <1>2
<1>4. OnlyOf(c) /\ call'[c] = next /\ answer'[c] = answer[c]
  BY <1>t, <1>1 DEF OnlyOf
<1>5. Grows /\ Around'
  BY NoEffect DEF ProviderInv, TypeOK, Around, LateOK
<1>6. CallOK(c) /\ AnswerOK(c)
  BY DEF ProviderInv
<1>7. CallOK(c)' /\ AnswerOK(c)'
  BY <1>2, <1>4, <1>6 DEF CallOK, AnswerOK
<1> QED
  BY <1>3, <1>4, <1>5, <1>7, StepKeeps

-----------------------------------------------------------------------------
(* Requests that are answered, rejected, lost or given up.                 *)

LEMMA AnsweredAround == ProviderInv /\ Answered => Around'
BY DEF ProviderInv, TypeOK, Answered, Around, LateOK

(* A fault is counted.                                                     *)
LEMMA FaultTyped ==
  ASSUME TypeOK, faults < MaxFaults
  PROVE  faults + 1 \in 0..MaxFaults /\ faults + 1 \in 1..MaxFaults
BY ProviderAssumption DEF TypeOK

(* An operation may be rejected or become uncertain at any request.        *)
LEMMA StopsKeeps ==
  ASSUME ProviderInv, Grows, Around', NEW c \in Clients, IsRejected(c) \/ IsUncertain(c)
  PROVE  ProviderInv'
<1>1. call[c].entry \in 0..MaxEntries
  BY DEF ProviderInv, TypeOK, Call
<1>2. PICK out \in {"REJECTED", "DocumentRejected", "UncertainOutcome"} :
        Ends(c, out, call[c].entry)
  BY DEF IsRejected, IsUncertain
<1>3. out \in Outcomes \cup {"DONE", "DocumentRejected", "UncertainOutcome"}
      /\ out \notin {"POSTED", "REF", "REV"}
  BY DEF Outcomes
<1> QED
  BY <1>1, <1>2, <1>3, EndsKeeps

LEMMA ReadRejects ==
  ASSUME ProviderInv, NEW c \in Clients, Read(IsRejected(c))
  PROVE  ProviderInv'
<1>1. IsRejected(c) /\ Answered /\ UNCHANGED <<invoice, entry>>
  BY DEF Read, db
<1> QED
  BY <1>1, NoEffect, AnsweredAround, StopsKeeps

LEMMA LostKeeps ==
  ASSUME ProviderInv, Grows, NEW c \in Clients, Lost(c), UNCHANGED late
  PROVE  ProviderInv'
<1>1. Around'
  BY FaultTyped DEF Lost, ProviderInv, TypeOK, Around, LateOK
<1> QED
  BY <1>1, StopsKeeps DEF Lost

(* A payment that is given up was already in scope.                        *)
LEMMA GivesUpKeeps ==
  ASSUME ProviderInv, NEW c \in Clients, GivesUp(c)
  PROVE  ProviderInv'
<1>1. /\ UNCHANGED <<invoice, entry, loggedIn, session>> /\ faults' = faults + 1
      /\ faults < MaxFaults /\ late' = [late EXCEPT ![faults + 1] = call[c]]
      /\ IsRejected(c) \/ IsUncertain(c)
  BY DEF GivesUp, Lost, db
<1>2. faults + 1 \in 0..MaxFaults /\ faults + 1 \in 1..MaxFaults
  BY <1>1, FaultTyped DEF ProviderInv
<1>3. call[c] \in Call /\ CallOK(c) /\ LateOK
      /\ late \in [1..MaxFaults -> Call]
  BY DEF ProviderInv, TypeOK
<1>4. /\ late' \in [1..MaxFaults -> Call] /\ late'[faults + 1] = call[c]
      /\ \A f \in (1..MaxFaults) \ {faults + 1} : late'[f] = late[f]
  BY <1>1, <1>2, <1>3
<1>5. LateOK'
  BY <1>3, <1>4 DEF LateOK, CallOK
<1>6. Around'
  BY <1>1, <1>2, <1>4, <1>5 DEF Around, ProviderInv, TypeOK
<1> QED
  BY <1>1, <1>6, NoEffect, StopsKeeps

(* The session: logging in, expiring and being renewed, and the requests   *)
(* that fail.                                                              *)
LEMMA SessionSteps ==
  ASSUME ProviderInv, NEW c \in Clients,
         Login(c) \/ LoginFails(c) \/ Unauthorized(c) \/ RequestFails(c)
  PROVE  ProviderInv'
<1>b. call \in [Clients -> Call] /\ call[c].auth \in {"unchecked", "expired", "ready"}
      /\ call[c].retried \in BOOLEAN
  BY DEF ProviderInv, TypeOK, Call
<1>1. CASE Login(c)
  <2>1. UNCHANGED <<invoice, entry, answer, late, faults>>
        /\ loggedIn' \in BOOLEAN /\ session' \in BOOLEAN
    BY <1>1 DEF Login, db
  <2>2. PICK auth \in {"unchecked", "ready"} : call' = [call EXCEPT ![c].auth = auth]
    BY <1>1 DEF Login
  <2>3. call' = [call EXCEPT ![c].auth = auth, ![c].retried = call[c].retried]
    <3> DEFINE k == call[c]
    <3>1. k \in Call
      BY <1>b
    <3> HIDE DEF k
    <3>2. [k EXCEPT !.auth = auth, !.retried = k.retried] = [k EXCEPT !.auth = auth]
      BY <3>1 DEF Call
    <3> QED
      BY <2>2, <3>2, <1>b DEF k
  <2> QED
    BY <2>1, <2>3, <1>b, SessionKeeps
<1>2. CASE LoginFails(c)
  <2>1. UNCHANGED <<invoice, entry>> /\ IsUncertain(c)
    BY <1>2 DEF LoginFails, db
  <2>2. Around'
    BY <1>2, FaultTyped DEF LoginFails, db, Around, LateOK, ProviderInv, TypeOK
  <2> QED
    BY <2>1, <2>2, NoEffect, StopsKeeps
<1>3. CASE Unauthorized(c)
  <2>1. UNCHANGED <<invoice, entry, session, late, faults>>
        /\ loggedIn' \in BOOLEAN /\ session' \in BOOLEAN
    BY <1>3 DEF Unauthorized, db, ProviderInv, TypeOK
  <2>2. CASE loggedIn /\ ~call[c].retried
    <3>1. /\ call' = [call EXCEPT ![c].auth = "expired", ![c].retried = TRUE]
          /\ UNCHANGED answer
      BY <1>3, <2>2 DEF Unauthorized
    <3> QED
      BY <2>1, <3>1, SessionKeeps
  <2>3. CASE ~(loggedIn /\ ~call[c].retried)
    <3>1. IsRejected(c)
      BY <1>3, <2>3 DEF Unauthorized
    <3>2. Around'
      BY <2>1 DEF ProviderInv, TypeOK, Around, LateOK
    <3> QED
      BY <2>1, <3>1, <3>2, NoEffect, StopsKeeps
  <2> QED
    BY <2>2, <2>3
<1>4. CASE RequestFails(c)
  BY <1>4, NoEffect, LostKeeps DEF RequestFails, db
<1> QED
  BY <1>1, <1>2, <1>3, <1>4

(* An expired session is nobody's step.                                    *)
LEMMA ExpiryKeeps == ProviderInv /\ SessionExpires => ProviderInv'
<1> SUFFICES ASSUME ProviderInv, SessionExpires PROVE ProviderInv'
  OBVIOUS
<1>1. UNCHANGED <<invoice, entry, call, answer, late, faults, loggedIn>> /\ session' = FALSE
  BY DEF SessionExpires, db
<1>2. TypeOK' /\ LateOK' /\ EntriesInScope'
  BY <1>1 DEF ProviderInv, TypeOK, LateOK, EntriesInScope
<1>3. \A c \in Clients : CallOK(c)' /\ AnswerOK(c)'
  BY <1>1 DEF ProviderInv, CallOK, AnswerOK
<1> QED
  BY <1>2, <1>3 DEF ProviderInv

(* Nor is a request that takes effect after it was given up.               *)
LEMMA LandsKeeps ==
  ASSUME ProviderInv, NEW f \in 1..MaxFaults, Lands(f)
  PROVE  ProviderInv'
<1> DEFINE k == late[f]
<1>1. /\ late' = [late EXCEPT ![f] = Idle]
      /\ UNCHANGED <<loggedIn, session, call, answer, faults>>
  BY DEF Lands
<1>2. k \in Call /\ late \in [1..MaxFaults -> Call]
      /\ (k.op = "pay" /\ k.at = 4 => k.invoice \subseteq InScope)
  BY DEF ProviderInv, TypeOK, LateOK
<1>3. k.invoice \subseteq Invoices /\ k.evidence \in SUBSET Evidence
  BY <1>2 DEF Call
<1>4. \/ \E i \in k.invoice :
           \/ Drafts(i) \/ Submits(i) \/ Deletes(i) \/ Cancels(i)
           \/ k.op = "pay" /\ k.at = 4 /\ \E n \in EntryIds : Enters(i, k.evidence, n)
           \/ SubmitsPayment(i, k.entry)
      \/ CancelsPayment(k.entry)
  BY DEF Lands
<1> HIDE DEF k
<1>5. Grows
  <2>1. ASSUME NEW i \in k.invoice, Drafts(i) \/ Submits(i) \/ Deletes(i) \/ Cancels(i)
        PROVE  Grows
    BY <1>3, <2>1, InvoiceWrites
  <2>2. ASSUME NEW i \in k.invoice, k.op = "pay", k.at = 4, NEW n \in EntryIds,
               Enters(i, k.evidence, n)
        PROVE  Grows
    BY <1>2, <1>3, <2>2, EnterGrows
  <2>3. ASSUME NEW i \in k.invoice, SubmitsPayment(i, k.entry) PROVE Grows
    BY <2>3, PaymentWrites
  <2>4. CASE CancelsPayment(k.entry)
    BY <2>4, PaymentWrites
  <2> QED
    BY <1>4, <2>1, <2>2, <2>3, <2>4
<1>6. Idle \in Call /\ Idle.op # "pay"
  BY RestTypes DEF Idle
<1>7. TypeOK' /\ LateOK' /\ EntriesInScope'
  <2>1. /\ late' \in [1..MaxFaults -> Call] /\ late'[f] = Idle
        /\ \A g \in (1..MaxFaults) \ {f} : late'[g] = late[g]
    BY <1>1, <1>2, <1>6
  <2>2. LateOK'
    BY <1>6, <2>1 DEF ProviderInv, LateOK
  <2>3. TypeOK' /\ EntriesInScope'
    BY <1>1, <1>5, <2>1 DEF ProviderInv, TypeOK, Grows, EntriesInScope
  <2> QED
    BY <2>2, <2>3
<1>8. \A c \in Clients : CallOK(c)' /\ AnswerOK(c)'
  BY <1>1, <1>5, KnowledgeKept
<1> QED
  BY <1>7, <1>8 DEF ProviderInv

(* The start of an operation.                                              *)
Started(c) ==
  \E op \in Ops, i \in SUBSET Invoices, e \in SUBSET Evidence, n \in 0..MaxEntries :
    Start(c, op, i, e, n)

LEMMA BeginKeeps ==
  ASSUME ProviderInv, NEW c \in Clients, Begin(c)
  PROVE  ProviderInv'
<1>0. 0 \in 0..MaxEntries /\ EntryIds \subseteq 0..MaxEntries
  BY ProviderAssumption DEF EntryIds
<1> USE DEF Ops, Started
<1>1. Started(c)
  <2>1. ASSUME NEW i \in Invoices, Start(c, "create", {i}, {}, 0) PROVE  Started(c)
    BY <1>0, <2>1
  <2>2. ASSUME Start(c, "list", {}, {}, 0) PROVE  Started(c)
    BY <1>0, <2>2
  <2>3. ASSUME NEW i \in Invoices, NEW op \in {"post", "cancel", "reconcile_post"},
               Start(c, op, {i}, {}, 0)
        PROVE  Started(c)
    BY <1>0, <2>3
  <2>4. ASSUME NEW i \in Invoices, NEW e \in Evidence, Start(c, "pay", {i}, {e}, 0)
        PROVE  Started(c)
    BY <1>0, <2>4
  <2>5. ASSUME NEW e \in Evidence, Start(c, "reconcile_payment", {}, {e}, 0)
        PROVE  Started(c)
    BY <1>0, <2>5
  <2>6. ASSUME NEW n \in EntryIds, Start(c, "reverse", {}, {}, n) PROVE  Started(c)
    BY <1>0, <2>6
  <2> QED
    BY <2>1, <2>2, <2>3, <2>4, <2>5, <2>6 DEF Begin, Named, Entered
<1> QED
  BY <1>1, StartKeeps DEF Started

-----------------------------------------------------------------------------
(* Requests.                                                               *)

(* One that takes effect: it goes on in a way that keeps the invariant, or *)
(* is lost.                                                                *)
LEMMA EffectKeeps ==
  ASSUME ProviderInv, Grows, NEW c \in Clients, NEW n \in 0..MaxEntries,
         NEW out \in {"DONE", "REF", "REV"}, Effect(c, Ends(c, out, n)),
         out = "REF" => n \in EntryIds /\ entry'[n].status \in EverPosted,
         out = "REV" => n \in EntryIds /\ entry'[n].status = "CANCELLED"
  PROVE  ProviderInv'
<1>1. CASE Ends(c, out, n) /\ Answered
  BY <1>1, AnsweredAround, EndsKeeps DEF Outcomes
<1>2. CASE Lost(c) /\ UNCHANGED late
  BY <1>2, LostKeeps
<1> QED
  BY <1>1, <1>2 DEF Effect

(* One that only reads, and goes on or ends.                               *)
LEMMA ReadContinues ==
  ASSUME ProviderInv, NEW c \in Clients, call[c].op # "idle",
         NEW at \in 1..5, NEW n \in 0..MaxEntries, Read(Continues(c, at, n)),
         ~(call[c].op = "post" /\ at = 3),
         call[c].op = "pay" /\ at \in {3, 4, 5} => call[c].invoice \subseteq InScope,
         call[c].op = "pay" => at # 5,
         call[c].op = "reconcile_payment" /\ at = 2 =>
           n \in EntryIds /\ entry[n].status \in EverPosted
  PROVE  ProviderInv'
<1>1. Continues(c, at, n) /\ Answered /\ UNCHANGED <<invoice, entry>>
  BY DEF Read, db
<1> QED
  BY <1>1, NoEffect, AnsweredAround, ContinuesKeeps

LEMMA ReadEnds ==
  ASSUME ProviderInv, NEW c \in Clients, NEW n \in 0..MaxEntries,
         NEW out \in {"DONE", "POSTED", "REF"}, Read(Ends(c, out, n)),
         out = "POSTED" => \A i \in call[c].invoice : invoice[i] \in EverPosted,
         out = "REF" => n \in EntryIds /\ entry[n].status \in EverPosted
  PROVE  ProviderInv'
<1>1. Ends(c, out, n) /\ Answered /\ UNCHANGED <<invoice, entry>>
  BY DEF Read, db
<1> QED
  BY <1>1, NoEffect, AnsweredAround, EndsKeeps DEF Outcomes

(* create_draft_invoice.                                                   *)
LEMMA CreateKeeps ==
  ASSUME ProviderInv, NEW c \in Clients, NEW i \in Invoices, CreateDraft(c, i)
  PROVE  ProviderInv'
<1>1. Drafts(i) /\ Effect(c, Ends(c, "DONE", 0)) /\ 0 \in 0..MaxEntries
  BY ProviderAssumption DEF CreateDraft, Effect
<1> QED
  BY <1>1, InvoiceWrites, EffectKeeps

(* post_invoice: what it reads back was posted by itself or before.        *)
LEMMA PostKeeps ==
  ASSUME ProviderInv, NEW c \in Clients, NEW i \in Invoices,
         PostReads(c, i) \/ PostSubmits(c, i) \/ PostReadsBack(c, i)
         \/ ReconcilePost(c, i)
  PROVE  ProviderInv'
<1>0. 0 \in 0..MaxEntries /\ "POSTED" \in EverPosted
  BY ProviderAssumption DEF EverPosted
<1>1. CASE PostReads(c, i)
  <2>1. call[c].op = "post" /\ call[c].invoice = {i}
    BY <1>1 DEF PostReads, At
  <2>2. CASE invoice[i] = "POSTED"
    <3>1. Read(Ends(c, "POSTED", 0))
      BY <1>1, <2>2 DEF PostReads, Read
    <3> QED
      BY <1>0, <2>1, <2>2, <3>1, ReadEnds
  <2>3. CASE invoice[i] = "DRAFT"
    <3>1. Read(Continues(c, 2, 0))
      BY <1>1, <2>3 DEF PostReads, Read
    <3> QED
      BY <1>0, <2>1, <3>1, ReadContinues
  <2>4. CASE invoice[i] \notin {"POSTED", "DRAFT"}
    <3>1. Read(IsRejected(c))
      BY <1>1, <2>4 DEF PostReads, Read
    <3> QED
      BY <3>1, ReadRejects
  <2> QED
    BY <2>2, <2>3, <2>4
<1>2. CASE PostSubmits(c, i)
  <2>1. call[c].op = "post" /\ call[c].invoice = {i}
    BY <1>2 DEF PostSubmits, At
  <2>2. CASE Submits(i) /\ Continues(c, 3, 0) /\ Answered
    BY <1>0, <2>1, <2>2, InvoiceWrites, AnsweredAround, ContinuesKeeps
  <2>3. CASE Submits(i) /\ Lost(c) /\ UNCHANGED late
    BY <2>3, InvoiceWrites, LostKeeps
  <2> QED
    BY <1>2, <2>2, <2>3, ReadRejects DEF PostSubmits, Effect
<1>3. CASE PostReadsBack(c, i)
  <2>1. call[c].op = "post" /\ call[c].at = 3 /\ Read(Ends(c, "POSTED", 0))
    BY <1>3 DEF PostReadsBack, At
  <2>2. \A j \in call[c].invoice : invoice[j] \in EverPosted
    BY <2>1 DEF ProviderInv, CallOK
  <2> QED
    BY <1>0, <2>1, <2>2, ReadEnds
<1>4. CASE ReconcilePost(c, i)
  <2>1. CASE invoice[i] = "POSTED"
    <3>1. Read(Ends(c, "POSTED", 0)) /\ call[c].invoice = {i}
      BY <1>4, <2>1 DEF ReconcilePost, Read
    <3> QED
      BY <1>0, <2>1, <3>1, ReadEnds
  <2>2. CASE invoice[i] # "POSTED"
    <3>1. Read(IsRejected(c))
      BY <1>4, <2>2 DEF ReconcilePost, Read
    <3> QED
      BY <3>1, ReadRejects
  <2> QED
    BY <2>1, <2>2
<1> QED
  BY <1>1, <1>2, <1>3, <1>4

(* cancel_invoice.                                                         *)
LEMMA CancelKeeps ==
  ASSUME ProviderInv, NEW c \in Clients, NEW i \in Invoices,
         CancelReads(c, i) \/ CancelDeletes(c, i) \/ CancelSubmitted(c, i)
  PROVE  ProviderInv'
<1>0. 0 \in 0..MaxEntries
  BY ProviderAssumption
<1>1. CASE CancelReads(c, i)
  <2>1. call[c].op = "cancel"
    BY <1>1 DEF CancelReads, At
  <2>2. Read(Continues(c, 2, 0)) \/ Read(Continues(c, 3, 0)) \/ Read(IsRejected(c))
    BY <1>1 DEF CancelReads, Read
  <2> QED
    BY <1>0, <2>1, <2>2, ReadContinues, ReadRejects
<1>2. CASE CancelDeletes(c, i)
  <2>1. (Deletes(i) /\ Effect(c, Ends(c, "DONE", 0))) \/ Read(IsRejected(c))
    BY <1>2 DEF CancelDeletes, Effect, Read
  <2> QED
    BY <1>0, <2>1, InvoiceWrites, EffectKeeps, ReadRejects
<1>3. CASE CancelSubmitted(c, i)
  <2>1. (Cancels(i) /\ Effect(c, Ends(c, "DONE", 0))) \/ Read(IsRejected(c))
    BY <1>3 DEF CancelSubmitted, Effect, Read
  <2> QED
    BY <1>0, <2>1, InvoiceWrites, EffectKeeps, ReadRejects
<1> QED
  BY <1>1, <1>2, <1>3

(* record_payment up to the creation of its entry: once it is read, the    *)
(* invoice is in scope.                                                    *)
LEMMA PayLooksKeeps ==
  ASSUME ProviderInv, NEW c \in Clients,
         PayReads(c) \/ \E e \in Evidence : PayLooksUp(c, e)
  PROVE  ProviderInv'
<1>0. 0 \in 0..MaxEntries
  BY ProviderAssumption
<1>1. ASSUME NEW e \in Evidence, PayLooksUp(c, e) PROVE ProviderInv'
  <2>1. call[c].op = "pay"
    BY <1>1 DEF PayLooksUp, At
  <2>2. Read(Continues(c, 2, 0)) \/ Read(IsRejected(c))
    BY <1>1 DEF PayLooksUp, Read
  <2> QED
    BY <1>0, <2>1, <2>2, ReadContinues, ReadRejects
<1>2. CASE At(c, "pay", 2) /\ ~Refused(c) /\ Read(Continues(c, 3, 0))
  <2>1. call[c].invoice \subseteq InScope /\ call[c].op = "pay"
    BY <1>2 DEF Refused, Readable, At
  <2> QED
    BY <1>0, <1>2, <2>1, ReadContinues
<1>3. CASE At(c, "pay", 3) /\ Read(Continues(c, 4, 0))
  <2>1. call[c].invoice \subseteq InScope /\ call[c].op = "pay"
    BY <1>3 DEF At, ProviderInv, CallOK
  <2> QED
    BY <1>0, <1>3, <2>1, ReadContinues
<1> QED
  BY <1>1, <1>2, <1>3 DEF PayReads

(* record_payment, the creation of the entry and its submission.           *)
LEMMA PayWritesKeep ==
  ASSUME ProviderInv, NEW c \in Clients, NEW i \in Invoices,
         PaySubmits(c, i) \/ \E n \in EntryIds : PayCreates(c, i, n)
  PROVE  ProviderInv'
<1>0. EntryIds \subseteq 0..MaxEntries
  BY DEF EntryIds
<1>1. ASSUME NEW n \in EntryIds, PayCreates(c, i, n) PROVE ProviderInv'
  <2>1. /\ call[c].op = "pay" /\ call[c].invoice = {i} /\ call[c].invoice \subseteq InScope
        /\ call[c].evidence \in SUBSET Evidence
    BY <1>1 DEF PayCreates, At, ProviderInv, CallOK, TypeOK, Call
  <2>2. CASE Enters(i, call[c].evidence, n) /\ Effect(c, Continues(c, 5, n))
    <3>1. Grows
      BY <2>1, <2>2, EnterGrows
    <3>2. CASE Continues(c, 5, n) /\ Answered
      BY <1>0, <2>1, <3>1, <3>2, AnsweredAround, ContinuesKeeps
    <3>3. CASE Lost(c) /\ UNCHANGED late
      BY <3>1, <3>3, LostKeeps
    <3> QED
      BY <2>2, <3>2, <3>3 DEF Effect
  <2>3. CASE Read(IsRejected(c))
    BY <2>3, ReadRejects
  <2> QED
    BY <1>1, <2>2, <2>3 DEF PayCreates
<1>2. CASE PaySubmits(c, i)
  <2> DEFINE n == call[c].entry
  <2>1. n \in EntryIds
    BY <1>2 DEF PaySubmits, At, ProviderInv, CallOK
  <2>2. (SubmitsPayment(i, n) /\ Effect(c, Ends(c, "REF", n))) \/ Read(IsRejected(c))
    BY <1>2 DEF PaySubmits, Effect, Read
  <2> HIDE DEF n
  <2> QED
    BY <1>0, <2>1, <2>2, PaymentWrites, EffectKeeps, ReadRejects
<1> QED
  BY <1>1, <1>2

(* reverse_payment.                                                        *)
LEMMA ReverseKeeps ==
  ASSUME ProviderInv, NEW c \in Clients, NEW n \in EntryIds,
         ReverseReads(c, n) \/ ReverseCancels(c, n)
  PROVE  ProviderInv'
<1>0. n \in 0..MaxEntries
  BY DEF EntryIds
<1>1. CASE ReverseReads(c, n)
  <2>1. call[c].op = "reverse"
    BY <1>1 DEF ReverseReads, At
  <2>2. Read(Continues(c, 2, n)) \/ Read(Continues(c, 3, n)) \/ Read(IsRejected(c))
    BY <1>1 DEF ReverseReads, Read
  <2> QED
    BY <1>0, <2>1, <2>2, ReadContinues, ReadRejects
<1>2. CASE ReverseCancels(c, n)
  <2>1. (CancelsPayment(n) /\ Effect(c, Ends(c, "REV", n))) \/ Read(IsRejected(c))
    BY <1>2 DEF ReverseCancels, Effect, Read
  <2> QED
    BY <1>0, <2>1, PaymentWrites, EffectKeeps, ReadRejects
<1> QED
  BY <1>1, <1>2

(* reconcile_payment, the lists, and the refused reads.                    *)
LEMMA OtherReadsKeep ==
  ASSUME ProviderInv, NEW c \in Clients,
         \/ ReadRefused(c) \/ ReconcilePaymentReads(c) \/ Lists(c)
         \/ \E e \in Evidence : ReconcilePaymentLists(c, e)
  PROVE  ProviderInv'
<1>0. 0 \in 0..MaxEntries /\ EntryIds \subseteq 0..MaxEntries
  BY ProviderAssumption DEF EntryIds
<1>1. CASE ReadRefused(c)
  BY <1>1, ReadRejects DEF ReadRefused
<1>2. CASE ReconcilePaymentReads(c)
  <2>1. /\ call[c].op = "reconcile_payment" /\ call[c].at = 2
        /\ Read(Ends(c, "REF", call[c].entry))
    BY <1>2 DEF ReconcilePaymentReads, At
  <2>2. call[c].entry \in EntryIds /\ entry[call[c].entry].status \in EverPosted
    BY <2>1 DEF ProviderInv, CallOK
  <2> QED
    BY <1>0, <2>1, <2>2, ReadEnds
<1>3. CASE Lists(c)
  BY <1>0, <1>3, ReadEnds DEF Lists
<1>4. ASSUME NEW e \in Evidence, ReconcilePaymentLists(c, e) PROVE ProviderInv'
  <2>1. call[c].op = "reconcile_payment"
    BY <1>4 DEF ReconcilePaymentLists, At
  <2>2. \/ Read(IsRejected(c))
        \/ \E n \in EntryIds : entry[n].status = "POSTED" /\ Read(Continues(c, 2, n))
    BY <1>4 DEF ReconcilePaymentLists
  <2>3. ASSUME NEW n \in EntryIds, entry[n].status = "POSTED", Read(Continues(c, 2, n))
        PROVE  ProviderInv'
    BY <1>0, <2>1, <2>3, ReadContinues DEF EverPosted
  <2> QED
    BY <2>2, <2>3, ReadRejects
<1> QED
  BY <1>1, <1>2, <1>3, <1>4

-----------------------------------------------------------------------------
(* The theorems.                                                           *)

(* At first nothing exists in scope and nobody is in a call.               *)
LEMMA ProviderInit == Init => ProviderInv
<1> SUFFICES ASSUME Init PROVE ProviderInv
  OBVIOUS
<1>1. NoEntry \in Entry
  BY DEF NoEntry, Entry, DocStatus
<1>2. TypeOK
  <2>1. invoice \in [Invoices -> DocStatus] /\ entry \in [EntryIds -> Entry]
    BY <1>1 DEF Init, DocStatus
  <2>2. faults \in 0..MaxFaults
    BY ProviderAssumption DEF Init
  <2> QED
    BY <2>1, <2>2, RestTypes DEF Init, TypeOK
<1>3. /\ \A c \in Clients : call[c] = Idle /\ answer[c] = NoAnswer
      /\ \A n \in EntryIds : entry[n] = NoEntry
      /\ \A f \in 1..MaxFaults : late[f] = Idle
  BY DEF Init
<1>4. \A c \in Clients : CallOK(c) /\ AnswerOK(c)
  BY <1>3 DEF CallOK, AnswerOK, Idle, NoAnswer
<1>5. EntriesInScope /\ LateOK
  BY <1>3 DEF EntriesInScope, LateOK, NoEntry, Idle
<1> QED
  BY <1>2, <1>4, <1>5 DEF ProviderInv

(* Every step keeps ProviderInv.                                           *)
LEMMA ProviderNext == ProviderInv /\ [Next]_vars => ProviderInv'
<1> SUFFICES ASSUME ProviderInv, [Next]_vars PROVE ProviderInv'
  OBVIOUS
<1>1. ASSUME NEW c \in Clients, Request(c) PROVE ProviderInv'
  BY <1>1, OtherReadsKeep, PayLooksKeeps, CreateKeeps, PostKeeps, CancelKeeps,
     PayWritesKeep, ReverseKeeps DEF Request
<1>2. ASSUME NEW c \in Clients, Progress(c) PROVE ProviderInv'
  BY <1>1, <1>2, SessionSteps, GivesUpKeeps DEF Progress
<1>3. CASE UNCHANGED vars
  <2>1. /\ UNCHANGED <<invoice, entry, loggedIn, session, call, answer, late, faults>>
    BY <1>3 DEF vars
  <2>2. TypeOK' /\ LateOK' /\ EntriesInScope'
    BY <2>1 DEF ProviderInv, TypeOK, LateOK, EntriesInScope
  <2>3. \A c \in Clients : CallOK(c)' /\ AnswerOK(c)'
    BY <2>1 DEF ProviderInv, CallOK, AnswerOK
  <2> QED
    BY <2>2, <2>3 DEF ProviderInv
<1> QED
  BY <1>2, <1>3, ExpiryKeeps, LandsKeeps, BeginKeeps DEF Next

(* ProviderInv is an invariant of the adapter, whatever its clients run.   *)
THEOREM ProviderInvariance == Spec => []ProviderInv
BY ProviderInit, ProviderNext, PTL DEF Spec

(* A document reported as done is done, for any number of clients and      *)
(* faults, whatever others did between the requests of the operation and   *)
(* whatever was given up and landed later.                                 *)
THEOREM AnswersHold == Spec => []AnswersAreTrue
<1>1. ProviderInv => AnswersAreTrue
  BY DEF ProviderInv, AnswerOK, AnswersAreTrue
<1> QED
  BY <1>1, ProviderInvariance, PTL

(* No payment is ever entered on an invoice outside the authorized scope,  *)
(* although the scope is checked two requests before the entry is created  *)
(* and the creation may land after its client gave up.                     *)
THEOREM ScopeHolds == Spec => []DocumentsInv
<1>1. ProviderInv => DocumentsInv
  BY DEF ProviderInv, DocumentsInv
<1> QED
  BY <1>1, ProviderInvariance, PTL

=============================================================================
