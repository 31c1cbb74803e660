------------------------ MODULE InvoicePostingProofs ------------------------
(***************************************************************************)
(* Safety of invoice posting, for any number of drafts, documents and      *)
(* settings versions. The invariant follows a document from its creation   *)
(* through an uncertain outcome to the read model.                         *)
(***************************************************************************)
EXTENDS InvoicePosting, TLAPS

(* A post in progress: its draft is neither posted nor awaiting a          *)
(* reconciliation, and its document is still a draft at the provider.      *)
CallInv ==
  call.at # "idle" =>
    /\ call.draft \in DraftIds /\ call.lines \in LineSets /\ call.version \in
       Versions
    /\ byDraft[call.draft] = NoDoc
    /\ pending[call.draft] = NoDoc
    /\ call.at = "created" =>
         /\ call.doc \in Docs
         /\ docs[call.doc].status = "DRAFT"
         /\ docs[call.doc].draft = call.draft

(* Drafts of the provider have no number, posted documents have one.       *)
DocInv ==
  \A r \in Docs :
    /\ docs[r].status \in {"NONE", "DRAFT"} => ~docs[r].official
    /\ docs[r].status = "POSTED" => docs[r].official
    /\ docs[r].status # "NONE" => docs[r].draft \in DraftIds

(* An uncertain post knows its document, which is in no read model yet and *)
(* was not cancelled.                                                      *)
PendingInv ==
  \A d \in DraftIds : pending[d] # NoDoc =>
    /\ docs[pending[d]].draft = d
    /\ docs[pending[d]].status \in {"DRAFT", "POSTED"}
    /\ byDraft[d] = NoDoc

(* Whoever has a number is the document its draft leads to.                *)
OfficialInv ==
  \A r \in Docs : docs[r].official =>
    byDraft[docs[r].draft] = r \/ pending[docs[r].draft] = r

(* The index of the read model and the read model agree.                   *)
IndexInv ==
  /\ \A d \in DraftIds : byDraft[d] # NoDoc => posted[byDraft[d]].status # "NONE"
  /\ \A r \in Docs : posted[r].status # "NONE" =>
       posted[r].draft \in DraftIds /\ byDraft[posted[r].draft] = r

PostingInv ==
  /\ InvoiceTypeOK /\ CallInv /\ DocInv /\ PendingInv /\ OfficialInv
  /\ IndexInv /\ ReadModelMatches

-----------------------------------------------------------------------------

(* The initial state satisfies the invariant.                              *)
LEMMA InitInv == Init => PostingInv
<1> SUFFICES ASSUME Init PROVE PostingInv
  OBVIOUS
<1> USE InvoiceAssumption DEF Init, DraftIds, Docs, Versions, NoDoc, NoDraft,
        NoLines, NotPosted, Idle, NoDraftState, NoInvoice
<1>1. InvoiceTypeOK
  BY DEF InvoiceTypeOK, Calls, DeliveryStatus, DraftState, InvoiceState, PostedState
<1>2. CallInv /\ DocInv /\ PendingInv /\ OfficialInv /\ IndexInv
  BY DEF CallInv, DocInv, PendingInv, OfficialInv, IndexInv
<1>3. ReadModelMatches
  BY DEF ReadModelMatches
<1> QED BY <1>1, <1>2, <1>3 DEF PostingInv

(* Giving a document another status keeps its other fields, and the other  *)
(* documents.                                                              *)
LEMMA StatusChange ==
  ASSUME docs \in [Docs -> InvoiceState], NEW r \in Docs,
         NEW st \in {"NONE", "DRAFT", "POSTED", "CANCELLED"},
         docs' = [docs EXCEPT ![r].status = st]
  PROVE  /\ docs' \in [Docs -> InvoiceState]
         /\ docs'[r].status = st
         /\ \A s \in Docs : s # r => docs'[s] = docs[s]
         /\ \A s \in Docs : /\ docs'[s].draft = docs[s].draft
                            /\ docs'[s].lines = docs[s].lines
                            /\ docs'[s].official = docs[s].official
BY DEF InvoiceState

(* The same for a document that is given its number.                       *)
LEMMA NumberAssigned ==
  ASSUME docs \in [Docs -> InvoiceState], NEW r \in Docs, AssignOfficial(r)
  PROVE  /\ docs' \in [Docs -> InvoiceState]
         /\ docs'[r].status = "POSTED" /\ docs'[r].official
         /\ \A s \in Docs : s # r => docs'[s] = docs[s]
         /\ \A s \in Docs : /\ docs'[s].draft = docs[s].draft
                            /\ docs'[s].lines = docs[s].lines
BY DEF AssignOfficial, InvoiceState

(* Freezing a snapshot adds one entry to the read model and its index.     *)
LEMMA Frozen ==
  ASSUME posted \in [Docs -> PostedState], byDraft \in [DraftIds -> Docs \cup
     {NoDoc}],
         NEW d \in DraftIds, NEW r \in Docs, NEW preview,
         preview.lines \in LineSets, preview.version \in Versions,
         Freeze(d, r, preview)
  PROVE  /\ posted' \in [Docs -> PostedState]
         /\ byDraft' \in [DraftIds -> Docs \cup {NoDoc}]
         /\ posted'[r].status = "POSTED" /\ posted'[r].draft = d
         /\ \A s \in Docs : s # r => posted'[s] = posted[s]
         /\ byDraft'[d] = r
         /\ \A e \in DraftIds : e # d => byDraft'[e] = byDraft[e]
BY DEF Freeze, PostedState

(* Every step keeps the invariant. The steps that leave the provider's     *)
(* documents and the read model alone come first.                          *)
LEMMA NextInv == PostingInv /\ [Next]_vars => PostingInv'
<1> SUFFICES ASSUME PostingInv, [Next]_vars PROVE PostingInv'
  OBVIOUS
<1> USE InvoiceAssumption DEF PostingInv, NoDoc, NoDraft, NoLines
<1>0. 0 \notin Docs /\ 0 \notin DraftIds
  BY DEF Docs, DraftIds
<1>1. ASSUME NEW a \in Actors, NEW d \in DraftIds, OpenDraft(a, d) PROVE PostingInv'
  <2>1. InvoiceTypeOK'
    BY <1>1 DEF InvoiceTypeOK, OpenDraft, postVars, DraftState
  <2> QED BY <1>0, <1>1, <2>1 DEF OpenDraft, postVars,
         CallInv, DocInv, PendingInv, OfficialInv, IndexInv, ReadModelMatches
<1>2. ASSUME NEW d \in DraftIds, NEW lines \in LineSets, SetLines(d, lines)
   PROVE PostingInv'
  <2>1. InvoiceTypeOK'
    BY <1>2 DEF InvoiceTypeOK, SetLines, postVars, DraftState
  <2> QED BY <1>0, <1>2, <2>1 DEF SetLines, postVars,
         CallInv, DocInv, PendingInv, OfficialInv, IndexInv, ReadModelMatches
<1>3. ASSUME NEW d \in DraftIds, CancelDraft(d) PROVE PostingInv'
  <2>1. InvoiceTypeOK'
    BY <1>3 DEF InvoiceTypeOK, CancelDraft, postVars, DraftState
  <2> QED BY <1>0, <1>3, <2>1 DEF CancelDraft, postVars,
         CallInv, DocInv, PendingInv, OfficialInv, IndexInv, ReadModelMatches
<1>4. ASSUME ActivateSettings PROVE PostingInv'
  <2>1. InvoiceTypeOK'
    BY <1>4 DEF InvoiceTypeOK, ActivateSettings, postVars, Versions
  <2> QED BY <1>0, <1>4, <2>1 DEF ActivateSettings, postVars,
         CallInv, DocInv, PendingInv, OfficialInv, IndexInv, ReadModelMatches
<1>5. ASSUME NEW r \in Docs, NEW c \in Channels,
             NEW result \in {"FAILED_RETRYABLE", "SENT"}, EnqueueDelivery(r, c,
                result)
      PROVE PostingInv'
  <2>1. InvoiceTypeOK'
    BY <1>5 DEF InvoiceTypeOK, EnqueueDelivery, postVars, DeliveryStatus
  <2> QED BY <1>0, <1>5, <2>1 DEF EnqueueDelivery, postVars,
         CallInv, DocInv, PendingInv, OfficialInv, IndexInv, ReadModelMatches
<1>6. ASSUME CreateRejected \/ PostRaises PROVE PostingInv'
  <2>1. InvoiceTypeOK'
    BY <1>6 DEF InvoiceTypeOK, CreateRejected, PostRaises, Idle, postVars, Calls
  <2> QED BY <1>0, <1>6, <2>1 DEF CreateRejected, PostRaises, Idle, postVars,
         CallInv, DocInv, PendingInv, OfficialInv, IndexInv, ReadModelMatches
<1>7. ASSUME NEW a \in Posters, NEW d \in DraftIds, Post(a, d) PROVE PostingInv'
  <2>1. /\ call' = [at |-> "verified", draft |-> d, lines |-> drafts[d].lines,
                    version |-> version, doc |-> NoDoc]
        /\ UNCHANGED <<drafts, version, posted, byDraft, pending, docs, deliveries>>
        /\ byDraft[d] = NoDoc /\ pending[d] = NoDoc
    BY <1>7 DEF Post, StartPost, postVars
  <2>2. drafts[d].lines \in LineSets /\ version \in Versions
    BY <1>7 DEF Post, StartPost, MayPresent, InvoiceTypeOK, DraftState
  <2>3. InvoiceTypeOK'
    BY <2>1, <2>2 DEF InvoiceTypeOK, Calls
  <2>4. CallInv'
    BY <2>1, <2>2 DEF CallInv
  <2> QED BY <2>1, <2>3, <2>4 DEF DocInv, PendingInv, OfficialInv, IndexInv,
     ReadModelMatches
<1>8. ASSUME NEW r \in Docs, CreateDraftInvoice(r) PROVE PostingInv'
  <2>1. InvoiceTypeOK'
    BY <1>0, <1>8 DEF CreateDraftInvoice, IsNext,
       postVars, InvoiceTypeOK, Calls, InvoiceState, DraftState, CallInv
  <2>2. CallInv'
    BY <1>0, <1>8 DEF CreateDraftInvoice, IsNext,
       postVars, InvoiceTypeOK, InvoiceState, PostedState, CallInv, DocInv,
       PendingInv
  <2>3. DocInv'
    BY <1>0, <1>8 DEF CreateDraftInvoice, IsNext,
       postVars, InvoiceTypeOK, InvoiceState, PostedState, CallInv, DocInv
  <2>4. PendingInv'
    BY <1>0, <1>8 DEF CreateDraftInvoice, IsNext,
       postVars, InvoiceTypeOK, InvoiceState, PostedState, CallInv, DocInv,
       PendingInv, OfficialInv, IndexInv, ReadModelMatches
  <2>5. OfficialInv'
    BY <1>0, <1>8 DEF CreateDraftInvoice, IsNext,
       postVars, InvoiceTypeOK, InvoiceState, PostedState, CallInv, DocInv,
       PendingInv, OfficialInv
  <2>6. IndexInv'
    BY <1>0, <1>8 DEF CreateDraftInvoice, IsNext,
       postVars, InvoiceTypeOK, InvoiceState, PostedState, CallInv, DocInv,
       PendingInv, IndexInv, ReadModelMatches
  <2>7. ReadModelMatches'
    BY <1>0, <1>8 DEF CreateDraftInvoice, IsNext,
       postVars, InvoiceTypeOK, InvoiceState, PostedState, CallInv, DocInv,
       PendingInv, ReadModelMatches, IndexInv
  <2> QED BY <2>1, <2>2, <2>3, <2>4, <2>5, <2>6, <2>7
<1>9. ASSUME PostSucceeds PROVE PostingInv'
  <2>1. /\ call.draft \in DraftIds /\ call.doc \in Docs
        /\ call.lines \in LineSets /\ call.version \in Versions
        /\ docs[call.doc].status = "DRAFT" /\ docs[call.doc].draft = call.draft
        /\ byDraft[call.draft] = NoDoc /\ pending[call.draft] = NoDoc
        /\ ~docs[call.doc].official
    BY <1>9 DEF PostSucceeds, CallInv, DocInv
  <2>2. call' \in Calls /\ call'.at = "idle"
    BY <1>9 DEF PostSucceeds, Idle, Calls
  <2>3. AssignOfficial(call.doc) /\ Freeze(call.draft, call.doc, call)
    BY <1>9 DEF PostSucceeds
  <2>4. UNCHANGED <<drafts, version, pending, deliveries>>
    BY <1>9 DEF PostSucceeds
  <2>5. /\ docs' \in [Docs -> InvoiceState]
        /\ docs'[call.doc].status = "POSTED" /\ docs'[call.doc].official
        /\ \A s \in Docs : s # call.doc => docs'[s] = docs[s]
        /\ \A s \in Docs : docs'[s].draft = docs[s].draft /\ docs'[s].lines =
           docs[s].lines
    BY <2>1, <2>3, NumberAssigned DEF InvoiceTypeOK
  <2>6. /\ posted' \in [Docs -> PostedState]
        /\ byDraft' \in [DraftIds -> Docs \cup {NoDoc}]
        /\ posted'[call.doc].status = "POSTED" /\ posted'[call.doc].draft =
           call.draft
        /\ \A s \in Docs : s # call.doc => posted'[s] = posted[s]
        /\ byDraft'[call.draft] = call.doc
        /\ \A e \in DraftIds : e # call.draft => byDraft'[e] = byDraft[e]
    BY <2>1, <2>3, Frozen DEF InvoiceTypeOK
  <2>7. InvoiceTypeOK'
    BY <1>0, <2>1, <2>2, <2>4, <2>5, <2>6 DEF InvoiceTypeOK
  <2>8. CallInv'
    BY <1>0, <2>1, <2>2, <2>4, <2>5, <2>6 DEF InvoiceTypeOK, CallInv
  <2>9. DocInv'
    BY <1>0, <2>1, <2>2, <2>4, <2>5, <2>6 DEF InvoiceTypeOK, DocInv
  <2>10. PendingInv'
    BY <1>0, <2>1, <2>2, <2>4, <2>5, <2>6 DEF InvoiceTypeOK, PendingInv,
       IndexInv, CallInv, DocInv, OfficialInv, ReadModelMatches
  <2>11. OfficialInv'
    BY <1>0, <2>1, <2>2, <2>4, <2>5, <2>6 DEF InvoiceTypeOK, DocInv,
       OfficialInv, PendingInv, IndexInv
  <2>12. IndexInv'
    <3>1. ASSUME NEW e \in DraftIds, byDraft'[e] # NoDoc
          PROVE  posted'[byDraft'[e]].status # "NONE"
      <4>1. byDraft'[e] \in Docs
        BY <3>1, <1>0, <2>1, <2>2, <2>4, <2>5, <2>6 DEF InvoiceTypeOK
      <4>2. CASE byDraft'[e] = call.doc
        BY <4>2, <1>0, <2>1, <2>2, <2>4, <2>5, <2>6
      <4>3. CASE byDraft'[e] # call.doc
        BY <3>1, <4>1, <4>3, <1>0, <2>1, <2>2, <2>4, <2>5, <2>6 DEF IndexInv
      <4> QED BY <4>2, <4>3
    <3>2. ASSUME NEW s \in Docs, posted'[s].status # "NONE"
          PROVE  posted'[s].draft \in DraftIds /\ byDraft'[posted'[s].draft] = s
      BY <3>2, <1>0, <2>1, <2>2, <2>4, <2>5, <2>6 DEF IndexInv
    <3> QED BY <3>1, <3>2 DEF IndexInv
  <2>13. ReadModelMatches'
    BY <1>0, <2>1, <2>2, <2>4, <2>5, <2>6 DEF InvoiceTypeOK, ReadModelMatches,
       IndexInv, DocInv
  <2> QED BY <2>7, <2>8, <2>9, <2>10, <2>11, <2>12, <2>13
<1>10. ASSUME PostRejected PROVE PostingInv'
  <2>1. /\ call.draft \in DraftIds /\ call.doc \in Docs
        /\ call.lines \in LineSets /\ call.version \in Versions
        /\ docs[call.doc].status = "DRAFT" /\ docs[call.doc].draft = call.draft
        /\ byDraft[call.draft] = NoDoc /\ pending[call.draft] = NoDoc
        /\ ~docs[call.doc].official
    BY <1>10 DEF PostRejected, CallInv, DocInv
  <2>2. call' \in Calls /\ call'.at = "idle"
    BY <1>10 DEF PostRejected, Idle, Calls
  <2>3. UNCHANGED <<drafts, version, posted, byDraft, pending, deliveries>>
    BY <1>10 DEF PostRejected, postVars
  <2>4. /\ docs' \in [Docs -> InvoiceState]
        /\ docs'[call.doc].status \in {"DRAFT", "CANCELLED"}
        /\ \A s \in Docs : s # call.doc => docs'[s] = docs[s]
        /\ \A s \in Docs : /\ docs'[s].draft = docs[s].draft
                           /\ docs'[s].lines = docs[s].lines
                           /\ docs'[s].official = docs[s].official
    BY <1>10, <2>1, StatusChange DEF PostRejected, CleanUp, InvoiceTypeOK
  <2>5. InvoiceTypeOK'
    BY <1>0, <2>1, <2>2, <2>3, <2>4 DEF InvoiceTypeOK
  <2>6. CallInv'
    BY <1>0, <2>1, <2>2, <2>3, <2>4 DEF InvoiceTypeOK, CallInv
  <2>7. DocInv'
    BY <1>0, <2>1, <2>2, <2>3, <2>4 DEF InvoiceTypeOK, DocInv
  <2>8. PendingInv'
    BY <1>0, <2>1, <2>2, <2>3, <2>4 DEF InvoiceTypeOK, PendingInv, IndexInv,
       CallInv, DocInv, OfficialInv, ReadModelMatches
  <2>9. OfficialInv'
    BY <1>0, <2>1, <2>2, <2>3, <2>4 DEF InvoiceTypeOK, DocInv, OfficialInv,
       PendingInv, IndexInv
  <2>10. IndexInv'
    BY <1>0, <2>1, <2>2, <2>3, <2>4 DEF InvoiceTypeOK, IndexInv
  <2>11. ReadModelMatches'
    BY <1>0, <2>1, <2>2, <2>3, <2>4 DEF InvoiceTypeOK, ReadModelMatches,
       IndexInv, DocInv
  <2> QED BY <2>5, <2>6, <2>7, <2>8, <2>9, <2>10, <2>11
<1>11. ASSUME NEW applied \in BOOLEAN, PostUncertain(applied) PROVE PostingInv'
  <2>1. /\ call.draft \in DraftIds /\ call.doc \in Docs
        /\ call.lines \in LineSets /\ call.version \in Versions
        /\ docs[call.doc].status = "DRAFT" /\ docs[call.doc].draft = call.draft
        /\ byDraft[call.draft] = NoDoc /\ pending[call.draft] = NoDoc
        /\ ~docs[call.doc].official
    BY <1>11 DEF PostUncertain, CallInv, DocInv
  <2>2. call' \in Calls /\ call'.at = "idle"
    BY <1>11 DEF PostUncertain, Idle, Calls
  <2>3. /\ UNCHANGED <<drafts, version, posted, byDraft, deliveries>>
        /\ pending' = [pending EXCEPT ![call.draft] = call.doc]
    BY <1>11 DEF PostUncertain
  <2>4. /\ docs' \in [Docs -> InvoiceState]
        /\ \/ docs'[call.doc].status = "POSTED" /\ docs'[call.doc].official
           \/ docs'[call.doc] = docs[call.doc]
        /\ \A s \in Docs : s # call.doc => docs'[s] = docs[s]
        /\ \A s \in Docs : docs'[s].draft = docs[s].draft /\ docs'[s].lines =
           docs[s].lines
    BY <1>11, <2>1, NumberAssigned DEF PostUncertain, InvoiceTypeOK
  <2>5. InvoiceTypeOK'
    BY <1>0, <2>1, <2>2, <2>3, <2>4 DEF InvoiceTypeOK
  <2>6. CallInv'
    BY <1>0, <2>1, <2>2, <2>3, <2>4 DEF InvoiceTypeOK, CallInv
  <2>7. DocInv'
    BY <1>0, <2>1, <2>2, <2>3, <2>4 DEF InvoiceTypeOK, DocInv
  <2>8. PendingInv'
    BY <1>0, <2>1, <2>2, <2>3, <2>4 DEF InvoiceTypeOK, PendingInv, IndexInv,
       CallInv, DocInv, OfficialInv, ReadModelMatches
  <2>9. OfficialInv'
    BY <1>0, <2>1, <2>2, <2>3, <2>4 DEF InvoiceTypeOK, DocInv, OfficialInv,
       PendingInv, IndexInv
  <2>10. IndexInv'
    BY <1>0, <2>1, <2>2, <2>3, <2>4 DEF InvoiceTypeOK, IndexInv
  <2>11. ReadModelMatches'
    BY <1>0, <2>1, <2>2, <2>3, <2>4 DEF InvoiceTypeOK, ReadModelMatches,
       IndexInv, DocInv
  <2> QED BY <2>5, <2>6, <2>7, <2>8, <2>9, <2>10, <2>11
<1>12. ASSUME NEW a \in Posters, NEW d \in DraftIds, ReconcilePost(a, d),
             docs[pending[d]].status = "POSTED" PROVE PostingInv'
  <2>1. /\ pending[d] \in Docs /\ call' = call /\ call.at = "idle"
        /\ docs[pending[d]].draft = d /\ byDraft[d] = NoDoc
        /\ posted[pending[d]].status = "NONE"
    BY <1>0, <1>12 DEF ReconcilePost, ReconcileDocument, PendingInv,
       ReadModelMatches,
       IndexInv, InvoiceTypeOK, Idle
  <2>2. /\ UNCHANGED <<drafts, version, deliveries>>
        /\ pending' = [pending EXCEPT ![d] = NoDoc]
    BY <1>12 DEF ReconcilePost, ReconcileDocument
  <2>3. Freeze(d, pending[d], [lines |-> drafts[d].lines, version |-> version])
        /\ docs' = docs
    BY <1>12 DEF ReconcilePost, ReconcileDocument
  <2>4. drafts[d].lines \in LineSets /\ version \in Versions
    BY <1>12 DEF ReconcilePost, ReconcileDocument, MayPresent, InvoiceTypeOK,
       DraftState
  <2>5. /\ posted' \in [Docs -> PostedState]
        /\ byDraft' \in [DraftIds -> Docs \cup {NoDoc}]
        /\ posted'[pending[d]].status = "POSTED" /\ posted'[pending[d]].draft = d
        /\ \A s \in Docs : s # pending[d] => posted'[s] = posted[s]
        /\ byDraft'[d] = pending[d]
        /\ \A e \in DraftIds : e # d => byDraft'[e] = byDraft[e]
    BY <2>1, <2>3, <2>4, Frozen DEF InvoiceTypeOK
  <2>6. InvoiceTypeOK'
    BY <1>12, <1>0, <2>1, <2>2, <2>3, <2>5 DEF InvoiceTypeOK
  <2>7. CallInv'
    BY <1>12, <1>0, <2>1, <2>2, <2>3, <2>5 DEF InvoiceTypeOK, CallInv
  <2>8. DocInv'
    BY <1>12, <1>0, <2>1, <2>2, <2>3, <2>5 DEF InvoiceTypeOK, DocInv
  <2>9. PendingInv'
    BY <1>12, <1>0, <2>1, <2>2, <2>3, <2>5 DEF InvoiceTypeOK, PendingInv,
       IndexInv, CallInv, DocInv, OfficialInv, ReadModelMatches
  <2>10. OfficialInv'
    BY <1>12, <1>0, <2>1, <2>2, <2>3, <2>5 DEF InvoiceTypeOK, DocInv,
       OfficialInv, PendingInv, IndexInv
  <2>11. IndexInv'
    BY <1>12, <1>0, <2>1, <2>2, <2>3, <2>5 DEF InvoiceTypeOK, IndexInv
  <2>12. ReadModelMatches'
    BY <1>12, <1>0, <2>1, <2>2, <2>3, <2>5 DEF InvoiceTypeOK, ReadModelMatches,
       IndexInv, DocInv
  <2> QED BY <2>6, <2>7, <2>8, <2>9, <2>10, <2>11, <2>12
<1>13. ASSUME NEW a \in Posters, NEW d \in DraftIds, ReconcilePost(a, d),
             docs[pending[d]].status # "POSTED" PROVE PostingInv'
  <2>1. /\ pending[d] \in Docs /\ call' = call /\ call.at = "idle"
        /\ docs[pending[d]].draft = d /\ byDraft[d] = NoDoc
        /\ posted[pending[d]].status = "NONE"
    BY <1>0, <1>13 DEF ReconcilePost, ReconcileDocument, PendingInv,
       ReadModelMatches,
       IndexInv, InvoiceTypeOK, Idle
  <2>2. /\ UNCHANGED <<drafts, version, deliveries>>
        /\ pending' = [pending EXCEPT ![d] = NoDoc]
    BY <1>13 DEF ReconcilePost, ReconcileDocument
  <2>3. UNCHANGED <<posted, byDraft>> /\ CleanUp(pending[d])
    BY <1>13 DEF ReconcilePost, ReconcileDocument
  <2>4. docs[pending[d]].status = "DRAFT" /\ ~docs[pending[d]].official
    BY <1>0, <1>13, <2>1 DEF PendingInv, DocInv
  <2>5. /\ docs' \in [Docs -> InvoiceState]
        /\ docs'[pending[d]].status \in {"DRAFT", "CANCELLED"}
        /\ \A s \in Docs : s # pending[d] => docs'[s] = docs[s]
        /\ \A s \in Docs : /\ docs'[s].draft = docs[s].draft
                           /\ docs'[s].lines = docs[s].lines
                           /\ docs'[s].official = docs[s].official
    BY <2>1, <2>3, <2>4, StatusChange DEF CleanUp, InvoiceTypeOK
  <2>6. InvoiceTypeOK'
    BY <1>0, <2>1, <2>2, <2>3, <2>4, <2>5 DEF InvoiceTypeOK
  <2>7. CallInv'
    BY <1>0, <2>1, <2>2, <2>3, <2>4, <2>5 DEF InvoiceTypeOK, CallInv
  <2>8. DocInv'
    BY <1>0, <2>1, <2>2, <2>3, <2>4, <2>5 DEF InvoiceTypeOK, DocInv
  <2>9. PendingInv'
    BY <1>0, <2>1, <2>2, <2>3, <2>4, <2>5 DEF InvoiceTypeOK, PendingInv,
       IndexInv, CallInv, DocInv, OfficialInv, ReadModelMatches
  <2>10. OfficialInv'
    BY <1>0, <2>1, <2>2, <2>3, <2>4, <2>5 DEF InvoiceTypeOK, DocInv,
       OfficialInv, PendingInv, IndexInv
  <2>11. IndexInv'
    BY <1>0, <2>1, <2>2, <2>3, <2>4, <2>5 DEF InvoiceTypeOK, IndexInv
  <2>12. ReadModelMatches'
    BY <1>0, <2>1, <2>2, <2>3, <2>4, <2>5 DEF InvoiceTypeOK, ReadModelMatches,
       IndexInv, DocInv
  <2> QED BY <2>6, <2>7, <2>8, <2>9, <2>10, <2>11, <2>12
<1>14. ASSUME NEW r \in Docs, CancelPosted(r) PROVE PostingInv'
  <2>1. /\ posted[r].status = "POSTED" /\ docs[r].status = "POSTED"
        /\ call' = call /\ call.at = "idle"
        /\ UNCHANGED <<drafts, version, byDraft, pending, deliveries>>
    BY <1>14 DEF CancelPosted, Idle, ReadModelMatches
  <2>2. /\ docs' \in [Docs -> InvoiceState]
        /\ docs'[r].status = "CANCELLED"
        /\ \A s \in Docs : s # r => docs'[s] = docs[s]
        /\ \A s \in Docs : /\ docs'[s].draft = docs[s].draft
                           /\ docs'[s].lines = docs[s].lines
                           /\ docs'[s].official = docs[s].official
    BY <1>14, StatusChange DEF CancelPosted, InvoiceTypeOK
  <2>3. /\ posted' \in [Docs -> PostedState]
        /\ posted'[r].status = "CANCELLED"
        /\ \A s \in Docs : s # r => posted'[s] = posted[s]
        /\ \A s \in Docs : posted'[s].draft = posted[s].draft
    BY <1>14 DEF CancelPosted, InvoiceTypeOK, PostedState
  <2>4. InvoiceTypeOK'
    BY <1>0, <2>1, <2>2, <2>3 DEF InvoiceTypeOK
  <2>5. CallInv'
    BY <1>0, <2>1, <2>2, <2>3 DEF InvoiceTypeOK, CallInv
  <2>6. DocInv'
    BY <1>0, <2>1, <2>2, <2>3 DEF InvoiceTypeOK, DocInv
  <2>7. PendingInv'
    BY <1>0, <2>1, <2>2, <2>3 DEF InvoiceTypeOK, PendingInv, IndexInv, CallInv,
       DocInv, OfficialInv, ReadModelMatches
  <2>8. OfficialInv'
    BY <1>0, <2>1, <2>2, <2>3 DEF InvoiceTypeOK, DocInv, OfficialInv,
       PendingInv, IndexInv
  <2>9. IndexInv'
    <3>1. ASSUME NEW e \in DraftIds, byDraft'[e] # NoDoc
          PROVE  posted'[byDraft'[e]].status # "NONE"
      <4>1. byDraft'[e] \in Docs
        BY <3>1, <1>0, <2>1, <2>2, <2>3 DEF InvoiceTypeOK
      <4>2. CASE byDraft'[e] = r
        BY <4>2, <1>0, <2>1, <2>2, <2>3
      <4>3. CASE byDraft'[e] # r
        BY <3>1, <4>1, <4>3, <1>0, <2>1, <2>2, <2>3 DEF IndexInv
      <4> QED BY <4>2, <4>3
    <3>2. ASSUME NEW s \in Docs, posted'[s].status # "NONE"
          PROVE  posted'[s].draft \in DraftIds /\ byDraft'[posted'[s].draft] = s
      BY <3>2, <1>0, <2>1, <2>2, <2>3 DEF IndexInv
    <3> QED BY <3>1, <3>2 DEF IndexInv
  <2>10. ReadModelMatches'
    BY <1>0, <2>1, <2>2, <2>3 DEF InvoiceTypeOK, ReadModelMatches, IndexInv, DocInv
  <2> QED BY <2>4, <2>5, <2>6, <2>7, <2>8, <2>9, <2>10
<1>15. CASE UNCHANGED vars
  BY <1>15 DEF vars, InvoiceTypeOK, CallInv, DocInv, PendingInv, OfficialInv,
     IndexInv, ReadModelMatches
<1> QED BY <1>1, <1>2, <1>3, <1>4, <1>5, <1>6, <1>7, <1>8, <1>9, <1>10, <1>11,
   <1>12, <1>13, <1>14, <1>15 DEF Next

-----------------------------------------------------------------------------

(* The invariant holds in every reachable state.                           *)
THEOREM InvariantHolds == Spec => []PostingInv
BY InitInv, NextInv, PTL DEF Spec

(* Every document the workflow creates at the provider has lines, and the  *)
(* state of both workflows and of the provider is well typed.              *)
THEOREM TypeCorrect == Spec => []InvoiceTypeOK
<1>1. PostingInv => InvoiceTypeOK
  BY DEF PostingInv
<1> QED BY <1>1, InvariantHolds, PTL

(* A draft never gets a second official number: two numbered documents of  *)
(* one draft would both be what the draft leads to, and it leads to one.   *)
THEOREM PostedOnce == Spec => []DraftPostedOnce
<1>1. PostingInv => DraftPostedOnce
  <2> SUFFICES ASSUME PostingInv, NEW r \in Docs, NEW s \in Docs,
                      docs[r].official, docs[s].official, docs[r].draft =
                         docs[s].draft
               PROVE  r = s
    BY DEF DraftPostedOnce
  <2>1. docs[r].draft \in DraftIds
    BY DEF PostingInv, DocInv, InvoiceTypeOK, InvoiceState
  <2> QED BY <2>1, InvoiceAssumption
          DEF PostingInv, OfficialInv, PendingInv, InvoiceTypeOK, NoDoc, Docs
<1> QED BY <1>1, InvariantHolds, PTL

(* An invoice with a number is in the read model or awaits its             *)
(* reconciliation.                                                         *)
THEOREM NothingLost == Spec => []NoLostInvoice
<1>1. PostingInv => NoLostInvoice
  <2> SUFFICES ASSUME PostingInv, NEW r \in Docs, docs[r].official
               PROVE  posted[r].status # "NONE" \/ pending[docs[r].draft] = r
    BY DEF NoLostInvoice
  <2>1. docs[r].draft \in DraftIds
    BY DEF PostingInv, DocInv, InvoiceTypeOK, InvoiceState
  <2> QED BY <2>1, InvoiceAssumption
          DEF PostingInv, OfficialInv, IndexInv, NoDoc, Docs
<1> QED BY <1>1, InvariantHolds, PTL

(* The read model agrees with the provider about every invoice it shows.   *)
THEOREM ReadModelAgrees == Spec => []ReadModelMatches
<1>1. PostingInv => ReadModelMatches
  BY DEF PostingInv
<1> QED BY <1>1, InvariantHolds, PTL

(* A frozen snapshot never changes and a cancelled invoice stays           *)
(* cancelled: only post and reconcile_post freeze, and the document they   *)
(* freeze is in no read model yet.                                         *)
THEOREM SnapshotNeverChanges == Spec => SnapshotFrozen
<1> DEFINE Kept(r) ==
      posted[r].status # "NONE" =>
        /\ posted'[r].status # "NONE"
        /\ posted'[r].lines = posted[r].lines
        /\ posted'[r].version = posted[r].version
        /\ posted[r].status = "CANCELLED" => posted'[r].status = "CANCELLED"
<1>1. PostingInv /\ [Next]_vars => [\A r \in Docs : Kept(r)]_vars
  <2> SUFFICES ASSUME PostingInv, Next, NEW r \in Docs PROVE Kept(r)
    BY DEF vars
  <2> USE InvoiceAssumption DEF PostingInv, NoDoc
  <2>1. CASE UNCHANGED posted
    BY <2>1
  <2>2. CASE PostSucceeds
    <3>1. call.doc # r \/ posted[r].status = "NONE"
      BY <2>2 DEF PostSucceeds, CallInv, ReadModelMatches, IndexInv, Docs
    <3> QED BY <2>2, <3>1 DEF PostSucceeds, Freeze, InvoiceTypeOK
  <2>3. ASSUME NEW a \in Posters, NEW d \in DraftIds, ReconcilePost(a, d)
        PROVE Kept(r)
    <3>1. pending[d] # r \/ posted[r].status = "NONE"
      BY <2>3 DEF PendingInv, ReadModelMatches, IndexInv, Docs
    <3> QED BY <2>3, <3>1 DEF ReconcilePost, ReconcileDocument, Freeze,
       InvoiceTypeOK
  <2>4. ASSUME NEW s \in Docs, CancelPosted(s) PROVE Kept(r)
    BY <2>4 DEF CancelPosted, InvoiceTypeOK, PostedState
  <2> QED BY <2>1, <2>2, <2>3, <2>4 DEF Next, OpenDraft, SetLines, CancelDraft,
      ActivateSettings, Post, StartPost, CreateDraftInvoice,
      CreateRejected, PostRejected, PostUncertain,
      PostRaises, EnqueueDelivery, postVars
<1> QED BY <1>1, InvariantHolds, PTL DEF Spec, SnapshotFrozen

=============================================================================
