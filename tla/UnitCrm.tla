------------------------------ MODULE UnitCrm ------------------------------
(***************************************************************************)
(* The unit-private CRM port (src/src/crm/port.py) and its two adapters:   *)
(* the in-memory fixture (src/src/adapters/fixture_crm/__init__.py), every *)
(* call of which is one step, and the ERPNext adapter                      *)
(* (src/src/adapters/erpnext_crm/erpnext_crm_adapter.py), which checks,    *)
(* reads the lead over HTTP, decides, and then sends one write.  Other     *)
(* callers, roster changes and desk users act between those requests, and  *)
(* a write whose answer is lost may or may not have been applied.          *)
(*                                                                         *)
(* Leads and quotations are numbered in creation order, the order both     *)
(* adapters list them in.  Names, contacts' text, amounts and free-text    *)
(* filters are left out.                                                   *)
(***************************************************************************)
EXTENDS Integers, Sequences, FiniteSets, SequencesExt

CONSTANTS Clients,      \* threads using one adapter
          Actors,       \* actor references
          Units,        \* operating units
          Scope,        \* the ERPNext adapter's authorized scope
          Contacts,     \* contact identities (channel and handle)
          LeadNatives,  \* ERPNext Lead.status values the desk uses
          QuoteNatives, \* ERPNext Quotation.status values the desk uses
          Rosters,      \* rosters the office may start with
          Limits,       \* page sizes asked for
          Searches,     \* kinds and status filters of the walks that are made
          MaxLeads, MaxQuotes, MaxOutside, MaxWork   \* bounds

LeadStatuses == {"NEW", "QUALIFIED", "CONVERTED", "ARCHIVED"}
QuotationStatuses == {"DRAFT", "SENT", "ACCEPTED", "DECLINED", "EXPIRED"}

ASSUME CrmBounds ==
  /\ Limits \subseteq Nat \ {0}
  /\ Rosters \subseteq [Actors -> SUBSET Units]
  /\ Scope \subseteq Units
  /\ Searches \subseteq ({"LEAD"} \X (LeadStatuses \cup {"any"}))
                   \cup ({"QUOTATION"} \X (QuotationStatuses \cup {"any"}))
  /\ "LEAD" \in LeadNatives /\ "DRAFT" \in QuoteNatives
  /\ MaxLeads \in Nat /\ MaxQuotes \in Nat /\ MaxOutside \in Nat /\ MaxWork \in Nat

VARIABLES
  adapter,      \* "fixture" or "erpnext", fixed
  assigned,     \* the roster: actor -> units, shared by reference
  leads,        \* sequence of lead records
  quotations,   \* sequence of quotation records
  calls,        \* caller -> its ERPNext call, or its walk from page to page
  outside,      \* how often roster or desk changed something (bounded)
  everAssigned  \* history: actor -> units it was ever assigned to

crmVars == <<adapter, assigned, leads, quotations, calls, outside, everAssigned>>

NoUnit == "none"
NoCall == [pc |-> "idle"]
LeadRecord == [unit: Units, owner: Actors, contact: Contacts,
               native: LeadNatives, archived: BOOLEAN]
QuotationRecord == [unit: Units, lead: 1..MaxLeads, native: QuoteNatives]


-----------------------------------------------------------------------------
(* What a caller is shown *)

(* A lookup in a literal table, with the default of dict.get *)
Lookup(table, key, default) == IF key \in DOMAIN table THEN table[key] ELSE default

LeadTable == [LEAD |-> "NEW", OPEN |-> "NEW", REPLIED |-> "QUALIFIED",
              OPPORTUNITY |-> "QUALIFIED", QUOTATION |-> "QUALIFIED",
              CONVERTED |-> "CONVERTED", DO_NOT_DISTURB |-> "ARCHIVED",
              INTERESTED |-> "QUALIFIED"]

(* Contract status of a lead as read_lead and export show it *)
LeadStatus(lead) ==
  IF lead.archived THEN "ARCHIVED" ELSE Lookup(LeadTable, lead.native, "NEW")

QuotationTable == [OPEN |-> "SENT", ORDERED |-> "ACCEPTED", LOST |-> "DECLINED",
                   EXPIRED |-> "EXPIRED", CANCELLED |-> "DECLINED",
                   PARTIALLY_ORDERED |-> "SENT"]

(* ERPNext labels a quotation DRAFT exactly while its docstatus is 0 *)
QuotationStatus(quotation) ==
  IF quotation.native = "DRAFT" THEN "DRAFT"
  ELSE Lookup(QuotationTable, quotation.native, "EXPIRED")

(* Native label the search filter asks ERPNext for *)
LeadFilter == [NEW |-> "LEAD", QUALIFIED |-> "QUALIFIED", CONVERTED |-> "CONVERTED"]
QuotationFilter == [DRAFT |-> "DRAFT", SENT |-> "OPEN", ACCEPTED |-> "ORDERED",
                    DECLINED |-> "LOST", EXPIRED |-> "EXPIRED"]

(* Does a lead pass the status filter of a search? *)
LeadMatches(lead, status) ==
  \/ status = "any"
  \/ adapter = "fixture" /\ LeadStatus(lead) = status
  \/ /\ adapter = "erpnext"
     /\ IF status = "ARCHIVED" THEN lead.archived
        ELSE lead.native = LeadFilter[status] /\ ~lead.archived

QuotationMatches(quotation, status) ==
  \/ status = "any"
  \/ adapter = "fixture" /\ QuotationStatus(quotation) = status
  \/ adapter = "erpnext" /\ quotation.native = QuotationFilter[status]

(* The numbers of S up to n, in order *)
Ascending(S, n) ==
  LET f[k \in 0..n] == IF k = 0 THEN <<>>
                       ELSE IF k \in S THEN Append(f[k - 1], k) ELSE f[k - 1]
  IN f[n]

(* References a search matches, in listing order *)
ListedLeads(ls, unit, status) ==
  Ascending({l \in DOMAIN ls : ls[l].unit = unit /\ LeadMatches(ls[l], status)}, Len(ls))
ListedQuotations(qs, unit, status) ==
  Ascending({q \in DOMAIN qs : qs[q].unit = unit /\ QuotationMatches(qs[q], status)}, Len(qs))

(* Rows of an export: at most max of the unit's leads, as they read *)
Export(unit, max) ==
  LET all == ListedLeads(leads, unit, "any")
      n == IF Len(all) < max THEN Len(all) ELSE max
  IN [i \in 1..n |-> [reference |-> all[i], status |-> LeadStatus(leads[all[i]])]]

-----------------------------------------------------------------------------
(* Guards and writes *)

(* The actor is assigned to the active unit and, for ERPNext, in scope *)
Require(actor, unit) ==
  /\ unit \in assigned[actor]
  /\ adapter = "erpnext" => unit \in Scope

(* A reference of another unit is as good as absent *)
InScope(l, unit) == l \in DOMAIN leads /\ leads[l].unit = unit

(* The new owner is assigned to the target unit, which stays in scope *)
MayOwn(owner, target) ==
  target \in assigned[owner] /\ (adapter = "erpnext" => target \in Scope)

Matched(kind, ls, qs, unit, status) ==
  IF kind = "LEAD" THEN ListedLeads(ls, unit, status)
                   ELSE ListedQuotations(qs, unit, status)

Walked(walk, ls, qs) == Matched(walk.kind, ls, qs, walk.unit, walk.status)

Walking == {"page", "count"}

(* A write disturbs the walk in progress unless it only appends to what is  *)
(* being listed: offsets then no longer mean what they did, the port makes  *)
(* no promise about the rest of the walk, and the client starts over        *)
Undisturbed(call, ls, qs) ==
  CASE \/ call.pc \in Walking
          /\ ~IsPrefix(Walked(call, leads, quotations), Walked(call, ls, qs))
       \/ call.pc = "done" -> NoCall
    [] OTHER -> call

(* One write to the store; the calls in "mine" end with it *)
Put(ls, qs, mine) ==
  /\ leads' = ls /\ quotations' = qs
  /\ calls' = [c \in Clients |-> IF c \in mine THEN NoCall ELSE Undisturbed(calls[c], ls, qs)]
  /\ UNCHANGED <<adapter, assigned, everAssigned>>

Write(ls, qs, mine) == Put(ls, qs, mine) /\ UNCHANGED outside

NewLead(actor, unit, contact) ==
  [unit |-> unit, owner |-> actor, contact |-> contact, native |-> "LEAD",
   archived |-> FALSE]

AddLead(actor, unit, contact, mine) ==
  /\ Len(leads) < MaxLeads
  /\ Write(Append(leads, NewLead(actor, unit, contact)), quotations, mine)

AddQuotation(l, unit, mine) ==
  /\ Len(quotations) < MaxQuotes
  /\ Write(leads, Append(quotations, [unit |-> unit, lead |-> l, native |-> "DRAFT"]), mine)

(* Mutant of PutTransfer: only the owner is written, the unit stays *)
PutTransferOwner(l, owner, target, mine) ==
  Write([leads EXCEPT ![l].owner = owner], quotations, mine)

(* Owner and unit are written together, the other fields left alone *)
PutTransfer(l, owner, target, mine) ==
  Write([leads EXCEPT ![l].owner = owner, ![l].unit = target], quotations, mine)

PutArchive(l, mine) == Write([leads EXCEPT ![l].archived = TRUE], quotations, mine)

TargetUnit(new, own) == IF new = NoUnit THEN own ELSE new

-----------------------------------------------------------------------------
CrmInit ==
  /\ adapter \in {"fixture", "erpnext"}
  /\ assigned \in Rosters
  /\ leads = <<>> /\ quotations = <<>>
  /\ calls = [c \in Clients |-> NoCall]
  /\ outside = 0
  /\ everAssigned = assigned

(* Somebody grants or revokes an assignment under the adapters' feet *)
ChangeRoster(actor, unit) ==
  LET units == IF unit \in assigned[actor] THEN assigned[actor] \ {unit}
                                       ELSE assigned[actor] \cup {unit}
  IN /\ outside < MaxOutside
     /\ assigned' = [assigned EXCEPT ![actor] = units]
     /\ everAssigned' = [everAssigned EXCEPT ![actor] = @ \cup units]
     /\ outside' = outside + 1
     /\ UNCHANGED <<adapter, leads, quotations, calls>>

-----------------------------------------------------------------------------
(* The fixture: each call is one step *)

FixtureCreateLead(actor, unit, contact) ==
  /\ adapter = "fixture" /\ Require(actor, unit)
  /\ AddLead(actor, unit, contact, {})

FixtureTransferLead(actor, unit, l, owner, new) ==
  LET target == TargetUnit(new, leads[l].unit)
  IN /\ adapter = "fixture" /\ Require(actor, unit)
     /\ InScope(l, unit)
     /\ MayOwn(owner, target)
     /\ PutTransfer(l, owner, target, {})

FixtureArchiveLead(actor, unit, l) ==
  /\ adapter = "fixture" /\ Require(actor, unit)
  /\ InScope(l, unit)
  /\ PutArchive(l, {})

FixtureCreateQuotation(actor, unit, l) ==
  /\ adapter = "fixture" /\ Require(actor, unit)
  /\ InScope(l, unit)
  /\ AddQuotation(l, unit, {})

-----------------------------------------------------------------------------
(* ERPNext: check, read the lead, decide, send *)

Goto(c, call) ==
  /\ calls' = [calls EXCEPT ![c] = call]
  /\ UNCHANGED <<adapter, assigned, leads, quotations, outside, everAssigned>>

(* A bound: two writes race over one lead, or one write beside two leads *)
Free(c) ==
  /\ adapter = "erpnext" /\ calls[c].pc = "idle"
  /\ Len(leads) + Cardinality({d \in Clients : calls[d].pc = "send"}) < MaxWork

(* create_lead has nothing to read: after the check it sends the POST *)
BeginCreateLead(c, actor, unit, contact) ==
  /\ Free(c) /\ Require(actor, unit)
  /\ Goto(c, [pc |-> "send", op |-> "create", actor |-> actor, unit |-> unit,
              contact |-> contact])

(* The roster is checked and the document read; it is in the caller's unit. *)
(* When a check fails, or the read, the call raises and nothing has changed *)
ReadThen(c, actor, unit, l, call) ==
  /\ Free(c) /\ Require(actor, unit)
  /\ InScope(l, unit)
  /\ Goto(c, call)

BeginTransferLead(c, actor, unit, l, owner, new) ==
  LET target == TargetUnit(new, leads[l].unit)
  IN /\ MayOwn(owner, target)
     /\ ReadThen(c, actor, unit, l,
                 [pc |-> "send", op |-> "transfer", lead |-> l, owner |-> owner, target |-> target])

BeginArchiveLead(c, actor, unit, l) ==
  ReadThen(c, actor, unit, l, [pc |-> "send", op |-> "archive", lead |-> l])

BeginCreateQuotation(c, actor, unit, l) ==
  ReadThen(c, actor, unit, l, [pc |-> "send", op |-> "quote", lead |-> l, unit |-> unit])

(* The write is applied; its answer may be lost, and the call then raises   *)
(* CrmDenied all the same                                                   *)
Send(c) ==
  LET call == calls[c]
  IN /\ call.pc = "send"
     /\ \/ call.op = "create" /\ AddLead(call.actor, call.unit, call.contact, {c})
        \/ call.op = "transfer" /\ PutTransfer(call.lead, call.owner, call.target, {c})
        \/ call.op = "archive" /\ PutArchive(call.lead, {c})
        \/ call.op = "quote" /\ AddQuotation(call.lead, call.unit, {c})

(* The write is rejected or never arrives: CrmDenied *)
SendFails(c) ==
  /\ calls[c].pc = "send"
  /\ Goto(c, NoCall)

(* A desk user of ERPNext moves a lead or a quotation along its life *)
Desk ==
  /\ adapter = "erpnext" /\ outside < MaxOutside /\ outside' = outside + 1
  /\ \/ \E l \in DOMAIN leads, n \in LeadNatives :
          n # leads[l].native /\ Put([leads EXCEPT ![l].native = n], quotations, {})
     \/ \E q \in DOMAIN quotations, n \in QuoteNatives \ {"DRAFT"} :
          /\ n # quotations[q].native
          /\ Put(leads, [quotations EXCEPT ![q].native = n], {})

-----------------------------------------------------------------------------
(* A client that searches and follows the cursors *)

(* One walk at a time: a walk only reads, so two say no more than one *)
StartWalk(c, unit, kind, status, limit) ==
  /\ calls[c].pc = "idle" /\ \A d \in Clients : calls[d].pc \in {"idle", "send"}
  /\ \E a \in Actors : Require(a, unit)
  /\ Goto(c, [pc |-> "page", unit |-> unit, kind |-> kind, status |-> status,
              limit |-> limit, offset |-> 0, seen |-> <<>>, total |-> 0, fetched |-> 0,
              due |-> ToSet(Matched(kind, leads, quotations, unit, status))])

Slice(s, from, n) == SubSeq(s, from + 1, IF from + n < Len(s) THEN from + n ELSE Len(s))

(* Rows beyond this page *)
FixtureMore(offset, limit, n) == offset + limit < n

(* Mutant of Fetch: no extra row is fetched *)
FetchNoExtra(limit) == limit

(* One row more than the page, to know whether there is a next one *)
Fetch(limit) == limit + 1

(* The cursor binds unit and offset; a page of fewer rows ends the walk *)
NextOffset(offset, limit) == offset + limit

NextPage(offset, limit, more) ==
  IF more THEN [pc |-> "page", offset |-> NextOffset(offset, limit)]
          ELSE [pc |-> "done", offset |-> offset]

SearchFixture(c) ==
  LET walk == calls[c]
      all == Walked(walk, leads, quotations)
      next == NextPage(walk.offset, walk.limit, FixtureMore(walk.offset, walk.limit, Len(all)))
  IN /\ adapter = "fixture" /\ walk.pc = "page"
     /\ \E a \in Actors : Require(a, walk.unit)
     /\ Goto(c, [walk EXCEPT !.pc = next.pc, !.offset = next.offset,
                   !.seen = @ \o Slice(all, walk.offset, walk.limit),
                   !.total = Len(all)])

(* ERPNext: the page first, its docs counted; the total is asked for next *)
SearchErpNext(c) ==
  LET walk == calls[c]
      docs == Slice(Walked(walk, leads, quotations), walk.offset, Fetch(walk.limit))
  IN /\ adapter = "erpnext" /\ walk.pc = "page"
     /\ \E a \in Actors : Require(a, walk.unit)
     /\ Goto(c, [walk EXCEPT !.pc = "count", !.fetched = Len(docs),
                   !.seen = @ \o Slice(docs, 0, walk.limit)])

(* The total reported when the count request fails *)
CountLost(offset, docs) == offset + docs

(* The count request is answered, or fails *)
Count(c) ==
  LET walk == calls[c]
      next == NextPage(walk.offset, walk.limit, walk.fetched > walk.limit)
  IN /\ walk.pc = "count"
     /\ \E total \in {Len(Walked(walk, leads, quotations)),
                       CountLost(walk.offset, walk.fetched)} :
          Goto(c, [walk EXCEPT !.pc = next.pc, !.offset = next.offset, !.total = total,
                             !.fetched = 0])

-----------------------------------------------------------------------------
CrmNext ==
  \/ \E a \in Actors, u \in Units : ChangeRoster(a, u)
  \/ \E a \in Actors, u \in Units :
       \/ \E k \in Contacts : FixtureCreateLead(a, u, k)
       \/ \E l \in DOMAIN leads :
            \/ \E o \in Actors, t \in Units \cup {NoUnit} : FixtureTransferLead(a, u, l, o, t)
            \/ FixtureArchiveLead(a, u, l)
            \/ FixtureCreateQuotation(a, u, l)
       \/ \E c \in Clients :
            \/ \E k \in Contacts : BeginCreateLead(c, a, u, k)
            \/ \E l \in DOMAIN leads :
                 \/ \E o \in Actors, t \in Units \cup {NoUnit} :
                      BeginTransferLead(c, a, u, l, o, t)
                 \/ BeginArchiveLead(c, a, u, l)
                 \/ BeginCreateQuotation(c, a, u, l)
  \/ \E c \in Clients :
       \/ Send(c) \/ SendFails(c)
       \/ \E u \in Units, n \in Limits, s \in Searches : StartWalk(c, u, s[1], s[2], n)
       \/ SearchFixture(c) \/ SearchErpNext(c) \/ Count(c)
  \/ Desk

CrmSpec == CrmInit /\ [][CrmNext]_crmVars

-----------------------------------------------------------------------------
(* Every reference, unit and offset is of its kind; within the caller's     *)
(* scope an ERPNext lead never leaves the adapter's units                   *)
CrmTypeOK ==
  /\ assigned \in [Actors -> SUBSET Units]
  /\ leads \in Seq(LeadRecord) /\ Len(leads) <= MaxLeads
  /\ quotations \in Seq(QuotationRecord) /\ Len(quotations) <= MaxQuotes
  /\ \A q \in DOMAIN quotations : quotations[q].lead \in DOMAIN leads
  /\ \A c \in Clients : calls[c].pc \in {"idle", "send", "page", "count", "done"}
  /\ adapter = "erpnext" => \A l \in DOMAIN leads : leads[l].unit \in Scope

(* A lead's owner is a sales actor that was assigned to the lead's unit,    *)
(* though the check, the write and the roster's changes interleave          *)
(* (transfer_lead checks owner against target and writes both).             *)
OwnerWasAssigned ==
  \A l \in DOMAIN leads : leads[l].unit \in everAssigned[leads[l].owner]

(* Leads are well typed, in scope, and with owners that were assigned.      *)
LeadsInv == CrmTypeOK /\ OwnerWasAssigned

(* Following the cursors lists each matching row once and in order, and at  *)
(* the end all that matched at the start, unless a row left or entered the  *)
(* middle of the list meanwhile; while there is a next page the total says  *)
(* so.                                                                      *)
PagesAreComplete ==
  \A c \in Clients : calls[c].pc \in Walking \cup {"done"} =>
    LET walk == calls[c]
    IN /\ IsPrefix(walk.seen, Walked(walk, leads, quotations))
       /\ walk.pc = "done" => walk.due \subseteq ToSet(walk.seen)
       /\ walk.pc \in {"page", "done"} => walk.total >= Len(walk.seen)
       /\ walk.pc = "page" /\ walk.offset > 0 => walk.total > Len(walk.seen)

(* The views agree: a status search lists exactly the leads and quotations *)
(* that read_lead, the export and read_quotation show with that status, in  *)
(* the one vocabulary of crm/port.py:57 and :80.  Violated: the search asks *)
(* ERPNext for "Qualified" (erpnext_crm_adapter.py:315), a label that the   *)
(* table of line 134 does not show as QUALIFIED, and for none that it does. *)
ViewsAgree ==
  \A u \in Units :
    LET rows == ToSet(Export(u, MaxLeads))
    IN /\ \A s \in LeadStatuses :
            ToSet(ListedLeads(leads, u, s)) = {row.reference : row \in {r \in rows : r.status = s}}
       /\ \A s \in QuotationStatuses :
            ToSet(ListedQuotations(quotations, u, s)) =
              {q \in DOMAIN quotations : /\ quotations[q].unit = u
                                        /\ QuotationStatus(quotations[q]) = s}
=============================================================================
