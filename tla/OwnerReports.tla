---------------------------- MODULE OwnerReports ----------------------------
(***************************************************************************)
(* The owner's roll-up (src/src/reports/owner/roll_up.py) and the          *)
(* receivables aging (src/src/reports/receivables/aging.py).  Each service *)
(* holds its own lock for a whole call, but the provider moves on between  *)
(* the query that lists a unit's posted invoices and the reads that fetch  *)
(* them one by one.  Assignments are fixed at the start of a call.  The    *)
(* services share nothing and write nothing, so one call at a time is      *)
(* modelled, of either service.                                            *)
(*                                                                         *)
(* Invoices are posted, paid and cancelled and their payments reversed by  *)
(* others; an amount is a small number, a cancelled invoice has nothing    *)
(* open (adapters' cancel).                                                *)
(***************************************************************************)
EXTENDS AccessControl, Sequences, SequencesExt

CONSTANTS Invoices,    \* provider references, as numbers
          Currencies,
          UnitRank,    \* the units' places as sorted() orders them
          Rosters,     \* assignments a caller may hand over
          PageLength,  \* invoices one query returns at most: limit_page_length
          MaxAmount, MaxInstant   \* bounds

ASSUME ReportBounds ==
  /\ Invoices \subseteq Nat /\ IsFiniteSet(Invoices) /\ PageLength \in Nat \ {0}
  /\ MaxAmount \in Nat \ {0} /\ MaxInstant \in Nat
  /\ UnitRank \in [Units -> Nat]
  /\ \A u, v \in Units : UnitRank[u] = UnitRank[v] => u = v
  /\ Rosters \subseteq [Refs -> Assignment]

VARIABLES
  assignments,  \* the assignments handed over
  invoices,     \* the provider's invoices
  call,         \* the report being made, or the last one
  had           \* history: what each invoice had open during the call

reportVars == <<assignments, invoices, call, had>>

Services == {"rollup", "aging"}
NoInvoice == [status |-> "NONE"]
Invoice == [status: {"POSTED", "CANCELLED"}, unit: Units, currency: Currencies,
            total: 1..MaxAmount, open: 0..MaxAmount]

(* What an invoice has open: nothing before it is posted *)
Open(invoice) == IF invoice = NoInvoice THEN 0 ELSE invoice.open
NothingYet == [i \in Invoices |-> {}]

Idle == [pc |-> "idle"]
NoTotal == {}

(* One row: what was read of an invoice with something open *)
Row == [invoice: Invoices, unit: Units, currency: Currencies, open: 1..MaxAmount]

-----------------------------------------------------------------------------
(* Scope and authorization *)

QueryRequest(actor, bound, unit, at) ==
  Request(actor, bound, "QUERY_RECEIVABLE", unit, at, NoRevision, NoPreview)

(* The unit that sorted() puts first *)
FirstOf(units) == {u \in units : \A v \in units : UnitRank[u] <= UnitRank[v]}

(* _active_owner_units *)
OwnerUnits(actor, at) ==
  {assignments[r].unit : r \in {x \in Refs : Effective(assignments[x], actor, at)
                                        /\ "OWNER" \in assignments[x].roles}}

(* The units of the aging report: active assignments, whatever their dates *)
ActiveUnits(actor) ==
  {assignments[r].unit : r \in {x \in Refs : assignments[x].active /\ assignments[x].actor = actor}}

AgingUnits(actor, unit) ==
  IF unit = NoUnit THEN ActiveUnits(actor) ELSE ActiveUnits(actor) \cap {unit}

(* Mutant of UnitAuthorized: only the first unit is put to authorize *)
UnitAuthorizedFirst(unit) ==
  call.rows = <<>> =>
    Authorize(QueryRequest(call.actor, TRUE, unit, call.at), assignments).allowed

(* The roll-up puts every unit to authorize before it reads it; the aging   *)
(* report has put only the first of its units to it, at the start           *)
UnitAuthorized(unit) ==
  call.service = "rollup" =>
    Authorize(QueryRequest(call.actor, TRUE, unit, call.at), assignments).allowed

-----------------------------------------------------------------------------
ReportInit ==
  /\ assignments \in Rosters
  /\ invoices = [i \in Invoices |-> NoInvoice]
  /\ call = Idle
  /\ had = NothingYet

(* A call begins with a scope that is not empty.  A refusal is logged and   *)
(* discloses nothing.                                                       *)
Begin(s, actor, at, units) ==
  /\ call.pc \in {"idle", "done"}
  /\ units # {}
  /\ call' = [pc |-> "query", service |-> s, actor |-> actor, at |-> at, scope |-> units,
              todo |-> units, unit |-> NoUnit, refs |-> {}, rows |-> <<>>]
  /\ had' = [i \in Invoices |-> {Open(invoices[i])}]
  /\ UNCHANGED <<assignments, invoices>>

QueryRollup(actor, bound, at) ==
  /\ bound
  /\ Begin("rollup", actor, at, OwnerUnits(actor, at))

QueryAging(actor, bound, at, unit) ==
  /\ \E first \in FirstOf(AgingUnits(actor, unit)) :
       Authorize(QueryRequest(actor, bound, first, at), assignments).allowed
  /\ Begin("aging", actor, at, AgingUnits(actor, unit))

PostedIn(unit) ==
  {i \in Invoices : invoices[i].status = "POSTED" /\ invoices[i].unit = unit}

(* query_invoices: all the posted ones, or as many as fit on its one page   *)
Answers(posted) ==
  IF Cardinality(posted) <= PageLength THEN {posted}
  ELSE {page \in SUBSET posted : Cardinality(page) = PageLength}

QueryUnit ==
  /\ call.pc = "query"
  /\ \E u \in FirstOf(call.todo) :
       /\ UnitAuthorized(u)
       /\ \E page \in Answers(PostedIn(u)) :
            call' = [call EXCEPT !.pc = "read", !.unit = u, !.refs = page]
  /\ UNCHANGED <<assignments, invoices, had>>

(* An invoice with nothing open any more leaves the report *)
Listed(invoice) == invoice.open > 0

(* The entry names the unit that was queried *)
RowOf(i) == [invoice |-> i, unit |-> call.unit, currency |-> invoices[i].currency,
             open |-> invoices[i].open]

(* The invoices listed are read one by one, in reference order *)
ReadInvoice ==
  /\ call.pc = "read"
  /\ \E i \in call.refs :
       /\ \A j \in call.refs : i <= j
       /\ call' = [call EXCEPT !.refs = @ \ {i},
                     !.rows = IF Listed(invoices[i]) THEN Append(@, RowOf(i)) ELSE @]
  /\ UNCHANGED <<assignments, invoices, had>>

(* Mutant of NextUnits: the remaining units are skipped when the first ones *)
(* had nothing open                                                         *)
NextUnitsSkips == IF call.rows = <<>> THEN {} ELSE call.todo \ {call.unit}

NextUnits == call.todo \ {call.unit}

FinishUnit ==
  /\ call.pc = "read" /\ call.refs = {}
  /\ call' = [call EXCEPT !.pc = "query", !.todo = NextUnits]
  /\ UNCHANGED <<assignments, invoices, had>>

Currency(rows) == {rows[k].currency : k \in DOMAIN rows}
Sum(rows) == FoldSeq(LAMBDA row, acc : row.open + acc, 0, rows)

(* The owner's headline total, only when there is at most one currency *)
OwnerTotal(rows) == IF Cardinality(Currency(rows)) <= 1 THEN {Sum(rows)} ELSE NoTotal

(* The aging total and the total of a unit in the roll-up add up every row, *)
(* whatever its currency                                                    *)
AgingTotal(rows) == {Sum(rows)}
RowsIn(unit, rows) == SelectSeq(rows, LAMBDA row : row.unit = unit)
UnitTotals(units, rows) == [u \in units |-> {Sum(RowsIn(u, rows))}]

Finish ==
  /\ call.pc = "query" /\ call.todo = {}
  /\ call' = [pc |-> "done", service |-> call.service, actor |-> call.actor, at |-> call.at,
              scope |-> call.scope, rows |-> call.rows,
              total |-> IF call.service = "rollup" THEN OwnerTotal(call.rows)
                                                   ELSE AgingTotal(call.rows),
              unitTotals |-> IF call.service = "rollup"
                             THEN UnitTotals(call.scope, call.rows) ELSE <<>>]
  /\ UNCHANGED <<assignments, invoices, had>>

(* One unit is refused and with it the whole roll-up, or the provider       *)
(* rejects a query or a read: no report                                     *)
NoReport ==
  /\ call.pc \in {"query", "read"}
  /\ call' = Idle /\ had' = NothingYet
  /\ UNCHANGED <<assignments, invoices>>

-----------------------------------------------------------------------------
(* Meanwhile, at the provider *)

Change(i, invoice) ==
  /\ invoices' = [invoices EXCEPT ![i] = invoice]
  /\ had' = IF call.pc \in {"query", "read"} THEN [had EXCEPT ![i] = @ \cup {Open(invoice)}]
            ELSE had
  /\ UNCHANGED <<assignments, call>>

PostInvoice(i, unit, currency, amount) ==
  /\ invoices[i] = NoInvoice
  /\ \A j \in Invoices : j < i => invoices[j] # NoInvoice
  /\ Change(i, [status |-> "POSTED", unit |-> unit, currency |-> currency,
                total |-> amount, open |-> amount])

PayInvoice(i, amount) ==
  /\ invoices[i].status = "POSTED" /\ amount <= invoices[i].open
  /\ Change(i, [invoices[i] EXCEPT !.open = @ - amount])

(* A payment is reversed, or any part of what was paid *)
ReversePayment(i, amount) ==
  /\ invoices[i].status = "POSTED" /\ invoices[i].open + amount <= invoices[i].total
  /\ Change(i, [invoices[i] EXCEPT !.open = @ + amount])

CancelInvoice(i) ==
  /\ invoices[i].status = "POSTED"
  /\ Change(i, [invoices[i] EXCEPT !.status = "CANCELLED", !.open = 0])

ReportNext ==
  \/ \E a \in Actors, bound \in BOOLEAN, at \in 1..MaxInstant :
       \/ QueryRollup(a, bound, at)
       \/ \E u \in Units \cup {NoUnit} : QueryAging(a, bound, at, u)
  \/ QueryUnit \/ ReadInvoice \/ FinishUnit \/ Finish \/ NoReport
  \/ \E i \in Invoices :
       \/ \E u \in Units, c \in Currencies, n \in 1..MaxAmount : PostInvoice(i, u, c, n)
       \/ \E n \in 1..MaxAmount : PayInvoice(i, n) \/ ReversePayment(i, n)
       \/ CancelInvoice(i)

ReportSpec == ReportInit /\ [][ReportNext]_reportVars

-----------------------------------------------------------------------------
(* Rows are of their kind, of the unit the report asked for, and none has   *)
(* nothing open.                                                            *)
ReportTypeOK ==
  /\ assignments \in Rosters
  /\ invoices \in [Invoices -> Invoice \cup {NoInvoice}]
  /\ had \in [Invoices -> SUBSET (0..MaxAmount)]
  /\ call # Idle =>
       /\ call.pc \in {"query", "read", "done"} /\ call.service \in Services
       /\ call.scope \subseteq Units
       /\ \A k \in DOMAIN call.rows : call.rows[k] \in Row /\ call.rows[k].unit \in call.scope

RowsOf(i) == {k \in DOMAIN call.rows : call.rows[k].invoice = i}

(* The unit never had more invoices than one query returns *)
OnOnePage(unit) ==
  Cardinality({i \in Invoices : invoices[i] # NoInvoice /\ invoices[i].unit = unit})
    <= PageLength

(* A finished report counts no invoice twice, and each with an amount that  *)
(* it had open while the report was made; and it leaves out no invoice that *)
(* had something open all that time, in a unit of its scope whose invoices  *)
(* fit on one page: query_invoices asks for the first 1000 and no more, so  *)
(* nothing is promised of a longer list (query_invoices of each unit in     *)
(* turn, then read_invoice one by one).                                     *)
ReportIsComplete ==
  call.pc = "done" =>
    \A i \in Invoices :
      /\ Cardinality(RowsOf(i)) <= 1
      /\ \A k \in RowsOf(i) : call.rows[k].open \in had[i]
      /\ 0 \notin had[i] /\ invoices[i].unit \in call.scope /\ OnOnePage(invoices[i].unit) =>
           RowsOf(i) # {}

(* Reports are well typed, of the units asked for, and complete.            *)
ReportInv == ReportTypeOK /\ ReportIsComplete

(* Each unit that contributes to a roll-up is one that authorize, asked for *)
(* that unit alone at the report's time, allows the actor to query: the     *)
(* role table, the dates and the uniqueness of the assignment included,     *)
(* although the list of units was made by other code (_active_owner_units). *)
RollupIsAuthorized ==
  call.pc = "done" /\ call.service = "rollup" =>
    \A u \in call.scope : Authorize(QueryRequest(call.actor, TRUE, u, call.at), assignments).allowed

(* "Currencies are never silently mixed" (roll_up.py:26): a total that the  *)
(* roll-up gives, of a unit or of the owner, adds up rows of one currency.  *)
CurrenciesNeverMixed ==
  call.pc = "done" /\ call.service = "rollup" =>
    /\ call.total # NoTotal => Cardinality(Currency(call.rows)) <= 1
    /\ \A u \in call.scope :
         call.unitTotals[u] # NoTotal => Cardinality(Currency(RowsIn(u, call.rows))) <= 1
=============================================================================
