----------------------------- MODULE UnitSettings -----------------------------
(***************************************************************************)
(* src/units/settings.py for one unit: numbered settings versions that are *)
(* drafted, activated under a compare-and-swap on the active version, and  *)
(* rolled back.                                                            *)
(*                                                                         *)
(* The store has no lock. draft and rollback append to the list they find, *)
(* activate builds a new list and puts it in place of the old one, so a    *)
(* call is split at each of its accesses to the store, and a list that was *)
(* replaced lives on in the calls that still refer to it. serial says      *)
(* whether the callers take turns; it is fixed in the initial state.       *)
(* A version that fails validation is refused before anything is read and  *)
(* is no step.                                                             *)
(***************************************************************************)
EXTENDS Naturals

CONSTANTS
  Callers,   \* threads that use the store
  Settings,  \* settings that pass validation
  Times,     \* instants a version may become effective at
  MaxRows,   \* bound: versions ever drafted, and activations
  MaxRaced   \* bound: the same, when the callers do not take turns

ASSUME SettingsAssumption ==
  /\ Times \subseteq Nat \ {0}
  /\ MaxRows \in Nat /\ MaxRaced \in 0..MaxRows

VARIABLES
  serial,   \* the callers take turns
  lists,    \* every list of versions the store has had
  current,  \* the list _versions holds now
  seen,     \* the active version each caller last saw
  call      \* the call each caller is in

vars == <<serial, lists, current, seen, call>>

-----------------------------------------------------------------------------

DRAFT   == "DRAFT"
ACTIVE  == "ACTIVE"
RETIRED == "RETIRED"

Numbers == 0..MaxRows
ListIds == 1..(MaxRows + 1)
Instants == Times \cup {0}

(* A SettingsVersion; 0 is a number or an instant it does not have.        *)
SettingsVersion ==
  [number : Numbers, status : {DRAFT, ACTIVE, RETIRED}, settings : SUBSET Settings,
   from : Instants, to : Instants, previous : Numbers]

NoVersion == [number |-> 0, status |-> DRAFT, settings |-> {}, from |-> 0,
              to |-> 0, previous |-> 0]

Versions == [len : Numbers, row : [1..MaxRows -> SettingsVersion]]

EmptyList == [len |-> 0, row |-> [i \in 1..MaxRows |-> NoVersion]]

Rows(list) == {list.row[i] : i \in 1..list.len}

(* The version is named by target, the active one by expected and active.  *)
(* list is the list the call refers to, built the one it is about to put   *)
(* in place.                                                               *)
Call ==
  [pc : {"idle", "number", "append", "list", "check", "target", "build", "install"},
   settings : SUBSET Settings, target : Numbers, expected : Numbers,
   from : Instants, rollback : BOOLEAN, number : Numbers, list : ListIds \cup {0},
   active : Numbers, row : SettingsVersion, built : Versions]

Idle == [pc |-> "idle", settings |-> {}, target |-> 0, expected |-> 0, from |-> 0,
         rollback |-> FALSE, number |-> 0, list |-> 0, active |-> 0,
         row |-> NoVersion, built |-> EmptyList]

TypeOK ==
  /\ serial \in BOOLEAN
  /\ lists \in [ListIds -> Versions]
  /\ current \in ListIds
  /\ seen \in [Callers -> Numbers]
  /\ call \in [Callers -> Call]

Init ==
  /\ serial \in BOOLEAN
  /\ lists = [l \in ListIds |-> EmptyList]
  /\ current = 1
  /\ seen = [t \in Callers |-> 0]
  /\ call = [t \in Callers |-> Idle]

-----------------------------------------------------------------------------

(* get_version returns the first row with the number.                      *)
IsVersion(list, n, row) ==
  \E i \in 1..list.len :
    /\ list.row[i] = row /\ row.number = n
    /\ \A j \in 1..(i - 1) : list.row[j].number # n

Known(list, n) == \E row \in Rows(list) : row.number = n

(* _current_active_version_number.                                         *)
IsActiveNumber(list, n) ==
  \/ n = 0 /\ \A row \in Rows(list) : row.status # ACTIVE
  \/ \E i \in 1..list.len :
       /\ list.row[i].status = ACTIVE /\ list.row[i].number = n
       /\ \A j \in 1..(i - 1) : list.row[j].status # ACTIVE

Limit == IF serial THEN MaxRows ELSE MaxRaced

Return(t) == call' = [call EXCEPT ![t] = Idle]

MayBegin(t) ==
  /\ call[t].pc = "idle"
  /\ serial => \A u \in Callers : call[u].pc = "idle"

(* A caller looks up the active version, to name it as expected_version.   *)
Look(t, n) ==
  /\ MayBegin(t)
  /\ IsActiveNumber(lists[current], n)
  /\ seen' = [seen EXCEPT ![t] = n]
  /\ UNCHANGED <<serial, lists, current, call>>

BeginDraft(t, s) ==
  /\ MayBegin(t)
  /\ call' = [call EXCEPT ![t] = [Idle EXCEPT !.pc = "number", !.settings = {s}]]
  /\ UNCHANGED <<serial, lists, current, seen>>

BeginActivate(t, n, from) ==
  /\ MayBegin(t)
  /\ call' = [call EXCEPT ![t] = [Idle EXCEPT !.pc = "list", !.target = n,
                                    !.expected = seen[t], !.from = from]]
  /\ UNCHANGED <<serial, lists, current, seen>>

(* rollback reads the snapshot and passes its own check of the active      *)
(* version; it goes on to append a draft. A refused one changes nothing.   *)
BeginRollback(t, to, from, row) ==
  /\ MayBegin(t)
  /\ IsVersion(lists[current], to, row)
  /\ IsActiveNumber(lists[current], seen[t])
  /\ call' = [call EXCEPT ![t] = [Idle EXCEPT !.pc = "number", !.settings = row.settings,
                                    !.expected = seen[t], !.from = from,
                                    !.rollback = TRUE]]
  /\ UNCHANGED <<serial, lists, current, seen>>

(* _next_version.                                                          *)
NextVersion(t) ==
  /\ call[t].pc = "number"
  /\ lists[current].len < Limit
  /\ call' = [call EXCEPT ![t].pc = "append", ![t].number = lists[current].len + 1]
  /\ UNCHANGED <<serial, lists, current, seen>>

(* The draft goes to the end of the list; rollback then calls activate.    *)
AppendRow(l, row) ==
  lists' = [lists EXCEPT ![l] = [len |-> @.len + 1,
                                 row |-> [@.row EXCEPT ![lists[l].len + 1] = row]]]

AppendDraft(t) ==
  LET c == call[t] IN
  /\ c.pc = "append"
  /\ lists[current].len < Limit
  /\ AppendRow(current, [NoVersion EXCEPT !.number = c.number, !.settings = c.settings])
  /\ call' = [call EXCEPT ![t] = IF c.rollback
                                 THEN [Idle EXCEPT !.pc = "list", !.target = c.number,
                                         !.expected = c.expected, !.from = c.from]
                                 ELSE Idle]
  /\ UNCHANGED <<serial, current, seen>>

(* activate takes hold of the list ...                                     *)
TakeList(t) ==
  /\ call[t].pc = "list"
  /\ call' = [call EXCEPT ![t].pc = "check", ![t].list = current]
  /\ UNCHANGED <<serial, lists, current, seen>>

Regresses(list, active, from) ==
  \E row \in Rows(list) : /\ IsVersion(list, active, row)
                          /\ row.from # 0 /\ from < row.from

(* Mutant of CheckActive: the start of the active version is not compared. *)
CheckActiveOnly(t, n) ==
  /\ call[t].pc = "check"
  /\ IsActiveNumber(lists[current], n)
  /\ IF n = call[t].expected
     THEN call' = [call EXCEPT ![t].pc = "target", ![t].active = n]
     ELSE Return(t)
  /\ UNCHANGED <<serial, lists, current, seen>>

(* ... compares the active version with the expected one, and refuses a    *)
(* start before that version's own ...                                     *)
CheckActive(t, n) ==
  /\ call[t].pc = "check"
  /\ IsActiveNumber(lists[current], n)
  /\ IF n = call[t].expected /\ ~Regresses(lists[current], n, call[t].from)
     THEN call' = [call EXCEPT ![t].pc = "target", ![t].active = n]
     ELSE Return(t)
  /\ UNCHANGED <<serial, lists, current, seen>>

(* ... reads the version to activate, which must be a draft ...            *)
ReadTarget(t, row) ==
  /\ call[t].pc = "target"
  /\ IsVersion(lists[current], call[t].target, row)
  /\ IF row.status = DRAFT
     THEN call' = [call EXCEPT ![t].pc = "build", ![t].row = row]
     ELSE Return(t)
  /\ UNCHANGED <<serial, lists, current, seen>>

TargetUnknown(t) ==
  /\ call[t].pc = "target"
  /\ ~Known(lists[current], call[t].target)
  /\ Return(t)
  /\ UNCHANGED <<serial, lists, current, seen>>

(* Mutant of Retire: the interval is closed, the status forgotten.         *)
RetireIntervalOnly(row, from) ==
  IF row.status = ACTIVE THEN [row EXCEPT !.to = from] ELSE row

Retire(row, from) ==
  IF row.status = ACTIVE THEN [row EXCEPT !.status = RETIRED, !.to = from] ELSE row

Activated(c) ==
  [c.row EXCEPT !.status = ACTIVE, !.from = c.from, !.previous = c.active]

(* ... builds the new list from the one it holds: every active row is      *)
(* retired, every row with the target's number becomes the target ...      *)
BuildList(t) ==
  LET c == call[t] base == lists[call[t].list] IN
  /\ c.pc = "build"
  /\ call' = [call EXCEPT ![t].pc = "install", ![t].built =
       [base EXCEPT !.row = [i \in 1..MaxRows |->
          IF base.row[i].number = c.target THEN Activated(c)
                                           ELSE Retire(base.row[i], c.from)]]]
  /\ UNCHANGED <<serial, lists, current, seen>>

(* ... and puts it in place of the list the store holds by then.           *)
InstallList(t) ==
  /\ call[t].pc = "install"
  /\ current <= Limit
  /\ current' = current + 1
  /\ lists' = [lists EXCEPT ![current + 1] = call[t].built]
  /\ Return(t)
  /\ UNCHANGED <<serial, seen>>

Step(t) ==
  \/ NextVersion(t)
  \/ AppendDraft(t)
  \/ TakeList(t)
  \/ \E n \in Numbers : CheckActive(t, n)
  \/ \E row \in Rows(lists[current]) : ReadTarget(t, row)
  \/ TargetUnknown(t)
  \/ BuildList(t)
  \/ InstallList(t)

Next ==
  \E t \in Callers :
    \/ \E n \in Numbers : Look(t, n)
    \/ \E s \in Settings : BeginDraft(t, s)
    \/ \E n \in Numbers \ {0}, from \in Times : BeginActivate(t, n, from)
    \/ \E n \in Numbers, from \in Times, row \in Rows(lists[current]) :
         BeginRollback(t, n, from, row)
    \/ Step(t)

Spec == Init /\ [][Next]_vars

-----------------------------------------------------------------------------
(* Properties.                                                             *)

Store == Rows(lists[current])

(* Whatever the callers do at the same time, the store holds at most one   *)
(* active version; a number two racing drafts were both given may stand    *)
(* for two equal rows.                                                     *)
OneActiveVersion ==
  \A r1, r2 \in Store : r1.status = ACTIVE /\ r2.status = ACTIVE => r1 = r2

(* The store is well typed and has at most one active version.             *)
VersionsInv == TypeOK /\ OneActiveVersion

Follows(r, p) ==
  p.number = r.previous /\ p.status = RETIRED /\ p.to = r.from

Apart(r1, r2) ==
  \/ r1.to # 0 /\ r1.to <= r2.from
  \/ r2.to # 0 /\ r2.to <= r1.from

(* With callers that take turns, the versions that were ever in force      *)
(* follow each other without overlap, and each but the first names as      *)
(* previous the one that was retired for it at the instant it starts: the  *)
(* history can be walked back to the first version.                        *)
HistoryIsAChain ==
  serial =>
    LET inForce == {r \in Store : r.status # DRAFT} IN
    /\ \A r1, r2 \in inForce : r1 # r2 => Apart(r1, r2)
    /\ \A r \in inForce : r.previous # 0 => \E p \in inForce : Follows(r, p)

(* "CAS activate: exactly one winner" (settings.py:169): an activation that *)
(* succeeds puts its version in the place of the one it expected to be      *)
(* active, also when another caller activates at the same time.             *)
ExactlyOneWinner ==
  [][\A t \in Callers :
       InstallList(t) => IsActiveNumber(lists[current], call[t].active)]_vars

=============================================================================
