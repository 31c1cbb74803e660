------------------------------ MODULE UnitProofs ------------------------------
(***************************************************************************)
(* Proofs about what an operating unit keeps for itself.                   *)
(*                                                                         *)
(* UnitSettings, for any number of callers, versions and instants: one     *)
(* active version however the calls race, and, when the callers take       *)
(* turns, a history without overlap or gap.                                *)
(*                                                                         *)
(* UnitCrm, for any number of clients, actors, units, leads and            *)
(* quotations: what a pending write may still do, and how far a walk from  *)
(* page to page has come. The list a search goes through is a recursive    *)
(* function; what it contains is proved from its equation by a least       *)
(* counterexample.                                                         *)
(***************************************************************************)
EXTENDS UnitSettings, UnitCrm, SequenceTheorems, WellFoundedInduction, TLAPS

Index == 1..MaxRows

(* At most one active version, in every list of the store and in the lists *)
(* that are about to be put in place.                                      *)
OneActive(list) ==
  \A i, j \in Index :
    list.row[i].status = ACTIVE /\ list.row[j].status = ACTIVE => list.row[i] = list.row[j]

ActiveInv ==
  /\ \A l \in ListIds : OneActive(lists[l])
  /\ \A t \in Callers : OneActive(call[t].built)

(* activate holds a list from the moment it takes one until it has built   *)
(* the next.                                                               *)
HoldsInv ==
  \A t \in Callers : call[t].pc \in {"check", "target", "build"} => call[t].list \in ListIds

RaceInv == TypeOK /\ ActiveInv /\ HoldsInv

(* A list that was only ever changed by callers taking turns: versions are *)
(* numbered by their place, drafts carry no interval, the active version   *)
(* has no end, and there is one as soon as a version has been in force.    *)
Numbered(list) ==
  \A i \in Index : IF i <= list.len THEN list.row[i].number = i
                                    ELSE list.row[i] = NoVersion

Marked(list) ==
  \A i \in Index :
    /\ list.row[i].status = DRAFT => list.row[i].previous = 0 /\ list.row[i].to = 0
    /\ list.row[i].status = ACTIVE => list.row[i].to = 0

Succeeded(list) ==
  (\E i \in Index : list.row[i].status = RETIRED) =>
     \E i \in Index : list.row[i].status = ACTIVE

InOrder(list) ==
  \A i, j \in Index :
    i # j /\ list.row[i].status # DRAFT /\ list.row[j].status # DRAFT
      => Apart(list.row[i], list.row[j])

Linked(list) ==
  \A i \in Index :
    list.row[i].status # DRAFT /\ list.row[i].previous # 0 =>
      \E j \in Index : list.row[j].status # DRAFT /\ Follows(list.row[i], list.row[j])

Chain(list) ==
  Numbered(list) /\ Marked(list) /\ Succeeded(list) /\ InOrder(list) /\ Linked(list)

(* What a call knows about the store when nobody else is in one.           *)
CallKnows(c) ==
  /\ c.pc # "idle" /\ (c.rollback \/ c.pc \in {"list", "check", "target", "build"})
       => c.from \in Times
  /\ c.pc = "append" => c.number = lists[current].len + 1
  /\ c.pc \in {"check", "target", "build"} => c.list = current
  /\ c.pc \in {"target", "build"} =>
       /\ IsActiveNumber(lists[current], c.active)
       /\ \A i \in Index : lists[current].row[i].status = ACTIVE =>
            lists[current].row[i].from <= c.from
  /\ c.pc = "build" =>
       /\ c.target \in 1..lists[current].len
       /\ c.row = lists[current].row[c.target] /\ c.row.status = DRAFT
  /\ c.pc = "install" => Chain(c.built)

TurnsInv ==
  /\ \A t, u \in Callers : call[t].pc # "idle" /\ call[u].pc # "idle" => t = u
  /\ Chain(lists[current])
  /\ \A t \in Callers : CallKnows(call[t])

SettingsInv == RaceInv /\ (serial => TurnsInv)

-----------------------------------------------------------------------------

(* Types of the constants, and of what is read from a list.                *)
LEMMA ConstantTypes ==
  /\ Times \subseteq Nat /\ 0 \notin Times /\ MaxRows \in Nat /\ MaxRaced \in Nat
  /\ MaxRaced <= MaxRows
  /\ NoVersion \in SettingsVersion /\ EmptyList \in Versions /\ Idle \in Call
BY SettingsAssumption DEF NoVersion, SettingsVersion, EmptyList, Versions, Idle, Call,
   Numbers, Instants, ListIds, DRAFT, ACTIVE, RETIRED

LEMMA NaturalSets == Numbers \subseteq Nat /\ Instants \subseteq Nat
BY SettingsAssumption DEF Numbers, Instants

(* A call that only moves on in its program keeps what it was given.       *)
LEMMA Moved ==
  ASSUME call \in [Callers -> Call], NEW t \in Callers, NEW c \in Call,
         call' = [call EXCEPT ![t] = c]
  PROVE  /\ call' \in [Callers -> Call] /\ call'[t] = c
         /\ \A u \in Callers : u # t => call'[u] = call[u]
OBVIOUS

(* The list that activate builds.                                          *)
Built(c) ==
  [lists[c.list] EXCEPT !.row = [i \in 1..MaxRows |->
     IF lists[c.list].row[i].number = c.target THEN Activated(c)
                                       ELSE Retire(lists[c.list].row[i], c.from)]]

(* A call that moves on in its program keeps the rest of what it knows.    *)
LEMMA NextVersionCall ==
  ASSUME TypeOK, NEW t \in Callers, NextVersion(t), (lists[current].len + 1) \in Numbers
  PROVE  /\ call' \in [Callers -> Call]
         /\ \A u \in Callers : u # t => call'[u] = call[u]
         /\ call'[t].pc = "append" /\ call'[t].number = (lists[current].len + 1)
         /\ call'[t].rollback = call[t].rollback /\ call'[t].from = call[t].from
         /\ call'[t].built = call[t].built
<1> DEFINE x == (lists[current].len + 1)
           d == [call[t] EXCEPT !.pc = "append", !.number = x]
<1>1. call[t] \in Call /\ call \in [Callers -> Call] /\ x \in Numbers
  BY DEF TypeOK
<1>2. call' = [call EXCEPT ![t] = d]
  BY <1>1 DEF NextVersion
<1> HIDE DEF x
<1>3. \A c \in Call : [c EXCEPT !.pc = "append", !.number = x] \in Call
  BY <1>1 DEF Call
<1>4. \A c \in Call : LET e == [c EXCEPT !.pc = "append", !.number = x] IN
        /\ e.pc = "append" /\ e.number = x
        /\ e.rollback = c.rollback /\ e.from = c.from
        /\ e.built = c.built
  BY DEF Call
<1>5. d \in Call
  BY <1>1, <1>3
<1>6. /\ d.pc = "append" /\ d.number = x
      /\ d.rollback = call[t].rollback /\ d.from = call[t].from
      /\ d.built = call[t].built
  BY <1>1, <1>4
<1> HIDE DEF d
<1>7. /\ call' \in [Callers -> Call] /\ call'[t] = d
      /\ \A u \in Callers : u # t => call'[u] = call[u]
  BY <1>1, <1>2, <1>5
<1> QED BY <1>6, <1>7 DEF x

LEMMA TakeListCall ==
  ASSUME TypeOK, NEW t \in Callers, TakeList(t), current \in ListIds \cup {0}
  PROVE  /\ call' \in [Callers -> Call]
         /\ \A u \in Callers : u # t => call'[u] = call[u]
         /\ call'[t].pc = "check" /\ call'[t].list = current
         /\ call'[t].rollback = call[t].rollback /\ call'[t].from = call[t].from
         /\ call'[t].built = call[t].built
<1> DEFINE x == current
           d == [call[t] EXCEPT !.pc = "check", !.list = x]
<1>1. call[t] \in Call /\ call \in [Callers -> Call] /\ x \in ListIds \cup {0}
  BY DEF TypeOK
<1>2. call' = [call EXCEPT ![t] = d]
  BY <1>1 DEF TakeList
<1> HIDE DEF x
<1>3. \A c \in Call : [c EXCEPT !.pc = "check", !.list = x] \in Call
  BY <1>1 DEF Call
<1>4. \A c \in Call : LET e == [c EXCEPT !.pc = "check", !.list = x] IN
        /\ e.pc = "check" /\ e.list = x
        /\ e.rollback = c.rollback /\ e.from = c.from
        /\ e.built = c.built
  BY DEF Call
<1>5. d \in Call
  BY <1>1, <1>3
<1>6. /\ d.pc = "check" /\ d.list = x
      /\ d.rollback = call[t].rollback /\ d.from = call[t].from
      /\ d.built = call[t].built
  BY <1>1, <1>4
<1> HIDE DEF d
<1>7. /\ call' \in [Callers -> Call] /\ call'[t] = d
      /\ \A u \in Callers : u # t => call'[u] = call[u]
  BY <1>1, <1>2, <1>5
<1> QED BY <1>6, <1>7 DEF x

LEMMA CheckActiveCall ==
  ASSUME TypeOK, NEW t \in Callers, NEW n, call' = [call EXCEPT ![t].pc = "target", ![t].active = n], n \in Numbers
  PROVE  /\ call' \in [Callers -> Call]
         /\ \A u \in Callers : u # t => call'[u] = call[u]
         /\ call'[t].pc = "target" /\ call'[t].active = n
         /\ call'[t].rollback = call[t].rollback /\ call'[t].from = call[t].from
         /\ call'[t].built = call[t].built /\ call'[t].list = call[t].list
<1> DEFINE x == n
           d == [call[t] EXCEPT !.pc = "target", !.active = x]
<1>1. call[t] \in Call /\ call \in [Callers -> Call] /\ x \in Numbers
  BY DEF TypeOK
<1>2. call' = [call EXCEPT ![t] = d]
  BY <1>1 DEF TypeOK
<1> HIDE DEF x
<1>3. \A c \in Call : [c EXCEPT !.pc = "target", !.active = x] \in Call
  BY <1>1 DEF Call
<1>4. \A c \in Call : LET e == [c EXCEPT !.pc = "target", !.active = x] IN
        /\ e.pc = "target" /\ e.active = x
        /\ e.rollback = c.rollback /\ e.from = c.from
        /\ e.built = c.built /\ e.list = c.list
  BY DEF Call
<1>5. d \in Call
  BY <1>1, <1>3
<1>6. /\ d.pc = "target" /\ d.active = x
      /\ d.rollback = call[t].rollback /\ d.from = call[t].from
      /\ d.built = call[t].built /\ d.list = call[t].list
  BY <1>1, <1>4
<1> HIDE DEF d
<1>7. /\ call' \in [Callers -> Call] /\ call'[t] = d
      /\ \A u \in Callers : u # t => call'[u] = call[u]
  BY <1>1, <1>2, <1>5
<1> QED BY <1>6, <1>7 DEF x

LEMMA ReadTargetCall ==
  ASSUME TypeOK, NEW t \in Callers, NEW row, call' = [call EXCEPT ![t].pc = "build", ![t].row = row], row \in SettingsVersion
  PROVE  /\ call' \in [Callers -> Call]
         /\ \A u \in Callers : u # t => call'[u] = call[u]
         /\ call'[t].pc = "build" /\ call'[t].row = row
         /\ call'[t].rollback = call[t].rollback /\ call'[t].from = call[t].from
         /\ call'[t].built = call[t].built /\ call'[t].list = call[t].list
         /\ call'[t].active = call[t].active /\ call'[t].target = call[t].target
<1> DEFINE x == row
           d == [call[t] EXCEPT !.pc = "build", !.row = x]
<1>1. call[t] \in Call /\ call \in [Callers -> Call] /\ x \in SettingsVersion
  BY DEF TypeOK
<1>2. call' = [call EXCEPT ![t] = d]
  BY <1>1 DEF TypeOK
<1> HIDE DEF x
<1>3. \A c \in Call : [c EXCEPT !.pc = "build", !.row = x] \in Call
  BY <1>1 DEF Call
<1>4. \A c \in Call : LET e == [c EXCEPT !.pc = "build", !.row = x] IN
        /\ e.pc = "build" /\ e.row = x
        /\ e.rollback = c.rollback /\ e.from = c.from
        /\ e.built = c.built /\ e.list = c.list
        /\ e.active = c.active /\ e.target = c.target
  BY DEF Call
<1>5. d \in Call
  BY <1>1, <1>3
<1>6. /\ d.pc = "build" /\ d.row = x
      /\ d.rollback = call[t].rollback /\ d.from = call[t].from
      /\ d.built = call[t].built /\ d.list = call[t].list
      /\ d.active = call[t].active /\ d.target = call[t].target
  BY <1>1, <1>4
<1> HIDE DEF d
<1>7. /\ call' \in [Callers -> Call] /\ call'[t] = d
      /\ \A u \in Callers : u # t => call'[u] = call[u]
  BY <1>1, <1>2, <1>5
<1> QED BY <1>6, <1>7 DEF x

LEMMA BuildListCall ==
  ASSUME TypeOK, NEW t \in Callers, BuildList(t), Built(call[t]) \in Versions
  PROVE  /\ call' \in [Callers -> Call]
         /\ \A u \in Callers : u # t => call'[u] = call[u]
         /\ call'[t].pc = "install" /\ call'[t].built = Built(call[t])
         /\ call'[t].rollback = call[t].rollback /\ call'[t].from = call[t].from
<1> DEFINE x == Built(call[t])
           d == [call[t] EXCEPT !.pc = "install", !.built = x]
<1>1. call[t] \in Call /\ call \in [Callers -> Call] /\ x \in Versions
  BY DEF TypeOK
<1>2. call' = [call EXCEPT ![t] = d]
  BY <1>1 DEF BuildList, Built
<1> HIDE DEF x
<1>3. \A c \in Call : [c EXCEPT !.pc = "install", !.built = x] \in Call
  BY <1>1 DEF Call
<1>4. \A c \in Call : LET e == [c EXCEPT !.pc = "install", !.built = x] IN
        /\ e.pc = "install" /\ e.built = x
        /\ e.rollback = c.rollback /\ e.from = c.from
  BY DEF Call
<1>5. d \in Call
  BY <1>1, <1>3
<1>6. /\ d.pc = "install" /\ d.built = x
      /\ d.rollback = call[t].rollback /\ d.from = call[t].from
  BY <1>1, <1>4
<1> HIDE DEF d
<1>7. /\ call' \in [Callers -> Call] /\ call'[t] = d
      /\ \A u \in Callers : u # t => call'[u] = call[u]
  BY <1>1, <1>2, <1>5
<1> QED BY <1>6, <1>7 DEF x

-----------------------------------------------------------------------------

(* Retiring a row ends it if it is active, and touches nothing else.       *)
LEMMA Retired ==
  ASSUME NEW r \in SettingsVersion, NEW f \in Instants
  PROVE  /\ Retire(r, f) \in SettingsVersion
         /\ r.status # ACTIVE => Retire(r, f) = r
         /\ r.status = ACTIVE => Retire(r, f).status = RETIRED /\ Retire(r, f).to = f
         /\ Retire(r, f).number = r.number /\ Retire(r, f).from = r.from
         /\ Retire(r, f).previous = r.previous
         /\ Retire(r, f).status # ACTIVE
BY DEF Retire, SettingsVersion, DRAFT, ACTIVE, RETIRED

LEMMA ActivatedRow ==
  ASSUME NEW c \in Call
  PROVE  /\ Activated(c) \in SettingsVersion
         /\ Activated(c).status = ACTIVE /\ Activated(c).from = c.from
         /\ Activated(c).previous = c.active
         /\ Activated(c).number = c.row.number /\ Activated(c).to = c.row.to
<1>1. c.row \in SettingsVersion /\ c.from \in Instants /\ c.active \in Numbers
  BY DEF Call
<1> DEFINE r == c.row
           f == c.from
           n == c.active
<1>3. Activated(c) = [r EXCEPT !.status = ACTIVE, !.from = f, !.previous = n]
  BY DEF Activated
<1>4. r \in SettingsVersion /\ f \in Instants /\ n \in Numbers
  BY <1>1
<1> HIDE DEF r, f, n
<1>5. LET e == [r EXCEPT !.status = ACTIVE, !.from = f, !.previous = n] IN
        /\ e \in SettingsVersion /\ e.status = ACTIVE /\ e.from = f
        /\ e.previous = n /\ e.number = r.number /\ e.to = r.to
  BY <1>4 DEF SettingsVersion, DRAFT, ACTIVE, RETIRED
<1> QED BY <1>3, <1>5 DEF r, f, n

(* The rows of the list activate builds: the ones with the number of the   *)
(* target are the target, now active, and all others are not active.       *)
LEMMA BuiltList ==
  ASSUME TypeOK, NEW c \in Call, c.list \in ListIds
  PROVE  /\ Built(c) \in Versions
         /\ Built(c).len = lists[c.list].len
         /\ \A i \in Index :
              Built(c).row[i] = IF lists[c.list].row[i].number = c.target
                                THEN Activated(c) ELSE Retire(lists[c.list].row[i], c.from)
         /\ OneActive(Built(c))
<1> DEFINE base == lists[c.list]
           f == [i \in 1..MaxRows |-> IF base.row[i].number = c.target THEN Activated(c)
                                      ELSE Retire(base.row[i], c.from)]
<1>1. base \in Versions /\ c.from \in Instants
  BY DEF TypeOK, Call
<1>2. \A i \in 1..MaxRows : base.row[i] \in SettingsVersion
  BY <1>1 DEF Versions
<1>3. f \in [1..MaxRows -> SettingsVersion]
  BY <1>1, <1>2, Retired, ActivatedRow
<1>4. \A i \in Index : f[i] = IF base.row[i].number = c.target THEN Activated(c)
                              ELSE Retire(base.row[i], c.from)
  BY DEF Index
<1>5. Built(c) = [base EXCEPT !.row = f]
  BY DEF Built
<1> HIDE DEF base, f
<1>6. [base EXCEPT !.row = f] \in Versions /\ [base EXCEPT !.row = f].len = base.len
      /\ [base EXCEPT !.row = f].row = f
  BY <1>1, <1>3 DEF Versions
<1>7. \A i, j \in Index : f[i].status = ACTIVE /\ f[j].status = ACTIVE => f[i] = f[j]
  <2> SUFFICES ASSUME NEW i \in Index, NEW j \in Index,
                      f[i].status = ACTIVE, f[j].status = ACTIVE
               PROVE  f[i] = f[j]
    OBVIOUS
  <2>1. f[i] = Activated(c)
    BY <1>1, <1>2, <1>4, Retired DEF Index
  <2>2. f[j] = Activated(c)
    BY <1>1, <1>2, <1>4, Retired DEF Index
  <2> QED BY <2>1, <2>2
<1> QED BY <1>4, <1>5, <1>6, <1>7 DEF base, OneActive

(* Appending a draft.                                                      *)
LEMMA Appended ==
  ASSUME TypeOK, NEW r \in SettingsVersion, AppendRow(current, r),
         lists[current].len < MaxRows
  PROVE  /\ lists' \in [ListIds -> Versions]
         /\ \A l \in ListIds : l # current => lists'[l] = lists[l]
         /\ lists'[current].len = lists[current].len + 1
         /\ \A i \in Index :
              lists'[current].row[i] = IF i = lists[current].len + 1 THEN r
                                       ELSE lists[current].row[i]
<1> DEFINE old == lists[current]
           new == [len |-> old.len + 1, row |-> [old.row EXCEPT ![old.len + 1] = r]]
<1>1. old \in Versions /\ old.len \in Nat /\ old.row \in [1..MaxRows -> SettingsVersion]
  BY ConstantTypes DEF TypeOK, Versions, Numbers
<1>2. [old.row EXCEPT ![old.len + 1] = r] \in [1..MaxRows -> SettingsVersion]
  BY <1>1
<1>3. new \in Versions
  BY <1>1, <1>2, ConstantTypes DEF Versions, Numbers
<1>4. /\ new.len = old.len + 1
      /\ \A i \in Index : new.row[i] = IF i = old.len + 1 THEN r ELSE old.row[i]
  BY <1>1 DEF Index
<1>5. lists' = [lists EXCEPT ![current] = new]
  BY DEF AppendRow, TypeOK
<1> HIDE DEF new
<1>6. /\ lists' \in [ListIds -> Versions] /\ lists'[current] = new
      /\ \A l \in ListIds : l # current => lists'[l] = lists[l]
  BY <1>3, <1>5 DEF TypeOK
<1> QED BY <1>4, <1>6

-----------------------------------------------------------------------------

(* A step of one caller keeps the first invariant if it keeps the types,   *)
(* the lists of the store and its own list.                                *)
LEMMA RaceKept ==
  ASSUME RaceInv, NEW t \in Callers, serial' = serial, seen' \in [Callers -> Numbers],
         lists' \in [ListIds -> Versions], current' \in ListIds,
         \A l \in ListIds : OneActive(lists'[l]),
         call' \in [Callers -> Call], \A u \in Callers : u # t => call'[u] = call[u],
         OneActive(call'[t].built),
         call'[t].pc \in {"check", "target", "build"} => call'[t].list \in ListIds
  PROVE  RaceInv'
<1>1. TypeOK'
  BY DEF RaceInv, TypeOK
<1>2. ActiveInv'
  BY DEF RaceInv, ActiveInv, OneActive
<1>3. HoldsInv'
  BY DEF RaceInv, HoldsInv
<1> QED BY <1>1, <1>2, <1>3 DEF RaceInv

LEMMA NothingActive == OneActive(EmptyList)
BY DEF OneActive, EmptyList, NoVersion, Index, DRAFT, ACTIVE

(* A call starts with an empty list of its own.                            *)
LEMMA Begun ==
  ASSUME NEW d,
         \/ d = Idle
         \/ \E s \in SUBSET Settings : d = [Idle EXCEPT !.pc = "number", !.settings = s]
         \/ \E n \in Numbers, e \in Numbers, f \in Instants :
              d = [Idle EXCEPT !.pc = "list", !.target = n, !.expected = e, !.from = f]
         \/ \E s \in SUBSET Settings, e \in Numbers, f \in Instants :
              d = [Idle EXCEPT !.pc = "number", !.settings = s, !.expected = e,
                               !.from = f, !.rollback = TRUE]
  PROVE  d \in Call /\ OneActive(d.built) /\ d.pc \in {"idle", "number", "list"}
<1>0. Idle \in Call /\ Idle.built = EmptyList /\ Idle.pc = "idle"
  BY ConstantTypes DEF Idle
<1>1. CASE d = Idle
  BY <1>0, <1>1, NothingActive
<1>2. ASSUME NEW s \in SUBSET Settings,
             d = [Idle EXCEPT !.pc = "number", !.settings = s]
      PROVE  d \in Call /\ d.built = EmptyList /\ d.pc = "number"
  BY <1>0, <1>2 DEF Call
<1>3. ASSUME NEW n \in Numbers, NEW e \in Numbers, NEW f \in Instants,
             d = [Idle EXCEPT !.pc = "list", !.target = n, !.expected = e, !.from = f]
      PROVE  d \in Call /\ d.built = EmptyList /\ d.pc = "list"
  BY <1>0, <1>3 DEF Call
<1>4. ASSUME NEW s \in SUBSET Settings, NEW e \in Numbers, NEW f \in Instants,
             d = [Idle EXCEPT !.pc = "number", !.settings = s, !.expected = e,
                              !.from = f, !.rollback = TRUE]
      PROVE  d \in Call /\ d.built = EmptyList /\ d.pc = "number"
  BY <1>0, <1>4 DEF Call
<1> QED BY <1>1, <1>2, <1>3, <1>4, NothingActive

(* However the calls race, every list of the store has at most one active  *)
(* version.                                                                *)
LEMMA RaceNext == RaceInv /\ [Next]_vars => RaceInv'
<1> SUFFICES ASSUME RaceInv, [Next]_vars PROVE RaceInv'
  OBVIOUS
<1>0. /\ TypeOK /\ ActiveInv /\ HoldsInv
      /\ call \in [Callers -> Call] /\ seen \in [Callers -> Numbers]
      /\ lists \in [ListIds -> Versions] /\ current \in ListIds
      /\ \A l \in ListIds : OneActive(lists[l])
      /\ \A u \in Callers : call[u] \in Call /\ OneActive(call[u].built)
  BY DEF RaceInv, TypeOK, ActiveInv
<1>a. \A r \in Rows(lists[current]) : r \in SettingsVersion
  BY <1>0, ConstantTypes DEF Rows, Versions, Numbers
<1>b. \A f \in Times : f \in Instants
  BY DEF Instants
<1>c. ASSUME NEW t \in Callers, Return(t), UNCHANGED <<serial, lists, current, seen>>
      PROVE  RaceInv'
  <2>1. Idle \in Call /\ OneActive(Idle.built) /\ Idle.pc = "idle"
    BY Begun DEF Idle
  <2>2. /\ call' \in [Callers -> Call] /\ call'[t] = Idle
        /\ \A u \in Callers : u # t => call'[u] = call[u]
    BY <1>0, <1>c, <2>1, Moved DEF Return
  <2> QED BY <1>0, <1>c, <2>1, <2>2, RaceKept
<1>d. ASSUME NEW t \in Callers, NEW d \in Call, call' = [call EXCEPT ![t] = d],
             OneActive(d.built), d.pc \in {"idle", "number", "list"},
             UNCHANGED <<serial, lists, current, seen>>
      PROVE  RaceInv'
  <2>1. /\ call' \in [Callers -> Call] /\ call'[t] = d
        /\ \A u \in Callers : u # t => call'[u] = call[u]
    BY <1>0, <1>d, Moved
  <2> QED BY <1>0, <1>d, <2>1, RaceKept
<1>1. ASSUME NEW t \in Callers, NEW n \in Numbers, Look(t, n) PROVE RaceInv'
  BY <1>0, <1>1, RaceKept DEF Look, HoldsInv
<1>2. ASSUME NEW t \in Callers, NEW s \in Settings, BeginDraft(t, s) PROVE RaceInv'
  <2> DEFINE d == [Idle EXCEPT !.pc = "number", !.settings = {s}]
  <2>1. d \in Call /\ OneActive(d.built) /\ d.pc \in {"idle", "number", "list"}
    BY Begun
  <2> QED BY <1>2, <1>d, <2>1 DEF BeginDraft
<1>3. ASSUME NEW t \in Callers, NEW n \in Numbers, NEW f \in Times, BeginActivate(t, n, f)
      PROVE  RaceInv'
  <2> DEFINE d == [Idle EXCEPT !.pc = "list", !.target = n, !.expected = seen[t], !.from = f]
  <2>0. seen[t] \in Numbers
    BY <1>0
  <2>1. d \in Call /\ OneActive(d.built) /\ d.pc \in {"idle", "number", "list"}
    BY Begun, <1>b, <2>0
  <2> QED BY <1>3, <1>d, <2>1 DEF BeginActivate
<1>4. ASSUME NEW t \in Callers, NEW n \in Numbers, NEW f \in Times,
             NEW r \in Rows(lists[current]), BeginRollback(t, n, f, r)
      PROVE  RaceInv'
  <2> DEFINE d == [Idle EXCEPT !.pc = "number", !.settings = r.settings,
                     !.expected = seen[t], !.from = f, !.rollback = TRUE]
  <2>0. seen[t] \in Numbers /\ r.settings \in SUBSET Settings
    BY <1>0, <1>a DEF SettingsVersion
  <2>1. d \in Call /\ OneActive(d.built) /\ d.pc \in {"idle", "number", "list"}
    BY Begun, <1>b, <2>0
  <2> QED BY <1>4, <1>d, <2>1 DEF BeginRollback
<1>5. ASSUME NEW t \in Callers, NextVersion(t) PROVE RaceInv'
  <2>1. (lists[current].len + 1) \in Numbers
    BY <1>0, <1>5, ConstantTypes DEF NextVersion, Versions, Numbers, Limit
  <2> QED BY <1>0, <1>5, <2>1, NextVersionCall, RaceKept DEF NextVersion
<1>6. ASSUME NEW t \in Callers, AppendDraft(t) PROVE RaceInv'
  <2> DEFINE c == call[t]
             r == [NoVersion EXCEPT !.number = c.number, !.settings = c.settings]
             d == IF c.rollback THEN [Idle EXCEPT !.pc = "list", !.target = c.number,
                                        !.expected = c.expected, !.from = c.from]
                                ELSE Idle
  <2>1. r \in SettingsVersion /\ r.status = DRAFT
    BY <1>0, ConstantTypes DEF Call, SettingsVersion, NoVersion
  <2>2. d \in Call /\ OneActive(d.built) /\ d.pc \in {"idle", "number", "list"}
    <3>1. c.number \in Numbers /\ c.expected \in Numbers /\ c.from \in Instants
      BY <1>0 DEF Call
    <3> QED BY <3>1, Begun
  <2>3. /\ AppendRow(current, r) /\ call' = [call EXCEPT ![t] = d]
        /\ UNCHANGED <<serial, current, seen>>
    BY <1>6 DEF AppendDraft
  <2>4. lists[current].len < MaxRows
    BY <1>0, <1>6, ConstantTypes DEF AppendDraft, Limit, Versions, Numbers
  <2> HIDE DEF r, d
  <2>5. /\ lists' \in [ListIds -> Versions]
        /\ \A l \in ListIds : l # current => lists'[l] = lists[l]
        /\ \A i \in Index :
             lists'[current].row[i] = IF i = lists[current].len + 1 THEN r
                                      ELSE lists[current].row[i]
    BY <1>0, <2>1, <2>3, <2>4, Appended
  <2>6. OneActive(lists'[current])
    BY <1>0, <2>1, <2>5 DEF OneActive, DRAFT, ACTIVE
  <2>7. \A l \in ListIds : OneActive(lists'[l])
    BY <1>0, <2>5, <2>6
  <2>8. /\ call' \in [Callers -> Call] /\ call'[t] = d
        /\ \A u \in Callers : u # t => call'[u] = call[u]
    BY <1>0, <2>2, <2>3, Moved
  <2> QED BY <1>0, <2>2, <2>3, <2>5, <2>7, <2>8, RaceKept
<1>7. ASSUME NEW t \in Callers, TakeList(t) PROVE RaceInv'
  <2>0. current \in ListIds \cup {0}
    BY <1>0
  <2>1. /\ call' \in [Callers -> Call] /\ call'[t].list = current
        /\ \A u \in Callers : u # t => call'[u] = call[u]
        /\ call'[t].built = call[t].built
    BY <1>0, <1>7, <2>0, TakeListCall
  <2>2. UNCHANGED <<serial, lists, current, seen>>
    BY <1>7 DEF TakeList
  <2> QED BY <1>0, <2>1, <2>2, RaceKept
<1>8. ASSUME NEW t \in Callers, NEW n \in Numbers, CheckActive(t, n) PROVE RaceInv'
  <2>0. UNCHANGED <<serial, lists, current, seen>> /\ call[t].list \in ListIds
    BY <1>0, <1>8 DEF CheckActive, HoldsInv
  <2>1. CASE call' = [call EXCEPT ![t].pc = "target", ![t].active = n]
    BY <1>0, <2>0, <2>1, CheckActiveCall, RaceKept
  <2> QED BY <1>8, <1>c, <2>0, <2>1 DEF CheckActive
<1>9. ASSUME NEW t \in Callers, NEW r \in Rows(lists[current]), ReadTarget(t, r)
      PROVE  RaceInv'
  <2>0. UNCHANGED <<serial, lists, current, seen>> /\ call[t].list \in ListIds
    BY <1>0, <1>9 DEF ReadTarget, HoldsInv
  <2>1. CASE call' = [call EXCEPT ![t].pc = "build", ![t].row = r]
    BY <1>0, <1>a, <2>0, <2>1, ReadTargetCall, RaceKept
  <2> QED BY <1>9, <1>c, <2>0, <2>1 DEF ReadTarget
<1>10. ASSUME NEW t \in Callers, TargetUnknown(t) PROVE RaceInv'
  BY <1>10, <1>c DEF TargetUnknown
<1>11. ASSUME NEW t \in Callers, BuildList(t) PROVE RaceInv'
  <2>1. call[t].list \in ListIds
    BY <1>0, <1>11 DEF BuildList, HoldsInv
  <2>2. Built(call[t]) \in Versions /\ OneActive(Built(call[t]))
    BY <1>0, <2>1, BuiltList
  <2>3. UNCHANGED <<serial, lists, current, seen>>
    BY <1>11 DEF BuildList
  <2> QED BY <1>0, <1>11, <2>2, <2>3, BuildListCall, RaceKept
<1>12. ASSUME NEW t \in Callers, InstallList(t) PROVE RaceInv'
  <2>1. Idle \in Call /\ OneActive(Idle.built) /\ Idle.pc = "idle"
    BY Begun DEF Idle
  <2>2. /\ call' \in [Callers -> Call] /\ call'[t] = Idle
        /\ \A u \in Callers : u # t => call'[u] = call[u]
    BY <1>0, <1>12, <2>1, Moved DEF InstallList, Return
  <2>3. call[t].built \in Versions
    BY <1>0 DEF Call
  <2>4. current' \in ListIds /\ current' = current + 1
    BY <1>0, <1>12, ConstantTypes DEF InstallList, ListIds, Limit
  <2>5. lists' = [lists EXCEPT ![current'] = call[t].built]
    BY <1>12, <2>4 DEF InstallList
  <2>6. /\ lists' \in [ListIds -> Versions]
        /\ \A l \in ListIds : lists'[l] = IF l = current' THEN call[t].built ELSE lists[l]
    BY <1>0, <2>3, <2>4, <2>5
  <2>7. \A l \in ListIds : OneActive(lists'[l])
    BY <1>0, <2>6
  <2>8. serial' = serial /\ seen' = seen
    BY <1>12 DEF InstallList
  <2> QED BY <1>0, <2>1, <2>2, <2>4, <2>6, <2>7, <2>8, RaceKept
<1>13. CASE UNCHANGED vars
  <2>1. TypeOK' /\ HoldsInv'
    BY <1>0, <1>13 DEF vars, TypeOK, HoldsInv
  <2>2. ActiveInv'
    BY <1>0, <1>13 DEF vars, ActiveInv, OneActive
  <2> QED BY <2>1, <2>2 DEF RaceInv
<1> QED BY <1>1, <1>2, <1>3, <1>4, <1>5, <1>6, <1>7, <1>8, <1>9, <1>10, <1>11, <1>12,
          <1>13 DEF Next, Step

-----------------------------------------------------------------------------

(* Types of the rows of a list.                                            *)
LEMMA RowTypes ==
  ASSUME NEW list \in Versions, NEW i \in Index
  PROVE  /\ list.row[i] \in SettingsVersion /\ list.len \in Nat /\ list.len <= MaxRows
         /\ list.row[i].from \in Nat /\ list.row[i].to \in Nat /\ i \in Nat /\ i # 0
         /\ list.row[i].number \in Nat /\ list.row[i].previous \in Nat
         /\ list.row[i].status \in {DRAFT, ACTIVE, RETIRED}
<1>1. /\ list.row[i] \in SettingsVersion /\ list.len \in Nat /\ list.len <= MaxRows
      /\ i \in Nat /\ i # 0
  BY ConstantTypes DEF Versions, Index, Numbers
<1>2. \A r \in SettingsVersion : /\ r.from \in Nat /\ r.to \in Nat
                                 /\ r.number \in Nat /\ r.previous \in Nat
                                 /\ r.status \in {DRAFT, ACTIVE, RETIRED}
  BY NaturalSets DEF SettingsVersion
<1> QED BY <1>1, <1>2

(* Beyond the end of the list there is nothing but drafts.                 *)
LEMMA WithinLength ==
  ASSUME NEW list \in Versions, Numbered(list), NEW i \in Index,
         list.row[i].status # DRAFT
  PROVE  i \in 1..list.len /\ list.row[i].number = i
<1>1. ~(list.row[i] = NoVersion)
  BY DEF NoVersion
<1>2. i <= list.len /\ list.row[i].number = i
  BY <1>1 DEF Numbered
<1> QED BY <1>2, RowTypes DEF Index

(* The active version of a chain is its only one.                          *)
LEMMA OnlyOneActive ==
  ASSUME NEW list \in Versions, Chain(list), NEW i \in Index, NEW j \in Index,
         list.row[i].status = ACTIVE, list.row[j].status = ACTIVE
  PROVE  i = j
<1>1. list.row[i].to = 0 /\ list.row[j].to = 0
  BY DEF Chain, Marked
<1> QED BY <1>1 DEF Chain, InOrder, Apart, ACTIVE, DRAFT

(* The rows of a chain, read by their numbers.                             *)
LEMMA FirstIsOnly ==
  ASSUME NEW list \in Versions, Numbered(list), NEW n, NEW row, IsVersion(list, n, row)
  PROVE  n \in 1..list.len /\ row = list.row[n]
<1>1. PICK i \in 1..list.len : list.row[i] = row /\ row.number = n
  BY DEF IsVersion
<1>2. i \in Index
  BY ConstantTypes DEF Index, Versions, Numbers
<1> QED BY <1>1, <1>2 DEF Numbered

LEMMA ActiveNumber ==
  ASSUME NEW list \in Versions, Chain(list), NEW n, IsActiveNumber(list, n)
  PROVE  /\ n # 0 => n \in Index /\ n <= list.len /\ list.row[n].status = ACTIVE
         /\ \A i \in Index : list.row[i].status = ACTIVE => n = i
<1>1. \A i \in Index : list.row[i].status = ACTIVE => i \in 1..list.len /\ list.row[i].number = i
  BY WithinLength DEF Chain, ACTIVE, DRAFT
<1>2. CASE n = 0 /\ \A row \in Rows(list) : row.status # ACTIVE
  BY <1>1, <1>2 DEF Rows
<1>3. ASSUME NEW i \in 1..list.len, list.row[i].status = ACTIVE, list.row[i].number = n
      PROVE  /\ n # 0 => n \in Index /\ n <= list.len /\ list.row[n].status = ACTIVE
             /\ \A j \in Index : list.row[j].status = ACTIVE => n = j
  <2>1. i \in Index
    BY ConstantTypes DEF Index, Versions, Numbers
  <2>2. n = i
    BY <1>1, <1>3, <2>1
  <2> QED BY <1>3, <2>1, <2>2, OnlyOneActive
<1> QED BY <1>2, <1>3 DEF IsActiveNumber

(* What the check of activate establishes about the start of the version.  *)
LEMMA StartChecked ==
  ASSUME NEW list \in Versions, Chain(list), NEW n, IsActiveNumber(list, n),
         NEW from \in Times, ~Regresses(list, n, from)
  PROVE  \A i \in Index : list.row[i].status = ACTIVE => list.row[i].from <= from
<1> SUFFICES ASSUME NEW i \in Index, list.row[i].status = ACTIVE
             PROVE  list.row[i].from <= from
  OBVIOUS
<1>1. i \in 1..list.len /\ list.row[i].number = i /\ n = i
  BY WithinLength, ActiveNumber DEF Chain, ACTIVE, DRAFT
<1>2. \A j \in 1..(i - 1) : list.row[j].number # n
  <2> SUFFICES ASSUME NEW j \in 1..(i - 1) PROVE list.row[j].number # n
    OBVIOUS
  <2>1. j \in Index /\ j <= list.len /\ j # i
    BY <1>1, ConstantTypes DEF Index, Versions, Numbers
  <2> QED BY <1>1, <2>1 DEF Chain, Numbered
<1>3. IsVersion(list, n, list.row[i]) /\ list.row[i] \in Rows(list)
  BY <1>1, <1>2 DEF IsVersion, Rows
<1>4. ~(list.row[i].from # 0 /\ from < list.row[i].from)
  BY <1>3 DEF Regresses
<1>5. from \in Nat /\ list.row[i].from \in Nat
  BY RowTypes, ConstantTypes
<1> QED BY <1>4, <1>5

-----------------------------------------------------------------------------

(* A draft at the end of a chain leaves it a chain.                        *)
LEMMA ChainAppended ==
  ASSUME NEW old \in Versions, NEW new \in Versions, NEW r, Chain(old),
         new.len = old.len + 1, old.len < MaxRows,
         \A i \in Index : new.row[i] = IF i = old.len + 1 THEN r ELSE old.row[i],
         r.number = old.len + 1, r.status = DRAFT, r.previous = 0, r.to = 0
  PROVE  Chain(new)
<1>0. \A i \in Index : i \in Nat /\ old.len \in Nat
  BY RowTypes
<1>a. \A i \in Index : new.row[i].status # DRAFT => new.row[i] = old.row[i]
  OBVIOUS
<1>b. \A i \in Index : old.row[i].status # DRAFT => new.row[i] = old.row[i]
  <2> SUFFICES ASSUME NEW i \in Index, old.row[i].status # DRAFT
               PROVE  i # old.len + 1
    OBVIOUS
  <2>1. i \in 1..old.len
    BY WithinLength DEF Chain
  <2> QED BY <1>0, <2>1
<1>1. Numbered(new)
  BY <1>0 DEF Chain, Numbered
<1>2. Marked(new)
  BY DEF Chain, Marked, DRAFT, ACTIVE
<1>3. Succeeded(new)
  BY <1>a, <1>b DEF Chain, Succeeded, DRAFT, RETIRED, ACTIVE
<1>4. InOrder(new)
  BY <1>a DEF Chain, InOrder
<1>5. Linked(new)
  <2> SUFFICES ASSUME NEW i \in Index, new.row[i].status # DRAFT, new.row[i].previous # 0
               PROVE  \E j \in Index : /\ new.row[j].status # DRAFT
                                       /\ Follows(new.row[i], new.row[j])
    BY DEF Linked
  <2>1. PICK j \in Index : old.row[j].status # DRAFT /\ Follows(old.row[i], old.row[j])
    BY <1>a DEF Chain, Linked
  <2> QED BY <1>a, <1>b, <2>1
<1> QED BY <1>1, <1>2, <1>3, <1>4, <1>5 DEF Chain

(* Activating a draft of a chain, from an instant that is not before the   *)
(* start of the active version, extends the chain by one link.             *)
LEMMA ChainBuilt ==
  ASSUME TypeOK, NEW c \in Call, c.list \in ListIds, NEW base, base = lists[c.list],
         Chain(base), c.target \in 1..base.len, c.row = base.row[c.target],
         c.row.status = DRAFT, c.from \in Times, IsActiveNumber(base, c.active),
         \A i \in Index : base.row[i].status = ACTIVE => base.row[i].from <= c.from
  PROVE  Chain(Built(c))
<1> DEFINE new == Built(c)
           T == c.target
           f == c.from
           act == Activated(c)
<1>0. base \in Versions /\ f \in Instants /\ f \in Nat /\ f # 0 /\ c.active \in Nat
  <2>1. c.active \in Numbers /\ f \in Instants
    BY DEF Call
  <2>2. f \in Nat /\ f # 0
    BY ConstantTypes
  <2> QED BY <2>1, <2>2, NaturalSets DEF TypeOK
<1>1. T \in Index /\ T \in Nat /\ T # 0 /\ T <= base.len
  BY <1>0, ConstantTypes DEF Index, Versions, Numbers
<1>2. \A i \in Index : /\ base.row[i] \in SettingsVersion /\ i \in Nat
                       /\ base.len \in Nat
                       /\ base.row[i].from \in Nat /\ base.row[i].to \in Nat
                       /\ base.row[i].status \in {DRAFT, ACTIVE, RETIRED}
  BY <1>0, RowTypes
<1>3. \A i \in Index : base.row[i].number = T <=> i = T
  BY <1>1, <1>2 DEF Chain, Numbered, NoVersion
<1>4. /\ new \in Versions /\ new.len = base.len /\ new.row[T] = act
      /\ \A i \in Index : i # T => new.row[i] = Retire(base.row[i], f)
  BY <1>1, <1>3, BuiltList
<1>5. act.status = ACTIVE /\ act.from = f /\ act.previous = c.active
      /\ act.number = T /\ act.to = 0
  BY <1>1, <1>3, ActivatedRow DEF Chain, Marked
<1> HIDE DEF new, T, f, act
<1>6. \A i \in Index : i # T =>
        /\ base.row[i].status # ACTIVE => new.row[i] = base.row[i]
        /\ base.row[i].status = ACTIVE => new.row[i].status = RETIRED /\ new.row[i].to = f
        /\ new.row[i].number = base.row[i].number /\ new.row[i].from = base.row[i].from
        /\ new.row[i].previous = base.row[i].previous
        /\ new.row[i].status # ACTIVE
  BY <1>0, <1>2, <1>4, Retired
<1>7. base.row[T].status = DRAFT
  BY DEF T
<1>8. \A i \in Index : i # T /\ new.row[i].status # DRAFT => base.row[i].status # DRAFT
  BY <1>6 DEF DRAFT, ACTIVE
<1>a. Numbered(new)
  <2> SUFFICES ASSUME NEW i \in Index
               PROVE  IF i <= new.len THEN new.row[i].number = i ELSE new.row[i] = NoVersion
    BY DEF Numbered
  <2>1. CASE i = T
    BY <1>1, <1>4, <1>5, <2>1
  <2>2. CASE i # T /\ i <= base.len
    BY <1>4, <1>6, <2>2 DEF Chain, Numbered
  <2>3. CASE i # T /\ ~(i <= base.len)
    <3>1. base.row[i] = NoVersion
      BY <2>3 DEF Chain, Numbered
    <3>2. base.row[i].status # ACTIVE
      BY <3>1 DEF NoVersion, DRAFT, ACTIVE
    <3> QED BY <1>4, <1>6, <2>3, <3>1, <3>2
  <2> QED BY <2>1, <2>2, <2>3
<1>b. Marked(new)
  <2> SUFFICES ASSUME NEW i \in Index
               PROVE  /\ new.row[i].status = DRAFT => new.row[i].previous = 0 /\ new.row[i].to = 0
                      /\ new.row[i].status = ACTIVE => new.row[i].to = 0
    BY DEF Marked
  <2>1. CASE i = T
    BY <1>4, <1>5, <2>1 DEF ACTIVE, DRAFT
  <2>2. CASE i # T
    BY <1>6, <2>2 DEF Chain, Marked, ACTIVE, DRAFT, RETIRED
  <2> QED BY <2>1, <2>2
<1>c. Succeeded(new)
  BY <1>1, <1>4, <1>5 DEF Succeeded
<1>d. ASSUME NEW j \in Index, j # T, new.row[j].status # DRAFT
      PROVE  new.row[j].to # 0 /\ new.row[j].to <= f
  <2>0. base.row[j].status # DRAFT
    BY <1>8, <1>d
  <2>1. CASE base.row[j].status = ACTIVE
    BY <1>0, <1>6, <1>d, <2>1
  <2>2. CASE base.row[j].status # ACTIVE
    <3>1. base.row[j].status = RETIRED
      BY <1>2, <2>0, <2>2
    <3>2. PICK a \in Index : base.row[a].status = ACTIVE
      BY <3>1 DEF Chain, Succeeded
    <3>3. base.row[a].to = 0 /\ base.row[a].from <= f
      BY <3>2 DEF Chain, Marked, f
    <3>4. Apart(base.row[j], base.row[a])
      BY <2>0, <2>2, <3>2 DEF Chain, InOrder, ACTIVE, DRAFT
    <3>5. base.row[j].to # 0 /\ base.row[j].to <= base.row[a].from
      BY <3>3, <3>4 DEF Apart
    <3> QED BY <1>0, <1>2, <1>6, <1>d, <2>2, <3>3, <3>5
  <2> QED BY <2>1, <2>2
<1>e. InOrder(new)
  <2> SUFFICES ASSUME NEW i \in Index, NEW j \in Index, i # j,
                      new.row[i].status # DRAFT, new.row[j].status # DRAFT
               PROVE  Apart(new.row[i], new.row[j])
    BY DEF InOrder
  <2>1. CASE i = T
    BY <1>4, <1>5, <1>d, <2>1 DEF Apart
  <2>2. CASE j = T
    BY <1>4, <1>5, <1>d, <2>2 DEF Apart
  <2>3. CASE i # T /\ j # T
    <3>1. Apart(base.row[i], base.row[j])
      BY <1>8, <2>3 DEF Chain, InOrder
    <3>2. \A k \in Index : k # T /\ base.row[k].to # 0 => new.row[k] = base.row[k]
      BY <1>6 DEF Chain, Marked
    <3>3. new.row[i].from = base.row[i].from /\ new.row[j].from = base.row[j].from
      BY <1>6, <2>3
    <3> QED BY <2>3, <3>1, <3>2, <3>3 DEF Apart
  <2> QED BY <2>1, <2>2, <2>3
<1>f. Linked(new)
  <2> SUFFICES ASSUME NEW i \in Index, new.row[i].status # DRAFT, new.row[i].previous # 0
               PROVE  \E j \in Index : /\ new.row[j].status # DRAFT
                                       /\ Follows(new.row[i], new.row[j])
    BY DEF Linked
  <2>1. CASE i = T
    <3>1. c.active # 0
      BY <1>4, <1>5, <2>1
    <3>2. c.active \in Index /\ c.active <= base.len /\ base.row[c.active].status = ACTIVE
      BY <1>0, <3>1, ActiveNumber
    <3>3. c.active # T
      BY <1>7, <3>2 DEF ACTIVE, DRAFT
    <3>4. base.row[c.active].number = c.active
      BY <3>2 DEF Chain, Numbered
    <3>5. /\ new.row[c.active].status = RETIRED /\ new.row[c.active].to = f
          /\ new.row[c.active].number = c.active
      BY <1>6, <3>2, <3>3, <3>4
    <3>6. Follows(new.row[i], new.row[c.active])
      BY <1>4, <1>5, <2>1, <3>5 DEF Follows
    <3> QED BY <3>2, <3>5, <3>6 DEF RETIRED, DRAFT
  <2>2. CASE i # T
    <3>1. base.row[i].status # DRAFT /\ base.row[i].previous # 0
      BY <1>6, <1>8, <2>2
    <3>2. PICK j \in Index : base.row[j].status # DRAFT /\ Follows(base.row[i], base.row[j])
      BY <3>1 DEF Chain, Linked
    <3>3. j # T /\ new.row[j] = base.row[j]
      BY <1>6, <1>7, <3>2 DEF Follows, RETIRED, ACTIVE
    <3>4. new.row[i].from = base.row[i].from /\ new.row[i].previous = base.row[i].previous
      BY <1>6, <2>2
    <3> QED BY <3>2, <3>3, <3>4 DEF Follows
  <2> QED BY <2>1, <2>2
<1> QED BY <1>a, <1>b, <1>c, <1>e, <1>f DEF Chain, new

-----------------------------------------------------------------------------

(* With callers that take turns only the caller of the step has to be      *)
(* looked at.                                                              *)
LEMMA TurnsKept ==
  ASSUME NEW t \in Callers, \A u \in Callers : u # t => call[u].pc = "idle",
         \A u \in Callers : u # t => call'[u] = call[u],
         Chain(lists[current])', CallKnows(call[t])'
  PROVE  TurnsInv'
<1>1. \A u \in Callers : u # t => CallKnows(call[u])'
  BY DEF CallKnows
<1> QED BY <1>1 DEF TurnsInv

(* What a call knows when it begins.                                       *)
LEMMA BegunKnows ==
  ASSUME NEW t \in Callers, NEW d,
         \/ d = Idle
         \/ \E s \in SUBSET Settings : d = [Idle EXCEPT !.pc = "number", !.settings = s]
         \/ \E n \in Numbers, e \in Numbers, f \in Times :
              d = [Idle EXCEPT !.pc = "list", !.target = n, !.expected = e, !.from = f]
         \/ \E s \in SUBSET Settings, e \in Numbers, f \in Times :
              d = [Idle EXCEPT !.pc = "number", !.settings = s, !.expected = e,
                               !.from = f, !.rollback = TRUE],
         call'[t] = d
  PROVE  CallKnows(call[t])'
<1>1. CASE d = Idle
  BY <1>1 DEF CallKnows, Idle
<1>2. ASSUME NEW s \in SUBSET Settings,
             d = [Idle EXCEPT !.pc = "number", !.settings = s]
      PROVE  CallKnows(call[t])'
  <2>1. d.pc = "number" /\ d.rollback = FALSE
    BY <1>2 DEF Idle
  <2> QED BY <2>1 DEF CallKnows
<1>3. ASSUME NEW n \in Numbers, NEW e \in Numbers, NEW f \in Times,
             d = [Idle EXCEPT !.pc = "list", !.target = n, !.expected = e, !.from = f]
      PROVE  CallKnows(call[t])'
  <2>1. d.pc = "list" /\ d.from = f
    BY <1>3 DEF Idle
  <2> QED BY <2>1 DEF CallKnows
<1>4. ASSUME NEW s \in SUBSET Settings, NEW e \in Numbers, NEW f \in Times,
             d = [Idle EXCEPT !.pc = "number", !.settings = s, !.expected = e,
                              !.from = f, !.rollback = TRUE]
      PROVE  CallKnows(call[t])'
  <2>1. d.pc = "number" /\ d.from = f
    BY <1>4 DEF Idle
  <2> QED BY <2>1 DEF CallKnows
<1> QED BY <1>1, <1>2, <1>3, <1>4

(* Every step of callers that take turns keeps the chain.                  *)
LEMMA TurnsNext == RaceInv /\ serial /\ TurnsInv /\ [Next]_vars => TurnsInv'
<1> SUFFICES ASSUME RaceInv, serial, TurnsInv, [Next]_vars PROVE TurnsInv'
  OBVIOUS
<1>0. /\ TypeOK /\ ActiveInv /\ HoldsInv
      /\ call \in [Callers -> Call] /\ seen \in [Callers -> Numbers]
      /\ lists \in [ListIds -> Versions] /\ current \in ListIds
      /\ \A u \in Callers : call[u] \in Call /\ CallKnows(call[u])
      /\ lists[current] \in Versions /\ Chain(lists[current])
  BY DEF RaceInv, TypeOK, TurnsInv
<1>a. \A r \in Rows(lists[current]) : r \in SettingsVersion
  BY <1>0, ConstantTypes DEF Rows, Versions, Numbers
<1>b. ASSUME NEW t \in Callers, MayBegin(t) \/ call[t].pc # "idle"
      PROVE  \A u \in Callers : u # t => call[u].pc = "idle"
  BY <1>b DEF MayBegin, TurnsInv
<1>c. ASSUME lists' = lists, current' = current PROVE Chain(lists[current])'
  BY <1>0, <1>c
<1>d. ASSUME NEW t \in Callers, NEW d \in Call, call' = [call EXCEPT ![t] = d],
             UNCHANGED <<lists, current>>, MayBegin(t) \/ call[t].pc # "idle",
             CallKnows(call[t])'
      PROVE  TurnsInv'
  BY <1>0, <1>b, <1>c, <1>d, Moved, TurnsKept
<1>e. Idle \in Call
  BY ConstantTypes
<1>f. ASSUME NEW t \in Callers, Return(t), call[t].pc # "idle",
             UNCHANGED <<lists, current>>
      PROVE  TurnsInv'
  <2>1. call'[t] = Idle
    BY <1>0, <1>f DEF Return
  <2>2. CallKnows(call[t])'
    BY <2>1, BegunKnows
  <2> QED BY <1>d, <1>e, <1>f, <2>2 DEF Return
<1>1. ASSUME NEW t \in Callers, NEW n \in Numbers, Look(t, n) PROVE TurnsInv'
  <2>1. /\ UNCHANGED <<lists, current, call>>
    BY <1>1 DEF Look
  <2> QED BY <1>0, <2>1 DEF TurnsInv, CallKnows
<1>2. ASSUME NEW t \in Callers, NEW s \in Settings, BeginDraft(t, s) PROVE TurnsInv'
  <2> DEFINE d == [Idle EXCEPT !.pc = "number", !.settings = {s}]
  <2>1. d \in Call
    BY Begun
  <2>2. /\ MayBegin(t) /\ call' = [call EXCEPT ![t] = d]
        /\ UNCHANGED <<lists, current>>
    BY <1>2 DEF BeginDraft
  <2>3. call'[t] = d
    BY <1>0, <2>2
  <2>4. CallKnows(call[t])'
    BY <2>3, BegunKnows
  <2> QED BY <1>d, <2>1, <2>2, <2>4
<1>3. ASSUME NEW t \in Callers, NEW n \in Numbers, NEW f \in Times, BeginActivate(t, n, f)
      PROVE  TurnsInv'
  <2> DEFINE d == [Idle EXCEPT !.pc = "list", !.target = n, !.expected = seen[t], !.from = f]
  <2>0. seen[t] \in Numbers /\ f \in Instants
    BY <1>0 DEF Instants
  <2>1. d \in Call
    BY Begun, <2>0
  <2>2. /\ MayBegin(t) /\ call' = [call EXCEPT ![t] = d]
        /\ UNCHANGED <<lists, current>>
    BY <1>3 DEF BeginActivate
  <2>3. call'[t] = d
    BY <1>0, <2>2
  <2>4. CallKnows(call[t])'
    BY <2>0, <2>3, BegunKnows
  <2> QED BY <1>d, <2>1, <2>2, <2>4
<1>4. ASSUME NEW t \in Callers, NEW n \in Numbers, NEW f \in Times,
             NEW r \in Rows(lists[current]), BeginRollback(t, n, f, r)
      PROVE  TurnsInv'
  <2> DEFINE d == [Idle EXCEPT !.pc = "number", !.settings = r.settings,
                     !.expected = seen[t], !.from = f, !.rollback = TRUE]
  <2>0. seen[t] \in Numbers /\ f \in Instants /\ r.settings \in SUBSET Settings
    BY <1>0, <1>a DEF SettingsVersion, Instants
  <2>1. d \in Call
    BY Begun, <2>0
  <2>2. /\ MayBegin(t) /\ call' = [call EXCEPT ![t] = d]
        /\ UNCHANGED <<lists, current>>
    BY <1>4 DEF BeginRollback
  <2>3. call'[t] = d
    BY <1>0, <2>2
  <2>4. CallKnows(call[t])'
    BY <2>0, <2>3, BegunKnows
  <2> QED BY <1>d, <2>1, <2>2, <2>4
<1>5. ASSUME NEW t \in Callers, NextVersion(t) PROVE TurnsInv'
  <2>0. call[t].pc = "number" /\ UNCHANGED <<lists, current>>
    BY <1>5 DEF NextVersion
  <2>1. (lists[current].len + 1) \in Numbers
    BY <1>0, <1>5, ConstantTypes DEF NextVersion, Versions, Numbers, Limit
  <2>2. /\ \A u \in Callers : u # t => call'[u] = call[u]
        /\ call'[t].pc = "append" /\ call'[t].number = lists[current].len + 1
        /\ call'[t].rollback = call[t].rollback /\ call'[t].from = call[t].from
    BY <1>0, <1>5, <2>1, NextVersionCall
  <2>3. CallKnows(call[t])'
    BY <1>0, <2>0, <2>2 DEF CallKnows
  <2> QED BY <1>b, <1>c, <2>0, <2>2, <2>3, TurnsKept
<1>6. ASSUME NEW t \in Callers, AppendDraft(t) PROVE TurnsInv'
  <2> DEFINE c == call[t]
             r == [NoVersion EXCEPT !.number = c.number, !.settings = c.settings]
             d == IF c.rollback THEN [Idle EXCEPT !.pc = "list", !.target = c.number,
                                        !.expected = c.expected, !.from = c.from]
                                ELSE Idle
  <2>0. /\ c.number \in Numbers /\ c.expected \in Numbers
        /\ c.pc = "append" /\ c.number = lists[current].len + 1
        /\ c.rollback => c.from \in Times
    BY <1>0, <1>6 DEF Call, AppendDraft, CallKnows
  <2>1. /\ r \in SettingsVersion /\ r.status = DRAFT /\ r.previous = 0 /\ r.to = 0
        /\ r.number = lists[current].len + 1
    BY <1>0, <2>0, ConstantTypes DEF Call, SettingsVersion, NoVersion
  <2>2. /\ AppendRow(current, r) /\ call' = [call EXCEPT ![t] = d]
        /\ UNCHANGED <<serial, current, seen>>
    BY <1>6 DEF AppendDraft
  <2>3. lists[current].len < MaxRows
    BY <1>0, <1>6, ConstantTypes DEF AppendDraft, Limit, Versions, Numbers
  <2>4. call'[t] = d /\ \A u \in Callers : u # t => call'[u] = call[u]
    BY <1>0, <2>2
  <2>5. CallKnows(call[t])'
    BY <2>0, <2>4, BegunKnows
  <2> HIDE DEF r, d
  <2>6. /\ lists' \in [ListIds -> Versions]
        /\ lists'[current].len = lists[current].len + 1
        /\ \A i \in Index :
             lists'[current].row[i] = IF i = lists[current].len + 1 THEN r
                                      ELSE lists[current].row[i]
    BY <1>0, <2>1, <2>2, <2>3, Appended
  <2>7. lists'[current] \in Versions
    BY <1>0, <2>6
  <2>8. Chain(lists'[current])
    BY <1>0, <2>1, <2>3, <2>6, <2>7, ChainAppended
  <2>9. Chain(lists[current])'
    BY <2>2, <2>8
  <2> QED BY <1>b, <2>0, <2>4, <2>5, <2>9, TurnsKept
<1>7. ASSUME NEW t \in Callers, TakeList(t) PROVE TurnsInv'
  <2>0. call[t].pc = "list" /\ UNCHANGED <<lists, current>> /\ current \in ListIds \cup {0}
    BY <1>0, <1>7 DEF TakeList
  <2>1. /\ \A u \in Callers : u # t => call'[u] = call[u]
        /\ call'[t].pc = "check" /\ call'[t].list = current /\ call'[t].from = call[t].from
    BY <1>0, <1>7, <2>0, TakeListCall
  <2>2. CallKnows(call[t])'
    BY <1>0, <2>0, <2>1 DEF CallKnows
  <2> QED BY <1>b, <1>c, <2>0, <2>1, <2>2, TurnsKept
<1>8. ASSUME NEW t \in Callers, NEW n \in Numbers, CheckActive(t, n) PROVE TurnsInv'
  <2>0. call[t].pc = "check" /\ UNCHANGED <<lists, current>>
    BY <1>8 DEF CheckActive
  <2>1. CASE call' = [call EXCEPT ![t].pc = "target", ![t].active = n]
             /\ ~Regresses(lists[current], n, call[t].from)
    <3>1. /\ \A u \in Callers : u # t => call'[u] = call[u]
          /\ call'[t].pc = "target" /\ call'[t].active = n /\ call'[t].list = call[t].list
          /\ call'[t].from = call[t].from
      BY <1>0, <2>1, CheckActiveCall
    <3>2. call[t].list = current /\ call[t].from \in Times
      BY <1>0, <2>0 DEF CallKnows
    <3>3. IsActiveNumber(lists[current], n)
      BY <1>8 DEF CheckActive
    <3>4. \A i \in Index : lists[current].row[i].status = ACTIVE =>
            lists[current].row[i].from <= call[t].from
      BY <1>0, <2>1, <3>2, <3>3, StartChecked
    <3>5. CallKnows(call[t])'
      BY <2>0, <3>1, <3>2, <3>3, <3>4 DEF CallKnows
    <3> QED BY <1>b, <1>c, <2>0, <3>1, <3>5, TurnsKept
  <2> QED BY <1>8, <1>f, <2>0, <2>1 DEF CheckActive
<1>9. ASSUME NEW t \in Callers, NEW r \in Rows(lists[current]), ReadTarget(t, r)
      PROVE  TurnsInv'
  <2>0. call[t].pc = "target" /\ UNCHANGED <<lists, current>>
    BY <1>9 DEF ReadTarget
  <2>1. CASE call' = [call EXCEPT ![t].pc = "build", ![t].row = r] /\ r.status = DRAFT
    <3>1. /\ \A u \in Callers : u # t => call'[u] = call[u]
          /\ call'[t].pc = "build" /\ call'[t].row = r /\ call'[t].list = call[t].list
          /\ call'[t].from = call[t].from /\ call'[t].active = call[t].active
          /\ call'[t].target = call[t].target
      BY <1>0, <1>a, <2>1, ReadTargetCall
    <3>2. call[t].target \in 1..lists[current].len /\ r = lists[current].row[call[t].target]
      <4>1. IsVersion(lists[current], call[t].target, r)
        BY <1>9 DEF ReadTarget
      <4> QED BY <1>0, <4>1, FirstIsOnly DEF Chain
    <3>3. /\ call[t].list = current /\ call[t].from \in Times
          /\ IsActiveNumber(lists[current], call[t].active)
          /\ \A i \in Index : lists[current].row[i].status = ACTIVE =>
               lists[current].row[i].from <= call[t].from
      BY <1>0, <2>0 DEF CallKnows
    <3>4. CallKnows(call[t])'
      BY <2>0, <2>1, <3>1, <3>2, <3>3 DEF CallKnows
    <3> QED BY <1>b, <1>c, <2>0, <3>1, <3>4, TurnsKept
  <2> QED BY <1>9, <1>f, <2>0, <2>1 DEF ReadTarget
<1>10. ASSUME NEW t \in Callers, TargetUnknown(t) PROVE TurnsInv'
  BY <1>10, <1>f DEF TargetUnknown
<1>11. ASSUME NEW t \in Callers, BuildList(t) PROVE TurnsInv'
  <2> DEFINE c == call[t]
  <2>0. c.pc = "build" /\ UNCHANGED <<lists, current>>
    BY <1>11 DEF BuildList
  <2>1. /\ c \in Call /\ c.list = current /\ c.list \in ListIds /\ c.from \in Times
        /\ IsActiveNumber(lists[current], c.active)
        /\ \A i \in Index : lists[current].row[i].status = ACTIVE =>
             lists[current].row[i].from <= c.from
        /\ c.target \in 1..lists[current].len
        /\ c.row = lists[current].row[c.target] /\ c.row.status = DRAFT
    BY <1>0, <2>0 DEF CallKnows
  <2>2. Built(c) \in Versions
    BY <1>0, <2>1, BuiltList
  <2>3. Chain(Built(c))
    BY <1>0, <2>1, ChainBuilt
  <2>4. /\ \A u \in Callers : u # t => call'[u] = call[u]
        /\ call'[t].pc = "install" /\ call'[t].built = Built(c)
        /\ call'[t].rollback = c.rollback /\ call'[t].from = c.from
    BY <1>0, <1>11, <2>2, BuildListCall
  <2>5. CallKnows(call[t])'
    BY <2>1, <2>3, <2>4 DEF CallKnows
  <2> QED BY <1>b, <1>c, <2>0, <2>4, <2>5, TurnsKept
<1>12. ASSUME NEW t \in Callers, InstallList(t) PROVE TurnsInv'
  <2>0. call[t].pc = "install" /\ Chain(call[t].built) /\ current' = current + 1
    BY <1>0, <1>12 DEF InstallList, CallKnows
  <2>1. call'[t] = Idle /\ \A u \in Callers : u # t => call'[u] = call[u]
    BY <1>0, <1>12 DEF InstallList, Return
  <2>2. CallKnows(call[t])'
    BY <2>1, BegunKnows
  <2>3. current + 1 \in ListIds
    BY <1>0, <1>12, ConstantTypes DEF InstallList, ListIds, Limit
  <2>4. lists'[current'] = call[t].built
    BY <1>0, <1>12, <2>0, <2>3 DEF InstallList
  <2>5. Chain(lists[current])'
    BY <2>0, <2>4
  <2> QED BY <1>b, <2>0, <2>1, <2>2, <2>5, TurnsKept
<1>13. CASE UNCHANGED vars
  BY <1>0, <1>13 DEF vars, TurnsInv, CallKnows
<1> QED BY <1>1, <1>2, <1>3, <1>4, <1>5, <1>6, <1>7, <1>8, <1>9, <1>10, <1>11, <1>12,
          <1>13 DEF Next, Step

-----------------------------------------------------------------------------

(* The empty store satisfies the invariant.                                *)
LEMMA InitInv == Init => SettingsInv
<1> SUFFICES ASSUME Init PROVE SettingsInv
  OBVIOUS
<1>1. TypeOK
  BY ConstantTypes DEF Init, TypeOK, ListIds, Numbers
<1>2. ActiveInv /\ HoldsInv
  BY NothingActive DEF Init, ActiveInv, HoldsInv, Idle
<1>3. Chain(EmptyList)
  <2>1. \A i \in Index : EmptyList.row[i] = NoVersion /\ ~(i <= EmptyList.len)
    BY ConstantTypes DEF EmptyList, Index
  <2> QED BY <2>1 DEF Chain, Numbered, Marked, Succeeded, InOrder, Linked, NoVersion,
                      DRAFT, ACTIVE, RETIRED
<1>4. lists[current] = EmptyList
  BY ConstantTypes DEF Init, ListIds
<1>5. TurnsInv
  BY <1>3, <1>4 DEF Init, TurnsInv, CallKnows, Idle
<1> QED BY <1>1, <1>2, <1>5 DEF SettingsInv, RaceInv

(* The invariant holds of the settings store in every reachable state.     *)
THEOREM SettingsInvariance == Spec => []SettingsInv
<1>1. SettingsInv /\ [Next]_vars => SettingsInv'
  <2>1. [Next]_vars => serial' = serial
    BY DEF Next, Step, Look, BeginDraft, BeginActivate, BeginRollback, NextVersion,
           AppendDraft, TakeList, CheckActive, ReadTarget, TargetUnknown, BuildList,
           InstallList, vars
  <2> QED BY <2>1, RaceNext, TurnsNext DEF SettingsInv
<1> QED BY <1>1, InitInv, PTL DEF Spec

(* However drafts, activations and rollbacks race, the store is well typed *)
(* and holds at most one active version (SettingsStore.activate).          *)
THEOREM OneActiveVersionHolds == Spec => []VersionsInv
<1>1. SettingsInv => VersionsInv
  <2> SUFFICES ASSUME SettingsInv PROVE VersionsInv
    OBVIOUS
  <2>1. /\ TypeOK /\ lists[current] \in Versions /\ OneActive(lists[current])
    BY DEF SettingsInv, RaceInv, ActiveInv, TypeOK
  <2>2. \A i \in 1..lists[current].len : i \in Index
    BY <2>1, ConstantTypes DEF Index, Versions, Numbers
  <2> QED BY <2>1, <2>2 DEF VersionsInv, OneActiveVersion, Store, Rows, OneActive
<1> QED BY <1>1, SettingsInvariance, PTL

(* Callers that take turns leave a history without overlap in which every  *)
(* version but the first names the one that was retired for it             *)
(* (SettingsStore.activate, rollback).                                     *)
THEOREM HistoryHolds == Spec => []HistoryIsAChain
<1>1. SettingsInv => HistoryIsAChain
  <2> SUFFICES ASSUME SettingsInv, serial PROVE HistoryIsAChain
    BY DEF HistoryIsAChain
  <2> DEFINE list == lists[current]
             inForce == {r \in Store : r.status # DRAFT}
  <2>1. list \in Versions /\ Chain(list)
    BY DEF SettingsInv, RaceInv, TypeOK, TurnsInv
  <2>2. \A r \in inForce : \E i \in Index : r = list.row[i] /\ list.row[i].status # DRAFT
    BY <2>1, ConstantTypes DEF Store, Rows, Index, Versions, Numbers
  <2>3. \A i \in Index : list.row[i].status # DRAFT => list.row[i] \in inForce
    BY <2>1, WithinLength DEF Chain, Store, Rows
  <2> HIDE DEF list, inForce
  <2>4. \A r1, r2 \in inForce : r1 # r2 => Apart(r1, r2)
    BY <2>1, <2>2 DEF Chain, InOrder
  <2>5. \A r \in inForce : r.previous # 0 => \E p \in inForce : Follows(r, p)
    BY <2>1, <2>2, <2>3 DEF Chain, Linked
  <2> QED BY <2>4, <2>5 DEF HistoryIsAChain, inForce
<1> QED BY <1>1, SettingsInvariance, PTL

-----------------------------------------------------------------------------
(* CRM: the inductive invariant                                            *)

Statuses == LeadStatuses \cup QuotationStatuses \cup {"any"}

WalkRecord ==
  [pc: {"page", "count", "done"}, unit: Units, kind: {"LEAD", "QUOTATION"}, status: Statuses,
   limit: Nat \ {0}, offset: Nat, seen: Seq(Nat), total: Nat, fetched: Nat, due: SUBSET Nat]

(* The unit may be given to the owner, now or at an earlier moment         *)
Owned(unit, owner) ==
  /\ unit \in Units /\ owner \in Actors
  /\ unit \in everAssigned[owner]
  /\ adapter = "erpnext" => unit \in Scope

(* A write that was decided and is still to be sent                        *)
PendingOK(task) ==
  /\ task.pc = "send"
  /\ task.op = "create" => Owned(task.unit, task.actor) /\ task.contact \in Contacts
  /\ task.op = "transfer" => task.lead \in DOMAIN leads /\ Owned(task.target, task.owner)
  /\ task.op = "archive" => task.lead \in DOMAIN leads
  /\ task.op = "quote" => task.lead \in DOMAIN leads /\ task.unit \in Units

CrmCallOK(task) == task = NoCall \/ PendingOK(task) \/ task \in WalkRecord

(* The first n of a sequence are those of another                          *)
Starts(s, t) == Len(s) <= Len(t) /\ \A i \in 1..Len(s) : s[i] = t[i]

(* How far a walk has come through the list it walks                       *)
WalkOK(walk, list) ==
  /\ Starts(walk.seen, list)
  /\ walk.due \subseteq ToSet(list)
  /\ walk.pc = "page" =>
       /\ Len(walk.seen) = walk.offset /\ walk.total >= walk.offset
       /\ walk.offset > 0 => walk.total > walk.offset
  /\ walk.pc = "count" =>
       /\ walk.fetched <= walk.limit + 1
       /\ walk.offset + walk.fetched <= Len(list)
       /\ IF walk.fetched > walk.limit THEN Len(walk.seen) = walk.offset + walk.limit
          ELSE Len(walk.seen) = walk.offset + walk.fetched /\ walk.due \subseteq ToSet(walk.seen)
  /\ walk.pc = "done" => walk.due \subseteq ToSet(walk.seen) /\ walk.total >= Len(walk.seen)

LeadOK(lead) == lead \in LeadRecord /\ Owned(lead.unit, lead.owner)

LeadsOK(ls) == ls \in Seq(LeadRecord) /\ Len(ls) <= MaxLeads /\ \A l \in DOMAIN ls : LeadOK(ls[l])

QuotationsOK(qs, ls) ==
  /\ qs \in Seq(QuotationRecord) /\ Len(qs) <= MaxQuotes
  /\ \A q \in DOMAIN qs : qs[q].lead \in DOMAIN ls

RosterOK ==
  /\ adapter \in {"fixture", "erpnext"}
  /\ assigned \in [Actors -> SUBSET Units] /\ everAssigned \in [Actors -> SUBSET Units]
  /\ \A a \in Actors : assigned[a] \subseteq everAssigned[a]

CallsOK ==
  /\ DOMAIN calls = Clients
  /\ \A c \in Clients : CrmCallOK(calls[c])
  /\ \A c \in Clients : calls[c].pc = "send" => adapter = "erpnext"

WalksOK ==
  \A c \in Clients :
    calls[c] \in WalkRecord => WalkOK(calls[c], Walked(calls[c], leads, quotations))

CrmIInv == RosterOK /\ LeadsOK(leads) /\ QuotationsOK(quotations, leads) /\ CallsOK /\ WalksOK

-----------------------------------------------------------------------------
(* Ascending is a recursive function on 0..n                               *)

AscendingFn(S, n, g) ==
  g = [k \in 0..n |-> IF k = 0 THEN <<>>
                      ELSE IF k \in S THEN Append(g[k - 1], k) ELSE g[k - 1]]

(* A set of naturals has a least element.                                  *)
LEMMA LeastOf ==
  ASSUME NEW T, T \subseteq Nat, T # {}
  PROVE  \E x \in T : \A y \in T : x <= y
<1>1. PICK x \in T : \A y \in T : ~ (<<y, x>> \in OpToRel(<, Nat))
  BY NatLessThanWellFounded, WFMin
<1>2. \A y \in T : ~(y < x)
  BY <1>1 DEF OpToRel
<1> QED BY <1>2

(* The recursive function exists for every n: a least n without one would  *)
(* have one, made from that of its predecessor.                            *)
LEMMA AscendingExists ==
  ASSUME NEW S
  PROVE  \A n \in Nat : \E g : AscendingFn(S, n, g)
<1> DEFINE Bad == {n \in Nat : ~ \E g : AscendingFn(S, n, g)}
<1> SUFFICES ASSUME Bad # {} PROVE FALSE
  OBVIOUS
<1>1. PICK n \in Bad : \A m \in Bad : n <= m
  BY LeastOf
<1>2. n \in Nat /\ ~ \E g : AscendingFn(S, n, g)
  BY <1>1
<1>3. CASE n = 0
  <2> DEFINE g == [k \in 0..0 |-> <<>>]
  <2>1. g = [k \in 0..0 |-> IF k = 0 THEN <<>>
                            ELSE IF k \in S THEN Append(g[k - 1], k) ELSE g[k - 1]]
    OBVIOUS
  <2> QED
    BY <1>2, <1>3, <2>1 DEF AscendingFn
<1>4. CASE n # 0
  <2>1. n - 1 \in Nat /\ n - 1 \notin Bad
    <3> HIDE DEF Bad
    <3> QED
      BY <1>1, <1>2, <1>4
  <2>2. PICK h : AscendingFn(S, n - 1, h)
    BY <2>1
  <2>3. \A k \in 0..(n - 1) :
          h[k] = IF k = 0 THEN <<>> ELSE IF k \in S THEN Append(h[k - 1], k) ELSE h[k - 1]
    BY <2>2 DEF AscendingFn
  <2> DEFINE g == [k \in 0..n |-> IF k = 0 THEN <<>>
                                  ELSE IF k \in S THEN Append(h[k - 1], k) ELSE h[k - 1]]
  <2>4. \A k \in 0..(n - 1) : g[k] = h[k]
    BY <1>2, <2>3
  <2>5. \A k \in 0..n : k # 0 => g[k - 1] = h[k - 1]
    <3> HIDE DEF g
    <3>1. \A k \in 0..n : k # 0 => k - 1 \in 0..(n - 1)
      BY <1>2
    <3> QED
      BY <2>4, <3>1
  <2>6. g = [k \in 0..n |-> IF k = 0 THEN <<>>
                            ELSE IF k \in S THEN Append(g[k - 1], k) ELSE g[k - 1]]
    BY <2>5
  <2> QED
    BY <1>2, <2>6 DEF AscendingFn
<1> QED
  BY <1>3, <1>4

(* So the list the model is written with obeys the equation.               *)
LEMMA AscendingIs ==
  ASSUME NEW S, NEW n \in Nat
  PROVE  \E g : AscendingFn(S, n, g) /\ Ascending(S, n) = g[n]
<1> DEFINE g == CHOOSE h : AscendingFn(S, n, h)
<1>1. AscendingFn(S, n, g)
  BY AscendingExists
<1>2. Ascending(S, n) = g[n]
  BY DEF Ascending, AscendingFn
<1> QED
  BY <1>1, <1>2

(* It lists the numbers of S up to n, at most n of them.                   *)
LEMMA AscendingLists ==
  ASSUME NEW S, NEW n \in Nat
  PROVE  /\ Ascending(S, n) \in Seq(1..n)
         /\ Len(Ascending(S, n)) <= n
         /\ ToSet(Ascending(S, n)) = S \cap 1..n
<1>1. PICK g : AscendingFn(S, n, g) /\ Ascending(S, n) = g[n]
  BY AscendingIs
<1>2. \A k \in 0..n :
        g[k] = IF k = 0 THEN <<>> ELSE IF k \in S THEN Append(g[k - 1], k) ELSE g[k - 1]
  BY <1>1 DEF AscendingFn
<1> DEFINE Good(k) == g[k] \in Seq(1..k) /\ Len(g[k]) <= k /\ ToSet(g[k]) = S \cap 1..k
           Bad == {k \in 0..n : ~Good(k)}
<1>3. Bad = {}
  <2> SUFFICES ASSUME Bad # {} PROVE FALSE
    OBVIOUS
  <2>0. Bad \subseteq Nat
    OBVIOUS
  <2>1. PICK k \in Bad : \A m \in Bad : k <= m
    <3> HIDE DEF Bad
    <3> QED
      BY <2>0, LeastOf
  <2>2. k \in 0..n /\ ~Good(k)
    OBVIOUS
  <2>3. k # 0
    <3>1. g[0] = <<>>
      BY <1>2
    <3>2. ToSet(<<>>) = {} /\ 1..0 = {} /\ <<>> \in Seq(1..0) /\ Len(<<>>) <= 0
      BY DEF ToSet
    <3>3. Good(0)
      BY <3>1, <3>2
    <3> HIDE DEF Good
    <3> QED
      BY <2>2, <3>3
  <2>4. k - 1 \in 0..n /\ Good(k - 1)
    <3>1. k - 1 \in 0..n /\ k - 1 \notin Bad
      <4> HIDE DEF Bad
      <4> QED
        BY <2>1, <2>2, <2>3
    <3> QED
      BY <3>1
  <2> DEFINE p == g[k - 1]
  <2>5. g[k] = IF k \in S THEN Append(p, k) ELSE p
    BY <1>2, <2>2, <2>3
  <2>6. p \in Seq(1..(k - 1)) /\ Len(p) <= k - 1 /\ ToSet(p) = S \cap 1..(k - 1)
    BY <2>4
  <2> HIDE DEF p, Good, Bad
  <2>7. 1..(k - 1) \subseteq 1..k /\ k \in 1..k /\ 1..k = (1..(k - 1)) \cup {k}
    BY <2>2, <2>3
  <2>8. p \in Seq(1..k)
    BY <2>6, <2>7
  <2>9. CASE k \in S
    <3>1. g[k] \in Seq(1..k) /\ Len(g[k]) <= k
      BY <2>2, <2>5, <2>6, <2>7, <2>8, <2>9
    <3>2. ToSet(Append(p, k)) = ToSet(p) \cup {k}
      <4>1. \A i \in DOMAIN Append(p, k) : Append(p, k)[i] \in ToSet(p) \cup {k}
        BY <2>8 DEF ToSet
      <4>2. \A i \in DOMAIN p : i \in DOMAIN Append(p, k) /\ Append(p, k)[i] = p[i]
        BY <2>8
      <4>3. Len(p) + 1 \in DOMAIN Append(p, k) /\ Append(p, k)[Len(p) + 1] = k
        BY <2>8
      <4> QED
        BY <4>1, <4>2, <4>3 DEF ToSet
    <3> QED
      BY <2>2, <2>5, <2>6, <2>7, <2>9, <3>1, <3>2 DEF Good
  <2>10. CASE k \notin S
    BY <2>2, <2>3, <2>5, <2>6, <2>7, <2>8, <2>10 DEF Good
  <2> QED
    BY <2>9, <2>10
<1>4. n \in 0..n
  OBVIOUS
<1>5. Good(n)
  BY <1>3, <1>4
<1> QED
  BY <1>1, <1>5

-----------------------------------------------------------------------------
(* Walks *)

(* A prefix, element by element.                                           *)
LEMMA PrefixStarts ==
  ASSUME NEW s \in Seq(Nat), NEW t \in Seq(Nat)
  PROVE  IsPrefix(s, t) <=> Starts(s, t)
<1>1. CASE Len(s) > Len(t)
  BY <1>1 DEF IsPrefix, Starts
<1>2. CASE Len(s) <= Len(t)
  <2> DEFINE m == Len(s)
             a == SubSeq(s, 1, m)
             b == SubSeq(t, 1, m)
  <2>1. a \in Seq(Nat) /\ b \in Seq(Nat) /\ Len(a) = m /\ Len(b) = m
    BY <1>2
  <2>2. \A i \in 1..m : a[i] = s[i] /\ b[i] = t[i]
    BY <1>2
  <2> HIDE DEF a, b
  <2>3. a = b <=> \A i \in 1..m : a[i] = b[i]
    BY <2>1, SeqEqual
  <2>4. a = b <=> \A i \in 1..m : s[i] = t[i]
    BY <2>2, <2>3
  <2> QED
    BY <1>2, <2>4 DEF a, b, IsPrefix, Starts
<1> QED
  BY <1>1, <1>2

(* What is matched is a list of numbers of leads or quotations.            *)
LEMMA ListedIs ==
  ASSUME NEW R, NEW ls \in Seq(R), NEW unit, NEW status
  PROVE  /\ ListedLeads(ls, unit, status) \in Seq(Nat)
         /\ Len(ListedLeads(ls, unit, status)) <= Len(ls)
         /\ ToSet(ListedLeads(ls, unit, status))
              = {l \in DOMAIN ls : ls[l].unit = unit /\ LeadMatches(ls[l], status)}
         /\ ListedQuotations(ls, unit, status) \in Seq(Nat)
         /\ ToSet(ListedQuotations(ls, unit, status))
              = {q \in DOMAIN ls : ls[q].unit = unit /\ QuotationMatches(ls[q], status)}
<1> DEFINE L == {l \in DOMAIN ls : ls[l].unit = unit /\ LeadMatches(ls[l], status)}
           Q == {q \in DOMAIN ls : ls[q].unit = unit /\ QuotationMatches(ls[q], status)}
           n == Len(ls)
<1>1. n \in Nat /\ L \cap 1..n = L /\ Q \cap 1..n = Q
  OBVIOUS
<1>2. ListedLeads(ls, unit, status) = Ascending(L, n)
      /\ ListedQuotations(ls, unit, status) = Ascending(Q, n)
  BY DEF ListedLeads, ListedQuotations
<1>3. 1..n \subseteq Nat
  OBVIOUS
<1>4. \A s \in Seq(1..n) : s \in Seq(Nat)
  BY <1>3
<1> HIDE DEF L, Q, n
<1>5. /\ Ascending(L, n) \in Seq(Nat) /\ Len(Ascending(L, n)) <= n
      /\ ToSet(Ascending(L, n)) = L
      /\ Ascending(Q, n) \in Seq(Nat) /\ ToSet(Ascending(Q, n)) = Q
  BY <1>1, <1>4, AscendingLists
<1> QED
  BY <1>2, <1>5 DEF L, Q, n

(* What a walk lists is a sequence of numbers.                             *)
LEMMA WalkedIs ==
  ASSUME NEW R, NEW ls \in Seq(R), NEW T, NEW qs \in Seq(T), NEW walk
  PROVE  Walked(walk, ls, qs) \in Seq(Nat)
BY ListedIs DEF Walked, Matched

(* A walk goes on in a list that has only grown at its end.                *)
LEMMA WalkGrows ==
  ASSUME NEW s \in Seq(Nat), NEW t \in Seq(Nat), Starts(s, t),
         NEW walk \in WalkRecord, WalkOK(walk, s)
  PROVE  WalkOK(walk, t)
<1>1. walk.seen \in Seq(Nat) /\ walk.offset \in Nat /\ walk.fetched \in Nat
  BY DEF WalkRecord
<1>2. Starts(walk.seen, t)
  BY <1>1 DEF WalkOK, Starts
<1>3. ToSet(s) \subseteq ToSet(t)
  BY DEF Starts, ToSet
<1>4. Len(s) <= Len(t) /\ Len(s) \in Nat /\ Len(t) \in Nat
  BY DEF Starts
<1> QED
  BY <1>1, <1>2, <1>3, <1>4 DEF WalkOK

(* The list a walk goes through after a step.                              *)
LEMMA WalkedLater ==
  ASSUME adapter' = adapter
  PROVE  \A c \in Clients :
           Walked(calls[c], leads, quotations)' = Walked(calls'[c], leads', quotations')
BY DEF Walked, Matched, ListedLeads, ListedQuotations, LeadMatches, QuotationMatches

-----------------------------------------------------------------------------
(* Steps                                                                   *)

(* What a call may still write stays allowed while leads are only added or  *)
(* changed in place and assignments ever made are remembered.               *)
LEMMA CallStaysOK ==
  ASSUME adapter' = adapter, DOMAIN leads \subseteq DOMAIN leads',
         \A a \in Actors : everAssigned[a] \subseteq everAssigned'[a]
  PROVE  \A task : CrmCallOK(task) => CrmCallOK(task)'
BY DEF CrmCallOK, PendingOK, Owned

(* The calls after a write: ended, or as before and undisturbed.           *)
LEMMA UndisturbedWalk ==
  ASSUME NEW task \in WalkRecord, NEW ls, NEW qs, Undisturbed(task, ls, qs) # NoCall
  PROVE  IsPrefix(Walked(task, leads, quotations), Walked(task, ls, qs))
BY DEF Undisturbed, WalkRecord, Walking

(* A write that keeps leads and quotations in order keeps everything: it    *)
(* ends the walks it disturbs, and the others go on in a longer list.       *)
LEMMA PutKeeps ==
  ASSUME CrmIInv, NEW ls, NEW qs, LeadsOK(ls), QuotationsOK(qs, ls),
         DOMAIN leads \subseteq DOMAIN ls, NEW mine, Put(ls, qs, mine)
  PROVE  CrmIInv'
<1>1. /\ leads' = ls /\ quotations' = qs
      /\ calls' = [c \in Clients |-> IF c \in mine THEN NoCall ELSE Undisturbed(calls[c], ls, qs)]
      /\ adapter' = adapter /\ assigned' = assigned /\ everAssigned' = everAssigned
  BY DEF Put
<1>2. \A c \in Clients : calls'[c] = NoCall \/ calls'[c] = calls[c]
  BY <1>1 DEF Undisturbed
<1>3. RosterOK'
  BY <1>1 DEF CrmIInv, RosterOK
<1>4. LeadsOK(leads)' /\ QuotationsOK(quotations, leads)'
  BY <1>1 DEF LeadsOK, LeadOK, Owned, QuotationsOK
<1>5. CallsOK'
  <2>1. \A task : CrmCallOK(task) => CrmCallOK(task)'
    BY <1>1, CallStaysOK
  <2>2. DOMAIN calls' = Clients
    BY <1>1
  <2>3. ASSUME NEW c \in Clients
        PROVE  CrmCallOK(calls[c])'
    <3>1. CASE calls'[c] = NoCall
      BY <3>1 DEF CrmCallOK
    <3>2. CASE calls'[c] = calls[c]
      BY <2>1, <3>2 DEF CrmIInv, CallsOK
    <3> QED
      BY <1>2, <3>1, <3>2
  <2>4. \A c \in Clients : calls'[c].pc = "send" => adapter' = "erpnext"
    BY <1>1, <1>2 DEF CrmIInv, CallsOK, NoCall
  <2> QED
    BY <2>2, <2>3, <2>4 DEF CallsOK
<1>6. WalksOK'
  <2> SUFFICES ASSUME NEW c \in Clients, calls'[c] \in WalkRecord
               PROVE  WalkOK(calls'[c], Walked(calls'[c], leads', quotations'))
    BY <1>1, WalkedLater DEF WalksOK
  <2> DEFINE w == calls[c]
             s == Walked(w, leads, quotations)
             t == Walked(w, ls, qs)
  <2>1. calls'[c] # NoCall
    BY DEF NoCall, WalkRecord
  <2>2. calls'[c] = w /\ w \in WalkRecord
    BY <1>2, <2>1
  <2>3. IsPrefix(s, t)
    <3>1. calls'[c] = Undisturbed(w, ls, qs)
      BY <1>1, <2>1
    <3> QED
      BY <2>1, <2>2, <3>1, UndisturbedWalk
  <2>4. s \in Seq(Nat) /\ t \in Seq(Nat)
    BY WalkedIs DEF CrmIInv, LeadsOK, QuotationsOK
  <2>5. WalkOK(w, s)
    BY <2>2 DEF CrmIInv, WalksOK
  <2> HIDE DEF w, s, t
  <2>6. WalkOK(w, t)
    BY <2>2, <2>3, <2>4, <2>5, PrefixStarts, WalkGrows
  <2> QED
    BY <1>1, <2>2, <2>6 DEF w, t
<1> QED
  BY <1>3, <1>4, <1>5, <1>6 DEF CrmIInv

(* A step that only moves one call.                                        *)
LEMMA GotoKeeps ==
  ASSUME CrmIInv, NEW c \in Clients, NEW task, Goto(c, task), CrmCallOK(task),
         task.pc = "send" => adapter = "erpnext",
         task \in WalkRecord => WalkOK(task, Walked(task, leads, quotations))
  PROVE  CrmIInv'
<1>1. /\ calls' = [calls EXCEPT ![c] = task]
      /\ adapter' = adapter /\ assigned' = assigned /\ everAssigned' = everAssigned
      /\ leads' = leads /\ quotations' = quotations
  BY DEF Goto
<1>2. DOMAIN calls = Clients
  BY DEF CrmIInv, CallsOK
<1>3. \A d \in Clients : calls'[d] = IF d = c THEN task ELSE calls[d]
  BY <1>1, <1>2
<1>4. RosterOK' /\ LeadsOK(leads)' /\ QuotationsOK(quotations, leads)'
  BY <1>1 DEF CrmIInv, RosterOK, LeadsOK, LeadOK, Owned, QuotationsOK
<1>5. CallsOK'
  <2>1. \A x : CrmCallOK(x) => CrmCallOK(x)'
    BY <1>1, CallStaysOK
  <2>2. DOMAIN calls' = Clients
    BY <1>1, <1>2
  <2>3. ASSUME NEW d \in Clients
        PROVE  CrmCallOK(calls[d])'
    <3>1. CrmCallOK(calls'[d])
      BY <1>3 DEF CrmIInv, CallsOK
    <3> QED
      BY <2>1, <3>1
  <2>4. \A d \in Clients : calls'[d].pc = "send" => adapter' = "erpnext"
    BY <1>1, <1>3 DEF CrmIInv, CallsOK
  <2> QED
    BY <2>2, <2>3, <2>4 DEF CallsOK
<1>6. WalksOK'
  <2> SUFFICES ASSUME NEW d \in Clients, calls'[d] \in WalkRecord
               PROVE  WalkOK(calls'[d], Walked(calls'[d], leads, quotations))
    BY <1>1, WalkedLater DEF WalksOK
  <2>1. CASE d = c
    BY <1>3, <2>1
  <2>2. CASE d # c
    BY <1>3, <2>2 DEF CrmIInv, WalksOK
  <2> QED
    BY <2>1, <2>2
<1> QED
  BY <1>4, <1>5, <1>6 DEF CrmIInv

(* A new lead belongs to its creator, who was assigned to the unit.        *)
LEMMA AddLeadKeeps ==
  ASSUME CrmIInv, NEW actor, NEW unit, NEW contact \in Contacts, NEW mine,
         Owned(unit, actor), AddLead(actor, unit, contact, mine)
  PROVE  CrmIInv'
<1> DEFINE x == NewLead(actor, unit, contact)
           ls == Append(leads, x)
<1>1. leads \in Seq(LeadRecord) /\ Len(leads) < MaxLeads
  BY DEF CrmIInv, LeadsOK, AddLead
<1>2. x \in LeadRecord /\ x.unit = unit /\ x.owner = actor
  BY CrmBounds DEF NewLead, LeadRecord, Owned
<1>3. Put(ls, quotations, mine)
  BY DEF AddLead, Write
<1>4. LeadOK(x)
  BY <1>2 DEF LeadOK
<1> HIDE DEF x
<1>5. ls \in Seq(LeadRecord) /\ Len(ls) <= MaxLeads /\ DOMAIN leads \subseteq DOMAIN ls
      /\ \A l \in DOMAIN ls : ls[l] = x \/ (l \in DOMAIN leads /\ ls[l] = leads[l])
  <2>1. x \in LeadRecord /\ MaxLeads \in Nat
    BY <1>4, CrmBounds DEF LeadOK
  <2>2. ls \in Seq(LeadRecord) /\ Len(ls) = Len(leads) + 1
    BY <1>1, <2>1
  <2>3. \A l \in 1..Len(leads) : ls[l] = leads[l]
    BY <1>1
  <2>4. ls[Len(leads) + 1] = x
    BY <1>1
  <2>5. DOMAIN leads = 1..Len(leads) /\ DOMAIN ls = 1..(Len(leads) + 1) /\ Len(leads) \in Nat
    BY <1>1, <2>2
  <2> HIDE DEF ls
  <2> QED
    BY <1>1, <2>1, <2>2, <2>3, <2>4, <2>5
<1> HIDE DEF ls
<1>6. LeadsOK(ls)
  BY <1>4, <1>5 DEF CrmIInv, LeadsOK
<1>7. QuotationsOK(quotations, ls)
  BY <1>5 DEF CrmIInv, QuotationsOK
<1> QED
  BY <1>3, <1>5, <1>6, <1>7, PutKeeps

(* A new quotation is for a lead there is.                                 *)
LEMMA AddQuotationKeeps ==
  ASSUME CrmIInv, NEW l \in DOMAIN leads, NEW unit \in Units, NEW mine,
         AddQuotation(l, unit, mine)
  PROVE  CrmIInv'
<1> DEFINE x == [unit |-> unit, lead |-> l, native |-> "DRAFT"]
           qs == Append(quotations, x)
<1>1. quotations \in Seq(QuotationRecord) /\ Len(quotations) < MaxQuotes
      /\ \A q \in DOMAIN quotations : quotations[q].lead \in DOMAIN leads
  BY DEF CrmIInv, QuotationsOK, AddQuotation
<1>2. l \in 1..MaxLeads
  <2>1. leads \in Seq(LeadRecord) /\ Len(leads) <= MaxLeads
    BY DEF CrmIInv, LeadsOK
  <2> QED
    BY <2>1, CrmBounds
<1>3. x \in QuotationRecord /\ x.lead \in DOMAIN leads
  BY <1>2, CrmBounds DEF QuotationRecord
<1>4. Put(leads, qs, mine)
  BY DEF AddQuotation, Write
<1> HIDE DEF x
<1>5. qs \in Seq(QuotationRecord) /\ Len(qs) <= MaxQuotes
      /\ \A q \in DOMAIN qs : qs[q] = x \/ (q \in DOMAIN quotations /\ qs[q] = quotations[q])
  <2>1. MaxQuotes \in Nat
    BY CrmBounds
  <2>2. qs \in Seq(QuotationRecord) /\ Len(qs) = Len(quotations) + 1
    BY <1>1, <1>3
  <2>3. \A q \in 1..Len(quotations) : qs[q] = quotations[q]
    BY <1>1
  <2>4. qs[Len(quotations) + 1] = x
    BY <1>1
  <2>5. DOMAIN quotations = 1..Len(quotations) /\ DOMAIN qs = 1..(Len(quotations) + 1)
        /\ Len(quotations) \in Nat
    BY <1>1, <2>2
  <2> HIDE DEF qs
  <2> QED
    BY <1>1, <2>1, <2>2, <2>3, <2>4, <2>5
<1> HIDE DEF qs
<1>6. QuotationsOK(qs, leads)
  BY <1>1, <1>3, <1>5 DEF QuotationsOK
<1>7. LeadsOK(leads)
  BY DEF CrmIInv
<1> QED
  BY <1>4, <1>6, <1>7, PutKeeps

(* A lead is changed in place.                                             *)
LEMMA ChangeLeadKeeps ==
  ASSUME CrmIInv, NEW l \in DOMAIN leads, NEW x, LeadOK(x), NEW mine,
         Put([leads EXCEPT ![l] = x], quotations, mine)
  PROVE  CrmIInv'
<1> DEFINE ls == [leads EXCEPT ![l] = x]
<1>1. leads \in Seq(LeadRecord) /\ Len(leads) <= MaxLeads /\ x \in LeadRecord
  BY DEF CrmIInv, LeadsOK, LeadOK
<1>2. ls \in Seq(LeadRecord) /\ Len(ls) = Len(leads) /\ DOMAIN ls = DOMAIN leads
      /\ \A k \in DOMAIN ls : ls[k] = IF k = l THEN x ELSE leads[k]
  BY <1>1
<1> HIDE DEF ls
<1>3. LeadsOK(ls)
  BY <1>1, <1>2 DEF CrmIInv, LeadsOK
<1>4. QuotationsOK(quotations, ls)
  BY <1>2 DEF CrmIInv, QuotationsOK
<1>5. Put(ls, quotations, mine)
  BY DEF ls
<1> QED
  BY <1>2, <1>3, <1>4, <1>5, PutKeeps

(* Every lead is well typed, and its owner was assigned to its unit.       *)
LEMMA LeadOf ==
  ASSUME CrmIInv, NEW l \in DOMAIN leads
  PROVE  LeadOK(leads[l]) /\ leads[l] \in LeadRecord
BY DEF CrmIInv, LeadsOK, LeadOK

(* A transfer writes an owner together with a unit the owner was assigned  *)
(* to.                                                                     *)
LEMMA PutTransferKeeps ==
  ASSUME CrmIInv, NEW l \in DOMAIN leads, NEW owner, NEW target, NEW mine,
         Owned(target, owner), PutTransfer(l, owner, target, mine)
  PROVE  CrmIInv'
<1> DEFINE y == leads[l]
           x == [[y EXCEPT !.owner = owner] EXCEPT !.unit = target]
<1>1. y \in LeadRecord
  BY LeadOf
<1>2. leads \in Seq(LeadRecord)
  BY DEF CrmIInv, LeadsOK
<1>3. Put([leads EXCEPT ![l].owner = owner, ![l].unit = target], quotations, mine)
  BY DEF PutTransfer, Write
<1>4. [leads EXCEPT ![l].owner = owner, ![l].unit = target]
        = [leads EXCEPT ![l] = [y EXCEPT !.owner = owner, !.unit = target]]
  BY <1>2
<1>5. x = [y EXCEPT !.owner = owner, !.unit = target]
  BY <1>1 DEF LeadRecord
<1>6. Put([leads EXCEPT ![l] = x], quotations, mine)
  BY <1>3, <1>4, <1>5
<1> HIDE DEF y
<1>7. x \in LeadRecord /\ x.unit = target /\ x.owner = owner
  BY <1>1 DEF LeadRecord, Owned
<1> HIDE DEF x
<1>8. LeadOK(x)
  BY <1>7 DEF LeadOK
<1> QED
  BY <1>6, <1>8, ChangeLeadKeeps

(* Archiving leaves the owner and the unit alone.                          *)
LEMMA PutArchiveKeeps ==
  ASSUME CrmIInv, NEW l \in DOMAIN leads, NEW mine, PutArchive(l, mine)
  PROVE  CrmIInv'
<1> DEFINE y == leads[l]
           x == [y EXCEPT !.archived = TRUE]
<1>1. y \in LeadRecord /\ LeadOK(y)
  BY LeadOf
<1>2. leads \in Seq(LeadRecord)
  BY DEF CrmIInv, LeadsOK
<1>3. Put([leads EXCEPT ![l] = x], quotations, mine)
  BY <1>2 DEF PutArchive, Write
<1> HIDE DEF y
<1>4. x \in LeadRecord /\ x.unit = y.unit /\ x.owner = y.owner
  BY <1>1 DEF LeadRecord
<1> HIDE DEF x
<1>5. LeadOK(x)
  BY <1>1, <1>4 DEF LeadOK
<1> QED
  BY <1>3, <1>5, ChangeLeadKeeps

(* So do the edits of desk users, of leads and of quotations.              *)
LEMMA DeskKeeps ==
  ASSUME CrmIInv, Desk
  PROVE  CrmIInv'
<1>1. ASSUME NEW l \in DOMAIN leads, NEW n \in LeadNatives,
             Put([leads EXCEPT ![l].native = n], quotations, {})
      PROVE  CrmIInv'
  <2> DEFINE y == leads[l]
             x == [y EXCEPT !.native = n]
  <2>1. y \in LeadRecord /\ LeadOK(y)
    BY LeadOf
  <2>2. leads \in Seq(LeadRecord)
    BY DEF CrmIInv, LeadsOK
  <2>3. Put([leads EXCEPT ![l] = x], quotations, {})
    BY <1>1, <2>2
  <2> HIDE DEF y
  <2>4. x \in LeadRecord /\ x.unit = y.unit /\ x.owner = y.owner
    BY <2>1 DEF LeadRecord
  <2> HIDE DEF x
  <2>5. LeadOK(x)
    BY <2>1, <2>4 DEF LeadOK
  <2> QED
    BY <2>3, <2>5, ChangeLeadKeeps
<1>2. ASSUME NEW q \in DOMAIN quotations, NEW n \in QuoteNatives \ {"DRAFT"},
             Put(leads, [quotations EXCEPT ![q].native = n], {})
      PROVE  CrmIInv'
  <2> DEFINE y == quotations[q]
             x == [y EXCEPT !.native = n]
             qs == [quotations EXCEPT ![q] = x]
  <2>1. quotations \in Seq(QuotationRecord) /\ Len(quotations) <= MaxQuotes
        /\ \A k \in DOMAIN quotations : quotations[k].lead \in DOMAIN leads
    BY DEF CrmIInv, QuotationsOK
  <2>2. y \in QuotationRecord /\ y.lead \in DOMAIN leads
    BY <2>1
  <2>3. Put(leads, qs, {})
    BY <1>2, <2>1
  <2> HIDE DEF y
  <2>4. x \in QuotationRecord /\ x.lead = y.lead
    BY <2>2 DEF QuotationRecord
  <2> HIDE DEF x
  <2>5. qs \in Seq(QuotationRecord) /\ Len(qs) = Len(quotations)
        /\ \A k \in DOMAIN qs : k \in DOMAIN quotations
                                /\ qs[k] = IF k = q THEN x ELSE quotations[k]
    BY <2>1, <2>4
  <2> HIDE DEF qs
  <2>6. QuotationsOK(qs, leads)
    BY <2>1, <2>2, <2>4, <2>5 DEF QuotationsOK
  <2>7. LeadsOK(leads)
    BY DEF CrmIInv
  <2> QED
    BY <2>3, <2>6, <2>7, PutKeeps
<1> QED
  BY <1>1, <1>2 DEF Desk

(* A page: the rows of the list from one place on, at most so many.        *)
LEMMA SliceIs ==
  ASSUME NEW s \in Seq(Nat), NEW from \in Nat, NEW n \in Nat, from <= Len(s)
  PROVE  /\ Slice(s, from, n) \in Seq(Nat)
         /\ Len(Slice(s, from, n)) = IF from + n < Len(s) THEN n ELSE Len(s) - from
         /\ \A i \in 1..Len(Slice(s, from, n)) : Slice(s, from, n)[i] = s[from + i]
<1> DEFINE hi == IF from + n < Len(s) THEN from + n ELSE Len(s)
           r == SubSeq(s, from + 1, hi)
<1>1. Slice(s, from, n) = r
  BY DEF Slice
<1>2. hi \in Nat /\ hi <= Len(s) /\ from <= hi /\ Len(s) \in Nat
  OBVIOUS
<1>3. hi - from = IF from + n < Len(s) THEN n ELSE Len(s) - from
  BY <1>2
<1> HIDE DEF hi
<1>4. r \in Seq(Nat) /\ Len(r) = hi - from
  BY <1>2
<1>5. \A i \in 1..(hi - from) : r[i] = s[from + i]
  BY <1>2
<1> HIDE DEF r
<1> QED
  BY <1>1, <1>3, <1>4, <1>5

(* A page that continues what was seen extends it.                         *)
LEMMA SeenGrows ==
  ASSUME NEW s \in Seq(Nat), NEW q \in Seq(Nat), NEW list \in Seq(Nat), Starts(s, list),
         Len(s) + Len(q) <= Len(list), \A i \in 1..Len(q) : q[i] = list[Len(s) + i]
  PROVE  /\ s \o q \in Seq(Nat) /\ Len(s \o q) = Len(s) + Len(q)
         /\ Starts(s \o q, list)
         /\ Len(s) + Len(q) = Len(list) => ToSet(list) \subseteq ToSet(s \o q)
<1>1. s \o q \in Seq(Nat) /\ Len(s \o q) = Len(s) + Len(q)
  OBVIOUS
<1>2. \A i \in 1..(Len(s) + Len(q)) : (s \o q)[i] = list[i]
  <2> SUFFICES ASSUME NEW i \in 1..(Len(s) + Len(q)) PROVE (s \o q)[i] = list[i]
    OBVIOUS
  <2>1. CASE i <= Len(s)
    BY <2>1 DEF Starts
  <2>2. CASE i > Len(s)
    <3>1. (s \o q)[i] = q[i - Len(s)] /\ i - Len(s) \in 1..Len(q)
      BY <2>2
    <3>2. q[i - Len(s)] = list[Len(s) + (i - Len(s))] /\ Len(s) + (i - Len(s)) = i
      BY <3>1
    <3> QED
      BY <3>1, <3>2
  <2> QED
    BY <2>1, <2>2
<1>3. Starts(s \o q, list)
  BY <1>1, <1>2 DEF Starts
<1>4. ASSUME Len(s) + Len(q) = Len(list)
      PROVE  ToSet(list) \subseteq ToSet(s \o q)
  <2>1. DOMAIN list = 1..(Len(s) + Len(q)) /\ DOMAIN (s \o q) = 1..(Len(s) + Len(q))
    BY <1>1, <1>4
  <2> QED
    BY <1>2, <2>1 DEF ToSet
<1> QED
  BY <1>1, <1>3, <1>4

(* A page seen and where the walk stands in the list.                      *)
LEMMA WalkOf ==
  ASSUME CrmIInv, NEW c \in Clients, calls[c].pc \in {"page", "count", "done"}
  PROVE  /\ calls[c] \in WalkRecord
         /\ Walked(calls[c], leads, quotations) \in Seq(Nat)
         /\ WalkOK(calls[c], Walked(calls[c], leads, quotations))
<1>1. calls[c] \in WalkRecord
  BY DEF CrmIInv, CallsOK, CrmCallOK, NoCall, PendingOK
<1>2. Walked(calls[c], leads, quotations) \in Seq(Nat)
  BY WalkedIs DEF CrmIInv, LeadsOK, QuotationsOK
<1> QED
  BY <1>1, <1>2 DEF CrmIInv, WalksOK

(* A walk that starts has seen nothing, and all that matches now is due.   *)
LEMMA StartWalkKeeps ==
  ASSUME CrmIInv, NEW c \in Clients, NEW u \in Units, NEW n \in Limits, NEW s \in Searches,
         StartWalk(c, u, s[1], s[2], n)
  PROVE  CrmIInv'
<1> DEFINE k == s[1]
           t == s[2]
           list == Matched(k, leads, quotations, u, t)
           w == [pc |-> "page", unit |-> u, kind |-> k, status |-> t, limit |-> n,
                 offset |-> 0, seen |-> <<>>, total |-> 0, fetched |-> 0, due |-> ToSet(list)]
<1>1. Goto(c, w)
  BY DEF StartWalk
<1>2. k \in {"LEAD", "QUOTATION"} /\ t \in Statuses /\ n \in Nat \ {0}
  BY CrmBounds DEF Statuses
<1>3. Walked(w, leads, quotations) = list
  BY DEF Walked
<1>4. list \in Seq(Nat)
  BY <1>3, WalkedIs DEF CrmIInv, LeadsOK, QuotationsOK
<1> HIDE DEF list, k, t
<1>5. ToSet(list) \subseteq Nat
  BY <1>4 DEF ToSet
<1>6. w \in WalkRecord
  BY <1>2, <1>5 DEF WalkRecord
<1>7. WalkOK(w, list)
  BY <1>4 DEF WalkOK, Starts
<1>8. CrmCallOK(w) /\ w.pc # "send"
  BY <1>6 DEF CrmCallOK
<1> HIDE DEF w
<1> QED
  BY <1>1, <1>3, <1>7, <1>8, GotoKeeps

(* The fixture answers a page and the total from one and the same list.    *)
LEMMA SearchFixtureKeeps ==
  ASSUME CrmIInv, NEW c \in Clients, SearchFixture(c)
  PROVE  CrmIInv'
<1> DEFINE w == calls[c]
           list == Walked(w, leads, quotations)
           page == Slice(list, w.offset, w.limit)
           shown == w.seen \o page
           next == NextPage(w.offset, w.limit, FixtureMore(w.offset, w.limit, Len(list)))
           x == [w EXCEPT !.pc = next.pc, !.offset = next.offset, !.seen = shown,
                          !.total = Len(list)]
<1>1. w.pc = "page" /\ Goto(c, x)
  BY DEF SearchFixture
<1>2. w \in WalkRecord /\ list \in Seq(Nat) /\ WalkOK(w, list)
  BY <1>1, WalkOf
<1>3. Walked(x, leads, quotations) = list
  BY <1>2 DEF Walked, WalkRecord
<1>4. next = IF w.offset + w.limit < Len(list)
             THEN [pc |-> "page", offset |-> w.offset + w.limit]
             ELSE [pc |-> "done", offset |-> w.offset]
  BY DEF NextPage, FixtureMore, NextOffset
<1> HIDE DEF w, list, next
<1>5. /\ w.offset \in Nat /\ w.limit \in Nat \ {0} /\ w.seen \in Seq(Nat) /\ w.due \subseteq Nat
      /\ Len(w.seen) = w.offset /\ Starts(w.seen, list) /\ w.offset <= Len(list)
      /\ w.due \subseteq ToSet(list) /\ Len(list) \in Nat
  BY <1>1, <1>2 DEF WalkRecord, WalkOK, Starts
<1>6. /\ page \in Seq(Nat)
      /\ Len(page) = IF w.offset + w.limit < Len(list) THEN w.limit ELSE Len(list) - w.offset
      /\ \A i \in 1..Len(page) : page[i] = list[w.offset + i]
  BY <1>2, <1>5, SliceIs
<1> HIDE DEF page
<1>7. /\ shown \in Seq(Nat) /\ Len(shown) = w.offset + Len(page) /\ Starts(shown, list)
      /\ w.offset + Len(page) = Len(list) => ToSet(list) \subseteq ToSet(shown)
  <2>1. Len(w.seen) + Len(page) <= Len(list)
        /\ \A i \in 1..Len(page) : page[i] = list[Len(w.seen) + i]
    BY <1>5, <1>6
  <2> QED
    BY <1>2, <1>5, <1>6, <2>1, SeenGrows
<1> HIDE DEF shown
<1>8. next.pc \in {"page", "done"} /\ next.offset \in Nat
  BY <1>4, <1>5
<1>9. /\ x \in WalkRecord /\ x.pc = next.pc /\ x.offset = next.offset /\ x.seen = shown
      /\ x.total = Len(list) /\ x.due = w.due
  BY <1>2, <1>5, <1>7, <1>8 DEF WalkRecord
<1> HIDE DEF x
<1>10. WalkOK(x, list)
  <2>1. CASE w.offset + w.limit < Len(list)
    BY <1>4, <1>5, <1>6, <1>7, <1>9, <2>1 DEF WalkOK
  <2>2. CASE ~(w.offset + w.limit < Len(list))
    BY <1>4, <1>5, <1>6, <1>7, <1>9, <2>2 DEF WalkOK
  <2> QED
    BY <2>1, <2>2
<1>11. CrmCallOK(x) /\ x.pc # "send"
  BY <1>8, <1>9 DEF CrmCallOK
<1> QED
  BY <1>1, <1>3, <1>10, <1>11, GotoKeeps

(* ERPNext is asked for one row more than the page: with no more rows than *)
(* the page the walk has seen the whole list, and with one more there is a *)
(* next page.                                                              *)
LEMMA SearchErpNextKeeps ==
  ASSUME CrmIInv, NEW c \in Clients, SearchErpNext(c)
  PROVE  CrmIInv'
<1> DEFINE w == calls[c]
           list == Walked(w, leads, quotations)
           docs == Slice(list, w.offset, w.limit + 1)
           page == Slice(docs, 0, w.limit)
           shown == w.seen \o page
           x == [w EXCEPT !.pc = "count", !.fetched = Len(docs), !.seen = shown]
<1>1. w.pc = "page" /\ Goto(c, x)
  BY DEF SearchErpNext, Fetch
<1>2. w \in WalkRecord /\ list \in Seq(Nat) /\ WalkOK(w, list)
  BY <1>1, WalkOf
<1>3. Walked(x, leads, quotations) = list
  BY <1>2 DEF Walked, WalkRecord
<1> HIDE DEF w, list
<1>4. /\ w.offset \in Nat /\ w.limit \in Nat \ {0} /\ w.seen \in Seq(Nat) /\ w.due \subseteq Nat
      /\ Len(w.seen) = w.offset /\ Starts(w.seen, list) /\ w.offset <= Len(list)
      /\ w.due \subseteq ToSet(list) /\ Len(list) \in Nat /\ w.limit + 1 \in Nat
  BY <1>1, <1>2 DEF WalkRecord, WalkOK, Starts
<1>5. /\ docs \in Seq(Nat)
      /\ Len(docs) = IF w.offset + (w.limit + 1) < Len(list) THEN w.limit + 1
                                                             ELSE Len(list) - w.offset
      /\ \A i \in 1..Len(docs) : docs[i] = list[w.offset + i]
  BY <1>2, <1>4, SliceIs
<1> HIDE DEF docs
<1>6. /\ page \in Seq(Nat)
      /\ Len(page) = IF w.limit < Len(docs) THEN w.limit ELSE Len(docs)
      /\ \A i \in 1..Len(page) : page[i] = docs[i]
  <2>1. 0 \in Nat /\ w.limit \in Nat /\ 0 <= Len(docs) /\ Len(docs) \in Nat
    BY <1>4, <1>5
  <2>2. /\ page \in Seq(Nat)
        /\ Len(page) = IF 0 + w.limit < Len(docs) THEN w.limit ELSE Len(docs) - 0
        /\ \A i \in 1..Len(page) : page[i] = docs[0 + i]
    BY <1>5, <2>1, SliceIs
  <2> HIDE DEF page
  <2> QED
    BY <2>1, <2>2
<1> HIDE DEF page
<1>7. w.offset + Len(page) <= Len(list) /\ \A i \in 1..Len(page) : page[i] = list[w.offset + i]
  BY <1>4, <1>5, <1>6
<1>8. /\ shown \in Seq(Nat) /\ Len(shown) = w.offset + Len(page) /\ Starts(shown, list)
      /\ w.offset + Len(page) = Len(list) => ToSet(list) \subseteq ToSet(shown)
  BY <1>2, <1>4, <1>6, <1>7, SeenGrows
<1> HIDE DEF shown
<1>9. /\ x \in WalkRecord /\ x.pc = "count" /\ x.offset = w.offset /\ x.seen = shown
      /\ x.fetched = Len(docs) /\ x.limit = w.limit /\ x.due = w.due
  <2> DEFINE n == Len(docs)
  <2>1. n \in Nat
    BY <1>5
  <2> HIDE DEF n
  <2>2. x = [w EXCEPT !.pc = "count", !.fetched = n, !.seen = shown]
    BY DEF n
  <2> HIDE DEF x
  <2>3. x \in WalkRecord /\ x.pc = "count" /\ x.offset = w.offset /\ x.seen = shown
        /\ x.fetched = n /\ x.limit = w.limit /\ x.due = w.due
    BY <1>2, <1>8, <2>1, <2>2 DEF WalkRecord
  <2> QED
    BY <2>3 DEF n
<1> HIDE DEF x
<1>10. WalkOK(x, list)
  <2>1. Starts(x.seen, list) /\ x.due \subseteq ToSet(list)
    BY <1>4, <1>8, <1>9
  <2>2. x.fetched <= x.limit + 1 /\ x.offset + x.fetched <= Len(list)
    BY <1>4, <1>5, <1>9
  <2>3. CASE x.fetched > x.limit
    <3>1. Len(x.seen) = x.offset + x.limit
      BY <1>4, <1>5, <1>6, <1>8, <1>9, <2>3
    <3> QED
      BY <1>9, <2>1, <2>2, <2>3, <3>1 DEF WalkOK
  <2>4. CASE ~(x.fetched > x.limit)
    <3>1. Len(docs) \in Nat /\ Len(page) = Len(docs)
      BY <1>4, <1>5, <1>6, <1>9, <2>4
    <3>2. w.offset + Len(page) = Len(list)
      BY <1>4, <1>5, <1>9, <2>4, <3>1
    <3>3. Len(x.seen) = x.offset + x.fetched /\ x.due \subseteq ToSet(x.seen)
      BY <1>4, <1>8, <1>9, <3>1, <3>2
    <3> QED
      BY <1>9, <2>1, <2>2, <2>4, <3>3 DEF WalkOK
  <2> QED
    BY <2>3, <2>4
<1>11. CrmCallOK(x) /\ x.pc # "send"
  BY <1>9 DEF CrmCallOK
<1> QED
  BY <1>1, <1>3, <1>10, <1>11, GotoKeeps

(* The count comes later, when the list may have grown, or not at all;     *)
(* either way the total is at least the rows that were fetched.            *)
LEMMA CountKeeps ==
  ASSUME CrmIInv, NEW c \in Clients, Count(c)
  PROVE  CrmIInv'
<1> DEFINE w == calls[c]
           list == Walked(w, leads, quotations)
           next == NextPage(w.offset, w.limit, w.fetched > w.limit)
           X(total) == [w EXCEPT !.pc = next.pc, !.offset = next.offset, !.total = total,
                                 !.fetched = 0]
<1>1. w.pc = "count"
  BY DEF Count
<1>2. PICK total \in {Len(list), w.offset + w.fetched} : Goto(c, X(total))
  BY DEF Count, CountLost
<1> DEFINE x == X(total)
<1>3. w \in WalkRecord /\ list \in Seq(Nat) /\ WalkOK(w, list)
  BY <1>1, WalkOf
<1>4. Walked(x, leads, quotations) = list
  BY <1>3 DEF Walked, WalkRecord
<1>5. next = IF w.fetched > w.limit THEN [pc |-> "page", offset |-> w.offset + w.limit]
             ELSE [pc |-> "done", offset |-> w.offset]
  BY DEF NextPage, NextOffset
<1> HIDE DEF w, list, next
<1>6. /\ w.offset \in Nat /\ w.limit \in Nat \ {0} /\ w.seen \in Seq(Nat) /\ w.fetched \in Nat
      /\ w.due \subseteq Nat
      /\ w.offset + w.fetched <= Len(list) /\ Len(list) \in Nat
      /\ total \in Nat /\ total >= w.offset + w.fetched
  BY <1>1, <1>3 DEF WalkRecord, WalkOK
<1>7. next.pc \in {"page", "done"} /\ next.offset \in Nat
  BY <1>5, <1>6
<1>8. /\ x \in WalkRecord /\ x.pc = next.pc /\ x.offset = next.offset /\ x.seen = w.seen
      /\ x.total = total /\ x.due = w.due
  BY <1>3, <1>6, <1>7 DEF WalkRecord
<1> HIDE DEF x, X
<1>9. WalkOK(x, list)
  <2>1. CASE w.fetched > w.limit
    BY <1>1, <1>3, <1>5, <1>6, <1>8, <2>1 DEF WalkOK
  <2>2. CASE ~(w.fetched > w.limit)
    BY <1>1, <1>3, <1>5, <1>6, <1>8, <2>2 DEF WalkOK
  <2> QED
    BY <2>1, <2>2
<1>10. CrmCallOK(x) /\ x.pc # "send"
  BY <1>7, <1>8 DEF CrmCallOK
<1> QED
  BY <1>2, <1>4, <1>9, <1>10, GotoKeeps DEF x

(* Who may act in a unit was assigned to it.                               *)
LEMMA AssignedOwns ==
  ASSUME CrmIInv, NEW actor \in Actors, NEW unit,
         unit \in assigned[actor], adapter = "erpnext" => unit \in Scope
  PROVE  Owned(unit, actor) /\ unit \in Units
BY DEF CrmIInv, RosterOK, Owned

(* A change of the roster is remembered, so what was decided before it     *)
(* stays backed by an assignment that once was.                            *)
LEMMA ChangeRosterKeeps ==
  ASSUME CrmIInv, NEW actor \in Actors, NEW unit \in Units, ChangeRoster(actor, unit)
  PROVE  CrmIInv'
<1> DEFINE units == IF unit \in assigned[actor] THEN assigned[actor] \ {unit}
                                                ELSE assigned[actor] \cup {unit}
<1>1. /\ assigned' = [assigned EXCEPT ![actor] = units]
      /\ everAssigned' = [everAssigned EXCEPT ![actor] = @ \cup units]
      /\ adapter' = adapter /\ leads' = leads /\ quotations' = quotations /\ calls' = calls
  BY DEF ChangeRoster
<1>2. RosterOK
  BY DEF CrmIInv
<1>3. units \subseteq Units
  BY <1>2 DEF RosterOK
<1> HIDE DEF units
<1>4. RosterOK' /\ \A a \in Actors : everAssigned[a] \subseteq everAssigned'[a]
  BY <1>1, <1>2, <1>3 DEF RosterOK
<1>5. LeadsOK(leads)' /\ QuotationsOK(quotations, leads)'
  BY <1>1, <1>4 DEF CrmIInv, LeadsOK, LeadOK, Owned, QuotationsOK
<1>6. CallsOK'
  <2>1. \A task : CrmCallOK(task) => CrmCallOK(task)'
    BY <1>1, <1>4, CallStaysOK
  <2> QED
    BY <1>1, <2>1 DEF CrmIInv, CallsOK
<1>7. WalksOK'
  BY <1>1, WalkedLater DEF CrmIInv, WalksOK
<1> QED
  BY <1>4, <1>5, <1>6, <1>7 DEF CrmIInv

(* Each call of the fixture checks and writes in one step.                 *)
LEMMA FixtureKeeps ==
  ASSUME CrmIInv, NEW a \in Actors, NEW u \in Units,
         \/ \E k \in Contacts : FixtureCreateLead(a, u, k)
         \/ \E l \in DOMAIN leads :
              \/ \E o \in Actors, t \in Units \cup {NoUnit} : FixtureTransferLead(a, u, l, o, t)
              \/ FixtureArchiveLead(a, u, l)
              \/ FixtureCreateQuotation(a, u, l)
  PROVE  CrmIInv'
<1>1. ASSUME NEW k \in Contacts, FixtureCreateLead(a, u, k)
      PROVE  CrmIInv'
  BY <1>1, AssignedOwns, AddLeadKeeps DEF FixtureCreateLead, Require
<1>2. ASSUME NEW l \in DOMAIN leads, NEW o \in Actors, NEW t \in Units \cup {NoUnit},
             FixtureTransferLead(a, u, l, o, t)
      PROVE  CrmIInv'
  <2> DEFINE target == TargetUnit(t, leads[l].unit)
  <2>1. MayOwn(o, target) /\ PutTransfer(l, o, target, {})
    BY <1>2 DEF FixtureTransferLead
  <2> HIDE DEF target
  <2>2. Owned(target, o)
    BY <2>1, AssignedOwns DEF MayOwn
  <2> QED
    BY <2>1, <2>2, PutTransferKeeps
<1>3. ASSUME NEW l \in DOMAIN leads, FixtureArchiveLead(a, u, l)
      PROVE  CrmIInv'
  BY <1>3, PutArchiveKeeps DEF FixtureArchiveLead
<1>4. ASSUME NEW l \in DOMAIN leads, FixtureCreateQuotation(a, u, l)
      PROVE  CrmIInv'
  BY <1>4, AddQuotationKeeps DEF FixtureCreateQuotation
<1> QED
  BY <1>1, <1>2, <1>3, <1>4

(* An ERPNext call that has decided on a write.                            *)
LEMMA BeginKeepsCrm ==
  ASSUME CrmIInv, NEW c \in Clients, NEW task, Goto(c, task), adapter = "erpnext",
         PendingOK(task)
  PROVE  CrmIInv'
<1>1. CrmCallOK(task) /\ task \notin WalkRecord
  BY DEF CrmCallOK, PendingOK, WalkRecord
<1> QED
  BY <1>1, GotoKeeps

(* Each ERPNext call decides on a write that its checks allow.             *)
LEMMA ErpNextBeginsKeep ==
  ASSUME CrmIInv, NEW a \in Actors, NEW u \in Units, NEW c \in Clients,
         \/ \E k \in Contacts : BeginCreateLead(c, a, u, k)
         \/ \E l \in DOMAIN leads :
              \/ \E o \in Actors, t \in Units \cup {NoUnit} : BeginTransferLead(c, a, u, l, o, t)
              \/ BeginArchiveLead(c, a, u, l)
              \/ BeginCreateQuotation(c, a, u, l)
  PROVE  CrmIInv'
<1>1. ASSUME NEW k \in Contacts, BeginCreateLead(c, a, u, k)
      PROVE  CrmIInv'
  <2> DEFINE x == [pc |-> "send", op |-> "create", actor |-> a, unit |-> u, contact |-> k]
  <2>1. Goto(c, x) /\ adapter = "erpnext"
    BY <1>1 DEF BeginCreateLead, Free
  <2>2. Owned(u, a)
    BY <1>1, AssignedOwns DEF BeginCreateLead, Require
  <2>3. PendingOK(x)
    BY <2>2 DEF PendingOK
  <2> HIDE DEF x
  <2> QED
    BY <2>1, <2>3, BeginKeepsCrm
<1>2. ASSUME NEW l \in DOMAIN leads, NEW o \in Actors, NEW t \in Units \cup {NoUnit},
             BeginTransferLead(c, a, u, l, o, t)
      PROVE  CrmIInv'
  <2> DEFINE target == TargetUnit(t, leads[l].unit)
             x == [pc |-> "send", op |-> "transfer", lead |-> l, owner |-> o, target |-> target]
  <2>1. MayOwn(o, target) /\ Goto(c, x) /\ adapter = "erpnext"
    BY <1>2 DEF BeginTransferLead, ReadThen, Free
  <2> HIDE DEF target
  <2>2. Owned(target, o)
    BY <2>1, AssignedOwns DEF MayOwn
  <2>3. PendingOK(x)
    BY <2>2 DEF PendingOK
  <2> HIDE DEF x
  <2> QED
    BY <2>1, <2>3, BeginKeepsCrm
<1>3. ASSUME NEW l \in DOMAIN leads, BeginArchiveLead(c, a, u, l)
      PROVE  CrmIInv'
  <2> DEFINE x == [pc |-> "send", op |-> "archive", lead |-> l]
  <2>1. Goto(c, x) /\ adapter = "erpnext"
    BY <1>3 DEF BeginArchiveLead, ReadThen, Free
  <2>2. PendingOK(x)
    BY DEF PendingOK
  <2> HIDE DEF x
  <2> QED
    BY <2>1, <2>2, BeginKeepsCrm
<1>4. ASSUME NEW l \in DOMAIN leads, BeginCreateQuotation(c, a, u, l)
      PROVE  CrmIInv'
  <2> DEFINE x == [pc |-> "send", op |-> "quote", lead |-> l, unit |-> u]
  <2>1. Goto(c, x) /\ adapter = "erpnext"
    BY <1>4 DEF BeginCreateQuotation, ReadThen, Free
  <2>2. PendingOK(x)
    BY DEF PendingOK
  <2> HIDE DEF x
  <2> QED
    BY <2>1, <2>2, BeginKeepsCrm
<1> QED
  BY <1>1, <1>2, <1>3, <1>4

(* The write is applied, whatever changed since it was decided.            *)
LEMMA SendKeeps ==
  ASSUME CrmIInv, NEW c \in Clients, Send(c)
  PROVE  CrmIInv'
<1> DEFINE task == calls[c]
<1>1. PendingOK(task)
  BY DEF Send, CrmIInv, CallsOK, CrmCallOK, NoCall, WalkRecord
<1>2. \/ task.op = "create" /\ AddLead(task.actor, task.unit, task.contact, {c})
      \/ task.op = "transfer" /\ PutTransfer(task.lead, task.owner, task.target, {c})
      \/ task.op = "archive" /\ PutArchive(task.lead, {c})
      \/ task.op = "quote" /\ AddQuotation(task.lead, task.unit, {c})
  BY DEF Send
<1> HIDE DEF task
<1>3. CASE task.op = "create" /\ AddLead(task.actor, task.unit, task.contact, {c})
  BY <1>1, <1>3, AddLeadKeeps DEF PendingOK
<1>4. CASE task.op = "transfer" /\ PutTransfer(task.lead, task.owner, task.target, {c})
  BY <1>1, <1>4, PutTransferKeeps DEF PendingOK
<1>5. CASE task.op = "archive" /\ PutArchive(task.lead, {c})
  BY <1>1, <1>5, PutArchiveKeeps DEF PendingOK
<1>6. CASE task.op = "quote" /\ AddQuotation(task.lead, task.unit, {c})
  BY <1>1, <1>6, AddQuotationKeeps DEF PendingOK
<1> QED
  BY <1>2, <1>3, <1>4, <1>5, <1>6

(* A write that fails leaves no trace.                                     *)
LEMMA SendFailsKeeps ==
  ASSUME CrmIInv, NEW c \in Clients, SendFails(c)
  PROVE  CrmIInv'
<1>1. Goto(c, NoCall)
  BY DEF SendFails
<1>2. CrmCallOK(NoCall) /\ NoCall.pc # "send" /\ NoCall \notin WalkRecord
  BY DEF CrmCallOK, NoCall, WalkRecord
<1> QED
  BY <1>1, <1>2, GotoKeeps

(* There is nothing to begin with.                                         *)
LEMMA CrmInitial == CrmInit => CrmIInv
<1> SUFFICES ASSUME CrmInit PROVE CrmIInv
  OBVIOUS
<1>1. RosterOK
  BY CrmBounds DEF CrmInit, RosterOK
<1>2. LeadsOK(leads) /\ QuotationsOK(quotations, leads)
  <2>1. leads = <<>> /\ quotations = <<>> /\ MaxLeads \in Nat /\ MaxQuotes \in Nat
    BY CrmBounds DEF CrmInit
  <2> QED
    BY <2>1 DEF LeadsOK, QuotationsOK
<1>3. CallsOK /\ WalksOK
  BY DEF CrmInit, CallsOK, CrmCallOK, WalksOK, NoCall, WalkRecord
<1> QED
  BY <1>1, <1>2, <1>3 DEF CrmIInv

(* Every step keeps the invariant.                                         *)
LEMMA CrmStep == CrmIInv /\ [CrmNext]_crmVars => CrmIInv'
<1> SUFFICES ASSUME CrmIInv, [CrmNext]_crmVars
             PROVE  CrmIInv'
  OBVIOUS
<1>1. ASSUME NEW a \in Actors, NEW u \in Units, ChangeRoster(a, u)
      PROVE  CrmIInv'
  BY <1>1, ChangeRosterKeeps
<1>2. ASSUME NEW a \in Actors, NEW u \in Units,
             \/ \E k \in Contacts : FixtureCreateLead(a, u, k)
             \/ \E l \in DOMAIN leads :
                  \/ \E o \in Actors, t \in Units \cup {NoUnit} :
                       FixtureTransferLead(a, u, l, o, t)
                  \/ FixtureArchiveLead(a, u, l)
                  \/ FixtureCreateQuotation(a, u, l)
      PROVE  CrmIInv'
  BY <1>2, FixtureKeeps
<1>3. ASSUME NEW a \in Actors, NEW u \in Units, NEW c \in Clients,
             \/ \E k \in Contacts : BeginCreateLead(c, a, u, k)
             \/ \E l \in DOMAIN leads :
                  \/ \E o \in Actors, t \in Units \cup {NoUnit} :
                       BeginTransferLead(c, a, u, l, o, t)
                  \/ BeginArchiveLead(c, a, u, l)
                  \/ BeginCreateQuotation(c, a, u, l)
      PROVE  CrmIInv'
  BY <1>3, ErpNextBeginsKeep
<1>4. ASSUME NEW c \in Clients,
             \/ Send(c) \/ SendFails(c)
             \/ \E u \in Units, n \in Limits, s \in Searches : StartWalk(c, u, s[1], s[2], n)
             \/ SearchFixture(c) \/ SearchErpNext(c) \/ Count(c)
      PROVE  CrmIInv'
  BY <1>4, SendKeeps, SendFailsKeeps, StartWalkKeeps, SearchFixtureKeeps, SearchErpNextKeeps,
     CountKeeps
<1>5. CASE Desk
  BY <1>5, DeskKeeps
<1>6. CASE UNCHANGED crmVars
  <2>1. /\ adapter' = adapter /\ assigned' = assigned /\ leads' = leads
        /\ quotations' = quotations /\ calls' = calls /\ everAssigned' = everAssigned
    BY <1>6 DEF crmVars
  <2>2. RosterOK' /\ LeadsOK(leads)' /\ QuotationsOK(quotations, leads)'
    BY <2>1 DEF CrmIInv, RosterOK, LeadsOK, LeadOK, Owned, QuotationsOK
  <2>3. CallsOK'
    <3>1. \A task : CrmCallOK(task) => CrmCallOK(task)'
      BY <2>1, CallStaysOK
    <3> QED
      BY <2>1, <3>1 DEF CrmIInv, CallsOK
  <2>4. WalksOK'
    BY <2>1, WalkedLater DEF CrmIInv, WalksOK
  <2> QED
    BY <2>2, <2>3, <2>4 DEF CrmIInv
<1> QED
  BY <1>1, <1>2, <1>3, <1>4, <1>5, <1>6 DEF CrmNext

(* The invariant of the CRM: a write that was decided is backed by an      *)
(* assignment of its owner to its unit, then or earlier, and each walk has *)
(* seen just the beginning of the list it goes through.                    *)
THEOREM CrmInvariant == CrmSpec => []CrmIInv
<1>1. CrmInit => CrmIInv
  BY CrmInitial
<1>2. CrmIInv /\ [CrmNext]_crmVars => CrmIInv'
  BY CrmStep
<1> QED
  BY <1>1, <1>2, PTL DEF CrmSpec

(* transfer_lead and create_lead: leads stay in scope, with owners that    *)
(* were assigned to their unit, for any number of clients, actors and      *)
(* units and however the roster changes between check and write.           *)
THEOREM LeadsHold == CrmSpec => []LeadsInv
<1>1. CrmIInv => LeadsInv
  <2> SUFFICES ASSUME CrmIInv PROVE LeadsInv
    OBVIOUS
  <2>1. \A c \in Clients : calls[c].pc \in {"idle", "send", "page", "count", "done"}
    BY DEF CrmIInv, CallsOK, CrmCallOK, NoCall, PendingOK, WalkRecord
  <2>2. \A l \in DOMAIN leads : /\ leads[l].unit \in everAssigned[leads[l].owner]
                                /\ adapter = "erpnext" => leads[l].unit \in Scope
    BY DEF CrmIInv, LeadsOK, LeadOK, Owned
  <2> QED
    BY <2>1, <2>2 DEF CrmIInv, RosterOK, LeadsOK, QuotationsOK, LeadsInv, CrmTypeOK,
       OwnerWasAssigned
<1> QED
  BY <1>1, CrmInvariant, PTL

(* search and its cursors: a walk lists each match once and in order, and  *)
(* at its end all that matched at the start, for any page size, unless a   *)
(* write disturbs the list.                                                *)
THEOREM PagesComplete == CrmSpec => []PagesAreComplete
<1>1. CrmIInv => PagesAreComplete
  <2> SUFFICES ASSUME CrmIInv, NEW c \in Clients, calls[c].pc \in {"page", "count", "done"}
               PROVE  /\ IsPrefix(calls[c].seen, Walked(calls[c], leads, quotations))
                      /\ calls[c].pc = "done" => calls[c].due \subseteq ToSet(calls[c].seen)
                      /\ calls[c].pc \in {"page", "done"} =>
                           calls[c].total >= Len(calls[c].seen)
                      /\ calls[c].pc = "page" /\ calls[c].offset > 0 =>
                           calls[c].total > Len(calls[c].seen)
    BY DEF PagesAreComplete, Walking
  <2> DEFINE w == calls[c]
             list == Walked(w, leads, quotations)
  <2>1. w \in WalkRecord /\ list \in Seq(Nat) /\ WalkOK(w, list)
    BY WalkOf
  <2> HIDE DEF w, list
  <2>2. w.seen \in Seq(Nat)
    BY <2>1 DEF WalkRecord
  <2>3. IsPrefix(w.seen, list)
    BY <2>1, <2>2, PrefixStarts DEF WalkOK
  <2> QED
    BY <2>1, <2>2, <2>3 DEF WalkOK, list, w
<1> QED
  BY <1>1, CrmInvariant, PTL

=============================================================================
