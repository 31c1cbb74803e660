------------------------ MODULE DraftAndReportProofs ------------------------
(***************************************************************************)
(* Proofs about the two components that ask authorize who may see what:    *)
(* DraftReview, for any actors, assignments, settings, policies and        *)
(* drafts, and OwnerReports, for any units, invoices and assignments.      *)
(*                                                                         *)
(* Most of the first part rests on what authorize and the policy resolver  *)
(* promise when they say yes (GrantedUnder, ResolvedBy). The invariant     *)
(* adds that an assignment's revision never falls behind the one pinned in *)
(* a draft, that a draft keeps its owner, key, unit and customer, and that *)
(* a preview is a function of its hash and its draft's unit.               *)
(*                                                                         *)
(* The second part follows a report through its units: what remains to be  *)
(* read, and that each row shows what its invoice had open meanwhile.      *)
(***************************************************************************)
EXTENDS DraftReview, OwnerReports, FiniteSetTheorems, TLAPS

-----------------------------------------------------------------------------
(* authorize and the resolver.                                             *)

(* A request is only allowed under the one assignment in force that may    *)
(* serve it.                                                               *)
LEMMA GrantedUnder ==
  ASSUME NEW req, NEW rost, Authorize(req, rost).allowed
  PROVE  \E ref \in Refs :
           /\ Candidates(req, rost) = {ref}
           /\ Authorize(req, rost) = Judge(req, ref, rost[ref])
<1> DEFINE found == Candidates(req, rost)
<1>1. req.bound /\ found # {} /\ ~(Cardinality(found) > 1)
  BY DEF Authorize, Denied
<1>2. found \subseteq Refs
  BY DEF Candidates
<1>3. IsFiniteSet(found)
  BY <1>2, DraftBounds, FS_Subset
<1>4. Cardinality(found) = 1
  <2>1. Cardinality(found) \in Nat /\ Cardinality(found) # 0
    BY <1>1, <1>3, FS_CardinalityType, FS_EmptySet
  <2> QED
    BY <1>1, <2>1
<1>5. PICK ref : found = {ref}
  BY <1>3, <1>4, FS_Singleton
<1>6. (CHOOSE r \in found : TRUE) = ref
  BY <1>5
<1> QED
  BY <1>1, <1>2, <1>5, <1>6 DEF Authorize

(* The assignment then has the revision the caller expects, is the one the *)
(* caller pinned, and grants the action.                                   *)
LEMMA JudgedAllowed ==
  ASSUME NEW req, NEW ref, NEW asg, Judge(req, ref, asg).allowed
  PROVE  /\ req.rev = NoRevision \/ req.rev = asg.rev
         /\ \/ req.preview = NoPreview
            \/ req.preview = [unit |-> asg.unit, ref |-> ref, rev |-> asg.rev]
         /\ \E role \in asg.roles : req.action \in RoleActions(role)
BY DEF Judge, Denied, Allowed

(* When the resolver names an identity, it is that of the one policy in    *)
(* force that the question matches, and it is approved.                    *)
LEMMA ResolvedBy ==
  ASSUME NEW cfg, NEW question, IsFiniteSet(cfg.policies),
         Resolve(cfg, question).resolved
  PROVE  \E policy \in cfg.policies :
           /\ Matches(cfg, question) = {policy}
           /\ policy.identity \in cfg.catalog.identities
           /\ Resolve(cfg, question) = Resolved(policy)
           /\ question.override # NoOverride =>
                /\ question.override.version = policy.version
                /\ TrustedOverride(cfg, question.override)
                /\ question.wanted # NoIdentity
<1> DEFINE found == Matches(cfg, question)
<1>1. Resolve(cfg, question) = Pick(cfg, question, found)
      /\ (question.override # NoOverride =>
            TrustedOverride(cfg, question.override) /\ question.wanted # NoIdentity)
  BY DEF Resolve, Unresolved
<1>2. Cardinality(found) = 1
  BY <1>1 DEF Pick, Unresolved
<1>3. found \subseteq cfg.policies /\ IsFiniteSet(found)
  BY FS_Subset DEF Matches
<1>4. PICK policy : found = {policy}
  BY <1>2, <1>3, FS_Singleton
<1>5. (CHOOSE p \in found : TRUE) = policy
  BY <1>4
<1>6. /\ policy.identity \in cfg.catalog.identities
      /\ Pick(cfg, question, found) = Resolved(policy)
      /\ question.override # NoOverride => question.override.version = policy.version
  <2> HIDE DEF found
  <2>1. Pick(cfg, question, found).resolved
    BY <1>1
  <2>2. Pick(cfg, question, found) =
          CASE policy.identity \notin cfg.catalog.identities ->
                 Unresolved("BLOCKED_CONFIGURATION")
            [] question.override # NoOverride /\ question.override.version # policy.version ->
                 Unresolved("OVERRIDE_POLICY_VERSION_MISMATCH")
            [] OTHER -> Resolved(policy)
    BY <1>2, <1>5 DEF Pick
  <2> QED
    BY <2>1, <2>2 DEF Unresolved
<1> QED
  BY <1>1, <1>3, <1>4, <1>6

(* Whoever may go on with a draft owns it, and the assignment pinned when  *)
(* it was opened stands unrevised.                                         *)
LEMMA PinStands ==
  ASSUME NEW draft, NEW actor, NEW at, Reauthorized(draft, actor, at)
  PROVE  draft.actor = actor /\ draft.ref \in Refs /\ roster[draft.ref].rev = draft.rev
<1> DEFINE req == PreviewRequest(actor, draft.unit, at, draft.rev, Pin(draft))
<1>1. draft.actor = actor /\ Authorize(req, roster).allowed
  BY DEF Reauthorized
<1>2. req.preview = Pin(draft)
  BY DEF PreviewRequest, Request
<1>3. Pin(draft) # NoPreview
  <2>1. DOMAIN Pin(draft) = {"unit", "ref", "rev"} /\ DOMAIN NoPreview = {"unit"}
    BY DEF Pin, NoPreview
  <2> QED
    BY <2>1
<1> HIDE DEF req
<1>4. PICK ref \in Refs : Authorize(req, roster) = Judge(req, ref, roster[ref])
  BY <1>1, GrantedUnder
<1>5. Pin(draft) = [unit |-> roster[ref].unit, ref |-> ref, rev |-> roster[ref].rev]
  <2>1. Judge(req, ref, roster[ref]).allowed
    BY <1>1, <1>4
  <2>2. \/ req.preview = NoPreview
        \/ req.preview = [unit |-> roster[ref].unit, ref |-> ref, rev |-> roster[ref].rev]
    BY <2>1, JudgedAllowed
  <2> QED
    BY <1>2, <1>3, <2>2
<1>6. draft.ref = ref /\ draft.rev = roster[ref].rev
  BY <1>5 DEF Pin
<1> QED
  BY <1>1, <1>6

-----------------------------------------------------------------------------
(* The invariant.                                                          *)

(* An assignment after any number of revisions.                            *)
Standing == [actor: Actors, unit: Units, roles: SUBSET Roles, active: BOOLEAN,
             rev: Nat \ {0}, from: Always..Forever, until: Always..Forever]

SurroundingsOK ==
  /\ now \in Nat \ {0}
  /\ config \in Configurations
  /\ roster \in [Refs -> Standing]
  /\ settings \in [Units -> [version : Nat, from : Nat]]

PinsAreOld ==
  \A d \in DraftIds : drafts[d] # NoDraft =>
    drafts[d].rev <= roster[drafts[d].ref].rev

OneDraftPerKey ==
  \A d, e \in DraftIds :
    /\ drafts[d] # NoDraft /\ drafts[e] # NoDraft
    /\ drafts[d].actor = drafts[e].actor
    /\ drafts[d].key = drafts[e].key /\ drafts[d].key # NoKey
    => d = e

AnswersKept ==
  \A x \in opened :
    /\ x.draft \in DraftIds /\ drafts[x.draft] # NoDraft
    /\ drafts[x.draft].actor = x.actor /\ drafts[x.draft].key = x.key
    /\ drafts[x.draft].unit = x.unit /\ drafts[x.draft].customer = x.customer

(* The preview that has hash h, of a draft of this unit.                   *)
FromHash(h, unit) ==
  [draft |-> h.draft, unit |-> unit, customer |-> h.customer,
   currency |-> SettingsOf[unit][h.version].currency, total |-> h.lines.amount,
   template |-> SettingsOf[unit][h.version].template, version |-> h.version,
   identity |-> h.identity, hash |-> h]

PreviewsFollow ==
  \A p \in issued :
    /\ p.draft \in DraftIds /\ drafts[p.draft] # NoDraft
    /\ p = FromHash(p.hash, drafts[p.draft].unit)

ReviewInv ==
  /\ SurroundingsOK
  /\ TypeOK
  /\ PinsAreOld
  /\ PinnedGrants
  /\ OneDraftPerKey
  /\ AnswersKept
  /\ PreviewsFollow

(* No draft is not a draft.                                                *)
LEMMA NoDraftIsNone == NoDraft \notin Draft /\ NoDraft.status \notin {"OPEN", "CANCELLED"}
BY DEF NoDraft, Draft

(* At first there is nothing but the surroundings.                         *)
LEMMA ReviewInit == Init => ReviewInv
<1> SUFFICES ASSUME Init PROVE ReviewInv
  OBVIOUS
<1>1. Assignment \subseteq Standing
  BY DEF Assignment, Standing, Forever
<1>2. roster \in [Refs -> Standing]
  BY <1>1, DraftBounds DEF Init
<1>3. settings \in [Units -> [version : Nat, from : Nat]]
  BY DEF Init
<1>4. SurroundingsOK
  BY <1>2, <1>3 DEF Init, SurroundingsOK
<1>5. TypeOK
  <2>1. drafts \in [DraftIds -> Draft \cup {NoDraft}]
    BY DEF Init
  <2>2. \A u \in Units : 1 \in DOMAIN SettingsOf[u]
    BY DraftBounds
  <2>3. \A u \in Units : settings[u].version = 1 /\ settings[u].from = 1 /\ now = 1
    BY DEF Init
  <2>4. \A d \in DraftIds : drafts[d].status # "CANCELLED"
    BY NoDraftIsNone DEF Init
  <2> QED
    BY <2>1, <2>2, <2>3, <2>4 DEF Init, TypeOK
<1>6. \A d \in DraftIds : drafts[d] = NoDraft
  BY DEF Init
<1>7. PinsAreOld /\ PinnedGrants /\ OneDraftPerKey
  BY <1>6 DEF PinsAreOld, PinnedGrants, OneDraftPerKey
<1>8. AnswersKept /\ PreviewsFollow
  BY DEF Init, AnswersKept, PreviewsFollow
<1> QED
  BY <1>4, <1>5, <1>7, <1>8 DEF ReviewInv

(* Time passes.                                                            *)
LEMMA TickKeeps == ReviewInv /\ Tick => ReviewInv'
<1> SUFFICES ASSUME ReviewInv, Tick PROVE ReviewInv'
  OBVIOUS
<1>1. now' = now + 1 /\ UNCHANGED <<config, roster, settings, drafts, issued, reviewed, opened>>
  BY DEF Tick
<1>2. SurroundingsOK'
  BY <1>1 DEF ReviewInv, SurroundingsOK
<1>3. TypeOK'
  <2>1. \A u \in Units : settings[u].from \in 1..now => settings[u].from \in 1..(now + 1)
    BY DEF ReviewInv, SurroundingsOK
  <2> QED
    BY <1>1, <2>1 DEF ReviewInv, TypeOK
<1>4. PinsAreOld' /\ PinnedGrants' /\ OneDraftPerKey'
  BY <1>1 DEF ReviewInv, PinsAreOld, PinnedGrants, OneDraftPerKey
<1>5. AnswersKept' /\ PreviewsFollow'
  BY <1>1 DEF ReviewInv, AnswersKept, PreviewsFollow
<1> QED
  BY <1>2, <1>3, <1>4, <1>5 DEF ReviewInv

(* A unit's next settings version becomes active.                          *)
LEMMA ActivateKeeps ==
  ASSUME ReviewInv, NEW u \in Units, ActivateSettings(u)
  PROVE  ReviewInv'
<1>1. /\ UNCHANGED <<now, config, roster, drafts, issued, reviewed, opened>>
      /\ settings[u].version < Len(SettingsOf[u])
      /\ settings' = [settings EXCEPT ![u] = [version |-> settings[u].version + 1, from |-> now]]
  BY DEF ActivateSettings
<1>2. settings \in [Units -> [version : Nat, from : Nat]] /\ now \in Nat \ {0}
  BY DEF ReviewInv, SurroundingsOK
<1>3. /\ settings' \in [Units -> [version : Nat, from : Nat]]
      /\ settings'[u].version = settings[u].version + 1 /\ settings'[u].from = now
      /\ \A v \in Units \ {u} : settings'[v] = settings[v]
  BY <1>1, <1>2
<1>4. SurroundingsOK'
  BY <1>1, <1>3 DEF ReviewInv, SurroundingsOK
<1>5. settings[u].version + 1 \in DOMAIN SettingsOf[u] /\ now \in 1..now
  BY <1>1, <1>2, DraftBounds
<1>6. TypeOK'
  BY <1>1, <1>3, <1>5 DEF ReviewInv, TypeOK
<1>7. PinsAreOld' /\ PinnedGrants' /\ OneDraftPerKey'
  BY <1>1 DEF ReviewInv, PinsAreOld, PinnedGrants, OneDraftPerKey
<1>8. AnswersKept' /\ PreviewsFollow'
  BY <1>1 DEF ReviewInv, AnswersKept, PreviewsFollow
<1> QED
  BY <1>4, <1>6, <1>7, <1>8 DEF ReviewInv

(* A revised assignment is beyond every pin on it.                         *)
LEMMA ReviseKeeps ==
  ASSUME ReviewInv, NEW r \in Refs, NEW asg \in Standing, asg.rev = roster[r].rev,
         Revise(r, asg)
  PROVE  ReviewInv'
<1>1. /\ roster' = [roster EXCEPT ![r] = [asg EXCEPT !.rev = @ + 1]]
      /\ UNCHANGED <<now, config, settings, drafts, issued, reviewed, opened>>
  BY DEF Revise
<1> DEFINE new == [asg EXCEPT !.rev = @ + 1]
<1>2. new \in Standing /\ new.rev = asg.rev + 1
  BY DEF Standing
<1> HIDE DEF new
<1>3. /\ roster \in [Refs -> Standing] /\ roster' \in [Refs -> Standing]
      /\ roster'[r] = new /\ \A q \in Refs \ {r} : roster'[q] = roster[q]
  BY <1>1, <1>2 DEF ReviewInv, SurroundingsOK, new
<1>4. SurroundingsOK'
  BY <1>1, <1>3 DEF ReviewInv, SurroundingsOK
<1>5. TypeOK'
  BY <1>1 DEF ReviewInv, TypeOK
<1>6. ASSUME NEW d \in DraftIds, drafts[d] # NoDraft
      PROVE  /\ drafts[d].rev <= roster'[drafts[d].ref].rev
             /\ roster'[drafts[d].ref].rev = drafts[d].rev =>
                  roster'[drafts[d].ref] = roster[drafts[d].ref]
  <2>1. drafts[d].ref \in Refs /\ drafts[d].rev \in Nat
    BY <1>6 DEF ReviewInv, TypeOK, Draft
  <2>2. drafts[d].rev <= roster[drafts[d].ref].rev
    BY <1>6 DEF ReviewInv, PinsAreOld
  <2>3. roster[r].rev \in Nat /\ new.rev = roster[r].rev + 1
    BY <1>2, <1>3 DEF Standing
  <2>4. CASE drafts[d].ref = r
    BY <1>3, <2>1, <2>2, <2>3, <2>4
  <2>5. CASE drafts[d].ref # r
    BY <1>3, <2>1, <2>2, <2>5
  <2> QED
    BY <2>4, <2>5
<1>7. PinsAreOld'
  BY <1>1, <1>6 DEF PinsAreOld
<1>8. PinnedGrants'
  BY <1>1, <1>6 DEF ReviewInv, PinnedGrants
<1>9. OneDraftPerKey' /\ AnswersKept' /\ PreviewsFollow'
  BY <1>1 DEF ReviewInv, OneDraftPerKey, AnswersKept, PreviewsFollow
<1> QED
  BY <1>4, <1>5, <1>7, <1>8, <1>9 DEF ReviewInv


(* Editing a draft leaves everything but its status and its lines.         *)
LEMMA EditKeeps ==
  ASSUME ReviewInv, NEW d \in DraftIds, NEW new \in Draft,
         drafts[d] # NoDraft,
         /\ new.actor = drafts[d].actor /\ new.unit = drafts[d].unit
         /\ new.ref = drafts[d].ref /\ new.rev = drafts[d].rev
         /\ new.customer = drafts[d].customer /\ new.key = drafts[d].key,
         new.status = "CANCELLED" => new.lines = NoLines,
         drafts' = [drafts EXCEPT ![d] = new],
         UNCHANGED <<now, config, roster, settings, issued, reviewed, opened>>
  PROVE  ReviewInv'
<1>1. drafts \in [DraftIds -> Draft \cup {NoDraft}]
  BY DEF ReviewInv, TypeOK
<1>2. /\ drafts' \in [DraftIds -> Draft \cup {NoDraft}]
      /\ drafts'[d] = new /\ \A e \in DraftIds \ {d} : drafts'[e] = drafts[e]
  BY <1>1
<1>3. \A e \in DraftIds :
        /\ (drafts'[e] # NoDraft) = (drafts[e] # NoDraft)
        /\ drafts[e] # NoDraft =>
             /\ drafts'[e].actor = drafts[e].actor /\ drafts'[e].unit = drafts[e].unit
             /\ drafts'[e].ref = drafts[e].ref /\ drafts'[e].rev = drafts[e].rev
             /\ drafts'[e].customer = drafts[e].customer /\ drafts'[e].key = drafts[e].key
  BY <1>2, NoDraftIsNone
<1>4. SurroundingsOK'
  BY DEF ReviewInv, SurroundingsOK
<1>5. TypeOK'
  BY <1>2 DEF ReviewInv, TypeOK
<1>6. PinsAreOld'
  BY <1>3 DEF ReviewInv, PinsAreOld
<1>7. PinnedGrants'
  BY <1>3 DEF ReviewInv, PinnedGrants
<1>8. OneDraftPerKey'
  BY <1>3 DEF ReviewInv, OneDraftPerKey
<1>9. AnswersKept'
  BY <1>3 DEF ReviewInv, AnswersKept
<1>10. PreviewsFollow'
  BY <1>3 DEF ReviewInv, PreviewsFollow
<1> QED
  BY <1>4, <1>5, <1>6, <1>7, <1>8, <1>9, <1>10 DEF ReviewInv

(* Lines are set on an open draft.                                         *)
LEMMA SetLinesKeeps ==
  ASSUME ReviewInv, NEW a, NEW d \in DraftIds, NEW lines \in Lines, NEW at,
         SetLines(a, d, lines, at)
  PROVE  ReviewInv'
<1> DEFINE k == drafts[d]
           new == [k EXCEPT !.lines = lines]
<1>1. k.status = "OPEN"
  BY DEF SetLines
<1>2. k \in Draft /\ k # NoDraft
  BY <1>1, NoDraftIsNone DEF ReviewInv, TypeOK
<1>3. drafts' = [drafts EXCEPT ![d] = new]
  BY DEF SetLines
<1> HIDE DEF k
<1>4. /\ new \in Draft /\ new.status = k.status
      /\ new.actor = k.actor /\ new.unit = k.unit /\ new.ref = k.ref /\ new.rev = k.rev
      /\ new.customer = k.customer /\ new.key = k.key
  BY <1>2 DEF Draft
<1> HIDE DEF new
<1>5. UNCHANGED <<now, config, roster, settings, issued, reviewed, opened>>
  BY DEF SetLines
<1>6. new.status # "CANCELLED"
  BY <1>1, <1>4
<1> QED
  BY <1>2, <1>3, <1>4, <1>5, <1>6, EditKeeps DEF k

(* A draft is cancelled, and loses its lines.                              *)
LEMMA CancelKeeps ==
  ASSUME ReviewInv, NEW a, NEW d \in DraftIds, NEW at, Cancel(a, d, at)
  PROVE  ReviewInv'
<1> DEFINE k == drafts[d]
           new == Cancelled(k)
<1>1. k.status = "OPEN"
  BY DEF Cancel
<1>2. k \in Draft /\ k # NoDraft
  BY <1>1, NoDraftIsNone DEF ReviewInv, TypeOK
<1>3. drafts' = [drafts EXCEPT ![d] = new]
  BY DEF Cancel
<1> HIDE DEF k
<1>4. /\ new \in Draft /\ new.lines = NoLines
      /\ new.actor = k.actor /\ new.unit = k.unit /\ new.ref = k.ref /\ new.rev = k.rev
      /\ new.customer = k.customer /\ new.key = k.key
  BY <1>2 DEF Draft, Cancelled
<1> HIDE DEF new
<1>5. UNCHANGED <<now, config, roster, settings, issued, reviewed, opened>>
  BY DEF Cancel
<1> QED
  BY <1>2, <1>3, <1>4, <1>5, EditKeeps DEF k

(* A preview is what its hash and its draft's unit make it.                *)
LEMMA ShownFromHash ==
  ASSUME NEW d, NEW identity
  PROVE  /\ Shown(d, identity) = FromHash(Hash(d, identity), drafts[d].unit)
         /\ Shown(d, identity).hash = Hash(d, identity)
         /\ Shown(d, identity).draft = d
         /\ Shown(d, identity).total = drafts[d].lines.amount
         /\ Shown(d, identity).template = Active(drafts[d].unit).template
BY DEF Shown, FromHash, Hash, Active

LEMMA PreviewKeeps ==
  ASSUME ReviewInv, NEW a, NEW d \in DraftIds, NEW at, Preview(a, d, at)
  PROVE  ReviewInv'
<1> DEFINE p == Shown(d, ResolveIdentity(drafts[d].unit, at).identity)
<1>1. /\ drafts[d].status = "OPEN" /\ drafts[d].lines # NoLines
      /\ Active(drafts[d].unit).template # NoTemplate
      /\ issued' = issued \cup {p}
      /\ UNCHANGED <<now, config, roster, settings, drafts, reviewed, opened>>
  BY DEF Preview
<1>2. drafts[d] \in Draft /\ drafts[d] # NoDraft
  BY <1>1, NoDraftIsNone DEF ReviewInv, TypeOK
<1>3. drafts[d].lines \in Lines
  BY <1>1, <1>2 DEF Draft
<1>4. drafts[d].lines.amount \in Nat
  BY <1>3, DraftBounds
<1>5. /\ p = FromHash(p.hash, drafts[d].unit)
      /\ p.draft = d /\ p.total = drafts[d].lines.amount
      /\ p.template = Active(drafts[d].unit).template
  BY ShownFromHash
<1> HIDE DEF p
<1>6. SurroundingsOK'
  BY <1>1 DEF ReviewInv, SurroundingsOK
<1>7. TypeOK'
  BY <1>1, <1>4, <1>5 DEF ReviewInv, TypeOK
<1>8. PinsAreOld' /\ PinnedGrants' /\ OneDraftPerKey' /\ AnswersKept'
  BY <1>1 DEF ReviewInv, PinsAreOld, PinnedGrants, OneDraftPerKey, AnswersKept
<1>9. PreviewsFollow'
  BY <1>1, <1>2, <1>5 DEF ReviewInv, PreviewsFollow
<1> QED
  BY <1>6, <1>7, <1>8, <1>9 DEF ReviewInv

(* Nothing else depends on what was reviewed.                              *)
LEMMA ReviewedKeeps ==
  ASSUME ReviewInv, UNCHANGED <<now, config, roster, settings, drafts, issued, opened>>
  PROVE  ReviewInv'
BY DEF ReviewInv, SurroundingsOK, TypeOK, PinsAreOld, PinnedGrants, OneDraftPerKey,
       AnswersKept, PreviewsFollow, FromHash


(* authorize and _selected_assignment find the same assignment.            *)
LEMMA SelectedIsAuthorized ==
  ASSUME NEW actor, NEW selected, NEW at,
         Authorize(PreviewRequest(actor, selected, at, NoRevision, NoPreview), roster).allowed,
         NEW r \in SelectedAssignments(actor,
           Authorize(PreviewRequest(actor, selected, at, NoRevision, NoPreview), roster).unit, at)
  PROVE  /\ roster[r].actor = actor
         /\ roster[r].unit =
              Authorize(PreviewRequest(actor, selected, at, NoRevision, NoPreview), roster).unit
         /\ \E role \in roster[r].roles : "INVOICE_PREVIEW" \in RoleActions(role)
<1> DEFINE req == PreviewRequest(actor, selected, at, NoRevision, NoPreview)
           unit == Authorize(req, roster).unit
<1>1. req.actor = actor /\ req.at = at /\ req.unit = selected /\ req.action = "INVOICE_PREVIEW"
  BY DEF PreviewRequest, Request
<1>2. r \in Refs /\ Effective(roster[r], actor, at) /\ roster[r].unit = unit
  BY DEF SelectedAssignments
<1>3. Authorize(req, roster).allowed
  OBVIOUS
<1> HIDE DEF req
<1>4. PICK ref \in Refs : /\ Candidates(req, roster) = {ref}
                          /\ Authorize(req, roster) = Judge(req, ref, roster[ref])
  BY <1>3, GrantedUnder
<1>5. Judge(req, ref, roster[ref]).allowed
  BY <1>3, <1>4
<1>6. /\ \E role \in roster[ref].roles : req.action \in RoleActions(role)
      /\ Judge(req, ref, roster[ref]).unit = roster[ref].unit
  <2> DEFINE asg == roster[ref]
  <2>1. Judge(req, ref, asg).allowed
    BY <1>5
  <2> HIDE DEF asg
  <2>2. \E role \in asg.roles : req.action \in RoleActions(role)
    BY <2>1, JudgedAllowed
  <2>3. Judge(req, ref, asg).unit = asg.unit
    BY <2>1 DEF Judge, Denied, Allowed
  <2> QED
    BY <2>2, <2>3 DEF asg
<1>7. roster[r].unit = roster[ref].unit
  BY <1>2, <1>4, <1>6
<1>8. selected \in {NoUnit, roster[ref].unit}
  BY <1>1, <1>4 DEF Candidates
<1>9. r \in Candidates(req, roster)
  BY <1>1, <1>2, <1>7, <1>8 DEF Candidates
<1>10. r = ref
  BY <1>4, <1>9
<1>11. roster[r].actor = actor
  BY <1>2 DEF Effective
<1> QED
  BY <1>1, <1>2, <1>6, <1>10, <1>11 DEF req

(* A new draft under a key nobody of this actor's used.                    *)
LEMMA OpenNewKeeps ==
  ASSUME ReviewInv, NEW actor \in Actors, NEW selected, NEW customer \in Customers,
         NEW key \in Keys, NEW at \in 1..now,
         NEW unit,
         unit = Authorize(PreviewRequest(actor, selected, at, NoRevision, NoPreview), roster).unit,
         Authorize(PreviewRequest(actor, selected, at, NoRevision, NoPreview), roster).allowed,
         Replayed(actor, key) = {},
         OpenNew(actor, unit, customer, key, at),
         UNCHANGED <<now, config, roster, settings, issued, reviewed>>
  PROVE  ReviewInv'
<1>1. PICK d \in DraftIds, r \in SelectedAssignments(actor, unit, at) :
        /\ drafts[d] = NoDraft
        /\ drafts' = [drafts EXCEPT ![d] =
             [status |-> "OPEN", actor |-> actor, unit |-> unit, ref |-> r, rev |-> roster[r].rev,
              customer |-> customer, lines |-> NoLines, at |-> at, key |-> key]]
        /\ opened' = opened \cup {Answer(actor, key, unit, customer, d)}
  BY DEF OpenNew
<1> DEFINE new == [status |-> "OPEN", actor |-> actor, unit |-> unit, ref |-> r,
                   rev |-> roster[r].rev, customer |-> customer, lines |-> NoLines,
                   at |-> at, key |-> key]
<1>2. /\ roster[r].actor = actor /\ roster[r].unit = unit
      /\ \E role \in roster[r].roles : "INVOICE_PREVIEW" \in RoleActions(role)
  BY SelectedIsAuthorized
<1>3. r \in Refs /\ roster \in [Refs -> Standing] /\ now \in Nat
  BY DEF SelectedAssignments, ReviewInv, SurroundingsOK
<1>4. roster[r].rev \in Nat /\ unit \in Units /\ at \in Nat
  BY <1>2, <1>3 DEF Standing
<1>5. /\ new \in Draft /\ new.status = "OPEN" /\ new.actor = actor /\ new.unit = unit
      /\ new.ref = r /\ new.rev = roster[r].rev /\ new.customer = customer /\ new.key = key
  BY <1>3, <1>4 DEF Draft
<1>6. drafts' = [drafts EXCEPT ![d] = new] /\ drafts[d] = NoDraft
  BY <1>1
<1> HIDE DEF new
<1>7. drafts \in [DraftIds -> Draft \cup {NoDraft}]
  BY DEF ReviewInv, TypeOK
<1>8. /\ drafts' \in [DraftIds -> Draft \cup {NoDraft}]
      /\ drafts'[d] = new /\ \A e \in DraftIds \ {d} : drafts'[e] = drafts[e]
  BY <1>5, <1>6, <1>7
<1>9. drafts'[d] # NoDraft /\ \A e \in DraftIds : drafts[e] # NoDraft => drafts'[e] = drafts[e]
  BY <1>5, <1>6, <1>8, NoDraftIsNone
<1>10. SurroundingsOK'
  BY DEF ReviewInv, SurroundingsOK
<1>11. TypeOK'
  BY <1>5, <1>8 DEF ReviewInv, TypeOK
<1>12. PinsAreOld'
  BY <1>4, <1>5, <1>8 DEF ReviewInv, PinsAreOld
<1>13. PinnedGrants'
  BY <1>2, <1>5, <1>8 DEF ReviewInv, PinnedGrants
<1>14. OneDraftPerKey'
  <2>1. key # NoKey => \A e \in DraftIds : drafts[e] # NoDraft =>
          ~(drafts[e].actor = actor /\ drafts[e].key = key)
    BY DEF Replayed, Scoped
  <2> QED
    BY <1>5, <1>8, <2>1 DEF ReviewInv, OneDraftPerKey
<1>15. AnswersKept'
  <2> DEFINE x == Answer(actor, key, unit, customer, d)
  <2>1. /\ x.draft = d /\ x.actor = actor /\ x.key = key /\ x.unit = unit
        /\ x.customer = customer /\ opened' = opened \cup {x}
    BY <1>1 DEF Answer
  <2> HIDE DEF x
  <2>2. drafts'[d].actor = actor /\ drafts'[d].key = key /\ drafts'[d].unit = unit
        /\ drafts'[d].customer = customer
    BY <1>5, <1>8
  <2>3. ASSUME NEW y \in opened
        PROVE  y.draft \in DraftIds /\ drafts'[y.draft] = drafts[y.draft]
    BY <1>9 DEF ReviewInv, AnswersKept
  <2> QED
    BY <1>9, <2>1, <2>2, <2>3 DEF ReviewInv, AnswersKept
<1>16. PreviewsFollow'
  <2>1. ASSUME NEW p \in issued
        PROVE  p.draft \in DraftIds /\ drafts'[p.draft] = drafts[p.draft]
    BY <1>9 DEF ReviewInv, PreviewsFollow
  <2> QED
    BY <2>1 DEF ReviewInv, PreviewsFollow
<1> QED
  BY <1>10, <1>11, <1>12, <1>13, <1>14, <1>15, <1>16 DEF ReviewInv

(* A repeated open is answered with the draft of its key.                  *)
LEMMA ReplayKeeps ==
  ASSUME ReviewInv, NEW actor, NEW unit, NEW customer, NEW key,
         NEW d \in Replayed(actor, key),
         drafts[d].customer = customer /\ drafts[d].unit = unit,
         opened' = opened \cup {Answer(actor, key, unit, customer, d)},
         UNCHANGED <<now, config, roster, settings, drafts, issued, reviewed>>
  PROVE  ReviewInv'
<1>1. d \in DraftIds /\ drafts[d] # NoDraft /\ drafts[d].actor = actor /\ drafts[d].key = key
  BY DEF Replayed, Scoped
<1>2. AnswersKept'
  BY <1>1 DEF ReviewInv, AnswersKept, Answer
<1> QED
  BY <1>2 DEF ReviewInv, SurroundingsOK, TypeOK, PinsAreOld, PinnedGrants, OneDraftPerKey,
              PreviewsFollow

LEMMA OpenKeeps ==
  ASSUME ReviewInv, NEW a \in Actors, NEW u, NEW c \in Customers, NEW k \in Keys,
         NEW at \in 1..now, OpenDraft(a, u, c, k, at)
  PROVE  ReviewInv'
<1> DEFINE decision == Authorize(PreviewRequest(a, u, at, NoRevision, NoPreview), roster)
           unit == decision.unit
<1>1. /\ decision.allowed
      /\ UNCHANGED <<now, config, roster, settings, issued, reviewed>>
      /\ \/ Replayed(a, k) = {} /\ OpenNew(a, unit, c, k, at)
         \/ \E d \in Replayed(a, k) :
              /\ drafts[d].customer = c /\ drafts[d].unit = unit
              /\ opened' = opened \cup {Answer(a, k, unit, c, d)}
              /\ UNCHANGED drafts
  BY DEF OpenDraft
<1>2. CASE Replayed(a, k) = {} /\ OpenNew(a, unit, c, k, at)
  BY <1>1, <1>2, OpenNewKeeps
<1>3. CASE \E d \in Replayed(a, k) :
             /\ drafts[d].customer = c /\ drafts[d].unit = unit
             /\ opened' = opened \cup {Answer(a, k, unit, c, d)}
             /\ UNCHANGED drafts
  BY <1>1, <1>3, ReplayKeeps
<1> QED
  BY <1>1, <1>2, <1>3


(* Every step keeps the invariant.                                         *)
LEMMA ReviewNext == ReviewInv /\ [Next]_vars => ReviewInv'
<1> SUFFICES ASSUME ReviewInv, [Next]_vars PROVE ReviewInv'
  OBVIOUS
<1>1. CASE Tick
  BY <1>1, TickKeeps
<1>2. ASSUME NEW u \in Units, ActivateSettings(u) PROVE ReviewInv'
  BY <1>2, ActivateKeeps
<1>3. ASSUME NEW r \in Refs, NEW x \in Refs, ChangeRoles(r, roster[x].roles) PROVE ReviewInv'
  <2> DEFINE k == roster[r]
             y == roster[x].roles
             asg == [k EXCEPT !.roles = y]
  <2>1. k \in Standing /\ y \in SUBSET Roles
    BY DEF ReviewInv, SurroundingsOK, Standing
  <2>2. Revise(r, asg)
    BY <1>3 DEF ChangeRoles
  <2> HIDE DEF k, y
  <2>3. asg \in Standing /\ asg.rev = k.rev
    BY <2>1 DEF Standing
  <2> HIDE DEF asg
  <2> QED
    BY <2>2, <2>3, ReviseKeeps DEF k
<1>4. ASSUME NEW r \in Refs, WithdrawOrRestore(r) PROVE ReviewInv'
  <2> DEFINE k == roster[r]
             asg == [k EXCEPT !.active = ~@]
  <2>1. k \in Standing
    BY DEF ReviewInv, SurroundingsOK
  <2>2. Revise(r, asg)
    BY <1>4 DEF WithdrawOrRestore
  <2> HIDE DEF k
  <2>3. asg \in Standing /\ asg.rev = k.rev
    BY <2>1 DEF Standing
  <2> HIDE DEF asg
  <2> QED
    BY <2>2, <2>3, ReviseKeeps DEF k
<1>5. ASSUME NEW a \in Actors, NEW at \in 1..now, NEW u \in Units \cup {NoUnit},
             NEW c \in Customers, NEW k \in Keys, OpenDraft(a, u, c, k, at)
      PROVE  ReviewInv'
  BY <1>5, OpenKeeps
<1>6. ASSUME NEW a \in Actors, NEW at \in 1..now, NEW d \in DraftIds, NEW lines \in Lines,
             SetLines(a, d, lines, at)
      PROVE  ReviewInv'
  BY <1>6, SetLinesKeeps
<1>7. ASSUME NEW a \in Actors, NEW at \in 1..now, NEW d \in DraftIds, Cancel(a, d, at)
      PROVE  ReviewInv'
  BY <1>7, CancelKeeps
<1>8. ASSUME NEW a \in Actors, NEW at \in 1..now, NEW d \in DraftIds, Preview(a, d, at)
      PROVE  ReviewInv'
  BY <1>8, PreviewKeeps
<1>9. ASSUME NEW a \in Actors, NEW at \in 1..now, NEW preview, RenderForReview(a, preview, at)
      PROVE  ReviewInv'
  BY <1>9, ReviewedKeeps DEF RenderForReview
<1>10. CASE UNCHANGED vars
  BY <1>10, ReviewedKeeps DEF vars
<1> QED
  BY <1>1, <1>2, <1>3, <1>4, <1>5, <1>6, <1>7, <1>8, <1>9, <1>10 DEF Next

-----------------------------------------------------------------------------
(* Drafts, the answers to opens and the previews given out are always as   *)
(* the invariant says.                                                     *)
THEOREM ReviewInvariance == Spec => []ReviewInv
BY ReviewInit, ReviewNext, PTL DEF Spec

(* Whatever assignments, settings and policies do between the calls, a     *)
(* draft is pinned to an assignment that grants its owner the preview, and *)
(* opening is idempotent per actor and key (open_draft).                   *)
THEOREM DraftsHold == Spec => []DraftsInv
<1>1. ReviewInv => DraftsInv
  <2> SUFFICES ASSUME ReviewInv PROVE OpenIsIdempotent
    BY DEF ReviewInv, DraftsInv
  <2> QED
    BY DEF ReviewInv, AnswersKept, OneDraftPerKey, OpenIsIdempotent
<1> QED
  BY <1>1, ReviewInvariance, PTL

(* The hash of a preview tells everything the preview shows (_hash).       *)
THEOREM HashBinds == Spec => []HashIdentifiesPreview
<1>1. ReviewInv => HashIdentifiesPreview
  <2> SUFFICES ASSUME ReviewInv, NEW p \in issued, NEW q \in issued, p.hash = q.hash
               PROVE  p = q
    BY DEF HashIdentifiesPreview
  <2>1. /\ p = FromHash(p.hash, drafts[p.draft].unit)
        /\ q = FromHash(q.hash, drafts[q.draft].unit)
    BY DEF ReviewInv, PreviewsFollow
  <2>2. p.draft = p.hash.draft /\ q.draft = q.hash.draft
    BY <2>1 DEF FromHash
  <2> QED
    BY <2>1, <2>2
<1> QED
  BY <1>1, ReviewInvariance, PTL

(* Once the pinned assignment was revised, no call changes the draft or    *)
(* gives out or shows a preview of it (_reauthorize_mutation, preview,     *)
(* render_for_review).                                                     *)
THEOREM FrozenHolds == Spec => RevisedDraftsAreFrozen
<1> DEFINE Frozen(d) ==
      drafts[d] # NoDraft /\ roster[drafts[d].ref].rev # drafts[d].rev =>
         /\ drafts'[d] = drafts[d]
         /\ \A p \in issued' \ issued : p.draft # d
         /\ reviewed' # reviewed => reviewed'.preview.draft # d
<1>1. ReviewInv /\ Next => \A d \in DraftIds : Frozen(d)
  <2> SUFFICES ASSUME ReviewInv, Next, NEW d \in DraftIds,
                      drafts[d] # NoDraft, roster[drafts[d].ref].rev # drafts[d].rev
               PROVE  /\ drafts'[d] = drafts[d]
                      /\ \A p \in issued' \ issued : p.draft # d
                      /\ reviewed' # reviewed => reviewed'.preview.draft # d
    OBVIOUS
  <2>0. drafts \in [DraftIds -> Draft \cup {NoDraft}]
    BY DEF ReviewInv, TypeOK
  <2>1. CASE Tick \/ \E u \in Units : ActivateSettings(u)
    BY <2>1 DEF Tick, ActivateSettings
  <2>2. CASE \E r \in Refs : \/ \E x \in Refs : ChangeRoles(r, roster[x].roles)
                             \/ WithdrawOrRestore(r)
    BY <2>2 DEF ChangeRoles, WithdrawOrRestore, Revise
  <2>3. ASSUME NEW a, NEW at, NEW u, NEW c, NEW k, OpenDraft(a, u, c, k, at)
        PROVE  drafts'[d] = drafts[d] /\ UNCHANGED <<issued, reviewed>>
    <3>1. UNCHANGED <<issued, reviewed>>
      BY <2>3 DEF OpenDraft
    <3>2. \/ UNCHANGED drafts
          \/ OpenNew(a, Authorize(PreviewRequest(a, u, at, NoRevision, NoPreview), roster).unit,
                     c, k, at)
      BY <2>3 DEF OpenDraft
    <3>3. ASSUME NEW unit, OpenNew(a, unit, c, k, at) PROVE drafts'[d] = drafts[d]
      BY <2>0, <3>3 DEF OpenNew
    <3> QED
      BY <3>1, <3>2, <3>3
  <2>4. ASSUME NEW a, NEW at, NEW e \in DraftIds, NEW lines, SetLines(a, e, lines, at)
        PROVE  drafts'[d] = drafts[d] /\ UNCHANGED <<issued, reviewed>>
    <3>1. Reauthorized(drafts[e], a, at)
      BY <2>4 DEF SetLines, ReauthorizedMutation
    <3>2. e # d
      BY <3>1, PinStands
    <3> QED
      BY <2>0, <2>4, <3>2 DEF SetLines
  <2>5. ASSUME NEW a, NEW at, NEW e \in DraftIds, Cancel(a, e, at)
        PROVE  drafts'[d] = drafts[d] /\ UNCHANGED <<issued, reviewed>>
    <3>1. Reauthorized(drafts[e], a, at)
      BY <2>5 DEF Cancel, ReauthorizedMutation
    <3>2. e # d
      BY <3>1, PinStands
    <3> QED
      BY <2>0, <2>5, <3>2 DEF Cancel
  <2>6. ASSUME NEW a, NEW at, NEW e \in DraftIds, Preview(a, e, at)
        PROVE  UNCHANGED <<drafts, reviewed>> /\ \A p \in issued' \ issued : p.draft # d
    <3>1. Reauthorized(drafts[e], a, at)
      BY <2>6 DEF Preview
    <3>2. e # d
      BY <3>1, PinStands
    <3>3. Shown(e, ResolveIdentity(drafts[e].unit, at).identity).draft = e
      BY ShownFromHash
    <3> QED
      BY <2>6, <3>2, <3>3 DEF Preview
  <2>7. ASSUME NEW a, NEW at, NEW preview, RenderForReview(a, preview, at)
        PROVE  UNCHANGED <<drafts, issued>> /\ reviewed'.preview.draft # d
    <3>1. /\ Reauthorized(drafts[preview.draft], a, at)
          /\ reviewed' = [preview |-> preview, at |-> at]
      BY <2>7 DEF RenderForReview
    <3>2. preview.draft # d
      BY <3>1, PinStands
    <3> QED
      BY <2>7, <3>1, <3>2 DEF RenderForReview
  <2> QED
    BY <2>1, <2>2, <2>3, <2>4, <2>5, <2>6, <2>7 DEF Next
<1>2. ReviewInv /\ [Next]_vars => [\A d \in DraftIds : Frozen(d)]_vars
  BY <1>1
<1> QED
  BY <1>2, ReviewInvariance, PTL DEF Spec, RevisedDraftsAreFrozen

(* A review shows the draft's lines and the active settings of that        *)
(* moment, under the approved identity of the one policy in force at the   *)
(* instant the caller names (render_for_review).                           *)
THEOREM ReviewCurrent == Spec => ReviewIsCurrent
<1> DEFINE Current ==
      reviewed' # reviewed =>
       LET p == reviewed'.preview
           at == reviewed'.at
       IN /\ drafts[p.draft].status = "OPEN"
          /\ p.hash.lines = drafts[p.draft].lines
          /\ p.template = Active(p.unit).template /\ p.currency = Active(p.unit).currency
          /\ drafts[p.draft].at <= at /\ settings[p.unit].from <= at /\ at <= now
          /\ \E policy \in config.policies :
               /\ InForce(p.unit, p.currency, at) = {policy}
               /\ Redact(policy.identity) = p.identity
               /\ policy.identity \in config.catalog.identities
<1>1. ReviewInv /\ Next => Current
  <2> SUFFICES ASSUME ReviewInv, Next, reviewed' # reviewed PROVE Current
    OBVIOUS
  <2>1. PICK a \in Actors, at \in 1..now, p \in issued, q \in issued :
          RenderForReview(a, [p EXCEPT !.hash = q.hash], at)
    <3>1. /\ Tick => UNCHANGED reviewed
          /\ \A u \in Units : ActivateSettings(u) => UNCHANGED reviewed
      BY DEF Tick, ActivateSettings
    <3>2. \A r \in Refs : /\ \A x \in Refs : ChangeRoles(r, roster[x].roles) => UNCHANGED reviewed
                          /\ WithdrawOrRestore(r) => UNCHANGED reviewed
      BY DEF ChangeRoles, WithdrawOrRestore, Revise
    <3>3. ASSUME NEW a, NEW at, NEW u, NEW c, NEW k, OpenDraft(a, u, c, k, at)
          PROVE  UNCHANGED reviewed
      BY <3>3 DEF OpenDraft
    <3>4. ASSUME NEW a, NEW at, NEW d, NEW lines,
                 SetLines(a, d, lines, at) \/ Cancel(a, d, at) \/ Preview(a, d, at)
          PROVE  UNCHANGED reviewed
      BY <3>4 DEF SetLines, Cancel, Preview
    <3> QED
      BY <3>1, <3>2, <3>3, <3>4 DEF Next
  <2> DEFINE v == reviewed'.preview
             d == v.draft
             question == Question(v.unit, Active(v.unit).currency, at, NoIdentity, NoOverride)
             found == Resolve(config, question)
  <2>2. /\ drafts[d].status = "OPEN" /\ found.resolved
        /\ v = Shown(d, found.identity) /\ reviewed'.at = at
        /\ Reauthorized(drafts[d], a, at) /\ SettingsAt(v.unit, at)
    BY <2>1 DEF RenderForReview, ResolveIdentity, Genuine
  <2>3. /\ v.unit = drafts[d].unit /\ v.hash.lines = drafts[d].lines
        /\ v.currency = Active(drafts[d].unit).currency
        /\ v.template = Active(drafts[d].unit).template
        /\ v.identity = Redact(found.identity)
    <3> HIDE DEF d, found
    <3>1. v = Shown(d, found.identity)
      BY <2>2
    <3> HIDE DEF v
    <3> QED
      BY <3>1 DEF Shown, Hash
  <2>4. IsFiniteSet(config.policies) /\ \A policy \in config.policies : policy.from \in Int
    BY DraftBounds DEF ReviewInv, SurroundingsOK
  <2>5. /\ question.unit = v.unit /\ question.currency = v.currency
        /\ question.at = at /\ question.wanted = NoIdentity
    BY <2>3 DEF Question
  <2>6. Matches(config, question) = InForce(v.unit, v.currency, at)
    <3> HIDE DEF question, v
    <3> QED
      BY <2>5 DEF Matches, InForce
  <2> HIDE DEF question
  <2>7. PICK policy \in config.policies :
          /\ Matches(config, question) = {policy}
          /\ policy.identity \in config.catalog.identities
          /\ found = Resolved(policy)
    BY <2>2, <2>4, ResolvedBy
  <2>8. found.identity = policy.identity
    BY <2>7 DEF Resolved
  <2>9. drafts[d].at <= at /\ settings[v.unit].from <= at /\ at <= now
    <3>1. at <= now
      BY DEF ReviewInv, SurroundingsOK
    <3>2. settings[v.unit].from <= at /\ drafts[d].at <= at
      BY <2>2 DEF SettingsAt, Reauthorized
    <3> QED
      BY <3>1, <3>2
  <2> HIDE DEF found
  <2>10. Redact(policy.identity) = v.identity
    BY <2>3, <2>8
  <2>11. v.template = Active(v.unit).template /\ v.currency = Active(v.unit).currency
    BY <2>3
  <2>12. InForce(v.unit, v.currency, at) = {policy}
    BY <2>6, <2>7
  <2> HIDE DEF v, d
  <2> QED
    BY <2>2, <2>3, <2>7, <2>9, <2>10, <2>11, <2>12 DEF v, d
<1>2. ReviewInv /\ [Next]_vars => [Current]_vars
  BY <1>1
<1> QED
  BY <1>2, ReviewInvariance, PTL DEF Spec, ReviewIsCurrent

(* An override chooses among ambiguous policies and does nothing else, and *)
(* only under a registered issuer's signature over the policy's version    *)
(* (FinancialPolicyResolver.resolve).                                      *)
THEOREM OverrideDecides == Spec => []OverrideOnlyDecides
<1>1. ReviewInv => OverrideOnlyDecides
  <2> SUFFICES ASSUME ReviewInv, NEW policy \in config.policies, NEW override \in Overrides,
                      Resolve(config, Question(policy.identity.unit, policy.currency, now,
                                               policy.identity, override)).resolved
               PROVE  LET asked == Resolve(config, Question(policy.identity.unit, policy.currency,
                                             now, policy.identity, override))
                          plain == Resolve(config, Question(policy.identity.unit, policy.currency,
                                             now, NoIdentity, NoOverride))
                      IN /\ asked.identity = policy.identity
                         /\ asked.identity \in config.catalog.identities
                         /\ \/ plain.resolved /\ plain.identity = asked.identity
                            \/ plain = Unresolved("POLICY_AMBIGUOUS")
                         /\ config.issuers # NoRegistry =>
                              override.signature =
                                Sign(config.issuers[override.issuer], <<"R", asked.version>>)
    BY DEF OverrideOnlyDecides
  <2> DEFINE qa == Question(policy.identity.unit, policy.currency, now, policy.identity, override)
             qp == Question(policy.identity.unit, policy.currency, now, NoIdentity, NoOverride)
  <2>1. override # NoOverride /\ override.reason = "R"
    <3>1. /\ override.reason = "R"
          /\ DOMAIN override = {"reason", "version", "issuer", "signature"}
      BY DEF Overrides
    <3>2. DOMAIN NoOverride = {"version"}
      BY DEF NoOverride
    <3> QED
      BY <3>1, <3>2
  <2>2. /\ qa.unit = qp.unit /\ qa.currency = qp.currency /\ qa.at = qp.at
        /\ qa.wanted = policy.identity /\ qa.override = override
        /\ qp.wanted = NoIdentity /\ qp.override = NoOverride
    BY DEF Question
  <2>3. Resolve(config, qa).resolved
    OBVIOUS
  <2>4. IsFiniteSet(config.policies)
    BY DraftBounds DEF ReviewInv, SurroundingsOK
  <2> HIDE DEF qa, qp
  <2>5. PICK chosen \in config.policies :
          /\ Matches(config, qa) = {chosen}
          /\ chosen.identity \in config.catalog.identities
          /\ Resolve(config, qa) = Resolved(chosen)
          /\ qa.override # NoOverride =>
               /\ qa.override.version = chosen.version
               /\ TrustedOverride(config, qa.override)
               /\ qa.wanted # NoIdentity
    BY <2>3, <2>4, ResolvedBy
  <2>6. chosen.identity = policy.identity /\ chosen \in Matches(config, qp)
    BY <2>1, <2>2, <2>5 DEF Matches
  <2>7. Resolve(config, qp) = Pick(config, qp, Matches(config, qp))
    BY <2>2, <2>6 DEF Resolve
  <2>8. \/ Resolve(config, qp) = Resolved(chosen)
        \/ Resolve(config, qp) = Unresolved("POLICY_AMBIGUOUS")
    <3> DEFINE found == Matches(config, qp)
    <3>1. chosen \in found /\ IsFiniteSet(found)
      BY <2>4, <2>6, FS_Subset DEF Matches
    <3>2. Resolve(config, qp) = Pick(config, qp, found)
      BY <2>7
    <3> HIDE DEF found
    <3>3. CASE Cardinality(found) # 1
      BY <3>2, <3>3 DEF Pick
    <3>4. CASE Cardinality(found) = 1
      <4>1. PICK one : found = {one}
        BY <3>1, <3>4, FS_Singleton
      <4>2. (CHOOSE p \in found : TRUE) = chosen
        BY <3>1, <4>1
      <4> QED
        BY <2>2, <2>5, <3>2, <3>4, <4>2 DEF Pick, Resolved, Unresolved
    <3> QED
      BY <3>3, <3>4
  <2>9. /\ Resolved(chosen).resolved /\ Resolved(chosen).identity = chosen.identity
        /\ Resolved(chosen).version = chosen.version
    BY DEF Resolved
  <2>10. config.issuers # NoRegistry =>
           override.signature = Sign(config.issuers[override.issuer], <<"R", chosen.version>>)
    BY <2>1, <2>2, <2>5 DEF TrustedOverride, Verify, OverridePayload
  <2> QED
    BY <2>5, <2>6, <2>8, <2>9, <2>10 DEF qa, qp
<1> QED
  BY <1>1, ReviewInvariance, PTL

-----------------------------------------------------------------------------
(* Reports: the inductive invariant *)

(* An invoice is posted once, into one unit, and closed once cancelled *)
InvoicesOK ==
  /\ assignments \in Rosters
  /\ invoices \in [Invoices -> Invoice \cup {NoInvoice}]
  /\ \A i \in Invoices : invoices[i].status = "CANCELLED" => invoices[i].open = 0
  /\ had \in [Invoices -> SUBSET (0..MaxAmount)]

(* A report in the making *)
Working ==
  [pc: {"query", "read"}, service: Services, actor: Actors, at: 1..MaxInstant,
   scope: SUBSET Units, todo: SUBSET Units, unit: Units \cup {NoUnit},
   refs: SUBSET Invoices, rows: Seq(Row)]

ReportDone(c) ==
  /\ c.pc = "done" /\ c.service \in Services /\ c.scope \in SUBSET Units
  /\ c.rows \in Seq(Row)

CallOK(c) ==
  \/ c = Idle
  \/ c \in Working
  \/ ReportDone(c)

(* What is to be read is still to be read: the units that remain are in     *)
(* scope, and the invoices that remain belong to the unit being read.       *)
RemainsOK(c, inv) ==
  c.pc \in {"query", "read"} =>
    /\ c.todo \subseteq c.scope
    /\ c.pc = "read" => /\ c.unit \in c.todo
                        /\ \A i \in c.refs : inv[i] # NoInvoice /\ inv[i].unit = c.unit

(* What an invoice has open is recorded while a report is made, and nothing *)
(* for one that is not posted                                               *)
HadOK(c, inv, h) ==
  /\ c.pc \in {"query", "read"} => \A i \in Invoices : Open(inv[i]) \in h[i]
  /\ c.pc = "done" => \A i \in Invoices : inv[i] = NoInvoice => 0 \in h[i]

(* A row was read of an invoice of its unit, with what it had open then *)
RowsOK(c, inv, h) ==
  c.pc # "idle" =>
    \A k \in DOMAIN c.rows :
      /\ c.rows[k].unit \in c.scope
      /\ inv[c.rows[k].invoice] # NoInvoice
      /\ inv[c.rows[k].invoice].unit = c.rows[k].unit
      /\ c.rows[k].open \in h[c.rows[k].invoice]

(* No invoice has two rows, and none with a row is still to be read *)
RowsDistinct(c) ==
  c.pc # "idle" =>
    /\ \A j, k \in DOMAIN c.rows : c.rows[j].invoice = c.rows[k].invoice => j = k
    /\ c.pc = "query" => \A k \in DOMAIN c.rows : c.rows[k].unit \notin c.todo
    /\ c.pc = "read" => \A k \in DOMAIN c.rows :
                          /\ c.rows[k].unit \notin c.todo \ {c.unit}
                          /\ c.rows[k].invoice \notin c.refs

HasRow(c, i) == \E k \in DOMAIN c.rows : c.rows[k].invoice = i

(* Is the invoice still to be read? *)
Awaits(c, inv, i) ==
  \/ c.pc = "query" /\ inv[i].unit \in c.todo
  \/ c.pc = "read" /\ inv[i].unit \in c.todo \ {c.unit}
  \/ c.pc = "read" /\ i \in c.refs

(* The unit's invoices, and whether one page holds them *)
InvoicesOf(inv, unit) == {i \in Invoices : inv[i] # NoInvoice /\ inv[i].unit = unit}
PageHolds(inv, unit) == Cardinality(InvoicesOf(inv, unit)) <= PageLength

(* An invoice open all the time has its row or will be read *)
NothingIsMissing(c, inv, h) ==
  c.pc # "idle" =>
    \A i \in Invoices :
      0 \notin h[i] /\ inv[i].unit \in c.scope /\ PageHolds(inv, inv[i].unit) =>
        HasRow(c, i) \/ Awaits(c, inv, i)

(* The units a roll-up has read so far, the one it is reading included *)
UnitsRead(c) ==
  IF c.pc = "query" THEN c.scope \ c.todo
  ELSE IF c.pc = "read" THEN c.scope \ (c.todo \ {c.unit}) ELSE c.scope

MayQuery(c, u) == Authorize(QueryRequest(c.actor, TRUE, u, c.at), assignments).allowed

ReadIsAuthorized(c) ==
  c.pc # "idle" /\ c.service = "rollup" => \A u \in UnitsRead(c) : MayQuery(c, u)

ReportIInv ==
  /\ InvoicesOK /\ CallOK(call)
  /\ RemainsOK(call, invoices) /\ HadOK(call, invoices, had) /\ RowsOK(call, invoices, had)
  /\ RowsDistinct(call) /\ NothingIsMissing(call, invoices, had)
  /\ ReadIsAuthorized(call)

(* No report is being made before anything is posted.                       *)
LEMMA ReportInitial == ReportInit => ReportIInv
<1> SUFFICES ASSUME ReportInit PROVE ReportIInv
  OBVIOUS
<1>1. InvoicesOK
  BY DEF ReportInit, InvoicesOK, NoInvoice, NothingYet
<1>2. call = Idle /\ call.pc = "idle"
  BY DEF ReportInit, Idle
<1> QED
  BY <1>1, <1>2 DEF ReportIInv, CallOK, RemainsOK, HadOK, RowsOK, RowsDistinct,
     NothingIsMissing, ReadIsAuthorized

(* While a report is made its record has every field. *)
LEMMA WorkingCall ==
  ASSUME ReportIInv, call.pc \in {"query", "read"}
  PROVE  call \in Working
BY DEF ReportIInv, CallOK, ReportDone, Idle

(* What an invoice has open is an amount. *)
LEMMA OpenIsAmount ==
  ASSUME NEW x \in Invoice \cup {NoInvoice}
  PROVE  Open(x) \in 0..MaxAmount /\ (x # NoInvoice => Open(x) = x.open)
<1>1. MaxAmount \in Nat
  BY ReportBounds
<1> QED
  BY <1>1 DEF Open, Invoice

(* A query lists posted invoices of the unit, and all of them when one page *)
(* holds the unit's invoices.                                               *)
LEMMA AnswerIsPosted ==
  ASSUME NEW u, NEW page \in Answers(PostedIn(u))
  PROVE  /\ page \subseteq PostedIn(u)
         /\ PageHolds(invoices, u) => page = PostedIn(u)
<1>1. page \subseteq PostedIn(u)
  BY DEF Answers
<1>2. ASSUME PageHolds(invoices, u)
      PROVE  page = PostedIn(u)
  <2>1. PostedIn(u) \subseteq InvoicesOf(invoices, u) /\ InvoicesOf(invoices, u) \subseteq Invoices
    BY DEF PostedIn, InvoicesOf, NoInvoice
  <2>2. IsFiniteSet(InvoicesOf(invoices, u))
    BY <2>1, FS_Subset, ReportBounds
  <2>3. /\ IsFiniteSet(PostedIn(u))
        /\ Cardinality(PostedIn(u)) <= Cardinality(InvoicesOf(invoices, u))
    BY <2>1, <2>2, FS_Subset
  <2>4. /\ Cardinality(PostedIn(u)) \in Nat /\ Cardinality(InvoicesOf(invoices, u)) \in Nat
        /\ PageLength \in Nat
    BY <2>2, <2>3, FS_CardinalityType, ReportBounds
  <2>5. Cardinality(PostedIn(u)) <= PageLength
    BY <1>2, <2>3, <2>4 DEF PageHolds
  <2> QED
    BY <2>5 DEF Answers
<1> QED
  BY <1>1, <1>2

(* A page that holds the invoices of a unit held them before, too. *)
LEMMA PageHeld ==
  ASSUME NEW inv, NEW next, NEW u, PageHolds(next, u),
         InvoicesOf(inv, u) \subseteq InvoicesOf(next, u)
  PROVE  PageHolds(inv, u)
<1>1. IsFiniteSet(InvoicesOf(next, u))
  BY FS_Subset, ReportBounds DEF InvoicesOf
<1>2. /\ IsFiniteSet(InvoicesOf(inv, u))
      /\ Cardinality(InvoicesOf(inv, u)) <= Cardinality(InvoicesOf(next, u))
  BY <1>1, FS_Subset
<1>3. /\ Cardinality(InvoicesOf(inv, u)) \in Nat /\ Cardinality(InvoicesOf(next, u)) \in Nat
      /\ PageLength \in Nat
  BY <1>1, <1>2, FS_CardinalityType, ReportBounds
<1> QED
  BY <1>2, <1>3 DEF PageHolds

(* The unit taken next is one of those that remain.                         *)
LEMMA FirstIsOneOf ==
  ASSUME NEW units, NEW u \in FirstOf(units)
  PROVE  u \in units
BY DEF FirstOf

(* A report that begins has read nothing and has every unit of its scope    *)
(* before it.                                                               *)
LEMMA BeginKeeps ==
  ASSUME ReportIInv, NEW s \in Services, NEW actor \in Actors, NEW at \in 1..MaxInstant,
         NEW units \in SUBSET Units, Begin(s, actor, at, units)
  PROVE  ReportIInv'
<1> DEFINE c == [pc |-> "query", service |-> s, actor |-> actor, at |-> at, scope |-> units,
                 todo |-> units, unit |-> NoUnit, refs |-> {}, rows |-> <<>>]
<1>1. /\ call' = c /\ assignments' = assignments /\ invoices' = invoices
      /\ had' = [i \in Invoices |-> {Open(invoices[i])}]
  BY DEF Begin
<1>2. /\ c \in Working
      /\ c.pc = "query" /\ c.scope = units /\ c.todo = units /\ DOMAIN c.rows = {}
  BY DEF Working
<1> HIDE DEF c
<1>3. InvoicesOK' /\ CallOK(call')
  <2>1. \A i \in Invoices : Open(invoices[i]) \in 0..MaxAmount
    BY OpenIsAmount DEF ReportIInv, InvoicesOK
  <2> QED
    BY <1>1, <1>2, <2>1 DEF ReportIInv, InvoicesOK, CallOK
<1>4. HadOK(call, invoices, had)'
  BY <1>1, <1>2 DEF HadOK
<1>5. RemainsOK(call, invoices)' /\ RowsOK(call, invoices, had)' /\ RowsDistinct(call)'
  BY <1>1, <1>2 DEF RemainsOK, RowsOK, RowsDistinct
<1>6. NothingIsMissing(call, invoices, had)'
  BY <1>1, <1>2 DEF NothingIsMissing, Awaits
<1>7. ReadIsAuthorized(call)'
  BY <1>1, <1>2 DEF ReadIsAuthorized, UnitsRead
<1> QED
  BY <1>3, <1>4, <1>5, <1>6, <1>7 DEF ReportIInv

(* Listing a unit: an invoice open all the time is posted, so it is on the  *)
(* page when one page holds them all; none listed has a row yet, because no *)
(* unit that remains has one.                                               *)
LEMMA QueryUnitKeeps ==
  ASSUME ReportIInv, QueryUnit
  PROVE  ReportIInv'
<1>1. call \in Working /\ call.pc = "query"
  BY WorkingCall DEF QueryUnit
<1>2. PICK u \in FirstOf(call.todo) :
        /\ UnitAuthorized(u)
        /\ \E page \in Answers(PostedIn(u)) :
             call' = [call EXCEPT !.pc = "read", !.unit = u, !.refs = page]
  BY DEF QueryUnit
<1>20. PICK page \in Answers(PostedIn(u)) :
         call' = [call EXCEPT !.pc = "read", !.unit = u, !.refs = page]
  BY <1>2
<1>3. had' = had /\ assignments' = assignments /\ invoices' = invoices
  BY DEF QueryUnit
<1>4. u \in call.todo /\ u \in Units
  BY <1>1, FirstIsOneOf DEF Working
<1>5. page \subseteq PostedIn(u) /\ (PageHolds(invoices, u) => page = PostedIn(u))
  BY AnswerIsPosted
<1>6. page \subseteq Invoices
  BY <1>5 DEF PostedIn
<1>7. /\ call' \in Working /\ call'.pc = "read" /\ call'.unit = u /\ call'.refs = page
      /\ call'.scope = call.scope /\ call'.todo = call.todo /\ call'.rows = call.rows
      /\ call'.service = call.service /\ call'.actor = call.actor /\ call'.at = call.at
  BY <1>1, <1>20, <1>4, <1>6 DEF Working
<1>8. InvoicesOK' /\ CallOK(call')
  BY <1>3, <1>7 DEF ReportIInv, InvoicesOK, CallOK
<1>9. \A i \in page : invoices[i] # NoInvoice /\ invoices[i].unit = u
  BY <1>5 DEF PostedIn, NoInvoice
<1>10. RemainsOK(call, invoices)' /\ HadOK(call, invoices, had)'
  BY <1>1, <1>3, <1>4, <1>7, <1>9 DEF ReportIInv, RemainsOK, HadOK
<1>11. RowsOK(call, invoices, had)'
  BY <1>1, <1>3, <1>7 DEF ReportIInv, RowsOK
<1>12. RowsDistinct(call)'
  <2>1. \A j, k \in DOMAIN call.rows : call.rows[j].invoice = call.rows[k].invoice => j = k
    BY <1>1 DEF ReportIInv, RowsDistinct
  <2>2. \A k \in DOMAIN call.rows : call.rows[k].unit \notin call.todo
    BY <1>1 DEF ReportIInv, RowsDistinct
  <2>3. \A k \in DOMAIN call.rows : call.rows[k].invoice \notin page
    BY <1>1, <1>4, <1>9, <2>2 DEF ReportIInv, RowsOK
  <2> QED
    BY <1>7, <2>1, <2>2, <2>3 DEF RowsDistinct
<1>13. NothingIsMissing(call, invoices, had)'
  <2> SUFFICES ASSUME NEW i \in Invoices, 0 \notin had[i], invoices[i].unit \in call.scope,
                      PageHolds(invoices, invoices[i].unit), ~HasRow(call, i)
               PROVE  Awaits(call', invoices, i)
    BY <1>3, <1>7 DEF NothingIsMissing, HasRow
  <2>1. invoices[i].unit \in call.todo
    BY <1>1 DEF ReportIInv, NothingIsMissing, Awaits
  <2>2. CASE invoices[i].unit # u
    BY <1>7, <2>1, <2>2 DEF Awaits
  <2>3. CASE invoices[i].unit = u
    <3>1. Open(invoices[i]) # 0
      BY <1>1 DEF ReportIInv, HadOK
    <3>2. invoices[i] \in Invoice /\ invoices[i].open # 0
      BY <3>1 DEF ReportIInv, InvoicesOK, Open
    <3>3. invoices[i].status = "POSTED"
      BY <3>2 DEF ReportIInv, InvoicesOK, Invoice
    <3> QED
      BY <1>5, <1>7, <2>3, <3>3 DEF Awaits, PostedIn
  <2> QED
    BY <2>2, <2>3
<1>14. ReadIsAuthorized(call)'
  <2> SUFFICES ASSUME call.service = "rollup", NEW v \in call.scope \ (call.todo \ {u})
               PROVE  MayQuery(call, v)
    BY <1>3, <1>7 DEF ReadIsAuthorized, UnitsRead, MayQuery
  <2>1. CASE v = u
    BY <1>2, <2>1 DEF UnitAuthorized, MayQuery
  <2>2. CASE v # u
    BY <1>1, <2>2 DEF ReportIInv, ReadIsAuthorized, UnitsRead
  <2> QED
    BY <2>1, <2>2
<1> QED
  BY <1>8, <1>10, <1>11, <1>12, <1>13, <1>14 DEF ReportIInv

(* Reading an invoice with something open adds a row for it; reading one    *)
(* with nothing open only takes it from the list.                           *)
LEMMA ReadInvoiceKeeps ==
  ASSUME ReportIInv, ReadInvoice
  PROVE  ReportIInv'
<1>1. call \in Working /\ call.pc = "read"
  BY WorkingCall DEF ReadInvoice
<1>2. PICK i \in call.refs :
        call' = [call EXCEPT !.refs = @ \ {i},
                  !.rows = IF Listed(invoices[i]) THEN Append(@, RowOf(i)) ELSE @]
  BY DEF ReadInvoice
<1>3. had' = had /\ assignments' = assignments /\ invoices' = invoices
  BY DEF ReadInvoice
<1>4. i \in Invoices /\ call.rows \in Seq(Row) /\ call.unit \in call.todo /\ call.unit \in Units
      /\ call.todo \subseteq call.scope /\ call.unit \in call.scope
  BY <1>1 DEF Working, ReportIInv, RemainsOK
<1>5. invoices[i] \in Invoice /\ invoices[i].unit = call.unit /\ invoices[i] # NoInvoice
  BY <1>1, <1>4 DEF ReportIInv, RemainsOK, InvoicesOK
<1> DEFINE listed == Listed(invoices[i])
           rows == IF listed THEN Append(call.rows, RowOf(i)) ELSE call.rows
<1>6. listed => RowOf(i) \in Row
  BY <1>4, <1>5 DEF Listed, RowOf, Row, Invoice
<1>7. rows \in Seq(Row)
  BY <1>4, <1>6
<1>8. \A k \in DOMAIN rows : \/ k \in DOMAIN call.rows /\ rows[k] = call.rows[k]
                             \/ listed /\ k = Len(call.rows) + 1 /\ rows[k] = RowOf(i)
  BY <1>4, <1>6
<1>9. \A k \in DOMAIN call.rows : k \in DOMAIN rows /\ rows[k] = call.rows[k]
  BY <1>4, <1>6
<1>10. listed => \E k \in DOMAIN rows : rows[k] = RowOf(i)
  <2> SUFFICES ASSUME listed PROVE \E k \in DOMAIN rows : rows[k] = RowOf(i)
    OBVIOUS
  <2>1. Len(call.rows) + 1 \in DOMAIN rows /\ rows[Len(call.rows) + 1] = RowOf(i)
    BY <1>4, <1>6
  <2> QED
    BY <2>1
<1>11. RowOf(i).invoice = i /\ RowOf(i).unit = call.unit /\ RowOf(i).open = invoices[i].open
  BY DEF RowOf
<1> HIDE DEF rows, listed
<1>12. /\ call' \in Working /\ call'.pc = "read" /\ call'.rows = rows
       /\ call'.refs = call.refs \ {i}
       /\ call'.scope = call.scope /\ call'.todo = call.todo /\ call'.unit = call.unit
       /\ call'.service = call.service /\ call'.actor = call.actor /\ call'.at = call.at
  <2>1. call' = [call EXCEPT !.refs = call.refs \ {i}, !.rows = rows]
    BY <1>2 DEF rows, listed
  <2> QED
    BY <1>1, <1>7, <2>1 DEF Working
<1>13. InvoicesOK' /\ CallOK(call')
  BY <1>3, <1>12 DEF ReportIInv, InvoicesOK, CallOK
<1>14. RemainsOK(call, invoices)' /\ HadOK(call, invoices, had)'
  BY <1>1, <1>3, <1>12 DEF ReportIInv, RemainsOK, HadOK
<1>15. RowsOK(call, invoices, had)'
  <2> SUFFICES ASSUME NEW k \in DOMAIN rows
               PROVE  /\ rows[k].unit \in call.scope
                      /\ invoices[rows[k].invoice] # NoInvoice
                      /\ invoices[rows[k].invoice].unit = rows[k].unit
                      /\ rows[k].open \in had[rows[k].invoice]
    BY <1>3, <1>12 DEF RowsOK
  <2>1. CASE k \in DOMAIN call.rows /\ rows[k] = call.rows[k]
    BY <1>1, <2>1 DEF ReportIInv, RowsOK
  <2>2. CASE rows[k] = RowOf(i)
    <3>1. invoices[i].open \in had[i]
      BY <1>1, <1>4, <1>5 DEF ReportIInv, HadOK, Open
    <3> QED
      BY <1>4, <1>5, <1>11, <2>2, <3>1
  <2> QED
    BY <1>8, <2>1, <2>2
<1>16. RowsDistinct(call)'
  <2>1. /\ \A j, k \in DOMAIN call.rows : call.rows[j].invoice = call.rows[k].invoice => j = k
        /\ \A k \in DOMAIN call.rows : /\ call.rows[k].unit \notin call.todo \ {call.unit}
                                       /\ call.rows[k].invoice \notin call.refs
    BY <1>1 DEF ReportIInv, RowsDistinct
  <2>2. ASSUME NEW j \in DOMAIN rows, NEW k \in DOMAIN rows, rows[j].invoice = rows[k].invoice
        PROVE  j = k
    BY <1>8, <1>11, <2>1, <2>2
  <2>3. ASSUME NEW k \in DOMAIN rows
        PROVE  rows[k].unit \notin call.todo \ {call.unit} /\ rows[k].invoice \notin call.refs \ {i}
    BY <1>8, <1>11, <2>1
  <2> QED
    BY <1>12, <2>2, <2>3 DEF RowsDistinct
<1>17. NothingIsMissing(call, invoices, had)'
  <2> SUFFICES ASSUME NEW j \in Invoices, 0 \notin had[j], invoices[j].unit \in call.scope,
                      PageHolds(invoices, invoices[j].unit)
               PROVE  HasRow(call', j) \/ Awaits(call', invoices, j)
    BY <1>3, <1>12 DEF NothingIsMissing
  <2>1. HasRow(call, j) \/ Awaits(call, invoices, j)
    BY <1>1 DEF ReportIInv, NothingIsMissing
  <2>2. CASE HasRow(call, j)
    BY <1>9, <1>12, <2>2 DEF HasRow
  <2>3. CASE Awaits(call, invoices, j) /\ j # i
    BY <1>1, <1>12, <2>3 DEF Awaits
  <2>4. CASE j = i
    <3>1. listed
      <4>1. invoices[i].open # 0 /\ invoices[i].open \in 0..MaxAmount
        BY <1>1, <1>4, <1>5, <2>4 DEF ReportIInv, HadOK, Open, Invoice
      <4> QED
        BY <4>1, ReportBounds DEF listed, Listed
    <3> QED
      BY <1>10, <1>11, <1>12, <2>4, <3>1 DEF HasRow
  <2> QED
    BY <2>1, <2>2, <2>3, <2>4
<1>18. ReadIsAuthorized(call)'
  BY <1>1, <1>3, <1>12 DEF ReportIInv, ReadIsAuthorized, UnitsRead, MayQuery
<1> QED
  BY <1>13, <1>14, <1>15, <1>16, <1>17, <1>18 DEF ReportIInv

(* A unit is finished when nothing of it remains to be read.                *)
LEMMA FinishUnitKeeps ==
  ASSUME ReportIInv, FinishUnit
  PROVE  ReportIInv'
<1>1. call \in Working /\ call.pc = "read" /\ call.refs = {}
  BY WorkingCall DEF FinishUnit
<1>2. call' = [call EXCEPT !.pc = "query", !.todo = call.todo \ {call.unit}]
  BY DEF FinishUnit, NextUnits
<1>3. had' = had /\ assignments' = assignments /\ invoices' = invoices
  BY DEF FinishUnit
<1>4. /\ call' \in Working /\ call'.pc = "query" /\ call'.todo = call.todo \ {call.unit}
      /\ call'.scope = call.scope /\ call'.rows = call.rows
      /\ call'.service = call.service /\ call'.actor = call.actor /\ call'.at = call.at
  BY <1>1, <1>2 DEF Working
<1>5. InvoicesOK' /\ CallOK(call')
  BY <1>3, <1>4 DEF ReportIInv, InvoicesOK, CallOK
<1>6. RemainsOK(call, invoices)' /\ HadOK(call, invoices, had)'
  BY <1>1, <1>3, <1>4 DEF ReportIInv, RemainsOK, HadOK
<1>7. RowsOK(call, invoices, had)'
  BY <1>1, <1>3, <1>4 DEF ReportIInv, RowsOK
<1>8. RowsDistinct(call)'
  BY <1>1, <1>3, <1>4 DEF ReportIInv, RowsDistinct
<1>9. NothingIsMissing(call, invoices, had)'
  <2> SUFFICES ASSUME NEW j \in Invoices, 0 \notin had[j], invoices[j].unit \in call.scope,
                      PageHolds(invoices, invoices[j].unit)
               PROVE  HasRow(call, j) \/ Awaits(call', invoices, j)
    BY <1>3, <1>4 DEF NothingIsMissing, HasRow
  <2>1. HasRow(call, j) \/ Awaits(call, invoices, j)
    BY <1>1 DEF ReportIInv, NothingIsMissing
  <2> QED
    BY <1>1, <1>4, <2>1 DEF Awaits
<1>10. ReadIsAuthorized(call)'
  BY <1>1, <1>3, <1>4 DEF ReportIInv, ReadIsAuthorized, UnitsRead, MayQuery
<1> QED
  BY <1>5, <1>6, <1>7, <1>8, <1>9, <1>10 DEF ReportIInv

(* The report is given when no unit remains.                                *)
LEMMA FinishKeeps ==
  ASSUME ReportIInv, Finish
  PROVE  ReportIInv'
<1>1. call \in Working /\ call.pc = "query" /\ call.todo = {}
  BY WorkingCall DEF Finish
<1>2. /\ call'.pc = "done" /\ call'.scope = call.scope /\ call'.rows = call.rows
      /\ call'.service = call.service /\ call'.actor = call.actor /\ call'.at = call.at
  BY DEF Finish
<1>3. had' = had /\ assignments' = assignments /\ invoices' = invoices
  BY DEF Finish
<1>4. InvoicesOK' /\ CallOK(call')
  BY <1>1, <1>2, <1>3 DEF ReportIInv, InvoicesOK, CallOK, ReportDone, Working
<1>5. RemainsOK(call, invoices)' /\ HadOK(call, invoices, had)'
  BY <1>1, <1>2, <1>3 DEF RemainsOK, ReportIInv, HadOK, Open
<1>6. RowsOK(call, invoices, had)'
  BY <1>1, <1>2, <1>3 DEF ReportIInv, RowsOK
<1>7. RowsDistinct(call)'
  BY <1>1, <1>2, <1>3 DEF ReportIInv, RowsDistinct
<1>8. NothingIsMissing(call, invoices, had)'
  <2> SUFFICES ASSUME NEW j \in Invoices, 0 \notin had[j], invoices[j].unit \in call.scope,
                      PageHolds(invoices, invoices[j].unit)
               PROVE  HasRow(call, j)
    BY <1>2, <1>3 DEF NothingIsMissing, HasRow
  <2> QED
    BY <1>1 DEF ReportIInv, NothingIsMissing, Awaits
<1>9. ReadIsAuthorized(call)'
  BY <1>1, <1>2, <1>3 DEF ReportIInv, ReadIsAuthorized, UnitsRead, MayQuery
<1> QED
  BY <1>4, <1>5, <1>6, <1>7, <1>8, <1>9 DEF ReportIInv

(* A refusal or an error leaves no report at all.                           *)
LEMMA NoReportKeeps ==
  ASSUME ReportIInv, NoReport
  PROVE  ReportIInv'
<1>1. call' = Idle /\ call'.pc = "idle" /\ had' = NothingYet
      /\ assignments' = assignments /\ invoices' = invoices
  BY DEF NoReport, Idle
<1>2. InvoicesOK'
  BY <1>1 DEF ReportIInv, InvoicesOK, NothingYet
<1> QED
  BY <1>1, <1>2 DEF ReportIInv, CallOK, RemainsOK, HadOK, RowsOK, RowsDistinct,
     NothingIsMissing, ReadIsAuthorized

(* A change at the provider posts an invoice, or leaves it in its unit;     *)
(* what it has open then is recorded.                                       *)
LEMMA ChangeKeeps ==
  ASSUME ReportIInv, NEW i \in Invoices, NEW x \in Invoice, Change(i, x),
         x.status = "CANCELLED" => x.open = 0,
         invoices[i] # NoInvoice => x.unit = invoices[i].unit
  PROVE  ReportIInv'
<1>1. /\ invoices' = [invoices EXCEPT ![i] = x] /\ call' = call /\ assignments' = assignments
      /\ had' = IF call.pc \in {"query", "read"}
                THEN [had EXCEPT ![i] = @ \cup {Open(x)}] ELSE had
  BY DEF Change
<1>2. /\ invoices \in [Invoices -> Invoice \cup {NoInvoice}]
      /\ had \in [Invoices -> SUBSET (0..MaxAmount)]
  BY DEF ReportIInv, InvoicesOK
<1>3. /\ invoices'[i] = x /\ x # NoInvoice
      /\ \A j \in Invoices : j # i => invoices'[j] = invoices[j]
  BY <1>1, <1>2 DEF Invoice, NoInvoice
<1>4. \A j \in Invoices : invoices[j] # NoInvoice =>
        invoices'[j] # NoInvoice /\ invoices'[j].unit = invoices[j].unit
  BY <1>3
<1>5. Open(x) \in 0..MaxAmount
  BY OpenIsAmount
<1>6. /\ \A j \in Invoices : had[j] \subseteq had'[j]
      /\ call.pc \in {"query", "read"} => Open(x) \in had'[i]
  BY <1>1, <1>2
<1>7. InvoicesOK'
  <2>1. invoices' \in [Invoices -> Invoice \cup {NoInvoice}]
    BY <1>1, <1>2
  <2>2. \A j \in Invoices : invoices'[j].status = "CANCELLED" => invoices'[j].open = 0
    BY <1>3 DEF ReportIInv, InvoicesOK
  <2>3. had' \in [Invoices -> SUBSET (0..MaxAmount)]
    BY <1>1, <1>2, <1>5
  <2> QED
    BY <1>1, <2>1, <2>2, <2>3 DEF ReportIInv, InvoicesOK
<1>8. CallOK(call')
  BY <1>1 DEF ReportIInv
<1>9. RemainsOK(call, invoices)'
  <2> SUFFICES ASSUME call.pc = "read", NEW j \in call.refs
               PROVE  invoices'[j] # NoInvoice /\ invoices'[j].unit = call.unit
    BY <1>1 DEF ReportIInv, RemainsOK
  <2>1. j \in Invoices /\ invoices[j] # NoInvoice /\ invoices[j].unit = call.unit
    BY WorkingCall DEF ReportIInv, RemainsOK, Working
  <2> QED
    BY <1>4, <2>1
<1>10. HadOK(call, invoices, had)'
  <2>1. ASSUME call.pc \in {"query", "read"}, NEW j \in Invoices
        PROVE  Open(invoices'[j]) \in had'[j]
    <3>1. Open(invoices[j]) \in had[j]
      BY <2>1 DEF ReportIInv, HadOK
    <3> QED
      BY <1>3, <1>6, <2>1, <3>1
  <2>2. ASSUME call.pc = "done", NEW j \in Invoices, invoices'[j] = NoInvoice
        PROVE  0 \in had'[j]
    BY <1>3, <1>6, <2>2 DEF ReportIInv, HadOK
  <2> QED
    BY <1>1, <2>1, <2>2 DEF HadOK
<1>11. RowsOK(call, invoices, had)'
  <2> SUFFICES ASSUME call.pc # "idle", NEW k \in DOMAIN call.rows
               PROVE  /\ call.rows[k].unit \in call.scope
                      /\ invoices'[call.rows[k].invoice] # NoInvoice
                      /\ invoices'[call.rows[k].invoice].unit = call.rows[k].unit
                      /\ call.rows[k].open \in had'[call.rows[k].invoice]
    BY <1>1 DEF RowsOK
  <2> DEFINE j == call.rows[k].invoice
  <2>1. j \in Invoices
    <3>1. call.rows \in Seq(Row)
      BY DEF ReportIInv, CallOK, ReportDone, Working, Idle
    <3>2. call.rows[k] \in Row
      BY <3>1
    <3> QED
      BY <3>2 DEF Row
  <2>2. /\ call.rows[k].unit \in call.scope
        /\ invoices[j] # NoInvoice /\ invoices[j].unit = call.rows[k].unit
        /\ call.rows[k].open \in had[j]
    BY DEF ReportIInv, RowsOK
  <2> QED
    BY <1>4, <1>6, <2>1, <2>2
<1>12. RowsDistinct(call)'
  BY <1>1 DEF ReportIInv, RowsDistinct
<1>13. NothingIsMissing(call, invoices, had)'
  <2> SUFFICES ASSUME call.pc # "idle", NEW j \in Invoices, 0 \notin had'[j],
                      invoices'[j].unit \in call.scope, PageHolds(invoices', invoices'[j].unit)
               PROVE  HasRow(call, j) \/ Awaits(call, invoices', j)
    BY <1>1 DEF NothingIsMissing
  <2>1. 0 \notin had[j]
    BY <1>6
  <2>2. invoices[j] # NoInvoice
    <3>1. CASE call.pc \in {"query", "read"}
      BY <2>1, <3>1 DEF ReportIInv, HadOK, Open
    <3>2. CASE call.pc = "done"
      BY <2>1, <3>2 DEF ReportIInv, HadOK
    <3> QED
      BY <3>1, <3>2 DEF ReportIInv, CallOK, Working, ReportDone, Idle
  <2>3. invoices'[j].unit = invoices[j].unit
    BY <1>4, <2>2
  <2>4. PageHolds(invoices, invoices[j].unit)
    <3>1. InvoicesOf(invoices, invoices[j].unit) \subseteq InvoicesOf(invoices', invoices[j].unit)
      BY <1>4 DEF InvoicesOf
    <3> QED
      BY <2>3, <3>1, PageHeld
  <2>5. HasRow(call, j) \/ Awaits(call, invoices, j)
    BY <2>1, <2>3, <2>4 DEF ReportIInv, NothingIsMissing
  <2> QED
    BY <2>3, <2>5 DEF Awaits
<1>14. ReadIsAuthorized(call)'
  BY <1>1 DEF ReportIInv, ReadIsAuthorized, MayQuery
<1> QED
  BY <1>7, <1>8, <1>9, <1>10, <1>11, <1>12, <1>13, <1>14 DEF ReportIInv

(* Either service begins with units of the assignments handed over.         *)
LEMMA QueryRollupKeeps ==
  ASSUME ReportIInv, NEW a \in Actors, NEW bound \in BOOLEAN, NEW at \in 1..MaxInstant,
         QueryRollup(a, bound, at)
  PROVE  ReportIInv'
<1>1. assignments \in [Refs -> Assignment]
  BY ReportBounds DEF ReportIInv, InvoicesOK
<1>2. OwnerUnits(a, at) \subseteq Units
  BY <1>1 DEF OwnerUnits, Assignment
<1> DEFINE units == OwnerUnits(a, at)
<1>3. units \in SUBSET Units
  BY <1>2
<1>4. Begin("rollup", a, at, units) /\ "rollup" \in Services
  BY DEF QueryRollup, Services
<1> HIDE DEF units
<1> QED
  BY <1>3, <1>4, BeginKeeps

(* The same for the aging report and the units of active assignments.       *)
LEMMA QueryAgingKeeps ==
  ASSUME ReportIInv, NEW a \in Actors, NEW bound \in BOOLEAN, NEW at \in 1..MaxInstant,
         NEW u \in Units \cup {NoUnit}, QueryAging(a, bound, at, u)
  PROVE  ReportIInv'
<1>1. assignments \in [Refs -> Assignment]
  BY ReportBounds DEF ReportIInv, InvoicesOK
<1>2. ActiveUnits(a) \subseteq Units
  BY <1>1 DEF ActiveUnits, Assignment
<1> DEFINE units == AgingUnits(a, u)
<1>3. units \in SUBSET Units
  BY <1>2 DEF AgingUnits
<1>4. Begin("aging", a, at, units) /\ "aging" \in Services
  BY DEF QueryAging, Services
<1> HIDE DEF units
<1> QED
  BY <1>3, <1>4, BeginKeeps

(* Posting, paying, reversing and cancelling are such changes.              *)
LEMMA ProviderKeeps ==
  ASSUME ReportIInv, NEW i \in Invoices,
         \/ \E u \in Units, c \in Currencies, n \in 1..MaxAmount : PostInvoice(i, u, c, n)
         \/ \E n \in 1..MaxAmount : PayInvoice(i, n) \/ ReversePayment(i, n)
         \/ CancelInvoice(i)
  PROVE  ReportIInv'
<1>1. invoices[i] \in Invoice \cup {NoInvoice}
  BY DEF ReportIInv, InvoicesOK
<1>2. ASSUME NEW u \in Units, NEW c \in Currencies, NEW n \in 1..MaxAmount,
             PostInvoice(i, u, c, n)
      PROVE  ReportIInv'
  <2> DEFINE x == [status |-> "POSTED", unit |-> u, currency |-> c,
                  total |-> n, open |-> n]
  <2>1. x \in Invoice /\ x.status # "CANCELLED"
    BY ReportBounds DEF Invoice
  <2>2. Change(i, x) /\ invoices[i] = NoInvoice
    BY <1>2 DEF PostInvoice
  <2> HIDE DEF x
  <2> QED
    BY <2>1, <2>2, ChangeKeeps
<1>3. ASSUME NEW n \in 1..MaxAmount, PayInvoice(i, n)
      PROVE  ReportIInv'
  <2> DEFINE x == [invoices[i] EXCEPT !.open = invoices[i].open - n]
  <2>1. invoices[i] \in Invoice /\ invoices[i].status = "POSTED" /\ n <= invoices[i].open
    BY <1>1, <1>3 DEF PayInvoice, NoInvoice
  <2>2. x \in Invoice /\ x.status # "CANCELLED" /\ x.unit = invoices[i].unit
    BY <2>1, ReportBounds DEF Invoice
  <2>3. Change(i, x)
    BY <1>3 DEF PayInvoice
  <2> HIDE DEF x
  <2> QED
    BY <2>2, <2>3, ChangeKeeps
<1>4. ASSUME NEW n \in 1..MaxAmount, ReversePayment(i, n)
      PROVE  ReportIInv'
  <2> DEFINE x == [invoices[i] EXCEPT !.open = invoices[i].open + n]
  <2>1. /\ invoices[i] \in Invoice /\ invoices[i].status = "POSTED"
        /\ invoices[i].open + n <= invoices[i].total
    BY <1>1, <1>4 DEF ReversePayment, NoInvoice
  <2>2. x \in Invoice /\ x.status # "CANCELLED" /\ x.unit = invoices[i].unit
    BY <2>1, ReportBounds DEF Invoice
  <2>3. Change(i, x)
    BY <1>4 DEF ReversePayment
  <2> HIDE DEF x
  <2> QED
    BY <2>2, <2>3, ChangeKeeps
<1>5. ASSUME CancelInvoice(i)
      PROVE  ReportIInv'
  <2> DEFINE x == [invoices[i] EXCEPT !.status = "CANCELLED", !.open = 0]
  <2>1. invoices[i] \in Invoice /\ invoices[i].open >= 0
    BY <1>1, <1>5, ReportBounds DEF CancelInvoice, NoInvoice, Invoice
  <2> DEFINE y == [invoices[i] EXCEPT !.status = "CANCELLED"]
  <2>2. y \in Invoice /\ y.unit = invoices[i].unit /\ x = [y EXCEPT !.open = 0]
    BY <2>1 DEF Invoice
  <2> HIDE DEF y
  <2>3. x \in Invoice /\ x.open = 0 /\ x.unit = invoices[i].unit
    <3> HIDE DEF x
    <3> QED
      BY <2>2, ReportBounds DEF Invoice
  <2>4. Change(i, x)
    BY <1>5 DEF CancelInvoice
  <2> HIDE DEF x
  <2> QED
    BY <2>3, <2>4, ChangeKeeps
<1> QED
  BY <1>2, <1>3, <1>4, <1>5

(* Every step of a report and of the provider keeps the invariant.          *)
LEMMA ReportStep == ReportIInv /\ [ReportNext]_reportVars => ReportIInv'
<1> SUFFICES ASSUME ReportIInv, [ReportNext]_reportVars
             PROVE  ReportIInv'
  OBVIOUS
<1>1. ASSUME NEW a \in Actors, NEW bound \in BOOLEAN, NEW at \in 1..MaxInstant,
             QueryRollup(a, bound, at) \/ \E u \in Units \cup {NoUnit} : QueryAging(a, bound, at, u)
      PROVE  ReportIInv'
  BY <1>1, QueryRollupKeeps, QueryAgingKeeps
<1>2. CASE QueryUnit \/ ReadInvoice \/ FinishUnit \/ Finish \/ NoReport
  BY <1>2, QueryUnitKeeps, ReadInvoiceKeeps, FinishUnitKeeps, FinishKeeps, NoReportKeeps
<1>3. ASSUME NEW i \in Invoices,
             \/ \E u \in Units, c \in Currencies, n \in 1..MaxAmount : PostInvoice(i, u, c, n)
             \/ \E n \in 1..MaxAmount : PayInvoice(i, n) \/ ReversePayment(i, n)
             \/ CancelInvoice(i)
      PROVE  ReportIInv'
  BY <1>3, ProviderKeeps
<1>4. CASE UNCHANGED reportVars
  <2>1. /\ assignments' = assignments /\ invoices' = invoices /\ call' = call /\ had' = had
    BY <1>4 DEF reportVars
  <2> QED
    BY <2>1 DEF ReportIInv, InvoicesOK, CallOK, RemainsOK, HadOK, RowsOK, RowsDistinct,
       NothingIsMissing, Awaits, ReadIsAuthorized, MayQuery
<1> QED
  BY <1>1, <1>2, <1>3, <1>4 DEF ReportNext

(* The report's invariant: the rows were read, one for each invoice, from   *)
(* the units finished so far, and an invoice that was open all the time has *)
(* its row or is still to be read; so far every unit read was authorized.   *)
THEOREM ReportInvariant == ReportSpec => []ReportIInv
<1>1. ReportInit => ReportIInv
  BY ReportInitial
<1>2. ReportIInv /\ [ReportNext]_reportVars => ReportIInv'
  BY ReportStep
<1> QED
  BY <1>1, <1>2, PTL DEF ReportSpec

(* A finished report counts no invoice twice.                               *)
LEMMA DistinctRows ==
  ASSUME ReportIInv, call.pc = "done", NEW i \in Invoices
  PROVE  Cardinality(RowsOf(i)) <= 1
<1>1. CASE RowsOf(i) = {}
  BY <1>1, FS_EmptySet
<1>2. CASE \E k : k \in RowsOf(i)
  <2>1. PICK k : k \in RowsOf(i)
    BY <1>2
  <2>2. RowsOf(i) = {k}
    BY <2>1 DEF RowsOf, ReportIInv, RowsDistinct
  <2> QED
    BY <2>2, FS_Singleton
<1> QED
  BY <1>1, <1>2

(* query_rollup and query_aging: a report counts nothing twice, each        *)
(* invoice with an amount it had open meanwhile, and leaves out none that   *)
(* was open all the time in a unit of one page; for any number of units,    *)
(* any invoices and any length of the page, whatever is posted, paid,       *)
(* reversed and cancelled between its queries and reads.                    *)
THEOREM ReportsAreComplete == ReportSpec => []ReportInv
<1>1. ReportIInv => ReportInv
  <2> SUFFICES ASSUME ReportIInv PROVE ReportInv
    OBVIOUS
  <2>1. ReportTypeOK
    <3>1. call # Idle => call.rows \in Seq(Row) /\ call.pc \in {"query", "read", "done"}
                         /\ call.service \in Services /\ call.scope \subseteq Units
      BY DEF ReportIInv, CallOK, ReportDone, Working
    <3>2. call # Idle => \A k \in DOMAIN call.rows : call.rows[k] \in Row
      BY <3>1
    <3> QED
      BY <3>1, <3>2 DEF ReportTypeOK, ReportIInv, InvoicesOK, RowsOK
  <2>2. ReportIsComplete
    <3> SUFFICES ASSUME call.pc = "done", NEW i \in Invoices
                 PROVE  /\ Cardinality(RowsOf(i)) <= 1
                        /\ \A k \in RowsOf(i) : call.rows[k].open \in had[i]
                        /\ 0 \notin had[i] /\ invoices[i].unit \in call.scope
                             /\ OnOnePage(invoices[i].unit) => RowsOf(i) # {}
      BY DEF ReportIsComplete
    <3>1. \A k \in RowsOf(i) : call.rows[k].open \in had[i]
      BY DEF RowsOf, ReportIInv, RowsOK
    <3>2. ASSUME 0 \notin had[i], invoices[i].unit \in call.scope, OnOnePage(invoices[i].unit)
          PROVE  RowsOf(i) # {}
      <4>1. PageHolds(invoices, invoices[i].unit)
        BY <3>2 DEF OnOnePage, PageHolds, InvoicesOf
      <4>2. HasRow(call, i)
        BY <3>2, <4>1 DEF ReportIInv, NothingIsMissing, Awaits
      <4> QED
        BY <4>2 DEF HasRow, RowsOf
    <3> QED
      BY <3>1, <3>2, DistinctRows
  <2> QED
    BY <2>1, <2>2 DEF ReportInv
<1> QED
  BY <1>1, ReportInvariant, PTL

(* query_rollup: authorize allowed each unit of a finished roll-up, for any *)
(* assignments and any roles.                                               *)
THEOREM RollupsAreAuthorized == ReportSpec => []RollupIsAuthorized
<1>1. ReportIInv => RollupIsAuthorized
  BY DEF ReportIInv, ReadIsAuthorized, UnitsRead, MayQuery, RollupIsAuthorized
<1> QED
  BY <1>1, ReportInvariant, PTL
=============================================================================
