----------------------------- MODULE DraftReview -----------------------------
(***************************************************************************)
(* From a chat draft to the preview a reviewer sees                        *)
(* (src/src/workflows/invoice_draft/workflow.py), while assignments are    *)
(* revised, settings are activated and policies come into force.  Each     *)
(* call holds the workflow's lock; what it depends on changes between      *)
(* calls.  Callers say what time it is: any time up to now.                *)
(*                                                                         *)
(* Lines are a model value with an amount and the currency they were       *)
(* accepted in.  InvoicePosting takes over where a preview is posted.      *)
(***************************************************************************)
EXTENDS AccessControl, FinancialPolicy, Sequences, FiniteSetsExt

CONSTANTS
  Customers, Lines,
  Keys,          \* idempotency keys, NoKey among them when some call comes without
  FirstRoster, Configurations,
  SettingsOf,    \* each unit's settings versions, in the order they are activated
  MaxDrafts, MaxIssued, MaxTime, MaxChanges   \* bounds

ASSUME DraftBounds ==
  /\ {MaxDrafts, MaxIssued, MaxTime, MaxChanges} \subseteq Nat
  /\ IsFiniteSet(Refs) /\ FirstRoster \in [Refs -> Assignment]
  /\ DOMAIN SettingsOf = Units
  /\ \A u \in Units : /\ Len(SettingsOf[u]) \in Nat \ {0}
                      /\ DOMAIN SettingsOf[u] = 1..Len(SettingsOf[u])
  /\ \A lines \in Lines : lines.amount \in Nat
  /\ \A c \in Configurations : /\ IsFiniteSet(c.policies)
                               /\ \A policy \in c.policies : policy.from \in Int

VARIABLES
  now,
  config,     \* what the resolver was constructed with
  roster,     \* the assignments callers hand over
  settings,   \* each unit's active settings version and when it was activated
  drafts,     \* _drafts
  issued,     \* the previews given out
  reviewed,   \* what the last successful review showed, and for which instant
  opened      \* history: what each successful open asked for and was answered

vars == <<now, config, roster, settings, drafts, issued, reviewed, opened>>

DraftIds == 1..MaxDrafts
NoKey == "no key"
NoLines == [amount |-> 0]
NoTemplate == "no template"
NoReview == [preview |-> [draft |-> 0], at |-> 0]
NoDraft == [status |-> "NONE"]

Draft == [status: {"OPEN", "CANCELLED"}, actor: Actors, unit: Units, ref: Refs, rev: Nat,
          customer: Customers, lines: Lines \cup {NoLines}, at: Nat,
          key: Keys]

-----------------------------------------------------------------------------
Init ==
  /\ now = 1
  /\ config \in {c \in Configurations : TrustedCatalog(c)}   \* else UNTRUSTED_CATALOG
  /\ roster = FirstRoster
  /\ settings = [u \in Units |-> [version |-> 1, from |-> 1]]
  /\ drafts = [d \in DraftIds |-> NoDraft]
  /\ issued = {}
  /\ reviewed = NoReview
  /\ opened = {}

(* What happens around the workflow *)

Tick ==
  /\ now < MaxTime
  /\ now' = now + 1
  /\ UNCHANGED <<config, roster, settings, drafts, issued, reviewed, opened>>

(* An assignment changes, in its roles or in whether it is active, under    *)
(* the next revision number                                                 *)
Revise(r, asg) ==
  /\ MapThenSumSet(LAMBDA x : roster[x].rev - 1, Refs) < MaxChanges
  /\ roster' = [roster EXCEPT ![r] = [asg EXCEPT !.rev = @ + 1]]
  /\ UNCHANGED <<now, config, settings, drafts, issued, reviewed, opened>>

ChangeRoles(r, roles) == Revise(r, [roster[r] EXCEPT !.roles = roles])
WithdrawOrRestore(r) == Revise(r, [roster[r] EXCEPT !.active = ~@])

ActivateSettings(u) ==
  /\ settings[u].version < Len(SettingsOf[u])
  /\ settings' = [settings EXCEPT ![u] = [version |-> settings[u].version + 1, from |-> now]]
  /\ UNCHANGED <<now, config, roster, drafts, issued, reviewed, opened>>

-----------------------------------------------------------------------------
PreviewRequest(actor, unit, at, rev, preview) ==
  Request(actor, TRUE, "INVOICE_PREVIEW", unit, at, rev, preview)

(* The assignments _selected_assignment may return the first of *)
SelectedAssignments(actor, unit, at) ==
  {r \in Refs : Effective(roster[r], actor, at) /\ roster[r].unit = unit}

Scoped(actor, key) ==
  {d \in DraftIds : drafts[d] # NoDraft /\ drafts[d].actor = actor /\ drafts[d].key = key}

(* Mutant of Replayed: keys are not scoped by actor *)
ReplayedByAnyone(actor, key) ==
  {d \in DraftIds : drafts[d] # NoDraft /\ key # NoKey /\ drafts[d].key = key}

(* The draft an earlier open of this actor with this key made, if any *)
Replayed(actor, key) == IF key = NoKey THEN {} ELSE Scoped(actor, key)

Answer(actor, key, unit, customer, d) ==
  [actor |-> actor, key |-> key, unit |-> unit, customer |-> customer, draft |-> d]

OpenNew(actor, unit, customer, key, at) ==
  \E d \in DraftIds, r \in SelectedAssignments(actor, unit, at) :
    /\ drafts[d] = NoDraft /\ \A e \in 1..(d - 1) : drafts[e] # NoDraft
    /\ drafts' = [drafts EXCEPT ![d] =
         [status |-> "OPEN", actor |-> actor, unit |-> unit, ref |-> r, rev |-> roster[r].rev,
          customer |-> customer, lines |-> NoLines, at |-> at, key |-> key]]
    /\ opened' = opened \cup {Answer(actor, key, unit, customer, d)}

(* Authorized first; then a replayed key answers with its draft when the    *)
(* request is the same, and is a conflict otherwise                         *)
OpenDraft(actor, selected, customer, key, at) ==
  LET decision == Authorize(PreviewRequest(actor, selected, at, NoRevision, NoPreview), roster)
      prior == Replayed(actor, key)
  IN /\ decision.allowed
     /\ \/ prior = {} /\ OpenNew(actor, decision.unit, customer, key, at)
        \/ \E d \in prior :
             /\ drafts[d].customer = customer /\ drafts[d].unit = decision.unit
             /\ opened' = opened \cup {Answer(actor, key, decision.unit, customer, d)}
             /\ UNCHANGED drafts
     /\ UNCHANGED <<now, config, roster, settings, issued, reviewed>>

Pin(draft) == [unit |-> draft.unit, ref |-> draft.ref, rev |-> draft.rev]

(* Mutant of Reauthorized: the pinned assignment is not compared *)
ReauthorizedUnpinned(draft, actor, at) ==
  /\ draft.actor = actor /\ at >= draft.at
  /\ Authorize(PreviewRequest(actor, draft.unit, at, NoRevision, NoPreview), roster).allowed

(* _assert_owner, _assert_monotonic and the full authorization with the     *)
(* revision pinned at open, before anything is changed or shown             *)
Reauthorized(draft, actor, at) ==
  /\ draft.actor = actor /\ at >= draft.at
  /\ Authorize(PreviewRequest(actor, draft.unit, at, draft.rev, Pin(draft)), roster).allowed

(* _reauthorize_mutation also compares the assignment that its second       *)
(* search finds                                                             *)
ReauthorizedMutation(draft, actor, at) ==
  /\ Reauthorized(draft, actor, at)
  /\ draft.ref \in SelectedAssignments(actor, draft.unit, at)

(* get_active serves the active version from its activation on *)
SettingsAt(unit, at) == at >= settings[unit].from
Active(unit) == SettingsOf[unit][settings[unit].version]

(* Only lines in the unit's currency of the day are accepted *)
SetLines(actor, d, lines, at) ==
  /\ drafts[d].status = "OPEN"
  /\ ReauthorizedMutation(drafts[d], actor, at)
  /\ SettingsAt(drafts[d].unit, at) /\ lines.currency = Active(drafts[d].unit).currency
  /\ drafts' = [drafts EXCEPT ![d].lines = lines]
  /\ UNCHANGED <<now, config, roster, settings, issued, reviewed, opened>>

Cancelled(draft) == [draft EXCEPT !.status = "CANCELLED", !.lines = NoLines]

Cancel(actor, d, at) ==
  /\ drafts[d].status = "OPEN"   \* cancelling a cancelled draft changes nothing
  /\ ReauthorizedMutation(drafts[d], actor, at)
  /\ drafts' = [drafts EXCEPT ![d] = Cancelled(@)]
  /\ UNCHANGED <<now, config, roster, settings, issued, reviewed, opened>>

-----------------------------------------------------------------------------
ResolveIdentity(unit, at) ==
  Resolve(config, Question(unit, Active(unit).currency, at, NoIdentity, NoOverride))

(* Mutant of Hash: the settings version is not hashed *)
HashUnversioned(d, identity) ==
  [draft |-> d, lines |-> drafts[d].lines, identity |-> Redact(identity),
   customer |-> drafts[d].customer]

(* _hash binds the lines, the settings version and the redacted identity *)
Hash(d, identity) ==
  [draft |-> d, lines |-> drafts[d].lines, identity |-> Redact(identity),
   customer |-> drafts[d].customer, version |-> settings[drafts[d].unit].version]

(* What a preview of draft d shows *)
Shown(d, identity) ==
  LET unit == drafts[d].unit
  IN [draft |-> d, unit |-> unit, customer |-> drafts[d].customer,
      currency |-> Active(unit).currency, total |-> drafts[d].lines.amount,
      template |-> Active(unit).template, version |-> settings[unit].version,
      identity |-> Redact(identity), hash |-> Hash(d, identity)]

(* A revision the caller volunteers can only refuse more, and is left out *)
Preview(actor, d, at) ==
  LET unit == drafts[d].unit
      found == ResolveIdentity(unit, at)
  IN /\ drafts[d].status = "OPEN" /\ drafts[d].lines # NoLines
     /\ Reauthorized(drafts[d], actor, at)
     /\ SettingsAt(unit, at) /\ Active(unit).template # NoTemplate /\ found.resolved
     /\ Cardinality(issued) < MaxIssued
     /\ issued' = issued \cup {Shown(d, found.identity)}
     /\ UNCHANGED <<now, config, roster, settings, drafts, reviewed, opened>>

(* Mutant of Genuine: the fields are compared and the hash is not *)
GenuineFields(preview, expected) == preview = [expected EXCEPT !.hash = preview.hash]

(* Every field and the hash as recomputed now *)
Genuine(preview, expected) == preview = expected

(* The caller presents a preview: one that was given out, or one with the   *)
(* fields of one and the hash of another                                    *)
RenderForReview(actor, preview, at) ==
  LET d == preview.draft
      found == ResolveIdentity(preview.unit, at)
  IN /\ drafts[d].status = "OPEN"
     /\ Reauthorized(drafts[d], actor, at)
     /\ SettingsAt(preview.unit, at) /\ preview.version = settings[preview.unit].version
     /\ drafts[d].lines # NoLines /\ found.resolved
     /\ Genuine(preview, Shown(d, found.identity))
     /\ reviewed' = [preview |-> preview, at |-> at]
     /\ UNCHANGED <<now, config, roster, settings, drafts, issued, opened>>

Next ==
  \/ Tick
  \/ \E u \in Units : ActivateSettings(u)
  \/ \E r \in Refs :
       \/ \E x \in Refs : ChangeRoles(r, roster[x].roles)   \* perhaps to the same roles
       \/ WithdrawOrRestore(r)
  \/ \E a \in Actors, at \in 1..now :
       \/ \E u \in Units \cup {NoUnit}, c \in Customers, k \in Keys :
            OpenDraft(a, u, c, k, at)
       \/ \E d \in DraftIds :
            \/ \E lines \in Lines : SetLines(a, d, lines, at)
            \/ Cancel(a, d, at)
            \/ Preview(a, d, at)
       \/ \E p, q \in issued : RenderForReview(a, [p EXCEPT !.hash = q.hash], at)

Spec == Init /\ [][Next]_vars

-----------------------------------------------------------------------------
(* Drafts, settings and previews are of their kind; a cancelled draft has   *)
(* no lines; a preview has a template and an amount.                        *)
TypeOK ==
  /\ drafts \in [DraftIds -> Draft \cup {NoDraft}]
  /\ \A d \in DraftIds : drafts[d].status = "CANCELLED" => drafts[d].lines = NoLines
  /\ \A u \in Units : settings[u].version \in DOMAIN SettingsOf[u] /\ settings[u].from \in 1..now
  /\ \A p \in issued : p.draft \in DraftIds /\ p.total \in Nat /\ p.template # NoTemplate

(* Once the assignment a draft was opened under has been revised or         *)
(* withdrawn, the draft never changes again and no preview of it is given   *)
(* out or shown for review: neither a revision with the same roles nor a    *)
(* caller who passes an earlier time brings it back                         *)
(* (_reauthorize_mutation, preview, render_for_review).                     *)
RevisedDraftsAreFrozen ==
  [][\A d \in DraftIds :
       drafts[d] # NoDraft /\ roster[drafts[d].ref].rev # drafts[d].rev =>
         /\ drafts'[d] = drafts[d]
         /\ \A p \in issued' \ issued : p.draft # d
         /\ reviewed' # reviewed => reviewed'.preview.draft # d]_vars

(* The assignment pinned in a draft is one that allows its opener to        *)
(* preview, as long as it stands unrevised: authorize and                   *)
(* _selected_assignment, which search the assignments separately, agree.    *)
PinnedGrants ==
  \A d \in DraftIds :
    drafts[d] # NoDraft /\ roster[drafts[d].ref].rev = drafts[d].rev =>
      LET asg == roster[drafts[d].ref]
      IN /\ asg.actor = drafts[d].actor /\ asg.unit = drafts[d].unit
         /\ \E role \in asg.roles : "INVOICE_PREVIEW" \in RoleActions(role)

(* Successful opens by one actor under one key are all answered with the    *)
(* same draft, for the same unit and customer, and that draft is the        *)
(* actor's own, even when the assignment was revised in between.            *)
OpenIsIdempotent ==
  \A x \in opened :
    /\ drafts[x.draft].actor = x.actor
    /\ drafts[x.draft].unit = x.unit /\ drafts[x.draft].customer = x.customer
    /\ \A y \in opened :
         x.key # NoKey /\ y.key = x.key /\ y.actor = x.actor => y.draft = x.draft

(* Drafts are well typed, pinned to an assignment that grants what is done  *)
(* under it, and one per actor and key.                                     *)
DraftsInv == TypeOK /\ PinnedGrants /\ OpenIsIdempotent

(* Two previews with one hash show the same: the hash binds, through the    *)
(* lines, the settings version and the redacted identity, also what it does *)
(* not contain (template, currency, total).                                 *)
HashIdentifiesPreview ==
  \A p, q \in issued : p.hash = q.hash => p = q

(* The policies of a unit and currency that are in force at an instant      *)
InForce(unit, currency, at) ==
  {policy \in config.policies : /\ policy.active
                                /\ policy.identity.unit = unit /\ policy.currency = currency
                                /\ policy.from <= at /\ at < policy.until}

(* What a reviewer is shown is of the lines the draft has and the settings  *)
(* that are active at that moment, whatever was edited or activated since   *)
(* the preview was made and whichever hash was presented; the identity is   *)
(* that of the one policy in force at the instant the caller names, and     *)
(* approved. That instant may lie in the past, but not before the draft was *)
(* opened or the settings were activated (render_for_review).               *)
ReviewIsCurrent ==
  [][reviewed' # reviewed =>
       LET p == reviewed'.preview
           at == reviewed'.at
       IN /\ drafts[p.draft].status = "OPEN"
          /\ p.hash.lines = drafts[p.draft].lines
          /\ p.template = Active(p.unit).template /\ p.currency = Active(p.unit).currency
          /\ drafts[p.draft].at <= at /\ settings[p.unit].from <= at /\ at <= now
          /\ \E policy \in config.policies :
               /\ InForce(p.unit, p.currency, at) = {policy}
               /\ Redact(policy.identity) = p.identity
               /\ policy.identity \in config.catalog.identities]_vars

PolicyVersions == {policy.version : policy \in config.policies}
OverrideSignatures == {Sign(k, <<"R", v>>) : k \in {"key A", "key B"}, v \in PolicyVersions}
Overrides == [reason: {"R"}, version: PolicyVersions,
              issuer: {"ISSUER-AUTH-A", "ISSUER-AUTH-B"}, signature: OverrideSignatures]

(* An override can decide between policies that are ambiguous without it,   *)
(* and nothing else: whenever asking for an identity with an authorization  *)
(* succeeds, asking without gives that same identity or POLICY_AMBIGUOUS,   *)
(* the identity is approved, and the authorization carries the signature of *)
(* a registered issuer over that policy's version.                          *)
OverrideOnlyDecides ==
  \A policy \in config.policies, override \in Overrides :
    LET asked == Resolve(config, Question(policy.identity.unit, policy.currency, now,
                                          policy.identity, override))
        plain == Resolve(config, Question(policy.identity.unit, policy.currency, now,
                                          NoIdentity, NoOverride))
    IN asked.resolved =>
         /\ asked.identity = policy.identity
         /\ asked.identity \in config.catalog.identities
         /\ \/ plain.resolved /\ plain.identity = asked.identity
            \/ plain = Unresolved("POLICY_AMBIGUOUS")
         /\ config.issuers # NoRegistry =>
              override.signature = Sign(config.issuers[override.issuer], <<"R", asked.version>>)

(* What the comment on QA-05 in _normalize_lines says: a preview never      *)
(* shows lines under another currency than the one they were entered in.    *)
PreviewNeverRelabels == \A p \in issued : p.currency = p.hash.lines.currency
=============================================================================
