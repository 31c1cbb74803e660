--------------------------- MODULE FinancialPolicy ---------------------------
(***************************************************************************)
(* FinancialPolicyResolver (src/src/policy/financial_identity.py): which   *)
(* financial identity a unit invoices under, in a currency, at a time.     *)
(*                                                                         *)
(* A configuration is what the resolver is constructed with: the policies, *)
(* the catalog of identities that were approved, and the issuers whose     *)
(* signatures count.  An identity is its unit, the references a preview    *)
(* shows (issuer, tax profile, series and ledger, together "main") and the *)
(* destination account, which it hides.                                    *)
(***************************************************************************)
EXTENDS Integers, FiniteSets

NoIdentity == [unit |-> "no unit"]
NoOverride == [version |-> 0]
NoRegistry == <<>>   \* a registry without issuers cannot be made
Redacted == "ACC-[REDACTED]"

(* An HMAC is the key and the payload: equal only when both are *)
Sign(key, payload) == <<key, payload>>
CatalogPayload(catalog) == <<catalog.name, catalog.identities>>
OverridePayload(override) == <<override.reason, override.version>>

Verify(issuers, signed, payload) ==
  /\ signed.issuer \in DOMAIN issuers
  /\ signed.signature = Sign(issuers[signed.issuer], payload)

(* Without a registry of issuers everything is taken as it comes *)
TrustedCatalog(config) ==
  config.issuers # NoRegistry =>
    Verify(config.issuers, config.catalog, CatalogPayload(config.catalog))

TrustedOverride(config, override) ==
  config.issuers # NoRegistry =>
    Verify(config.issuers, override, OverridePayload(override))

(* What the preview tells of an identity *)
Redact(identity) == [identity EXCEPT !.account = Redacted]

-----------------------------------------------------------------------------
Question(unit, currency, at, wanted, override) ==
  [unit |-> unit, currency |-> currency, at |-> at, wanted |-> wanted, override |-> override]

Unresolved(code) == [resolved |-> FALSE, code |-> code]
Resolved(policy) == [resolved |-> TRUE, ref |-> policy.ref, version |-> policy.version,
                     identity |-> policy.identity]

(* Mutant of Matches: a policy that is asked for by name need not be in     *)
(* force                                                                    *)
MatchesByName(config, question) ==
  {policy \in config.policies :
     /\ policy.active
     /\ policy.identity.unit = question.unit
     /\ policy.currency = question.currency
     /\ IF question.wanted = NoIdentity
        THEN policy.from <= question.at /\ question.at < policy.until
        ELSE policy.identity = question.wanted}

Matches(config, question) ==
  {policy \in config.policies :
     /\ policy.active
     /\ policy.identity.unit = question.unit
     /\ policy.currency = question.currency
     /\ policy.from <= question.at /\ question.at < policy.until
     /\ question.wanted \in {NoIdentity, policy.identity}}

(* One policy must be left, its identity approved, and an override made out *)
(* for its version                                                          *)
Pick(config, question, found) ==
  IF Cardinality(found) # 1 THEN Unresolved("POLICY_AMBIGUOUS")
  ELSE LET policy == CHOOSE p \in found : TRUE
       IN CASE policy.identity \notin config.catalog.identities ->
                 Unresolved("BLOCKED_CONFIGURATION")
            [] question.override # NoOverride /\ question.override.version # policy.version ->
                 Unresolved("OVERRIDE_POLICY_VERSION_MISMATCH")
            [] OTHER -> Resolved(policy)

Resolve(config, question) ==
  CASE question.wanted = NoIdentity /\ question.override # NoOverride ->
         Unresolved("BLOCKED_CONFIGURATION")
    [] question.wanted # NoIdentity /\ question.override = NoOverride ->
         Unresolved("OVERRIDE_AUTHORIZATION_REQUIRED")
    [] question.override # NoOverride /\ ~TrustedOverride(config, question.override) ->
         Unresolved("UNTRUSTED_OVERRIDE")
    [] Matches(config, question) = {} -> Unresolved("POLICY_NOT_FOUND")
    [] OTHER -> Pick(config, question, Matches(config, question))
=============================================================================
