---------------------------- MODULE MCDraftReview ----------------------------
(* Two actors, two units.  Unit u1 changes its currency with its second     *)
(* settings version.  Of the two catalogs one carries another key's         *)
(* signature, and no resolver can be made of it.  Nothing tells             *)
(* customers apart, nor line lists.                                         *)
EXTENDS DraftReview, TLC

CONSTANTS alice, bob, u1, u2, r1, r2, r3, idr, usd, c1, c2, a, b

DraftSymmetry == Permutations(Customers) \cup Permutations({a, b})

Roster ==
  [r \in Refs |->
     [actor |-> IF r = r3 THEN bob ELSE alice, unit |-> u1,
      roles |-> IF r = r2 THEN {"FINANCE-POSTER"} ELSE {"FINANCE-REQUESTER"},
      active |-> r # r2, rev |-> 1, from |-> Always, until |-> Forever]]

LineSets ==
  {[name |-> n, amount |-> 1, currency |-> idr] : n \in {a, b}}

SettingsVersions ==
  [u \in Units |-> IF u = u1 THEN <<[currency |-> idr, template |-> "T1"],
                                    [currency |-> usd, template |-> "T2"]>>
                             ELSE <<[currency |-> idr, template |-> NoTemplate]>>]

Id(main, account) == [unit |-> u1, main |-> main, account |-> account]
Policy(version, identity, currency, from, until) ==
  [ref |-> "P", version |-> version, identity |-> identity, currency |-> currency,
   from |-> from, until |-> until, active |-> TRUE]

Approved(identities, key) ==
  [name |-> "CATALOG", identities |-> identities, issuer |-> "ISSUER-AUTH-A",
   signature |-> Sign(key, <<"CATALOG", identities>>)]

OneIssuer == [i \in {"ISSUER-AUTH-A"} |-> "key A"]

Config(policies, catalog, issuers) ==
  [policies |-> policies, catalog |-> catalog, issuers |-> issuers]

(* In idr a second policy starts at time 2 beside the first, and its        *)
(* identity was not approved; in usd the account changes at time 2          *)
PolicySet ==
  {Policy(1, Id("main 1", "ACC-A"), idr, 1, Forever),
   Policy(2, Id("main 2", "ACC-A"), idr, 2, Forever),
   Policy(1, Id("main 1", "ACC-A"), usd, 1, 2),
   Policy(2, Id("main 1", "ACC-B"), usd, 2, Forever)}

Identities == {Id("main 1", "ACC-A"), Id("main 1", "ACC-B")}

ConfigChoices ==
  {Config(PolicySet, Approved(Identities, "key A"), OneIssuer),
   Config(PolicySet, Approved(Identities, "key B"), OneIssuer)}
=============================================================================
