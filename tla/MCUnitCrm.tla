----------------------------- MODULE MCUnitCrm -----------------------------
(* Two callers, two actors and three units, the third outside the ERPNext    *)
(* adapter's scope and reachable by a grant; two leads, so that a walk      *)
(* of one-row pages has a next page.                                        *)
EXTENDS UnitCrm, TLC

CONSTANTS c1, c2, a1, a2, u1, u2, u3, k1

(* A filter that archiving and the desk move leads out of *)
NewLeads == {<<"LEAD", "NEW">>}

(* One actor of one unit, one of both *)
OneRoster == {(a1 :> {u1}) @@ (a2 :> {u1, u2})}

CrmSymmetry == Permutations({c1, c2})
=============================================================================
