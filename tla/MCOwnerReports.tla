--------------------------- MODULE MCOwnerReports ---------------------------
(* One owner and rosters that differ where the two reports do: an interval  *)
(* that ends, a second assignment to the same unit, a role that may not     *)
(* query receivables.                                                       *)
EXTENDS OwnerReports

CONSTANTS alice, u1, u2, idr, usd, r1, r2, r3

Rank == [u \in Units |-> IF u = u1 THEN 1 ELSE 2]

Asg(unit, roles, active, until) ==
  [actor |-> alice, unit |-> unit, roles |-> roles, active |-> active, rev |-> 1,
   from |-> Always, until |-> until]

Roster(second, third) ==
  [r \in Refs |-> CASE r = r1 -> Asg(u1, {"OWNER"}, TRUE, Forever)
                    [] r = r2 -> second
                    [] r = r3 -> third]

Inactive == Asg(u2, {"OWNER"}, FALSE, Forever)

RosterChoices ==
  {Roster(Asg(u2, {"OWNER"}, TRUE, Forever), Inactive),
   Roster(Asg(u2, {"OWNER"}, TRUE, 2), Inactive),
   Roster(Asg(u2, {"OWNER"}, TRUE, Forever), Asg(u2, {"UNIT-SALES"}, TRUE, Forever)),
   Roster(Asg(u2, {"UNIT-SALES"}, TRUE, Forever), Inactive)}

(* Both units owned, for the run about currencies *)
OneRoster == {Roster(Asg(u2, {"OWNER"}, TRUE, Forever), Inactive)}
=============================================================================
