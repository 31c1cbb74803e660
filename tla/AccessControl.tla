--------------------------- MODULE AccessControl ---------------------------
(***************************************************************************)
(* authorize (src/src/authz/access.py): may this actor do this action, and *)
(* in which unit?  Every workflow and report asks it, with the assignments *)
(* its caller hands over and, for work on a draft, the assignment revision *)
(* pinned when the draft was opened.                                       *)
(*                                                                         *)
(* A roster is a function from assignment references to assignments; an    *)
(* effective interval that is open on a side uses Always or Forever there. *)
(***************************************************************************)
EXTENDS Integers, FiniteSets

CONSTANTS Actors, Units, Refs, Roles

NoUnit == "no unit"
NoTime == -1
NoRevision == 0
NoPreview == [unit |-> NoUnit]
Always == 0
Forever == 1000

RegisteredActions == {"LEAD-READ", "LEAD-WRITE", "QUOTATION-DRAFT", "INVOICE_PREVIEW",
                      "INVOICE_POST", "PAYMENT_RECORD", "QUERY_RECEIVABLE"}

(* A role outside the table grants nothing *)
RoleActions(role) ==
  CASE role = "UNIT-SALES" -> {"LEAD-READ", "LEAD-WRITE", "QUOTATION-DRAFT"}
    [] role = "FINANCE-REQUESTER" -> {"QUOTATION-DRAFT", "INVOICE_PREVIEW", "PAYMENT_RECORD"}
    [] role = "FINANCE-REVIEWER" ->
         {"LEAD-READ", "QUOTATION-DRAFT", "INVOICE_PREVIEW", "PAYMENT_RECORD", "QUERY_RECEIVABLE"}
    [] role = "FINANCE-POSTER" -> {"INVOICE_POST"}
    [] role = "OWNER" -> RegisteredActions \ {"INVOICE_POST"}
    [] OTHER -> {}

Assignment == [actor: Actors, unit: Units, roles: SUBSET Roles, active: BOOLEAN,
               rev: 1..Forever, from: Always..Forever, until: Always..Forever]

(* Asked without a time, an assignment with an interval is not in force *)
Effective(asg, actor, at) ==
  /\ asg.active /\ asg.actor = actor
  /\ IF at = NoTime THEN asg.from = Always /\ asg.until = Forever
                    ELSE asg.from <= at /\ at < asg.until

(* The request: who, through a binding that is theirs and active or not,    *)
(* what, where, when, and what the caller believes about the assignment     *)
Request(actor, bound, action, unit, at, rev, preview) ==
  [actor |-> actor, bound |-> bound, action |-> action, unit |-> unit, at |-> at,
   rev |-> rev, preview |-> preview]

Denied(code) == [allowed |-> FALSE, code |-> code, unit |-> NoUnit]
Allowed(unit) == [allowed |-> TRUE, code |-> "ALLOWED", unit |-> unit]

(* Assignments in force that the request may be served under *)
Candidates(request, roster) ==
  {r \in Refs : Effective(roster[r], request.actor, request.at)
                /\ request.unit \in {NoUnit, roster[r].unit}}

(* The checks on the assignment that was selected, in the code's order *)
Judge(request, ref, asg) ==
  CASE request.rev # NoRevision /\ request.rev # asg.rev -> Denied("STALE_CONTEXT")
    [] request.preview # NoPreview
         /\ request.preview # [unit |-> asg.unit, ref |-> ref, rev |-> asg.rev] ->
         Denied("STALE_PREVIEW")
    [] request.action \notin RegisteredActions
         \/ \A role \in asg.roles : request.action \notin RoleActions(role) ->
         Denied("PERMISSION_DENIED")
    [] OTHER -> Allowed(asg.unit)

Authorize(request, roster) ==
  LET found == Candidates(request, roster)
  IN IF ~request.bound THEN Denied("IDENTITY_UNVERIFIED")
     ELSE IF found = {} THEN Denied("PERMISSION_DENIED")
     ELSE IF Cardinality(found) > 1
          THEN Denied(IF request.unit = NoUnit THEN "UNIT_CONTEXT_REQUIRED"
                                               ELSE "PERMISSION_DENIED")
     ELSE LET ref == CHOOSE r \in found : TRUE IN Judge(request, ref, roster[ref])
=============================================================================
