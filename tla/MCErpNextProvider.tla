-------------------------- MODULE MCErpNextProvider --------------------------
(* The workflows that post and pay and the reconciliation on one thread,   *)
(* an operator who drafts, cancels and reverses on the other.              *)
EXTENDS ErpNextProvider

CONSTANTS workflow, operator

MCDoes == [c \in {workflow, operator} |->
             IF c = workflow
             THEN {"post", "pay", "reconcile_post", "reconcile_payment", "list"}
             ELSE {"create", "cancel", "reverse"}]

(* Only one of them posts.                                                 *)
OnePoster == [c \in {workflow, operator} |->
                IF c = workflow THEN {"create", "post"} ELSE {"reconcile_post"}]

(* Both record payments.                                                   *)
TwoPayers == [c \in {workflow, operator} |-> {"create", "post", "pay"}]
=============================================================================
