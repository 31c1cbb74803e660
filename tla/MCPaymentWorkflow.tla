-------------------------- MODULE MCPaymentWorkflow --------------------------
(* Two invoices in two units.                                              *)
EXTENDS PaymentWorkflow, TLC

CONSTANTS i1, i2, u1, u2, a1, a2

TwoUnits == (i1 :> u1) @@ (i2 :> u2)
Totals   == (i1 :> 1) @@ (i2 :> 2)

(* a1 works for both units, a2 for the second.                             *)
Clerks == {<<a1, u1>>, <<a1, u2>>, <<a2, u2>>}

=============================================================================
