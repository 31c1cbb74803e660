-------------------------- MODULE MCInvoicePosting --------------------------
(* A draft with one line or two, posters among those who open drafts.      *)
EXTENDS InvoicePosting

CONSTANTS l1, l2

OneOrTwoLines == {{l1}, {l1, l2}}

=============================================================================
