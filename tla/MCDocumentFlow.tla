--------------------------- MODULE MCDocumentFlow ---------------------------
(* Small instances of DocumentFlow for TLC.                                 *)
EXTENDS DocumentFlow, TLC

Orders     == {"sales_order", "purchase_order"}
Invoices   == {"invoice"}
Everything == Kinds

\* Documents and workers are interchangeable; safety runs only.
Symmetry == Permutations(Docs \ Roots) \cup Permutations(Roots) \cup Permutations(Workers)
=============================================================================
