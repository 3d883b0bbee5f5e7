----------------------------- MODULE MCFigures -----------------------------
(* A small instance of Figures for one run: a customer or vendor with one      *)
(* debt, whose opening balance is entered and then corrected.                  *)
EXTENDS Figures, TLC

CONSTANTS ali, b1, k1

PartyOfMC == b1 :> ali
WorthMC   == [lines |-> 3, extra |-> 1, tax |-> 1, commission |-> 0]
TermsOfMC == b1 :> WorthMC @@ k1 :> WorthMC
=============================================================================
