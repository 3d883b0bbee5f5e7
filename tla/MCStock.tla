------------------------------ MODULE MCStock ------------------------------
(* A small instance of StockLedger: one item, tracked by serial number or not, *)
(* in a hall and on a shelf of it, which is a bin.                            *)
EXTENDS StockLedger, TLC

CONSTANTS item, hall, shelf, s1, sale, purchase, return

SerialsOfMC  == item :> {s1}
PlaceOrderMC == <<hall, shelf>>

LineMC(p, c, S) == [key |-> <<item, p>>, quantity |-> 1, price |-> c, serials |-> S]

\* The sale sells the serial unit, the purchase buys one without a number.
DocTypeMC == sale :> "sale" @@ purchase :> "purchase" @@ return :> "sales_return"
LinesMC == sale     :> <<LineMC(hall, 1, {s1})>>
        @@ purchase :> <<LineMC(hall, 1, {})>>
        @@ return   :> <<LineMC(hall, 1, {s1})>>

\* The purchase buys the same product at two prices.
TwoPricesMC == [LinesMC EXCEPT ![purchase] = <<LineMC(hall, 1, {}), LineMC(hall, 2, {})>>]

OpeningMC(p, n, S) ==
    [q \in Places |-> IF q = p THEN [quantity |-> n, serials |-> S]
                               ELSE [quantity |-> 0, serials |-> {}]]

OpeningsMC == item :> {OpeningMC(hall, 0, {}), OpeningMC(hall, 1, {}),
                       OpeningMC(hall, 1, {s1})}
=============================================================================
