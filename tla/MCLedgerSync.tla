---------------------------- MODULE MCLedgerSync ----------------------------
(* Small broker histories for LedgerSync.  The amounts are such that two   *)
(* figures agree only if they contain the same events.                     *)
EXTENDS LedgerSync

Cash(amount, dated) ==
    [kind |-> "CASH", cash |-> amount, qty |-> 0, catFee |-> FALSE, dated |-> dated]
CatFee(amount) ==
    [kind |-> "CASH", cash |-> amount, qty |-> 0, catFee |-> TRUE, dated |-> TRUE]
Buy(qty, cost) ==
    [kind |-> "BUY", cash |-> -cost, qty |-> qty, catFee |-> FALSE, dated |-> TRUE]
Sell(qty, proceeds) ==
    [kind |-> "SELL", cash |-> proceeds, qty |-> qty, catFee |-> FALSE, dated |-> TRUE]

RoundTrip == <<Buy(2, 25), CatFee(-1), Sell(2, 5)>>
TwoSales == <<Buy(2, 25), Sell(1, 5), Sell(2, 1)>>
Funding == <<Cash(125, TRUE), Buy(1, 30), Buy(1, 5)>>
Undated == <<Cash(5, FALSE), CatFee(-1), Buy(1, 25)>>

SmallHistories == {RoundTrip, TwoSales, Funding, Undated}

ASSUME AmountsAssumption == AmountsTell
=============================================================================
