------------------------------ MODULE RiskGate ------------------------------
(***************************************************************************)
(* What a proposed order may be: the risk constrainer (agent/risk.py), the *)
(* capability policy (agent/policy.py) and the order of the gates in       *)
(* Gatekeeper.stage (agent/pipeline.py).                                   *)
(*                                                                         *)
(* A book gives each symbol the notional held in it; a portfolio is what   *)
(* the constrainer is told of the account.  The price is 1, so a quantity  *)
(* is a notional; a weight is a notional over the net value, so a weight   *)
(* limit is a share of the net value, rounded down as every scaling is.    *)
(***************************************************************************)
EXTENDS Integers, FiniteSetsExt

CONSTANTS
    Symbols,
    Allowed,         \* the symbols whose asset class, side, funding, order type,
                     \* session and time in force the capability policy allows
    MaxPositionPct,  \* of the net value, in one symbol
    MaxSectorPct,    \* of the net value, in one sector
    ReservePct,      \* of the net value, kept as settled cash
    ReserveFloor     \* settled cash kept in any case

ASSUME SymbolsAssumption == Allowed \subseteq Symbols /\ IsFiniteSet(Symbols)
ASSUME LimitsAssumption ==
    /\ MaxPositionPct \in 1..100 /\ MaxSectorPct \in 1..100
    /\ ReservePct \in 0..100 /\ ReserveFloor \in Nat

Larger(a, b) == IF a >= b THEN a ELSE b
Smaller(a, b) == IF a <= b THEN a ELSE b
Share(pct, nlv) == (nlv * pct) \div 100
Total(book, S) == MapThenSumSet(LAMBDA s : book[s], S)

\* A portfolio: [nlv, cash (settled), pending (bought but not yet paid for)].
RequiredReserve(p) == Larger(Share(ReservePct, p.nlv), ReserveFloor)
InvestableCash(p) == Larger(0, p.cash - p.pending - RequiredReserve(p))

-----------------------------------------------------------------------------
(***************************************************************************)
(* risk_constrain: drop what the policy forbids, clip each name, scale     *)
(* each sector, then scale the whole book (what is already held and paid   *)
(* for included) into the cash that may be invested.                       *)
(***************************************************************************)
Scaled(book, S, num, den) ==
    [s \in DOMAIN book |-> IF s \in S THEN (book[s] * num) \div den ELSE book[s]]
Fitted(book, S, limit) ==
    IF Total(book, S) > limit THEN Scaled(book, S, limit, Total(book, S)) ELSE book

Permits(s) == s \in Allowed
Clipped(book, p) ==
    [s \in DOMAIN book |-> IF Permits(s)
                           THEN Smaller(Larger(0, book[s]), Share(MaxPositionPct, p.nlv))
                           ELSE 0]
Members(sector, name) == {s \in DOMAIN sector : sector[s] = name}
SectorFitted(book, p, sector) ==
    [s \in DOMAIN book |->
        Fitted(book, Members(sector, sector[s]), Share(MaxSectorPct, p.nlv))[s]]
ConstrainIgnoringReserve(target, p, sector) ==  \* mutant: the reserve is not looked at
    SectorFitted(Clipped(target, p), p, sector)
RiskConstrain(target, p, sector) ==
    Fitted(SectorFitted(Clipped(target, p), p, sector), DOMAIN target, InvestableCash(p))

-----------------------------------------------------------------------------
(***************************************************************************)
(* Gatekeeper.stage.  An order: [side, symbol, qty, lot], lot being the    *)
(* lot a SELL names ("none" for the others).  The context: the portfolio,  *)
(* the book, the open lots of the symbol, how much of them may be sold and *)
(* whether the day-trade guard objects.  The answer is the gate that       *)
(* rejected it or, "signed", the quantity the signature covers.            *)
(***************************************************************************)
OneSector == [s \in Symbols |-> "UNKNOWN"]   \* no caller passes sectors

AuthorizedBuy(o, c) ==
    LET target == [c.book EXCEPT ![o.symbol] = @ + o.qty]
    IN Larger(0, RiskConstrain(target, c.portfolio, OneSector)[o.symbol] - c.book[o.symbol])
AuthorizedClose(o, c) ==
    LET target == [c.book EXCEPT ![o.symbol] = 0]
    IN Larger(0, o.qty - RiskConstrain(target, c.portfolio, OneSector)[o.symbol])
Authorized(o, c) == CASE o.side = "BUY" -> AuthorizedBuy(o, c)
                      [] o.side = "CLOSE" -> AuthorizedClose(o, c)
                      [] o.side = "SELL" -> o.qty
                      [] o.side = "CANCEL" -> 0

NamesItsLot(o, c) == IF o.side = "SELL" THEN o.lot \in c.openLots ELSE o.lot = "none"
Exits(o) == o.side \in {"SELL", "CLOSE"}

RejectingGate(o, c) ==
    IF ~Permits(o.symbol) THEN "capability"
    ELSE IF ~NamesItsLot(o, c) THEN "holding"
    ELSE IF o.side = "CANCEL" THEN "none"
    ELSE IF Exits(o) /\ o.qty > c.sellable THEN "holding"
    ELSE IF c.dayTradeBlocked THEN "day_trade"
    ELSE IF o.side \in {"BUY", "CLOSE"} /\ Authorized(o, c) = 0 THEN "risk"
    ELSE "none"
Signed(o, c) == RejectingGate(o, c) = "none"
=============================================================================
