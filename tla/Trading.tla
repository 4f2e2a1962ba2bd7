------------------------------ MODULE Trading ------------------------------
(***************************************************************************)
(* Shares and cash through days of trading: what the broker holds and      *)
(* settles (agent/broker/simulator.py), what the ledger derives from the   *)
(* fills that were booked (agent/ledger.py), which of the shares may be    *)
(* sold (agent/holding.py, agent/lot_selection.py), the orders proposed on *)
(* these figures (agent/approval_trigger.py, RiskGate) and submitted later *)
(* on a fresh look at the broker (agent/approval_execution.py).            *)
(*                                                                         *)
(* One account and one symbol, whose price is 1.  An order is filled when  *)
(* it is submitted; its place in `orders` names it, its execution and, for *)
(* a BUY, its lot.  Nothing in src/ records the intent of an order, so     *)
(* every execution is quarantined and an operator says what it was.        *)
(***************************************************************************)
EXTENDS RiskGate, MarketCalendar, Sequences

CONSTANTS
    StartDay, EndDay,  \* the days looked at
    Deposit,           \* settled cash at the start
    Hold,              \* the registered policy versions -> their minimum hold, in slots
    Expiration,        \* life of a proposal, in slots
    MaxOrders,         \* bound on orders
    MaxProposals       \* bound on proposals not yet submitted

ASSUME DatesAssumption == StartDay \in Days /\ EndDay \in Days /\ StartDay <= EndDay
ASSUME SettlementsAssumption ==  \* on the last session of the table the code raises
    \A d \in StartDay..EndDay : IsTradingDay(d) => SettlementDate(d) # Uncovered
ASSUME OneSymbolAssumption == Cardinality(Symbols) = 1
ASSUME FundsAssumption == Deposit \in Nat
ASSUME HoldAssumption == \A v \in DOMAIN Hold : Hold[v] \in Nat
ASSUME TradingBounds == Expiration \in Nat /\ MaxOrders \in Nat /\ MaxProposals \in Nat

MaxStatusAge == SlotsOfDay  \* DEFAULT_STALE_AFTER, 25 hours

VARIABLES
    now,          \* the instant, in slots
    account,      \* the broker: [settled, unsettled, held]
    settlements,  \* the broker: sales not yet settled, [order, at, amount]
    orders,       \* what was filled: [side, qty, at, seen]
    standing,     \* of each execution: unseen, pending, admitted, booked or rejected
    warrant,      \* what its admission named: a policy version for a BUY, a lot for a sale
    proposals,    \* requests: [id, side, qty, at, seen, approved]
    passed,       \* when the last cycle reconciled, -1 before any did
    halted        \* is the persisted mode PAUSED

broker == <<account, settlements, orders>>
ledger == <<standing, warrant>>
vars == <<now, broker, ledger, proposals, passed, halted>>

-----------------------------------------------------------------------------
(***************************************************************************)
(* The ledger: every figure is recomputed from the booked fills.           *)
(***************************************************************************)
Orders == DOMAIN orders
In(st, state) == {i \in Orders : st[i] = state}
Buys(S) == {i \in S : orders[i].side = "BUY"}
Sales(S) == S \ Buys(S)
Shares(S) == MapThenSumSet(LAMBDA i : orders[i].qty, S)
SettlesAt(i) == SettlementInstant(orders[i].at)

\* What is left of a lot; the lots still open; all that is held.
Left(booked, lot) ==
    orders[lot].qty - Shares({i \in Sales(booked) : warrant[i] = lot})
OpenLots(booked) == {l \in Buys(booked) : Left(booked, l) > 0}
Held(booked) == MapThenSumSet(LAMBDA l : Left(booked, l), OpenLots(booked))

\* mutant: proceeds counted from the day after, open or not
SettledCashNextDay(booked, t) ==
    Deposit - Shares(Buys(booked))
        + Shares({i \in Sales(booked) : t >= OpenOf(Date(orders[i].at) + 1)})
SettledCash(booked, t) ==
    Deposit - Shares(Buys(booked)) + Shares({i \in Sales(booked) : t >= SettlesAt(i)})
UnsettledCash(booked, t) == Shares({i \in Sales(booked) : t < SettlesAt(i)})

\* record_fill, of an execution whose admission named its lot or its policy.
RecordableOverdrawn(booked, i) ==  \* mutant: no check of what is left of the lot
    IF orders[i].side = "BUY" THEN warrant[i] \in DOMAIN Hold ELSE warrant[i] \in Buys(booked)
Recordable(booked, i) ==
    IF orders[i].side = "BUY" THEN warrant[i] \in DOMAIN Hold
    ELSE warrant[i] \in Buys(booked) /\ orders[i].qty <= Left(booked, warrant[i])

(***************************************************************************)
(* sellable_qty: the leading run, in the broker's FIFO order, of lots that *)
(* have settled and are past the hold of their own policy version.         *)
(***************************************************************************)
Ripe(lot, t) ==
    t >= orders[lot].at + Hold[warrant[lot]] /\ t >= SettlesAt(lot)
\* mutant: the hold is looked at, the settlement is not
SellableUnsettled(booked, t) ==
    LET Old(l) == t >= orders[l].at + Hold[warrant[l]]
        first == {l \in OpenLots(booked) : \A m \in OpenLots(booked) : m <= l => Old(m)}
    IN MapThenSumSet(LAMBDA l : Left(booked, l), first)
Sellable(booked, t) ==
    LET first == {l \in OpenLots(booked) : \A m \in OpenLots(booked) : m <= l => Ripe(m, t)}
    IN MapThenSumSet(LAMBDA l : Left(booked, l), first)

-----------------------------------------------------------------------------
(***************************************************************************)
(* request_approval_for_analysis: close what is held, else buy up to the   *)
(* position cap if the cash allows it, through the gates.                  *)
(***************************************************************************)
Symbol == CHOOSE s \in Symbols : TRUE
Unanswered == {p \in proposals : ~p.approved}
Earmarks == MapThenSumSet(LAMBDA p : IF p.side = "BUY" THEN p.qty ELSE 0, Unanswered)
NetValue == account.settled + account.unsettled + account.held
Portfolio == [nlv |-> NetValue, cash |-> account.settled, pending |-> Earmarks]

Wanted(booked) ==
    IF Held(booked) > 0
    THEN [side |-> "CLOSE", symbol |-> Symbol, qty |-> Held(booked), lot |-> "none"]
    ELSE [side |-> "BUY", symbol |-> Symbol, qty |-> Share(MaxPositionPct, NetValue),
          lot |-> "none"]
Context(booked) ==
    [portfolio |-> Portfolio, book |-> [s \in {Symbol} |-> account.held],
     openLots |-> OpenLots(booked), sellable |-> Sellable(booked, now),
     dayTradeBlocked |-> FALSE]    \* the guard's count is never raised: record has no caller
Proposable(booked) ==
    LET o == Wanted(booked)
    IN /\ o.side = "BUY" => o.qty <= InvestableCash(Portfolio)
       /\ Signed(o, Context(booked))
ProposalOf(booked) ==
    LET o == Wanted(booked)
    IN [id |-> CHOOSE n \in 1..MaxProposals : \A p \in proposals : p.id # n,
        side |-> o.side, qty |-> Authorized(o, Context(booked)), at |-> now,
        seen |-> Len(orders), approved |-> FALSE]
Alive(p, t) == t < p.at + Expiration

-----------------------------------------------------------------------------
Init ==
    /\ now = StartDay * SlotsOfDay
    /\ account = [settled |-> Deposit, unsettled |-> 0, held |-> 0]
    /\ settlements = {} /\ orders = <<>> /\ standing = <<>> /\ warrant = <<>>
    /\ proposals = {} /\ passed = -1 /\ halted = FALSE

\* Time passes, at the broker too; what has expired is no request any more.
Tick ==
    /\ now < (EndDay + 1) * SlotsOfDay - 1
    /\ now' = now + 1
    /\ LET due == {s \in settlements : s.at <= now'}
           paid == MapThenSumSet(LAMBDA s : s.amount, due)
       IN /\ settlements' = settlements \ due
          /\ account' = [account EXCEPT !.settled = @ + paid, !.unsettled = @ - paid]
    /\ proposals' = {p \in proposals : Alive(p, now')}
    /\ UNCHANGED <<orders, ledger, passed, halted>>

(***************************************************************************)
(* A cycle: the fills are synchronised in the broker's order up to the     *)
(* first admission the ledger refuses, which raises; then the books must   *)
(* agree with the broker exactly, and only then is anything proposed.      *)
(***************************************************************************)
Unrecordable ==
    {i \in In(standing, "admitted") :
        ~Recordable(In(standing, "booked") \cup {j \in In(standing, "admitted") : j < i}, i)}
Reached == {i \in Orders : \A j \in Unrecordable : i < j}
Synced ==
    [i \in Orders |-> CASE i \in Reached /\ standing[i] = "unseen" -> "pending"
                       [] i \in Reached /\ standing[i] = "admitted" -> "booked"
                       [] OTHER -> standing[i]]
Agree(booked) == Held(booked) = account.held /\ SettledCash(booked, now) = account.settled

Cycle(raised) ==
    /\ InSessionAt(now)
    /\ raised <=> Unrecordable # {}
    /\ standing' = Synced
    /\ UNCHANGED <<now, broker, warrant>>
CycleRaises == Cycle(TRUE) /\ UNCHANGED <<proposals, passed, halted>>
\* In PAUSED the fills are synchronised and the startup sequence then refuses.
CyclePaused == halted /\ Cycle(FALSE) /\ UNCHANGED <<proposals, passed, halted>>
CycleHalts ==
    /\ ~halted /\ Cycle(FALSE)
    /\ ~Agree(In(Synced, "booked"))
    /\ halted' = TRUE
    /\ UNCHANGED <<proposals, passed>>
CyclePasses ==
    /\ ~halted /\ Cycle(FALSE)
    /\ LET booked == In(Synced, "booked")
       IN /\ Agree(booked)
          /\ \/ UNCHANGED proposals
             \/ /\ Cardinality(proposals) < MaxProposals
                /\ Len(orders) < MaxOrders
                /\ Proposable(booked)
                /\ proposals' = proposals \cup {ProposalOf(booked)}
    /\ passed' = now
    /\ UNCHANGED halted

(***************************************************************************)
(* The operator: approves a request, submits it, says what an execution    *)
(* was, and resumes from PAUSED without looking at the books.              *)
(***************************************************************************)
Approve(p) ==
    /\ p \in Unanswered
    /\ proposals' = (proposals \ {p}) \cup {[p EXCEPT !.approved = TRUE]}
    /\ UNCHANGED <<now, broker, ledger, passed, halted>>

Fresh == passed >= 0 /\ now - passed <= MaxStatusAge
Sufficient(p) == p.qty <= IF p.side = "BUY" THEN account.settled ELSE account.held
Filled(p) ==
    IF p.side = "BUY"
    THEN /\ account' = [account EXCEPT !.settled = @ - p.qty, !.held = @ + p.qty]
         /\ UNCHANGED settlements
    ELSE /\ account' = [account EXCEPT !.unsettled = @ + p.qty, !.held = @ - p.qty]
         /\ settlements' = settlements \cup
                {[order |-> Len(orders) + 1, at |-> SettlementInstant(now), amount |-> p.qty]}
Submit(p) ==
    /\ p \in proposals /\ p.approved /\ Alive(p, now)
    /\ Sufficient(p)
    /\ ~halted /\ Fresh /\ InSessionAt(now)
    /\ Len(orders) < MaxOrders
    /\ Filled(p)
    /\ orders' = Append(orders, [side |-> p.side, qty |-> p.qty, at |-> now, seen |-> p.seen])
    /\ standing' = Append(standing, "unseen") /\ warrant' = Append(warrant, 0)
    /\ proposals' = proposals \ {p}
    /\ UNCHANGED <<now, passed, halted>>

Admit(i, w) ==
    /\ standing[i] = "pending"
    /\ w \in IF orders[i].side = "BUY" THEN DOMAIN Hold ELSE Buys(Orders)
    /\ standing' = [standing EXCEPT ![i] = "admitted"]
    /\ warrant' = [warrant EXCEPT ![i] = w]
    /\ UNCHANGED <<now, broker, proposals, passed, halted>>
Reject(i) ==
    /\ standing[i] = "pending"
    /\ standing' = [standing EXCEPT ![i] = "rejected"]
    /\ UNCHANGED <<now, broker, warrant, proposals, passed, halted>>
Resume == halted /\ halted' = FALSE /\ UNCHANGED <<now, broker, ledger, proposals, passed>>

Next ==
    \/ Tick \/ CycleRaises \/ CyclePaused \/ CycleHalts \/ CyclePasses \/ Resume
    \/ \E p \in proposals : Approve(p) \/ Submit(p)
    \/ \E i \in Orders : Reject(i) \/ \E w \in Orders \cup DOMAIN Hold : Admit(i, w)
Spec == Init /\ [][Next]_vars

-----------------------------------------------------------------------------
Order == [side : {"BUY", "CLOSE"}, qty : Nat, at : Nat, seen : Nat]
Standings == {"unseen", "pending", "admitted", "booked", "rejected"}
Proposal == [id : Int, side : {"BUY", "CLOSE"}, qty : Nat \ {0}, at : Nat, seen : Nat,
             approved : BOOLEAN]

TypeOK ==
    /\ now \in (StartDay * SlotsOfDay)..((EndDay + 1) * SlotsOfDay - 1)
    /\ account \in [settled : Nat, unsettled : Nat, held : Nat]
    /\ orders \in Seq(Order) /\ standing \in Seq(Standings)
    /\ warrant \in Seq(Orders \cup DOMAIN Hold \cup {0})
    /\ Len(standing) = Len(orders) /\ Len(warrant) = Len(orders)
    /\ proposals \subseteq Proposal /\ IsFiniteSet(proposals)
    /\ passed \in Int /\ passed <= now /\ halted \in BOOLEAN

\* Once every execution is booked, the ledger's figures, each recomputed from the fills,
\* are the broker's, which keeps a list of settlements and pays them as they fall due: at
\* every instant, over a holiday, a half day and a weekend (ledger.py:855, simulator.py:71).
BooksAgree ==
    LET booked == In(standing, "booked")
    IN booked = Orders =>
          /\ SettledCash(booked, now) = account.settled
          /\ UnsettledCash(booked, now) = account.unsettled
          /\ Held(booked) = account.held

\* The broker disposes of the oldest shares, whatever lot the ledger has in mind.
Before(S, i) == Shares({j \in S : j < i})
Disposes(sale, lot) ==
    /\ Before(Sales(Orders), sale) < Before(Buys(Orders), lot) + orders[lot].qty
    /\ Before(Buys(Orders), lot) < Before(Sales(Orders), sale) + orders[sale].qty

\* Once every execution is booked, the open lots are the shares the broker still has, lot
\* by lot, although each sale was booked against the lot an operator named and filled from
\* the oldest shares: holds, settlement and gains are counted on these lots (ledger.py:690).
LotsAreTheSharesHeld ==
    LET booked == In(standing, "booked")
        Gone(l) == Shares(Sales(Orders)) - Before(Buys(Orders), l)
    IN booked = Orders =>
          \A l \in Buys(Orders) :
              Left(booked, l) = orders[l].qty - Smaller(orders[l].qty, Larger(0, Gone(l)))

\* No share is sold before it has settled and its hold is over, unless it was bought after
\* the sale had been proposed: at the proposal what would be sold was checked in the
\* broker's own order (pipeline.py:303, holding.py:155).
RipeUnlessOvertaken ==
    \A i \in Sales(Orders), l \in Buys(Orders) :
        Disposes(i, l) /\ l <= orders[i].seen =>
            standing[l] = "booked" /\ Ripe(l, orders[i].at)

\* "Only settled lots are sellable" (docs/architecture.md:671), whenever the sale was
\* proposed.
OnlySettledSharesAreSold ==
    \A i \in Sales(Orders), l \in Buys(Orders) :
        Disposes(i, l) => SettlesAt(l) <= orders[i].at

-----------------------------------------------------------------------------
(* What the agreement of the books rests on *)

\* Only a session of the days looked at has fills, and none is in the future.
FilledInSessions ==
    \A i \in Orders : /\ orders[i].at \in (StartDay * SlotsOfDay)..now
                      /\ InSessionAt(orders[i].at)

\* The broker's figures and its list of settlements are what the fills amount to.
Settled(t) == {i \in Sales(Orders) : t >= SettlesAt(i)}
SettlementOf(i) == [order |-> i, at |-> SettlesAt(i), amount |-> orders[i].qty]
AccountStands ==
    LET open == Sales(Orders) \ Settled(now)
    IN /\ account.held = Shares(Buys(Orders)) - Shares(Sales(Orders))
       /\ account.settled = Deposit - Shares(Buys(Orders)) + Shares(Settled(now))
       /\ account.unsettled = Shares(open)
       /\ settlements = {SettlementOf(i) : i \in open}

\* Every booked sale is of a booked lot, and no lot is overdrawn.
BooksAreSound ==
    LET booked == In(standing, "booked")
    IN /\ \A i \in Sales(booked) : warrant[i] \in Buys(booked)
       /\ \A l \in Buys(booked) : Left(booked, l) >= 0

\* A proposal was made on orders and at an instant that have been.
ProposalsLookBack == \A p \in proposals : p.at <= now /\ p.seen <= Len(orders)

IInv == TypeOK /\ FilledInSessions /\ AccountStands /\ BooksAreSound /\ ProposalsLookBack
=============================================================================
