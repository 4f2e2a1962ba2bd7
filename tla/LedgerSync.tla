------------------------------ MODULE LedgerSync ------------------------------
(***************************************************************************)
(* How the broker's history reaches the local books: sync_fills            *)
(* (agent/fill_sync.py), sync_cash_events (agent/cash_events.py), the two  *)
(* quarantine stores, the seeding of the opening balance and positions     *)
(* (agent/account_wiring.py, agent/ledger_store.py) and the exact          *)
(* comparison that follows (agent/reconciliation.py).                      *)
(*                                                                         *)
(* The broker's history is a sequence of events, of which the first        *)
(* `happened` have occurred: an event's place in it is both its identity   *)
(* and its time, and a broker figure read when k events have happened      *)
(* contains events 1..k.  A cycle reads the clock once and the broker four *)
(* times; the broker acts between any two of these reads.  Every writer    *)
(* holds the process lock and rebuilds its stores from the files, so the   *)
(* files are the only local state that outlives a cycle.                   *)
(***************************************************************************)
EXTENDS Integers, FiniteSetsExt

CONSTANTS
    Histories,  \* the broker histories considered
    MaxLength,  \* the length of the longest one
    Funds,      \* cash the account held before its first reported event
    MaxDeaths   \* bound on cycles cut short

Kinds == {"BUY", "SELL", "CASH"}
BrokerEvent == [kind : Kinds,
                cash : Int,          \* its signed effect on cash
                qty : Nat,           \* shares, of the one symbol
                catFee : BOOLEAN,    \* matches the auto-admit pattern, ceiling included
                dated : BOOLEAN]     \* the broker reports created_at

ASSUME HistoriesAssumption ==
    \A h \in Histories : \E n \in 0..MaxLength : h \in [1..n -> BrokerEvent]
ASSUME FundsAssumption == Funds \in Nat
ASSUME BoundsAssumption == MaxLength \in Nat /\ MaxDeaths \in Nat

VARIABLES
    history,   \* the broker's history; never changes
    happened,  \* how much of it has occurred
    settled,   \* how much of it has passed its settlement instant
    booked,    \* ledger.jsonl: fill rows
    adjusted,  \* ledger.jsonl: cash_adjustment rows
    opening,   \* ledger.jsonl: the opening_balance row
    openPos,   \* ledger.jsonl: opening_position rows, as the place in history they were read at
    status,    \* the quarantine files: each event's standing
    warrant,   \* the quarantine files: the lot (or policy) an admission named
    audited,   \* events whose discovery or admission has its audit row
    pc,        \* where the running cycle is
    now,       \* its clock: what had happened and settled when it began
    fetched,   \* the place in history its latest feed ends at
    cashRead,  \* the place in history its account() figure was read at
    verdict,   \* how the last cycle ended
    deaths

broker == <<history, happened, settled>>
books == <<booked, adjusted, opening, openPos>>
quarantine == <<status, warrant>>
cycle == <<pc, now, fetched, cashRead, verdict>>
vars == <<broker, books, quarantine, audited, cycle, deaths>>

Event == DOMAIN history
IsFill(i) == history[i].kind \in {"BUY", "SELL"}
Fills == {i \in Event : IsFill(i)}
CashEvents == Event \ Fills
Lots == {i \in Event : history[i].kind = "BUY"}  \* a BUY's lot is named after it
Undecided == {i \in Event : status[i] \in {"unseen", "ADMITTED"}}
Pending(S) == {i \in S : status[i] = "PENDING"}
First(S) == {i \in S : \A j \in S : i <= j}

(***************************************************************************)
(* Figures.  A cash figure is the events it contains, each so often, on    *)
(* top of the funds the account started with; its value is what they are   *)
(* worth.  An opening balance is kept as the events it contains, the       *)
(* instant the row claims (at), what had settled by then, and the instant  *)
(* at which the broker's figure was really read.                           *)
(***************************************************************************)
NotSeeded == [seeded |-> FALSE]
NoClock == [happened |-> 0, settled |-> 0]
Openings == {NotSeeded} \cup
            [seeded : {TRUE}, at : Nat, read : Nat, settled : Nat,
             has : [Event -> Int], verbatim : BOOLEAN]

Value(figure, h) == MapThenSumSet(LAMBDA i : figure[i] * h[i].cash, DOMAIN h)
Worth(figure) == Funds + Value(figure, history)
BrokerCash(k) == [i \in Event |-> IF i <= k THEN 1 ELSE 0]

\* Ledger.settled_cash: a sale is credited once it has settled, all else at once.
InRowsStrictly(i, settledBy) ==      \* mutant: settlement compared with <
    \/ i \in adjusted
    \/ i \in booked /\ (history[i].kind = "SELL" => i < settledBy)
InRows(i, settledBy) ==
    \/ i \in adjusted
    \/ i \in booked /\ (history[i].kind = "SELL" => i <= settledBy)
RowsCash(settledBy) == [i \in Event |-> IF InRows(i, settledBy) THEN 1 ELSE 0]
OpeningCash == IF opening.seeded THEN opening.has ELSE [i \in Event |-> 0]
LocalCash(settledBy) == [i \in Event |-> OpeningCash[i] + RowsCash(settledBy)[i]]

SignedQty(i) == CASE history[i].kind = "BUY" -> history[i].qty
                  [] history[i].kind = "SELL" -> -history[i].qty
                  [] OTHER -> 0
Position(S) == MapThenSumSet(SignedQty, S)
BrokerPosition(k) == Position({i \in Event : i <= k})
LocalPosition == BrokerPosition(openPos) + Position(booked)

(***************************************************************************)
(* Ledger.record_fill: a BUY needs a holding policy the registry knows; a  *)
(* SELL needs the lot of a BUY already booked, with enough left in it.     *)
(***************************************************************************)
Sold(lot) == {j \in booked : history[j].kind = "SELL" /\ warrant[j] = lot}
Left(lot) == history[lot].qty + Position(Sold(lot))
RecordableUnknownLot(i) ==           \* mutant: no check that the lot was bought
    IF history[i].kind = "BUY" THEN warrant[i] = i
    ELSE warrant[i] \in Event /\ history[i].qty <= Left(warrant[i])
RecordableOverdrawn(i) ==            \* mutant: no check of what is left of it
    IF history[i].kind = "BUY" THEN warrant[i] = i
    ELSE warrant[i] \in booked /\ history[warrant[i]].kind = "BUY"
Recordable(i) ==
    IF history[i].kind = "BUY" THEN warrant[i] = i
    ELSE /\ warrant[i] \in booked
         /\ history[warrant[i]].kind = "BUY"
         /\ history[i].qty <= Left(warrant[i])

\* refuse_admission_reason, negated.
MayBeAdmitted(i) ==
    /\ history[i].dated
    /\ opening.seeded => i > opening.at
AutoAdmits(i) == history[i].catFee /\ MayBeAdmitted(i)

-----------------------------------------------------------------------------
Init ==
    /\ history \in Histories
    /\ happened = 0 /\ settled = 0
    /\ booked = {} /\ adjusted = {} /\ opening = NotSeeded /\ openPos = 0
    /\ status = [i \in Event |-> "unseen"]
    /\ warrant = [i \in Event |-> 0]
    /\ audited = {}
    /\ pc = "idle"
    /\ now = NoClock
    /\ fetched = 0 /\ cashRead = 0
    /\ verdict = "none"
    /\ deaths = 0

(***************************************************************************)
(* The broker.                                                             *)
(***************************************************************************)
BrokerActs ==
    /\ happened + 1 \in Event
    /\ happened' = happened + 1
    /\ UNCHANGED <<history, settled, books, quarantine, audited, cycle, deaths>>

NightPasses ==
    /\ settled < happened
    /\ settled' = happened
    /\ UNCHANGED <<history, happened, books, quarantine, audited, cycle, deaths>>

(***************************************************************************)
(* sync_fills.  Events already booked are skipped, and so are those that   *)
(* are pending or rejected.  No order record is ever written with an       *)
(* intent, so an execution nobody has decided about is always quarantined. *)
(***************************************************************************)
GoTo(step) == pc' = step /\ UNCHANGED verdict
\* What a cycle has read does not outlive it.
EndCycle(result) ==
    /\ pc' = "idle" /\ verdict' = result
    /\ now' = NoClock /\ fetched' = 0 /\ cashRead' = 0

BeginCycle ==
    /\ pc = "idle"
    /\ now' = [happened |-> happened, settled |-> settled]
    /\ pc' = "fetchFills" /\ verdict' = "none"
    /\ UNCHANGED <<broker, books, quarantine, audited, fetched, cashRead, deaths>>

FetchFills ==
    /\ pc = "fetchFills"
    /\ fetched' = happened
    /\ GoTo("fills")
    /\ UNCHANGED <<broker, books, quarantine, audited, now, cashRead, deaths>>

FillsToDo == {i \in Fills \cap Undecided : i <= fetched /\ i \notin booked}

QuarantineFillHalts(i) ==            \* mutant: an unknown intent ends the cycle
    /\ pc = "fills" /\ i \in First(FillsToDo) /\ i <= now.happened
    /\ status[i] = "unseen"
    /\ EndCycle("error")
    /\ UNCHANGED <<broker, books, quarantine, audited, deaths>>
\* The quarantine row, then its audit row.
QuarantineFill(i) ==
    /\ pc = "fills"
    /\ i \in First(FillsToDo)
    /\ i <= now.happened
    /\ status[i] = "unseen"
    /\ status' = [status EXCEPT ![i] = "PENDING"]
    /\ audited' = audited \cup {i}
    /\ UNCHANGED <<broker, books, warrant, cycle, deaths>>

BookFill(i) ==
    /\ pc = "fills"
    /\ i \in First(FillsToDo)
    /\ i <= now.happened
    /\ status[i] = "ADMITTED"
    /\ Recordable(i)
    /\ booked' = booked \cup {i}
    /\ UNCHANGED <<broker, adjusted, opening, openPos, quarantine, audited, cycle, deaths>>

\* A fill later than the cycle's clock, or one record_fill refuses, ends the cycle.
FillRefused(i) ==
    /\ pc = "fills"
    /\ i \in First(FillsToDo)
    /\ \/ i > now.happened
       \/ status[i] = "ADMITTED" /\ ~Recordable(i)
    /\ EndCycle("error")
    /\ UNCHANGED <<broker, books, quarantine, audited, deaths>>

FillsDone ==
    /\ pc = "fills"
    /\ FillsToDo = {}
    /\ GoTo("fetchCash")
    /\ fetched' = 0
    /\ UNCHANGED <<broker, books, quarantine, audited, now, cashRead, deaths>>

(***************************************************************************)
(* sync_cash_events.  An admission is not checked again when it is applied. *)
(***************************************************************************)
FetchCash ==
    /\ pc = "fetchCash"
    /\ fetched' = happened
    /\ GoTo("cash")
    /\ UNCHANGED <<broker, books, quarantine, audited, now, cashRead, deaths>>

CashToDo == {i \in CashEvents \cap Undecided : i <= fetched /\ i \notin adjusted}

ApplyCash(i) ==
    /\ pc = "cash"
    /\ i \in First(CashToDo)
    /\ status[i] = "ADMITTED" \/ AutoAdmits(i)
    /\ adjusted' = adjusted \cup {i}
    /\ audited' = audited \cup {i}
    /\ UNCHANGED <<broker, booked, opening, openPos, quarantine, cycle, deaths>>

QuarantineCash(i) ==
    /\ pc = "cash"
    /\ i \in First(CashToDo)
    /\ status[i] = "unseen" /\ ~AutoAdmits(i)
    /\ status' = [status EXCEPT ![i] = "PENDING"]
    /\ audited' = audited \cup {i}
    /\ UNCHANGED <<broker, books, warrant, cycle, deaths>>

CashDone ==
    /\ pc = "cash"
    /\ CashToDo = {}
    /\ GoTo("account")
    /\ fetched' = 0
    /\ UNCHANGED <<broker, books, quarantine, audited, now, cashRead, deaths>>

(***************************************************************************)
(* build_account_reconciliation.                                           *)
(***************************************************************************)
ReadAccount ==
    /\ pc = "account"
    /\ cashRead' = happened
    /\ GoTo(IF opening.seeded THEN "compare" ELSE "seed")
    /\ UNCHANGED <<broker, books, quarantine, audited, now, fetched, deaths>>

\* With an execution pending nothing is seeded, and to_ledger refuses.
SeedDeferred ==
    /\ pc = "seed"
    /\ Pending(Fills) # {}
    /\ EndCycle("error")
    /\ UNCHANGED <<broker, books, quarantine, audited, deaths>>

SeedFigureVerbatim == BrokerCash(cashRead)  \* mutant: never backdated

\* The broker's figure less what the rows amount to if there are fills
\* (seed_opening_balance_from_broker), else the figure as it is.
SeedFigure ==
    [i \in Event |-> BrokerCash(cashRead)[i]
                     - (IF booked = {} THEN 0 ELSE RowsCash(now.settled)[i])]

SeedOverPending ==                   \* mutant: seeds with executions pending
    /\ pc = "seed"
    /\ opening' = [seeded |-> TRUE, at |-> now.happened, read |-> cashRead,
                   settled |-> now.settled, has |-> SeedFigure, verbatim |-> booked = {}]
    /\ GoTo(IF LocalPosition = 0 THEN "positions" ELSE "compare")
    /\ UNCHANGED <<broker, booked, adjusted, openPos, quarantine, audited,
                   now, fetched, cashRead, deaths>>

\* The row is written; to_ledger then refuses a negative one.
Seed ==
    /\ pc = "seed"
    /\ Pending(Fills) = {}
    /\ opening' = [seeded |-> TRUE, at |-> now.happened, read |-> cashRead,
                   settled |-> now.settled, has |-> SeedFigure, verbatim |-> booked = {}]
    /\ IF Worth(SeedFigure) < 0 THEN EndCycle("error")
       ELSE /\ GoTo(IF LocalPosition = 0 THEN "positions" ELSE "compare")
            /\ UNCHANGED <<now, fetched, cashRead>>
    /\ UNCHANGED <<broker, booked, adjusted, openPos, quarantine, audited, deaths>>

SeedPositions ==
    /\ pc = "positions"
    /\ openPos' = happened
    /\ GoTo("compare")
    /\ UNCHANGED <<broker, booked, adjusted, opening, quarantine, audited,
                   now, fetched, cashRead, deaths>>

Agrees ==
    /\ Worth(LocalCash(now.settled)) = Worth(BrokerCash(cashRead))
    /\ LocalPosition = BrokerPosition(happened)

Compare ==
    /\ pc = "compare"
    /\ EndCycle(CASE Worth(OpeningCash) < 0 -> "error"
                  [] Agrees -> "pass"
                  [] OTHER -> "mismatch")
    /\ UNCHANGED <<broker, books, quarantine, audited, deaths>>

(***************************************************************************)
(* --admit-execution, --admit-cash-event and their rejections, between     *)
(* cycles.  An admission of a SELL names a lot (0 stands for one that does *)
(* not exist), one of a BUY a policy version (its own index, or 0 if the   *)
(* registry does not know it); nothing checks either.                      *)
(***************************************************************************)
Admit(i, w) ==
    /\ pc = "idle"
    /\ status[i] = "PENDING"
    /\ CASE history[i].kind = "BUY"  -> w \in {0, i}
         [] history[i].kind = "SELL" -> w \in Lots \cup {0}
         [] OTHER                    -> w = 0 /\ MayBeAdmitted(i)
    /\ status' = [status EXCEPT ![i] = "ADMITTED"]
    /\ warrant' = [warrant EXCEPT ![i] = w]
    /\ UNCHANGED <<broker, books, audited, cycle, deaths>>

Reject(i) ==
    /\ pc = "idle"
    /\ status[i] = "PENDING"
    /\ status' = [status EXCEPT ![i] = "REJECTED"]
    /\ UNCHANGED <<broker, books, warrant, audited, cycle, deaths>>

(***************************************************************************)
(* A cycle is cut short: the process dies, or a broker read fails.  It may *)
(* die between a row and the audit row that follows it.                    *)
(***************************************************************************)
CycleDies ==
    /\ pc # "idle"
    /\ deaths < MaxDeaths
    /\ EndCycle("error")
    /\ deaths' = deaths + 1
    /\ UNCHANGED <<broker, books, quarantine, audited>>

DiesBeforeAudit(i) ==
    /\ pc \in {"fills", "cash"}
    /\ deaths < MaxDeaths
    /\ \/ /\ i \in First(IF pc = "fills" THEN FillsToDo ELSE CashToDo)
          /\ status[i] = "unseen"
          /\ IF pc = "fills" THEN i <= now.happened ELSE ~AutoAdmits(i)
          /\ status' = [status EXCEPT ![i] = "PENDING"]
          /\ UNCHANGED adjusted
       \/ /\ pc = "cash" /\ i \in First(CashToDo)
          /\ status[i] = "ADMITTED" \/ AutoAdmits(i)
          /\ adjusted' = adjusted \cup {i}
          /\ UNCHANGED status
    /\ EndCycle("error")
    /\ deaths' = deaths + 1
    /\ UNCHANGED <<broker, booked, opening, openPos, warrant, audited>>

SyncFills == FetchFills \/ FillsDone
             \/ \E i \in Event : QuarantineFill(i) \/ BookFill(i) \/ FillRefused(i)
SyncCash == FetchCash \/ CashDone
            \/ \E i \in Event : ApplyCash(i) \/ QuarantineCash(i)
Reconcile == ReadAccount \/ SeedDeferred \/ Seed \/ SeedPositions \/ Compare
CycleStep == BeginCycle \/ SyncFills \/ SyncCash \/ Reconcile

Decide == \E i \in Event : Reject(i) \/ \E w \in Event \cup {0} : Admit(i, w)
Die == CycleDies \/ \E i \in Event : DiesBeforeAudit(i)

Next == CycleStep \/ Decide \/ Die \/ BrokerActs \/ NightPasses

Spec == Init /\ [][Next]_vars

\* The loop goes on; the broker and the operator may do nothing.
FairSpec == Spec /\ WF_vars(CycleStep)

-----------------------------------------------------------------------------
Steps == {"idle", "fetchFills", "fills", "fetchCash", "cash", "account",
          "seed", "positions", "compare"}
Standings == {"unseen", "PENDING", "ADMITTED", "REJECTED"}

BrokerOK ==
    /\ history \in Histories
    /\ happened \in Event \cup {0} /\ settled \in 0..happened
BooksOK ==
    /\ booked \subseteq Event /\ adjusted \subseteq Event
    /\ opening \in Openings
    /\ openPos \in 0..happened
DecisionsOK ==
    /\ status \in [Event -> Standings]
    /\ warrant \in [Event -> Event \cup {0}]
    /\ audited \subseteq Event
CycleOK ==
    /\ pc \in Steps
    /\ now \in [happened : 0..happened, settled : 0..settled]
    /\ fetched \in 0..happened /\ cashRead \in 0..happened
    /\ verdict \in {"none", "pass", "mismatch", "error"}
    /\ deaths \in 0..MaxDeaths

\* Every variable has its type, and no local figure is ahead of the broker.
TypeOK == BrokerOK /\ BooksOK /\ DecisionsOK /\ CycleOK

\* In the seeding cycle, after its clock was read and before its account() read.
Raced(i) == opening.at < i /\ i <= opening.read

\* Three ways an event can be both in the opening balance and in a row of its
\* own: it fell into the seeding cycle; it is a cash event applied before a
\* verbatim seed; it is a sale that had not settled when the seed was backdated.
Excused(i) ==
    \/ Raced(i)
    \/ i \in CashEvents /\ opening.verbatim /\ i <= opening.at
    \/ history[i].kind = "SELL" /\ ~opening.verbatim /\ i > opening.settled

\* The double counts the incident fixes of account_wiring and
\* cash_event_quarantine were made against: apart from those three ways, no
\* event is counted in the opening balance and again in a row, whatever the
\* order of cycles, deaths, admissions and broker events.
DoubleCountsAreKnown ==
    opening.seeded =>
        \A i \in booked \cup adjusted : opening.has[i] = 0 \/ Excused(i)

\* Nothing is booked that nobody decided: every fill row has its operator's
\* admission, every adjustment an admission or the CAT-fee pattern; and what is
\* sold was bought, from a lot that had it.
BookedByDecision ==
    /\ \A i \in booked :
        /\ IsFill(i) /\ status[i] = "ADMITTED"
        /\ IF history[i].kind = "BUY" THEN warrant[i] = i
           ELSE warrant[i] \in booked /\ history[warrant[i]].kind = "BUY"
    /\ \A i \in adjusted :
        /\ ~IsFill(i) /\ history[i].dated
        /\ status[i] = "ADMITTED" \/ (status[i] = "unseen" /\ history[i].catFee)

LotsAreCovered ==
    \A lot \in booked : history[lot].kind = "BUY" => Left(lot) >= 0

\* A discovery or an admission without an audit row is the work of a death
\* between the two appends, and each death costs at most one.
LostAuditsAreDeaths ==
    Cardinality({i \in Event : status[i] # "unseen" \/ i \in adjusted} \ audited) <= deaths

\* Trading is never resumed over an undecided execution: when a reconciliation
\* passes, every execution the account figure contains has been decided, or
\* fell into the seeding cycle.
PassMeansDecided ==
    [][verdict' = "pass" /\ Compare =>
        \A i \in Fills : i <= cashRead => status[i] \in {"ADMITTED", "REJECTED"} \/ Raced(i)]_vars

\* What that rests on besides the code: the comparison sees totals only, so
\* two undecided executions of opposite amounts pass it.  No two of the
\* figures a cycle may compare, which contain an event at most twice, or once
\* too little, are worth the same.
AmountsTell ==
    \A h \in Histories : \A local \in [DOMAIN h -> -1..2], theirs \in [DOMAIN h -> 0..1] :
        Value(local, h) = Value(theirs, h) => local = theirs

\* An admission record_fill will refuse in every later cycle.
Poisoned == \E i \in Fills : status[i] = "ADMITTED" /\ i \notin booked /\ ~Recordable(i)

\* Every execution is put before the operator in the end, unless an admission
\* that can never be booked stops every cycle before it.
ExecutionsAreFaced ==
    \A i \in 1..MaxLength :
        (i <= happened /\ i \in Fills) ~> (status[i] # "unseen" \/ Poisoned)

\* The broker is quiet and the operator has answered: what the opening balance
\* contains was not admitted, what it does not contain was (or is already in
\* the rows), each SELL from a lot with room, and the positions then add up.
ToBeBooked == {i \in Fills : status[i] = "ADMITTED"}
Answered ==
    /\ opening.seeded /\ Worth(opening.has) >= 0
    /\ happened + 1 \notin Event /\ settled = happened
    /\ \A i \in Event :
        opening.has[i] + (IF i \in ToBeBooked \cup adjusted \/ status[i] = "ADMITTED"
                          THEN 1 ELSE 0) = 1
    /\ ~Poisoned
    /\ BrokerPosition(openPos) + Position(ToBeBooked) = BrokerPosition(happened)

\* Exact reconciliation can be met: once the broker is quiet and the operator's
\* answers fit the baseline, some cycle passes.
BooksConverge == <>[]Answered => <>(verdict = "pass")

(***************************************************************************)
(* What the safety properties rest on.                                     *)
(***************************************************************************)
Rows == booked \cup adjusted

\* Rows are about what has happened; a feed holds all that precedes the clock;
\* no row is added after the account() read.
ReadsAreInOrder ==
    /\ \A i \in Rows : i <= happened
    /\ pc \in {"fills", "cash"} => now.happened <= fetched
    /\ pc \in {"seed", "positions", "compare"} => now.happened <= cashRead
    /\ pc \in {"seed", "positions", "compare"} => \A i \in Rows : i <= cashRead

\* Past sync_fills, every execution the clock covers has been faced, and the
\* admitted ones are booked; past sync_cash_events, cash events likewise.
FillsSynced ==
    pc \in {"fetchCash", "cash", "account", "seed"} =>
        \A i \in Fills : i <= now.happened =>
            status[i] # "unseen" /\ (status[i] = "ADMITTED" => i \in booked)
CashSynced ==
    pc \in {"account", "seed"} =>
        \A i \in CashEvents : i <= now.happened =>
            (status[i] = "ADMITTED" => i \in adjusted)

AdmittedCashIsDated ==
    \A i \in CashEvents : status[i] = "ADMITTED" => history[i].dated

\* What the opening balance contains, and is not excused, will never be a row:
\* it is a rejected execution, or a cash event the baseline refuses.
BaselineIsClosed ==
    opening.seeded =>
        \A i \in Event :
            \/ opening.has[i] = 0
            \/ Excused(i)
            \/ i <= opening.at /\ IF IsFill(i) THEN status[i] = "REJECTED"
                                  ELSE status[i] # "ADMITTED" /\ i \notin adjusted

\* A seed is taken when every execution its clock covers has been decided; it
\* contains nothing later than the account() read, and nothing twice.
SeedIsDecided ==
    opening.seeded =>
        /\ \A i \in Fills : i <= opening.at => status[i] \in {"ADMITTED", "REJECTED"}
        /\ \A i \in Event :
               opening.has[i] \in -1..1 /\ (opening.has[i] = 1 => i <= opening.read)

IInv ==
    /\ TypeOK
    /\ BookedByDecision
    /\ ReadsAreInOrder
    /\ FillsSynced
    /\ CashSynced
    /\ AdmittedCashIsDated
    /\ BaselineIsClosed

(***************************************************************************)
(* Claims of the repository that the code does not keep.                   *)
(***************************************************************************)

\* cash_event_quarantine: a cash event already in the baseline is never added
\* to the ledger a second time.
BaselineNeverRepeated ==
    opening.seeded => \A i \in adjusted : opening.has[i] = 0

\* ledger_store: nothing reaches disk that a Ledger would reject, an opening
\* balance below zero for one.
NothingRefusedReachesDisk == opening.seeded => Worth(opening.has) >= 0
=============================================================================
