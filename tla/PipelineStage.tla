---------------------------- MODULE PipelineStage ----------------------------
(***************************************************************************)
(* From a filing to a request for the operator: the pipeline stage the run *)
(* loop performs once per cycle (agent/pipeline_stage.py) with the stores  *)
(* it writes: collected facts, opportunity events, model costs, the        *)
(* extraction cache, the approval requests and the tracker of handled      *)
(* events.  The loop holds the process lock as long as it lives, so the    *)
(* operator's commands (deciding, submitting, --research-once) happen      *)
(* while it is down; a start rebuilds every store from its file, and a     *)
(* death (a crash, or an exception that leaves run_loop) keeps only what   *)
(* had been written.                                                       *)
(*                                                                         *)
(* Time goes in slots of the life of a request (30 minutes); a cycle reads *)
(* the clock and the account once, when it begins.  An event is the latest *)
(* filing collected for a symbol.                                          *)
(***************************************************************************)
EXTENDS RiskGate, Sequences

CONSTANTS
    MaxFilings,    \* bound on the filings of a symbol
    MaxFiled,      \* bound on the filings there are
    Scores,        \* the scores a screened symbol may get before the budget brake
    Infinite,      \* the one of them that is not a finite number
    Threshold,     \* materiality_policy.threshold
    Brake,         \* w6: what one full day of analyses takes off a score
    MaxAnalyses,   \* max_model_analyses_per_day: the brake's unit, not a limit
    MaxDecisions,  \* max_approval_requests_per_day
    HardStop,      \* budget_hard_stop_usd
    Estimate,      \* the estimated price of a call
    RealCosts,     \* what a call may really cost
    Funds,         \* settled cash at the beginning
    HoldSessions,  \* sessions until a bought lot is settled and past its minimum hold
    DaySlots,      \* slots in a session
    MaxTime,       \* bound on the clock
    MaxRequests,   \* bound on the requests ever created
    MaxDeaths      \* bound on cycles cut short

ASSUME PipelineAssumption ==
    /\ MaxFilings \in Nat /\ MaxFiled \in Nat /\ MaxRequests \in Nat
    /\ MaxDeaths \in Nat /\ MaxTime \in Nat
    /\ Scores \subseteq Int /\ Infinite \in Int /\ Threshold \in Int /\ Brake \in Nat
    /\ MaxAnalyses \in Nat \ {0} /\ MaxDecisions \in Nat
    /\ HardStop \in Nat /\ Estimate \in Nat
    /\ RealCosts \subseteq Nat
    /\ \E c \in RealCosts : \A d \in RealCosts : d <= c  \* max_tokens bounds an answer
    /\ Funds \in Nat /\ HoldSessions \in Nat /\ DaySlots \in Nat \ {0}

VARIABLES
    time,       \* the clock
    filed,      \* EDGAR: how many filings each symbol has
    known,      \* facts.jsonl: the latest of them collected
    recorded,   \* opportunity_events.jsonl
    handled,    \* event_tracker.jsonl: the latest record of each event
    spent,      \* model_costs.jsonl: the month to date
    calls,      \* model_costs.jsonl: the analyses paid for in each session
    cache,      \* extraction_cache.jsonl, by document
    requests,   \* approval_requests.jsonl: the requests
    decisions,  \* approval_requests.jsonl: what was decided of them, and when
    memory,     \* the decisions in the store the loop built when it started
    posted,     \* the broker: the requests whose order it has
    fills,      \* the broker: of these, which were filled, and when
    pc,         \* where the loop is
    now,        \* the clock its running cycle read
    account,    \* the account and the positions it read
    todo,       \* screened events still to be recorded
    queue,      \* triggered events still to be analysed, with their scores
    current,    \* the event being worked on
    price,      \* of the model call made for it
    outcome,    \* what it will be marked with
    paid,       \* history: model calls made for each document
    lostCalls,  \* history: of these, those a death kept from the cache
    lostMarks,  \* history: deaths between an event's request and its mark
    billed,     \* history: what the provider billed
    deaths

world == <<time, filed>>
evidence == <<known, recorded>>
model == <<spent, calls, cache>>
cycle == <<now, account, todo, queue, current, price, outcome>>
history == <<paid, lostCalls, lostMarks, billed, deaths>>
approvals == <<requests, decisions, memory>>
orders == <<posted, fills>>
vars == <<world, evidence, handled, model, approvals, orders, pc, cycle, history>>

Events == Symbols \X (1..MaxFilings)
Sym(e) == e[1]
Latest(s) == <<s, known[s]>>
Session(t) == t \div DaySlots
\* Whether data may be collected: the last slot of a session is after the close.
InSession(t) == t % DaySlots # DaySlots - 1 \/ DaySlots = 1
NextSessionOpen(t) == (Session(t) + 1) * DaySlots

(***************************************************************************)
(* The tracker.  A record is final or lasts until a given time.            *)
(***************************************************************************)
Final == {"analyzed", "refused"}
Passing == {"budget_exceeded", "insufficient_settled_cash"}
NotHandled == [outcome |-> "none", until |-> 0]
Records == [outcome : {"none"} \cup Final \cup Passing, until : Nat]
IsHandled(e, t) == handled[e].outcome \in Final \/ t < handled[e].until

(***************************************************************************)
(* The requests, and the account as the orders that came of them leave it. *)
(* A request can be decided, and its token spent, within one slot of its   *)
(* creation or decision; a sale settles at the next session.               *)
(***************************************************************************)
Request == [event : Events, side : {"BUY", "CLOSE"}, qty : Nat, at : Nat]
Decisions == {"APPROVED", "REJECTED"}
Requests == DOMAIN requests
Earmark(r) == IF requests[r].side = "BUY" THEN requests[r].qty ELSE 0
IsDecided(r) == \E d \in decisions : d.request = r
Pending(r, t) == ~IsDecided(r) /\ t <= requests[r].at
Spendable(r, t) ==
    /\ r \notin posted
    /\ \E d \in decisions : d.request = r /\ d.decision = "APPROVED" /\ t <= d.at
On(day, S) == {d \in S : Session(d.at) = day}
\* outstanding_earmarks(service): the loop's service knows no token, since
\* tokens are minted by the commands that run while the loop is down.
EarmarksForgotten(t) == 0            \* mutant: staged requests are not counted
OutstandingEarmarks(t) ==
    MapThenSumSet(Earmark, {r \in Requests : Pending(r, t)})

Of(s, side) ==
    {f \in fills : Sym(requests[f.request].event) = s /\ requests[f.request].side = side}
Qty(F) == MapThenSumSet(LAMBDA f : requests[f.request].qty, F)
Held(s) == Qty(Of(s, "BUY")) - Qty(Of(s, "CLOSE"))
Book == [s \in Symbols |-> Held(s)]
Bought == UNION {Of(s, "BUY") : s \in Symbols}
Closed == UNION {Of(s, "CLOSE") : s \in Symbols}
SettledCash(t) == Funds - Qty(Bought) + Qty({f \in Closed : Session(f.at) < Session(t)})
NetValue == Funds - Qty(Bought) + Qty(Closed) + Total(Book, Symbols)
\* sellable_qty: first in, first out, up to the first lot not yet ripe; a
\* close sold whatever was held, so the lots still open are the last bought.
Ripe(f, t) == Session(f.at) + HoldSessions <= Session(t)
RipeSymbols(t) == {s \in Symbols : \A f \in Of(s, "BUY") : Ripe(f, t)}

-----------------------------------------------------------------------------
NoEvent == <<"none", 0>>
NoAccount == [cash |-> 0, nlv |-> 0, book |-> [s \in Symbols |-> 0], ripe |-> {}]
Steps == {"down", "idle", "screen", "record", "next", "analyse", "called", "costed",
          "propose", "mark"}

Init ==
    /\ time = 0
    /\ filed = [s \in Symbols |-> 0] /\ known = filed
    /\ recorded = {}
    /\ handled = [e \in Events |-> NotHandled]
    /\ spent = 0 /\ calls = [d \in 0..Session(MaxTime) |-> 0]
    /\ cache = [e \in Events |-> "none"]
    /\ requests = <<>> /\ decisions = {} /\ memory = {}
    /\ posted = {} /\ fills = {}
    /\ pc = "down" /\ now = 0 /\ account = NoAccount /\ todo = {} /\ queue = {}
    /\ current = NoEvent /\ price = 0 /\ outcome = "none"
    /\ paid = [e \in Events |-> 0] /\ lostCalls = paid /\ lostMarks = paid
    /\ billed = 0 /\ deaths = 0

(***************************************************************************)
(* The world.  What happens to the clock or at EDGAR during a cycle, only  *)
(* the next one can see.                                                   *)
(***************************************************************************)
Between == pc \in {"down", "idle"}

TimePasses ==
    /\ Between /\ time < MaxTime
    /\ time' = time + 1
    /\ UNCHANGED <<filed, evidence, handled, model, approvals, orders, pc, cycle, history>>

CompanyFiles(s) ==
    /\ Between /\ filed[s] < MaxFilings /\ Total(filed, Symbols) < MaxFiled
    /\ filed' = [filed EXCEPT ![s] = @ + 1]
    /\ UNCHANGED <<time, evidence, handled, model, approvals, orders, pc, cycle, history>>

\* A day order of a cash account; it fills at any moment of its session.
TradesOn(t) == IF InSession(t) THEN Session(t) ELSE Session(t) + 1
BrokerFills(r) ==
    /\ r \notin {f.request : f \in fills}
    /\ InSession(time)
    /\ \E d \in decisions : d.request = r /\ Session(time) = TradesOn(d.at)
    /\ requests[r].qty <= IF requests[r].side = "BUY" THEN SettledCash(time)
                          ELSE Held(Sym(requests[r].event))
    /\ fills' = fills \cup {[request |-> r, at |-> time]}
    /\ UNCHANGED <<world, evidence, handled, model, approvals, posted, pc, cycle, history>>

(***************************************************************************)
(* The operator, whose commands take the process lock.                     *)
(***************************************************************************)
DecideWithoutLock(r, decision) ==    \* mutant: the dashboard does not take the lock
    /\ Pending(r, time)
    /\ decisions' = decisions \cup {[request |-> r, decision |-> decision, at |-> time]}
    /\ UNCHANGED <<world, evidence, handled, model, requests, memory, orders,
                   pc, cycle, history>>
Decide(r, decision) ==
    /\ pc = "down" /\ Pending(r, time)
    /\ decisions' = decisions \cup {[request |-> r, decision |-> decision, at |-> time]}
    /\ UNCHANGED <<world, evidence, handled, model, requests, memory, orders,
                   pc, cycle, history>>

SubmitApproved(r) ==
    /\ pc = "down" /\ Spendable(r, time)
    /\ posted' = posted \cup {r}
    /\ UNCHANGED <<world, evidence, handled, model, approvals, fills, pc, cycle, history>>

\* Collects, screens and records, in or out of a session; nothing is
\* triggered.  A symbol without a snapshot, or with a score that is not
\* finite, is left out.
ResearchOnce(collected, screened) ==
    /\ pc = "down"
    /\ known' = [s \in Symbols |-> IF s \in collected THEN filed[s] ELSE known[s]]
    /\ recorded' = recorded \cup {<<s, known'[s]>> : s \in {x \in screened : known'[x] > 0}}
    /\ UNCHANGED <<world, handled, model, approvals, orders, pc, cycle, history>>

-----------------------------------------------------------------------------
(***************************************************************************)
(* The loop: it starts with every store rebuilt from its file, and stops   *)
(* between cycles or dies inside one.                                      *)
(***************************************************************************)
Start ==
    /\ pc = "down"
    /\ pc' = "idle"
    /\ memory' = decisions
    /\ UNCHANGED <<world, evidence, handled, model, requests, decisions, orders,
                   cycle, history>>

Stop ==
    /\ pc = "idle"
    /\ pc' = "down" /\ memory' = {}
    /\ UNCHANGED <<world, evidence, handled, model, requests, decisions, orders,
                   cycle, history>>

\* The event being worked on has been paid for, and the cache does not know.
CallInHand(e) ==
    /\ current = e
    /\ \/ pc \in {"called", "costed"}
       \/ pc = "mark" /\ outcome = "refused" /\ cache[e] = "none"
MarkInHand(e) == current = e /\ pc = "mark" /\ outcome = "requested"

Forget == /\ now' = 0 /\ account' = NoAccount /\ todo' = {} /\ queue' = {}
          /\ current' = NoEvent /\ price' = 0 /\ outcome' = "none"

Die ==
    /\ pc \notin {"down", "idle"} /\ deaths < MaxDeaths
    /\ deaths' = deaths + 1
    /\ lostCalls' = [e \in Events |-> lostCalls[e] + IF CallInHand(e) THEN 1 ELSE 0]
    /\ lostMarks' = [e \in Events |-> lostMarks[e] + IF MarkInHand(e) THEN 1 ELSE 0]
    /\ pc' = "down" /\ memory' = {} /\ Forget
    /\ UNCHANGED <<world, evidence, handled, model, requests, decisions, orders, paid, billed>>

\* The account is read and the books are in step; then facts are collected,
\* during a session, from the providers that answer.
BeginCycle(collected) ==
    /\ pc = "idle"
    /\ collected = {} \/ InSession(time)
    /\ now' = time
    /\ account' = [cash |-> SettledCash(time), nlv |-> NetValue, book |-> Book,
                   ripe |-> RipeSymbols(time)]
    /\ known' = [s \in Symbols |-> IF s \in collected THEN filed[s] ELSE known[s]]
    /\ pc' = "screen"
    /\ UNCHANGED <<world, recorded, handled, model, approvals, orders,
                   todo, queue, current, price, outcome, history>>

EndCycle ==
    /\ pc' = "idle" /\ Forget
    /\ UNCHANGED <<world, evidence, handled, model, approvals, orders, history>>

\* Not due, not enabled, or a mode that allows no new decision.
SkipScreen == pc = "screen" /\ EndCycle

(***************************************************************************)
(* run_materiality_cycle: the score less the budget brake, then the gates; *)
(* a symbol with no market snapshot is skipped.  An event that triggers is *)
(* analysed only if it could be recorded and is not handled already.       *)
(***************************************************************************)
AnalysesToday == calls[Session(now)]
Braked(score) ==
    IF score = Infinite THEN Infinite ELSE score * MaxAnalyses - Brake * AnalysesToday
UnderCap == Cardinality(On(Session(now), memory)) < MaxDecisions
Material(x) ==
    /\ x.score = Infinite \/ Braked(x.score) >= Threshold * MaxAnalyses
    /\ Permits(Sym(x.event))
    /\ UnderCap
Recordable(x) == x.score # Infinite
Triggered(screened) ==
    {x \in screened : Material(x) /\ Recordable(x) /\ ~IsHandled(x.event, now)}

Screen(reading) ==
    /\ pc = "screen"
    /\ LET screened == {[event |-> Latest(s), score |-> reading[s]] : s \in DOMAIN reading}
       IN /\ todo' = {x.event : x \in {y \in screened : Recordable(y)}}
          /\ queue' = Triggered(screened)
    /\ pc' = "record"
    /\ UNCHANGED <<world, evidence, handled, model, approvals, orders,
                   now, account, current, price, outcome, history>>

RecordEvent(e) ==
    /\ pc = "record" /\ e \in todo
    /\ recorded' = recorded \cup {e}
    /\ todo' = todo \ {e}
    /\ UNCHANGED <<world, known, handled, model, approvals, orders, pc,
                   now, account, queue, current, price, outcome, history>>

QueueRecorded ==
    /\ pc = "record" /\ todo = {}
    /\ pc' = "next"
    /\ UNCHANGED <<world, evidence, handled, model, approvals, orders, cycle, history>>

NextEvent(x) ==
    /\ pc = "next" /\ x \in queue
    /\ \A y \in queue : y.score <= x.score
    /\ current' = x.event /\ queue' = queue \ {x}
    /\ pc' = "analyse"
    /\ UNCHANGED <<world, evidence, handled, model, approvals, orders,
                   now, account, todo, price, outcome, history>>

QueueDone == pc = "next" /\ queue = {} /\ EndCycle

-----------------------------------------------------------------------------
(***************************************************************************)
(* analyze_opportunity_event and run_analysis.  A document found in the    *)
(* cache costs a row of nothing.  Otherwise the estimate must fit; the     *)
(* call is made, its price recorded, the answer parsed, and only then is   *)
(* the document cached.  An answer that does not parse is not cached, yet  *)
(* its exception is an AnalysisRefused like the other.                     *)
(***************************************************************************)
GoTo(step) == pc' = step /\ UNCHANGED cycle
Finish(result) == /\ pc' = "mark" /\ outcome' = result
                  /\ UNCHANGED <<now, account, todo, queue, current, price>>

AnalyseCached ==
    /\ pc = "analyse"
    /\ \/ cache[current] = "refused" /\ Finish("refused")
       \/ cache[current] = "accepted" /\ GoTo("propose")
    /\ UNCHANGED <<world, evidence, handled, model, approvals, orders, history>>

ExceedsBySpentOnly == spent >= HardStop   \* mutant: the estimate is left out
WouldExceedHardStop == spent + Estimate >= HardStop

RefuseOverBudget ==
    /\ pc = "analyse" /\ cache[current] = "none" /\ WouldExceedHardStop
    /\ Finish("budget_exceeded")
    /\ UNCHANGED <<world, evidence, handled, model, approvals, orders, history>>

CallIgnoringCache(cost) ==           \* mutant: the cache is not consulted
    /\ pc = "analyse" /\ ~WouldExceedHardStop
    /\ paid' = [paid EXCEPT ![current] = @ + 1]
    /\ billed' = billed + cost
    /\ price' = cost
    /\ pc' = "called"
    /\ UNCHANGED <<world, evidence, handled, model, approvals, orders, now, account,
                   todo, queue, current, outcome, lostCalls, lostMarks, deaths>>
CallModel(cost) ==
    /\ pc = "analyse" /\ cache[current] = "none" /\ ~WouldExceedHardStop
    /\ paid' = [paid EXCEPT ![current] = @ + 1]
    /\ billed' = billed + cost
    /\ price' = cost
    /\ pc' = "called"
    /\ UNCHANGED <<world, evidence, handled, model, approvals, orders, now, account,
                   todo, queue, current, outcome, lostCalls, lostMarks, deaths>>

RecordCost ==
    /\ pc = "called"
    /\ spent' = spent + price
    /\ calls' = [calls EXCEPT ![Session(now)] = @ + 1]
    /\ pc' = "costed"
    /\ UNCHANGED <<world, evidence, handled, cache, approvals, orders, cycle, history>>

Answers == {"accepted", "refused", "malformed"}
Remember(answer) == IF answer = "malformed" THEN UNCHANGED cache
                    ELSE cache' = [cache EXCEPT ![current] = answer]
ParseAnswer(answer) ==
    /\ pc = "costed"
    /\ Remember(answer)
    /\ IF answer = "accepted" THEN GoTo("propose") ELSE Finish("refused")
    /\ UNCHANGED <<world, evidence, handled, spent, calls, approvals, orders, history>>

(***************************************************************************)
(* request_approval_for_analysis: a position that is held is closed, any   *)
(* other symbol is bought up to the largest position, provided the cash of *)
(* the snapshot covers it next to what is earmarked.  Then the gates, then *)
(* the daily cap, then the request.  (A symbol without a price makes no    *)
(* request; so does one without its account or ledger.)                    *)
(***************************************************************************)
Side(s) == IF account.book[s] > 0 THEN "CLOSE" ELSE "BUY"
Portfolio == [nlv |-> account.nlv, cash |-> account.cash,
              pending |-> OutstandingEarmarks(now)]
Proposal(s) == [side |-> Side(s), symbol |-> s, lot |-> "none",
                qty |-> IF Side(s) = "BUY" THEN Share(MaxPositionPct, account.nlv)
                        ELSE account.book[s]]
\* The guard's count is never anything but 0: no code records a day trade.
Context(s) == [portfolio |-> Portfolio, book |-> account.book, openLots |-> {},
               sellable |-> IF s \in account.ripe THEN account.book[s] ELSE 0,
               dayTradeBlocked |-> FALSE]
ShortOfCash(s) == Side(s) = "BUY" /\ Proposal(s).qty > InvestableCash(Portfolio)

ProposeRefused ==
    /\ pc = "propose"
    /\ LET s == Sym(current)
       IN \/ ShortOfCash(s) /\ Finish("insufficient_settled_cash")
          \/ ~ShortOfCash(s) /\ ~Signed(Proposal(s), Context(s)) /\ Finish("analyzed")
          \/ ~ShortOfCash(s) /\ ~UnderCap /\ Finish("analyzed")
          \/ Finish("analyzed")      \* no price
    /\ UNCHANGED <<world, evidence, handled, model, approvals, orders, history>>

ProposeRequest ==
    /\ pc = "propose" /\ Len(requests) < MaxRequests
    /\ LET s == Sym(current) IN
       /\ ~ShortOfCash(s) /\ Signed(Proposal(s), Context(s)) /\ UnderCap
       /\ requests' = Append(requests,
              [event |-> current, side |-> Side(s),
               qty |-> Authorized(Proposal(s), Context(s)), at |-> now])
    /\ Finish("requested")
    /\ UNCHANGED <<world, evidence, handled, model, decisions, memory, orders, history>>

RecordFor(result) ==
    [outcome |-> IF result = "requested" THEN "analyzed" ELSE result,
     until |-> IF result \in Passing THEN NextSessionOpen(now) ELSE 0]
MarkRequestedForLater ==             \* mutant: a request does not settle its event
    /\ pc = "mark"
    /\ handled' = [handled EXCEPT ![current] =
          IF outcome = "requested" THEN NotHandled ELSE RecordFor(outcome)]
    /\ pc' = "next"
    /\ current' = NoEvent /\ price' = 0 /\ outcome' = "none"
    /\ UNCHANGED <<world, evidence, model, approvals, orders, now, account, todo, queue, history>>
MarkHandled ==
    /\ pc = "mark"
    /\ handled' = [handled EXCEPT ![current] = RecordFor(outcome)]
    /\ pc' = "next"
    /\ current' = NoEvent /\ price' = 0 /\ outcome' = "none"
    /\ UNCHANGED <<world, evidence, model, approvals, orders, now, account, todo, queue, history>>

-----------------------------------------------------------------------------
World == \/ TimePasses
         \/ \E s \in Symbols : CompanyFiles(s)
         \/ \E r \in posted : BrokerFills(r)
Operator == \/ \E r \in Requests, d \in Decisions : Decide(r, d)
            \/ \E r \in Requests : SubmitApproved(r)
            \/ \E collected, screened \in SUBSET Symbols : ResearchOnce(collected, screened)
Collected == {s \in Symbols : known[s] > 0}
Screening == \/ \E S \in SUBSET Symbols : BeginCycle(S)
             \/ SkipScreen
             \/ \E S \in SUBSET Collected : \E reading \in [S -> Scores] : Screen(reading)
             \/ \E e \in todo : RecordEvent(e)
             \/ QueueRecorded
             \/ \E x \in queue : NextEvent(x)
             \/ QueueDone
Analysing == \/ AnalyseCached
             \/ RefuseOverBudget
             \/ \E cost \in RealCosts : CallModel(cost)
             \/ RecordCost
             \/ \E answer \in Answers : ParseAnswer(answer)
             \/ ProposeRefused
             \/ ProposeRequest
             \/ MarkHandled
Next == World \/ Operator \/ Start \/ Stop \/ Die \/ Screening \/ Analysing

Spec == Init /\ [][Next]_vars

-----------------------------------------------------------------------------
(***************************************************************************)
(* Properties.                                                             *)
(***************************************************************************)
Accounts == [cash : Int, nlv : Int, book : [Symbols -> Int], ripe : SUBSET Symbols]

\* Type invariant.
TypeOK ==
    /\ time \in Nat
    /\ filed \in [Symbols -> 0..MaxFilings] /\ known \in [Symbols -> 0..MaxFilings]
    /\ recorded \subseteq Events
    /\ handled \in [Events -> Records]
    /\ spent \in Nat /\ calls \in [0..Session(MaxTime) -> Nat]
    /\ cache \in [Events -> {"none", "accepted", "refused"}]
    /\ requests \in Seq(Request)
    /\ decisions \subseteq [request : Requests, decision : Decisions, at : Nat]
    /\ memory \subseteq decisions
    /\ posted \subseteq Requests /\ fills \subseteq [request : posted, at : Nat]
    /\ pc \in Steps /\ now \in Nat /\ account \in Accounts
    /\ todo \subseteq Events /\ queue \subseteq [event : Events, score : Int]
    /\ current \in Events \cup {NoEvent} /\ price \in Nat
    /\ outcome \in {"none", "requested"} \cup Final \cup Passing
    /\ paid \in [Events -> Nat] /\ lostCalls \in [Events -> Nat]
    /\ lostMarks \in [Events -> Nat]
    /\ billed \in Nat /\ deaths \in Nat

\* No document is paid for twice, however its event comes back (a budget or a
\* cash shortage that passed, a restart, a second screening): the only way to
\* pay again is a death between the call and the cache.
PaidOncePerDocument == \A e \in Events : paid[e] <= 1 + lostCalls[e]

\* An event is put to the operator once: only a death after its request was
\* written and before the event was marked makes a second request of it.
RequestsOf(e) == {r \in Requests : requests[r].event = e}
RepeatsAreDeaths == \A e \in Events : Cardinality(RequestsOf(e)) <= 1 + lostMarks[e]

\* Whatever is analysed is on record in the event store before it is paid for.
NothingUnrecordedIsAnalysed == \A e \in Events : paid[e] > 0 => e \in recorded

\* The month ends below the hard stop but for what the last call cost beyond
\* its estimate; and the file knows of every bill but those of calls cut off.
Dearest == CHOOSE c \in RealCosts : \A d \in RealCosts : d <= c
CallsCutOff == deaths + IF pc = "called" THEN 1 ELSE 0
MonthIsBounded ==
    /\ spent = 0 \/ spent + Estimate < HardStop + Dearest
    /\ billed <= spent + CallsCutOff * Dearest

\* A request to buy fits the settled cash the cycle read, next to the other
\* undecided requests and the reserve.
RequestMade == Len(requests') > Len(requests)
Made == requests'[Len(requests')]
PendingCash == MapThenSumSet(Earmark, {r \in Requests : Pending(r, now)})
Reserve == RequiredReserve([nlv |-> account.nlv, cash |-> 0, pending |-> 0])
RequestsFitTheCash ==
    [][RequestMade /\ Made.side = "BUY" => Made.qty + PendingCash + Reserve <= account.cash]_vars

\* Nothing is put to an operator whose decisions of the session, those on
\* file, have reached the cap: the loop reads the copy it made when it started.
CapReadsTheFile ==
    [][RequestMade => Cardinality(On(Session(now), decisions)) < MaxDecisions]_vars

\* What is settled stays settled: an event whose latest record is final, or
\* defers it to a later session, is neither paid for nor put to the operator.
SettledStaysSettled ==
    [][\A e \in Events : IsHandled(e, now) =>
          paid'[e] = paid[e] /\ ~(RequestMade /\ Made.event = e)]_vars

\* As stated in agent/analysis_output.py: an event given up as refused is one
\* whose document the cache knows to be refused.
RefusedIsCached == \A e \in Events : handled[e].outcome = "refused" => cache[e] = "refused"

\* As stated in agent/approval_request_store.py: cash that an approved request
\* may still spend is not offered to the next one.
ApprovedCash == MapThenSumSet(Earmark, {r \in Requests : Spendable(r, now)})
ApprovedCashIsKept ==
    [][RequestMade /\ Made.side = "BUY" =>
          Made.qty + PendingCash + ApprovedCash + Reserve <= account.cash]_vars
=============================================================================
