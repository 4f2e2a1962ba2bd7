# investmentagent: a TLA+ verification project

investmentagent is a personal trading agent. A scheduled loop reconciles a
brokerage account, collects evidence, screens and analyses filings and stages
*approval requests*; an operator decides each request on a dashboard; a command
submits what was approved to the broker. These processes, and a few scripts,
share a directory of append-only JSONL files and a file lock. The models here are
about that shared state: who may write what, when, and what a crash, a stale
copy, a lost answer or an operator's command in between can do to it. The
algorithms that decide about money and days (the calendar, settlement, the risk
gate, the cap and budget arithmetic) are modelled as operators that the
state machines use.

## The system's parts

| part | state it keeps | operations | hard because | should be true |
|---|---|---|---|---|
| approval requests (`agent/approval*.py`, `dashboard_decisions.py`) | `approval_requests.jsonl`, last row per request; each process's copy of it | create, decide, invalidate, mint, spend | the dashboard's copy is loaded once; appends may fail after memory changed | one decision; every order approved and paid for |
| submission (`approval_execution.py`, `broker/base.py`) | none of its own | look up, gates, spend, post | crashes between the durable spend and the post; late answers | at most one post per spend; only in a permitted mode |
| process lock (`process_lock.py`) | one `flock` | acquire, released by death | it orders writes, not memories | always given back |
| mode (`mode.py`, `mode_store.py`) | `mode_state.jsonl` | write, load | half-written last rows | the ladder is climbed; a pause can be left |
| audit log (`audit.py`) | `audit.jsonl`, a hash chain | append, load, verify | a second long-lived writer; half rows | claims are true; the chain verifies |
| startup and loop (`startup.py`, `run_loop.py`) | the step of a cycle | reconcile, verify, adopt, halt | restarts at every step, operator commands | a halt holds until lifted; it is lifted when the cause is gone |
| one-shot commands (`scripts/run_agent.py`) | none | `--advance-mode-to`, `--reconcile-once`, `--submit-approved`, `--research-once`, seeds and reviews | interleave with loop and dashboard | take the lock; re-read what they use |
| runtime status (`runtime_status.py`) | one JSON file, replaced atomically | write, read | read as evidence later than written | a PASS was earned |
| ledger, fills, cash events, quarantines | `ledger.jsonl`, two quarantine files | sync, seed, admit, reject, correct | re-reading the broker's feed after a crash; rows torn in half | each fill and cash event counted once |
| pipeline stage, events, cost budget | event, tracker, cost and cache files | screen, analyse, gate, request, mark | a death between any two of five files | a document is paid for once; requests fit cash and caps |
| evidence (`store.py`, the collectors) | `facts.jsonl`, unsynced | collect, append, load, the view at an instant | torn tails, paging that moves, times that are guessed | no look-ahead; nothing missed |
| Alpaca adapter | none | reads with retry and pages, writes once | a feed that grows while it is read; lost answers | reads are complete; a write is never retried blindly |
| failure sentinel (`failure_sentinel.py`) | one JSON file | record, alert, mark recovered | three processes rewrite it, one without the lock | a stuck system tells somebody |
| calendar, risk gate, holding and lots | none | functions | holidays, edges, rounding | agree with the rules they stand for |
| backup and reboot check (`scripts/`) | manifests, published snapshots | read, compare, publish | the loop writes meanwhile | status 0 means nothing was lost |
| configuration, secrets, displays, tax, browser code | display or none | | | not modelled |

## Modules

| module | models |
|---|---|
| `ApprovalPromise` | what the approval path promises, with no processes, files or clocks |
| `ApprovalLifecycle` | one request from the proposal to the broker, over three processes |
| `Modes` | the mode ladder and its legal steps, no state |
| `Supervision` | mode file, audit chain, startup cycle, commands, dashboard |
| `LedgerSync` | the broker's history, the local books and the cycle that brings them together |
| `BookFiles` | the same books as files: rows, torn rows, loads, the repair script |
| `BrokerFeed` | how a cycle reads the broker, page by page, and stores what it read |
| `RiskGate` | the risk constrainer and the order of the gates, operators only |
| `PipelineStage` | from a collected filing to a request, with every file in between |
| `MarketCalendar` | the exchange calendar and settlement, operators only |
| `CalendarDays` | the loop living through every day of it |
| `Trading` | requests, fills, settlement and the books over several days (EXTENDS `RiskGate`, `MarketCalendar`) |
| `Evidence` | collectors, the fact store, a market that keeps publishing |
| `Unattended` | the failure sentinel and everybody who writes it |
| `Custody` | backups and the reboot check beside a writing loop |
| `MC...` | names, histories and calendars for TLC |
| `ApprovalLifecycle_proofs`, `BookFiles_proofs`, `Evidence_proofs`, `Custody_proofs` | theorems about the module they are named after |
| `PipelineStage_proofs` | theorems about `PipelineStage` and `RiskGate`, and about `Trading` as an instance |
| `Supervision_proofs` | theorems about `Supervision`, and about `Unattended` as an instance |
| `LedgerSync_proofs` | theorems about `LedgerSync`, and about `BrokerFeed` as an instance |
| `SumFacts` | induction over numbers and finite sets, and lemmas about sums, on which the theorems about money rest |

What composes what: `ApprovalLifecycle` implements `ApprovalPromise` (an INSTANCE
and a PROPERTY); `Supervision` builds on `Modes`; `PipelineStage` and `Trading` on
`RiskGate`; `Trading` and `CalendarDays` on `MarketCalendar`. `Trading` composes
the proposal, the submission, the broker, the ledger and the reconciliation that
other modules treat separately. `LedgerSync`, `BookFiles` and
`BrokerFeed` look at one cycle with three lenses: which events are counted, which
rows are in the files, which pages were read.

### ApprovalLifecycle

`file` is the last complete row of each request in `approval_requests.jsonl`,
`dashMem` the dashboard's copy, `cliRow` the copy of a running
`--submit-approved`. `lock` is the process lock. A row carries the decision,
when the request was shown, when it was decided, whether it was withdrawn, and
its token (unspent or spent, for which size, until when). Identity, price, the
signature and the fingerprint are left out: they do not vary over the life of a
request. `asked`, `mints`, `spends` and `sends` are history variables, read only
by properties.

* the loop: `LoopStart`, `LoopCreate`, `LoopExit`; mode writers are `WriteMode`;
* the dashboard: `DashStart` loads; `DashApprove` is `decide()` and the end of
  its append, `DashMint` the mint that follows in the same request (a crash or
  an exception may fall between), `DashReapprove` the retry branch of
  `dashboard_decisions.approve`, `DashGivesUp` its error exits; `DashReject`.
  The parameter `persisted` is FALSE when the append raised: the store replaces
  its memory first;
* `--submit-approved`: one action per point at which it may die or another
  party may act, `CliStart` to `CliAudit`. `CliStops` stands for a refusal, an
  exception and a death at any of them. A refusal needs no guard of its own:
  the session, quote and reconciliation gates may each refuse at any time;
* the broker: `BrokerTakes`, `BrokerLoses`, whenever they like after the post,
  including after the command has given up and another run has started.
* `OperatorInvalidate` happens only with `OperatorInvalidates = TRUE`: nothing in
  the repository calls `invalidate()` outside tests; the run includes it.

### Supervision

`disk` and `log` are what a *loader* would read in the two files, with the state
of their last line (`Tail`): a half-written row is discarded in memory and left
in the file (`torn`), the next append is joined to it (`glued`, discarded by a
loader too), and a further one turns it into a malformed line in the middle
(`garbled`), which every loader refuses. `pc` is where the holder of the lock
is, `mem` what it loaded. A cycle of the loop is

    asleep -> claims -> legal -> reconcile -> verify -> adopt (-> adopted) -> complete -> asleep

with `halt` (`_halt`) reachable from the legality check and the reconciliation,
and a broken chain pausing without an audit row. `HaltClaim` writes the
`mode_transition` row and goes back to `halt`, where an already paused process
writes `startup_halted`: the code's two rows in the code's order.
`--advance-mode-to` is four steps; `--reconcile-once` and `--submit-approved` hold
the lock for their whole run and are one step each (the submission's own steps
are ApprovalLifecycle's). `dash` says whether the dashboard's AuditLog still has
the whole file. `Crash` kills the holder between steps or in the middle of the
append it was about to make.

### LedgerSync

`history` is what the broker will report, `happened` how much of it there is: an
event's place is its identity and its time, so `filled_at > now` is a comparison
of places, and the broker's figure read when k events have happened contains
events 1 to k. `booked`, `adjusted`, `opening` and `openPos` are the rows of
`ledger.jsonl`; `status` and `warrant` the two quarantine files; `audited` the
events with an audit row. An opening balance is kept as *which events it
contains* (`has`), with the instant the row claims (`at`) and the instant the
figure was really read (`read`): what it is worth in money is computed from
that where the code compares money (`Worth`). A cycle is

    idle -> fetchFills -> fills -> fetchCash -> cash -> account (-> seed (-> positions)) -> compare -> idle

with the clock read once, at the start (`now`), and a broker read at
`FetchFills`, `FetchCash`, `ReadAccount`, `SeedPositions` and `Compare`;
`BrokerActs` may come between any two. `QuarantineFill`, `BookFill` and
`FillRefused` are the three things `sync_fills` does with an execution,
`QuarantineCash` and `ApplyCash` the two of `sync_cash_events`; each takes the
first event of the feed that is still to be done, the loop's order. `Seed` is
both seeds of `build_account_reconciliation`, and what `to_ledger` then says of
the new row. `CycleDies` is a death or a failed read between two rows,
`DiesBeforeAudit` one between a row and its audit row. Admissions and rejections
need the process lock, so they fall between cycles.

What is simplified: one symbol; a holding policy is either the right one or
unknown; the CAT-fee pattern and its ceiling are a flag of the event; money is
an integer and `_cash_notional` does not round; broker and agent share a clock.
The open-order comparison is left out: no code under `agent/` or `scripts/`
writes an OPEN order record, so the local side is always empty, and a mismatch
there is a mismatch. For the same reason the branch of `sync_fills` that finds a
staged intent is never taken.

### BookFiles

`ledger` and `quarantine` are sequences of rows as they stand in the files; a
row appended behind a torn one is joined to it and both are `Torn`. `loop` is the
run loop with the clock and the store of its cycle: `BeginCycle` loads all three
files (and raises on a torn row), then `Quarantine` and `Book` work through the
executions and the activities in the order of the broker's clock, `SeedDeferred`,
`Seed` and `AlreadySeeded` are the three outcomes of the seed, `Compare` the
reconciliation, `LoopDies(file)` a death with or without half a row in one of the
files. `Resolve` is a review command (it loads, checks and appends under the
lock). `RepairReads` and `RepairApplies` are the two halves of
`repair_settled_cash_baseline.py --apply`: the reading and the proposal happen
before the lock, the write under it. `Init` includes ledgers as an earlier
version of the seed left them (`seeded`), which is the case the script is for.

### BrokerFeed

`feed` is what the broker lists of each of two accounts, in its order; `List`
adds an activity anywhere, as an activity dated earlier may appear later.
`FetchPage` asks for the page after the cursor (the last activity received),
`LookUp` for the order of a fill. `Retry` is a transport error below
`http_max_retries`, `RequestFails` one that ends the process, `Die` a death. The
process reads fills, stores, reads activities, stores, and only then the account,
where `IsPinned` compares the account number (`ReadAccount`).

`local` is what is stored, in ledger or quarantine; `standing` what the operator
decided about a stored fill (`Decide`) and what `record_fill` would say of an
admission now, which the booking of another fill may change. `SyncFill` is one turn of
`sync_fills`' loop, `SyncCash` one of `sync_cash_events`'. Two things end the process
there, in this cycle and in every later one that meets the same element first:
`ReadRefused`, an element of the list the adapter cannot turn into an execution or an
activity (`Malformed`; the list is converted before its first element is looked at),
and `FillRefused`, a fill without a usable `filled_at` (`Untimed`), one ahead of the
clock the cycle began with (`now`, `elapsed`, `ClockPasses`), or an admission that
`record_fill` refuses. Which admissions are refused is left open
here: the lots and what is left of them are `LedgerSync`'s subject.

### RiskGate and PipelineStage

`RiskGate` is arithmetic: `RiskConstrain` clips names, scales sectors and
scales the book into the investable cash, rounding down as the code does;
`RejectingGate` is the order of `Gatekeeper.stage`'s refusals.

`PipelineStage` has one variable per file (facts, events, tracker, costs, cache,
requests, decisions) and the process's place in the cycle: collect, screen, queue, take an event, look in
the cache, check the budget, call the model, record the cost, cache, gate, size,
request, mark. Between any two a death may fall, and the files are what the next
start reads. The materiality score and the verdict of the model are free choices.
The loop's copy of the decisions (`memory`) is the one it made when it started:
the operator's commands need the lock, so they come between two lives of the
loop. `lostCalls`, `lostMarks`, `deaths` and `billed` are history. A request is
`Pending` until it is decided or expires; its notional is what
`outstanding_earmarks` sets aside.

### MarketCalendar and CalendarDays

A day is its distance from 1 January 2024. The tables of closures and early
closes are transcribed; the walks (`TrailingSessions`, `NextTradingDay`,
`SettlementDate`) end in `Uncovered` where the code raises.
`CalendarDays` goes through every day, so that what is said of a day is said of
all five years; the rules of the exchange (Easter included) are in
`CalendarDays` and are the reference the tables are checked against.

### Trading

Time goes in four slots a day: before the open, until the hour of an early close,
until the close, and after it. A cycle proposes (`CyclePasses`, with the
risk gate and the holding rules), the operator approves, `Submit` re-checks what
`approval_execution.py` re-checks and the order is filled (the simulator's rule);
the broker settles on its own list of settlements, while the ledger recomputes
settled cash from the booked fills and the calendar. Executions go through
quarantine; an operator names the policy of a purchase and the lot of a sale
(`Admit`). A cycle whose books disagree halts; `Resume` is the operator's.

### Evidence

`file` is `facts.jsonl`, `series` what a process holds in memory. The loop and
`--research-once` exclude each other by the lock, so one process record serves
both. `FetchPage` reads the SEC's recent page and then the older one while
filings arrive and move; `AppendFact` writes one row of a batch, `DieAppending`
leaves nothing, half a row or a row without its newline. A filing with no
acceptance time is dated at the end of its day.

### Unattended

`rec` is `failure_sentinel.json`. The loop (`Relaunch` to `Page`), `--reconcile-once`
(`Once...`) and `diagnose_runtime.py` (`Diag...`) each load, decide and replace it
in separate steps; the last takes no lock. `Diagnose` computes the fourteen
verdicts of a report. `page` inside a record is history: it says what became of
its notification.

### Custody

A file is a sequence of bytes, each labelled with the boot it was written in, or
damaged. `Stat`, `Hash` and `Manifest` are the three reads of a manifest run, before and after the
`Reboot`; `Compare` is the verdict and the exit status. `Begin`, `Add`, `Record`,
`Reserve` and `Rename` are a backup: an archive read file by file while the loop
appends, verified against its own manifest, published under a reserved name.

## Runs

| run | question | result |
|---|---|---|
| `approval` | does the approval path keep its promise, with every failure | passes |
| `supervision` | may anyone trade who should not; do pauses and trading end | passes |
| `ledger` | is the broker's history counted once, by decision, and can the books be made to agree | passes |
| `pipeline` | is a document paid for once, an event requested once, the budget, the cap and the cash respected | passes |
| `calendar` | do tables and walks follow the exchange's rules on every day | passes |
| `trading` | are ledger and broker the same books; is only what is ripe sold | passes |
| `unattended` | is somebody told when the system is stuck | passes |
| `evidence` | does the view of an instant show only what was public; is anything missed or repeated | passes |
| `feed` | is a growing feed read whole, and stored in the end but for what stands behind an element that raises | passes |
| `books` | is memory what the files say; is a correction exact | passes |
| `custody` | may an exit status 0, an alarm and a published backup be believed | passes |
| `feed_foreign` | nothing of an account the adapter is not pinned to gets past it | violated: stored before the account is asked for |

Bounds. `approval`: one request suffices because the rows of two requests share
only the lock, the clock, the dashboard's copy and the one command; the theorems
hold for any set of requests. `MaxTime` 6 exceeds display + drift + one token
life, so a token can expire, a request can expire with a token alive, and a mint
can come too late. `supervision`: two faults give a crash, and a second one while
the first is being repaired; two commands give a pause and the wrong way back;
one post is enough for each property about posts. `AdvanceTargets` is every mode.
`ledger`: three events allow a purchase, a fee and a sale; a purchase and two
sales that together do not fit its lot; a deposit and two purchases; and a cash
event without a date. An error about an event involves the seed, that event and
at most one other. The amounts make two cash figures equal only if they contain
the same events, so that a comparison never passes by coincidence.
`pipeline`: two symbols and two filings let one event wait for another's budget,
cash and cap, and let a filing supersede one that was analysed; three slots are a
session and the next; the hard stop admits two or three calls of either price;
one death anywhere. `calendar` needs no bound: every day is looked at. `trading`:
four orders (two purchases and two sales of them, in every order) from the day
before Thanksgiving 2024 to the Tuesday after: a session, a holiday, an early close, a
weekend and two sessions, so settlement skips both. `Expiration` is two slots there; the
half hour of the code's default (`config.py:234`) is shorter still. It is more than a
bound: with nine slots, longer than a purchase takes to settle, TLC refutes
`LotsAreTheSharesHeld` and `RipeUnlessOvertaken`. Of two purchases proposed together, the
second can then be submitted beside the closing sale of the first, the operator may book
the sale against the newer lot, and the ledger counts holds on other shares than those
the broker still has. The configuration only checks that the figure is positive
(`config.py:709`). `unattended`: the count goes
to the second milestone (5), one fault loses one page or one update. `evidence`:
a filing with and one without an acceptance time, an item dated ahead, two
collections, a day of three instants. `feed`: pages of three over five activities,
so there is a full page followed by an empty one, and an activity that appears in front of
the cursor; two of the three fills can be booked, so that the booking of one changes what
is said of the other, and no clock reaches the third; one of the two cash events cannot be
read. A malformed fill is not in the instance: it ends a cycle before anything is stored.
`books`: two executions and a fee around the seed, two repairs, one death;
amounts again chosen so that sums do not coincide. `custody`: nothing relates
two files, so one file of two rows and a torn one; two backups of the same
second, because what can go wrong is the name.

Fairness. `approval` assumes that a process which holds the lock for one call
finishes that call, one way or the other: requests carry a timeout and nothing
else waits. `supervision` assumes that the loop goes on (launchd's `KeepAlive`
restarts it after a failure; sessions open) and that a running command goes on.
`ledger` assumes that the loop goes on (`WF_vars(CycleStep)`), `feed` that the
process goes on (`WF_vars(Cycle)`; the number of faults is bounded, so failures
end) and that its clock passes the instant of a fill sooner or later, unless it is one
of `Untimed`. `unattended` assumes strong fairness of the loop's steps together, because a command
may hold the lock again and again at the instant of a relaunch, and that a command which
began ends. Nothing is assumed of the broker, the dashboard or the operator.
`PauseEnds`, `TradingEnds`, `StuckIsTold` and `EveryActivityIsStored` therefore
hold under a condition on the environment that they state themselves: the books
agree (or disagree) for good and no file is torn; the trouble lasts and no command
interferes; the keys are those of the account, and nothing that stands before the
activity ends every cycle (`InTheWay`: a malformed element of the same list, any
malformed fill, or an execution before it that stays refused or has no usable
`filled_at`; without this condition TLC refutes the property). A torn mode file can leave the
loop running as PAPER in memory while the file says otherwise, so neither of the
first two is claimed for it.

## Proofs

Everything proved holds for all values of the constants: any set of requests,
any times, any bounds.

`SumFacts`. Totals of money are `MapThenSumSet`, a recursive function over the
subsets of a set which takes each apart at an element of its choice. `SumFacts`
proves that such a function exists on every finite set, and what sums obey: an
element more or less, equal and smaller summands, disjoint and overlapping sets.
The induction is stated with a set instead of a predicate, which the prover can
instantiate (*SubsetInduction*: a set that contains a subset of S whenever it
contains that subset less any one of its elements contains every subset of S).

`ApprovalLifecycle_proofs`. `IInv` adds to the type invariant what the safety
properties rest on: *LockDiscipline* (the command runs only under its lock, and
the mode cannot move between gate and post because its writers need the lock),
*WriterSeesTheFile*, *StaleMemory* (how far the dashboard's copy may trail the
file: it may miss tokens, never a decision of the other kind) and
*MintsAreRecorded*. The one property that is hard without them is
`SendsAreCovered`: a stale dashboard can put an unspent token over a spent one,
so "one token, one order" is false and the invariant counts mints, spends and
posts instead. `Refinement` maps every step to a step of `ApprovalPromise`: a
dashboard mint whose decision never reached the file maps to `Grant`, which
carries the approval with it. `SpentWhileFresh` needs a bound that holds of every
copy of a row, the dashboard's stale ones included (*Timely*): no approval came
before the request had been shown long enough, and no token outlives the decision
it carries by more than drift and one token life.

`Supervision_proofs`. `IInv` says that the holder of the lock knows the mode on an
untorn file, that past the legality check its transition is legal, that the
visited modes are closed downwards, and what each step of a cycle has already
established (*StepFacts*). `RungsAreClimbed` and `PauseHasAWayBack` need each other:
a pause can be left for the recorded mode only, and that mode was visited.

`LedgerSync_proofs`. `DoubleCountsAreKnown` is about the seed: what it contains
must never become a row. `IInv` says what each phase of a cycle has established
when the seed is taken: the feeds hold everything the clock covers
(*ReadsAreInOrder*), past `sync_fills` every execution the clock covers has been
faced and the admitted ones are booked (*FillsSynced*), past `sync_cash_events`
the admitted cash events are (*CashSynced*). So, at the seed, an execution the
figure contains is rejected for good or is a row the seed is less of, and a cash
event is refused from then on by its date (*BaselineIsClosed*). The excused
cases are exactly those where this argument breaks: events between clock and
figure, cash events beside a verbatim seed, unsettled sales. What figures are
worth is never used, so the proof holds for all amounts; histories are of any
length. `LostAudits` counts events without an audit row against deaths.
`LotsAreCovered` compares a lot with a sum over the booked sales from it: a sale
is booked only while it fits, and no row is taken out. `PassMeansDecided` is about
what a comparison of two totals can tell. It is proved under the hypothesis
`AmountsTell`, that no two of the figures a cycle can compare are worth the same,
which TLC evaluates for the histories of the run. The hypothesis cannot be
dropped: two undecided executions of opposite amounts, a purchase and a sale at the
same price, pass the comparison. A seed is taken when every execution its clock
covers is decided (*SeedIsDecided*); equal figures contain the same events; so an
undecided execution in the broker's figure fell between the seed's clock and its
figure, which is the exception the property names (`Raced`).

`BookFiles_proofs`. A row appended to a file changes what it loads as by that row,
and one appended to half a row by nothing; from this `ReloadAgrees`.
`CorrectionsAreExact` needs in addition when things happened (*TimesAgree*: the
broker stands still in a cycle, so the seed's clock covers what its figure
contains), what the opening balance counts (*SeedCounts*) and what each run of
the repair script means to take out, having read the file before it had the lock
(*RepairsMean*). Opening balance and rows count the events in both twice, the
correction is minus their sum, and what remains is the sum over the union of the
two. `DecisionsArePermanent` is proved too. Sets of events, amounts, and the
numbers of runs, rows and deaths are arbitrary.

`PipelineStage_proofs`. The stage writes five files one after the other, and each
property says that one of them was written before another was relied on. `IInv`
states, for each place in the cycle, what is already on file of the event in hand
(recorded, not yet marked, called and not yet cached, requested and not yet
marked), and counts what deaths may have cut off (`lostCalls`, `lostMarks`).
`PaidOnce` and `RepeatsAreOnlyDeaths` follow by comparing counts; `MonthBounded`
needs in addition that the budget was checked against the same month's sum that
the cost row will be added to; `CapIsOfTheFile` needs that the decisions in
memory are those on file while the loop holds the lock. It holds for every
number of symbols, filings, costs, caps and deaths.
`ConstrainedBooks` is about the arithmetic alone: whatever book is aimed at, the
constrained one is inside the position, sector and cash limits, though each of the
scalings rounds. `RequestsFitTheCash` compares a request with what the cycle read
when the account was still another: the earmarks are a sum over the undecided requests, and
the reserve is a share of a net value that is never negative, because no holding is,
and holdings and cash make up the same value throughout (*Holdings*).

`PipelineStage_proofs`, on `Trading`. `IInv` says what the broker's three figures are:
held is all bought less all sold, unsettled is the sum over the sales whose settlement
is still to come, settled is the deposit less all purchases plus the other sales, and
its list of settlements names exactly the sales to come (*AccountStands*). A sale settles
later than it is filled, because a session's settlement is the open of the first trading
day after it (`SettlesLater`, by well-foundedness and not by looking at the table); so an order is never
settled when it is added, and `Tick` moves each sale from one sum to the other once.
The ledger's shares are counted lot by lot, so their sum is the broker's only if every
booked sale is of a booked lot and no lot is overdrawn (*BooksAreSound*, `HeldIs`). A
cycle books several admissions at once: the latest booked against a lot was compared with what all the
others leave of it. `BooksStayInAgreement` compares the two. Days, deposit, holds,
expiration and the numbers of orders and proposals are arbitrary; the symbol is one, as
in the module.

`Supervision_proofs`, on `Unattended`. The failure record is replaced by three processes, one of them
without the lock, so the invariant is about every copy in somebody's hands
(*CountHasAPage*: a copy that counts to the threshold has a page), and a page is due
only while the loop is paging (*DueIsOnItsWay*). `CountMeansAlerted` is that, read
off the file.

`LedgerSync_proofs`, on `BrokerFeed`. `IInv` says what a call knows between two pages:
the cursor is the last activity received, and whatever was listed when the call began
and now stands before the cursor has been received (*PagesAreRead*). An activity put
in before the cursor moves the cursor with it, one put in after it is still to come;
neither disturbs the relation, and at the first page that is not full the cursor has
passed everything (`WholeFeedIsRead`). A cycle that ends in a refusal ends as in a
death, so nothing more is needed for the two ways of raising. That an activity is put in once and is never
taken off the list again (*ListedOnce*) is what the broker must provide. Pages of any
length, any number of activities, errors and deaths.

`Evidence_proofs`. The three properties of `evidence` need one another's parts of
`IInv`. `NoLookAhead` is a fact about one list: each series is in the order of its
dates (*SeriesAreSorted*), so what `BisectRight` cuts off is all that is dated later,
and each fact is dated no earlier than it was public (*FactsAreGenuine*).
`NothingIsMissed` says where a promised filing is: stored, queued, found on a page
already read, or on the page still to be read (*CollectionStands*); the SEC moves
filings from the recent page to the older one and the collector reads them in this
order, so a filing cannot slip between. `RepeatsHaveACause` must survive a death at
any point of a write: the same relation holds between the rows of the file, the facts
in memory and those queued (*RepeatsAreCaused*), and a restart finds in the file no
readable row that was not in memory (*RowsAreInMemory*). `FoldLeft` is a recursive
function chosen over a set of functions; *FoldsExist* proves that such a function
exists for a step that can be written as a function, and each use (what loading, the
filter of known filings, and the batch of news items return) is proved by induction
over beginnings of the sequence. Companies, filings, items, the length of day and
session and the numbers of collections and deaths are arbitrary.

`Custody_proofs`. What the second manifest has read of a file is a beginning of the
file as it is now and no shorter than the size it took (*ReadsAreOfTheFile*), and an
unharmed file is found whenever it is looked for (*StillThere*). At the comparison
both hashes are then beginnings of the same bytes, from which `ExitZeroMeansKept`
and `AlarmHasACause` follow by comparing lengths. A backup between its mkdir and its
rename owns an empty directory (*OwnName*), so `PublishedStays`. That a free name
exists when not all are taken uses that the naturals are well-founded. Files,
contents, their lengths and the number of backups are arbitrary; the list a backup
works off is left untyped there, because the prover knows nothing of `SelectSeq`.

Assumptions: `TimesAssumption` and `SwitchAssumption` (ApprovalLifecycle),
`AdvanceAssumption` and `BoundsAssumption` (Supervision), `HistoriesAssumption`,
`FundsAssumption` and `BoundsAssumption` (LedgerSync), `EventsAssumption`,
`NumbersAssumption` and `NoneAssumption` (BookFiles), `SymbolsAssumption`,
`LimitsAssumption` and `PipelineAssumption` (RiskGate and PipelineStage),
`FilesAssumption` (Custody), `TimesAssumption`, `SubjectsAssumption`,
`BoundsAssumption` and `NullAssumption` (Evidence: the session lies inside a day, and
every subject belongs to a company). What `Unattended`, `BrokerFeed` and `Trading`
ASSUME of their constants (the count can pass the threshold; the two accounts'
activities are disjoint, and those that are untimed are fills; a page holds at least one; every session looked at has a
settlement date, which on the last session of the table the code refuses to give) are
the hypotheses `SentinelConstants`, `FeedConstants` and `TradingConstants` of the
theorems about them, which are stated of an instance.
All but these and one further clause are about types of constants, the finiteness of
sets and `None` or `Null` being something else; that clause says that a call's cost
has a maximum (`max_tokens` bounds an answer). `AmountsTell` is a hypothesis of one
theorem.

Only model-checked. Liveness, which the prover cannot treat: `LockIsReleased`,
`PauseEnds`, `TradingEnds`, `ExecutionsAreFaced`, `BooksConverge`, `StuckIsTold` and
`EveryActivityIsStored`. `calendar`: `CalendarFollowsRules` and
`SettlesAtTheNextSession` are about tables of five years, and looking at every day
is their proof. Of `trading`, `LotsAreTheSharesHeld` and `RipeUnlessOvertaken`: they do
not hold for every `Expiration` (see *Bounds*), so what would have to be proved is how
long a proposal lives beside how long a fill takes to settle.

## Claims of the repository that the code does not keep

One run, `feed_foreign`, exhibits such a claim: `alpaca.py:416` says that nothing
ever sees broker state of an account the adapter was not pinned to, but a cycle
stores that account's fills and cash events (`run_loop.py:417`, `:434`) before
`account()` (`:440`) first compares the account number.

The others are stated in the modules too, as named definitions with the same
comments. Each is refuted by TLC when its name is added to the cfg of its module's
passing run, as an INVARIANT, or as a PROPERTY where it is a temporal formula.

| definition, module | the claim | what the code does |
|---|---|---|
| `OneSpendableToken`, ApprovalLifecycle | `approval_bridge.py:152`: "A DECIDED REQUEST MINTS EXACTLY ONE SPENDABLE TOKEN, DURABLY" | a dashboard that loaded its store before `--submit-approved` minted (and perhaps spent) a token mints a second one over it |
| `NeverLargerThanApproved`, ApprovalLifecycle | `approval_bridge.py:134`: the token "is bound to the order the operator actually authorized" | the reduced size is in the mint only; after a death between decision and mint, `--submit-approved` mints for the full size |
| `OnlyTamperingGarbles`, Supervision | `audit.py:280`: a malformed line other than the last "can only be an edit made after the fact" | a half row stays in the file; the next append is joined to it, and the one after makes it a malformed middle line |
| `HaltSurvives`, Supervision | `mode_store.py:76`: "write() returning means the mode is actually on disk" | a halt appended to a half row is unreadable; the next load finds the mode before it |
| `PostsFollowAPass`, Supervision | `approval_execution.py:848`: "A fresh, PASSing reconciliation snapshot is required immediately before submission" | a mismatch reported by `--reconcile-once` changes neither mode nor status; the earlier PASS stands until it is stale |
| `ChainIntact`, Supervision | `process_lock.py:13`: interleaved writing "is a real corruption risk this module exists to prevent, structurally" | the dashboard's AuditLog is never reloaded and continues a chain the loop has extended |
| `BaselineNeverRepeated`, LedgerSync | `cash_event_quarantine.py:104`: an earlier event is "ALWAYS already reflected in that baseline, full stop" | an event applied before the seed is in the verbatim opening balance and in its own row |
| `NothingRefusedReachesDisk`, LedgerSync | `ledger_store.py:63`: "NOTHING REACHES DISK THAT A `Ledger` WOULD REJECT" | a backdated opening balance may be negative, and every later Ledger of the file is refused |
| `RefusedIsCached`, PipelineStage | `analysis_cache.py:49`: caching a malformed answer "would permanently poison a filing over one bad call" | `MalformedResponse` is an `AnalysisRefused`; it is caught at `pipeline_stage.py:442` and the event marked refused for good |
| `ApprovedCashIsKept`, PipelineStage (with `MaxDecisions = 2`) | `approval_request_store.py`: "an approved-but-unspent token must not free cash a live order is about to consume" | the loop builds a fresh ApprovalService (`run_agent.py:2522`) that knows no token, so an approval frees its earmark |
| `EndShowsAtStartup`, CalendarDays | `market_calendar.py:219`: the end of the table shows as a startup check | on the last session covered, 29 December 2028, settlement (`ledger.py:681`) and the next open (`run_loop.py:295`) raise, while startup only warns |
| `OnlySettledSharesAreSold`, Trading | `docs/architecture.md:671`: "Only settled lots are sellable" | the submission re-checks the held quantity (`approval_execution.py:777`), so a sale proposed before a purchase can be filled from it |
| `RecoveryIsSeen`, Unattended | `diagnostics.py:495`: recovered "iff EVERY component in `report` is PASS or WARN" | only a FAIL stands in the way (`:519`); with the keychain locked, components are UNAVAILABLE and the sentinel is marked recovered |
| `OneNoticePerIncident`, Unattended | `tests/test_run_agent.py:592`: "exactly one recovery notification" | `run_agent.py:2397` looks at the count, not the status: a relaunched loop that passes again notifies again |
| `StoredByOneCollection`, Evidence | `edgar_collector.py:64`: "rather than growing the store forever with one identical row per collection cycle" | a filing without an acceptance time is dated at the end of its day and appended again by every collection until then |
| `UneditedStoreLoads`, Evidence | `store.py:204`: an unreadable row in the middle "cannot be explained as an unclean shutdown" | an append after a torn row is joined to it, and the next makes it a middle row |
| `CorrectedOnce`, BookFiles | `repair_settled_cash_baseline.py`: "refuses to propose a second one" | the check precedes the lock (`:209`, `:352`): two runs both write; with equal amounts every later load raises, with different ones the cash is over-corrected |

## Stated beside the runs

Some properties that hold are in the modules and not in a cfg, because another
property of the run, or a theorem, says as much: `WriterSeesTheFile`,
`OrdersAreApproved`, `DecisionFinal`, `PauseHasAWayBack`, `LostAuditsAreDeaths`,
`NothingUnrecordedIsAnalysed`, `SettledStaysSettled` and `DecisionsArePermanent` are
proved; `WindowIsTheLastFive` (CalendarDays), `CountIsOfThisStreak` and
`MendedIsRecovered` (Unattended) can be added to their cfg, as can the `TypeOK` and the
`IInv` of each module that states one; most of them are theorems.

## Observations that no run checks

Approvals and the stage

* An approval at a reduced size can never be submitted: `execute_approved_request`
  rebuilds the full staged order and checks it against the reduced token
  (`approval_execution.py:792`; `docs/architecture.md:1347` calls reductions
  "supported as specified"). In the model no reduced token passes `CliChecks`.
* The remedy `approval_execution.py:364` prescribes for a token spent without an
  order, `invalidate()`, refuses every decided request
  (`approval_request_store.py:272`).
* The daily cap counts decisions, so it does not bound how many requests are
  created. The position cap ignores pending purchases of the same symbol, and a
  posted order that is not filled reserves nothing.
* A request that a gate refuses marks its event analysed for good; a filing
  superseded between two screens is never analysed; `cooldown_symbols` is always
  empty (`pipeline_stage.py:313`) although `materiality.py:21` describes it.
* The reserve step of `risk_constrain` scales the whole book, positions already paid
  for included; `reserve_pct_after` counts sale proceeds as settled; nothing records a
  day trade, so the guard never objects; a SELL may name any open lot.

Ledger and files

* An admission with an unknown lot or policy is accepted by the quarantine and
  refused by `record_fill` in every later cycle, which ends there: nothing after
  it in the feed is seen again, no cash event is, and a resolution cannot be changed
  (`Poisoned` in `LedgerSync`). An execution without a usable `filled_at` and a
  fill that cannot be read do the same, and there is nothing an operator could decide
  about them; a cash event that cannot be read keeps out the other cash events
  (`FillRefused`, `ReadRefused` in `BrokerFeed`).
* A sale of an opening position has no lot, so it can be rejected only; a CLOSE
  over several lots can never be booked.
* A death between the `opening_balance` row and the `opening_position` rows leaves
  the positions unseeded for good.
* Between a sale and its settlement the broker's cash and the ledger's differ, so
  reconciliation fails until T+1.
* A half-written row in `ledger.jsonl` or a quarantine file makes every later load
  raise (`BookFiles`: no cycle begins any more). A repair that appends to such a file
  prints that it wrote a row which no load will read.
* On a ledger whose seed was backdated the repair script proposes a correction that is
  not needed, and `--apply` writes it despite "NO MATCH"; an execution from before
  the seed that is admitted after the repair can never be corrected; cash activities
  are dated at the start of their day.

Startup, status and sentinel

* With a configured mode other than PAPER the loop dies building its adapter,
  before `run_startup`; no halt is recorded. `Constructible` says so.
* An operator's PAUSED is lifted by the next cycle of a loop configured for
  PAPER: the loop adopts its configured mode. `--advance-mode-to` resumes without a
  reconciliation, and a PASS status survives a failing cycle until it is stale.
* The calendar-coverage halt and the accounts-not-expected halt take the same
  path as the legality halt and are not separate actions.
* `diagnose_runtime` works without the lock: it can mark a newer failure recovered,
  save a stale record and overwrite `last_successful_cycle_at`; it reports FAIL at three
  failures, so a diagnosis never recovers an incident that was alerted.
* A relaunch while a one-shot holds the lock is recorded as a failure of its own kind and
  restarts the streak at one.

Reads and custody

* The HTTP transport does not wrap a dropped connection, a short read or an
  unparsable body; `open_orders` reads one page.
* `collect_filings` does not look for duplicates within one batch; an item dated
  ahead of the clock is stored again; same-time metrics do not filter bars to
  regular hours.
* `reboot_check` lists `opportunity_events.jsonl` but not `materiality_events.jsonl`;
  a component that is UNAVAILABLE leaves the exit status 0; a loop that writes between
  size and hash causes a false FAIL; it takes a "-FAILED-VERIFICATION" snapshot for a
  backup. A death between mkdir and rename leaves an empty published name, and a
  snapshot is not one instant of all files.

## Not modelled

* Half-written rows of the dashboard, of `--reconcile-once` and of the loop's
  first row in the mode and audit files; those of the loop's cycle and of
  `--advance-mode-to` are.
* Configuration, secrets, the display of the dashboards, the browser code, the probes
  and acceptance scripts: they validate, read or print and change no shared state. Their limits are the
  CONSTANTS of the modules. The SQL schema is executed by no code of the repository.
* Tax figures, reports of closed lots, decimal rounding of money: computations for
  display, with no effect on what the system does.
* That `os.rename` refuses a target which is not empty (`Rename` in `Custody` relies on
  the exclusive mkdir alone), and a power failure between the rename and the `fsync` of
  its directory.
* The prompt, the parsing of the model's answer and of broker and SEC answers: text.
* `close_terminal_orders`, staged intents in `sync_fills`, `BrokerAdapter.cancel`:
  nothing in the repository reaches them with anything to do.

## What could follow

1. An abstract ledger (the broker's history counted once) that LedgerSync
   implements when no event falls into the seeding cycle.
2. Composition of ApprovalLifecycle and Supervision at the mode gate.
3. `LotsAreTheSharesHeld` and `RipeUnlessOvertaken` for every calendar whose fills take
   longer to settle than a proposal lives: the invariant must relate a proposal to the
   lots that were open when it was made.
