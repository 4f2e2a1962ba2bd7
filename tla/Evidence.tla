------------------------------ MODULE Evidence ------------------------------
(***************************************************************************)
(* The evidence store and the collectors that fill it: facts.jsonl, which  *)
(* is appended to without a sync and read back at start (agent/store.py),  *)
(* and the collection of market snapshots, SEC filings and news by the run *)
(* loop and by --research-once (agent/*_collector.py, agent/edgar.py).     *)
(*                                                                         *)
(* The two processes exclude each other by the process lock, so one        *)
(* process record serves both.  A collection is a row of requests; each    *)
(* may fail after its retries, filings keep arriving between them, and the *)
(* process may die in the middle of writing a row.  The SEC serves a       *)
(* filer's filings as a page of recent ones and a page of older ones, and  *)
(* moves filings from the first to the second as time goes by.             *)
(*                                                                         *)
(* Time is counted in instants, DayLength of them a day; the last instant  *)
(* of a day stands for 23:59:59 Eastern.                                   *)
(***************************************************************************)
EXTENDS Naturals, FiniteSets, Sequences, SequencesExt

CONSTANTS
    Symbols,      \* the symbol universe
    Registered,   \* the symbols of the SEC's ticker map
    Seasoned,     \* the symbols with history enough for a snapshot
    Filings,      \* accession numbers
    Items,        \* news items, by url
    SymbolOf,     \* whom a filing or an item is about
    Stamped,      \* the filings the SEC lists with an acceptance time
    Ahead,        \* the items their provider dates an instant ahead
    DayLength,    \* instants of a day
    SessionOpen,  \* the first instant of a day's session
    SessionClose, \* the instant the session closes
    Interval,     \* data_collection_interval_seconds
    MaxAge,       \* edgar_ticker_cik_refresh_interval_hours
    Lookback,     \* news_lookback_hours
    MaxTime,      \* bound: the last instant
    MaxCycles,    \* bound: collections begun
    MaxDeaths,    \* bound: deaths while writing
    Null

ASSUME TimesAssumption ==
    /\ DayLength \in Nat /\ SessionOpen \in Nat /\ SessionClose \in Nat
    /\ SessionOpen < SessionClose /\ SessionClose < DayLength
    /\ Interval \in Nat /\ MaxAge \in Nat /\ Lookback \in Nat \ {0}
ASSUME SubjectsAssumption ==
    /\ SymbolOf \in [Filings \cup Items -> Symbols]
    /\ Registered \subseteq Symbols /\ Seasoned \subseteq Symbols
    /\ Stamped \subseteq Filings /\ Ahead \subseteq Items
    /\ IsFiniteSet(Symbols) /\ IsFiniteSet(Filings) /\ IsFiniteSet(Items)
ASSUME BoundsAssumption ==
    MaxTime \in Nat /\ MaxCycles \in Nat /\ MaxDeaths \in Nat

PageNames == {"recent", "older"}
Listings == [at : Nat, page : PageNames]
ASSUME NullAssumption == Null \notin Nat \cup Listings

VARIABLES
    clock,
    listed,    \* the SEC's list: when each filing was accepted, on which page it is
    news,      \* when the provider says each item was published
    file,      \* facts.jsonl: its lines
    series,    \* FactStore._series: the facts of a symbol and field, by observed_at
    proc,      \* the process that holds the lock, and where it stands
    queue,     \* facts it is about to append
    cycles,
    deaths,
    promised   \* history: the filings listed when this process last asked for them

environment == <<clock, listed, news>>
store == <<file, series>>
counters == <<cycles, deaths>>
vars == <<environment, store, proc, queue, counters, promised>>

Fields == {"market_snapshot", "filing", "news_event"}

Day(t) == t \div DayLength
InstantOfDay(t) == t % DayLength
EndOfDay(t) == Day(t) * DayLength + DayLength - 1

\* _in_session_now: the regular session of a trading day is open.
InSession(t) == SessionOpen <= InstantOfDay(t) /\ InstantOfDay(t) < SessionClose

\* A fact; seen, a history field, is the instant the collector looked.
Fact(symbol, field, id, observed, effective, seen) ==
    [symbol |-> symbol, field |-> field, id |-> id, observed |-> observed,
     effective |-> effective, seen |-> seen]

-----------------------------------------------------------------------------
(* FactStore *)

\* The number of facts of a series at or before an instant.
BisectRight(facts, t) == Cardinality({i \in DOMAIN facts : facts[i].observed <= t})

InsertedLast(facts, fact) == Append(facts, fact)  \* mutant: the series is not kept sorted
Inserted(facts, fact) ==
    InsertAt(facts, BisectRight(facts, fact.observed) + 1, fact)

\* A line is a row, a fragment of one ("torn"), a whole row without its
\* newline ("open"), or two rows run together ("glued").  Only a line that
\* ends in a newline takes no part of the next.
Unterminated(line) == line.kind \in {"torn", "open"}
Parses(line) == line.kind \in {"row", "open"}

AppendedLine(lines, fact) ==
    IF lines # <<>> /\ Unterminated(Last(lines))
    THEN Append(Front(lines), [kind |-> "glued"])
    ELSE Append(lines, [kind |-> "row", fact |-> fact])

Loads(lines) == \A i \in 1..(Len(lines) - 1) : Parses(lines[i])

\* _load: the readable rows, in the order of the file.
Loaded(lines) ==
    LET Of(l, symbol, field) == Parses(l) /\ l.fact.symbol = symbol /\ l.fact.field = field
    IN [symbol \in Symbols |-> [field \in Fields |->
            FoldLeft(LAMBDA facts, l :
                         IF Of(l, symbol, field) THEN Inserted(facts, l.fact) ELSE facts,
                     <<>>, lines)]]

\* AsOfView(t).history
History(symbol, field, t) ==
    SubSeq(series[symbol][field], 1, BisectRight(series[symbol][field], t))

Ids(facts) == {facts[i].id : i \in DOMAIN facts}

\* What a collector already has, read once before it asks.
Known(symbol, field, t) == Ids(History(symbol, field, t))

-----------------------------------------------------------------------------
(* The process *)

NoSeries == [symbol \in Symbols |-> [field \in Fields |-> <<>>]]

DownProcess == [pc |-> "down", who |-> "loop", now |-> 0, view |-> 0, todo |-> <<>>,
                pages |-> <<>>, found |-> <<>>, ciks |-> {}, refreshed |-> Null,
                collected |-> Null]

\* What is in memory goes with the process.
Ends == proc' = DownProcess /\ series' = NoSeries /\ promised' = {}

\* At a stage, everything it had to append appended.
Ready(stage) == proc.pc = stage /\ queue = <<>>

\* One process at a time, under the lock; the store is read first, and a
\* store that does not load ends the start.
Start(who) ==
    /\ proc.pc = "down"
    /\ proc' = [DownProcess EXCEPT !.pc = IF Loads(file) THEN "idle" ELSE "refused",
                                   !.who = who]
    /\ series' = IF Loads(file) THEN Loaded(file) ELSE NoSeries
    /\ promised' = {}
    /\ UNCHANGED <<environment, file, queue, counters>>

Elapsed(last, now, interval) == IF last = Null THEN TRUE ELSE now - last >= interval
Due(last, now) == Elapsed(last, now, Interval)

\* The run loop collects in session, --research-once at any time.
BeginCycle ==
    /\ Ready("idle") /\ cycles < MaxCycles
    /\ proc.who = "loop" => InSession(clock) /\ Due(proc.collected, clock)
    /\ proc' = [proc EXCEPT !.pc = "market", !.now = clock]
    /\ cycles' = cycles + 1
    /\ UNCHANGED <<environment, store, queue, deaths, promised>>

CloseOf(day) == day * DayLength + SessionClose

MostRecentCompletedSession(now) ==
    IF now >= CloseOf(Day(now)) THEN Day(now) ELSE Day(now) - 1

\* A snapshot of each symbol that has the history for it: of the session under way,
\* or, for --research-once outside of one, of the last that has closed.
CollectMarketData ==
    LET now == proc.now
        session == MostRecentCompletedSession(now)
        Snapshot(symbol) ==
            IF InSession(now)
            THEN Fact(symbol, "market_snapshot", Day(now), now, now, now)
            ELSE Fact(symbol, "market_snapshot", session, now, CloseOf(session), now)
    IN /\ Ready("market")
       /\ queue' = SetToSeq({Snapshot(symbol) : symbol \in Seasoned})
       /\ proc' = [proc EXCEPT !.pc = "tickers"]
       /\ UNCHANGED <<environment, store, counters, promised>>

\* TickerCikCache.ensure_fresh, and the view the filings are compared with.
Stale == Elapsed(proc.refreshed, proc.now, MaxAge)

\* The SEC's two pages, in the order they are asked for.
PagesOlderFirst == <<"older", "recent">>  \* mutant: the older filings first
Pages == <<"recent", "older">>

EnsureFresh ==
    /\ Ready("tickers")
    /\ proc' = [proc EXCEPT !.pc = "filings", !.view = clock, !.todo = SetToSeq(Symbols),
                            !.pages = Pages, !.found = <<>>,
                            !.ciks = IF Stale THEN Registered ELSE @,
                            !.refreshed = IF Stale THEN proc.now ELSE @]
    /\ UNCHANGED <<environment, store, queue, counters, promised>>

ListedFor(symbol) == {f \in Filings : SymbolOf[f] = symbol /\ listed[f] # Null}

\* Acceptance, or the last instant of the filing day: late, never early.
ObservedAtStartOfDay(f) ==  \* mutant: the fallback guesses midnight
    IF f \in Stamped THEN listed[f].at ELSE Day(listed[f].at) * DayLength
ObservedAt(f) == IF f \in Stamped THEN listed[f].at ELSE EndOfDay(listed[f].at)

FilingFact(f) ==
    Fact(SymbolOf[f], "filing", f, ObservedAt(f), Day(listed[f].at), proc.view)

\* Those of what was found that are not known, one of them perhaps twice.
Unknown(found, known) ==
    FoldLeft(LAMBDA kept, f : IF f \in known THEN kept ELSE Append(kept, f), <<>>, found)

\* One page of the next symbol.  After its last page, whatever of both is
\* not known is to be appended: a filing found on both, twice.
FetchPage ==
    LET symbol == Head(proc.todo)
        page == SetToSeq({f \in ListedFor(symbol) : listed[f].page = Head(proc.pages)})
        found == proc.found \o page
        unknown == Unknown(found, Known(symbol, "filing", proc.view))
    IN /\ Ready("filings") /\ proc.todo # <<>> /\ symbol \in proc.ciks
       /\ IF Len(proc.pages) > 1
          THEN /\ proc' = [proc EXCEPT !.pages = Tail(@), !.found = found]
               /\ queue' = queue
          ELSE /\ proc' = [proc EXCEPT !.pages = Pages, !.found = <<>>, !.todo = Tail(@)]
               /\ queue' = [i \in DOMAIN unknown |-> FilingFact(unknown[i])]
       /\ promised' = IF Len(proc.pages) = Len(Pages)
                      THEN promised \cup ListedFor(symbol) ELSE promised
       /\ UNCHANGED <<environment, store, counters>>

\* A symbol without a CIK is skipped, the rest of the cycle is not.
SkipSymbol ==
    /\ Ready("filings") /\ proc.todo # <<>> /\ Head(proc.todo) \notin proc.ciks
    /\ proc' = [proc EXCEPT !.todo = Tail(@)]
    /\ UNCHANGED <<environment, store, queue, counters, promised>>

FilingsCollected ==
    /\ Ready("filings") /\ proc.todo = <<>>
    /\ proc' = [proc EXCEPT !.pc = "news"]
    /\ UNCHANGED <<environment, store, queue, counters, promised>>

\* The provider's items of the window, some of them perhaps listed twice;
\* one that was known, or came earlier in the batch, is left out.
NewsFact(i) == Fact(SymbolOf[i], "news_event", i, news[i], news[i], clock)

NewItemsOfBatch(batch) ==  \* mutant: the batch is not compared with itself
    SelectSeq(batch, LAMBDA i : i \notin Known(SymbolOf[i], "news_event", clock))
NewItems(batch) ==
    FoldLeft(LAMBDA kept, i :
                 IF i \in Known(SymbolOf[i], "news_event", clock) \cup ToSet(kept)
                 THEN kept ELSE Append(kept, i),
             <<>>, batch)

CollectNews(twice) ==
    LET window == {i \in Items : news[i] # Null /\ news[i] + Lookback >= proc.now}
        items == NewItems(SetToSeq(window) \o SetToSeq(twice))
    IN /\ Ready("news") /\ twice \subseteq window
       /\ queue' = [i \in DOMAIN items |-> NewsFact(items[i])]
       /\ proc' = [proc EXCEPT !.pc = "screen"]
       /\ UNCHANGED <<environment, store, counters, promised>>

\* The collection is over: the loop goes on, --research-once ends.
EndCycle ==
    /\ Ready("screen")
    /\ IF proc.who = "loop"
       THEN /\ proc' = [DownProcess EXCEPT !.pc = "idle", !.ciks = proc.ciks,
                                            !.refreshed = proc.refreshed,
                                            !.collected = proc.now]
            /\ promised' = {}
            /\ series' = series
       ELSE Ends
    /\ UNCHANGED <<environment, file, queue, counters>>

\* A request fails for good.  It ends the run loop's process; to
\* --research-once it ends that provider's collection.
RequestFails ==
    /\ \/ proc.pc \in {"market", "news"}
       \/ proc.pc = "tickers" /\ Stale
       \/ proc.pc = "filings" /\ proc.todo # <<>> /\ Head(proc.todo) \in proc.ciks
    /\ queue = <<>>
    /\ IF proc.who = "loop" THEN Ends
       ELSE /\ proc' = [proc EXCEPT !.pc = CASE @ = "market" -> "tickers"
                                             [] @ \in {"tickers", "filings"} -> "news"
                                             [] OTHER -> "screen"]
            /\ promised' = IF proc.pc \in {"tickers", "filings"} THEN {} ELSE promised
            /\ series' = series
    /\ UNCHANGED <<environment, file, queue, counters>>

\* FactStore.append: the series first, then the line.
AppendFact ==
    LET fact == Head(queue) IN
    /\ queue # <<>>
    /\ series' = [series EXCEPT ![fact.symbol][fact.field] = Inserted(@, fact)]
    /\ file' = AppendedLine(file, fact)
    /\ queue' = Tail(queue)
    /\ UNCHANGED <<environment, proc, counters, promised>>

-----------------------------------------------------------------------------
(* What befalls it *)

\* The process dies before, or in the middle of, its next append.  Nothing
\* is synced: rows that go with the power are rows it died before.
DieAppending(kind) ==
    /\ queue # <<>> /\ deaths < MaxDeaths
    /\ file' = CASE kind = "none" -> file
                 [] file # <<>> /\ Unterminated(Last(file)) ->
                        Append(Front(file), [kind |-> "torn"])
                 [] kind = "torn" -> Append(file, [kind |-> "torn"])
                 [] OTHER -> Append(file, [kind |-> "open", fact |-> Head(queue)])
    /\ Ends
    /\ queue' = <<>>
    /\ deaths' = deaths + 1
    /\ UNCHANGED <<environment, cycles>>

Stop ==
    /\ Ready("idle")
    /\ Ends
    /\ UNCHANGED <<environment, file, queue, counters>>

\* Bound: the world moves between collections and between the requests for
\* filings, not between two appends of a batch.
WorldMoves == Ready("down") \/ Ready("idle") \/ Ready("filings")

Tick ==
    /\ clock < MaxTime /\ WorldMoves
    /\ clock' = clock + 1
    /\ UNCHANGED <<listed, news, store, proc, queue, counters, promised>>

SecAccepts(f) ==
    /\ listed[f] = Null /\ WorldMoves
    /\ listed' = [listed EXCEPT ![f] = [at |-> clock, page |-> "recent"]]
    /\ UNCHANGED <<clock, news, store, proc, queue, counters, promised>>

SecMoves(f) ==
    /\ listed[f] # Null /\ listed[f].page = "recent" /\ WorldMoves
    /\ listed' = [listed EXCEPT ![f].page = "older"]
    /\ UNCHANGED <<clock, news, store, proc, queue, counters, promised>>

\* A provider may date an item a little ahead.
Publish(i) ==
    /\ news[i] = Null /\ WorldMoves
    /\ news' = [news EXCEPT ![i] = IF i \in Ahead THEN clock + 1 ELSE clock]
    /\ UNCHANGED <<clock, listed, store, proc, queue, counters, promised>>

-----------------------------------------------------------------------------
Init ==
    /\ clock = DayLength  \* a day has passed: there is a session to look back on
    /\ listed = [f \in Filings |-> Null]
    /\ news = [i \in Items |-> Null]
    /\ file = <<>>
    /\ series = NoSeries
    /\ proc = DownProcess
    /\ queue = <<>>
    /\ cycles = 0 /\ deaths = 0
    /\ promised = {}

Next ==
    \/ \E who \in {"loop", "once"} : Start(who)
    \/ BeginCycle
    \/ CollectMarketData
    \/ EnsureFresh
    \/ FetchPage
    \/ SkipSymbol
    \/ FilingsCollected
    \/ \E twice \in SUBSET Items : CollectNews(twice)
    \/ EndCycle
    \/ RequestFails
    \/ AppendFact
    \/ \E kind \in {"none", "torn", "open"} : DieAppending(kind)
    \/ Stop
    \/ Tick
    \/ \E f \in Filings : SecAccepts(f)
    \/ \E f \in Filings : SecMoves(f)
    \/ \E i \in Items : Publish(i)

Spec == Init /\ [][Next]_vars

-----------------------------------------------------------------------------
\* No look-ahead: what as_of(t) shows had become public at t, whenever it is
\* asked and however late the collector came by it: the filing had been
\* accepted, the item published, the session it describes had closed or is
\* the one t is in; and nothing collected and public by then is later than
\* the fact it shows last.
\* (store.py:59-86, edgar_collector.py:173-180, market_data_collector.py:345)
Public(fact, t) ==
    CASE fact.field = "filing" -> listed[fact.id].at <= t
      [] fact.field = "news_event" -> news[fact.id] <= t
      [] OTHER -> fact.effective <= t /\ (CloseOf(fact.id) <= t \/ InSession(fact.observed))

NoLookAhead ==
    \A symbol \in Symbols, field \in Fields, t \in 0..clock :
        LET shown == History(symbol, field, t)
            all == series[symbol][field]
        IN /\ \A i \in DOMAIN shown : Public(shown[i], t)
           /\ \A i \in DOMAIN all :
                  all[i].observed <= t => /\ shown # <<>>
                                          /\ all[i].observed <= Last(shown).observed

\* A collection of filings that was not cut short misses none of those the
\* SEC listed when it began with their filer, though the SEC moves filings
\* from one page to the other between its requests.
\* (edgar.py:356-371, edgar_collector.py:204-229)
Held(symbol) == Ids(series[symbol]["filing"])
NothingIsMissed ==
    Ready("news") \/ Ready("screen") =>
        \A f \in promised : f \in Held(SymbolOf[f])

\* Of a filing or an item collected twice, the first copy was dated ahead of
\* the instant the second was looked for, or the SEC showed it on both of
\* its pages in one collection; nothing else repeats a fact, a restart, a
\* torn row or a lost one included.
\* (edgar_collector.py:210-214, news_collector.py:125-129)
RepeatsHaveACause ==
    \A symbol \in Symbols, field \in {"filing", "news_event"} :
        LET facts == series[symbol][field] IN
        \A i, j \in DOMAIN facts :
            i # j /\ facts[i].id = facts[j].id /\ facts[i].seen <= facts[j].seen =>
                \/ facts[i].observed > facts[j].seen
                \/ field = "filing" /\ facts[i].seen = facts[j].seen

\* A filing that one collection has stored is not stored by another.  The
\* collector says it looks for a filing's accession number first "rather
\* than growing the store forever with one identical row per collection
\* cycle" (edgar_collector.py:64-66); a filing without an acceptance time is
\* dated at the end of its day, is not seen by the look, and is appended by
\* every collection of that day.
StoredByOneCollection ==
    \A symbol \in Symbols :
        LET facts == series[symbol]["filing"] IN
        \A i, j \in DOMAIN facts :
            facts[i].id = facts[j].id => facts[i].seen = facts[j].seen

\* A store that only this code has written loads.  Of an unreadable row
\* that is not the last the code says it "cannot be explained as an unclean
\* shutdown" (store.py:204-212); a row appended after a torn one is joined
\* to it, and the row after that makes it one.
UneditedStoreLoads == proc.pc # "refused"

-----------------------------------------------------------------------------
(* What these rest on *)

Facts == [symbol : Symbols, field : Fields, id : Filings \cup Items \cup Int,
          observed : Nat, effective : Int, seen : Nat]
Lines == [kind : {"torn", "glued"}] \cup [kind : {"row", "open"}, fact : Facts]
Processes ==
    [pc : {"down", "refused", "idle", "market", "tickers", "filings", "news", "screen"},
     who : {"loop", "once"}, now : Nat, view : Nat, todo : Seq(Symbols),
     pages : Seq(PageNames), found : Seq(Filings), ciks : SUBSET Symbols,
     refreshed : Nat \cup {Null}, collected : Nat \cup {Null}]

TypeOK ==
    /\ clock \in Nat
    /\ listed \in [Filings -> Listings \cup {Null}]
    /\ news \in [Items -> Nat \cup {Null}]
    /\ file \in Seq(Lines)
    /\ series \in [Symbols -> [Fields -> Seq(Facts)]]
    /\ proc \in Processes
    /\ queue \in Seq(Facts)
    /\ cycles \in Nat /\ deaths \in Nat
    /\ promised \subseteq Filings

\* A fact is of what its provider has listed, and was public when it says.
Genuine(fact) ==
    /\ fact.field = "filing" =>
           /\ fact.id \in Filings /\ SymbolOf[fact.id] = fact.symbol
           /\ listed[fact.id] # Null /\ fact.observed = ObservedAt(fact.id)
    /\ fact.field = "news_event" =>
           /\ fact.id \in Items /\ SymbolOf[fact.id] = fact.symbol
           /\ news[fact.id] # Null /\ fact.observed = news[fact.id]
    /\ fact.field = "market_snapshot" =>
           /\ fact.id \in Int /\ fact.effective <= fact.observed
           /\ CloseOf(fact.id) <= fact.observed \/ InSession(fact.observed)

Rows == {i \in DOMAIN file : Parses(file[i])}
RowFacts == {file[i].fact : i \in Rows}

\* What is stored, or about to be, was collected, and by now.
FactsAreGenuine ==
    /\ \A symbol \in Symbols, field \in Fields :
           \A fact \in ToSet(series[symbol][field]) :
               fact.symbol = symbol /\ fact.field = field /\ Genuine(fact) /\ fact.seen <= clock
    /\ \A fact \in RowFacts \cup ToSet(queue) : Genuine(fact) /\ fact.seen <= clock

InOrder(facts) ==
    \A i, j \in DOMAIN facts : i <= j => facts[i].observed <= facts[j].observed
SeriesAreSorted == \A symbol \in Symbols, field \in Fields : InOrder(series[symbol][field])

\* Where a collection of filings stands: its pages, and what it still owes.
Queued(f) == \E fact \in ToSet(queue) : fact.field = "filing" /\ fact.id = f
Expected(f) ==
    /\ proc.pc = "filings" /\ proc.pages # Pages /\ SymbolOf[f] = Head(proc.todo)
    /\ f \in ToSet(proc.found) \/ listed[f].page = "older"

CollectionStands ==
    /\ proc.pc \notin {"filings", "news", "screen"} => promised = {}
    /\ \A f \in promised : listed[f] # Null /\ (f \in Held(SymbolOf[f]) \/ Queued(f) \/ Expected(f))
    /\ proc.pc \in {"down", "refused", "idle"} => queue = <<>>
    /\ proc.now <= clock /\ proc.view <= clock
    /\ proc.pc = "filings" =>
           /\ \/ proc.pages = Pages /\ proc.found = <<>>
              \/ /\ proc.pages = <<"older">> /\ proc.todo # <<>> /\ queue = <<>>
                 /\ Head(proc.todo) \in proc.ciks
           /\ \A f \in ToSet(proc.found) : listed[f] # Null /\ SymbolOf[f] = Head(proc.todo)
           /\ \A symbol \in Symbols : \A fact \in ToSet(series[symbol]["filing"]) :
                  fact.seen <= proc.view
           /\ \A fact \in ToSet(queue) : fact.field = "filing" => fact.seen = proc.view

\* One fact repeats another with a cause, wherever the two are.
Caused(fact, other) ==
    (/\ fact.field \in {"filing", "news_event"}
     /\ fact.field = other.field /\ fact.id = other.id /\ fact.seen <= other.seen) =>
        \/ fact.observed > other.seen
        \/ fact.field = "filing" /\ fact.seen = other.seen

RepeatsAreCaused ==
    /\ \A symbol \in Symbols, field \in Fields :
           \A i, j \in DOMAIN series[symbol][field] :
               i # j => Caused(series[symbol][field][i], series[symbol][field][j])
    /\ \A i, j \in Rows : i # j => Caused(file[i].fact, file[j].fact)
    /\ \A i, j \in DOMAIN queue : i # j => Caused(queue[i], queue[j])
    /\ \A fact \in ToSet(queue), symbol \in Symbols, field \in Fields :
           \A other \in ToSet(series[symbol][field]) :
               Caused(fact, other) /\ Caused(other, fact)

\* While a process runs, whatever row can be read is in memory.
RowsAreInMemory ==
    proc.pc \notin {"down", "refused"} =>
        \A fact \in RowFacts : fact \in ToSet(series[fact.symbol][fact.field])

IInv ==
    /\ TypeOK /\ FactsAreGenuine /\ SeriesAreSorted /\ CollectionStands
    /\ RepeatsAreCaused /\ RowsAreInMemory
=============================================================================
