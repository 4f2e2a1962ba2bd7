----------------------------- MODULE BrokerFeed -----------------------------
(***************************************************************************)
(* How a cycle of the run loop reads the broker (agent/broker/alpaca.py,   *)
(* agent/run_loop.py): first the fills, page by page, then the other       *)
(* account activities, page by page, each stored before the next is asked  *)
(* for, and only then the account, the positions and the open orders.      *)
(*                                                                         *)
(* The broker goes on listing activities while the pages are being asked   *)
(* for, some of them dated before ones already listed.  A request that     *)
(* fails in transport is retried, one that fails otherwise is not, and a   *)
(* request that fails for good ends the process, which is relaunched.  The *)
(* keys the process was given may be another account's: only the answer to *)
(* GET /v2/account says whose they are.                                    *)
(*                                                                         *)
(* What is read is stored element by element, and one element can stop     *)
(* that: an element that cannot be read, a fill without a usable filled_at *)
(* and an admission that record_fill refuses raise, in this cycle and in   *)
(* every later one, before whatever comes after them.                      *)
(***************************************************************************)
EXTENDS Naturals, FiniteSets, Sequences, SequencesExt

CONSTANTS
    Ours,        \* activities of the pinned account
    Theirs,      \* activities of another account of the operator's
    Fills,       \* the activities that are fills
    OrderOf,     \* the order of each fill
    Malformed,   \* activities whose element lacks a field, or holds a malformed one
    Untimed,     \* fills with an empty transaction_time, or one no clock will reach
    PageSize,
    MaxRetries,  \* http_max_retries
    MaxFaults,   \* bound: requests that fail, deaths
    None

Activities == Ours \cup Theirs
Accounts == {"ours", "theirs"}
Endpoints == {"fills", "activities"}

ASSUME ActivitiesAssumption ==
    /\ Ours \cap Theirs = {} /\ Fills \subseteq Activities /\ None \notin Activities
    /\ Malformed \subseteq Activities /\ Untimed \subseteq Fills
ASSUME NumbersAssumption ==
    PageSize \in Nat \ {0} /\ MaxRetries \in Nat /\ MaxFaults \in Nat

VARIABLES
    feed,      \* what the broker lists of each account, by endpoint, oldest first
    keys,      \* whose account the credentials open
    proc,      \* the process: where it stands in its cycle
    local,     \* the activities stored, in ledger or quarantine, in order
    standing,  \* what the operator decided about each stored fill, and what came of it
    elapsed,   \* the fills whose filled_at the loop's clock has passed
    faults,
    begun      \* history: what was listed when the last call of the cycle began

books == <<local, standing>>
vars == <<feed, keys, proc, books, elapsed, faults, begun>>

\* No decision yet; admitted, and record_fill would take it or refuse it as the
\* ledger stands; booked or rejected, and never looked at again.
Standings == {"pending", "admitted", "refused", "closed"}

Down == [pc |-> "down", now |-> {}, got |-> <<>>, token |-> None, tries |-> 0, orders |-> {}]
\* A cycle reads the clock once, when it begins.
Begun == [Down EXCEPT !.pc = "fills", !.now = elapsed]

\* What an endpoint lists for these keys: fills alone, or every activity.
Listed(endpoint) == feed[keys][endpoint]

\* An exception nothing catches, or a death.
Ends == proc' = Down /\ begun' = {}

-----------------------------------------------------------------------------
(* One request *)

Requesting ==
    \/ proc.pc \in {"fills", "activities", "account", "positions", "open_orders"}
    \/ proc.pc = "lookup" /\ proc.orders # {}

\* _request: a transport error is tried again, MaxRetries times at most.
Retry ==
    /\ Requesting /\ faults < MaxFaults /\ proc.tries < MaxRetries
    /\ proc' = [proc EXCEPT !.tries = @ + 1]
    /\ faults' = faults + 1
    /\ UNCHANGED <<feed, keys, books, elapsed, begun>>

\* The last try fails, or the answer is an error or has another shape: the
\* call raises, nothing catches it and the process ends.
RequestFails ==
    /\ Requesting /\ faults < MaxFaults
    /\ Ends
    /\ faults' = faults + 1
    /\ UNCHANGED <<feed, keys, books, elapsed>>

Answered(next) == [next EXCEPT !.tries = 0]

-----------------------------------------------------------------------------
(* One cycle *)

Start ==
    /\ proc.pc = "down"
    /\ proc' = Begun
    /\ UNCHANGED <<feed, keys, books, elapsed, faults, begun>>

\* The page after the last activity received; the first page without a token.
PageFrom(list, from) ==
    SubSeq(list, from + 1, IF from + PageSize < Len(list) THEN from + PageSize ELSE Len(list))
PageByOffset(list, token, got) ==  \* mutant: the cursor is a count
    PageFrom(list, Len(got))
PageAfter(list, token, got) ==
    PageFrom(list, IF token = None THEN 0 ELSE CHOOSE i \in DOMAIN list : list[i] = token)

\* fills() and non_fill_activities(): a page that is not full is the last.
FetchPage(endpoint, then) ==
    LET list == Listed(endpoint)
        page == PageAfter(list, proc.token, proc.got)
        got == proc.got \o page
    IN /\ proc.pc = endpoint
       /\ begun' = IF proc.token = None THEN ToSet(list) ELSE begun
       /\ proc' = Answered(
              IF Len(page) = PageSize
              THEN [proc EXCEPT !.got = got, !.token = Last(got)]
              ELSE [proc EXCEPT !.got = got, !.token = None, !.pc = then,
                                !.orders = {OrderOf[a] : a \in ToSet(got) \cap Fills}])
       /\ UNCHANGED <<feed, keys, books, elapsed, faults>>

\* Each order of the fills is asked once for its client order id.
LookUp(o) ==
    /\ proc.pc = "lookup" /\ o \in proc.orders
    /\ proc' = Answered([proc EXCEPT !.orders = @ \ {o}])
    /\ UNCHANGED <<feed, keys, books, elapsed, faults, begun>>

LookedUp ==
    /\ proc.pc = "lookup" /\ proc.orders = {}
    /\ proc' = [proc EXCEPT !.pc = "store_fills"]
    /\ UNCHANGED <<feed, keys, books, elapsed, faults, begun>>

\* The whole list is turned into executions, or activities, before the first is
\* looked at; the general endpoint's fills are dropped from it first.
Unreadable(stage) ==
    \E a \in ToSet(proc.got) \cap Malformed : stage = "store_cash" => a \notin Fills

ReadRefused(stage) ==
    /\ proc.pc = stage /\ Unreadable(stage)
    /\ Ends
    /\ UNCHANGED <<feed, keys, books, elapsed, faults>>

\* sync_fills and sync_cash_events: what is stored already is passed over.
KnownByPosition(a) ==  \* mutant: what is listed before a stored one is taken as stored
    LET list == Listed("activities") IN
    \E i, j \in DOMAIN list : i <= j /\ list[i] = a /\ list[j] \in ToSet(local)
Known(a) == a \in ToSet(local)
StoredWith(a) == IF Known(a) THEN local ELSE Append(local, a)

\* A fill is booked: what record_fill says of the other admissions may change,
\* since it looks at the lots bought so far and at what is left of them.
Booked(a) ==
    /\ standing[a] = "admitted"
    /\ \E answer \in [Fills -> {"admitted", "refused"}] :
           standing' = [f \in Fills |-> IF f = a THEN "closed"
                                        ELSE IF standing[f] \in {"admitted", "refused"}
                                             THEN answer[f] ELSE standing[f]]

\* The next fill: quarantined if it is new, booked if it was admitted.
SyncFill(a) ==
    /\ proc.pc = "store_fills" /\ ~Unreadable("store_fills")
    /\ proc.got # <<>> /\ a = Head(proc.got)
    /\ Known(a) \/ a \in proc.now
    /\ local' = StoredWith(a)
    /\ \/ Booked(a)
       \/ standing[a] \in {"pending", "closed"} /\ standing' = standing
    /\ proc' = [proc EXCEPT !.got = Tail(@)]
    /\ UNCHANGED <<feed, keys, elapsed, faults, begun>>

\* No filled_at, one ahead of the cycle's clock, or an admission record_fill
\* refuses: sync_fills raises, nothing catches it and the process ends.
FillRefused(a) ==
    /\ proc.pc = "store_fills" /\ ~Unreadable("store_fills")
    /\ proc.got # <<>> /\ a = Head(proc.got)
    /\ (~Known(a) /\ a \notin proc.now) \/ standing[a] = "refused"
    /\ Ends
    /\ UNCHANGED <<feed, keys, books, elapsed, faults>>

\* The next cash event; an activity that is a fill is not one.
SyncCash(a) ==
    /\ proc.pc = "store_cash" /\ ~Unreadable("store_cash")
    /\ proc.got # <<>> /\ a = Head(proc.got)
    /\ local' = IF a \in Fills THEN local ELSE StoredWith(a)
    /\ proc' = [proc EXCEPT !.got = Tail(@)]
    /\ UNCHANGED <<feed, keys, standing, elapsed, faults, begun>>

Stored(stage, then) ==
    /\ proc.pc = stage /\ proc.got = <<>>
    /\ proc' = [proc EXCEPT !.pc = then, !.now = {}]
    /\ UNCHANGED <<feed, keys, books, elapsed, faults, begun>>

\* account(): the id the broker reports is compared with the pinned one.
IsPinned == keys = "ours"

ReadAccount ==
    /\ proc.pc = "account"
    /\ \/ IsPinned /\ proc' = Answered([proc EXCEPT !.pc = "positions"]) /\ begun' = {}
       \/ ~IsPinned /\ Ends
    /\ UNCHANGED <<feed, keys, books, elapsed, faults>>

ReadPositions ==
    /\ proc.pc = "positions"
    /\ proc' = Answered([proc EXCEPT !.pc = "open_orders"])
    /\ UNCHANGED <<feed, keys, books, elapsed, faults, begun>>

ReadOpenOrders ==
    /\ proc.pc = "open_orders"
    /\ proc' = Answered([proc EXCEPT !.pc = "reconciled"])
    /\ UNCHANGED <<feed, keys, books, elapsed, faults, begun>>

NextCycle ==
    /\ proc.pc = "reconciled"
    /\ proc' = Begun
    /\ UNCHANGED <<feed, keys, books, elapsed, faults, begun>>

-----------------------------------------------------------------------------
(* What befalls it *)

Die ==
    /\ proc.pc # "down" /\ faults < MaxFaults
    /\ Ends
    /\ faults' = faults + 1
    /\ UNCHANGED <<feed, keys, books, elapsed>>

\* The operator gives a stopped process its keys.
ChangeKeys(k) ==
    /\ proc.pc = "down" /\ keys # k
    /\ keys' = k
    /\ UNCHANGED <<feed, proc, books, elapsed, faults, begun>>

\* --admit-execution and --reject-execution of a quarantined fill, which need the
\* lock the process holds; nothing asks whether record_fill will take it.
Decide(a, decision) ==
    /\ proc.pc = "down" /\ a \in ToSet(local)
    /\ standing[a] = "pending" /\ decision # "pending"
    /\ standing' = [standing EXCEPT ![a] = decision]
    /\ UNCHANGED <<feed, keys, proc, local, elapsed, faults, begun>>

\* The loop's clock passes the instant the broker gives for a fill, perhaps
\* before it is listed and perhaps, the clocks being two, some time after.
ClockPasses(a) ==
    /\ a \notin elapsed \cup Untimed
    /\ elapsed' = elapsed \cup {a}
    /\ UNCHANGED <<feed, keys, proc, books, faults, begun>>

\* An activity is listed: a fill last, another one perhaps under an earlier date.
List(a) ==
    LET account == IF a \in Ours THEN "ours" ELSE "theirs"
        list == feed[account]["activities"]
    IN /\ a \notin ToSet(list)
       /\ \E at \in IF a \in Fills THEN {Len(list) + 1} ELSE 1..(Len(list) + 1) :
              feed' = [feed EXCEPT
                  ![account]["fills"] = IF a \in Fills THEN Append(@, a) ELSE @,
                  ![account]["activities"] = InsertAt(@, at, a)]
       /\ UNCHANGED <<keys, proc, books, elapsed, faults, begun>>

-----------------------------------------------------------------------------
Init ==
    /\ feed = [account \in Accounts |-> [endpoint \in Endpoints |-> <<>>]]
    /\ keys \in Accounts
    /\ proc = Down
    /\ local = <<>>
    /\ standing = [a \in Fills |-> "pending"]
    /\ elapsed = {}
    /\ faults = 0
    /\ begun = {}

Cycle ==
    \/ Start
    \/ FetchPage("fills", "lookup")
    \/ \E o \in proc.orders : LookUp(o)
    \/ LookedUp
    \/ \E stage \in {"store_fills", "store_cash"} : ReadRefused(stage)
    \/ \E a \in Fills : SyncFill(a) \/ FillRefused(a)
    \/ Stored("store_fills", "activities")
    \/ FetchPage("activities", "store_cash")
    \/ \E a \in Activities : SyncCash(a)
    \/ Stored("store_cash", "account")
    \/ ReadAccount
    \/ ReadPositions
    \/ ReadOpenOrders
    \/ NextCycle

Next ==
    \/ Cycle
    \/ Retry
    \/ RequestFails
    \/ Die
    \/ \E k \in Accounts : ChangeKeys(k)
    \/ \E a \in Fills, decision \in Standings : Decide(a, decision)
    \/ \E a \in Fills : ClockPasses(a)
    \/ \E a \in Activities : List(a)

Spec == Init /\ [][Next]_vars

\* A request has a timeout, launchd relaunches the process, and faults end; time goes on.
FairSpec == Spec /\ WF_vars(Cycle) /\ WF_vars(\E a \in Fills : ClockPasses(a))

-----------------------------------------------------------------------------
\* A completed call returned all that was listed when it began, each once,
\* whatever was listed between its pages and wherever: the cursor is the
\* last activity received, not a count of them.
\* (alpaca.py:934-957, 1008-1031)
Wanted == IF proc.pc \in {"store_cash", "account"} THEN begun \ Fills ELSE begun
WholeFeedIsRead ==
    proc.pc \in {"lookup", "store_fills", "store_cash", "account"} =>
        /\ Wanted \subseteq ToSet(proc.got) \cup ToSet(local)
        /\ \A i, j \in DOMAIN proc.got : proc.got[i] = proc.got[j] => i = j

\* What comes before an activity in the order a cycle reads and stores them, and
\* ends the cycle there, this one and every later one.
Precedes(f, a) ==
    LET list == feed["ours"]["fills"] IN
    a \in Fills => \E i, j \in DOMAIN list : i <= j /\ list[i] = f /\ list[j] = a
Stops(f) == f \in Untimed \/ standing[f] = "refused"
InTheWay(a) ==
    \/ \E f \in ToSet(feed["ours"]["activities"]) \cap Malformed : f \in Fills \/ a \notin Fills
    \/ \E f \in ToSet(feed["ours"]["fills"]) : Stops(f) /\ Precedes(f, a)

\* Whatever the broker lists and the code can take is stored in the end, though
\* any request may fail, the process may die between two rows and the call
\* starts over, a fill may be ahead of the loop's clock and an admission may be
\* refused for a while: unless the process is given the keys of another account
\* again and again, or again and again something stands before it that ends the
\* cycle.
\* (alpaca.py:613-652, fill_sync.py:174-227, run_loop.py:417-438)
EveryActivityIsStored ==
    \A a \in Ours \ (Malformed \cup Untimed) :
        <>[](keys = "ours" /\ ~InTheWay(a)) =>
            (a \in ToSet(feed["ours"]["activities"]) ~> a \in ToSet(local))

\* Nothing of another account is stored.  Of the pinned id the adapter says
\* that "nothing downstream ever sees broker state from an account this
\* adapter was not actually pinned to" (alpaca.py:416-419); a cycle reads
\* and stores fills and cash events before it first asks for the account.
NothingForeignIsStored == ToSet(local) \cap Theirs = {}

-----------------------------------------------------------------------------
(* What reading the whole feed rests on *)

Processes ==
    [now : SUBSET Fills,
     pc : Endpoints \cup {"down", "lookup", "store_fills", "store_cash", "account",
                          "positions", "open_orders", "reconciled"},
     got : Seq(Activities), token : Activities \cup {None}, tries : Nat,
     orders : SUBSET {OrderOf[a] : a \in Fills}]

TypeOK ==
    /\ feed \in [Accounts -> [Endpoints -> Seq(Activities)]]
    /\ keys \in Accounts
    /\ proc \in Processes
    /\ local \in Seq(Activities) /\ begun \subseteq Activities
    /\ standing \in [Fills -> Standings] /\ elapsed \subseteq Fills

\* An activity is listed once, and a fill by both endpoints.
ListedOnce ==
    \A account \in Accounts :
        /\ \A endpoint \in Endpoints : IsInjective(feed[account][endpoint])
        /\ ToSet(feed[account]["fills"]) \subseteq ToSet(feed[account]["activities"])

\* Between two pages: the cursor is the last activity received, and of what
\* was listed when the call began all that is now before it has been received.
ReadUpTo(list, p) ==
    /\ p \in DOMAIN list /\ list[p] = proc.token
    /\ \A j \in 1..p : list[j] \in begun => list[j] \in ToSet(proc.got)
    /\ \A a \in ToSet(proc.got) : \E j \in 1..p : a = list[j]

PagesAreRead ==
    /\ proc.token # None => proc.pc \in Endpoints
    /\ proc.pc \in Endpoints =>
           /\ IsInjective(proc.got)
           /\ proc.token = None => proc.got = <<>>
           /\ proc.token # None =>
                  /\ begun \subseteq ToSet(Listed(proc.pc))
                  /\ \E p \in DOMAIN Listed(proc.pc) : ReadUpTo(Listed(proc.pc), p)

IInv == TypeOK /\ ListedOnce /\ PagesAreRead /\ WholeFeedIsRead
=============================================================================
