------------------------------ MODULE BookFiles ------------------------------
(***************************************************************************)
(* The three files of the books as files: ledger.jsonl                     *)
(* (agent/ledger_store.py), quarantine.jsonl and cash_quarantine.jsonl     *)
(* (agent/execution_quarantine.py, agent/cash_event_quarantine.py), who    *)
(* appends to them, and what a later start makes of their rows.            *)
(*                                                                         *)
(* The run loop rebuilds its stores from the files in every cycle, under   *)
(* the process lock; the operator's one-shot commands resolve quarantined  *)
(* events under the same lock; scripts/repair_settled_cash_baseline.py     *)
(* reads the ledger without the lock and takes it for its one write.  Any  *)
(* writer may die in the middle of a row, and no store reads past half a   *)
(* row.                                                                    *)
(*                                                                         *)
(* A ledger may be as the incident of account_wiring.py left it: seeded    *)
(* with the broker's figure while executions in that figure were still in  *)
(* quarantine.  The broker stands still during a cycle, and there are no   *)
(* sales and no positions: LedgerSync is about those.                      *)
(***************************************************************************)
EXTENDS Integers, Sequences, SequencesExt, FiniteSetsExt

CONSTANTS
    Executions,  \* BUYs, none of them staged by this system
    Activities,  \* cash activities
    CatFees,     \* the activities the auto-admit pattern takes
    Amount,      \* what each event does to cash
    Funds,       \* cash before the first event
    DayLength,   \* instants of a day
    Runs,        \* runs of the repair script
    MaxTime,     \* bound: the last instant
    MaxDeaths,   \* bound: deaths
    None

Events == Executions \cup Activities

ASSUME EventsAssumption ==
    /\ Executions \cap Activities = {} /\ CatFees \subseteq Activities
    /\ IsFiniteSet(Events) /\ Amount \in [Events -> Int] /\ Funds \in Nat
ASSUME NumbersAssumption ==
    DayLength \in Nat \ {0} /\ MaxTime \in Nat /\ MaxDeaths \in Nat
ASSUME NoneAssumption ==
    None \notin Nat /\ None \notin [kind : {"opening"}, amount : Int, at : Nat]

VARIABLES
    clock,
    when,        \* when each event happened at the broker, None before
    ledger,      \* ledger.jsonl
    quarantine,  \* the quarantine file of executions, and that of activities
    loop,        \* the run loop: where it is, its clock, its stores; it has the lock unless down
    repair,      \* each run of the repair script, the row it means to append, what it read
    deaths,
    seeded       \* history: how the opening balance was arrived at

files == <<ledger, quarantine>>
vars == <<clock, when, files, loop, repair, deaths, seeded>>

FileOf(e) == IF e \in Executions THEN "executions" ELSE "activities"
Happened == {e \in Events : when[e] # None}
Total(events) == MapThenSumSet(LAMBDA e : Amount[e], events)
BrokerCash == Funds + Total(Happened)

-----------------------------------------------------------------------------
(* Rows and what they load as *)

Torn == [kind |-> "torn"]
Opening(amount, at) == [kind |-> "opening", amount |-> amount, at |-> at]
Entry(e) == [kind |-> "entry", event |-> e]      \* a fill or a cash_adjustment
Correction(amount, at, run) ==
    [kind |-> "correction", amount |-> amount, at |-> at, run |-> run]
Quarantined(e) == [kind |-> "quarantined", event |-> e]
Resolution(e, decision, at) ==
    [kind |-> "resolution", event |-> e, decision |-> decision, at |-> at]

\* A row appended to half a row is part of it.
AppendRow(rows, row) ==
    IF rows # <<>> /\ Last(rows) = Torn THEN rows ELSE Append(rows, row)

OfKind(rows, kind) == {row \in ToSet(rows) : row.kind = kind}
Places(rows, kind) == {i \in DOMAIN rows : rows[i].kind = kind}

\* The correction_id is made of the instant corrected and the amount, so two
\* corrections have the same id, and other contents, if only their run differs.
SameId(c, d) == c.at = d.at /\ c.amount = d.amount

\* LedgerStore._load_into, through Ledger.record_*.
LedgerLoads(rows) ==
    LET corrections == OfKind(rows, "correction") IN
    /\ Torn \notin ToSet(rows)
    /\ \A c, d \in corrections : SameId(c, d) => c = d

LedgerOf(rows) ==
    LET openings == Places(rows, "opening") IN
    [opening |-> IF openings = {} THEN None ELSE rows[Max(openings)],
     entries |-> {row.event : row \in OfKind(rows, "entry")},
     corrections |-> OfKind(rows, "correction")]

Corrected(store) == MapThenSumSet(LAMBDA c : c.amount, store.corrections)
Cash(store) == store.opening.amount + Total(store.entries) + Corrected(store)

\* _load_into of the two quarantines: a resolution of nothing, or a second
\* and different one, is refused.
QuarantineLoads(rows) ==
    /\ Torn \notin ToSet(rows)
    /\ \A i \in DOMAIN rows : rows[i].kind = "resolution" =>
           /\ Quarantined(rows[i].event) \in ToSet(SubSeq(rows, 1, i))
           /\ \A j \in DOMAIN rows :
                  rows[j].kind = "resolution" /\ rows[j].event = rows[i].event
                      => rows[j] = rows[i]

Seen(rows) == {row.event : row \in OfKind(rows, "quarantined")}
Resolved(rows) == {row.event : row \in OfKind(rows, "resolution")}
Admitted(rows) ==
    {row.event : row \in {r \in OfKind(rows, "resolution") : r.decision = "ADMITTED"}}
Pending(rows) == Seen(rows) \ Resolved(rows)

-----------------------------------------------------------------------------
(* The run loop *)

Down == [pc |-> "down", now |-> 0, store |-> LedgerOf(<<>>)]

Unlocked == loop.pc = "down"

\* run_agent takes the lock; a cycle reads the clock and rebuilds its
\* stores, and one that does not load ends the process.
BeginCycle ==
    /\ loop.pc \in {"down", "idle"}
    /\ loop' = IF LedgerLoads(ledger) /\ QuarantineLoads(quarantine["executions"])
                    /\ QuarantineLoads(quarantine["activities"])
               THEN [pc |-> "fills", now |-> clock, store |-> LedgerOf(ledger)]
               ELSE Down
    /\ UNCHANGED <<clock, when, files, repair, deaths, seeded>>

\* refuse_admission_reason, negated.
MayBeAdmitted(e, opening) == opening # None => when[e] > opening.at

\* What sync_fills and sync_cash_events do with an event they have no entry for.
IsBooked(e) ==
    \/ e \in Admitted(quarantine[FileOf(e)])
    \/ /\ e \in CatFees /\ e \notin Seen(quarantine[FileOf(e)])
       /\ MayBeAdmitted(e, loop.store.opening)
IsQuarantined(e) == e \notin Seen(quarantine[FileOf(e)]) /\ ~IsBooked(e)

ToDo(events) ==
    {e \in events \cap Happened : e \notin loop.store.entries /\ (IsBooked(e) \/ IsQuarantined(e))}
Foremost(events) == {e \in ToDo(events) : \A d \in ToDo(events) : when[e] <= when[d]}

\* write_fill and write_cash_adjustment: the store's own Ledger, then the row.
Book(pc, events) ==
    \E e \in Foremost(events) :
        /\ loop.pc = pc /\ IsBooked(e)
        /\ loop' = [loop EXCEPT !.store.entries = @ \cup {e}]
        /\ ledger' = AppendRow(ledger, Entry(e))
        /\ UNCHANGED <<clock, when, quarantine, repair, deaths, seeded>>

Quarantine(pc, events) ==
    \E e \in Foremost(events) :
        /\ loop.pc = pc /\ IsQuarantined(e)
        /\ quarantine' = [quarantine EXCEPT ![FileOf(e)] = AppendRow(@, Quarantined(e))]
        /\ UNCHANGED <<clock, when, ledger, loop, repair, deaths, seeded>>

Synced(pc, events, then) ==
    /\ loop.pc = pc /\ ToDo(events) = {}
    /\ loop' = [loop EXCEPT !.pc = then]
    /\ UNCHANGED <<clock, when, files, repair, deaths, seeded>>

\* build_account_reconciliation: nothing is seeded over a pending execution,
\* and a ledger that has no opening balance ends the process.
SeedDeferred ==
    /\ loop.pc = "seed" /\ loop.store.opening = None
    /\ Pending(quarantine["executions"]) # {}
    /\ loop' = Down
    /\ UNCHANGED <<clock, when, files, repair, deaths, seeded>>

\* Backdated if there are fills, the broker's own figure if there are none.
SeedFigure ==
    IF loop.store.entries \cap Executions = {} THEN BrokerCash
    ELSE BrokerCash - Total(loop.store.entries)

Seed ==
    LET opening == Opening(SeedFigure, loop.now) IN
    /\ loop.pc = "seed" /\ loop.store.opening = None
    /\ Pending(quarantine["executions"]) = {}
    /\ loop' = [loop EXCEPT !.store.opening = opening, !.pc = "compare"]
    /\ ledger' = AppendRow(ledger, opening)
    /\ seeded' = IF loop.store.entries \cap Executions = {} THEN "verbatim" ELSE "backdated"
    /\ UNCHANGED <<clock, when, quarantine, repair, deaths>>

AlreadySeeded ==
    /\ loop.pc = "seed" /\ loop.store.opening # None
    /\ loop' = [loop EXCEPT !.pc = "compare"]
    /\ UNCHANGED <<clock, when, files, repair, deaths, seeded>>

\* A mismatch pauses, an agreement lets the cycle go on: the loop lives.
Compare ==
    /\ loop.pc = "compare"
    /\ loop' = [loop EXCEPT !.pc = "idle"]
    /\ UNCHANGED <<clock, when, files, repair, deaths, seeded>>

InHand == CASE loop.pc = "fills" -> Executions
            [] loop.pc = "activities" -> Activities
            [] OTHER -> {}

\* The process dies between two rows, or in the middle of one.
LoopDies(file) ==
    /\ loop.pc # "down" /\ deaths < MaxDeaths
    /\ CASE file = "none" -> UNCHANGED files
         [] file = "ledger" ->
                /\ \/ loop.pc = "seed" /\ loop.store.opening = None
                      /\ Pending(quarantine["executions"]) = {}
                   \/ \E e \in Foremost(InHand) : IsBooked(e)
                /\ ledger' = AppendRow(ledger, Torn)
                /\ quarantine' = quarantine
         [] OTHER ->
                /\ \E e \in Foremost(InHand) : IsQuarantined(e) /\ FileOf(e) = file
                /\ quarantine' = [quarantine EXCEPT ![file] = AppendRow(@, Torn)]
                /\ ledger' = ledger
    /\ loop' = Down
    /\ deaths' = deaths + 1
    /\ UNCHANGED <<clock, when, repair, seeded>>

Stop ==
    /\ loop.pc = "idle"
    /\ loop' = Down
    /\ UNCHANGED <<clock, when, files, repair, deaths, seeded>>

-----------------------------------------------------------------------------
(* The operator's commands, while the loop is down *)

\* read_opening_balance_established_at: the first such row, read up to it.
FirstOpening == LET openings == Places(ledger, "opening")
                IN IF openings = {} THEN None ELSE ledger[Min(openings)]

\* admit and reject: of what was quarantined, once.
MayResolve(e) == e \in Pending(quarantine[FileOf(e)])

Resolve(e, decision, whole) ==
    /\ Unlocked
    /\ QuarantineLoads(quarantine[FileOf(e)])
    /\ MayResolve(e)
    /\ e \in Activities /\ decision = "ADMITTED" =>
           (FirstOpening # None \/ Torn \notin ToSet(ledger)) /\ MayBeAdmitted(e, FirstOpening)
    /\ whole \/ deaths < MaxDeaths
    /\ quarantine' = [quarantine EXCEPT ![FileOf(e)] =
                          AppendRow(@, IF whole THEN Resolution(e, decision, clock) ELSE Torn)]
    /\ deaths' = IF whole THEN deaths ELSE deaths + 1
    /\ UNCHANGED <<clock, when, ledger, loop, repair, seeded>>

-----------------------------------------------------------------------------
(* scripts/repair_settled_cash_baseline.py *)

NotRun == [pc |-> "not_run", row |-> Torn, read |-> {}]

\* A fill counts from its instant, a cash adjustment from the start of its day.
StartOfDay(t) == (t \div DayLength) * DayLength
EffectiveAt(e) == IF e \in Executions THEN when[e] ELSE StartOfDay(when[e])
PreSeedOrNot(store) ==  \* mutant: whatever the ledger holds
    store.entries
PreSeed(store) == {e \in store.entries : EffectiveAt(e) <= store.opening.at}

\* Reads the ledger, without the lock.  It proposes nothing without an opening
\* balance, with a correction of it, or where nothing before it was booked.
RepairReads(run) ==
    LET store == LedgerOf(ledger)
        amount == -Total(PreSeed(store))
    IN /\ repair[run].pc = "not_run"
       /\ LedgerLoads(ledger)
       /\ store.opening # None
       /\ \A c \in store.corrections : c.at # store.opening.at
       /\ amount # 0
       /\ repair' = [repair EXCEPT ![run] =
              [pc |-> "proposed", row |-> Correction(amount, store.opening.at, run),
               read |-> store.entries]]
       /\ UNCHANGED <<clock, when, files, loop, deaths, seeded>>

\* --apply --confirmed: the lock, and the one write of the store read before.
RepairAppliesUnlocked(run, whole) ==  \* mutant: the lock is not taken
    /\ repair[run].pc = "proposed" /\ whole
    /\ ledger' = AppendRow(ledger, repair[run].row)
    /\ repair' = [repair EXCEPT ![run].pc = "done"]
    /\ UNCHANGED <<clock, when, quarantine, loop, deaths, seeded>>
RepairApplies(run, whole) ==
    /\ repair[run].pc = "proposed" /\ Unlocked
    /\ whole \/ deaths < MaxDeaths
    /\ ledger' = AppendRow(ledger, IF whole THEN repair[run].row ELSE Torn)
    /\ repair' = [repair EXCEPT ![run].pc = "done"]
    /\ deaths' = IF whole THEN deaths ELSE deaths + 1
    /\ UNCHANGED <<clock, when, quarantine, loop, seeded>>

-----------------------------------------------------------------------------
\* The broker acts between cycles, at an instant of its own.
BrokerActs(e) ==
    /\ loop.pc \in {"down", "idle"} /\ when[e] = None /\ clock < MaxTime
    /\ clock' = clock + 1
    /\ when' = [when EXCEPT ![e] = clock']
    /\ UNCHANGED <<files, loop, repair, deaths, seeded>>

Tick ==
    /\ loop.pc \in {"down", "idle"} /\ clock < MaxTime
    /\ clock' = clock + 1
    /\ UNCHANGED <<when, files, loop, repair, deaths, seeded>>

\* A new account, or the account of the incident: the executions of the
\* first instant are pending, and were in the figure the ledger was seeded with.
Init ==
    /\ clock = 1
    /\ \/ /\ when = [e \in Events |-> None]
          /\ ledger = <<>>
          /\ quarantine = [f \in {"executions", "activities"} |-> <<>>]
          /\ seeded = "no"
       \/ \E early \in SUBSET Executions \ {{}} :
          /\ when = [e \in Events |-> IF e \in early THEN 1 ELSE None]
          /\ ledger = <<Opening(Funds + Total(early), 1)>>
          /\ quarantine = [executions |-> SetToSeq({Quarantined(e) : e \in early}),
                           activities |-> <<>>]
          /\ seeded = "verbatim"
    /\ loop = Down
    /\ repair = [run \in Runs |-> NotRun]
    /\ deaths = 0

Cycle ==
    \/ BeginCycle
    \/ Book("fills", Executions)
    \/ Quarantine("fills", Executions)
    \/ Synced("fills", Executions, "activities")
    \/ Book("activities", Activities)
    \/ Quarantine("activities", Activities)
    \/ Synced("activities", Activities, "seed")
    \/ SeedDeferred
    \/ Seed
    \/ AlreadySeeded
    \/ Compare

Next ==
    \/ Cycle
    \/ Stop
    \/ \E file \in {"none", "ledger", "executions", "activities"} : LoopDies(file)
    \/ \E e \in Events, decision \in {"ADMITTED", "REJECTED"}, whole \in BOOLEAN :
           Resolve(e, decision, whole)
    \/ \E run \in Runs : RepairReads(run)
    \/ \E run \in Runs, whole \in BOOLEAN : RepairApplies(run, whole)
    \/ \E e \in Events : BrokerActs(e)
    \/ Tick

Spec == Init /\ [][Next]_vars

-----------------------------------------------------------------------------
\* What a running cycle holds in memory is what its files load as: a restart
\* at any moment but in the middle of a row would know neither more nor less.
\* (ledger_store.py:433-487, 564-603)
ReloadAgrees ==
    loop.pc \notin {"down", "idle"} =>
        /\ LedgerLoads(ledger) /\ LedgerOf(ledger) = loop.store
        /\ QuarantineLoads(quarantine["executions"])
        /\ QuarantineLoads(quarantine["activities"])

\* A decision on disk stays the decision, by whatever command, restart or
\* half-written row; and a row of an event is never taken out.
\* (execution_quarantine.py:229-242, cash_event_quarantine.py:277-290)
DecisionOf(rows, e) == {r.decision : r \in {s \in OfKind(rows, "resolution") : s.event = e}}
DecisionsArePermanent ==
    [][\A e \in Events :
          LET decided == DecisionOf(quarantine[FileOf(e)], e)
          IN decided # {} => DecisionOf(quarantine'[FileOf(e)], e) = decided]_vars

\* A correction takes out exactly what is in the opening balance and in a row
\* of its own, so that every event is counted once, except in four cases: the
\* opening balance was backdated and counted nothing twice; it was corrected
\* more than once; an event before it was booked after the repair had read the
\* ledger; a cash event after it, on its day, was taken to be before it.
\* (repair_settled_cash_baseline.py:209-252)
Store == LedgerOf(ledger)
BeforeSeed(e) == when[e] <= Store.opening.at
CountedOnce == Funds + Total({e \in Happened : e \in Store.entries \/ BeforeSeed(e)})
CorrectionsAreExact ==
    \A c \in Store.corrections :
        \/ Cash(Store) = CountedOnce
        \/ seeded = "backdated"
        \/ Store.corrections # {c}
        \/ \E e \in Store.entries \ repair[c.run].read : BeforeSeed(e)
        \/ \E e \in Store.entries \cap Activities :
               EffectiveAt(e) <= Store.opening.at /\ ~BeforeSeed(e)

\* An opening balance is corrected once.  The script says that if a
\* correction exists "this script refuses to propose a second one" (one
\* correction per corrected seed); it looks before it takes the lock.
CorrectedOnce == \A c, d \in Store.corrections : c.at = d.at => c = d

-----------------------------------------------------------------------------
(* What the corrections rest on *)

OpeningRow == [kind : {"opening"}, amount : Int, at : Nat]
CorrectionRow == [kind : {"correction"}, amount : Int, at : Nat, run : Runs]
LedgerRow ==
    {Torn} \cup OpeningRow \cup CorrectionRow \cup [kind : {"entry"}, event : Events]
QuarantineRow ==
    {Torn} \cup [kind : {"quarantined"}, event : Events]
           \cup [kind : {"resolution"}, event : Events,
                 decision : {"ADMITTED", "REJECTED"}, at : Nat]
Stores == [opening : OpeningRow \cup {None}, entries : SUBSET Events,
           corrections : SUBSET CorrectionRow]

TypeOK ==
    /\ clock \in Nat /\ when \in [Events -> Nat \cup {None}] /\ deaths \in Nat
    /\ ledger \in Seq(LedgerRow)
    /\ quarantine \in [{"executions", "activities"} -> Seq(QuarantineRow)]
    /\ loop \in [pc : {"down", "idle", "fills", "activities", "seed", "compare"},
                 now : Nat, store : Stores]
    /\ repair \in [Runs -> [pc : {"not_run", "proposed", "done"},
                            row : CorrectionRow \cup {Torn}, read : SUBSET Events]]
    /\ seeded \in {"no", "verbatim", "backdated"}

\* A cycle's clock is the clock, and nothing happens at the broker during it.
TimesAgree ==
    /\ \A e \in Happened : when[e] <= clock
    /\ loop.pc \notin {"down", "idle"} => loop.now = clock
    /\ Store.entries \subseteq Happened

\* A verbatim opening balance is what had happened by its instant.
SeedCounts ==
    /\ Store.opening = None <=> seeded = "no"
    /\ Store.opening # None => Store.opening.at <= clock
    /\ seeded = "verbatim" =>
           Store.opening.amount = Funds + Total({e \in Happened : BeforeSeed(e)})

\* A repair means to take out what it read that counts from before the seed,
\* and every correction on file is the one a repair meant to append.
RepairsMean ==
    /\ \A run \in Runs : repair[run].pc # "not_run" =>
           /\ Store.opening # None /\ repair[run].read \subseteq Store.entries
           /\ repair[run].row =
                  Correction(-Total({e \in repair[run].read :
                                        EffectiveAt(e) <= Store.opening.at}),
                             Store.opening.at, run)
    /\ \A c \in Store.corrections :
           repair[c.run].pc # "not_run" /\ c = repair[c.run].row

IInv == TypeOK /\ ReloadAgrees /\ TimesAgree /\ SeedCounts /\ RepairsMean
=============================================================================
