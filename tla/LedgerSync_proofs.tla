-------------------------- MODULE LedgerSync_proofs --------------------------
(***************************************************************************)
(* Theorems about LedgerSync, for every set of histories, whatever their   *)
(* length and amounts.  Most are about which events the books contain; what *)
(* is left in a lot is a sum over the sales booked against it.  The last   *)
(* part is about BrokerFeed, the pages those cycles synchronise from,      *)
(* taken as an instance: every variable of it is its own, and its Fills    *)
(* are called FillActivities here.                                         *)
(***************************************************************************)
EXTENDS LedgerSync, SumFacts, SequenceTheorems

LEMMA EventsAreNumbered ==
    ASSUME BrokerOK
    PROVE  /\ Event \subseteq Nat \ {0}
           /\ \A i \in Event : history[i] \in BrokerEvent
BY HistoriesAssumption, BoundsAssumption DEF BrokerOK, Event

LEMMA EventsAreFinite == BrokerOK => IsFiniteSet(Event)
<1> SUFFICES ASSUME BrokerOK PROVE IsFiniteSet(Event)
  OBVIOUS
<1>1. PICK n \in 0..MaxLength : Event = 1..n
  BY HistoriesAssumption DEF BrokerOK, Event
<1> QED
  BY <1>1, FS_Interval, BoundsAssumption

LEMMA BrokerStep ==
    ASSUME BrokerOK, [Next]_vars
    PROVE  /\ BrokerOK'
           /\ history' = history /\ Event' = Event
           /\ happened \in Nat /\ settled \in Nat
           /\ happened' \in Nat /\ happened <= happened'
           /\ settled' \in Nat /\ settled <= settled'
<1>0. Event \subseteq Nat
  BY EventsAreNumbered
<1>1. CASE BrokerActs
  BY <1>0, <1>1 DEF BrokerActs, BrokerOK, Event
<1>2. CASE NightPasses
  BY <1>0, <1>2 DEF NightPasses, BrokerOK, Event
<1>3. CASE UNCHANGED broker
  BY <1>0, <1>3 DEF broker, BrokerOK, Event
<1>4. [Next]_vars => BrokerActs \/ NightPasses \/ UNCHANGED broker
  BY DEF Next, vars, CycleStep, SyncFills, SyncCash, Reconcile, Decide, Die,
     BeginCycle, FetchFills, FillsDone, QuarantineFill, BookFill, FillRefused,
     FetchCash, CashDone, ApplyCash, QuarantineCash, ReadAccount, SeedDeferred,
     Seed, SeedPositions, Compare, Admit, Reject, CycleDies, DiesBeforeAudit
<1> QED
  BY <1>1, <1>2, <1>3, <1>4

LEMMA BooksStep ==
    ASSUME BrokerOK, BooksOK, CycleOK, [Next]_vars
    PROVE  BooksOK'
<1>0. /\ history' = history /\ Event' = Event
      /\ happened \in Nat /\ happened' \in Nat /\ happened <= happened'
      /\ Openings' = Openings
  BY BrokerStep DEF Openings
<1>1. ASSUME NEW i \in Event, BookFill(i) PROVE BooksOK'
  BY <1>0, <1>1 DEF BookFill, BooksOK
<1>2. ASSUME NEW i \in Event, ApplyCash(i) \/ DiesBeforeAudit(i) PROVE BooksOK'
  BY <1>0, <1>2 DEF ApplyCash, DiesBeforeAudit, BooksOK
<1>3. ASSUME Seed PROVE BooksOK'
  <2>1. SeedFigure \in [Event -> Int]
    BY DEF SeedFigure, BrokerCash, RowsCash
  <2>2. now.happened \in Nat /\ now.settled \in Nat /\ cashRead \in Nat
    BY <1>0, BrokerStep DEF CycleOK
  <2>3. opening' \in Openings
    BY <1>3, <2>1, <2>2 DEF Seed, Openings
  <2> QED
    BY <1>0, <1>3, <2>3 DEF Seed, BooksOK
<1>4. ASSUME SeedPositions PROVE BooksOK'
  BY <1>0, <1>4 DEF SeedPositions, BooksOK
<1>5. ASSUME UNCHANGED books PROVE BooksOK'
  BY <1>0, <1>5 DEF books, BooksOK
<1>6. \/ Seed \/ SeedPositions \/ UNCHANGED books
      \/ \E i \in Event : BookFill(i) \/ ApplyCash(i) \/ DiesBeforeAudit(i)
  BY DEF Next, vars, CycleStep, SyncFills, SyncCash, Reconcile, Decide, Die, BrokerActs,
     NightPasses, BeginCycle, FetchFills, FillsDone, QuarantineFill, FillRefused,
     FetchCash, CashDone, QuarantineCash, ReadAccount, SeedDeferred,
     Compare, Admit, Reject, CycleDies
<1> QED
  BY <1>1, <1>2, <1>3, <1>4, <1>5, <1>6

LEMMA DecisionsStep ==
    ASSUME BrokerOK, DecisionsOK, [Next]_vars
    PROVE  DecisionsOK'
<1>0. Event' = Event
  BY BrokerStep
<1>1. ASSUME NEW i \in Event, QuarantineFill(i) \/ QuarantineCash(i) PROVE DecisionsOK'
  BY <1>0, <1>1 DEF QuarantineFill, QuarantineCash, DecisionsOK, Standings
<1>2. ASSUME NEW i \in Event, ApplyCash(i) PROVE DecisionsOK'
  BY <1>0, <1>2 DEF ApplyCash, quarantine, DecisionsOK
<1>3. ASSUME NEW i \in Event, DiesBeforeAudit(i) PROVE DecisionsOK'
  BY <1>0, <1>3 DEF DiesBeforeAudit, DecisionsOK, Standings
<1>4. ASSUME NEW i \in Event, Reject(i) PROVE DecisionsOK'
  BY <1>0, <1>4 DEF Reject, DecisionsOK, Standings
<1>5. ASSUME NEW i \in Event, NEW w \in Event \cup {0}, Admit(i, w) PROVE DecisionsOK'
  BY <1>0, <1>5 DEF Admit, DecisionsOK, Standings
<1>6. ASSUME UNCHANGED <<quarantine, audited>> PROVE DecisionsOK'
  BY <1>0, <1>6 DEF quarantine, DecisionsOK
<1>7. \/ UNCHANGED <<quarantine, audited>>
      \/ \E i \in Event : QuarantineFill(i) \/ QuarantineCash(i) \/ ApplyCash(i)
                          \/ DiesBeforeAudit(i) \/ Reject(i)
                          \/ \E w \in Event \cup {0} : Admit(i, w)
  BY DEF Next, vars, CycleStep, SyncFills, SyncCash, Reconcile, Decide, Die, BrokerActs,
     NightPasses, BeginCycle, FetchFills, FillsDone, BookFill, FillRefused, FetchCash,
     CashDone, ReadAccount, SeedDeferred, Seed, SeedPositions, Compare, CycleDies
<1> QED
  BY <1>1, <1>2, <1>3, <1>4, <1>5, <1>6, <1>7

LEMMA CycleTypeStep ==
    ASSUME BrokerOK, CycleOK, [Next]_vars
    PROVE  CycleOK'
<1>0. /\ happened \in Nat /\ happened' \in Nat /\ happened <= happened'
      /\ settled \in Nat /\ settled' \in Nat /\ settled <= settled'
      /\ MaxDeaths \in Nat
  BY BrokerStep, BoundsAssumption
<1>1. ASSUME BrokerActs \/ NightPasses \/ UNCHANGED <<cycle, deaths>> PROVE CycleOK'
  <2>1. UNCHANGED <<cycle, deaths>>
    BY <1>1 DEF BrokerActs, NightPasses
  <2> QED
    BY <1>0, <2>1 DEF cycle, CycleOK
<1>2. ASSUME BeginCycle \/ FetchFills \/ FillsDone \/ FetchCash \/ CashDone PROVE CycleOK'
  BY <1>0, <1>2 DEF BeginCycle, FetchFills, FillsDone, FetchCash, CashDone, GoTo, Steps,
     CycleOK, broker
<1>3. ASSUME ReadAccount \/ SeedPositions PROVE CycleOK'
  BY <1>0, <1>3 DEF ReadAccount, SeedPositions, GoTo, Steps, CycleOK, broker
<1>4. ASSUME NEW result \in {"pass", "mismatch", "error"}, EndCycle(result),
             deaths' \in 0..MaxDeaths
      PROVE CycleOK'
  BY <1>0, <1>4 DEF EndCycle, NoClock, Steps, CycleOK
<1>5. ASSUME Seed PROVE CycleOK'
  <2>1. CASE Worth(SeedFigure) < 0
    BY <1>4, <1>5, <2>1 DEF Seed, CycleOK
  <2>2. CASE ~(Worth(SeedFigure) < 0)
    BY <1>0, <1>5, <2>2 DEF Seed, GoTo, Steps, CycleOK, broker
  <2> QED
    BY <2>1, <2>2
<1>6. ASSUME SeedDeferred \/ \E i \in Event : FillRefused(i) PROVE CycleOK'
  BY <1>4, <1>6 DEF SeedDeferred, FillRefused, CycleOK
<1>7. ASSUME CycleDies \/ \E i \in Event : DiesBeforeAudit(i) PROVE CycleOK'
  <2>1. EndCycle("error") /\ deaths' \in 0..MaxDeaths
    BY <1>0, <1>7 DEF CycleDies, DiesBeforeAudit, CycleOK
  <2> QED
    BY <1>4, <2>1
<1>8. ASSUME Compare PROVE CycleOK'
  <2>1. \E result \in {"pass", "mismatch", "error"} : EndCycle(result)
    BY <1>8 DEF Compare
  <2>2. deaths' \in 0..MaxDeaths
    BY <1>8 DEF Compare, CycleOK
  <2> QED
    BY <1>4, <2>1, <2>2
<1>9. \/ BrokerActs \/ NightPasses \/ UNCHANGED <<cycle, deaths>>
      \/ BeginCycle \/ FetchFills \/ FillsDone \/ FetchCash \/ CashDone
      \/ ReadAccount \/ SeedPositions \/ Seed \/ SeedDeferred \/ CycleDies \/ Compare
      \/ \E i \in Event : FillRefused(i) \/ DiesBeforeAudit(i)
  BY DEF Next, vars, CycleStep, SyncFills, SyncCash, Reconcile, Decide, Die,
     QuarantineFill, BookFill, ApplyCash, QuarantineCash, Admit, Reject
<1> QED
  BY <1>1, <1>2, <1>3, <1>5, <1>6, <1>7, <1>8, <1>9

LEMMA InitTypeOK == Init => TypeOK
<1> SUFFICES ASSUME Init PROVE TypeOK
  OBVIOUS
<1>1. BrokerOK
  BY BoundsAssumption DEF Init, BrokerOK
<1>2. BooksOK
  BY DEF Init, BooksOK, Openings
<1>3. DecisionsOK
  BY DEF Init, DecisionsOK, Standings
<1>4. CycleOK
  BY BoundsAssumption DEF Init, CycleOK, Steps, NoClock
<1> QED
  BY <1>1, <1>2, <1>3, <1>4 DEF TypeOK

LEMMA TypeStep == TypeOK /\ [Next]_vars => TypeOK'
BY BrokerStep, BooksStep, DecisionsStep, CycleTypeStep DEF TypeOK

(* Whatever the histories, the files hold well-formed rows, and nothing the *)
(* cycle has read lies ahead of the broker.                                *)
THEOREM TypeCorrect == Spec => []TypeOK
BY InitTypeOK, TypeStep, PTL DEF Spec

-----------------------------------------------------------------------------
(***************************************************************************)
(* How decisions move: what an action may do to an event's standing and to *)
(* the rows.                                                               *)
(***************************************************************************)
LEMMA DecisionEffects ==
    ASSUME TypeOK, [Next]_vars
    PROVE  \A i \in Event :
             /\ status'[i] # status[i] =>
                  \/ /\ status[i] = "unseen" /\ status'[i] = "PENDING"
                     /\ (IsFill(i) \/ i \notin adjusted) /\ warrant' = warrant
                  \/ /\ status[i] = "PENDING" /\ status'[i] \in {"ADMITTED", "REJECTED"}
                     /\ pc = "idle" /\ pc' = "idle"
                     /\ (status'[i] = "ADMITTED" /\ ~IsFill(i) => MayBeAdmitted(i))
             /\ warrant'[i] # warrant[i] => status[i] = "PENDING"
<1>0. status \in [Event -> Standings] /\ warrant \in [Event -> Event \cup {0}]
  BY DEF TypeOK, DecisionsOK
<1> DEFINE Moves ==
      \A i \in Event :
             /\ status'[i] # status[i] =>
                  \/ /\ status[i] = "unseen" /\ status'[i] = "PENDING"
                     /\ (IsFill(i) \/ i \notin adjusted) /\ warrant' = warrant
                  \/ /\ status[i] = "PENDING" /\ status'[i] \in {"ADMITTED", "REJECTED"}
                     /\ pc = "idle" /\ pc' = "idle"
                     /\ (status'[i] = "ADMITTED" /\ ~IsFill(i) => MayBeAdmitted(i))
             /\ warrant'[i] # warrant[i] => status[i] = "PENDING"
<1>1. ASSUME UNCHANGED quarantine PROVE Moves
  BY <1>1 DEF quarantine
<1>2. ASSUME NEW i \in Event, QuarantineFill(i) PROVE Moves
  BY <1>0, <1>2 DEF QuarantineFill, First, FillsToDo, Fills
<1>3. ASSUME NEW i \in Event, QuarantineCash(i) PROVE Moves
  BY <1>0, <1>3 DEF QuarantineCash, First, CashToDo
<1>4. ASSUME NEW i \in Event, DiesBeforeAudit(i) PROVE Moves
  BY <1>0, <1>4 DEF DiesBeforeAudit, First, FillsToDo, CashToDo, Fills
<1>5. ASSUME NEW i \in Event, NEW w \in Event \cup {0}, Admit(i, w) PROVE Moves
  BY <1>0, <1>5 DEF Admit, cycle, IsFill
<1>6. ASSUME NEW i \in Event, Reject(i) PROVE Moves
  BY <1>0, <1>6 DEF Reject, cycle
<1>7. \/ UNCHANGED quarantine
      \/ \E i \in Event : QuarantineFill(i) \/ QuarantineCash(i)
                          \/ DiesBeforeAudit(i) \/ Reject(i)
                          \/ \E w \in Event \cup {0} : Admit(i, w)
  BY DEF Next, vars, CycleStep, SyncFills, SyncCash, Reconcile, Decide, Die, BrokerActs,
     NightPasses, BeginCycle, FetchFills, FillsDone, BookFill, FillRefused, FetchCash,
     ApplyCash, CashDone, ReadAccount, SeedDeferred, Seed, SeedPositions, Compare, CycleDies,
     quarantine
<1> QED
  BY <1>1, <1>2, <1>3, <1>4, <1>5, <1>6, <1>7

\* What an adjustment row takes, its own audit row aside.
Adjusts(i) ==
    /\ pc = "cash" /\ i \in CashToDo
    /\ status[i] = "ADMITTED" \/ AutoAdmits(i)
    /\ adjusted' = adjusted \cup {i}
    /\ UNCHANGED <<happened, booked, opening, status>>
    /\ pc' = "idle" \/ UNCHANGED <<pc, now, fetched>>

LEMMA RowEffects ==
    ASSUME [Next]_vars
    PROVE  \/ booked' = booked /\ adjusted' = adjusted
           \/ \E i \in Event : BookFill(i) \/ Adjusts(i)
<1>1. ASSUME NEW i \in Event, ApplyCash(i) PROVE Adjusts(i)
  BY <1>1 DEF ApplyCash, Adjusts, First, cycle, broker, quarantine
<1>2. ASSUME NEW i \in Event, DiesBeforeAudit(i)
      PROVE  Adjusts(i) \/ (booked' = booked /\ adjusted' = adjusted)
  BY <1>2 DEF DiesBeforeAudit, Adjusts, First, EndCycle, broker
<1>3. \/ UNCHANGED <<booked, adjusted>>
      \/ \E i \in Event : BookFill(i) \/ ApplyCash(i) \/ DiesBeforeAudit(i)
  BY DEF Next, vars, CycleStep, SyncFills, SyncCash, Reconcile, Decide, Die, BrokerActs,
     NightPasses, BeginCycle, FetchFills, FillsDone, QuarantineFill, FillRefused, FetchCash,
     QuarantineCash, CashDone, ReadAccount, SeedDeferred, Seed, SeedPositions, Compare,
     Admit, Reject, CycleDies, books
<1> QED
  BY <1>1, <1>2, <1>3

LEMMA BookedStep ==
    ASSUME TypeOK, BookedByDecision, AdmittedCashIsDated, [Next]_vars
    PROVE  BookedByDecision'
<1>0. /\ history' = history /\ Event' = Event
      /\ booked \subseteq Event /\ adjusted \subseteq Event
      /\ \A i \in Event : history[i] \in BrokerEvent /\ 0 \notin Event
  BY BrokerStep, EventsAreNumbered DEF TypeOK, BooksOK
<1>1. \A i \in booked : status'[i] = status[i] /\ warrant'[i] = warrant[i]
  BY <1>0, DecisionEffects DEF BookedByDecision
<1>2. \A i \in adjusted : status'[i] = status[i]
  BY <1>0, DecisionEffects DEF BookedByDecision
<1>3. CASE booked' = booked /\ adjusted' = adjusted
  BY <1>0, <1>1, <1>2, <1>3 DEF BookedByDecision, IsFill
<1>4. ASSUME NEW i \in Event, BookFill(i) PROVE BookedByDecision'
  <2>1. /\ booked' = booked \cup {i} /\ adjusted' = adjusted
        /\ IsFill(i) /\ status'[i] = "ADMITTED" /\ warrant'[i] = warrant[i]
    BY <1>4 DEF BookFill, First, FillsToDo, Fills, quarantine
  <2>2. IF history[i].kind = "BUY" THEN warrant[i] = i
        ELSE warrant[i] \in booked /\ history[warrant[i]].kind = "BUY"
    BY <1>4 DEF BookFill, Recordable
  <2> QED
    BY <1>0, <1>1, <1>2, <2>1, <2>2 DEF BookedByDecision, IsFill
<1>5. ASSUME NEW i \in Event, Adjusts(i) PROVE BookedByDecision'
  <2>1. /\ i \in Event /\ ~IsFill(i) /\ status[i] \in {"unseen", "ADMITTED"}
        /\ history[i].dated
        /\ status[i] = "ADMITTED" \/ (status[i] = "unseen" /\ history[i].catFee)
    BY <1>5 DEF Adjusts, CashToDo, CashEvents, Fills, Undecided, AutoAdmits, MayBeAdmitted,
       AdmittedCashIsDated
  <2> QED
    BY <1>0, <1>1, <1>2, <1>5, <2>1 DEF Adjusts, BookedByDecision, IsFill
<1> QED
  BY <1>3, <1>4, <1>5, RowEffects

LEMMA DatedStep ==
    ASSUME TypeOK, AdmittedCashIsDated, [Next]_vars
    PROVE  AdmittedCashIsDated'
<1>1. /\ history' = history /\ Event' = Event /\ CashEvents' = CashEvents
      /\ \A i \in CashEvents : i \in Event /\ ~IsFill(i)
  BY BrokerStep DEF TypeOK, CashEvents, Fills, IsFill
<1> QED
  BY <1>1, DecisionEffects DEF AdmittedCashIsDated, MayBeAdmitted

-----------------------------------------------------------------------------
(***************************************************************************)
(* How a cycle moves.                                                      *)
(***************************************************************************)
LEMMA CycleEffects ==
    ASSUME [Next]_vars
    PROVE  \/ UNCHANGED cycle \/ pc' = "idle"
           \/ BeginCycle \/ FetchFills \/ FillsDone \/ FetchCash \/ CashDone
           \/ ReadAccount \/ Seed \/ SeedPositions
BY DEF Next, vars, CycleStep, SyncFills, SyncCash, Reconcile, Decide, Die, BrokerActs,
   NightPasses, QuarantineFill, BookFill, FillRefused, ApplyCash, QuarantineCash,
   SeedDeferred, Compare, Admit, Reject, CycleDies, DiesBeforeAudit, EndCycle

\* Rows are only ever added, and never between the account() read and the end.
LEMMA RowsGrow ==
    ASSUME TypeOK, [Next]_vars, \A i \in Rows : i <= happened
    PROVE  /\ booked \subseteq booked' /\ adjusted \subseteq adjusted'
           /\ \A i \in Rows' : i <= happened'
           /\ pc \notin {"fills", "cash"} => Rows' = Rows
<1>0. /\ happened \in Nat /\ happened' \in Nat /\ happened <= happened'
      /\ now.happened \in 0..happened /\ fetched \in 0..happened
      /\ booked \subseteq Nat /\ adjusted \subseteq Nat /\ Event \subseteq Nat
  BY BrokerStep, EventsAreNumbered DEF TypeOK, CycleOK, BooksOK
<1> DEFINE Grow == /\ booked \subseteq booked' /\ adjusted \subseteq adjusted'
                   /\ \A i \in Rows' : i <= happened'
                   /\ pc \notin {"fills", "cash"} => Rows' = Rows
<1>1. CASE booked' = booked /\ adjusted' = adjusted
  BY <1>0, <1>1 DEF Rows
<1>2. ASSUME NEW i \in Event, BookFill(i) PROVE Grow
  <2>1. /\ booked' = booked \cup {i} /\ adjusted' = adjusted /\ i <= happened
        /\ pc = "fills"
    BY <1>0, <1>2 DEF BookFill
  <2> QED
    BY <1>0, <2>1 DEF Rows
<1>3. ASSUME NEW i \in Event, Adjusts(i) PROVE Grow
  <2>1. /\ adjusted' = adjusted \cup {i} /\ booked' = booked /\ i <= happened
        /\ pc = "cash"
    BY <1>0, <1>3 DEF Adjusts, CashToDo
  <2> QED
    BY <1>0, <2>1 DEF Rows
<1> QED
  BY <1>1, <1>2, <1>3, RowEffects

LEMMA ReadsStep ==
    ASSUME TypeOK, ReadsAreInOrder, [Next]_vars
    PROVE  ReadsAreInOrder'
<1>0. /\ happened \in Nat /\ happened' \in Nat /\ happened <= happened'
      /\ now.happened \in 0..happened
      /\ \A i \in Rows : i <= happened
      /\ \A i \in Rows' : i <= happened'
      /\ pc \notin {"fills", "cash"} => Rows' = Rows
  BY BrokerStep, RowsGrow DEF TypeOK, CycleOK, ReadsAreInOrder
<1>1. CASE UNCHANGED cycle
  BY <1>0, <1>1 DEF cycle, ReadsAreInOrder
<1>2. CASE pc' = "idle"
  BY <1>0, <1>2 DEF ReadsAreInOrder
<1>3. CASE BeginCycle \/ FetchFills \/ FillsDone \/ FetchCash \/ CashDone
  BY <1>0, <1>3 DEF BeginCycle, FetchFills, FillsDone, FetchCash, CashDone, GoTo,
     ReadsAreInOrder
<1>4. CASE ReadAccount
  BY <1>0, <1>4 DEF ReadAccount, GoTo, ReadsAreInOrder
<1>5. CASE (Seed /\ pc' # "idle") \/ SeedPositions
  BY <1>0, <1>5 DEF Seed, SeedPositions, GoTo, EndCycle, ReadsAreInOrder
<1> QED
  BY <1>1, <1>2, <1>3, <1>4, <1>5, CycleEffects

LEMMA FillsSyncedStep ==
    ASSUME TypeOK, BookedByDecision, ReadsAreInOrder, FillsSynced, [Next]_vars
    PROVE  FillsSynced'
<1>0. /\ history' = history /\ Event' = Event /\ Fills' = Fills
      /\ Fills \subseteq Event /\ Event \subseteq Nat
      /\ booked \subseteq booked'
      /\ now.happened \in Nat /\ fetched \in Nat /\ status \in [Event -> Standings]
  BY BrokerStep, EventsAreNumbered, RowsGrow
     DEF TypeOK, ReadsAreInOrder, Fills, IsFill, CycleOK, DecisionsOK
<1>1. ASSUME pc # "idle", NEW i \in Fills
      PROVE  /\ status[i] # "unseen" => status'[i] # "unseen"
             /\ status'[i] = "ADMITTED" => status[i] = "ADMITTED"
  BY <1>0, <1>1, DecisionEffects
<1>2. CASE UNCHANGED cycle
  BY <1>0, <1>1, <1>2 DEF cycle, FillsSynced
<1>3. CASE FillsDone
  <2>1. /\ pc = "fills" /\ now' = now /\ status' = status /\ booked' = booked
        /\ FillsToDo = {}
    BY <1>3 DEF FillsDone, quarantine, books
  <2>2. now.happened <= fetched
    BY <2>1 DEF ReadsAreInOrder
  <2>3. ASSUME NEW i \in Fills, i <= now.happened
        PROVE  status[i] # "unseen" /\ (status[i] = "ADMITTED" => i \in booked)
    <3>1. i <= fetched
      BY <1>0, <2>2, <2>3
    <3>2. i \notin Undecided \/ i \in booked
      BY <2>1, <3>1 DEF FillsToDo
    <3> QED
      BY <1>0, <3>2 DEF Undecided, BookedByDecision
  <2> QED
    BY <1>0, <2>1, <2>3 DEF FillsSynced
<1>4. CASE FetchCash \/ CashDone \/ ReadAccount
  BY <1>0, <1>4 DEF FetchCash, CashDone, ReadAccount, quarantine, books, FillsSynced
<1>5. CASE pc' = "idle" \/ BeginCycle \/ FetchFills \/ Seed \/ SeedPositions
  BY <1>5 DEF BeginCycle, FetchFills, Seed, SeedPositions, GoTo, EndCycle, FillsSynced
<1> QED
  BY <1>2, <1>3, <1>4, <1>5, CycleEffects

LEMMA CashSyncedStep ==
    ASSUME TypeOK, ReadsAreInOrder, CashSynced, [Next]_vars
    PROVE  CashSynced'
<1>0. /\ history' = history /\ Event' = Event /\ CashEvents' = CashEvents
      /\ CashEvents \subseteq Event /\ Event \subseteq Nat
      /\ adjusted \subseteq adjusted'
      /\ now.happened \in Nat /\ fetched \in Nat
  BY BrokerStep, EventsAreNumbered, RowsGrow
     DEF TypeOK, ReadsAreInOrder, CashEvents, Fills, IsFill, CycleOK
<1>1. ASSUME pc # "idle", NEW i \in CashEvents, status'[i] = "ADMITTED"
      PROVE  status[i] = "ADMITTED"
  BY <1>0, <1>1, DecisionEffects
<1>2. CASE UNCHANGED cycle
  BY <1>0, <1>1, <1>2 DEF cycle, CashSynced
<1>3. CASE CashDone
  <2>1. /\ pc = "cash" /\ now' = now /\ status' = status /\ adjusted' = adjusted
        /\ CashToDo = {}
    BY <1>3 DEF CashDone, quarantine, books
  <2>2. now.happened <= fetched
    BY <2>1 DEF ReadsAreInOrder
  <2>3. ASSUME NEW i \in CashEvents, i <= now.happened, status[i] = "ADMITTED"
        PROVE  i \in adjusted
    <3>1. i <= fetched
      BY <1>0, <2>2, <2>3
    <3> QED
      BY <1>0, <2>1, <2>3, <3>1 DEF CashToDo, Undecided
  <2> QED
    BY <1>0, <2>1, <2>3 DEF CashSynced
<1>4. CASE ReadAccount
  BY <1>0, <1>4 DEF ReadAccount, quarantine, books, CashSynced
<1>5. CASE pc' = "idle" \/ BeginCycle \/ FetchFills \/ FillsDone \/ FetchCash
           \/ Seed \/ SeedPositions
  BY <1>5 DEF BeginCycle, FetchFills, FillsDone, FetchCash, Seed, SeedPositions, GoTo,
     EndCycle, CashSynced
<1> QED
  BY <1>2, <1>3, <1>4, <1>5, CycleEffects

(***************************************************************************)
(* What a seed contains.  An execution it contains has been rejected, or   *)
(* is in the rows already, which the seed is less of; a verbatim seed has  *)
(* no fill rows beside it.                                                 *)
(***************************************************************************)
LEMMA SeedCloses ==
    ASSUME TypeOK, BookedByDecision, ReadsAreInOrder, FillsSynced, CashSynced, Seed
    PROVE  BaselineIsClosed'
<1>0. /\ history' = history /\ Event' = Event /\ Event \subseteq Nat
      /\ status \in [Event -> Standings] /\ booked \subseteq Event /\ adjusted \subseteq Event
      /\ now.happened \in Nat /\ now.settled \in Nat /\ cashRead \in Nat
  <2>1. happened \in Nat /\ settled \in Nat /\ Event \subseteq Nat
    BY EventsAreNumbered DEF TypeOK, BrokerOK
  <2> QED
    BY <2>1 DEF Seed, broker, Event, TypeOK, BooksOK, DecisionsOK, CycleOK
<1>1. /\ pc = "seed" /\ Pending(Fills) = {}
      /\ booked' = booked /\ adjusted' = adjusted /\ status' = status
      /\ opening'.at = now.happened /\ opening'.read = cashRead
      /\ opening'.settled = now.settled /\ opening'.has = SeedFigure
      /\ opening'.verbatim = (booked = {})
  BY DEF Seed, quarantine
<1>2. \A i \in Rows : i <= cashRead
  BY <1>1 DEF ReadsAreInOrder
<1>3. \A i \in Fills : i <= now.happened =>
        status[i] = "REJECTED" \/ (status[i] = "ADMITTED" /\ i \in booked)
  BY <1>0, <1>1 DEF FillsSynced, Pending, Fills, Standings
<1>4. \A i \in CashEvents : i <= now.happened => (status[i] = "ADMITTED" => i \in adjusted)
  BY <1>1 DEF CashSynced
<1> SUFFICES ASSUME NEW i \in Event
             PROVE  \/ opening'.has[i] = 0
                    \/ Excused(i)'
                    \/ /\ i <= opening'.at
                       /\ IF IsFill(i) THEN status[i] = "REJECTED"
                          ELSE status[i] # "ADMITTED" /\ i \notin adjusted
  BY <1>0, <1>1 DEF BaselineIsClosed, IsFill
<1>5. opening'.has[i] = BrokerCash(cashRead)[i]
                        - (IF booked = {} THEN 0 ELSE RowsCash(now.settled)[i])
  BY <1>1 DEF SeedFigure
<1>6. CASE i > cashRead
  <2>1. i \notin booked /\ i \notin adjusted
    BY <1>0, <1>2, <1>6 DEF Rows
  <2>2. BrokerCash(cashRead)[i] = 0 /\ RowsCash(now.settled)[i] = 0
    BY <1>0, <1>6, <2>1 DEF BrokerCash, RowsCash, InRows
  <2> QED
    BY <1>5, <2>2
<1>7. CASE i <= cashRead /\ i > now.happened
  BY <1>0, <1>1, <1>7 DEF Excused, Raced
<1>8. CASE i <= now.happened /\ booked = {}
  <2>1. CASE IsFill(i)
    BY <1>0, <1>1, <1>3, <1>8, <2>1 DEF Fills
  <2>2. CASE ~IsFill(i)
    BY <1>0, <1>1, <1>8, <2>2 DEF Excused, CashEvents, Fills, IsFill
  <2> QED
    BY <2>1, <2>2
<1>9. CASE i <= now.happened /\ i <= cashRead /\ booked # {}
  <2>1. InRows(i, now.settled) => opening'.has[i] = 0
    BY <1>5, <1>9 DEF BrokerCash, RowsCash
  <2>2. CASE IsFill(i)
    <3>1. CASE i \in booked /\ history[i].kind = "SELL" /\ ~(i <= now.settled)
      <4>1. ~opening'.verbatim
        BY <1>1, <1>9, Zenon
      <4>2. i > opening'.settled /\ history'[i].kind = "SELL"
        BY <1>0, <1>1, <3>1
      <4> QED
        BY <4>1, <4>2, Zenon DEF Excused
    <3>2. CASE i \in booked /\ (history[i].kind = "SELL" => i <= now.settled)
      BY <2>1, <3>2 DEF InRows
    <3> QED
      BY <1>1, <1>3, <1>9, <2>2, <3>1, <3>2 DEF Fills
  <2>3. CASE ~IsFill(i)
    <3>1. CASE i \in adjusted
      BY <2>1, <3>1 DEF InRows
    <3> QED
      BY <1>1, <1>4, <1>9, <2>3, <3>1 DEF CashEvents, Fills
  <2> QED
    BY <2>2, <2>3
<1>10. now.happened <= cashRead
  BY <1>1 DEF ReadsAreInOrder
<1> QED
  BY <1>0, <1>6, <1>7, <1>8, <1>9, <1>10

LEMMA BaselineStep ==
    ASSUME TypeOK, BookedByDecision, ReadsAreInOrder, FillsSynced, CashSynced,
           BaselineIsClosed, [Next]_vars
    PROVE  BaselineIsClosed'
<1>1. CASE Seed
  BY <1>1, SeedCloses
<1>2. CASE opening' = opening
  <2>0. /\ history' = history /\ Event' = Event /\ Event \subseteq Nat
        /\ CashEvents' = CashEvents
        /\ \A i \in Event : Excused(i)' <=> Excused(i)
    BY <1>2, BrokerStep, EventsAreNumbered
       DEF TypeOK, Excused, Raced, CashEvents, Fills, IsFill
  <2>1. ASSUME opening.seeded, NEW i \in Event, i <= opening.at,
               IF IsFill(i) THEN status[i] = "REJECTED"
               ELSE status[i] # "ADMITTED" /\ i \notin adjusted
        PROVE  IF IsFill(i) THEN status'[i] = "REJECTED"
               ELSE status'[i] # "ADMITTED" /\ i \notin adjusted'
    <3>1. ~MayBeAdmitted(i)
      <4>1. opening # NotSeeded
        <5>1. NotSeeded.seeded = FALSE
          BY DEF NotSeeded
        <5> QED
          BY <2>1, <5>1, Zenon
      <4>2. opening.at \in Nat /\ i \in Nat
        BY <2>0, <4>1 DEF TypeOK, BooksOK, Openings
      <4> QED
        BY <2>1, <4>2 DEF MayBeAdmitted
    <3>2. CASE IsFill(i)
      BY <2>1, <3>2, DecisionEffects
    <3>3. CASE ~IsFill(i)
      <4>1. status'[i] # "ADMITTED"
        BY <2>1, <3>1, <3>3, DecisionEffects
      <4>2. ASSUME NEW j \in Event, Adjusts(j) PROVE i \notin adjusted'
        BY <2>1, <3>1, <3>3, <4>2 DEF Adjusts, AutoAdmits
      <4>3. ASSUME NEW j \in Event, BookFill(j) PROVE i \notin adjusted'
        BY <2>1, <3>3, <4>3 DEF BookFill
      <4> QED
        BY <2>1, <3>3, <4>1, <4>2, <4>3, RowEffects
    <3> QED
      BY <3>2, <3>3
  <2> QED
    BY <1>2, <2>0, <2>1 DEF BaselineIsClosed, IsFill
<1>3. Seed \/ opening' = opening
  BY DEF Next, vars, CycleStep, SyncFills, SyncCash, Reconcile, Decide, Die, BrokerActs,
     NightPasses, BeginCycle, FetchFills, FillsDone, QuarantineFill, BookFill, FillRefused,
     FetchCash, ApplyCash, QuarantineCash, CashDone, ReadAccount, SeedDeferred,
     SeedPositions, Compare, Admit, Reject, CycleDies, DiesBeforeAudit, books
<1> QED
  BY <1>1, <1>2, <1>3

(* The inductive invariant of the double-count argument: what each phase of *)
(* a cycle has established about decisions and rows when the seed is taken, *)
(* and that what the seed contains stays out of the rows for good.         *)
THEOREM Invariance == Spec => []IInv
<1>1. Init => IInv
  <2> SUFFICES ASSUME Init PROVE IInv
    OBVIOUS
  <2>1. TypeOK
    BY InitTypeOK
  <2>2. BookedByDecision /\ ReadsAreInOrder /\ FillsSynced /\ CashSynced
    BY DEF Init, BookedByDecision, ReadsAreInOrder, FillsSynced, CashSynced, Rows
  <2>3. AdmittedCashIsDated /\ BaselineIsClosed
    BY DEF Init, AdmittedCashIsDated, BaselineIsClosed, NotSeeded, CashEvents
  <2> QED
    BY <2>1, <2>2, <2>3 DEF IInv
<1>2. IInv /\ [Next]_vars => IInv'
  BY TypeStep, BookedStep, DatedStep, ReadsStep, FillsSyncedStep, CashSyncedStep, BaselineStep
     DEF IInv
<1> QED
  BY <1>1, <1>2, PTL DEF Spec

(* For every broker history: what is booked was decided, and what is sold   *)
(* was bought before.                                                      *)
THEOREM DecidedBookings == Spec => []BookedByDecision
<1>1. IInv => BookedByDecision
  BY DEF IInv
<1> QED
  BY <1>1, Invariance, PTL

(* For every broker history and every order of cycles, deaths, decisions    *)
(* and broker events: no event is in the opening balance and in a row too,  *)
(* the three excused ways apart.                                           *)
THEOREM DoubleCounts == Spec => []DoubleCountsAreKnown
<1>1. IInv => DoubleCountsAreKnown
  BY DEF IInv, TypeOK, BooksOK, BaselineIsClosed, BookedByDecision, DoubleCountsAreKnown
<1> QED
  BY <1>1, Invariance, PTL

-----------------------------------------------------------------------------
(***************************************************************************)
(* What is left in a lot: positions as sums.                               *)
(***************************************************************************)
Signed == [i \in Event |-> SignedQty(i)]

LEMMA PositionSums ==
    BrokerOK => \A S \in SUBSET Event : Position(S) = SumOver(Signed, S)
<1> SUFFICES ASSUME BrokerOK, NEW S \in SUBSET Event
             PROVE  Position(S) = SumOver(Signed, S)
  OBVIOUS
<1> DEFINE Step(g, T) == IF T = {} THEN 0
                         ELSE SignedQty(Picked(T)) + g[T \ {Picked(T)}]
           iter == CHOOSE g : g = [T \in SUBSET S |-> Step(g, T)]
<1>1. IsFiniteSet(S)
  BY EventsAreFinite, FS_Subset
<1>2. \A T \in SUBSET S : T # {} => Signed[Picked(T)] = SignedQty(Picked(T))
  BY PickedIsIn DEF Signed
<1>3. Position(S) = iter[S]
  BY DEF Position, MapThenSumSet, MapThenFoldSet, Picked
<1>4. PICK g : Sums(Signed, S, g)
  BY <1>1, SumsExist
<1>5. g = [T \in SUBSET S |-> Step(g, T)]
  BY <1>2, <1>4 DEF Sums
<1>6. iter = [T \in SUBSET S |-> Step(iter, T)]
  BY <1>5
<1> HIDE DEF iter
<1>7. Sums(Signed, S, iter)
  BY <1>2, <1>6 DEF Sums
<1> QED
  BY <1>1, <1>3, <1>7, SumIs

LEMMA SignedMeans ==
    ASSUME BrokerOK
    PROVE  \A i \in Event :
             /\ Signed[i] \in Int
             /\ history[i].kind = "BUY" => Signed[i] = history[i].qty
             /\ history[i].kind = "SELL" => Signed[i] = -history[i].qty
BY EventsAreNumbered DEF Signed, SignedQty, BrokerEvent

LEMMA LeftMeans ==
    ASSUME TypeOK, NEW lot \in Event
    PROVE  /\ Sold(lot) \in SUBSET Event /\ IsFiniteSet(Sold(lot))
           /\ history[lot].qty \in Nat
           /\ SumOver(Signed, Sold(lot)) \in Int
           /\ Left(lot) = history[lot].qty + SumOver(Signed, Sold(lot))
<1>1. Sold(lot) \in SUBSET Event
  BY DEF TypeOK, BooksOK, Sold
<1>2. IsFiniteSet(Sold(lot))
  BY <1>1, EventsAreFinite, FS_Subset DEF TypeOK
<1>3. SumOver(Signed, Sold(lot)) \in Int
  BY <1>1, <1>2, SignedMeans, SumIsAnInteger DEF TypeOK
<1>4. Position(Sold(lot)) = SumOver(Signed, Sold(lot))
  BY <1>1, PositionSums DEF TypeOK
<1>5. history[lot].qty \in Nat
  BY EventsAreNumbered DEF TypeOK, BrokerEvent
<1> QED
  BY <1>1, <1>2, <1>3, <1>4, <1>5 DEF Left

LEMMA LeftMeansNext ==
    (TypeOK => \A lot \in Event :
        Left(lot) = history[lot].qty + SumOver(Signed, Sold(lot)))'
<1>1. TypeOK => \A lot \in Event :
          Left(lot) = history[lot].qty + SumOver(Signed, Sold(lot))
  BY LeftMeans
<1> QED
  BY <1>1, PTL

\* Nothing is sold from a lot that has only just been booked.
LEMMA NewLotIsUnsold ==
    ASSUME TypeOK, BookedByDecision, NEW i \in Event, i \notin booked
    PROVE  Sold(i) = {}
BY EventsAreNumbered DEF Sold, BookedByDecision, TypeOK, BooksOK

LEMMA CoveredStep ==
    ASSUME TypeOK, BookedByDecision, LotsAreCovered, [Next]_vars
    PROVE  LotsAreCovered'
<1>0. /\ history' = history /\ Event' = Event /\ booked \subseteq Event
      /\ Signed' = Signed
  BY BrokerStep DEF TypeOK, BooksOK, Signed, SignedQty
<1>1. \A i \in booked : warrant'[i] = warrant[i]
  BY <1>0, DecisionEffects DEF BookedByDecision
<1>2. TypeOK'
  BY TypeStep
<1>3. \A lot \in Event : (Left(lot))' = history[lot].qty + SumOver(Signed, (Sold(lot))')
  BY <1>0, <1>2, LeftMeansNext
<1>4. SUFFICES ASSUME NEW lot \in booked', history[lot].kind = "BUY"
               PROVE  history[lot].qty + SumOver(Signed, (Sold(lot))') >= 0
  BY <1>0, <1>2, <1>3 DEF LotsAreCovered, TypeOK, BooksOK
<1>5. lot \in Event /\ (lot \in booked => Left(lot) >= 0)
  BY <1>0, <1>2, <1>4 DEF LotsAreCovered, TypeOK, BooksOK
<1>6. CASE booked' = booked
  <2>1. (Sold(lot))' = Sold(lot)
    BY <1>0, <1>1, <1>6 DEF Sold
  <2> QED
    BY <1>5, <1>6, <2>1, LeftMeans
<1>7. ASSUME NEW i \in Event, BookFill(i)
      PROVE  history[lot].qty + SumOver(Signed, (Sold(lot))') >= 0
  <2>1. booked' = booked \cup {i} /\ i \notin booked /\ warrant' = warrant /\ Recordable(i)
    BY <1>7 DEF BookFill, First, FillsToDo, quarantine
  <2>2. (Sold(lot))' = IF history[i].kind = "SELL" /\ warrant[i] = lot
                       THEN Sold(lot) \cup {i} ELSE Sold(lot)
    BY <1>0, <2>1 DEF Sold
  <2>3. CASE lot = i
    <3>1. (Sold(lot))' = {}
      BY <1>4, <2>1, <2>2, <2>3, NewLotIsUnsold
    <3> QED
      BY <1>5, <3>1, SumOfNone, LeftMeans
  <2>4. CASE lot # i /\ ~(history[i].kind = "SELL" /\ warrant[i] = lot)
    BY <1>5, <2>1, <2>2, <2>4, LeftMeans
  <2>5. CASE history[i].kind = "SELL" /\ warrant[i] = lot
    <3>1. history[i].qty <= Left(lot) /\ history[i].qty \in Nat /\ Signed[i] = -history[i].qty
      BY <2>1, <2>5, SignedMeans, LeftMeans DEF Recordable, TypeOK
    <3>2. /\ IsFiniteSet(Sold(lot)) /\ i \notin Sold(lot)
          /\ \A j \in Sold(lot) \cup {i} : Signed[j] \in Int
      BY <1>5, <2>1, LeftMeans, SignedMeans DEF Sold, TypeOK
    <3>3. SumOver(Signed, Sold(lot) \cup {i}) = SumOver(Signed, Sold(lot)) + Signed[i]
      BY <3>2, SumMore
    <3> QED
      BY <1>5, <2>2, <2>5, <3>1, <3>3, LeftMeans
  <2> QED
    BY <2>3, <2>4, <2>5
<1> QED
  BY <1>6, <1>7, RowEffects DEF Adjusts

(* For every history and every admission an operator may enter: the sales   *)
(* booked against a lot never exceed what the lot bought.                   *)
THEOREM CoveredLots == Spec => []LotsAreCovered
<1>1. Init => LotsAreCovered
  BY DEF Init, LotsAreCovered
<1>2. IInv /\ LotsAreCovered /\ [Next]_vars => LotsAreCovered'
  BY CoveredStep DEF IInv
<1> QED
  BY <1>1, <1>2, Invariance, PTL DEF Spec

-----------------------------------------------------------------------------
(***************************************************************************)
(* What a pass says of the decisions: figures as sums.                     *)
(***************************************************************************)
LEMMA SeedDecides ==
    ASSUME TypeOK, BookedByDecision, ReadsAreInOrder, FillsSynced, Seed
    PROVE  SeedIsDecided'
<1>0. /\ history' = history /\ Event' = Event /\ Fills' = Fills /\ Event \subseteq Nat
      /\ status \in [Event -> Standings] /\ booked \subseteq Event
      /\ now.happened \in Nat /\ cashRead \in Nat
  <2>1. happened \in Nat /\ Event \subseteq Nat
    BY EventsAreNumbered DEF TypeOK, BrokerOK
  <2> QED
    BY <2>1 DEF Seed, broker, Event, Fills, IsFill, TypeOK, BooksOK, DecisionsOK, CycleOK
<1>1. /\ pc = "seed" /\ Pending(Fills) = {} /\ status' = status
      /\ opening'.at = now.happened /\ opening'.read = cashRead
      /\ opening'.has = SeedFigure
  BY DEF Seed, quarantine
<1>2. \A i \in Fills : i <= now.happened => status[i] \in {"ADMITTED", "REJECTED"}
  BY <1>0, <1>1 DEF FillsSynced, Pending, Fills, Standings
<1>3. ASSUME NEW i \in Event
      PROVE  SeedFigure[i] \in -1..1 /\ (SeedFigure[i] = 1 => i <= cashRead)
  <2>1. SeedFigure[i] = BrokerCash(cashRead)[i]
                        - (IF booked = {} THEN 0 ELSE RowsCash(now.settled)[i])
    BY DEF SeedFigure
  <2>2. BrokerCash(cashRead)[i] = IF i <= cashRead THEN 1 ELSE 0
    BY DEF BrokerCash
  <2>3. RowsCash(now.settled)[i] \in {0, 1}
    BY DEF RowsCash
  <2> QED
    BY <2>1, <2>2, <2>3
<1> QED
  BY <1>0, <1>1, <1>2, <1>3 DEF SeedIsDecided

LEMMA SeedDecidedStep ==
    ASSUME TypeOK, BookedByDecision, ReadsAreInOrder, FillsSynced, SeedIsDecided,
           [Next]_vars
    PROVE  SeedIsDecided'
<1>1. CASE Seed
  BY <1>1, SeedDecides
<1>2. CASE opening' = opening
  <2>1. /\ history' = history /\ Event' = Event /\ Fills' = Fills /\ Fills \subseteq Event
    BY BrokerStep DEF TypeOK, Fills, IsFill
  <2>2. \A i \in Event : status[i] \in {"ADMITTED", "REJECTED"} => status'[i] = status[i]
    BY DecisionEffects
  <2> QED
    BY <1>2, <2>1, <2>2 DEF SeedIsDecided
<1>3. Seed \/ opening' = opening
  BY DEF Next, vars, CycleStep, SyncFills, SyncCash, Reconcile, Decide, Die, BrokerActs,
     NightPasses, BeginCycle, FetchFills, FillsDone, QuarantineFill, BookFill, FillRefused,
     FetchCash, ApplyCash, QuarantineCash, CashDone, ReadAccount, SeedDeferred,
     SeedPositions, Compare, Admit, Reject, CycleDies, DiesBeforeAudit, books
<1> QED
  BY <1>1, <1>2, <1>3

\* What the events of a figure are worth is a sum, and an integer.
LEMMA ValueSums ==
    ASSUME NEW h, IsFiniteSet(DOMAIN h), \A i \in DOMAIN h : h[i].cash \in Int,
           NEW figure \in [DOMAIN h -> Int]
    PROVE  Value(figure, h) \in Int
<1> DEFINE S == DOMAIN h
           F == [i \in S |-> figure[i] * h[i].cash]
           Step(g, T) == IF T = {} THEN 0
                         ELSE figure[Picked(T)] * h[Picked(T)].cash + g[T \ {Picked(T)}]
           iter == CHOOSE g : g = [T \in SUBSET S |-> Step(g, T)]
<1>1. \A T \in SUBSET S : T # {} => F[Picked(T)] = figure[Picked(T)] * h[Picked(T)].cash
  BY PickedIsIn
<1>2. Value(figure, h) = iter[S]
  BY DEF Value, MapThenSumSet, MapThenFoldSet, Picked
<1>3. PICK g : Sums(F, S, g)
  BY SumsExist
<1>4. g = [T \in SUBSET S |-> Step(g, T)]
  BY <1>1, <1>3 DEF Sums
<1>5. iter = [T \in SUBSET S |-> Step(iter, T)]
  BY <1>4
<1> HIDE DEF iter
<1>6. Sums(F, S, iter)
  BY <1>1, <1>5 DEF Sums
<1>7. \A i \in S : F[i] \in Int
  OBVIOUS
<1> HIDE DEF F, S
<1>8. SumOver(F, S) \in Int
  BY <1>7, SumIsAnInteger DEF S
<1> QED
  BY <1>2, <1>6, <1>8, SumIs DEF S

\* With amounts that tell, an agreement is an agreement event by event.
LEMMA AgreementIsExact ==
    ASSUME AmountsTell, TypeOK, SeedIsDecided, Agrees
    PROVE  LocalCash(now.settled) = BrokerCash(cashRead)
<1> DEFINE local == LocalCash(now.settled)
           theirs == BrokerCash(cashRead)
<1>1. local \in [Event -> -1..2] /\ theirs \in [Event -> 0..1]
  <2>1. \A i \in Event : RowsCash(now.settled)[i] \in 0..1
    BY DEF RowsCash
  <2>2. \A i \in Event : OpeningCash[i] \in -1..1
    BY DEF OpeningCash, SeedIsDecided
  <2>3. \A i \in Event : local[i] \in -1..2
    BY <2>1, <2>2 DEF LocalCash
  <2> QED
    BY <2>3 DEF LocalCash, BrokerCash
<1>2. history \in Histories /\ Event = DOMAIN history
  BY DEF TypeOK, BrokerOK, Event
<1>3. Worth(local) = Funds + Value(local, history)
      /\ Worth(theirs) = Funds + Value(theirs, history)
  BY DEF Worth
<1>4. Worth(local) = Worth(theirs)
  BY DEF Agrees
<1>5. IsFiniteSet(Event) /\ \A i \in Event : history[i].cash \in Int
  BY EventsAreFinite, EventsAreNumbered DEF TypeOK, BrokerEvent
<1>6. local \in [Event -> Int] /\ theirs \in [Event -> Int]
  BY <1>1
<1> HIDE DEF local, theirs
<1>7. Value(local, history) \in Int /\ Value(theirs, history) \in Int
  BY <1>2, <1>5, <1>6, ValueSums
<1>8. Value(local, history) = Value(theirs, history)
  <2>1. \A a, b \in Int : Funds + a = Funds + b => a = b
    BY FundsAssumption
  <2>2. Funds + Value(local, history) = Funds + Value(theirs, history)
    BY <1>3, <1>4
  <2> QED
    BY <1>7, <2>1, <2>2
<1>9. local = theirs
  BY <1>1, <1>2, <1>8 DEF AmountsTell
<1> QED
  BY <1>9 DEF local, theirs

(* Where the amounts of the account tell figures apart: a reconciliation    *)
(* never passes, and so trading is never resumed, while an execution the    *)
(* account figure contains awaits the operator's decision, those of the     *)
(* seeding cycle apart.                                                    *)
THEOREM PassesAreDecided == AmountsTell => (Spec => PassMeansDecided)
<1> SUFFICES ASSUME AmountsTell PROVE Spec => PassMeansDecided
  OBVIOUS
<1>1. Init => SeedIsDecided
  BY DEF Init, SeedIsDecided, NotSeeded
<1>2. IInv /\ SeedIsDecided /\ [Next]_vars => SeedIsDecided'
  BY SeedDecidedStep DEF IInv
<1> DEFINE Decided ==
      \A i \in Fills : i <= cashRead => status[i] \in {"ADMITTED", "REJECTED"} \/ Raced(i)
<1>3. ASSUME IInv, SeedIsDecided, verdict' = "pass", Compare PROVE Decided
  <2>1. Agrees
    BY <1>3 DEF Compare, EndCycle
  <2>2. LocalCash(now.settled) = BrokerCash(cashRead)
    BY <1>3, <2>1, AgreementIsExact DEF IInv
  <2> SUFFICES ASSUME NEW i \in Fills, i <= cashRead,
                      status[i] \notin {"ADMITTED", "REJECTED"}
               PROVE  Raced(i)
    OBVIOUS
  <2>3. i \in Event /\ IsFill(i) /\ i \in Nat
    BY <1>3, EventsAreNumbered DEF Fills, IInv, TypeOK
  <2>4. i \notin booked /\ i \notin adjusted
    BY <1>3, <2>3 DEF IInv, BookedByDecision
  <2>5. RowsCash(now.settled)[i] = 0 /\ BrokerCash(cashRead)[i] = 1
    BY <2>3, <2>4 DEF RowsCash, InRows, BrokerCash
  <2>6. LocalCash(now.settled)[i] = OpeningCash[i] + RowsCash(now.settled)[i]
    BY <2>3 DEF LocalCash
  <2>7. opening.seeded /\ opening.has[i] = 1
    BY <1>3, <2>2, <2>3, <2>5, <2>6 DEF OpeningCash, SeedIsDecided
  <2>8. i <= opening.read /\ ~(i <= opening.at)
    BY <1>3, <2>3, <2>7 DEF SeedIsDecided
  <2>9. opening.at \in Nat
    <3>1. NotSeeded.seeded = FALSE
      BY DEF NotSeeded
    <3>2. opening # NotSeeded
      BY <2>7, <3>1, Zenon
    <3> QED
      BY <1>3, <3>2 DEF IInv, TypeOK, BooksOK, Openings
  <2> QED
    BY <2>3, <2>8, <2>9 DEF Raced
<1>4. Spec => []SeedIsDecided
  BY <1>1, <1>2, Invariance, PTL DEF Spec
<1> QED
  BY <1>3, <1>4, Invariance, PTL DEF Spec, PassMeansDecided

-----------------------------------------------------------------------------
Lost == {i \in Event : status[i] # "unseen" \/ i \in adjusted} \ audited

LEMMA LostStep ==
    ASSUME TypeOK, [Next]_vars
    PROVE  \/ Lost' \subseteq Lost /\ deaths' = deaths
           \/ Lost' \subseteq Lost /\ deaths' = deaths + 1
           \/ \E i \in Event : Lost' \subseteq Lost \cup {i} /\ deaths' = deaths + 1
<1>0. Event' = Event /\ status \in [Event -> Standings]
  BY BrokerStep DEF TypeOK, DecisionsOK
<1>1. CASE UNCHANGED <<status, adjusted, audited, deaths>>
  BY <1>0, <1>1 DEF Lost
<1>2. ASSUME NEW i \in Event, QuarantineFill(i) \/ QuarantineCash(i)
      PROVE  Lost' \subseteq Lost /\ deaths' = deaths
  BY <1>0, <1>2 DEF QuarantineFill, QuarantineCash, books, Lost
<1>3. ASSUME NEW i \in Event, ApplyCash(i)
      PROVE  Lost' \subseteq Lost /\ deaths' = deaths
  BY <1>0, <1>3 DEF ApplyCash, quarantine, Lost
<1>4. ASSUME NEW i \in Event,
             Reject(i) \/ \E w \in Event \cup {0} : Admit(i, w)
      PROVE  Lost' \subseteq Lost /\ deaths' = deaths
  BY <1>0, <1>4 DEF Reject, Admit, books, Lost
<1>5. CASE CycleDies
  BY <1>0, <1>5 DEF CycleDies, quarantine, books, Lost
<1>6. ASSUME NEW i \in Event, DiesBeforeAudit(i)
      PROVE  Lost' \subseteq Lost \cup {i} /\ deaths' = deaths + 1
  BY <1>0, <1>6 DEF DiesBeforeAudit, Lost
<1>7. \/ UNCHANGED <<status, adjusted, audited, deaths>> \/ CycleDies
      \/ \E i \in Event : QuarantineFill(i) \/ QuarantineCash(i) \/ ApplyCash(i)
                          \/ Reject(i) \/ (\E w \in Event \cup {0} : Admit(i, w))
                          \/ DiesBeforeAudit(i)
  BY DEF Next, vars, CycleStep, SyncFills, SyncCash, Reconcile, Decide, Die, BrokerActs,
     NightPasses, BeginCycle, FetchFills, FillsDone, BookFill, FillRefused, FetchCash,
     CashDone, ReadAccount, SeedDeferred, Seed, SeedPositions, Compare, books, quarantine
<1> QED
  BY <1>1, <1>2, <1>3, <1>4, <1>5, <1>6, <1>7

LEMMA LostIsFinite == BrokerOK => IsFiniteSet(Lost)
BY EventsAreFinite, FS_Subset DEF Lost

(* For every history and any number of deaths: what was discovered or      *)
(* admitted without an audit row is at most one event for each death.      *)
THEOREM LostAudits == Spec => []LostAuditsAreDeaths
<1> DEFINE Few == Cardinality(Lost) <= deaths
<1>1. Init => Few
  <2> SUFFICES ASSUME Init PROVE Few
    OBVIOUS
  <2>1. Lost = {}
    BY DEF Init, Lost
  <2> QED
    BY <2>1, FS_EmptySet DEF Init
<1>2. TypeOK /\ Few /\ [Next]_vars => Few'
  <2> SUFFICES ASSUME TypeOK, Few, [Next]_vars PROVE Few'
    OBVIOUS
  <2>1. IsFiniteSet(Lost) /\ Cardinality(Lost) \in Nat /\ deaths \in Nat
    BY LostIsFinite, FS_CardinalityType, BoundsAssumption DEF TypeOK, CycleOK
  <2>2. ASSUME Lost' \subseteq Lost
        PROVE  Cardinality(Lost') \in Nat /\ Cardinality(Lost') <= Cardinality(Lost)
    BY <2>1, <2>2, FS_Subset, FS_CardinalityType
  <2>3. ASSUME NEW i \in Event, Lost' \subseteq Lost \cup {i}
        PROVE  Cardinality(Lost') \in Nat /\ Cardinality(Lost') <= Cardinality(Lost) + 1
    <3>1. /\ IsFiniteSet(Lost \cup {i}) /\ Cardinality(Lost \cup {i}) \in Nat
          /\ Cardinality(Lost \cup {i}) <= Cardinality(Lost) + 1
      <4>1. /\ IsFiniteSet(Lost \cup {i})
            /\ \/ Cardinality(Lost \cup {i}) = Cardinality(Lost)
               \/ Cardinality(Lost \cup {i}) = Cardinality(Lost) + 1
        BY <2>1, FS_AddElement
      <4> QED
        BY <2>1, <4>1
    <3>2. /\ Cardinality(Lost') \in Nat
          /\ Cardinality(Lost') <= Cardinality(Lost \cup {i})
      BY <2>3, <3>1, FS_Subset, FS_CardinalityType
    <3> QED
      BY <2>1, <3>1, <3>2
  <2> QED
    BY <2>1, <2>2, <2>3, LostStep
<1>3. Few => LostAuditsAreDeaths
  BY DEF Lost, LostAuditsAreDeaths
<1> QED
  BY <1>1, <1>2, <1>3, TypeCorrect, PTL DEF Spec

-----------------------------------------------------------------------------
(* The feed the cycles synchronise from *)

CONSTANTS
    Ours, Theirs, FillActivities, OrderOf, Malformed, Untimed, PageSize, MaxRetries, MaxFaults,
    None
VARIABLES feed, keys, proc, local, standing, elapsed, faults, begun
F == INSTANCE BrokerFeed WITH Fills <- FillActivities

\* What BrokerFeed assumes of its constants.
FeedConstants ==
    /\ Ours \cap Theirs = {} /\ FillActivities \subseteq F!Activities
    /\ None \notin F!Activities /\ Malformed \subseteq F!Activities
    /\ Untimed \subseteq FillActivities
    /\ PageSize \in Nat \ {0} /\ MaxRetries \in Nat /\ MaxFaults \in Nat

LEMMA FeedNumbers ==
    ASSUME FeedConstants
    PROVE  /\ Ours \cap Theirs = {} /\ FillActivities \subseteq F!Activities
           /\ None \notin F!Activities
           /\ PageSize \in Nat \ {0} /\ MaxRetries \in Nat /\ MaxFaults \in Nat
BY DEF FeedConstants

\* A sequence with an element put in at a place.
PutIn(t, s, at, e) ==
    /\ Len(t) = Len(s) + 1
    /\ \A i \in 1..(Len(s) + 1) :
           t[i] = IF i < at THEN s[i] ELSE IF i = at THEN e ELSE s[i - 1]

LEMMA InsertFacts ==
    ASSUME NEW S, NEW s \in Seq(S), NEW e \in S, NEW at \in 1..(Len(s) + 1)
    PROVE  F!InsertAt(s, at, e) \in Seq(S) /\ PutIn(F!InsertAt(s, at, e), s, at, e)
<1> DEFINE before == SubSeq(s, 1, at - 1)
           after == SubSeq(s, at, Len(s))
           one == <<e>>
<1>1. Len(s) \in Nat /\ at \in Nat /\ at - 1 \in Int /\ 1 <= at /\ at <= Len(s) + 1
  BY LenProperties
<1>2. /\ \A i \in 1..(at - 1) : s[i] \in S
      /\ \A i \in at..Len(s) : s[i] \in S
  BY <1>1, ElementOfSeq
<1>3. /\ before \in Seq(S) /\ Len(before) = at - 1
      /\ \A i \in 1..(at - 1) : before[i] = s[i]
  BY <1>1, <1>2, SubSeqProperties
<1>4. /\ after \in Seq(S) /\ Len(after) = Len(s) - at + 1
      /\ \A i \in 1..(Len(s) - at + 1) : after[i] = s[at + i - 1]
  BY <1>1, <1>2, SubSeqProperties
<1>5. one \in Seq(S) /\ Len(one) = 1 /\ one[1] = e
  OBVIOUS
<1> HIDE DEF before, after, one
<1>6. /\ before \o one \in Seq(S) /\ Len(before \o one) = at
      /\ \A i \in 1..at : (before \o one)[i] = IF i < at THEN s[i] ELSE e
  <2>1. /\ before \o one \in Seq(S)
        /\ Len(before \o one) = Len(before) + Len(one)
        /\ \A i \in 1..(Len(before) + Len(one)) :
               (before \o one)[i] = IF i <= Len(before) THEN before[i] ELSE one[i - Len(before)]
    BY <1>3, <1>5, ConcatProperties
  <2> QED
    BY <1>1, <1>3, <1>5, <2>1
<1>7. /\ (before \o one) \o after \in Seq(S)
      /\ Len((before \o one) \o after) = Len(before \o one) + Len(after)
      /\ \A i \in 1..(Len(before \o one) + Len(after)) :
             ((before \o one) \o after)[i] =
                 IF i <= Len(before \o one) THEN (before \o one)[i]
                 ELSE after[i - Len(before \o one)]
  BY <1>4, <1>6, ConcatProperties
<1>8. F!InsertAt(s, at, e) = (before \o one) \o after
  BY DEF F!InsertAt, before, one, after
<1> QED
  BY <1>1, <1>4, <1>6, <1>7, <1>8 DEF PutIn

LEMMA InsertedSet ==
    ASSUME NEW S, NEW s \in Seq(S), NEW e \in S, NEW at \in 1..(Len(s) + 1)
    PROVE  /\ F!ToSet(F!InsertAt(s, at, e)) = F!ToSet(s) \cup {e}
           /\ \A i \in DOMAIN s :
                  F!InsertAt(s, at, e)[IF i < at THEN i ELSE i + 1] = s[i]
           /\ F!IsInjective(s) /\ e \notin F!ToSet(s) => F!IsInjective(F!InsertAt(s, at, e))
<1> DEFINE t == F!InsertAt(s, at, e)
<1> HIDE DEF t
<1>0. F!InsertAt(s, at, e) \in Seq(S) /\ PutIn(F!InsertAt(s, at, e), s, at, e)
  BY InsertFacts
<1>1. /\ t \in Seq(S) /\ Len(t) = Len(s) + 1
      /\ \A i \in 1..(Len(s) + 1) :
             t[i] = IF i < at THEN s[i] ELSE IF i = at THEN e ELSE s[i - 1]
  BY <1>0 DEF t, PutIn
<1>2. /\ DOMAIN t = 1..(Len(s) + 1) /\ DOMAIN s = 1..Len(s) /\ Len(s) \in Nat
      /\ at \in Nat /\ 1 <= at /\ at <= Len(s) + 1
  BY <1>1, LenProperties
<1>3. \A i \in DOMAIN s :
          (IF i < at THEN i ELSE i + 1) \in DOMAIN t /\ t[IF i < at THEN i ELSE i + 1] = s[i]
  BY <1>1, <1>2
<1>4. at \in DOMAIN t /\ t[at] = e
  BY <1>1, <1>2
<1>5. \A i \in DOMAIN t : \/ t[i] = e
                          \/ \E j \in DOMAIN s : t[i] = s[j]
  BY <1>1, <1>2
<1>6. F!ToSet(t) = F!ToSet(s) \cup {e}
  BY <1>3, <1>4, <1>5 DEF F!ToSet
<1>7. ASSUME F!IsInjective(s), e \notin F!ToSet(s) PROVE F!IsInjective(t)
  <2>1. ASSUME NEW i \in DOMAIN t, NEW j \in DOMAIN t, t[i] = t[j], i < j PROVE FALSE
    <3>1. \A k \in DOMAIN s : s[k] # e
      BY <1>7 DEF F!ToSet
    <3>2. CASE i = at
      <4>1. t[i] = e /\ t[j] = s[j - 1] /\ j - 1 \in DOMAIN s
        BY <1>1, <1>2, <2>1, <3>2
      <4> QED
        BY <2>1, <3>1, <4>1
    <3>3. CASE i < at /\ j = at
      <4>1. t[j] = e /\ t[i] = s[i] /\ i \in DOMAIN s
        BY <1>1, <1>2, <2>1, <3>3
      <4> QED
        BY <2>1, <3>1, <4>1
    <3>4. CASE i # at /\ j # at
      <4> DEFINE k == IF i < at THEN i ELSE i - 1
                 l == IF j < at THEN j ELSE j - 1
      <4>1. t[i] = s[k] /\ t[j] = s[l] /\ k \in DOMAIN s /\ l \in DOMAIN s /\ k # l
        BY <1>1, <1>2, <2>1, <3>4
      <4> QED
        BY <1>7, <2>1, <4>1 DEF F!IsInjective
    <3> QED
      BY <1>2, <2>1, <3>2, <3>3, <3>4
  <2>2. \A i, j \in DOMAIN t : i < j \/ j < i \/ i = j
    BY <1>2
  <2> QED
    BY <2>1, <2>2 DEF F!IsInjective
<1> QED
  BY <1>3, <1>6, <1>7 DEF t

LEMMA FeedInit == F!Init => F!IInv
<1> SUFFICES ASSUME F!Init PROVE F!IInv
  OBVIOUS
<1> USE DEF F!Init, F!Accounts, F!Endpoints
<1>1. <<>> \in Seq(F!Activities) /\ DOMAIN <<>> = {} /\ F!ToSet(<<>>) = {}
  BY DEF F!ToSet
<1>2. F!Down \in F!Processes /\ F!Down.pc = "down" /\ F!Down.token = None /\ F!Down.got = <<>>
  BY <1>1 DEF F!Down, F!Processes
<1>3. F!TypeOK
  <2>1. standing \in [FillActivities -> F!Standings] /\ elapsed \subseteq FillActivities
    BY DEF F!Standings
  <2>2. /\ feed \in [F!Accounts -> [F!Endpoints -> Seq(F!Activities)]] /\ keys \in F!Accounts
        /\ proc \in F!Processes /\ local \in Seq(F!Activities) /\ begun \subseteq F!Activities
    BY <1>1, <1>2
  <2> QED
    BY <2>1, <2>2 DEF F!TypeOK
<1>4. F!ListedOnce
  BY <1>1 DEF F!ListedOnce, F!IsInjective
<1> QED
  BY <1>2, <1>3, <1>4 DEF F!IInv, F!PagesAreRead, F!WholeFeedIsRead

\* The page that follows the first from activities of a list.
LEMMA PageFacts ==
    ASSUME FeedConstants, NEW list \in Seq(F!Activities), NEW from \in 0..Len(list)
    PROVE  LET upTo == IF from + PageSize < Len(list) THEN from + PageSize ELSE Len(list) IN
           /\ F!PageFrom(list, from) \in Seq(F!Activities)
           /\ Len(F!PageFrom(list, from)) = upTo - from
           /\ \A i \in 1..(upTo - from) : F!PageFrom(list, from)[i] = list[from + i]
<1> DEFINE upTo == IF from + PageSize < Len(list) THEN from + PageSize ELSE Len(list)
<1>1. /\ Len(list) \in Nat /\ from \in Nat /\ PageSize \in Nat \ {0}
      /\ upTo \in from..Len(list) /\ from + 1 \in Int
  BY LenProperties, FeedNumbers
<1>2. \A i \in (from + 1)..upTo : list[i] \in F!Activities
  BY <1>1, ElementOfSeq
<1>3. F!PageFrom(list, from) = SubSeq(list, from + 1, upTo)
  BY DEF F!PageFrom
<1> HIDE DEF upTo
<1>4. /\ SubSeq(list, from + 1, upTo) \in Seq(F!Activities)
      /\ Len(SubSeq(list, from + 1, upTo)) =
             IF from + 1 <= upTo THEN upTo - (from + 1) + 1 ELSE 0
      /\ \A i \in 1..(upTo - (from + 1) + 1) :
             SubSeq(list, from + 1, upTo)[i] = list[from + 1 + i - 1]
  BY <1>1, <1>2, SubSeqProperties
<1>5. /\ F!PageFrom(list, from) \in Seq(F!Activities)
      /\ Len(F!PageFrom(list, from)) = upTo - from
      /\ \A i \in 1..(upTo - from) : F!PageFrom(list, from)[i] = list[from + i]
  BY <1>1, <1>3, <1>4
<1> QED
  BY <1>5 DEF upTo

\* Received in a call: what was received, and the page, which is new.
LEMMA Received ==
    ASSUME NEW list \in Seq(F!Activities), F!IsInjective(list),
           NEW got \in Seq(F!Activities), F!IsInjective(got),
           NEW from \in 0..Len(list), NEW upTo \in from..Len(list),
           \A a \in F!ToSet(got) : \E j \in 1..from : a = list[j],
           NEW page \in Seq(F!Activities), Len(page) = upTo - from,
           \A i \in 1..(upTo - from) : page[i] = list[from + i]
    PROVE  /\ got \o page \in Seq(F!Activities) /\ F!IsInjective(got \o page)
           /\ F!ToSet(got) \subseteq F!ToSet(got \o page)
           /\ \A j \in (from + 1)..upTo : list[j] \in F!ToSet(got \o page)
           /\ \A a \in F!ToSet(got \o page) : \E j \in 1..upTo : a = list[j]
           /\ from < upTo => got \o page # <<>> /\ F!Last(got \o page) = list[upTo]
<1> DEFINE all == got \o page
           n == Len(got)
<1>1. /\ n \in Nat /\ DOMAIN got = 1..n /\ Len(list) \in Nat /\ DOMAIN list = 1..Len(list)
      /\ from \in Nat /\ upTo \in Nat /\ from <= upTo /\ upTo <= Len(list)
  BY LenProperties
<1>2. /\ got \o page \in Seq(F!Activities) /\ Len(got \o page) = n + (upTo - from)
      /\ \A i \in 1..(n + (upTo - from)) :
             (got \o page)[i] = IF i <= n THEN got[i] ELSE page[i - n]
  <2>1. /\ got \o page \in Seq(F!Activities) /\ Len(got \o page) = Len(got) + Len(page)
        /\ \A i \in 1..(Len(got) + Len(page)) :
               (got \o page)[i] = IF i <= Len(got) THEN got[i] ELSE page[i - Len(got)]
    BY ConcatProperties
  <2> QED
    BY <2>1
<1> HIDE DEF all, n
<1>3. all \in Seq(F!Activities) /\ Len(all) = n + (upTo - from)
  BY <1>2 DEF all
<1>4. DOMAIN all = 1..(n + (upTo - from))
  BY <1>3, LenProperties
<1>5. /\ \A i \in 1..n : all[i] = got[i]
      /\ \A i \in (n + 1)..(n + (upTo - from)) : all[i] = list[from + (i - n)]
  <2>1. \A i \in 1..(n + (upTo - from)) : all[i] = IF i <= n THEN got[i] ELSE page[i - n]
    BY <1>2 DEF all
  <2>2. ASSUME NEW i \in 1..n PROVE all[i] = got[i]
    <3>1. i \in 1..(n + (upTo - from)) /\ i <= n
      BY <1>1
    <3> QED
      BY <2>1, <3>1
  <2>3. ASSUME NEW i \in (n + 1)..(n + (upTo - from)) PROVE all[i] = list[from + (i - n)]
    <3>1. i \in 1..(n + (upTo - from)) /\ ~(i <= n) /\ i - n \in 1..(upTo - from)
      BY <1>1
    <3>2. all[i] = page[i - n]
      BY <2>1, <3>1
    <3>3. page[i - n] = list[from + (i - n)]
      BY <3>1
    <3> QED
      BY <3>2, <3>3
  <2> QED
    BY <2>2, <2>3
<1>6. \A i \in 1..n : got[i] \in F!ToSet(got)
  BY <1>1 DEF F!ToSet
<1>7. \A i \in 1..n : \E j \in 1..from : all[i] = list[j]
  BY <1>5, <1>6
<1>8. F!IsInjective(all)
  <2> SUFFICES ASSUME NEW i \in DOMAIN all, NEW j \in DOMAIN all, all[i] = all[j], i < j
               PROVE  FALSE
    BY <1>1, <1>4 DEF F!IsInjective
  <2>1. CASE j <= n
    BY <1>1, <1>4, <1>5, <2>1 DEF F!IsInjective
  <2>2. CASE i > n
    <3>1. /\ from + (i - n) \in DOMAIN list /\ from + (j - n) \in DOMAIN list
          /\ from + (i - n) # from + (j - n)
      BY <1>1, <1>4, <2>2
    <3>2. i \in (n + 1)..(n + (upTo - from)) /\ j \in (n + 1)..(n + (upTo - from))
      BY <1>1, <1>4, <2>2
    <3>3. all[i] = list[from + (i - n)] /\ all[j] = list[from + (j - n)]
      BY <1>5, <3>2
    <3> QED
      BY <3>1, <3>3 DEF F!IsInjective
  <2>3. CASE i <= n /\ j > n
    <3>1. i \in 1..n /\ j \in (n + 1)..(n + (upTo - from))
      BY <1>1, <1>4, <2>3
    <3>2. PICK k \in 1..from : all[i] = list[k]
      BY <1>7, <3>1
    <3>3. all[j] = list[from + (j - n)]
      BY <1>5, <3>1
    <3>4. from + (j - n) \in DOMAIN list /\ k \in DOMAIN list /\ k # from + (j - n)
      BY <1>1, <3>1
    <3>5. list[k] = list[from + (j - n)]
      BY <3>2, <3>3
    <3> QED
      BY <3>4, <3>5 DEF F!IsInjective
  <2> QED
    BY <1>1, <1>4, <2>1, <2>2, <2>3
<1>9. F!ToSet(got) \subseteq F!ToSet(all)
  <2>1. \A i \in DOMAIN got : i \in DOMAIN all /\ all[i] = got[i]
    BY <1>1, <1>4, <1>5
  <2> QED
    BY <2>1 DEF F!ToSet
<1>10. \A j \in (from + 1)..upTo : list[j] \in F!ToSet(all)
  <2> SUFFICES ASSUME NEW j \in (from + 1)..upTo PROVE list[j] \in F!ToSet(all)
    OBVIOUS
  <2> DEFINE i == n + (j - from)
  <2>1. i \in DOMAIN all /\ i \in (n + 1)..(n + (upTo - from)) /\ from + (i - n) = j
    BY <1>1, <1>4
  <2>2. all[i] = list[j]
    BY <1>5, <2>1
  <2> QED
    BY <2>1, <2>2 DEF F!ToSet
<1>11. \A a \in F!ToSet(all) : \E j \in 1..upTo : a = list[j]
  <2> SUFFICES ASSUME NEW i \in DOMAIN all PROVE \E j \in 1..upTo : all[i] = list[j]
    BY DEF F!ToSet
  <2>1. CASE i <= n
    BY <1>1, <1>4, <1>7, <2>1
  <2>2. CASE i > n
    <3>1. all[i] = list[from + (i - n)] /\ from + (i - n) \in 1..upTo
      BY <1>1, <1>4, <1>5, <2>2
    <3> QED
      BY <3>1
  <2> QED
    BY <1>1, <1>4, <2>1, <2>2
<1>12. ASSUME from < upTo PROVE all # <<>> /\ F!Last(all) = list[upTo]
  <2>1. n + (upTo - from) \in (n + 1)..(n + (upTo - from)) /\ n + (upTo - from) # 0
        /\ from + ((n + (upTo - from)) - n) = upTo
    BY <1>1, <1>12
  <2> QED
    BY <1>3, <1>5, <2>1, EmptySeq DEF F!Last
<1> QED
  BY <1>3, <1>8, <1>9, <1>10, <1>11, <1>12 DEF all

LEMMA ListIs ==
    ASSUME F!TypeOK, F!ListedOnce, NEW endpoint \in F!Endpoints
    PROVE  F!Listed(endpoint) \in Seq(F!Activities) /\ F!IsInjective(F!Listed(endpoint))
BY DEF F!TypeOK, F!ListedOnce, F!Listed

\* Where a call stands in what the endpoint lists now.
LEMMA Cursor ==
    ASSUME F!IInv, NEW endpoint \in F!Endpoints, NEW then, F!FetchPage(endpoint, then)
    PROVE  \E from \in 0..Len(F!Listed(endpoint)) :
               /\ F!PageAfter(F!Listed(endpoint), proc.token, proc.got)
                      = F!PageFrom(F!Listed(endpoint), from)
               /\ F!IsInjective(proc.got)
               /\ begun' \subseteq F!ToSet(F!Listed(endpoint))
               /\ \A j \in 1..from : F!Listed(endpoint)[j] \in begun' =>
                                           F!Listed(endpoint)[j] \in F!ToSet(proc.got)
               /\ \A a \in F!ToSet(proc.got) : \E j \in 1..from : a = F!Listed(endpoint)[j]
<1> DEFINE list == F!Listed(endpoint)
<1>1. list \in Seq(F!Activities) /\ F!IsInjective(list)
  BY ListIs DEF F!IInv
<1>2. Len(list) \in Nat /\ DOMAIN list = 1..Len(list)
  BY <1>1, LenProperties
<1>3. /\ proc.pc = endpoint /\ F!IsInjective(proc.got)
      /\ proc.token = None => proc.got = <<>>
      /\ proc.token # None => /\ begun \subseteq F!ToSet(list)
                               /\ \E p \in DOMAIN list : F!ReadUpTo(list, p)
      /\ begun' = IF proc.token = None THEN F!ToSet(list) ELSE begun
  BY DEF F!IInv, F!PagesAreRead, F!FetchPage
<1> HIDE DEF list
<1>4. CASE proc.token = None
  <2>1. 0 \in 0..Len(list) /\ 1..0 = {}
    BY <1>2
  <2>2. F!ToSet(proc.got) = {}
    BY <1>3, <1>4 DEF F!ToSet
  <2>3. F!PageAfter(list, proc.token, proc.got) = F!PageFrom(list, 0)
    BY <1>4 DEF F!PageAfter
  <2> QED
    BY <1>3, <1>4, <2>1, <2>2, <2>3 DEF list
<1>5. CASE proc.token # None
  <2>1. PICK p \in DOMAIN list : F!ReadUpTo(list, p)
    BY <1>3, <1>5
  <2>2. (CHOOSE i \in DOMAIN list : list[i] = proc.token) = p
    BY <1>1, <2>1 DEF F!ReadUpTo, F!IsInjective
  <2>3. F!PageAfter(list, proc.token, proc.got) = F!PageFrom(list, p)
    BY <1>5, <2>2 DEF F!PageAfter
  <2>4. p \in 0..Len(list)
    BY <1>2
  <2> QED
    BY <1>3, <1>5, <2>1, <2>3, <2>4 DEF list, F!ReadUpTo
<1> QED
  BY <1>4, <1>5

LEMMA FetchStep ==
    ASSUME FeedConstants, F!IInv, NEW endpoint \in F!Endpoints,
           NEW then \in {"lookup", "store_cash"},
           F!FetchPage(endpoint, then)
    PROVE  F!IInv'
<1> DEFINE list == F!Listed(endpoint)
           page == F!PageAfter(list, proc.token, proc.got)
           got == proc.got \o page
<1>1. list \in Seq(F!Activities) /\ F!IsInjective(list)
  BY ListIs DEF F!IInv
<1>2. Len(list) \in Nat /\ DOMAIN list = 1..Len(list) /\ PageSize \in Nat \ {0}
  BY <1>1, LenProperties, FeedNumbers
<1>3. PICK from \in 0..Len(list) :
          /\ page = F!PageFrom(list, from) /\ F!IsInjective(proc.got)
          /\ begun' \subseteq F!ToSet(list)
          /\ \A j \in 1..from : list[j] \in begun' => list[j] \in F!ToSet(proc.got)
          /\ \A a \in F!ToSet(proc.got) : \E j \in 1..from : a = list[j]
  BY Cursor
<1>4. PICK upTo \in from..Len(list) :
          /\ page \in Seq(F!Activities) /\ Len(page) = upTo - from
          /\ \A i \in 1..(upTo - from) : page[i] = list[from + i]
          /\ Len(page) # PageSize => upTo = Len(list)
  <2> HIDE DEF list, page
  <2> DEFINE last == IF from + PageSize < Len(list) THEN from + PageSize ELSE Len(list)
  <2>1. LET m == IF from + PageSize < Len(list) THEN from + PageSize ELSE Len(list) IN
           /\ F!PageFrom(list, from) \in Seq(F!Activities)
           /\ Len(F!PageFrom(list, from)) = m - from
           /\ \A i \in 1..(m - from) : F!PageFrom(list, from)[i] = list[from + i]
    BY <1>1, PageFacts
  <2>2. last \in from..Len(list) /\ (last - from # PageSize => last = Len(list))
    BY <1>2
  <2> QED
    BY <1>3, <2>1, <2>2
<1>5. /\ F!TypeOK /\ F!ListedOnce /\ proc \in F!Processes /\ proc.pc = endpoint
      /\ proc.got \in Seq(F!Activities)
      /\ proc' = F!Answered(
             IF Len(page) = PageSize
             THEN [proc EXCEPT !.got = got, !.token = F!Last(got)]
             ELSE [proc EXCEPT !.got = got, !.token = None, !.pc = then,
                               !.orders = {OrderOf[a] : a \in F!ToSet(got) \cap FillActivities}])
      /\ UNCHANGED <<feed, keys, local, standing, elapsed, faults>>
  BY DEF F!IInv, F!TypeOK, F!Processes, F!FetchPage, F!books
<1>6. list' = list
  BY <1>5 DEF F!Listed
<1> HIDE DEF list, page, got
<1>7. upTo \in from..Len(list)
  OBVIOUS
<1>8. /\ got \in Seq(F!Activities) /\ F!IsInjective(got)
      /\ F!ToSet(proc.got) \subseteq F!ToSet(got)
      /\ \A j \in (from + 1)..upTo : list[j] \in F!ToSet(got)
      /\ \A a \in F!ToSet(got) : \E j \in 1..upTo : a = list[j]
      /\ from < upTo => got # <<>> /\ F!Last(got) = list[upTo]
  <2>1. /\ proc.got \o page \in Seq(F!Activities) /\ F!IsInjective(proc.got \o page)
        /\ F!ToSet(proc.got) \subseteq F!ToSet(proc.got \o page)
        /\ \A j \in (from + 1)..upTo : list[j] \in F!ToSet(proc.got \o page)
        /\ \A a \in F!ToSet(proc.got \o page) : \E j \in 1..upTo : a = list[j]
        /\ from < upTo => proc.got \o page # <<>> /\ F!Last(proc.got \o page) = list[upTo]
    <3> DEFINE old == proc.got
    <3>1. old \in Seq(F!Activities) /\ F!IsInjective(old)
          /\ \A a \in F!ToSet(old) : \E j \in 1..from : a = list[j]
      BY <1>3, <1>5
    <3> HIDE DEF old
    <3>2. /\ old \o page \in Seq(F!Activities) /\ F!IsInjective(old \o page)
          /\ F!ToSet(old) \subseteq F!ToSet(old \o page)
          /\ \A j \in (from + 1)..upTo : list[j] \in F!ToSet(old \o page)
          /\ \A a \in F!ToSet(old \o page) : \E j \in 1..upTo : a = list[j]
          /\ from < upTo => old \o page # <<>> /\ F!Last(old \o page) = list[upTo]
      <4>1. \A i \in 1..(upTo - from) : page[i] = list[from + i]
        BY <1>4
      <4>2. page \in Seq(F!Activities) /\ Len(page) = upTo - from
        BY <1>4
      <4>3. /\ list \in Seq(F!Activities) /\ F!IsInjective(list)
            /\ from \in 0..Len(list) /\ upTo \in from..Len(list)
        BY <1>1, <1>7
      <4> QED
        BY <4>1, <4>2, <4>3, <3>1, Received
    <3> QED
      BY <3>2 DEF old
  <2> QED
    BY <2>1 DEF got
<1>9. \A j \in 1..upTo : list[j] \in begun' => list[j] \in F!ToSet(got)
  <2> SUFFICES ASSUME NEW j \in 1..upTo, list[j] \in begun' PROVE list[j] \in F!ToSet(got)
    OBVIOUS
  <2>1. j \in 1..from \/ j \in (from + 1)..upTo
    BY <1>2, <1>7
  <2> QED
    BY <1>3, <1>8, <2>1
<1>10. begun' \subseteq F!Activities
  <2>1. F!ToSet(list) \subseteq F!Activities
    BY <1>1, <1>2, ElementOfSeq DEF F!ToSet
  <2> QED
    BY <1>3, <2>1
<1>11. F!ListedOnce'
  BY <1>5 DEF F!ListedOnce
<1>12. CASE Len(page) = PageSize
  <2>1. from < upTo /\ upTo \in 1..Len(list)
    <3>1. from \in Nat /\ upTo \in Nat /\ from <= upTo /\ upTo <= Len(list)
      BY <1>2, <1>7
    <3>2. Len(page) = upTo - from
      BY <1>4
    <3>3. PageSize = upTo - from /\ PageSize \in Nat \ {0}
      BY <1>2, <1>12, <3>2
    <3> QED
      BY <3>1, <3>3
  <2>2. /\ proc'.pc = endpoint /\ proc'.got = got /\ proc'.token = list[upTo]
        /\ proc'.tries = 0 /\ proc'.orders = proc.orders
        /\ proc' = [proc EXCEPT !.got = got, !.token = list[upTo], !.tries = 0]
    BY <1>5, <1>8, <1>12, <2>1 DEF F!Answered, F!Processes
  <2>3. list[upTo] \in F!Activities /\ list[upTo] # None
    BY <1>1, <2>1, ElementOfSeq, FeedNumbers
  <2>4. proc' \in F!Processes
    <3> DEFINE there == list[upTo]
    <3> HIDE DEF there
    <3>1. proc' = [proc EXCEPT !.got = got, !.token = there, !.tries = 0]
      BY <2>2 DEF there
    <3>2. there \in F!Activities /\ got \in Seq(F!Activities) /\ proc \in F!Processes
      BY <1>5, <1>8, <2>3 DEF there
    <3> QED
      BY <3>1, <3>2 DEF F!Processes
  <2>5. F!TypeOK'
    BY <1>5, <1>10, <2>4 DEF F!TypeOK
  <2>6. F!ReadUpTo(list, upTo)'
    BY <1>2, <1>6, <1>8, <1>9, <2>1, <2>2 DEF F!ReadUpTo
  <2>7. F!PagesAreRead'
    <3>1. begun' \subseteq F!ToSet(list)' /\ \E p \in DOMAIN list' : F!ReadUpTo(list, p)'
      BY <1>2, <1>3, <1>6, <2>1, <2>6 DEF F!ToSet
    <3> QED
      BY <1>8, <2>2, <2>3, <3>1 DEF F!PagesAreRead, list
  <2>8. F!WholeFeedIsRead'
    BY <2>2 DEF F!WholeFeedIsRead, F!Endpoints
  <2> QED
    BY <1>11, <2>5, <2>7, <2>8 DEF F!IInv
<1>13. CASE Len(page) # PageSize
  <2>1. upTo = Len(list)
    BY <1>4, <1>13
  <2>2. begun' \subseteq F!ToSet(got)
    BY <1>2, <1>3, <1>9, <2>1 DEF F!ToSet
  <2>3. /\ proc'.pc = then /\ proc'.got = got /\ proc'.token = None
        /\ proc' \in F!Processes
    BY <1>5, <1>8, <1>13 DEF F!Answered, F!Processes
  <2>4. F!TypeOK'
    BY <1>5, <1>10, <2>3 DEF F!TypeOK
  <2>5. F!PagesAreRead'
    BY <2>3 DEF F!PagesAreRead, F!Endpoints
  <2>6. F!WholeFeedIsRead'
    BY <1>8, <2>2, <2>3 DEF F!WholeFeedIsRead, F!Wanted, F!IsInjective
  <2> QED
    BY <1>11, <2>4, <2>5, <2>6 DEF F!IInv
<1> QED
  BY <1>12, <1>13

\* What a decision and the clock change.
StandingOK == standing \in [FillActivities -> F!Standings] /\ elapsed \subseteq FillActivities

LEMMA StandingKept ==
    ASSUME F!IInv, UNCHANGED <<standing, elapsed>>
    PROVE  StandingOK'
BY DEF F!IInv, F!TypeOK, StandingOK

\* A step that touches neither the lists nor what is stored.
LEMMA KeepsTheFeed ==
    ASSUME F!IInv, UNCHANGED <<feed, keys, local>>, begun' \in {begun, {}}, StandingOK',
           proc' \in F!Processes
    PROVE  F!TypeOK' /\ F!ListedOnce'
BY DEF F!IInv, F!TypeOK, F!ListedOnce, StandingOK

LEMMA FreshStep ==
    ASSUME F!IInv, UNCHANGED <<feed, keys, local>>, begun' \in {begun, {}}, StandingOK',
           proc' = F!Down \/ proc' = F!Begun
    PROVE  F!IInv'
<1>1. <<>> \in Seq(F!Activities) /\ DOMAIN <<>> = {}
  OBVIOUS
<1>2. /\ proc' \in F!Processes /\ proc'.pc \in {"down", "fills"}
      /\ proc'.token = None /\ proc'.got = <<>>
  <2>1. F!Down \in F!Processes /\ F!Begun \in F!Processes
    BY <1>1 DEF F!IInv, F!TypeOK, F!Down, F!Begun, F!Processes, F!Endpoints
  <2>2. /\ F!Down.pc = "down" /\ F!Begun.pc = "fills"
        /\ F!Down.token = None /\ F!Begun.token = None
        /\ F!Down.got = <<>> /\ F!Begun.got = <<>>
    BY DEF F!Down, F!Begun
  <2> QED
    BY <2>1, <2>2
<1>3. F!PagesAreRead' /\ F!WholeFeedIsRead'
  BY <1>1, <1>2 DEF F!PagesAreRead, F!WholeFeedIsRead, F!IsInjective, F!Endpoints
<1> QED
  BY <1>2, <1>3, KeepsTheFeed DEF F!IInv

LEMMA SameCall ==
    ASSUME F!IInv, UNCHANGED <<feed, keys, local, begun>>, StandingOK', proc' \in F!Processes,
           proc'.got = proc.got, proc'.token = proc.token,
           \/ proc'.pc = proc.pc
           \/ proc.pc = "lookup" /\ proc'.pc = "store_fills"
    PROVE  F!IInv'
<1>1. F!ToSet(proc'.got) = F!ToSet(proc.got) /\ DOMAIN proc'.got = DOMAIN proc.got
  BY DEF F!ToSet
<1>2. CASE proc'.pc = proc.pc
  <2>0. F!Listed(proc.pc)' = F!Listed(proc.pc)
    BY <1>2 DEF F!Listed
  <2>1. \A p : F!ReadUpTo(F!Listed(proc.pc), p)' <=> F!ReadUpTo(F!Listed(proc.pc), p)
    BY <1>1, <2>0 DEF F!ReadUpTo
  <2>2. F!PagesAreRead'
    BY <1>1, <1>2, <2>0, <2>1 DEF F!IInv, F!PagesAreRead, F!IsInjective
  <2>3. F!WholeFeedIsRead'
    BY <1>1, <1>2 DEF F!IInv, F!WholeFeedIsRead, F!Wanted
  <2> QED
    BY <2>2, <2>3, KeepsTheFeed DEF F!IInv
<1>3. CASE proc.pc = "lookup" /\ proc'.pc = "store_fills"
  <2>1. F!PagesAreRead'
    BY <1>3 DEF F!IInv, F!PagesAreRead, F!Endpoints
  <2>2. F!WholeFeedIsRead'
    BY <1>1, <1>3 DEF F!IInv, F!WholeFeedIsRead, F!Wanted
  <2> QED
    BY <2>1, <2>2, KeepsTheFeed DEF F!IInv
<1> QED
  BY <1>2, <1>3

\* Past the stores of a call, there is nothing to keep of it.
LEMMA PastStep ==
    ASSUME F!IInv, UNCHANGED <<feed, keys, local, begun>>, StandingOK', proc' \in F!Processes,
           proc'.token = None, proc.got = <<>>, proc'.got = <<>>,
           \/ proc'.pc = "activities"
           \/ proc.pc = "store_cash" /\ proc'.pc = "account"
    PROVE  F!IInv'
<1>1. DOMAIN <<>> = {}
  OBVIOUS
<1>2. F!PagesAreRead'
  BY <1>1 DEF F!PagesAreRead, F!IsInjective, F!Endpoints
<1>3. F!WholeFeedIsRead'
  BY <1>1 DEF F!IInv, F!WholeFeedIsRead, F!Wanted, F!ToSet
<1> QED
  BY <1>2, <1>3, KeepsTheFeed DEF F!IInv

LEMMA ReadingStep ==
    ASSUME F!IInv, UNCHANGED <<feed, keys, local>>, begun' \in {begun, {}}, StandingOK',
           proc' \in F!Processes, proc'.token = None,
           proc'.pc \in {"positions", "open_orders", "reconciled"}
    PROVE  F!IInv'
<1>1. F!PagesAreRead' /\ F!WholeFeedIsRead'
  BY DEF F!PagesAreRead, F!WholeFeedIsRead, F!Endpoints
<1> QED
  BY <1>1, KeepsTheFeed DEF F!IInv

LEMMA StoreStep ==
    ASSUME F!IInv, NEW stage \in {"store_fills", "store_cash"}, proc.pc = stage,
           UNCHANGED <<feed, keys, begun>>, StandingOK',
           proc.got # <<>>, proc' = [proc EXCEPT !.got = Tail(@)],
           local' = IF stage = "store_cash" /\ Head(proc.got) \in FillActivities
                    THEN local ELSE F!StoredWith(Head(proc.got))
    PROVE  F!IInv'
<1> DEFINE got == proc.got
           first == Head(proc.got)
<1>1. /\ F!TypeOK /\ F!ListedOnce /\ proc \in F!Processes /\ got \in Seq(F!Activities)
      /\ local \in Seq(F!Activities) /\ begun \subseteq F!Activities
      /\ proc.pc = stage /\ got # <<>> /\ proc' = [proc EXCEPT !.got = Tail(got)]
      /\ UNCHANGED <<feed, keys, begun>>
      /\ local' = IF F!Known(first) \/ (stage = "store_cash" /\ first \in FillActivities)
                  THEN local ELSE Append(local, first)
  BY DEF F!IInv, F!TypeOK, F!Processes, F!StoredWith
<1>2. /\ F!Wanted \subseteq F!ToSet(got) \cup F!ToSet(local)
      /\ \A i, j \in DOMAIN got : got[i] = got[j] => i = j
  BY <1>1 DEF F!IInv, F!WholeFeedIsRead
<1>3. proc.token = None
  BY <1>1 DEF F!IInv, F!PagesAreRead, F!Endpoints
<1>4. /\ first \in F!Activities /\ Tail(got) \in Seq(F!Activities)
      /\ Len(Tail(got)) = Len(got) - 1 /\ Len(got) \in Nat
      /\ \A i \in 1..Len(Tail(got)) : Tail(got)[i] = got[i + 1]
      /\ DOMAIN got = 1..Len(got) /\ DOMAIN Tail(got) = 1..Len(Tail(got))
      /\ first = got[1]
  <2> HIDE DEF got, first
  <2>1. first = Head(got) /\ got # <<>> /\ got \in Seq(F!Activities)
    BY <1>1 DEF first, got
  <2> QED
    BY <2>1, HeadTailProperties, LenProperties
<1>5. F!ToSet(got) \subseteq {first} \cup F!ToSet(Tail(got))
  <2> SUFFICES ASSUME NEW i \in DOMAIN got PROVE got[i] \in {first} \cup F!ToSet(Tail(got))
    BY DEF F!ToSet
  <2>1. CASE i = 1
    BY <1>4, <2>1
  <2>2. CASE i # 1
    <3>1. i - 1 \in DOMAIN Tail(got) /\ Tail(got)[i - 1] = got[i]
      BY <1>4, <2>2
    <3> QED
      BY <3>1 DEF F!ToSet
  <2> QED
    BY <2>1, <2>2
<1>6. \A i, j \in DOMAIN Tail(got) : Tail(got)[i] = Tail(got)[j] => i = j
  <2> SUFFICES ASSUME NEW i \in DOMAIN Tail(got), NEW j \in DOMAIN Tail(got),
                      Tail(got)[i] = Tail(got)[j]
               PROVE  i = j
    OBVIOUS
  <2>1. i + 1 \in DOMAIN got /\ j + 1 \in DOMAIN got /\ got[i + 1] = got[j + 1]
    BY <1>4
  <2>2. i + 1 = j + 1
    BY <1>2, <2>1
  <2> QED
    BY <1>4, <2>2
<1>7. /\ proc' \in F!Processes /\ proc'.pc = stage /\ proc'.got = Tail(got)
      /\ proc'.token = None
  BY <1>1, <1>3, <1>4 DEF F!Processes
<1> HIDE DEF first
<1>8. /\ Append(local, first) \in Seq(F!Activities)
      /\ F!ToSet(Append(local, first)) = F!ToSet(local) \cup {first}
  <2>1. /\ Append(local, first) \in Seq(F!Activities)
        /\ Len(Append(local, first)) = Len(local) + 1
        /\ \A i \in 1..Len(local) : Append(local, first)[i] = local[i]
        /\ Append(local, first)[Len(local) + 1] = first
    BY <1>1, <1>4, AppendProperties
  <2>2. /\ Len(local) \in Nat /\ DOMAIN local = 1..Len(local)
        /\ DOMAIN Append(local, first) = 1..(Len(local) + 1)
    BY <1>1, <2>1, LenProperties
  <2>3. \A i \in 1..(Len(local) + 1) : i \in 1..Len(local) \/ i = Len(local) + 1
    BY <2>2
  <2>4. 1..Len(local) \subseteq 1..(Len(local) + 1) /\ Len(local) + 1 \in 1..(Len(local) + 1)
    BY <2>2
  <2> QED
    BY <2>1, <2>2, <2>3, <2>4 DEF F!ToSet
<1>9. /\ local' \in Seq(F!Activities) /\ F!ToSet(local) \subseteq F!ToSet(local')
      /\ first \in F!ToSet(local') \/ (stage = "store_cash" /\ first \in FillActivities)
  BY <1>1, <1>8 DEF F!Known
<1>10. F!Wanted' \subseteq F!ToSet(Tail(got)) \cup F!ToSet(local')
  <2>1. F!Wanted' = F!Wanted
    BY <1>1, <1>7 DEF F!Wanted
  <2>2. stage = "store_cash" => F!Wanted \cap FillActivities = {}
    BY <1>1 DEF F!Wanted
  <2> QED
    BY <1>2, <1>5, <1>9, <2>1, <2>2
<1>11. F!TypeOK' /\ F!ListedOnce'
  BY <1>1, <1>7, <1>9 DEF F!TypeOK, F!ListedOnce, StandingOK
<1>12. F!PagesAreRead'
  BY <1>7 DEF F!PagesAreRead, F!Endpoints
<1>13. F!WholeFeedIsRead'
  BY <1>6, <1>7, <1>10 DEF F!WholeFeedIsRead
<1> QED
  BY <1>11, <1>12, <1>13 DEF F!IInv

LEMMA AppendInserts ==
    ASSUME NEW S, NEW s \in Seq(S), NEW e \in S
    PROVE  Append(s, e) = F!InsertAt(s, Len(s) + 1, e)
<1> DEFINE end == Len(s) + 1
<1>1. Len(s) \in Nat /\ end \in 1..(Len(s) + 1) /\ end = Len(s) + 1
  BY LenProperties
<1> HIDE DEF end
<1>2. /\ F!InsertAt(s, end, e) \in Seq(S) /\ Len(F!InsertAt(s, end, e)) = Len(s) + 1
      /\ \A i \in 1..(Len(s) + 1) :
             F!InsertAt(s, end, e)[i] =
                 IF i < end THEN s[i] ELSE IF i = end THEN e ELSE s[i - 1]
  BY <1>1, InsertFacts DEF PutIn
<1>3. /\ Append(s, e) \in Seq(S) /\ Len(Append(s, e)) = Len(s) + 1
      /\ \A i \in 1..Len(s) : Append(s, e)[i] = s[i]
      /\ Append(s, e)[Len(s) + 1] = e
  BY AppendProperties
<1>4. \A i \in 1..Len(Append(s, e)) : Append(s, e)[i] = F!InsertAt(s, end, e)[i]
  BY <1>1, <1>2, <1>3
<1>5. Append(s, e) = F!InsertAt(s, end, e)
  BY <1>2, <1>3, <1>4, SeqEqual
<1> QED
  BY <1>1, <1>5

\* What is listed between two pages moves the cursor's place, and no more.
LEMMA PlaceMoves ==
    ASSUME NEW list \in Seq(F!Activities), NEW a \in F!Activities, a \notin begun,
           NEW at \in 1..(Len(list) + 1), NEW p \in DOMAIN list, F!ReadUpTo(list, p)
    PROVE  \E r \in DOMAIN F!InsertAt(list, at, a) : F!ReadUpTo(F!InsertAt(list, at, a), r)
<1> DEFINE new == F!InsertAt(list, at, a)
           r == IF p < at THEN p ELSE p + 1
<1> HIDE DEF new
<1>1. /\ new \in Seq(F!Activities) /\ Len(new) = Len(list) + 1
      /\ \A i \in 1..(Len(list) + 1) :
             new[i] = IF i < at THEN list[i] ELSE IF i = at THEN a ELSE list[i - 1]
  <2>1. new \in Seq(F!Activities) /\ PutIn(new, list, at, a)
    BY InsertFacts DEF new
  <2> QED
    BY <2>1 DEF PutIn
<1>2. /\ Len(list) \in Nat /\ DOMAIN list = 1..Len(list) /\ DOMAIN new = 1..(Len(list) + 1)
      /\ at \in Nat /\ 1 <= at /\ p \in Nat /\ 1 <= p /\ p <= Len(list)
  BY <1>1, LenProperties
<1>3. r \in DOMAIN new /\ new[r] = proc.token
  BY <1>1, <1>2 DEF F!ReadUpTo
<1>4. ASSUME NEW j \in 1..r, new[j] \in begun PROVE new[j] \in F!ToSet(proc.got)
  <2>1. CASE j < at
    <3>1. new[j] = list[j] /\ j \in 1..p
      BY <1>1, <1>2, <2>1
    <3> QED
      BY <1>4, <3>1 DEF F!ReadUpTo
  <2>2. CASE j = at
    <3>1. new[j] = a
      BY <1>1, <1>2, <2>2
    <3> QED
      BY <1>4, <3>1
  <2>3. CASE j > at
    <3>1. new[j] = list[j - 1] /\ j - 1 \in 1..p
      BY <1>1, <1>2, <2>3
    <3> QED
      BY <1>4, <3>1 DEF F!ReadUpTo
  <2> QED
    BY <1>2, <2>1, <2>2, <2>3
<1>5. ASSUME NEW b \in F!ToSet(proc.got) PROVE \E j \in 1..r : b = new[j]
  <2>1. PICK j \in 1..p : b = list[j]
    BY DEF F!ReadUpTo
  <2>2. CASE j < at
    <3>1. new[j] = list[j] /\ j \in 1..r
      BY <1>1, <1>2, <2>2
    <3> QED
      BY <2>1, <3>1
  <2>3. CASE j >= at
    <3>1. j + 1 \in 1..(Len(list) + 1) /\ j + 1 \in 1..r /\ j + 1 > at /\ (j + 1) - 1 = j
      BY <1>2, <2>3
    <3>2. new[j + 1] = list[j]
      BY <1>1, <1>2, <3>1
    <3> QED
      BY <2>1, <3>1, <3>2
  <2> QED
    BY <1>2, <2>2, <2>3
<1> HIDE DEF r
<1>6. F!ReadUpTo(new, r)
  BY <1>3, <1>4, <1>5 DEF F!ReadUpTo
<1> QED
  BY <1>3, <1>6 DEF new

\* What a listing does to each list there is.
LEMMA ListingInserts ==
    ASSUME F!IInv, NEW a \in F!Activities, F!List(a)
    PROVE  /\ feed' \in [F!Accounts -> [F!Endpoints -> Seq(F!Activities)]]
           /\ \A account \in F!Accounts, endpoint \in F!Endpoints :
                  \/ feed'[account][endpoint] = feed[account][endpoint]
                  \/ /\ a \notin F!ToSet(feed[account][endpoint])
                     /\ \E at \in 1..(Len(feed[account][endpoint]) + 1) :
                            feed'[account][endpoint] = F!InsertAt(feed[account][endpoint], at, a)
           /\ F!ListedOnce'
<1> DEFINE whose == IF a \in Ours THEN "ours" ELSE "theirs"
           list == feed[whose]["activities"]
           fills == feed[whose]["fills"]
<1> HIDE DEF list, fills, whose
<1>1. PICK at \in IF a \in FillActivities THEN {Len(list) + 1} ELSE 1..(Len(list) + 1) :
          feed' = [feed EXCEPT
              ![whose]["fills"] = IF a \in FillActivities THEN Append(@, a) ELSE @,
              ![whose]["activities"] = F!InsertAt(@, at, a)]
  BY DEF F!List, list, whose
<1>2. a \notin F!ToSet(list)
  BY DEF F!List, list, whose
<1>3. /\ feed \in [F!Accounts -> [F!Endpoints -> Seq(F!Activities)]] /\ whose \in F!Accounts
      /\ "fills" \in F!Endpoints /\ "activities" \in F!Endpoints
      /\ F!Endpoints = {"fills", "activities"} /\ "fills" # "activities"
      /\ list \in Seq(F!Activities) /\ fills \in Seq(F!Activities)
      /\ F!IsInjective(list) /\ F!IsInjective(fills) /\ F!ToSet(fills) \subseteq F!ToSet(list)
  BY DEF F!IInv, F!TypeOK, F!ListedOnce, F!Accounts, F!Endpoints, whose, list, fills
<1>4. at \in 1..(Len(list) + 1)
  BY <1>3, LenProperties
<1>5. /\ F!InsertAt(list, at, a) \in Seq(F!Activities) /\ F!IsInjective(F!InsertAt(list, at, a))
      /\ F!ToSet(F!InsertAt(list, at, a)) = F!ToSet(list) \cup {a}
  BY <1>2, <1>3, <1>4, InsertFacts, InsertedSet
<1>6. /\ Append(fills, a) = F!InsertAt(fills, Len(fills) + 1, a)
      /\ Len(fills) + 1 \in 1..(Len(fills) + 1)
  BY <1>3, AppendInserts, LenProperties
<1>7. /\ Append(fills, a) \in Seq(F!Activities) /\ F!IsInjective(Append(fills, a))
      /\ F!ToSet(Append(fills, a)) = F!ToSet(fills) \cup {a}
  <2>1. a \notin F!ToSet(fills)
    BY <1>2, <1>3
  <2> QED
    BY <1>3, <1>6, <2>1, InsertFacts, InsertedSet
<1> DEFINE longer == IF a \in FillActivities THEN Append(fills, a) ELSE fills
           other == F!InsertAt(list, at, a)
<1> HIDE DEF longer, other
<1>8. /\ longer \in Seq(F!Activities) /\ F!IsInjective(longer)
      /\ F!ToSet(longer) \subseteq F!ToSet(other)
      /\ other \in Seq(F!Activities) /\ F!IsInjective(other)
  BY <1>3, <1>5, <1>7 DEF longer, other
<1>9. feed' = [feed EXCEPT ![whose]["fills"] = longer, ![whose]["activities"] = other]
  <2>1. feed[whose]["fills"] = fills /\ feed[whose]["activities"] = list
    BY DEF fills, list
  <2> QED
    BY <1>1, <1>3, <2>1 DEF longer, other
<1>10. /\ feed' \in [F!Accounts -> [F!Endpoints -> Seq(F!Activities)]]
       /\ feed'[whose]["fills"] = longer /\ feed'[whose]["activities"] = other
       /\ \A account \in F!Accounts \ {whose}, endpoint \in F!Endpoints :
              feed'[account][endpoint] = feed[account][endpoint]
  BY <1>3, <1>8, <1>9
<1>11. F!ListedOnce'
  <2>1. \A account \in F!Accounts :
            /\ F!IsInjective(feed'[account]["fills"]) /\ F!IsInjective(feed'[account]["activities"])
            /\ F!ToSet(feed'[account]["fills"]) \subseteq F!ToSet(feed'[account]["activities"])
    BY <1>3, <1>8, <1>10 DEF F!IInv, F!ListedOnce
  <2> QED
    BY <1>3, <2>1 DEF F!ListedOnce
<1>12. ASSUME NEW account \in F!Accounts, NEW endpoint \in F!Endpoints
       PROVE  \/ feed'[account][endpoint] = feed[account][endpoint]
              \/ /\ a \notin F!ToSet(feed[account][endpoint])
                 /\ \E p \in 1..(Len(feed[account][endpoint]) + 1) :
                        feed'[account][endpoint] = F!InsertAt(feed[account][endpoint], p, a)
  <2>1. CASE account # whose
    BY <1>10, <2>1
  <2>2. CASE account = whose /\ endpoint = "activities"
    BY <1>2, <1>4, <1>10, <2>2 DEF list, other
  <2>3. CASE account = whose /\ endpoint = "fills"
    BY <1>2, <1>3, <1>6, <1>10, <2>3 DEF fills, longer
  <2> QED
    BY <1>3, <2>1, <2>2, <2>3
<1> QED
  BY <1>10, <1>11, <1>12

LEMMA ListStep ==
    ASSUME F!IInv, NEW a \in F!Activities, F!List(a)
    PROVE  F!IInv'
<1>1. /\ feed' \in [F!Accounts -> [F!Endpoints -> Seq(F!Activities)]] /\ F!ListedOnce'
      /\ \A account \in F!Accounts, endpoint \in F!Endpoints :
             \/ feed'[account][endpoint] = feed[account][endpoint]
             \/ /\ a \notin F!ToSet(feed[account][endpoint])
                /\ \E at \in 1..(Len(feed[account][endpoint]) + 1) :
                       feed'[account][endpoint] = F!InsertAt(feed[account][endpoint], at, a)
  BY ListingInserts
<1>2. UNCHANGED <<keys, proc, local, standing, elapsed, faults, begun>>
  BY DEF F!List, F!books
<1>3. F!TypeOK'
  BY <1>1, <1>2 DEF F!IInv, F!TypeOK
<1>4. F!WholeFeedIsRead'
  BY <1>2 DEF F!IInv, F!WholeFeedIsRead, F!Wanted
<1>5. ASSUME proc.pc \in F!Endpoints, proc.token # None
      PROVE  /\ begun \subseteq F!ToSet(F!Listed(proc.pc))'
             /\ \E p \in DOMAIN F!Listed(proc.pc)' : F!ReadUpTo(F!Listed(proc.pc), p)'
  <2> DEFINE list == feed[keys][proc.pc]
             new == feed'[keys][proc.pc]
  <2>1. /\ F!Listed(proc.pc) = list /\ F!Listed(proc.pc)' = new
        /\ list \in Seq(F!Activities)
    BY <1>2, <1>5 DEF F!Listed, F!IInv, F!TypeOK
  <2>2. \/ new = list
        \/ /\ a \notin F!ToSet(list)
           /\ \E at \in 1..(Len(list) + 1) : new = F!InsertAt(list, at, a)
    BY <1>1, <1>5 DEF F!IInv, F!TypeOK
  <2>3. begun \subseteq F!ToSet(list)
    BY <1>5, <2>1 DEF F!IInv, F!PagesAreRead
  <2>4. PICK p \in DOMAIN list : F!ReadUpTo(list, p)
    BY <1>5, <2>1 DEF F!IInv, F!PagesAreRead
  <2> HIDE DEF list, new
  <2>5. begun \subseteq F!ToSet(new) /\ \E r \in DOMAIN new : F!ReadUpTo(new, r)
    <3>1. CASE new = list
      BY <2>3, <2>4, <3>1
    <3>2. CASE /\ a \notin F!ToSet(list)
               /\ \E at \in 1..(Len(list) + 1) : new = F!InsertAt(list, at, a)
      <4>1. PICK at \in 1..(Len(list) + 1) : new = F!InsertAt(list, at, a)
        BY <3>2
      <4>2. a \notin begun
        BY <2>3, <3>2
      <4>3. F!ToSet(F!InsertAt(list, at, a)) = F!ToSet(list) \cup {a}
        BY <2>1, InsertedSet
      <4>4. \E r \in DOMAIN F!InsertAt(list, at, a) : F!ReadUpTo(F!InsertAt(list, at, a), r)
        BY <2>1, <2>4, <4>2, PlaceMoves
      <4> QED
        BY <2>3, <4>1, <4>3, <4>4
    <3> QED
      BY <2>2, <3>1, <3>2
  <2> QED
    BY <1>2, <2>1, <2>5 DEF F!ReadUpTo
<1>6. F!PagesAreRead'
  <2>1. F!PagesAreRead
    BY DEF F!IInv
  <2> QED
    BY <1>2, <1>5, <2>1 DEF F!PagesAreRead
<1> QED
  BY <1>1, <1>3, <1>4, <1>6 DEF F!IInv

-----------------------------------------------------------------------------
LEMMA ProcIs ==
    ASSUME F!IInv
    PROVE  /\ proc \in F!Processes /\ proc.got \in Seq(F!Activities) /\ proc.tries \in Nat
           /\ proc.token \in F!Activities \cup {None}
           /\ proc.orders \in SUBSET {OrderOf[a] : a \in FillActivities}
BY DEF F!IInv, F!TypeOK, F!Processes

LEMMA FeedCycleStep ==
    ASSUME FeedConstants, F!IInv, F!Cycle
    PROVE  F!IInv'
<1> USE ProcIs DEF F!books
<1>1. CASE F!Start
  <2>1. proc' = F!Begun /\ UNCHANGED <<feed, keys, local, standing, elapsed, begun>>
    BY <1>1 DEF F!Start
  <2> QED
    BY <2>1, FreshStep, StandingKept
<1>2. CASE F!FetchPage("fills", "lookup")
  BY <1>2, FetchStep DEF F!Endpoints
<1>3. ASSUME NEW o \in proc.orders, F!LookUp(o) PROVE F!IInv'
  <2>1. /\ proc' \in F!Processes /\ proc'.got = proc.got /\ proc'.token = proc.token
        /\ proc'.pc = proc.pc /\ UNCHANGED <<feed, keys, local, standing, elapsed, begun>>
    BY <1>3 DEF F!LookUp, F!Answered, F!Processes
  <2> QED
    BY <2>1, SameCall, StandingKept
<1>4. CASE F!LookedUp
  <2>1. /\ proc' \in F!Processes /\ proc'.got = proc.got /\ proc'.token = proc.token
        /\ proc.pc = "lookup" /\ proc'.pc = "store_fills"
        /\ UNCHANGED <<feed, keys, local, standing, elapsed, begun>>
    BY <1>4 DEF F!LookedUp, F!Processes
  <2> QED
    BY <2>1, SameCall, StandingKept
<1>5. ASSUME NEW a \in FillActivities, F!SyncFill(a) PROVE F!IInv'
  <2>1. /\ proc.pc = "store_fills" /\ proc.got # <<>> /\ a = Head(proc.got)
        /\ local' = F!StoredWith(a) /\ proc' = [proc EXCEPT !.got = Tail(@)]
        /\ UNCHANGED <<feed, keys, elapsed, begun>>
    BY <1>5 DEF F!SyncFill
  <2>2. StandingOK'
    <3>1. standing \in [FillActivities -> F!Standings] /\ elapsed \subseteq FillActivities
      BY DEF F!IInv, F!TypeOK
    <3>2. CASE F!Booked(a)
      BY <2>1, <3>1, <3>2 DEF F!Booked, F!Standings, StandingOK
    <3>3. CASE standing' = standing
      BY <2>1, <3>1, <3>3 DEF StandingOK
    <3> QED
      BY <1>5, <3>2, <3>3 DEF F!SyncFill
  <2> QED
    BY <2>1, <2>2, StoreStep
<1>11. ASSUME NEW a \in F!Activities, F!SyncCash(a) PROVE F!IInv'
  <2>1. /\ proc.pc = "store_cash" /\ proc.got # <<>> /\ a = Head(proc.got)
        /\ local' = IF a \in FillActivities THEN local ELSE F!StoredWith(a)
        /\ proc' = [proc EXCEPT !.got = Tail(@)]
        /\ UNCHANGED <<feed, keys, standing, elapsed, begun>>
    BY <1>11 DEF F!SyncCash
  <2> QED
    BY <2>1, StandingKept, StoreStep
<1>12. CASE \/ \E stage \in {"store_fills", "store_cash"} : F!ReadRefused(stage)
            \/ \E a \in FillActivities : F!FillRefused(a)
  <2>1. F!Ends /\ UNCHANGED <<feed, keys, local, standing, elapsed>>
    BY <1>12 DEF F!ReadRefused, F!FillRefused
  <2> QED
    BY <2>1, FreshStep, StandingKept DEF F!Ends
<1>6. CASE F!Stored("store_fills", "activities") \/ F!Stored("store_cash", "account")
  <2>1. PICK stage \in {"store_fills", "store_cash"}, then \in {"activities", "account"} :
            F!Stored(stage, then) /\ (then = "account" => stage = "store_cash")
    BY <1>6
  <2>2. /\ proc' \in F!Processes /\ proc.got = <<>> /\ proc'.got = <<>> /\ proc'.token = proc.token
        /\ proc.pc = stage /\ proc'.pc = then
        /\ UNCHANGED <<feed, keys, local, standing, elapsed, begun>>
    BY <2>1 DEF F!Stored, F!Processes, F!Endpoints
  <2>3. proc.token = None
    BY <2>2 DEF F!IInv, F!PagesAreRead, F!Endpoints
  <2> QED
    BY <2>1, <2>2, <2>3, PastStep, StandingKept
<1>7. CASE F!ReadAccount /\ ~F!IsPinned
  <2>1. F!Ends /\ UNCHANGED <<feed, keys, local, standing, elapsed>>
    BY <1>7 DEF F!ReadAccount
  <2> QED
    BY <2>1, FreshStep, StandingKept DEF F!Ends
<1>8. CASE (F!ReadAccount /\ F!IsPinned) \/ F!ReadPositions \/ F!ReadOpenOrders
  <2>1. /\ proc' \in F!Processes /\ proc'.token = proc.token
        /\ proc.pc \in {"account", "positions", "open_orders"}
        /\ proc'.pc \in {"positions", "open_orders", "reconciled"}
        /\ UNCHANGED <<feed, keys, local, standing, elapsed>> /\ begun' \in {begun, {}}
    <3>1. CASE F!ReadAccount /\ F!IsPinned
      <4>1. /\ proc.pc = "account"
            /\ proc' = F!Answered([proc EXCEPT !.pc = "positions"])
            /\ begun' = {}
            /\ UNCHANGED <<feed, keys, local, standing, elapsed>>
        BY <3>1 DEF F!ReadAccount
      <4> QED
        BY <4>1 DEF F!Answered, F!Processes
    <3>2. CASE F!ReadPositions
      BY <3>2 DEF F!ReadPositions, F!Answered, F!Processes
    <3>3. CASE F!ReadOpenOrders
      BY <3>3 DEF F!ReadOpenOrders, F!Answered, F!Processes
    <3> QED
      BY <1>8, <3>1, <3>2, <3>3
  <2>2. proc.token = None
    BY <2>1 DEF F!IInv, F!PagesAreRead, F!Endpoints
  <2> QED
    BY <2>1, <2>2, ReadingStep, StandingKept
<1>9. CASE F!FetchPage("activities", "store_cash")
  BY <1>9, FetchStep DEF F!Endpoints
<1>10. CASE F!NextCycle
  <2>1. proc' = F!Begun /\ UNCHANGED <<feed, keys, local, standing, elapsed, begun>>
    BY <1>10 DEF F!NextCycle
  <2> QED
    BY <2>1, FreshStep, StandingKept
<1> QED
  BY <1>1, <1>2, <1>3, <1>4, <1>5, <1>6, <1>7, <1>8, <1>9, <1>10, <1>11, <1>12 DEF F!Cycle

LEMMA FeedNext ==
    ASSUME FeedConstants, F!IInv, [F!Next]_(F!vars)
    PROVE  F!IInv'
<1> USE ProcIs DEF F!books
<1>1. CASE F!Cycle
  BY <1>1, FeedCycleStep
<1>2. CASE F!Retry
  <2>1. /\ proc' \in F!Processes /\ proc'.got = proc.got /\ proc'.token = proc.token
        /\ proc'.pc = proc.pc /\ UNCHANGED <<feed, keys, local, standing, elapsed, begun>>
    BY <1>2 DEF F!Retry, F!Processes
  <2> QED
    BY <2>1, SameCall, StandingKept
<1>3. CASE F!RequestFails \/ F!Die
  <2>1. F!Ends /\ UNCHANGED <<feed, keys, local, standing, elapsed>>
    BY <1>3 DEF F!RequestFails, F!Die
  <2> QED
    BY <2>1, FreshStep, StandingKept DEF F!Ends
<1>4. ASSUME NEW k \in F!Accounts, F!ChangeKeys(k) PROVE F!IInv'
  <2>1. /\ proc.pc = "down" /\ UNCHANGED <<feed, proc, local, standing, elapsed, begun>>
        /\ keys' \in F!Accounts
    BY <1>4 DEF F!ChangeKeys
  <2>2. proc.pc \notin F!Endpoints
    BY <2>1 DEF F!Endpoints
  <2> QED
    BY <2>1, <2>2 DEF F!IInv, F!TypeOK, F!ListedOnce, F!PagesAreRead, F!WholeFeedIsRead, F!Wanted
<1>5. ASSUME NEW a \in F!Activities, F!List(a) PROVE F!IInv'
  BY <1>5, ListStep
<1>6. ASSUME NEW a \in FillActivities, NEW decision \in F!Standings, F!Decide(a, decision)
      PROVE  F!IInv'
  <2>1. /\ UNCHANGED <<feed, keys, proc, local, elapsed, begun>>
        /\ standing' = [standing EXCEPT ![a] = decision]
    BY <1>6 DEF F!Decide
  <2>2. StandingOK'
    BY <2>1 DEF F!IInv, F!TypeOK, StandingOK
  <2> QED
    BY <2>1, <2>2, SameCall
<1>7. ASSUME NEW a \in FillActivities, F!ClockPasses(a) PROVE F!IInv'
  <2>1. /\ UNCHANGED <<feed, keys, proc, local, standing, begun>>
        /\ elapsed' = elapsed \cup {a}
    BY <1>7 DEF F!ClockPasses
  <2>2. StandingOK'
    BY <2>1 DEF F!IInv, F!TypeOK, StandingOK
  <2> QED
    BY <2>1, <2>2, SameCall
<1>8. CASE UNCHANGED F!vars
  <2>1. UNCHANGED <<feed, keys, proc, local, standing, elapsed, begun>>
    BY <1>8 DEF F!vars
  <2> QED
    BY <2>1, SameCall, StandingKept
<1> QED
  BY <1>1, <1>2, <1>3, <1>4, <1>5, <1>6, <1>7, <1>8 DEF F!Next

\* The broker's two lists, the cursor and what has been received stand in one
\* relation throughout, for every length of page and however often a request
\* fails (alpaca.py:934-957, 1008-1031).
THEOREM FeedInvariance == FeedConstants => (F!Spec => []F!IInv)
<1> SUFFICES ASSUME FeedConstants PROVE F!Spec => []F!IInv
  OBVIOUS
<1>1. F!Init => F!IInv
  BY FeedInit
<1>2. F!IInv /\ [F!Next]_(F!vars) => F!IInv'
  BY FeedNext
<1> QED
  BY <1>1, <1>2, PTL DEF F!Spec

\* A completed call returned, each once, all that was listed when it began,
\* whatever was listed between its pages and wherever: the cursor is the last
\* activity received, not a count of them (alpaca.py:934-957, 1008-1031).
THEOREM WholeFeed == FeedConstants => (F!Spec => []F!WholeFeedIsRead)
<1> SUFFICES ASSUME FeedConstants PROVE F!Spec => []F!WholeFeedIsRead
  OBVIOUS
<1>1. F!IInv => F!WholeFeedIsRead
  BY DEF F!IInv
<1>2. F!Spec => []F!IInv
  BY FeedInvariance
<1> QED
  BY <1>1, <1>2, PTL
=============================================================================
