-------------------------- MODULE BookFiles_proofs --------------------------
(***************************************************************************)
(* Theorems about the files of the books, for every set of events, every   *)
(* amount and any number of deaths and repairs.                            *)
(***************************************************************************)
EXTENDS BookFiles, SequenceTheorems, SumFacts

-----------------------------------------------------------------------------
(* Totals of events as sums *)

LEMMA TotalSums ==
    ASSUME NEW S \in SUBSET Events
    PROVE  IsFiniteSet(S) /\ Total(S) = SumOver(Amount, S) /\ Total(S) \in Int
<1>1. IsFiniteSet(S) /\ \A e \in S : Amount[e] \in Int
  BY EventsAssumption, FS_Subset
<1>2. SumOver(Amount, S) \in Int
  BY <1>1, SumIsAnInteger
<1>3. Total(S) = SumOver(Amount, S)
  BY DEF Total, MapThenSumSet, MapThenFoldSet, SumOver, Sums, Picked
<1> QED
  BY <1>1, <1>2, <1>3

LEMMA TotalOfBoth ==
    ASSUME NEW S \in SUBSET Events, NEW R \in SUBSET Events
    PROVE  Total(S \cup R) + Total(S \cap R) = Total(S) + Total(R)
<1>1. IsFiniteSet(S) /\ IsFiniteSet(R) /\ \A e \in S \cup R : Amount[e] \in Int
  BY EventsAssumption, FS_Subset
<1>2. SumOver(Amount, S \cup R) + SumOver(Amount, S \cap R)
      = SumOver(Amount, S) + SumOver(Amount, R)
  BY <1>1, SumOfBoth
<1>3. S \cup R \in SUBSET Events /\ S \cap R \in SUBSET Events
  OBVIOUS
<1> QED
  BY <1>2, <1>3, TotalSums

LEMMA CorrectedByOne ==
    ASSUME NEW store, NEW c, store.corrections = {c}, c.amount \in Int
    PROVE  Corrected(store) = c.amount
<1> DEFINE F == [d \in {c} |-> d.amount]
           Step(g, T) == IF T = {} THEN 0 ELSE Picked(T).amount + g[T \ {Picked(T)}]
           iter == CHOOSE g : g = [T \in SUBSET {c} |-> Step(g, T)]
<1>1. \A T \in SUBSET {c} : T # {} => F[Picked(T)] = Picked(T).amount
  BY PickedIsIn
<1>2. Corrected(store) = iter[{c}]
  BY DEF Corrected, MapThenSumSet, MapThenFoldSet, Picked
<1>3. IsFiniteSet({c})
  BY FS_Singleton
<1>4. PICK g : Sums(F, {c}, g)
  BY <1>3, SumsExist
<1>5. g = [T \in SUBSET {c} |-> Step(g, T)]
  BY <1>1, <1>4 DEF Sums
<1>6. iter = [T \in SUBSET {c} |-> Step(iter, T)]
  BY <1>5
<1> HIDE DEF iter
<1>7. iter[{}] = 0
  BY <1>6
<1>8. iter[{c}] = c.amount + iter[{c} \ {c}]
  <2>1. Picked({c}) = c
    BY PickedIsIn
  <2> QED
    BY <1>6, <2>1
<1>9. {c} \ {c} = {}
  OBVIOUS
<1> QED
  BY <1>2, <1>7, <1>8, <1>9

-----------------------------------------------------------------------------
(* What a row appended to a file adds to it *)

LEMMA AppendRowIs ==
    ASSUME NEW R, NEW rows \in Seq(R), NEW row \in R
    PROVE  /\ AppendRow(rows, row) \in Seq(R)
           /\ \/ AppendRow(rows, row) = rows /\ Torn \in ToSet(rows)
              \/ AppendRow(rows, row) = Append(rows, row)
           /\ Torn \notin ToSet(rows) => AppendRow(rows, row) = Append(rows, row)
<1>1. rows # <<>> => Len(rows) \in DOMAIN rows
  BY EmptySeq, LenProperties
<1>2. rows # <<>> /\ Last(rows) = Torn => Torn \in ToSet(rows)
  BY <1>1 DEF Last, ToSet
<1> QED
  BY <1>2, AppendProperties DEF AppendRow

LEMMA Appended ==
    ASSUME NEW R, NEW rows \in Seq(R), NEW row \in R, NEW kind
    PROVE  /\ ToSet(Append(rows, row)) = ToSet(rows) \cup {row}
           /\ OfKind(Append(rows, row), kind) =
                  OfKind(rows, kind) \cup (IF row.kind = kind THEN {row} ELSE {})
           /\ Places(Append(rows, row), kind) =
                  Places(rows, kind) \cup (IF row.kind = kind THEN {Len(rows) + 1} ELSE {})
<1> DEFINE new == Append(rows, row)
<1>1. /\ DOMAIN rows = 1..Len(rows) /\ Len(rows) \in Nat
      /\ DOMAIN new = 1..(Len(rows) + 1)
      /\ \A i \in 1..Len(rows) : new[i] = rows[i]
      /\ new[Len(rows) + 1] = row
  BY AppendProperties, LenProperties
<1>2. \A i \in DOMAIN new : i \in DOMAIN rows \/ i = Len(rows) + 1
  BY <1>1
<1>3. \A i \in DOMAIN rows : i \in DOMAIN new
  BY <1>1
<1>4. Len(rows) + 1 \in DOMAIN new
  BY <1>1
<1> HIDE DEF new
<1>5. ToSet(new) = ToSet(rows) \cup {row}
  BY <1>1, <1>2, <1>3, <1>4 DEF ToSet
<1>6. OfKind(new, kind) = OfKind(rows, kind) \cup (IF row.kind = kind THEN {row} ELSE {})
  BY <1>5 DEF OfKind
<1>7. Places(new, kind) = Places(rows, kind)
                          \cup (IF row.kind = kind THEN {Len(rows) + 1} ELSE {})
  BY <1>1, <1>2, <1>3, <1>4 DEF Places
<1> QED
  BY <1>5, <1>6, <1>7 DEF new

LEMMA LastPlace ==
    ASSUME NEW n \in Nat, NEW S \in SUBSET (1..n), S # {}
    PROVE  Max(S) \in S /\ \A i \in S : i <= Max(S)
<1> DEFINE Behind == {d \in Nat : n - d \in S}
<1>1. PICK i \in S : TRUE
  OBVIOUS
<1>2. n - i \in Behind
  BY <1>1
<1>3. PICK d \in Behind : \A c \in Behind : d <= c
  <2> HIDE DEF Behind
  <2>1. Behind \subseteq Nat
    BY DEF Behind
  <2> QED
    BY <1>2, <2>1, LeastThereIs
<1>4. \A j \in S : n - j \in Behind
  OBVIOUS
<1>5. n - d \in S /\ \A j \in S : n - d >= j
  BY <1>3, <1>4
<1>6. \E m \in S : \A j \in S : m >= j
  BY <1>5
<1>7. Max(S) \in S /\ \A j \in S : Max(S) >= j
  BY <1>6 DEF Max
<1> QED
  BY <1>7

-----------------------------------------------------------------------------
(* What the rows of a file load as, and what a further row changes of it *)

LEMMA StoreIsTyped ==
    ASSUME NEW rows \in Seq(LedgerRow)
    PROVE  LedgerOf(rows) \in Stores
<1>1. /\ DOMAIN rows = 1..Len(rows) /\ Len(rows) \in Nat
      /\ \A i \in DOMAIN rows : rows[i] \in LedgerRow
  BY ElementOfSeq, LenProperties
<1>2. \A row \in ToSet(rows) : row \in LedgerRow
  BY <1>1 DEF ToSet
<1>3. LedgerOf(rows).entries \in SUBSET Events
  BY <1>2 DEF LedgerOf, OfKind, LedgerRow, Torn, OpeningRow, CorrectionRow
<1>4. LedgerOf(rows).corrections \in SUBSET CorrectionRow
  BY <1>2 DEF LedgerOf, OfKind, LedgerRow, Torn, OpeningRow, CorrectionRow
<1>5. LedgerOf(rows).opening \in OpeningRow \cup {None}
  <2> DEFINE places == Places(rows, "opening")
  <2>1. places \in SUBSET (1..Len(rows))
    BY <1>1 DEF Places
  <2>2. ASSUME places # {} PROVE rows[Max(places)] \in OpeningRow
    <3>1. Max(places) \in places
      BY <1>1, <2>1, <2>2, LastPlace
    <3>2. rows[Max(places)] \in LedgerRow /\ rows[Max(places)].kind = "opening"
      BY <1>1, <2>1, <3>1 DEF Places
    <3> QED
      BY <3>2 DEF LedgerRow, Torn, CorrectionRow
  <2> QED
    BY <2>2 DEF LedgerOf
<1>6. LedgerOf(rows) = [opening |-> LedgerOf(rows).opening, entries |-> LedgerOf(rows).entries,
                        corrections |-> LedgerOf(rows).corrections]
  BY DEF LedgerOf
<1> QED
  BY <1>3, <1>4, <1>5, <1>6 DEF Stores

LEMMA StoreWithRow ==
    ASSUME NEW rows \in Seq(LedgerRow), NEW row \in LedgerRow
    PROVE  /\ LedgerOf(Append(rows, row)).opening =
                  IF row.kind = "opening" THEN row ELSE LedgerOf(rows).opening
           /\ LedgerOf(Append(rows, row)).entries =
                  LedgerOf(rows).entries \cup (IF row.kind = "entry" THEN {row.event} ELSE {})
           /\ LedgerOf(Append(rows, row)).corrections =
                  LedgerOf(rows).corrections \cup (IF row.kind = "correction" THEN {row} ELSE {})
<1> DEFINE new == Append(rows, row)
           n == Len(rows)
           was == Places(rows, "opening")
           is == Places(new, "opening")
<1>1. /\ n \in Nat /\ was \in SUBSET (1..n)
      /\ \A i \in 1..n : new[i] = rows[i]
      /\ new[n + 1] = row
  BY AppendProperties, LenProperties DEF Places
<1>2. \A kind : OfKind(new, kind) = OfKind(rows, kind) \cup (IF row.kind = kind THEN {row} ELSE {})
  BY Appended
<1>3. is = was \cup (IF row.kind = "opening" THEN {n + 1} ELSE {})
  BY Appended
<1> HIDE DEF new, n
<1>4. CASE row.kind = "opening"
  <2>1. is \in SUBSET (1..(n + 1)) /\ n + 1 \in is /\ is # {}
    BY <1>1, <1>3, <1>4
  <2>2. Max(is) \in is /\ \A i \in is : i <= Max(is)
    <3> DEFINE m == n + 1
    <3>1. m \in Nat /\ is \in SUBSET (1..m)
      BY <1>1, <2>1
    <3> HIDE DEF is, m
    <3> QED
      BY <2>1, <3>1, LastPlace
  <2>3. Max(is) = n + 1
    BY <1>1, <2>1, <2>2
  <2>4. LedgerOf(new).opening = row
    BY <1>1, <2>1, <2>3 DEF LedgerOf
  <2> QED
    BY <1>2, <1>4, <2>4 DEF new, LedgerOf
<1>5. CASE row.kind # "opening"
  <2>1. is = was
    BY <1>3, <1>5
  <2>2. was # {} => new[Max(was)] = rows[Max(was)]
    <3> HIDE DEF was
    <3>1. was # {} => Max(was) \in 1..n
      BY <1>1, LastPlace
    <3> QED
      BY <1>1, <3>1
  <2>3. LedgerOf(new).opening = LedgerOf(rows).opening
    BY <2>1, <2>2 DEF LedgerOf
  <2> QED
    BY <1>2, <1>5, <2>3 DEF new, LedgerOf
<1> QED
  BY <1>4, <1>5

LEMMA LoadsWithRow ==
    ASSUME NEW rows \in Seq(LedgerRow), NEW row \in LedgerRow, LedgerLoads(rows),
           row.kind \in {"opening", "entry"}
    PROVE  LedgerLoads(Append(rows, row))
<1>1. row # Torn
  BY DEF Torn
<1>2. \A kind : /\ ToSet(Append(rows, row)) = ToSet(rows) \cup {row}
                /\ OfKind(Append(rows, row), kind) =
                       OfKind(rows, kind) \cup (IF row.kind = kind THEN {row} ELSE {})
  BY Appended
<1>3. OfKind(Append(rows, row), "correction") = OfKind(rows, "correction")
  BY <1>2
<1> QED
  BY <1>1, <1>2, <1>3 DEF LedgerLoads

\* What a file of decisions says does not change with an event put in quarantine.
LEMMA QuarantineLoadsWithRow ==
    ASSUME NEW rows \in Seq(QuarantineRow), NEW e \in Events, QuarantineLoads(rows)
    PROVE  QuarantineLoads(Append(rows, Quarantined(e)))
<1> DEFINE row == Quarantined(e)
           new == Append(rows, row)
           n == Len(rows)
<1>1. row \in QuarantineRow /\ row # Torn /\ row.kind # "resolution"
  BY DEF QuarantineRow, Quarantined, Torn
<1>2. /\ n \in Nat /\ DOMAIN rows = 1..n /\ DOMAIN new = 1..(n + 1)
      /\ \A i \in 1..n : new[i] = rows[i]
      /\ new[n + 1] = row
      /\ new \in Seq(QuarantineRow)
  BY <1>1, AppendProperties, LenProperties
<1>3. ToSet(new) = ToSet(rows) \cup {row}
  BY <1>1, Appended
<1>4. ASSUME NEW i \in 1..n PROVE SubSeq(new, 1, i) = SubSeq(rows, 1, i)
  <2>1. \A j \in 1..i : new[j] = rows[j]
    BY <1>2
  <2> HIDE DEF new
  <2>2. SubSeq(new, 1, i) = [j \in 1..i |-> new[j]]
        /\ SubSeq(rows, 1, i) = [j \in 1..i |-> rows[j]]
    <3>1. \A j \in 1..i : (1 + j) - 1 = j
      BY <1>2
    <3>2. (1 + i) - 1 = i
      BY <1>2
    <3> QED
      BY <1>2, <3>1, <3>2
  <2> QED
    BY <2>1, <2>2
<1>5. \A i \in DOMAIN new : new[i].kind = "resolution" => i \in DOMAIN rows /\ new[i] = rows[i]
  BY <1>1, <1>2
<1>6. ASSUME NEW i \in DOMAIN new, new[i].kind = "resolution"
      PROVE  /\ Quarantined(new[i].event) \in ToSet(SubSeq(new, 1, i))
             /\ \A j \in DOMAIN new :
                    new[j].kind = "resolution" /\ new[j].event = new[i].event
                        => new[j] = new[i]
  <2>1. i \in DOMAIN rows /\ new[i] = rows[i] /\ i \in 1..n
    BY <1>2, <1>5, <1>6
  <2>2. /\ Quarantined(rows[i].event) \in ToSet(SubSeq(rows, 1, i))
        /\ \A j \in DOMAIN rows :
               rows[j].kind = "resolution" /\ rows[j].event = rows[i].event
                   => rows[j] = rows[i]
    <3> HIDE DEF new
    <3> QED
      BY <1>6, <2>1 DEF QuarantineLoads
  <2> HIDE DEF new
  <2>3. Quarantined(new[i].event) \in ToSet(SubSeq(new, 1, i))
    BY <1>4, <2>1, <2>2
  <2>4. \A j \in DOMAIN new :
            new[j].kind = "resolution" /\ new[j].event = new[i].event => new[j] = new[i]
    BY <1>5, <2>1, <2>2
  <2> QED
    BY <2>3, <2>4
<1> HIDE DEF new, row
<1>7. Torn \notin ToSet(new)
  BY <1>1, <1>3 DEF QuarantineLoads
<1>8. QuarantineLoads(new)
  BY <1>6, <1>7 DEF QuarantineLoads
<1> QED
  BY <1>8 DEF new, row

-----------------------------------------------------------------------------
(* Types *)

Loops == [pc : {"down", "idle", "fills", "activities", "seed", "compare"},
          now : Nat, store : Stores]
Repairs == [pc : {"not_run", "proposed", "done"}, row : CorrectionRow \cup {Torn},
            read : SUBSET Events]

LEMMA EventRows ==
    ASSUME NEW e \in Events
    PROVE  /\ Entry(e) \in LedgerRow /\ Entry(e).kind = "entry" /\ Entry(e).event = e
           /\ Quarantined(e) \in QuarantineRow /\ Quarantined(e).kind = "quarantined"
           /\ FileOf(e) \in {"executions", "activities"}
BY DEF Entry, Quarantined, LedgerRow, QuarantineRow, FileOf

LEMMA TornRows ==
    /\ Torn \in LedgerRow /\ Torn \in QuarantineRow
    /\ Torn.kind \notin {"opening", "entry", "correction", "quarantined", "resolution"}
BY DEF Torn, LedgerRow, QuarantineRow

LEMMA DownIsTyped == Down \in Loops
<1>1. LedgerOf(<<>>) \in Stores
  BY StoreIsTyped, EmptySeq
<1> QED
  BY <1>1 DEF Down, Loops

LEMMA FigureIsTyped ==
    ASSUME TypeOK
    PROVE  /\ Happened \in SUBSET Events /\ SeedFigure \in Int
           /\ BrokerCash = Funds + Total(Happened)
<1>1. Happened \in SUBSET Events /\ loop.store.entries \in SUBSET Events
  BY DEF Happened, TypeOK, Stores
<1>2. Total(Happened) \in Int /\ Total(loop.store.entries) \in Int
  BY <1>1, TotalSums
<1> QED
  BY <1>1, <1>2, EventsAssumption DEF SeedFigure, BrokerCash

LEMMA OpeningRows ==
    ASSUME NEW amount \in Int, NEW at \in Nat
    PROVE  /\ Opening(amount, at) \in OpeningRow /\ Opening(amount, at) \in LedgerRow
           /\ Opening(amount, at).kind = "opening" /\ Opening(amount, at) # None
           /\ Opening(amount, at).amount = amount /\ Opening(amount, at).at = at
BY NoneAssumption DEF Opening, OpeningRow, LedgerRow

LEMMA QuarantineTyped ==
    ASSUME TypeOK, NEW file \in {"executions", "activities"}, NEW row \in QuarantineRow,
           quarantine' = [quarantine EXCEPT ![file] = AppendRow(@, row)]
    PROVE  quarantine' \in [{"executions", "activities"} -> Seq(QuarantineRow)]
<1>1. quarantine[file] \in Seq(QuarantineRow)
  BY DEF TypeOK
<1>2. AppendRow(quarantine[file], row) \in Seq(QuarantineRow)
  BY <1>1, AppendRowIs
<1> QED
  BY <1>2 DEF TypeOK

LEMMA SequenceOfASet ==
    ASSUME NEW S, IsFiniteSet(S), S \subseteq QuarantineRow
    PROVE  SetToSeq(S) \in Seq(QuarantineRow)
<1>1. Cardinality(S) \in Nat /\ ExistsBijection(1..Cardinality(S), S)
  BY FS_CardinalityType
<1>2. \E f \in [1..Cardinality(S) -> S] : IsInjective(f)
  BY <1>1 DEF ExistsBijection, Bijection, Injection, IsInjective
<1>3. SetToSeq(S) \in [1..Cardinality(S) -> S]
  BY <1>2 DEF SetToSeq
<1> QED
  BY <1>1, <1>3

LEMMA InitTypes == Init => TypeOK
<1> SUFFICES ASSUME Init PROVE TypeOK
  OBVIOUS
<1>1. /\ clock \in Nat /\ deaths \in Nat /\ seeded \in {"no", "verbatim", "backdated"}
      /\ when \in [Events -> Nat \cup {None}]
  <2>1. clock \in Nat /\ deaths \in Nat /\ seeded \in {"no", "verbatim", "backdated"}
    BY DEF Init
  <2>2. \/ when = [e \in Events |-> None]
        \/ \E early \in SUBSET Executions : when = [e \in Events |-> IF e \in early THEN 1 ELSE None]
    BY DEF Init
  <2> QED
    BY <2>1, <2>2
<1>2. loop \in Loops
  BY DownIsTyped DEF Init
<1>3. repair \in [Runs -> Repairs]
  BY DEF Init, NotRun, Repairs
<1>4. /\ ledger \in Seq(LedgerRow)
      /\ quarantine \in [{"executions", "activities"} -> Seq(QuarantineRow)]
  <2>1. CASE ledger = <<>> /\ quarantine = [f \in {"executions", "activities"} |-> <<>>]
    BY <2>1, EmptySeq
  <2>2. ASSUME NEW early \in SUBSET Executions,
               ledger = <<Opening(Funds + Total(early), 1)>>,
               quarantine = [executions |-> SetToSeq({Quarantined(e) : e \in early}),
                             activities |-> <<>>]
        PROVE  /\ ledger \in Seq(LedgerRow)
               /\ quarantine \in [{"executions", "activities"} -> Seq(QuarantineRow)]
    <3> DEFINE rows == {Quarantined(e) : e \in early}
    <3>1. early \in SUBSET Events
      BY DEF Events
    <3>2. Opening(Funds + Total(early), 1) \in LedgerRow
      <4>1. Funds + Total(early) \in Int
        BY <3>1, TotalSums, EventsAssumption
      <4> QED
        BY <4>1, OpeningRows
    <3>3. IsFiniteSet(rows) /\ rows \subseteq QuarantineRow
      <4> DEFINE f == [e \in early |-> Quarantined(e)]
      <4>1. f \in Surjection(early, rows)
        BY DEF Surjection
      <4>2. IsFiniteSet(early)
        BY <3>1, TotalSums
      <4>3. IsFiniteSet(rows)
        <5> HIDE DEF f, rows
        <5> QED
          BY <4>1, <4>2, FS_Surjection
      <4> QED
        BY <3>1, <4>3, EventRows
    <3>4. SetToSeq(rows) \in Seq(QuarantineRow)
      <4> HIDE DEF rows
      <4> QED
        BY <3>3, SequenceOfASet
    <3> HIDE DEF rows
    <3>5. DOMAIN quarantine = {"executions", "activities"}
      BY <2>2
    <3>6. quarantine["executions"] = SetToSeq(rows) /\ quarantine["activities"] = <<>>
      BY <2>2 DEF rows
    <3>7. quarantine = [f \in {"executions", "activities"} |-> quarantine[f]]
      BY <2>2, <3>5
    <3>8. <<>> \in Seq(QuarantineRow)
      BY EmptySeq
    <3>9. quarantine \in [{"executions", "activities"} -> Seq(QuarantineRow)]
      BY <3>4, <3>6, <3>7, <3>8
    <3>10. ledger \in Seq(LedgerRow)
      BY <2>2, <3>2
    <3> QED
      BY <3>9, <3>10
  <2> QED
    BY <2>1, <2>2 DEF Init
<1> QED
  BY <1>1, <1>2, <1>3, <1>4 DEF TypeOK, Loops, Repairs

-----------------------------------------------------------------------------
(* What a step does to the ledger as loaded, and to all it is compared with *)

RowLoads(row) ==
    /\ Store'.opening = IF row.kind = "opening" THEN row ELSE Store.opening
    /\ Store'.entries = Store.entries \cup (IF row.kind = "entry" THEN {row.event} ELSE {})
    /\ Store'.corrections =
           Store.corrections \cup (IF row.kind = "correction" THEN {row} ELSE {})

StoreStays == Store' = Store /\ UNCHANGED <<clock, when, repair, seeded>>
StoreBooks(e) ==
    /\ loop.pc \notin {"down", "idle"} /\ e \in Happened /\ RowLoads(Entry(e))
    /\ UNCHANGED <<clock, when, repair, seeded>>
StoreSeeds ==
    /\ Store.opening = None
    /\ \/ seeded' = "backdated"
       \/ seeded' = "verbatim" /\ SeedFigure = BrokerCash
    /\ RowLoads(Opening(SeedFigure, clock))
    /\ UNCHANGED <<clock, when, repair>>
StoreCorrects(run) ==
    /\ repair[run].pc = "proposed"
    /\ repair' = [repair EXCEPT ![run].pc = "done"]
    /\ Store' = Store \/ RowLoads(repair[run].row)
    /\ UNCHANGED <<clock, when, seeded>>
StoreIsRead(run) == RepairReads(run) /\ Store' = Store
TimePasses ==
    /\ loop.pc \in {"down", "idle"}
    /\ clock' = clock + 1
    /\ \/ when' = when
       \/ \E e \in Events : when[e] = None /\ when' = [when EXCEPT ![e] = clock']
    /\ Store' = Store
    /\ UNCHANGED <<repair, seeded, loop>>

LEMMA RowIsLoaded ==
    ASSUME TypeOK, NEW row \in LedgerRow, ledger' = Append(ledger, row)
    PROVE  RowLoads(row)
<1>1. ledger \in Seq(LedgerRow)
  BY DEF TypeOK
<1>2. Store' = LedgerOf(Append(ledger, row))
  BY DEF Store
<1>3. Store = LedgerOf(ledger)
  BY DEF Store
<1> QED
  BY <1>1, <1>2, <1>3, StoreWithRow DEF RowLoads

LEMMA TornRowIsNotLoaded ==
    ASSUME TypeOK, ledger' = AppendRow(ledger, Torn)
    PROVE  Store' = Store
<1>1. ledger \in Seq(LedgerRow) /\ Torn \in LedgerRow
  BY TornRows DEF TypeOK
<1>2. ledger' = ledger \/ ledger' = Append(ledger, Torn)
  BY <1>1, AppendRowIs
<1>3. CASE ledger' = ledger
  BY <1>3 DEF Store
<1>4. CASE ledger' = Append(ledger, Torn)
  <2>1. RowLoads(Torn)
    BY <1>1, <1>4, RowIsLoaded
  <2>2. LedgerOf(ledger) \in Stores /\ LedgerOf(Append(ledger, Torn)) \in Stores
    BY <1>1, StoreIsTyped, AppendProperties
  <2>3. Store \in Stores /\ Store' \in Stores
    BY <1>4, <2>2 DEF Store
  <2>4. /\ Store'.opening = Store.opening /\ Store'.entries = Store.entries
        /\ Store'.corrections = Store.corrections
    BY <2>1, TornRows DEF RowLoads
  <2>5. \A s, t \in Stores : s.opening = t.opening /\ s.entries = t.entries
                             /\ s.corrections = t.corrections => s = t
    BY DEF Stores
  <2> QED
    BY <2>3, <2>4, <2>5
<1> QED
  BY <1>2, <1>3, <1>4

LEMMA StoreEffects ==
    ASSUME TypeOK, ReloadAgrees, TimesAgree, [Next]_vars
    PROVE  \/ StoreStays \/ StoreSeeds \/ TimePasses
           \/ \E e \in Events : StoreBooks(e)
           \/ \E run \in Runs : StoreCorrects(run) \/ StoreIsRead(run)
<1> DEFINE Effect == \/ StoreStays \/ StoreSeeds \/ TimePasses
                     \/ \E e \in Events : StoreBooks(e)
                     \/ \E run \in Runs : StoreCorrects(run) \/ StoreIsRead(run)
<1>0. ledger \in Seq(LedgerRow)
  BY DEF TypeOK
<1>1. ASSUME UNCHANGED <<ledger, clock, when, repair, seeded>> PROVE Effect
  BY <1>1 DEF StoreStays, Store
<1>2. ASSUME \/ BeginCycle \/ SeedDeferred \/ AlreadySeeded \/ Compare \/ Stop
             \/ \E pc \in {"fills", "activities"}, S \in {Executions, Activities},
                   then \in {"activities", "seed"} : Quarantine(pc, S) \/ Synced(pc, S, then)
             \/ \E e \in Events, decision \in {"ADMITTED", "REJECTED"}, whole \in BOOLEAN :
                   Resolve(e, decision, whole)
             \/ UNCHANGED vars
      PROVE  Effect
  BY <1>1, <1>2 DEF BeginCycle, SeedDeferred, AlreadySeeded, Compare, Stop, Quarantine, Synced,
     Resolve, vars, files
<1>3. ASSUME NEW pc \in {"fills", "activities"}, NEW S \in SUBSET Events, Book(pc, S)
      PROVE  Effect
  <2>1. PICK e \in Foremost(S) :
            /\ loop.pc = pc /\ ledger' = AppendRow(ledger, Entry(e))
            /\ UNCHANGED <<clock, when, repair, seeded>>
    BY <1>3 DEF Book
  <2>2. e \in Happened /\ e \in Events
    BY <2>1 DEF Foremost, ToDo, Happened
  <2>3. Torn \notin ToSet(ledger) /\ loop.pc \notin {"down", "idle"}
    BY <1>3, <2>1 DEF ReloadAgrees, LedgerLoads
  <2>4. ledger' = Append(ledger, Entry(e))
    <3>1. Entry(e) \in LedgerRow
      BY <2>2, EventRows
    <3> QED
      BY <1>0, <2>1, <2>3, <3>1, AppendRowIs
  <2>5. RowLoads(Entry(e))
    BY <2>2, <2>4, RowIsLoaded, EventRows
  <2> QED
    BY <2>1, <2>2, <2>3, <2>5 DEF StoreBooks
<1>4. ASSUME Seed PROVE Effect
  <2> DEFINE row == Opening(SeedFigure, clock)
  <2>1. /\ loop.pc = "seed" /\ loop.store.opening = None
        /\ ledger' = AppendRow(ledger, Opening(SeedFigure, loop.now))
        /\ UNCHANGED <<clock, when, repair>>
        /\ seeded' = IF loop.store.entries \cap Executions = {} THEN "verbatim" ELSE "backdated"
    BY <1>4 DEF Seed
  <2>2. loop.now = clock /\ Store = loop.store /\ Torn \notin ToSet(ledger)
    BY <2>1 DEF TimesAgree, ReloadAgrees, LedgerLoads, Store
  <2>3. row \in LedgerRow
    BY FigureIsTyped, OpeningRows DEF TypeOK
  <2>4. ledger' = Append(ledger, row)
    BY <1>0, <2>1, <2>2, <2>3, AppendRowIs
  <2>5. RowLoads(row)
    BY <2>3, <2>4, RowIsLoaded
  <2>6. seeded' = "backdated" \/ (seeded' = "verbatim" /\ SeedFigure = BrokerCash)
    BY <2>1 DEF SeedFigure
  <2> QED
    BY <2>1, <2>2, <2>5, <2>6 DEF StoreSeeds
<1>5. ASSUME NEW file \in {"none", "ledger", "executions", "activities"}, LoopDies(file)
      PROVE  Effect
  <2>1. UNCHANGED <<clock, when, repair, seeded>>
        /\ (ledger' = ledger \/ ledger' = AppendRow(ledger, Torn))
    BY <1>5 DEF LoopDies, files
  <2>2. Store' = Store
    BY <2>1, TornRowIsNotLoaded DEF Store
  <2> QED
    BY <2>1, <2>2 DEF StoreStays
<1>6. ASSUME NEW run \in Runs, RepairReads(run) PROVE Effect
  BY <1>6 DEF StoreIsRead, Store, RepairReads, files
<1>7. ASSUME NEW run \in Runs, NEW whole \in BOOLEAN, RepairApplies(run, whole) PROVE Effect
  <2>1. /\ repair[run].pc = "proposed" /\ repair' = [repair EXCEPT ![run].pc = "done"]
        /\ UNCHANGED <<clock, when, seeded>>
        /\ ledger' = AppendRow(ledger, IF whole THEN repair[run].row ELSE Torn)
    BY <1>7 DEF RepairApplies
  <2>2. repair[run].row \in LedgerRow
    BY DEF TypeOK, LedgerRow
  <2>3. CASE ~whole
    BY <2>1, <2>3, TornRowIsNotLoaded DEF StoreCorrects
  <2>4. CASE whole
    <3>1. ledger' = ledger \/ ledger' = Append(ledger, repair[run].row)
      BY <1>0, <2>1, <2>2, <2>4, AppendRowIs
    <3>2. Store' = Store \/ RowLoads(repair[run].row)
      BY <2>2, <3>1, RowIsLoaded DEF Store
    <3> QED
      BY <2>1, <3>2 DEF StoreCorrects
  <2> QED
    BY <2>3, <2>4
<1>8. ASSUME Tick \/ \E e \in Events : BrokerActs(e) PROVE Effect
  BY <1>8 DEF Tick, BrokerActs, TimePasses, Store, files
<1>9. Executions \in SUBSET Events /\ Activities \in SUBSET Events
  BY DEF Events
<1> HIDE DEF Effect
<1>10. Effect
  BY <1>2, <1>3, <1>4, <1>5, <1>6, <1>7, <1>8, <1>9 DEF Next, Cycle
<1> QED
  BY <1>10 DEF Effect

LEMMA LedgerTyped ==
    ASSUME TypeOK, NEW row \in LedgerRow, ledger' = AppendRow(ledger, row)
    PROVE  ledger' \in Seq(LedgerRow)
BY AppendRowIs DEF TypeOK

LEMMA TypeStep ==
    ASSUME TypeOK, [Next]_vars
    PROVE  TypeOK'
<1> USE DEF files
<1>0. /\ loop \in Loops /\ repair \in [Runs -> Repairs] /\ clock \in Nat
      /\ ledger \in Seq(LedgerRow)
  BY DEF TypeOK, Loops, Repairs
<1>1. ASSUME BeginCycle PROVE TypeOK'
  <2>1. loop' \in Loops
    <3>1. LedgerOf(ledger) \in Stores
      BY <1>0, StoreIsTyped
    <3> QED
      BY <1>0, <1>1, <3>1, DownIsTyped DEF BeginCycle, Loops
  <2> QED
    BY <1>1, <2>1 DEF BeginCycle, TypeOK, Loops
<1>2. ASSUME NEW pc \in {"fills", "activities"}, NEW S \in SUBSET Events, Book(pc, S)
      PROVE  TypeOK'
  <2>1. PICK e \in Foremost(S) :
            /\ loop' = [loop EXCEPT !.store.entries = @ \cup {e}]
            /\ ledger' = AppendRow(ledger, Entry(e))
            /\ UNCHANGED <<clock, when, quarantine, repair, deaths, seeded>>
    BY <1>2 DEF Book
  <2>2. e \in Events
    BY <2>1 DEF Foremost, ToDo
  <2>3. loop' \in Loops
    BY <1>0, <2>1, <2>2 DEF Loops, Stores
  <2>4. ledger' \in Seq(LedgerRow)
    BY <2>1, <2>2, EventRows, LedgerTyped
  <2> QED
    BY <2>1, <2>3, <2>4 DEF TypeOK, Loops
<1>3. ASSUME NEW pc \in {"fills", "activities"}, NEW S \in SUBSET Events, Quarantine(pc, S)
      PROVE  TypeOK'
  <2>1. PICK e \in Foremost(S) :
            /\ quarantine' = [quarantine EXCEPT ![FileOf(e)] = AppendRow(@, Quarantined(e))]
            /\ UNCHANGED <<clock, when, ledger, loop, repair, deaths, seeded>>
    BY <1>3 DEF Quarantine
  <2>2. e \in Events
    BY <2>1 DEF Foremost, ToDo
  <2>3. quarantine' \in [{"executions", "activities"} -> Seq(QuarantineRow)]
    BY <2>1, <2>2, EventRows, QuarantineTyped
  <2> QED
    BY <2>1, <2>3 DEF TypeOK
<1>4. ASSUME \/ SeedDeferred \/ AlreadySeeded \/ Compare \/ Stop
             \/ Synced("fills", Executions, "activities")
             \/ Synced("activities", Activities, "seed")
             \/ UNCHANGED vars
      PROVE  TypeOK'
  <2>1. loop' \in Loops
    BY <1>0, <1>4, DownIsTyped
       DEF SeedDeferred, AlreadySeeded, Compare, Stop, Synced, vars, Loops
  <2> QED
    BY <1>4, <2>1 DEF SeedDeferred, AlreadySeeded, Compare, Stop, Synced, vars, TypeOK, Loops
<1>5. ASSUME Seed PROVE TypeOK'
  <2> DEFINE row == Opening(SeedFigure, loop.now)
  <2>1. row \in OpeningRow /\ row \in LedgerRow
    BY <1>0, FigureIsTyped, OpeningRows DEF Loops
  <2>2. loop' \in Loops
    BY <1>0, <1>5, <2>1 DEF Seed, Loops, Stores
  <2>3. ledger' \in Seq(LedgerRow)
    BY <1>5, <2>1, LedgerTyped DEF Seed
  <2> QED
    BY <1>5, <2>2, <2>3 DEF Seed, TypeOK, Loops
<1>6. ASSUME NEW file \in {"none", "ledger", "executions", "activities"}, LoopDies(file)
      PROVE  TypeOK'
  <2>1. loop' \in Loops /\ deaths' \in Nat
    BY <1>6, DownIsTyped DEF LoopDies, TypeOK
  <2>2. ledger' \in Seq(LedgerRow)
    BY <1>0, <1>6, TornRows, LedgerTyped DEF LoopDies
  <2>3. quarantine' \in [{"executions", "activities"} -> Seq(QuarantineRow)]
    <3>1. CASE file \in {"none", "ledger"}
      BY <1>6, <3>1 DEF LoopDies, TypeOK
    <3>2. CASE file \in {"executions", "activities"}
      BY <1>6, <3>2, TornRows, QuarantineTyped DEF LoopDies
    <3> QED
      BY <3>1, <3>2
  <2> QED
    BY <1>6, <2>1, <2>2, <2>3 DEF LoopDies, TypeOK, Loops
<1>7. ASSUME NEW e \in Events, NEW decision \in {"ADMITTED", "REJECTED"}, NEW whole \in BOOLEAN,
             Resolve(e, decision, whole)
      PROVE  TypeOK'
  <2> DEFINE row == IF whole THEN Resolution(e, decision, clock) ELSE Torn
  <2>1. row \in QuarantineRow
    BY <1>0, TornRows DEF QuarantineRow, Resolution
  <2>2. quarantine' = [quarantine EXCEPT ![FileOf(e)] = AppendRow(@, row)]
    BY <1>7 DEF Resolve
  <2> HIDE DEF row
  <2>3. quarantine' \in [{"executions", "activities"} -> Seq(QuarantineRow)]
    BY <2>1, <2>2, EventRows, QuarantineTyped
  <2> QED
    BY <1>7, <2>3 DEF Resolve, TypeOK
<1>8. ASSUME NEW run \in Runs, RepairReads(run) PROVE TypeOK'
  <2> DEFINE store == LedgerOf(ledger)
  <2>1. store \in Stores /\ store.opening # None
    BY <1>0, <1>8, StoreIsTyped DEF RepairReads
  <2>2. store.opening.at \in Nat /\ store.entries \in SUBSET Events
    BY <2>1 DEF Stores, OpeningRow
  <2>3. PreSeed(store) \in SUBSET Events
    BY <2>2 DEF PreSeed
  <2>4. Correction(-Total(PreSeed(store)), store.opening.at, run) \in CorrectionRow
    BY <2>2, <2>3, TotalSums DEF Correction, CorrectionRow
  <2>5. repair' = [repair EXCEPT ![run] =
            [pc |-> "proposed",
             row |-> Correction(-Total(PreSeed(store)), store.opening.at, run),
             read |-> store.entries]]
    BY <1>8 DEF RepairReads
  <2>6. repair' \in [Runs -> Repairs]
    BY <1>0, <2>2, <2>4, <2>5 DEF Repairs
  <2> QED
    BY <1>8, <2>6 DEF RepairReads, TypeOK, Repairs
<1>9. ASSUME NEW run \in Runs, NEW whole \in BOOLEAN, RepairApplies(run, whole)
      PROVE  TypeOK'
  <2>1. repair[run].row \in CorrectionRow \cup {Torn}
    BY <1>0 DEF Repairs
  <2>2. ledger' \in Seq(LedgerRow)
    BY <1>9, <2>1, TornRows, LedgerTyped DEF RepairApplies, LedgerRow
  <2>3. repair' \in [Runs -> Repairs]
    BY <1>0, <1>9 DEF RepairApplies, Repairs
  <2>4. deaths' \in Nat
    BY <1>9 DEF RepairApplies, TypeOK
  <2>5. UNCHANGED <<clock, when, quarantine, loop, seeded>>
    BY <1>9 DEF RepairApplies
  <2> QED
    BY <2>2, <2>3, <2>4, <2>5 DEF TypeOK, Repairs
<1>10. ASSUME Tick \/ \E e \in Events : BrokerActs(e) PROVE TypeOK'
  <2>1. clock' \in Nat
    BY <1>0, <1>10 DEF Tick, BrokerActs
  <2>2. when' \in [Events -> Nat \cup {None}]
    <3>1. CASE Tick
      BY <3>1 DEF Tick, TypeOK
    <3>2. ASSUME NEW e \in Events, when' = [when EXCEPT ![e] = clock']
          PROVE  when' \in [Events -> Nat \cup {None}]
      BY <2>1, <3>2 DEF TypeOK
    <3> QED
      BY <1>10, <3>1, <3>2 DEF BrokerActs
  <2> QED
    BY <1>10, <2>1, <2>2 DEF Tick, BrokerActs, TypeOK
<1>11. Executions \in SUBSET Events /\ Activities \in SUBSET Events
  BY DEF Events
<1> QED
  BY <1>1, <1>2, <1>3, <1>4, <1>5, <1>6, <1>7, <1>8, <1>9, <1>10, <1>11 DEF Next, Cycle

(* Every variable keeps its type.                                           *)
THEOREM TypeCorrect == Spec => []TypeOK
<1>1. TypeOK /\ [Next]_vars => TypeOK'
  BY TypeStep
<1> QED
  BY <1>1, InitTypes, PTL DEF Spec

-----------------------------------------------------------------------------
(* A process holds what its files say *)

LEMMA ReloadStep ==
    ASSUME TypeOK, ReloadAgrees, [Next]_vars
    PROVE  ReloadAgrees'
<1> USE DEF files
<1>0. /\ ledger \in Seq(LedgerRow) /\ loop \in Loops
      /\ quarantine \in [{"executions", "activities"} -> Seq(QuarantineRow)]
  BY DEF TypeOK, Loops
<1>1. ASSUME loop'.pc \in {"down", "idle"} PROVE ReloadAgrees'
  BY <1>1 DEF ReloadAgrees
<1>2. ASSUME BeginCycle PROVE ReloadAgrees'
  BY <1>2, <1>1 DEF BeginCycle, ReloadAgrees, Down
<1>3. ASSUME NEW pc \in {"fills", "activities"}, NEW S \in SUBSET Events, Book(pc, S)
      PROVE  ReloadAgrees'
  <2>1. PICK e \in Foremost(S) :
            /\ loop.pc = pc
            /\ loop' = [loop EXCEPT !.store.entries = @ \cup {e}]
            /\ ledger' = AppendRow(ledger, Entry(e))
            /\ quarantine' = quarantine
    BY <1>3 DEF Book
  <2>2. e \in Events
    BY <2>1 DEF Foremost, ToDo
  <2>3. /\ LedgerLoads(ledger) /\ LedgerOf(ledger) = loop.store /\ Torn \notin ToSet(ledger)
        /\ QuarantineLoads(quarantine["executions"])
        /\ QuarantineLoads(quarantine["activities"])
    BY <1>3, <2>1 DEF ReloadAgrees, LedgerLoads
  <2> DEFINE row == Entry(e)
  <2>4. row \in LedgerRow /\ row.kind = "entry" /\ row.event = e
    BY <2>2, EventRows
  <2> HIDE DEF row
  <2>5. ledger' = Append(ledger, row)
    BY <1>0, <2>1, <2>3, <2>4, AppendRowIs DEF row
  <2>6. LedgerLoads(ledger')
    BY <1>0, <2>3, <2>4, <2>5, LoadsWithRow
  <2>7. LedgerOf(ledger') = loop'.store
    <3>1. /\ LedgerOf(ledger').opening = loop.store.opening
          /\ LedgerOf(ledger').entries = loop.store.entries \cup {e}
          /\ LedgerOf(ledger').corrections = loop.store.corrections
      BY <1>0, <2>3, <2>4, <2>5, StoreWithRow
    <3>2. LedgerOf(ledger') \in Stores
      BY <1>0, <2>4, <2>5, StoreIsTyped, AppendProperties
    <3>3. /\ loop'.store \in Stores
          /\ loop'.store.opening = loop.store.opening
          /\ loop'.store.entries = loop.store.entries \cup {e}
          /\ loop'.store.corrections = loop.store.corrections
      BY <1>0, <2>1, <2>2 DEF Loops, Stores
    <3>4. \A s, t \in Stores : s.opening = t.opening /\ s.entries = t.entries
                               /\ s.corrections = t.corrections => s = t
      BY DEF Stores
    <3> QED
      BY <3>1, <3>2, <3>3, <3>4
  <2> QED
    BY <2>1, <2>3, <2>6, <2>7 DEF ReloadAgrees
<1>4. ASSUME NEW pc \in {"fills", "activities"}, NEW S \in SUBSET Events, Quarantine(pc, S)
      PROVE  ReloadAgrees'
  <2>1. PICK e \in Foremost(S) :
            /\ loop.pc = pc /\ loop' = loop /\ ledger' = ledger
            /\ quarantine' = [quarantine EXCEPT ![FileOf(e)] = AppendRow(@, Quarantined(e))]
    BY <1>4 DEF Quarantine
  <2>2. e \in Events
    BY <2>1 DEF Foremost, ToDo
  <2>3. /\ LedgerLoads(ledger) /\ LedgerOf(ledger) = loop.store
        /\ QuarantineLoads(quarantine["executions"])
        /\ QuarantineLoads(quarantine["activities"])
    BY <1>4, <2>1 DEF ReloadAgrees
  <2>4. ASSUME NEW file \in {"executions", "activities"} PROVE QuarantineLoads(quarantine'[file])
    <3>1. CASE file # FileOf(e)
      BY <1>0, <2>1, <2>3, <3>1
    <3>2. CASE file = FileOf(e)
      <4>1. quarantine[file] \in Seq(QuarantineRow) /\ QuarantineLoads(quarantine[file])
        BY <1>0, <2>3
      <4>2. quarantine'[file] = AppendRow(quarantine[file], Quarantined(e))
        BY <1>0, <2>1, <3>2
      <4>3. Quarantined(e) \in QuarantineRow /\ Torn \notin ToSet(quarantine[file])
        BY <2>2, <4>1, EventRows DEF QuarantineLoads
      <4>4. quarantine'[file] = Append(quarantine[file], Quarantined(e))
        BY <4>1, <4>2, <4>3, AppendRowIs
      <4> QED
        BY <2>2, <4>1, <4>4, QuarantineLoadsWithRow
    <3> QED
      BY <3>1, <3>2
  <2> QED
    BY <2>1, <2>3, <2>4 DEF ReloadAgrees
<1>5. ASSUME \/ AlreadySeeded \/ UNCHANGED vars
             \/ Synced("fills", Executions, "activities")
             \/ Synced("activities", Activities, "seed")
      PROVE  ReloadAgrees'
  BY <1>0, <1>5 DEF AlreadySeeded, Synced, vars, ReloadAgrees, Loops
<1>6. ASSUME SeedDeferred \/ Compare \/ Stop \/ Tick \/ (\E e \in Events : BrokerActs(e))
             \/ \E file \in {"none", "ledger", "executions", "activities"} : LoopDies(file)
      PROVE  ReloadAgrees'
  <2>1. loop'.pc \in {"down", "idle"}
    BY <1>0, <1>6 DEF SeedDeferred, Compare, Stop, Tick, BrokerActs, LoopDies, Down, Loops
  <2> QED
    BY <1>1, <2>1
<1>7. ASSUME Seed PROVE ReloadAgrees'
  <2> DEFINE row == Opening(SeedFigure, loop.now)
  <2>1. row \in OpeningRow /\ row \in LedgerRow /\ row.kind = "opening"
    BY <1>0, FigureIsTyped, OpeningRows DEF Loops
  <2> HIDE DEF row
  <2>2. /\ loop.pc = "seed" /\ ledger' = AppendRow(ledger, row) /\ quarantine' = quarantine
        /\ loop' = [loop EXCEPT !.store.opening = row, !.pc = "compare"]
    BY <1>7 DEF Seed, row
  <2>3. /\ LedgerLoads(ledger) /\ LedgerOf(ledger) = loop.store /\ Torn \notin ToSet(ledger)
        /\ QuarantineLoads(quarantine["executions"])
        /\ QuarantineLoads(quarantine["activities"])
    BY <2>2 DEF ReloadAgrees, LedgerLoads
  <2>4. ledger' = Append(ledger, row)
    BY <1>0, <2>1, <2>2, <2>3, AppendRowIs
  <2>5. LedgerLoads(ledger')
    BY <1>0, <2>1, <2>3, <2>4, LoadsWithRow
  <2>6. LedgerOf(ledger') = loop'.store
    <3>1. /\ LedgerOf(ledger').opening = row
          /\ LedgerOf(ledger').entries = loop.store.entries
          /\ LedgerOf(ledger').corrections = loop.store.corrections
      <4>1. /\ ledger \in Seq(LedgerRow) /\ Torn \notin ToSet(ledger)
            /\ ledger' = Append(ledger, row) /\ LedgerOf(ledger) = loop.store
        BY <1>0, <2>3, <2>4
      <4> QED
        BY <2>1, <4>1, StoreWithRow
    <3>2. LedgerOf(ledger') \in Stores
      BY <1>0, <2>1, <2>4, StoreIsTyped, AppendProperties
    <3>3. /\ loop'.store \in Stores /\ loop'.store.opening = row
          /\ loop'.store.entries = loop.store.entries
          /\ loop'.store.corrections = loop.store.corrections
      BY <1>0, <2>1, <2>2 DEF Loops, Stores
    <3>4. \A s, t \in Stores : s.opening = t.opening /\ s.entries = t.entries
                               /\ s.corrections = t.corrections => s = t
      BY DEF Stores
    <3> QED
      BY <3>1, <3>2, <3>3, <3>4
  <2> QED
    BY <2>2, <2>3, <2>5, <2>6 DEF ReloadAgrees
<1>8. ASSUME NEW e \in Events, NEW decision \in {"ADMITTED", "REJECTED"}, NEW whole \in BOOLEAN,
             Resolve(e, decision, whole)
      PROVE  ReloadAgrees'
  BY <1>1, <1>8 DEF Resolve, Unlocked
<1>9. ASSUME NEW run \in Runs, RepairReads(run) PROVE ReloadAgrees'
  BY <1>9 DEF RepairReads, ReloadAgrees
<1>10. ASSUME NEW run \in Runs, NEW whole \in BOOLEAN, RepairApplies(run, whole)
      PROVE  ReloadAgrees'
  BY <1>1, <1>10 DEF RepairApplies, Unlocked
<1>11. Executions \in SUBSET Events /\ Activities \in SUBSET Events
  BY DEF Events
<1> QED
  BY <1>2, <1>3, <1>4, <1>5, <1>6, <1>7, <1>8, <1>9, <1>10, <1>11 DEF Next, Cycle

(* Whatever the order of cycles, decisions, repairs and deaths: a running   *)
(* cycle holds in memory what its three files load as, and they load, so a  *)
(* restart between two rows would know neither more nor less.               *)
THEOREM ReloadsAgree == Spec => []ReloadAgrees
<1>1. Init => ReloadAgrees
  BY DEF Init, Down, ReloadAgrees
<1>2. TypeOK /\ ReloadAgrees /\ [Next]_vars => ReloadAgrees'
  BY ReloadStep
<1> QED
  BY <1>1, <1>2, TypeCorrect, PTL DEF Spec

-----------------------------------------------------------------------------
(* What a correction takes out *)

LEMMA StoreOfTypes ==
    ASSUME TypeOK
    PROVE  /\ Store \in Stores /\ Store.entries \in SUBSET Events
           /\ Store.corrections \in SUBSET CorrectionRow
           /\ Store.opening # None =>
                  Store.opening.amount \in Int /\ Store.opening.at \in Nat
<1>1. Store \in Stores
  BY StoreIsTyped DEF TypeOK, Store
<1> QED
  BY <1>1 DEF Stores, OpeningRow

\* An instant that has been is not changed, and a later one is after the clock.
LEMMA WhenStep ==
    ASSUME TypeOK, TimesAgree, [Next]_vars, ReloadAgrees
    PROVE  /\ clock' \in Nat /\ clock <= clock'
           /\ \A e \in Happened : e \in Happened' /\ when'[e] = when[e]
           /\ \A e \in Happened' : when'[e] \in Nat /\ when'[e] <= clock'
                                   /\ (e \notin Happened => when'[e] > clock)
<1>0. /\ clock \in Nat /\ \A e \in Happened : when[e] \in Nat /\ when[e] <= clock
      /\ when \in [Events -> Nat \cup {None}]
  BY DEF TypeOK, Happened, TimesAgree
<1>1. CASE UNCHANGED <<clock, when>>
  BY <1>0, <1>1 DEF Happened
<1>2. CASE TimePasses
  <2>1. clock' = clock + 1
    BY <1>2 DEF TimePasses
  <2>2. CASE when' = when
    BY <1>0, <2>1, <2>2 DEF Happened
  <2>3. ASSUME NEW e \in Events, when[e] = None, when' = [when EXCEPT ![e] = clock']
        PROVE  /\ \A d \in Happened : d \in Happened' /\ when'[d] = when[d]
               /\ \A d \in Happened' : when'[d] \in Nat /\ when'[d] <= clock'
                                       /\ (d \notin Happened => when'[d] > clock)
    <3>1. clock' \in Nat /\ clock' # None /\ clock < clock'
      BY <1>0, <2>1, NoneAssumption
    <3>2. \A d \in Events : when'[d] = IF d = e THEN clock' ELSE when[d]
      BY <1>0, <2>3
    <3>3. Happened' = Happened \cup {e} /\ e \notin Happened
      BY <2>3, <3>1, <3>2 DEF Happened
    <3>4. \A d \in Happened : d \in Events /\ d # e /\ when'[d] = when[d] /\ when'[d] <= clock'
      BY <1>0, <2>1, <3>2, <3>3 DEF Happened
    <3> QED
      BY <1>0, <3>1, <3>2, <3>3, <3>4
  <2> QED
    BY <1>0, <1>2, <2>1, <2>2, <2>3 DEF TimePasses
<1>3. UNCHANGED <<clock, when>> \/ TimePasses
  BY StoreEffects DEF StoreStays, StoreSeeds, StoreBooks, StoreCorrects, StoreIsRead,
     RepairReads
<1> QED
  BY <1>1, <1>2, <1>3

LEMMA TimesStep ==
    ASSUME TypeOK, ReloadAgrees, TimesAgree, [Next]_vars
    PROVE  TimesAgree'
<1>1. \A e \in Happened' : when'[e] <= clock'
  BY WhenStep
<1>2. loop'.pc \notin {"down", "idle"} => loop'.now = clock'
  <2>0. loop \in Loops
    BY DEF TypeOK, Loops
  <2> DEFINE Kept == \/ loop'.pc \in {"down", "idle"}
                     \/ clock' = clock /\ loop'.now = clock
                     \/ clock' = clock /\ loop'.now = loop.now /\ loop.pc \notin {"down", "idle"}
                     \/ loop' = loop /\ (loop.pc \in {"down", "idle"} \/ clock' = clock)
  <2>1. ASSUME BeginCycle \/ SeedDeferred \/ AlreadySeeded \/ Compare \/ Stop
               \/ (\E file \in {"none", "ledger", "executions", "activities"} : LoopDies(file))
        PROVE  Kept
    BY <2>0, <2>1 DEF BeginCycle, SeedDeferred, AlreadySeeded, Compare, Stop, LoopDies,
       Down, Loops
  <2>2. ASSUME Seed PROVE Kept
    BY <2>0, <2>2 DEF Seed, Loops
  <2>3. ASSUME NEW pc \in {"fills", "activities"}, NEW S,
               Book(pc, S) \/ Quarantine(pc, S)
               \/ \E then \in {"activities", "seed"} : Synced(pc, S, then)
        PROVE  Kept
    BY <2>0, <2>3 DEF Book, Quarantine, Synced, Loops
  <2>4. ASSUME \/ \E e \in Events, decision \in {"ADMITTED", "REJECTED"}, whole \in BOOLEAN :
                      Resolve(e, decision, whole)
               \/ \E run \in Runs : RepairReads(run)
               \/ \E run \in Runs, whole \in BOOLEAN : RepairApplies(run, whole)
               \/ UNCHANGED vars
        PROVE  Kept
    BY <2>4 DEF Resolve, RepairReads, RepairApplies, vars
  <2>5. ASSUME Tick \/ \E e \in Events : BrokerActs(e) PROVE Kept
    BY <2>5 DEF Tick, BrokerActs
  <2> HIDE DEF Kept
  <2>6. Kept
    BY <2>1, <2>2, <2>3, <2>4, <2>5 DEF Next, Cycle
  <2> QED
    BY <2>6 DEF TimesAgree, Kept
<1>3. Store'.entries \subseteq Happened'
  <2>1. \A e \in Happened : e \in Happened'
    BY WhenStep
  <2>2. ASSUME NEW e \in Events, StoreBooks(e) PROVE Store'.entries \subseteq Happened'
    BY <2>1, <2>2, EventRows DEF StoreBooks, RowLoads, TimesAgree
  <2>3. CASE StoreSeeds
    <3>1. Opening(SeedFigure, clock).kind = "opening"
      BY DEF Opening
    <3> QED
      BY <2>1, <2>3, <3>1 DEF StoreSeeds, RowLoads, TimesAgree
  <2>4. ASSUME NEW run \in Runs, StoreCorrects(run) PROVE Store'.entries \subseteq Happened'
    <3>1. repair[run].row.kind # "entry"
      BY DEF TypeOK, CorrectionRow, Torn
    <3> QED
      BY <2>1, <2>4, <3>1 DEF StoreCorrects, RowLoads, TimesAgree
  <2>5. Store' = Store => Store'.entries \subseteq Happened'
    BY <2>1 DEF TimesAgree
  <2> QED
    BY <2>2, <2>3, <2>4, <2>5, StoreEffects DEF StoreStays, TimePasses, StoreIsRead
<1> QED
  BY <1>1, <1>2, <1>3 DEF TimesAgree

\* The opening balance is written once.
LEMMA OpeningEffects ==
    ASSUME TypeOK, ReloadAgrees, TimesAgree, [Next]_vars
    PROVE  \/ Store'.opening = Store.opening /\ seeded' = seeded
           \/ StoreSeeds /\ Store'.opening = Opening(SeedFigure, clock)
<1>1. ASSUME NEW e \in Events, StoreBooks(e)
      PROVE  Store'.opening = Store.opening /\ seeded' = seeded
  BY <1>1, EventRows DEF StoreBooks, RowLoads
<1>2. ASSUME StoreSeeds PROVE Store'.opening = Opening(SeedFigure, clock)
  <2>1. Opening(SeedFigure, clock).kind = "opening"
    BY DEF Opening
  <2> QED
    BY <1>2, <2>1 DEF StoreSeeds, RowLoads
<1>3. ASSUME NEW run \in Runs, StoreCorrects(run)
      PROVE  Store'.opening = Store.opening /\ seeded' = seeded
  <2>1. repair[run].row.kind # "opening"
    BY DEF TypeOK, CorrectionRow, Torn
  <2> QED
    BY <1>3, <2>1 DEF StoreCorrects, RowLoads
<1>4. ASSUME NEW run \in Runs, StoreIsRead(run)
      PROVE  Store'.opening = Store.opening /\ seeded' = seeded
  BY <1>4 DEF StoreIsRead, RepairReads
<1> QED
  BY <1>1, <1>2, <1>3, <1>4, StoreEffects DEF StoreStays, TimePasses

\* What had happened by an instant that has passed.
LEMMA SeedStep ==
    ASSUME TypeOK, ReloadAgrees, TimesAgree, SeedCounts, [Next]_vars
    PROVE  SeedCounts'
<1> DEFINE Counted == {e \in Happened : BeforeSeed(e)}
<1>0. /\ clock \in Nat /\ clock' \in Nat /\ clock <= clock'
      /\ \A e \in Happened : when[e] \in Nat
  BY WhenStep DEF TypeOK, Happened
<1>1. ASSUME Store'.opening = Store.opening, seeded' = seeded
      PROVE  SeedCounts'
  <2>1. CASE Store.opening = None
    BY <1>1, <2>1 DEF SeedCounts
  <2>2. CASE Store.opening # None
    <3>1. Store.opening.at \in Nat /\ Store.opening.at <= clock
      BY <2>2, StoreOfTypes DEF SeedCounts
    <3>2. Counted' = Counted
      <4>1. \A e \in Happened' : e \notin Happened => ~(when'[e] <= Store.opening.at)
        BY <1>0, <3>1, WhenStep
      <4>2. \A e \in Happened : e \in Happened' /\ when'[e] = when[e]
        BY WhenStep
      <4> QED
        BY <1>1, <4>1, <4>2 DEF BeforeSeed
    <3>3. Total(Counted') = Total(Counted)
      BY <3>2
    <3> HIDE DEF Counted
    <3>4. seeded = "verbatim" => Store.opening.amount = Funds + Total(Counted)
      BY DEF SeedCounts, Counted
    <3>5. seeded' = "verbatim" => Store'.opening.amount = Funds + Total(Counted')
      BY <1>1, <3>3, <3>4
    <3>6. Store'.opening # None => Store'.opening.at <= clock'
      BY <1>0, <1>1, <3>1
    <3>7. Store'.opening = None <=> seeded' = "no"
      BY <1>1 DEF SeedCounts
    <3> QED
      BY <3>5, <3>6, <3>7 DEF SeedCounts, Counted
  <2> QED
    BY <2>1, <2>2
<1>2. ASSUME StoreSeeds, Store'.opening = Opening(SeedFigure, clock)
      PROVE  SeedCounts'
  <2>1. /\ Store'.opening # None /\ Store'.opening.at = clock
        /\ Store'.opening.amount = SeedFigure
    BY <1>0, <1>2, FigureIsTyped, OpeningRows
  <2>2. clock' = clock /\ when' = when /\ seeded' \in {"backdated", "verbatim"}
        /\ (seeded' = "verbatim" => SeedFigure = BrokerCash)
    BY <1>2 DEF StoreSeeds
  <2>3. Counted' = Happened
    BY <2>1, <2>2 DEF BeforeSeed, Happened, TimesAgree
  <2>4. BrokerCash = Funds + Total(Happened)
    BY FigureIsTyped
  <2>5. seeded' = "verbatim" => Store'.opening.amount = Funds + Total(Counted')
    BY <2>1, <2>2, <2>3, <2>4
  <2>6. Store'.opening.at <= clock'
    BY <1>0, <2>1, <2>2
  <2> QED
    BY <2>1, <2>2, <2>5, <2>6 DEF SeedCounts
<1> QED
  BY <1>1, <1>2, OpeningEffects

\* What a repair read and means to write does not change.
LEMMA RepairKept ==
    ASSUME TypeOK, ReloadAgrees, TimesAgree, [Next]_vars, NEW run \in Runs,
           repair[run].pc # "not_run"
    PROVE  /\ repair'[run].pc # "not_run" /\ repair'[run].row = repair[run].row
           /\ repair'[run].read = repair[run].read
<1>0. repair \in [Runs -> Repairs]
  BY DEF TypeOK, Repairs
<1>1. CASE repair' = repair
  BY <1>1
<1>2. ASSUME NEW other \in Runs, StoreCorrects(other)
      PROVE  /\ repair'[run].pc # "not_run" /\ repair'[run].row = repair[run].row
             /\ repair'[run].read = repair[run].read
  BY <1>0, <1>2 DEF StoreCorrects, Repairs
<1>3. ASSUME NEW other \in Runs, StoreIsRead(other) PROVE repair'[run] = repair[run]
  <2>1. repair[other].pc = "not_run" /\ \E r : repair' = [repair EXCEPT ![other] = r]
    BY <1>3 DEF StoreIsRead, RepairReads
  <2> QED
    BY <1>0, <2>1
<1> QED
  BY <1>1, <1>2, <1>3, StoreEffects DEF StoreStays, StoreSeeds, TimePasses, StoreBooks

LEMMA EntriesStay ==
    ASSUME TypeOK, ReloadAgrees, TimesAgree, [Next]_vars
    PROVE  Store.entries \subseteq Store'.entries
BY StoreEffects DEF StoreStays, StoreSeeds, TimePasses, StoreBooks, StoreCorrects,
   StoreIsRead, RowLoads

LEMMA CorrectionsCome ==
    ASSUME TypeOK, ReloadAgrees, TimesAgree, [Next]_vars, NEW c \in Store'.corrections,
           c \notin Store.corrections
    PROVE  \E run \in Runs : repair[run].pc = "proposed" /\ c = repair[run].row
<1>1. ASSUME NEW e \in Events, StoreBooks(e) PROVE FALSE
  BY <1>1, EventRows DEF StoreBooks, RowLoads
<1>2. ASSUME StoreSeeds PROVE FALSE
  <2>1. Opening(SeedFigure, clock).kind = "opening"
    BY DEF Opening
  <2> QED
    BY <1>2, <2>1 DEF StoreSeeds, RowLoads
<1>3. ASSUME NEW run \in Runs, StoreCorrects(run)
      PROVE  repair[run].pc = "proposed" /\ c = repair[run].row
  BY <1>3 DEF StoreCorrects, RowLoads
<1> QED
  BY <1>1, <1>2, <1>3, StoreEffects DEF StoreStays, TimePasses, StoreIsRead

Counts(run) == {e \in repair[run].read : EffectiveAt(e) <= Store.opening.at}
Means(run) ==
    /\ Store.opening # None /\ repair[run].read \subseteq Store.entries
    /\ repair[run].row = Correction(-Total(Counts(run)), Store.opening.at, run)

LEMMA MeaningStep ==
    ASSUME TypeOK, ReloadAgrees, TimesAgree, SeedCounts, RepairsMean, [Next]_vars,
           NEW run \in Runs, repair'[run].pc # "not_run"
    PROVE  Means(run)'
<1>0. repair \in [Runs -> Repairs]
  BY DEF TypeOK, Repairs
<1>1. CASE repair[run].pc # "not_run"
  <2>1. Means(run)
    BY <1>1 DEF RepairsMean, Means, Counts
  <2>2. Store'.opening = Store.opening
    BY <2>1, OpeningEffects DEF Means, StoreSeeds
  <2>3. repair'[run].row = repair[run].row /\ repair'[run].read = repair[run].read
    BY <1>1, RepairKept
  <2>4. repair'[run].read \subseteq Store'.entries
    BY <2>1, <2>3, EntriesStay DEF Means
  <2>5. \A e \in repair[run].read : when'[e] = when[e]
    BY <2>1, WhenStep DEF Means, TimesAgree
  <2>6. Counts(run)' = Counts(run)
    BY <2>2, <2>3, <2>5 DEF Counts, EffectiveAt
  <2>7. Total(Counts(run)') = Total(Counts(run))
    BY <2>6
  <2>8. repair'[run].row = Correction(-Total(Counts(run)'), Store'.opening.at, run)
    BY <2>1, <2>2, <2>3, <2>7 DEF Means
  <2> QED
    BY <2>1, <2>2, <2>4, <2>8 DEF Means
<1>2. CASE repair[run].pc = "not_run"
  <2>1. StoreIsRead(run)
    <3>1. repair' # repair
      BY <1>2
    <3>2. ASSUME NEW other \in Runs, StoreCorrects(other) PROVE FALSE
      BY <1>0, <1>2, <3>2 DEF StoreCorrects
    <3>3. ASSUME NEW other \in Runs, StoreIsRead(other) PROVE other = run
      <4>1. \E r : repair' = [repair EXCEPT ![other] = r]
        BY <3>3 DEF StoreIsRead, RepairReads
      <4> QED
        BY <1>0, <1>2, <4>1
    <3> QED
      BY <3>1, <3>2, <3>3, StoreEffects DEF StoreStays, StoreSeeds, TimePasses, StoreBooks
  <2>2. /\ Store' = Store /\ Store.opening # None /\ when' = when
        /\ repair' = [repair EXCEPT ![run] =
              [pc |-> "proposed",
               row |-> Correction(-Total(PreSeed(Store)), Store.opening.at, run),
               read |-> Store.entries]]
    BY <2>1 DEF StoreIsRead, RepairReads, Store
  <2>3. /\ repair'[run].row = Correction(-Total(PreSeed(Store)), Store.opening.at, run)
        /\ repair'[run].read = Store.entries
    BY <1>0, <2>2
  <2>4. Counts(run)' = PreSeed(Store)
    BY <2>2, <2>3 DEF Counts, PreSeed, EffectiveAt
  <2>5. Total(Counts(run)') = Total(PreSeed(Store))
    BY <2>4
  <2>6. repair'[run].row = Correction(-Total(Counts(run)'), Store'.opening.at, run)
    BY <2>2, <2>3, <2>5
  <2> QED
    BY <2>2, <2>3, <2>6 DEF Means
<1> QED
  BY <1>1, <1>2

LEMMA RepairsStep ==
    ASSUME TypeOK, ReloadAgrees, TimesAgree, SeedCounts, RepairsMean, [Next]_vars
    PROVE  RepairsMean'
<1>1. \A run \in Runs : repair'[run].pc # "not_run" => Means(run)'
  BY MeaningStep
<1>2. ASSUME NEW c \in Store'.corrections
      PROVE  repair'[c.run].pc # "not_run" /\ c = repair'[c.run].row
  <2>1. CASE c \in Store.corrections
    <3>1. c.run \in Runs
      BY <2>1, StoreOfTypes DEF CorrectionRow
    <3>2. repair[c.run].pc # "not_run" /\ c = repair[c.run].row
      BY <2>1 DEF RepairsMean
    <3> QED
      BY <3>1, <3>2, RepairKept
  <2>2. CASE c \notin Store.corrections
    <3>1. PICK run \in Runs : repair[run].pc = "proposed" /\ c = repair[run].row
      BY <2>2, CorrectionsCome
    <3>2. repair[run].pc # "not_run"
      BY <3>1
    <3>3. c.run = run
      <4>1. \A a, t : Correction(a, t, run).run = run
        BY DEF Correction
      <4>2. \E a, t : repair[run].row = Correction(a, t, run)
        BY <3>2 DEF RepairsMean
      <4> QED
        BY <3>1, <4>1, <4>2
    <3> QED
      BY <3>1, <3>2, <3>3, RepairKept
  <2> QED
    BY <2>1, <2>2
<1> QED
  BY <1>1, <1>2 DEF RepairsMean, Means, Counts

LEMMA StartsBefore ==
    ASSUME NEW t \in Nat
    PROVE  StartOfDay(t) \in Nat /\ StartOfDay(t) <= t
<1>1. \A d \in Nat \ {0} : (t \div d) \in Nat /\ (t \div d) * d <= t
  OBVIOUS
<1> QED
  BY <1>1, NumbersAssumption DEF StartOfDay

\* What had happened before a new account was seeded, and before the account
\* of the incident was: nothing, and the executions its figure holds.
LEMMA InitInv == Init => IInv
<1> SUFFICES ASSUME Init PROVE IInv
  OBVIOUS
<1>1. TypeOK
  BY InitTypes
<1>2. ReloadAgrees
  BY DEF Init, Down, ReloadAgrees
<1>3. LedgerOf(<<>>) = [opening |-> None, entries |-> {}, corrections |-> {}]
  BY DEF LedgerOf, OfKind, Places, ToSet
<1>4. \A run \in Runs : repair[run].pc = "not_run"
  BY DEF Init, NotRun
<1>5. loop.pc = "down"
  BY DEF Init, Down
<1>6. CASE when = [e \in Events |-> None] /\ ledger = <<>> /\ seeded = "no"
  <2>1. Store.opening = None /\ Store.entries = {} /\ Store.corrections = {} /\ Happened = {}
    BY <1>3, <1>6 DEF Store, Happened
  <2> QED
    BY <1>1, <1>2, <1>4, <1>5, <1>6, <2>1 DEF IInv, TimesAgree, SeedCounts, RepairsMean
<1>7. ASSUME NEW early \in SUBSET Executions,
             when = [e \in Events |-> IF e \in early THEN 1 ELSE None],
             ledger = <<Opening(Funds + Total(early), 1)>>, seeded = "verbatim"
      PROVE  IInv
  <2> DEFINE opening == Opening(Funds + Total(early), 1)
  <2>1. early \in SUBSET Events
    BY DEF Events
  <2>2. Funds + Total(early) \in Int
    BY <2>1, TotalSums, EventsAssumption
  <2>3. /\ opening \in LedgerRow /\ opening.kind = "opening" /\ opening # None
        /\ opening.amount = Funds + Total(early) /\ opening.at = 1
    BY <2>2, OpeningRows
  <2>4. <<>> \in Seq(LedgerRow) /\ ledger = Append(<<>>, opening)
    BY <1>7, EmptySeq
  <2>5. Store.opening = opening /\ Store.entries = {} /\ Store.corrections = {}
    <3> HIDE DEF opening
    <3>1. /\ LedgerOf(Append(<<>>, opening)).opening = opening
          /\ LedgerOf(Append(<<>>, opening)).entries = LedgerOf(<<>>).entries
          /\ LedgerOf(Append(<<>>, opening)).corrections = LedgerOf(<<>>).corrections
      <4>1. opening.kind # "entry" /\ opening.kind # "correction"
        BY <2>3
      <4> QED
        BY <2>3, <2>4, <4>1, StoreWithRow
    <3>2. LedgerOf(<<>>).entries = {} /\ LedgerOf(<<>>).corrections = {}
      BY <1>3
    <3> QED
      BY <2>4, <3>1, <3>2 DEF Store
  <2>6. Happened = early /\ \A e \in early : when[e] = 1
    BY <1>7, <2>1, NoneAssumption DEF Happened
  <2>7. {e \in Happened : BeforeSeed(e)} = early
    BY <2>3, <2>5, <2>6 DEF BeforeSeed
  <2>8. clock = 1
    BY DEF Init
  <2>9. TimesAgree
    BY <1>5, <2>5, <2>6, <2>8 DEF TimesAgree
  <2>10. SeedCounts
    <3> HIDE DEF opening
    <3> QED
      BY <1>7, <2>3, <2>5, <2>7, <2>8 DEF SeedCounts
  <2>11. RepairsMean
    BY <1>4, <2>5 DEF RepairsMean
  <2> QED
    BY <1>1, <1>2, <2>9, <2>10, <2>11 DEF IInv
<1> QED
  BY <1>6, <1>7 DEF Init

\* The files keep what a correction rests on: when things happened, what the
\* opening balance counts, and what each repair means to take out.
THEOREM Invariance == Spec => []IInv
<1>1. IInv /\ [Next]_vars => IInv'
  BY TypeStep, ReloadStep, TimesStep, SeedStep, RepairsStep DEF IInv
<1> QED
  BY <1>1, InitInv, PTL DEF Spec

\* What a correction takes out is what the opening balance and the rows both
\* hold, when nothing is between: the rest is counted once.
LEMMA Exact ==
    ASSUME IInv
    PROVE  CorrectionsAreExact
<1> SUFFICES ASSUME NEW c \in Store.corrections,
                    seeded # "backdated",
                    Store.corrections = {c},
                    \A e \in Store.entries \ repair[c.run].read : ~BeforeSeed(e),
                    \A e \in Store.entries \cap Activities :
                        EffectiveAt(e) <= Store.opening.at => BeforeSeed(e)
             PROVE  Cash(Store) = CountedOnce
  BY DEF CorrectionsAreExact
<1> DEFINE run == c.run
           E == Store.entries
           B == {e \in Happened : BeforeSeed(e)}
           Taken == {e \in repair[run].read : EffectiveAt(e) <= Store.opening.at}
<1>1. /\ E \in SUBSET Events /\ E \subseteq Happened /\ B \in SUBSET Events
      /\ Store.corrections \in SUBSET CorrectionRow
      /\ \A e \in Happened : when[e] \in Nat
      /\ Happened \in SUBSET Events
  BY StoreOfTypes DEF IInv, TypeOK, TimesAgree, Happened
<1>2. run \in Runs /\ c.amount \in Int
  BY <1>1 DEF CorrectionRow
<1>3. repair[run].pc # "not_run" /\ c = repair[run].row
  BY DEF IInv, RepairsMean
<1>4. /\ Store.opening # None /\ repair[run].read \subseteq E
      /\ repair[run].row = Correction(-Total(Taken), Store.opening.at, run)
  BY <1>2, <1>3 DEF IInv, RepairsMean
<1>5. c.amount = -Total(Taken)
  BY <1>3, <1>4 DEF Correction
<1>6. Store.opening.at \in Nat /\ Store.opening.amount \in Int
  BY <1>4, StoreOfTypes DEF IInv
<1>7. Store.opening.amount = Funds + Total(B)
  BY <1>4 DEF IInv, SeedCounts, TypeOK
<1>8. Taken = E \cap B
  <2>1. ASSUME NEW e \in E PROVE EffectiveAt(e) <= Store.opening.at <=> BeforeSeed(e)
    <3>1. when[e] \in Nat
      BY <1>1
    <3>2. CASE e \in Executions
      BY <3>2 DEF EffectiveAt, BeforeSeed
    <3>3. CASE e \notin Executions
      <4>1. e \in E \cap Activities
        BY <1>1, <3>3 DEF Events
      <4>2. EffectiveAt(e) \in Nat /\ EffectiveAt(e) <= when[e]
        BY <3>1, <3>3, StartsBefore DEF EffectiveAt
      <4> QED
        BY <1>6, <3>1, <4>1, <4>2 DEF BeforeSeed
    <3> QED
      BY <3>2, <3>3
  <2>2. \A e \in Taken : e \in E \cap B
    BY <1>1, <1>4, <2>1
  <2>3. ASSUME NEW e \in E \cap B PROVE e \in Taken
    BY <2>1
  <2> QED
    BY <2>2, <2>3
<1>9. {e \in Happened : e \in E \/ BeforeSeed(e)} = E \cup B
  BY <1>1
<1>10. CountedOnce = Funds + Total(E \cup B)
  BY <1>9 DEF CountedOnce
<1>11. Corrected(Store) = c.amount
  BY <1>2, CorrectedByOne
<1>12. Total(E \cup B) + Total(E \cap B) = Total(E) + Total(B)
  BY <1>1, TotalOfBoth
<1>13. /\ Total(E) \in Int /\ Total(B) \in Int /\ Total(E \cup B) \in Int
       /\ Total(E \cap B) \in Int /\ Funds \in Int
  <2>1. E \cup B \in SUBSET Events /\ E \cap B \in SUBSET Events
    BY <1>1
  <2> QED
    BY <1>1, <2>1, TotalSums, EventsAssumption
<1>14. Cash(Store) = Store.opening.amount + Total(E) + c.amount
  BY <1>11 DEF Cash
<1>15. c.amount = -Total(E \cap B)
  BY <1>5, <1>8
<1> HIDE DEF E, B, Taken
<1> QED
  BY <1>7, <1>10, <1>12, <1>13, <1>14, <1>15

\* Whatever the amounts, the runs of the script, the deaths and the restarts
\* between: a correction leaves every event counted once, but for the four
\* cases CorrectionsAreExact names.
\* (scripts/repair_settled_cash_baseline.py:209-252)
THEOREM ExactCorrections == Spec => []CorrectionsAreExact
<1>1. IInv => CorrectionsAreExact
  BY Exact
<1> QED
  BY <1>1, Invariance, PTL

-----------------------------------------------------------------------------
(* Decisions on disk *)

\* What a row behind the others changes in the decisions about an event.
LEMMA DecisionsWithRow ==
    ASSUME NEW rows \in Seq(QuarantineRow), NEW row \in QuarantineRow, NEW d \in Events,
           row.kind = "resolution" => row.event # d
    PROVE  DecisionOf(AppendRow(rows, row), d) = DecisionOf(rows, d)
<1>1. CASE AppendRow(rows, row) = rows
  BY <1>1
<1>2. CASE AppendRow(rows, row) = Append(rows, row)
  <2>1. OfKind(Append(rows, row), "resolution") =
            OfKind(rows, "resolution") \cup (IF row.kind = "resolution" THEN {row} ELSE {})
    BY Appended
  <2>2. {s \in OfKind(Append(rows, row), "resolution") : s.event = d}
        = {s \in OfKind(rows, "resolution") : s.event = d}
    BY <2>1
  <2> QED
    BY <1>2, <2>2 DEF DecisionOf
<1> QED
  BY <1>1, <1>2, AppendRowIs

\* A file of which one row is appended keeps the decisions the row is not about.
LEMMA DecisionsKept ==
    ASSUME TypeOK, NEW file \in {"executions", "activities"}, NEW row \in QuarantineRow,
           quarantine' = [quarantine EXCEPT ![file] = AppendRow(@, row)],
           NEW d \in Events, row.kind = "resolution" => row.event # d
    PROVE  DecisionOf(quarantine'[FileOf(d)], d) = DecisionOf(quarantine[FileOf(d)], d)
<1>1. quarantine \in [{"executions", "activities"} -> Seq(QuarantineRow)]
  BY DEF TypeOK
<1>2. FileOf(d) \in {"executions", "activities"}
  BY EventRows
<1>3. CASE FileOf(d) = file
  <2>1. quarantine'[FileOf(d)] = AppendRow(quarantine[FileOf(d)], row)
    BY <1>1, <1>3
  <2>2. quarantine[FileOf(d)] \in Seq(QuarantineRow)
    BY <1>1, <1>2
  <2> QED
    BY <2>1, <2>2, DecisionsWithRow
<1>4. CASE FileOf(d) # file
  BY <1>1, <1>2, <1>4
<1> QED
  BY <1>3, <1>4

LEMMA DecisionsStep ==
    ASSUME TypeOK, [Next]_vars, NEW d \in Events,
           DecisionOf(quarantine[FileOf(d)], d) # {}
    PROVE  DecisionOf(quarantine'[FileOf(d)], d) = DecisionOf(quarantine[FileOf(d)], d)
<1> DEFINE Stands == DecisionOf(quarantine'[FileOf(d)], d) = DecisionOf(quarantine[FileOf(d)], d)
<1>1. ASSUME quarantine' = quarantine PROVE Stands
  BY <1>1
<1>2. ASSUME NEW pc \in {"fills", "activities"}, NEW S \in SUBSET Events, Quarantine(pc, S)
      PROVE  Stands
  <2>1. PICK e \in Foremost(S) :
            quarantine' = [quarantine EXCEPT ![FileOf(e)] = AppendRow(@, Quarantined(e))]
    BY <1>2 DEF Quarantine
  <2>2. e \in Events
    BY DEF Foremost, ToDo
  <2>3. Quarantined(e) \in QuarantineRow /\ Quarantined(e).kind # "resolution"
    BY <2>2, EventRows
  <2> QED
    BY <2>1, <2>2, <2>3, EventRows, DecisionsKept
<1>3. ASSUME NEW file \in {"none", "ledger", "executions", "activities"}, LoopDies(file)
      PROVE  Stands
  <2>1. \/ quarantine' = quarantine
        \/ file \in {"executions", "activities"}
           /\ quarantine' = [quarantine EXCEPT ![file] = AppendRow(@, Torn)]
    BY <1>3 DEF LoopDies, files
  <2> QED
    BY <1>1, <2>1, TornRows, DecisionsKept
<1>4. ASSUME NEW e \in Events, NEW decision \in {"ADMITTED", "REJECTED"}, NEW whole \in BOOLEAN,
             Resolve(e, decision, whole)
      PROVE  Stands
  <2> DEFINE row == IF whole THEN Resolution(e, decision, clock) ELSE Torn
  <2>1. quarantine' = [quarantine EXCEPT ![FileOf(e)] = AppendRow(@, row)]
    BY <1>4 DEF Resolve
  <2>2. e \notin Resolved(quarantine[FileOf(e)])
    BY <1>4 DEF Resolve, MayResolve, Pending
  <2>3. d # e
    <3>1. {s \in OfKind(quarantine[FileOf(d)], "resolution") : s.event = d} # {}
      BY DEF DecisionOf
    <3>2. d \in Resolved(quarantine[FileOf(d)])
      BY <3>1 DEF Resolved
    <3> QED
      BY <2>2, <3>2
  <2>4. row \in QuarantineRow /\ (row.kind = "resolution" => row.event = e)
    BY TornRows DEF TypeOK, Resolution, QuarantineRow
  <2>5. FileOf(e) \in {"executions", "activities"}
    BY EventRows
  <2> HIDE DEF row
  <2>6. row.kind = "resolution" => row.event # d
    BY <2>3, <2>4
  <2> QED
    BY <2>1, <2>4, <2>5, <2>6, DecisionsKept
<1>5. CASE Cycle
  <2>1. Executions \in SUBSET Events /\ Activities \in SUBSET Events
    BY DEF Events
  <2>2. CASE Quarantine("fills", Executions) \/ Quarantine("activities", Activities)
    BY <1>2, <2>1, <2>2
  <2>3. CASE ~(Quarantine("fills", Executions) \/ Quarantine("activities", Activities))
    BY <1>1, <1>5, <2>3 DEF Cycle, BeginCycle, Book, Synced, SeedDeferred, Seed,
       AlreadySeeded, Compare, files
  <2> QED
    BY <2>2, <2>3
<1>6. CASE \/ Stop \/ Tick \/ \E e \in Events : BrokerActs(e)
           \/ \E run \in Runs : RepairReads(run)
           \/ \E run \in Runs, whole \in BOOLEAN : RepairApplies(run, whole)
           \/ UNCHANGED vars
  BY <1>1, <1>6 DEF Stop, Tick, BrokerActs, RepairReads, RepairApplies, vars, files
<1> QED
  BY <1>3, <1>4, <1>5, <1>6 DEF Next

\* Whatever commands, restarts and half-written rows follow it, a decision on
\* file about a quarantined event is the only one there will be.
\* (execution_quarantine.py:229-242, cash_event_quarantine.py:277-290)
THEOREM DecisionsStand == Spec => DecisionsArePermanent
<1>1. ASSUME TypeOK, [Next]_vars
      PROVE  [\A e \in Events :
                  LET decided == DecisionOf(quarantine[FileOf(e)], e)
                  IN decided # {} => DecisionOf(quarantine'[FileOf(e)], e) = decided]_vars
  BY <1>1, DecisionsStep
<1> QED
  BY <1>1, TypeCorrect, PTL DEF Spec, DecisionsArePermanent
=============================================================================
