------------------------ MODULE PipelineStage_proofs ------------------------
(***************************************************************************)
(* Proofs about PipelineStage and the risk gate it signs orders with, for  *)
(* every bound, price and universe; and about Trading, taken as an         *)
(* instance, whose orders the same gate signs.                             *)
(***************************************************************************)
EXTENDS PipelineStage, SumFacts

Working == {"analyse", "called", "costed", "propose", "mark"}
Outcomes == {"none", "requested"} \cup Final \cup Passing

Typed ==
    /\ time \in Nat /\ now \in Nat
    /\ filed \in [Symbols -> 0..MaxFilings] /\ known \in [Symbols -> 0..MaxFilings]
    /\ handled \in [Events -> Records]
    /\ cache \in [Events -> {"none", "accepted", "refused"}]
    /\ pc \in Steps /\ outcome \in Outcomes
    /\ paid \in [Events -> Nat] /\ lostCalls \in [Events -> Nat]
    /\ lostMarks \in [Events -> Nat]

\* What is in hand is recorded, not yet settled and, once paid for, not cached.
InHand ==
    /\ pc \in Working => /\ current \in Events /\ current \in recorded
                         /\ ~IsHandled(current, now)
    /\ pc \notin Working => current = NoEvent
    /\ pc \in {"called", "costed"} => cache[current] = "none"
    /\ pc # "mark" => outcome = "none"

\* So is what waits, once the records are written.
Waiting ==
    /\ pc # "record" => todo = {}
    /\ todo \subseteq Events
    /\ pc \in {"down", "idle", "screen"} => queue = {}
    /\ \A x \in queue : /\ x.event \in Events /\ x.event \in recorded \cup todo
                        /\ ~IsHandled(x.event, now) /\ x.event # current
    /\ \A x, y \in queue : x.event = y.event => x = y

\* What a document has cost is accounted for: by its place in the cache, by the
\* event being in hand, by an answer given up on, or by a death.
Standing(e) == cache[e] # "none" \/ CallInHand(e) \/ handled[e].outcome = "refused"
CallsAccounted ==
    \A e \in Events : paid[e] <= lostCalls[e] + IF Standing(e) THEN 1 ELSE 0

-----------------------------------------------------------------------------
LEMMA NoEventIsNone == NoEvent \notin Events
BY PipelineAssumption DEF NoEvent, Events

LEMMA TimeFacts ==
    ASSUME NEW t \in Nat
    PROVE  Session(t) \in Nat /\ NextSessionOpen(t) \in Nat
<1>1. DaySlots \in Nat /\ DaySlots > 0
  BY PipelineAssumption
<1>2. t \div DaySlots \in Nat
  BY <1>1
<1> QED
  BY <1>1, <1>2 DEF Session, NextSessionOpen

LEMMA RecordTyped ==
    ASSUME now \in Nat, outcome \in Outcomes, outcome # "none"
    PROVE  RecordFor(outcome) \in Records
BY TimeFacts DEF RecordFor, Records, Outcomes, Final, Passing

LEMMA InitTyped == Init => Typed
BY PipelineAssumption
   DEF Init, Typed, Steps, Outcomes, Records, NotHandled, Final, Passing

LEMMA TypedStep ==
    ASSUME Typed, InHand, [Next]_vars
    PROVE  Typed'
<1> USE DEF Typed, world, evidence, model, cycle, history, Steps, Outcomes
<1>0. CASE UNCHANGED vars
  BY <1>0 DEF vars
<1>1. CASE World
  <2>1. ASSUME NEW s \in Symbols, CompanyFiles(s) PROVE Typed'
    BY <2>1, PipelineAssumption DEF CompanyFiles
  <2>2. CASE TimePasses
    BY <2>2 DEF TimePasses
  <2>3. ASSUME NEW r \in posted, BrokerFills(r) PROVE Typed'
    BY <2>3 DEF BrokerFills
  <2> QED
    BY <1>1, <2>1, <2>2, <2>3 DEF World
<1>2. CASE Operator
  BY <1>2 DEF Operator, Decide, SubmitApproved, ResearchOnce
<1>3. CASE Start \/ Stop
  BY <1>3 DEF Start, Stop
<1>4. CASE Die
  <2>1. \A e \in Events : /\ lostCalls[e] + (IF CallInHand(e) THEN 1 ELSE 0) \in Nat
                          /\ lostMarks[e] + (IF MarkInHand(e) THEN 1 ELSE 0) \in Nat
    OBVIOUS
  <2> QED
    BY <1>4, <2>1 DEF Die, Forget
<1>5. CASE Screening
  <2>1. ASSUME NEW S \in SUBSET Symbols, BeginCycle(S) PROVE Typed'
    BY <2>1 DEF BeginCycle
  <2>2. CASE SkipScreen \/ QueueDone
    BY <2>2 DEF SkipScreen, QueueDone, EndCycle, Forget
  <2>3. ASSUME NEW reading, Screen(reading) PROVE Typed'
    BY <2>3 DEF Screen
  <2>4. CASE (\E e \in todo : RecordEvent(e)) \/ QueueRecorded \/ \E x \in queue : NextEvent(x)
    BY <2>4 DEF RecordEvent, QueueRecorded, NextEvent
  <2> QED
    BY <1>5, <2>1, <2>2, <2>3, <2>4 DEF Screening
<1>6. CASE Analysing
  <2>1. CASE AnalyseCached \/ RefuseOverBudget \/ ProposeRefused \/ ProposeRequest \/ RecordCost
    BY <1>6, <2>1 DEF AnalyseCached, RefuseOverBudget, ProposeRefused, ProposeRequest,
                      RecordCost, GoTo, Finish, Final, Passing
  <2>2. CASE \E cost \in RealCosts : CallModel(cost)
    BY <2>2, PipelineAssumption DEF CallModel, InHand, Working
  <2>3. CASE \E answer \in Answers : ParseAnswer(answer)
    BY <2>3 DEF ParseAnswer, Answers, Remember, GoTo, Finish, Final
  <2>4. CASE MarkHandled
    <3>1. CASE outcome = "none"
      BY <2>4, <3>1, TimeFacts DEF MarkHandled, RecordFor, Records, Final, Passing
    <3>2. CASE outcome # "none"
      BY <2>4, <3>2, RecordTyped DEF MarkHandled
    <3> QED
      BY <3>1, <3>2
  <2> QED
    BY <1>6, <2>1, <2>2, <2>3, <2>4 DEF Analysing
<1> QED
  BY <1>0, <1>1, <1>2, <1>3, <1>4, <1>5, <1>6 DEF Next

-----------------------------------------------------------------------------
(***************************************************************************)
(* What is in hand and what waits.                                         *)
(***************************************************************************)
LEMMA Unsettled ==
    ASSUME NEW e, UNCHANGED <<handled, now>>
    PROVE  IsHandled(e, now)' <=> IsHandled(e, now)
BY DEF IsHandled

LEMMA InitInHand == Init => InHand /\ Waiting
BY DEF Init, InHand, Waiting, Working

LEMMA InHandStep ==
    ASSUME Typed, InHand, Waiting, [Next]_vars
    PROVE  InHand'
<1> USE DEF InHand, Working, IsHandled, world, evidence, model, cycle, history
<1>0. CASE UNCHANGED vars
  BY <1>0 DEF vars
<1>1. CASE World
  BY <1>1 DEF World, TimePasses, CompanyFiles, BrokerFills, Between
<1>2. CASE Operator \/ Start \/ Stop
  BY <1>2 DEF Operator, Decide, SubmitApproved, ResearchOnce, Start, Stop
<1>3. CASE Die
  BY <1>3 DEF Die, Forget
<1>4. CASE Screening
  <2>1. ASSUME NEW S \in SUBSET Symbols, BeginCycle(S) PROVE InHand'
    BY <2>1 DEF BeginCycle
  <2>2. CASE SkipScreen \/ QueueDone
    BY <2>2 DEF SkipScreen, QueueDone, EndCycle, Forget
  <2>3. ASSUME NEW reading, Screen(reading) PROVE InHand'
    BY <2>3 DEF Screen
  <2>4. ASSUME NEW e \in todo, RecordEvent(e) PROVE InHand'
    BY <2>4 DEF RecordEvent
  <2>5. CASE QueueRecorded
    BY <2>5 DEF QueueRecorded
  <2>6. ASSUME NEW x \in queue, NextEvent(x) PROVE InHand'
    BY <2>6 DEF NextEvent, Waiting
  <2> QED
    BY <1>4, <2>1, <2>2, <2>3, <2>4, <2>5, <2>6 DEF Screening
<1>5. CASE Analysing
  <2>1. CASE AnalyseCached \/ RefuseOverBudget \/ ProposeRefused \/ ProposeRequest \/ RecordCost
    BY <2>1 DEF AnalyseCached, RefuseOverBudget, ProposeRefused, ProposeRequest,
                RecordCost, GoTo, Finish
  <2>2. CASE \E cost \in RealCosts : CallModel(cost)
    BY <2>2 DEF CallModel
  <2>3. ASSUME NEW answer \in Answers, ParseAnswer(answer)
        PROVE  InHand'
    BY <2>3 DEF ParseAnswer, Answers, Remember, GoTo, Finish
  <2>4. CASE MarkHandled
    BY <2>4 DEF MarkHandled
  <2> QED
    BY <1>5, <2>1, <2>2, <2>3, <2>4 DEF Analysing
<1> QED
  BY <1>0, <1>1, <1>2, <1>3, <1>4, <1>5 DEF Next

LEMMA ScreenedFacts ==
    ASSUME Typed, NEW S \in SUBSET Collected, NEW reading \in [S -> Scores], Screen(reading)
    PROVE  /\ todo' \subseteq Events
           /\ \A x \in queue' : /\ x.event \in todo'
                                /\ ~IsHandled(x.event, now)
           /\ \A x, y \in queue' : x.event = y.event => x = y
<1> DEFINE screened == {[event |-> Latest(s), score |-> reading[s]] : s \in DOMAIN reading}
<1>1. DOMAIN reading = S /\ S \subseteq Symbols
  BY DEF Collected
<1>2. \A s \in S : Latest(s) \in Events
  BY DEF Collected, Latest, Events, Typed
<1>3. \A x \in screened : \E s \in S : x = [event |-> Latest(s), score |-> reading[s]]
  BY <1>1
<1>4. \A x \in screened : x.event \in Events
  BY <1>2, <1>3
<1>5. \A x, y \in screened : x.event = y.event => x = y
  <2> SUFFICES ASSUME NEW x \in screened, NEW y \in screened, x.event = y.event
               PROVE  x = y
    OBVIOUS
  <2>1. PICK s \in S : x = [event |-> Latest(s), score |-> reading[s]]
    BY <1>3
  <2>2. PICK r \in S : y = [event |-> Latest(r), score |-> reading[r]]
    BY <1>3
  <2>3. Latest(s) = Latest(r)
    BY <2>1, <2>2
  <2>4. s = r
    BY <2>3 DEF Latest
  <2> QED
    BY <2>1, <2>2, <2>4
<1>6. /\ todo' = {x.event : x \in {y \in screened : Recordable(y)}}
      /\ queue' = Triggered(screened)
  BY DEF Screen
<1>7. queue' \subseteq {y \in screened : Recordable(y)}
      /\ \A x \in queue' : ~IsHandled(x.event, now)
  BY <1>6 DEF Triggered
<1> QED
  BY <1>4, <1>5, <1>6, <1>7

LEMMA WaitingStep ==
    ASSUME Typed, InHand, Waiting, [Next]_vars
    PROVE  Waiting'
<1> USE DEF Waiting, world, evidence, model, cycle, history
<1>0. CASE UNCHANGED vars
  BY <1>0, Unsettled DEF vars
<1>1. CASE World
  BY <1>1, Unsettled DEF World, TimePasses, CompanyFiles, BrokerFills
<1>2. CASE Operator \/ Start \/ Stop
  BY <1>2, Unsettled DEF Operator, Decide, SubmitApproved, ResearchOnce, Start, Stop
<1>3. CASE Die
  BY <1>3 DEF Die, Forget
<1>4. CASE Screening
  <2>1. ASSUME NEW S \in SUBSET Symbols, BeginCycle(S) PROVE Waiting'
    BY <2>1 DEF BeginCycle
  <2>2. CASE SkipScreen \/ QueueDone
    BY <2>2 DEF SkipScreen, QueueDone, EndCycle, Forget
  <2>3. ASSUME NEW S \in SUBSET Collected, NEW reading \in [S -> Scores], Screen(reading)
        PROVE  Waiting'
    <3>1. pc = "screen" /\ pc' = "record" /\ UNCHANGED <<handled, now, current, recorded>>
      BY <2>3 DEF Screen
    <3>2. current = NoEvent
      BY <3>1 DEF InHand, Working
    <3> QED
      BY <2>3, <3>1, <3>2, ScreenedFacts, Unsettled, NoEventIsNone
  <2>4. ASSUME NEW e \in todo, RecordEvent(e) PROVE Waiting'
    BY <2>4, Unsettled DEF RecordEvent
  <2>5. CASE QueueRecorded
    BY <2>5, Unsettled DEF QueueRecorded
  <2>6. ASSUME NEW x \in queue, NextEvent(x) PROVE Waiting'
    BY <2>6, Unsettled DEF NextEvent
  <2> QED
    BY <1>4, <2>1, <2>2, <2>3, <2>4, <2>5, <2>6 DEF Screening
<1>5. CASE Analysing
  <2>1. CASE AnalyseCached \/ RefuseOverBudget \/ ProposeRefused \/ ProposeRequest \/ RecordCost
    BY <2>1, Unsettled DEF AnalyseCached, RefuseOverBudget, ProposeRefused, ProposeRequest,
                RecordCost, GoTo, Finish
  <2>2. CASE \E cost \in RealCosts : CallModel(cost)
    BY <2>2, Unsettled DEF CallModel
  <2>3. ASSUME NEW answer \in Answers, ParseAnswer(answer)
        PROVE  Waiting'
    BY <2>3, Unsettled DEF ParseAnswer, Answers, Remember, GoTo, Finish
  <2>4. CASE MarkHandled
    <3>1. \A x \in queue : handled'[x.event] = handled[x.event]
      BY <2>4 DEF MarkHandled, Typed
    <3>2. current' = NoEvent /\ pc' = "next" /\ pc = "mark" /\ UNCHANGED <<now, queue, todo, recorded>>
      BY <2>4 DEF MarkHandled
    <3>3. \A x \in queue : ~IsHandled(x.event, now)'
      BY <3>1, <3>2 DEF IsHandled
    <3> QED
      BY <3>2, <3>3, NoEventIsNone
  <2> QED
    BY <1>5, <2>1, <2>2, <2>3, <2>4 DEF Analysing
<1> QED
  BY <1>0, <1>1, <1>2, <1>3, <1>4, <1>5 DEF Next

-----------------------------------------------------------------------------
(***************************************************************************)
(* What a document costs.                                                  *)
(***************************************************************************)
LEMMA CallEffects ==
    ASSUME [Next]_vars
    PROVE  \/ UNCHANGED <<paid, lostCalls>>
           \/ Die
           \/ \E cost \in RealCosts : CallModel(cost)
<1> USE DEF vars, history
<1>1. ASSUME World \/ Operator \/ Start \/ Stop PROVE UNCHANGED <<paid, lostCalls>>
  BY <1>1 DEF World, TimePasses, CompanyFiles, BrokerFills, Operator, Decide,
              SubmitApproved, ResearchOnce, Start, Stop
<1>2. ASSUME Screening PROVE UNCHANGED <<paid, lostCalls>>
  BY <1>2 DEF Screening, BeginCycle, SkipScreen, EndCycle, Screen, RecordEvent,
              QueueRecorded, NextEvent, QueueDone
<1>3. ASSUME Analysing
      PROVE  UNCHANGED <<paid, lostCalls>> \/ \E cost \in RealCosts : CallModel(cost)
  BY <1>3 DEF Analysing, AnalyseCached, RefuseOverBudget, RecordCost, ParseAnswer, Remember,
              ProposeRefused, ProposeRequest, MarkHandled
<1> QED
  BY <1>1, <1>2, <1>3 DEF Next

\* What stands stays, unless a death takes it.
LEMMA StandingStays ==
    ASSUME Typed, InHand, Waiting, [Next]_vars, ~Die, NEW e \in Events, Standing(e)
    PROVE  Standing(e)'
<1> USE DEF Standing, CallInHand, InHand, Working, cycle, model, vars
<1>0. CASE UNCHANGED vars
  BY <1>0
<1>1. CASE World \/ Operator \/ Start \/ Stop
  BY <1>1 DEF World, TimePasses, CompanyFiles, BrokerFills, Operator, Decide,
              SubmitApproved, ResearchOnce, Start, Stop
<1>2. CASE Screening
  <2>1. pc \notin Working /\ UNCHANGED <<cache, handled>>
    BY <1>2 DEF Screening, BeginCycle, SkipScreen, EndCycle, Screen, RecordEvent,
                QueueRecorded, NextEvent, QueueDone
  <2> QED
    BY <2>1
<1>3. CASE Analysing
  <2>1. CASE AnalyseCached \/ RefuseOverBudget \/ RecordCost \/ ProposeRefused \/ ProposeRequest
    BY <2>1 DEF AnalyseCached, RefuseOverBudget, RecordCost, ProposeRefused,
                ProposeRequest, GoTo, Finish
  <2>2. ASSUME NEW cost \in RealCosts, CallModel(cost) PROVE Standing(e)'
    BY <2>2 DEF CallModel
  <2>3. ASSUME NEW answer \in Answers, ParseAnswer(answer)
        PROVE  Standing(e)'
    BY <2>3 DEF ParseAnswer, Answers, Remember, GoTo, Finish, Typed
  <2>4. CASE MarkHandled
    <3>1. CASE e # current
      BY <2>4, <3>1 DEF MarkHandled, Typed
    <3>2. CASE e = current
      <4>1. cache[e] # "none" \/ outcome = "refused"
        BY <2>4, <3>2 DEF MarkHandled, IsHandled, Final
      <4>2. outcome = "refused" => handled'[e].outcome = "refused"
        BY <2>4, <3>2 DEF MarkHandled, RecordFor, Typed
      <4> QED
        BY <2>4, <4>1, <4>2 DEF MarkHandled
    <3> QED
      BY <3>1, <3>2
  <2> QED
    BY <1>3, <2>1, <2>2, <2>3, <2>4 DEF Analysing
<1> QED
  BY <1>0, <1>1, <1>2, <1>3 DEF Next

LEMMA CallsStep ==
    ASSUME Typed, InHand, Waiting, CallsAccounted, [Next]_vars
    PROVE  CallsAccounted'
<1> SUFFICES ASSUME NEW e \in Events
             PROVE  paid'[e] <= lostCalls'[e] + IF Standing(e)' THEN 1 ELSE 0
  BY DEF CallsAccounted
<1>0. /\ paid[e] \in Nat /\ lostCalls[e] \in Nat
      /\ paid[e] <= lostCalls[e] + IF Standing(e) THEN 1 ELSE 0
  BY DEF CallsAccounted, Typed
<1>1. CASE UNCHANGED <<paid, lostCalls>> /\ ~Die
  BY <1>0, <1>1, StandingStays
<1>2. CASE Die
  <2>1. /\ paid' = paid
        /\ lostCalls'[e] = lostCalls[e] + IF CallInHand(e) THEN 1 ELSE 0
        /\ cache' = cache /\ handled' = handled
    BY <1>2 DEF Die, model
  <2>2. Standing(e) /\ ~CallInHand(e) => Standing(e)'
    BY <2>1 DEF Standing
  <2> QED
    BY <1>0, <2>1, <2>2
<1>3. ASSUME NEW cost \in RealCosts, CallModel(cost)
      PROVE  paid'[e] <= lostCalls'[e] + IF Standing(e)' THEN 1 ELSE 0
  <2>1. lostCalls' = lostCalls /\ pc' = "called" /\ current' = current /\ ~Die
    BY <1>3 DEF CallModel, Die
  <2>2. CASE e # current
    BY <1>0, <1>3, <2>1, <2>2, StandingStays DEF CallModel, Typed
  <2>3. CASE e = current
    <3>1. ~Standing(e)
      BY <1>3, <2>3 DEF CallModel, Standing, CallInHand, InHand, Working, IsHandled, Final
    <3>2. Standing(e)'
      BY <2>1, <2>3 DEF Standing, CallInHand
    <3>3. paid'[e] = paid[e] + 1
      BY <1>3, <2>3 DEF CallModel, Typed
    <3> QED
      BY <1>0, <2>1, <3>1, <3>2, <3>3
  <2> QED
    BY <2>2, <2>3
<1> QED
  BY <1>1, <1>2, <1>3, CallEffects

LEMMA RecordedStep ==
    ASSUME Typed, InHand, NothingUnrecordedIsAnalysed, [Next]_vars
    PROVE  NothingUnrecordedIsAnalysed'
<1>1. recorded \subseteq recorded'
  BY DEF Next, vars, evidence, World, TimePasses, CompanyFiles, BrokerFills, Operator, Decide,
         SubmitApproved, ResearchOnce, Start, Stop, Die, Screening, BeginCycle, SkipScreen,
         EndCycle, Screen, RecordEvent, QueueRecorded, NextEvent, QueueDone, Analysing,
         AnalyseCached, RefuseOverBudget, CallModel, RecordCost, ParseAnswer, Remember,
         ProposeRefused, ProposeRequest, MarkHandled
<1>2. \A e \in Events : paid'[e] # paid[e] => e \in recorded
  BY CallEffects DEF Die, CallModel, InHand, Working, Typed
<1> QED
  BY <1>1, <1>2 DEF NothingUnrecordedIsAnalysed

-----------------------------------------------------------------------------
(***************************************************************************)
(* The budget.  The bill and the month differ by what has not been         *)
(* recorded yet and by what a death kept from being recorded.              *)
(***************************************************************************)
Budget ==
    /\ spent \in Nat /\ billed \in Nat /\ price \in Nat /\ deaths \in Nat
    /\ pc = "called" => price <= Dearest /\ spent + Estimate < HardStop
    /\ spent = 0 \/ spent + Estimate < HardStop + Dearest
    /\ billed <= spent + deaths * Dearest + IF pc = "called" THEN price ELSE 0

LEMMA DearestFacts == Dearest \in Nat /\ \A c \in RealCosts : c <= Dearest
<1>1. PICK c \in RealCosts : \A d \in RealCosts : d <= c
  BY PipelineAssumption
<1>2. Dearest \in RealCosts /\ \A d \in RealCosts : d <= Dearest
  BY <1>1 DEF Dearest
<1> QED
  BY <1>2, PipelineAssumption

LEMMA BudgetEffects ==
    ASSUME [Next]_vars
    PROVE  \/ UNCHANGED <<spent, billed, deaths>> /\ (pc' = "called" => pc = "called")
              /\ (price' = price \/ price' = 0) /\ (pc = "called" => UNCHANGED <<pc, price>>)
           \/ Die
           \/ RecordCost
           \/ \E cost \in RealCosts : CallModel(cost)
<1> USE DEF vars, history, model, cycle, GoTo, Finish
<1>1. ASSUME World \/ Operator \/ Start \/ Stop
      PROVE  /\ UNCHANGED <<spent, billed, deaths, price>>
             /\ pc' = pc \/ (pc' \in {"idle", "down"} /\ pc # "called")
  <2>1. ASSUME World \/ Operator PROVE UNCHANGED <<spent, billed, deaths, price, pc>>
    BY <2>1 DEF World, TimePasses, CompanyFiles, BrokerFills, Operator, Decide,
                SubmitApproved, ResearchOnce
  <2>2. CASE Start \/ Stop
    BY <2>2 DEF Start, Stop
  <2> QED
    BY <1>1, <2>1, <2>2
<1>2. ASSUME Screening
      PROVE  /\ UNCHANGED <<spent, billed, deaths>> /\ pc # "called" /\ pc' # "called"
             /\ price' = price \/ price' = 0
  BY <1>2 DEF Screening, BeginCycle, SkipScreen, EndCycle, Forget, Screen, RecordEvent,
              QueueRecorded, NextEvent, QueueDone
<1>3. ASSUME Analysing, ~RecordCost, ~\E cost \in RealCosts : CallModel(cost)
      PROVE  /\ UNCHANGED <<spent, billed, deaths>> /\ pc # "called" /\ pc' # "called"
             /\ price' = price \/ price' = 0
  BY <1>3 DEF Analysing, AnalyseCached, RefuseOverBudget, ParseAnswer, Remember,
              ProposeRefused, ProposeRequest, MarkHandled
<1> QED
  BY <1>1, <1>2, <1>3 DEF Next

LEMMA BudgetStep ==
    ASSUME Typed, Budget, [Next]_vars
    PROVE  Budget'
<1> USE DearestFacts, PipelineAssumption DEF Budget
<1>1. CASE /\ UNCHANGED <<spent, billed, deaths>> /\ (pc' = "called" => pc = "called")
           /\ (price' = price \/ price' = 0) /\ (pc = "called" => UNCHANGED <<pc, price>>)
  <2>1. deaths' * Dearest' = deaths * Dearest /\ Dearest' = Dearest
    BY <1>1 DEF Dearest
  <2>2. price' \in Nat
    BY <1>1
  <2>3. CASE pc = "called"
    BY <1>1, <2>1, <2>2, <2>3
  <2>4. CASE pc # "called"
    BY <1>1, <2>1, <2>2, <2>4
  <2> QED
    BY <2>3, <2>4
<1>2. CASE Die
  <2>1. /\ spent' = spent /\ billed' = billed /\ price' = 0 /\ pc' = "down"
        /\ deaths' = deaths + 1
    BY <1>2 DEF Die, Forget, model
  <2>2. deaths' * Dearest = deaths * Dearest + Dearest /\ deaths * Dearest \in Nat
    BY <2>1
  <2> QED
    BY <2>1, <2>2
<1>3. CASE RecordCost
  <2>1. /\ spent' = spent + price /\ UNCHANGED <<billed, price, deaths>>
        /\ pc = "called" /\ pc' = "costed"
    BY <1>3 DEF RecordCost, cycle, history
  <2> QED
    BY <2>1
<1>4. ASSUME NEW cost \in RealCosts, CallModel(cost) PROVE Budget'
  <2>1. /\ spent' = spent /\ billed' = billed + cost /\ price' = cost /\ deaths' = deaths
        /\ pc' = "called" /\ pc = "analyse" /\ ~WouldExceedHardStop
    BY <1>4 DEF CallModel, model
  <2>2. cost \in Nat /\ cost <= Dearest
    OBVIOUS
  <2>3. spent + Estimate < HardStop
    BY <2>1 DEF WouldExceedHardStop
  <2> QED
    BY <2>1, <2>2, <2>3
<1> QED
  BY <1>1, <1>2, <1>3, <1>4, BudgetEffects

LEMMA BudgetBounds == ASSUME Budget PROVE MonthIsBounded
<1>1. CASE pc = "called"
  <2>1. CallsCutOff * Dearest = deaths * Dearest + Dearest
    BY <1>1, DearestFacts DEF CallsCutOff, Budget
  <2>2. deaths * Dearest \in Nat
    BY DearestFacts DEF Budget
  <2> QED
    BY <1>1, <2>1, <2>2, DearestFacts DEF Budget, MonthIsBounded
<1>2. CASE pc # "called"
  BY <1>2, DearestFacts DEF Budget, MonthIsBounded, CallsCutOff
<1> QED
  BY <1>1, <1>2

-----------------------------------------------------------------------------
(***************************************************************************)
(* The requests.                                                           *)
(***************************************************************************)
ASequence(s) == \E S : s \in Seq(S)

\* One request of an event, and one more for each death that kept its mark.
Answered(e) == MarkInHand(e) \/ handled[e].outcome = "analyzed"
RequestsCounted ==
    /\ ASequence(requests)
    /\ \A e \in Events :
          /\ IsFiniteSet(RequestsOf(e))
          /\ Cardinality(RequestsOf(e)) <= lostMarks[e] + IF Answered(e) THEN 1 ELSE 0

LEMMA AppendFacts ==
    ASSUME NEW s, ASequence(s), NEW x
    PROVE  /\ ASequence(Append(s, x)) /\ Len(s) \in Nat /\ Len(Append(s, x)) = Len(s) + 1
           /\ DOMAIN s = 1..Len(s) /\ DOMAIN Append(s, x) = 1..(Len(s) + 1)
           /\ \A i \in 1..Len(s) : Append(s, x)[i] = s[i]
           /\ Append(s, x)[Len(s) + 1] = x
<1>1. PICK S : s \in Seq(S)
  BY DEF ASequence
<1>2. s \in Seq(S \cup {x}) /\ x \in S \cup {x}
  BY <1>1
<1>3. Append(s, x) \in Seq(S \cup {x})
  BY <1>2
<1> QED
  BY <1>2, <1>3 DEF ASequence

LEMMA RequestEffects ==
    ASSUME [Next]_vars
    PROVE  UNCHANGED requests \/ ProposeRequest
<1> USE DEF vars, approvals
<1>1. ASSUME World \/ Operator \/ Start \/ Stop \/ Die PROVE UNCHANGED requests
  BY <1>1 DEF World, TimePasses, CompanyFiles, BrokerFills, Operator, Decide,
              SubmitApproved, ResearchOnce, Start, Stop, Die
<1>2. ASSUME Screening PROVE UNCHANGED requests
  BY <1>2 DEF Screening, BeginCycle, SkipScreen, EndCycle, Screen, RecordEvent,
              QueueRecorded, NextEvent, QueueDone
<1>3. ASSUME Analysing PROVE UNCHANGED requests \/ ProposeRequest
  BY <1>3 DEF Analysing, AnalyseCached, RefuseOverBudget, CallModel, RecordCost, ParseAnswer, Remember,
              ProposeRefused, MarkHandled
<1> QED
  BY <1>1, <1>2, <1>3 DEF Next

\* What was answered stays so, and no other step than a death loses a mark.
LEMMA AnsweredStays ==
    ASSUME Typed, InHand, [Next]_vars, ~Die, NEW e \in Events
    PROVE  lostMarks' = lostMarks /\ (Answered(e) => Answered(e)')
<1> USE DEF Answered, MarkInHand, InHand, Working, cycle, history, vars
<1>0. CASE UNCHANGED vars
  BY <1>0
<1>1. CASE World \/ Operator \/ Start \/ Stop
  BY <1>1 DEF World, TimePasses, CompanyFiles, BrokerFills, Operator, Decide,
              SubmitApproved, ResearchOnce, Start, Stop
<1>2. CASE Screening
  <2>1. pc # "mark" /\ UNCHANGED <<handled, lostMarks>>
    BY <1>2 DEF Screening, BeginCycle, SkipScreen, EndCycle, Screen, RecordEvent,
                QueueRecorded, NextEvent, QueueDone
  <2> QED
    BY <2>1
<1>3. CASE Analysing
  <2>1. CASE AnalyseCached \/ RefuseOverBudget \/ RecordCost \/ ProposeRefused \/ ProposeRequest
    BY <2>1 DEF AnalyseCached, RefuseOverBudget, RecordCost, ProposeRefused,
                ProposeRequest, GoTo, Finish
  <2>2. CASE \E cost \in RealCosts : CallModel(cost)
    BY <2>2 DEF CallModel
  <2>3. CASE \E answer \in Answers : ParseAnswer(answer)
    BY <2>3 DEF ParseAnswer, Answers, Remember, GoTo, Finish
  <2>4. CASE MarkHandled
    <3>1. CASE e # current
      BY <2>4, <3>1 DEF MarkHandled, Typed
    <3>2. CASE e = current
      <4>1. handled[e].outcome # "analyzed"
        BY <2>4, <3>2 DEF MarkHandled, IsHandled, Final
      <4>2. outcome = "requested" => handled'[e].outcome = "analyzed"
        BY <2>4, <3>2 DEF MarkHandled, RecordFor, Typed
      <4> QED
        BY <2>4, <4>1, <4>2 DEF MarkHandled
    <3> QED
      BY <3>1, <3>2
  <2> QED
    BY <1>3, <2>1, <2>2, <2>3, <2>4 DEF Analysing
<1> QED
  BY <1>0, <1>1, <1>2, <1>3 DEF Next

LEMMA RequestsStep ==
    ASSUME Typed, InHand, RequestsCounted, [Next]_vars
    PROVE  RequestsCounted'
<1>1. ASequence(requests')
  <2>1. CASE UNCHANGED requests
    BY <2>1 DEF RequestsCounted, ASequence
  <2>2. CASE ProposeRequest
    BY <2>2, AppendFacts DEF RequestsCounted, ProposeRequest
  <2> QED
    BY <2>1, <2>2, RequestEffects
<1> SUFFICES ASSUME NEW e \in Events
             PROVE  /\ IsFiniteSet(RequestsOf(e))'
                    /\ Cardinality(RequestsOf(e))' <= lostMarks'[e] + IF Answered(e)' THEN 1 ELSE 0
  BY <1>1 DEF RequestsCounted
<1>2. /\ IsFiniteSet(RequestsOf(e)) /\ Cardinality(RequestsOf(e)) \in Nat
      /\ lostMarks[e] \in Nat
      /\ Cardinality(RequestsOf(e)) <= lostMarks[e] + IF Answered(e) THEN 1 ELSE 0
  BY FS_CardinalityType DEF RequestsCounted, Typed
<1>3. CASE UNCHANGED requests
  <2>1. RequestsOf(e)' = RequestsOf(e)
    BY <1>3 DEF RequestsOf, Requests
  <2>2. CASE Die
    <3>1. lostMarks'[e] = lostMarks[e] + IF MarkInHand(e) THEN 1 ELSE 0
      BY <2>2 DEF Die
    <3>2. handled' = handled
      BY <2>2 DEF Die
    <3> QED
      BY <1>2, <2>1, <3>1, <3>2 DEF Answered
  <2>3. CASE ~Die
    BY <1>2, <2>1, <2>3, AnsweredStays
  <2> QED
    BY <2>2, <2>3
<1>4. CASE ProposeRequest
  <2>1. /\ pc = "propose" /\ pc' = "mark" /\ outcome' = "requested" /\ current' = current
        /\ handled' = handled /\ lostMarks' = lostMarks
    BY <1>4 DEF ProposeRequest, Finish, history
  <2>2. PICK x : requests' = Append(requests, x) /\ x.event = current
    BY <1>4 DEF ProposeRequest
  <2>3. /\ Len(requests) \in Nat /\ DOMAIN requests = 1..Len(requests)
        /\ DOMAIN requests' = 1..(Len(requests) + 1)
        /\ \A i \in 1..Len(requests) : requests'[i] = requests[i]
        /\ requests'[Len(requests) + 1] = x
    BY <2>2, AppendFacts DEF RequestsCounted
  <2>4. CASE e = current
    <3>1. RequestsOf(e)' = RequestsOf(e) \cup {Len(requests) + 1}
      BY <2>2, <2>3, <2>4 DEF RequestsOf, Requests
    <3>2. /\ IsFiniteSet(RequestsOf(e)')
          /\ Cardinality(RequestsOf(e)') = Cardinality(RequestsOf(e))
             \/ Cardinality(RequestsOf(e)') = Cardinality(RequestsOf(e)) + 1
      <4> DEFINE S == RequestsOf(e)
                 n == Len(requests) + 1
      <4>1. IsFiniteSet(S \cup {n}) /\ (Cardinality(S \cup {n}) = Cardinality(S)
                                        \/ Cardinality(S \cup {n}) = Cardinality(S) + 1)
        <5> HIDE DEF S, n
        <5> QED
          BY <1>2, FS_AddElement DEF S
      <4> QED
        BY <3>1, <4>1
    <3>3. ~Answered(e) /\ Answered(e)'
      BY <2>1, <2>4 DEF Answered, MarkInHand, InHand, Working, IsHandled, Final
    <3> QED
      BY <1>2, <2>1, <3>2, <3>3
  <2>5. CASE e # current
    <3>1. requests'[Len(requests) + 1].event # e
      BY <2>2, <2>3, <2>5
    <3>2. \A i : i \in 1..(Len(requests) + 1) <=> (i \in 1..Len(requests) \/ i = Len(requests) + 1)
      BY <2>3
    <3>3. \A i \in DOMAIN requests' : requests'[i].event = e => i \in DOMAIN requests
      BY <2>3, <3>1, <3>2
    <3>4. RequestsOf(e)' = RequestsOf(e)
      <4>1. \A i \in RequestsOf(e)' : i \in DOMAIN requests /\ requests[i].event = e
        BY <2>3, <3>3 DEF RequestsOf, Requests
      <4>2. \A i \in RequestsOf(e) : i \in DOMAIN requests' /\ requests'[i].event = e
        BY <2>3, <3>2 DEF RequestsOf, Requests
      <4> QED
        BY <4>1, <4>2 DEF RequestsOf, Requests
    <3> QED
      BY <1>2, <2>1, <2>5, <3>4 DEF Answered, MarkInHand
  <2> QED
    BY <2>4, <2>5
<1> QED
  BY <1>3, <1>4, RequestEffects

\* The copy of the decisions is the file, as long as the loop is up: who may
\* decide takes the lock the loop holds.
MemoryIsCurrent == pc # "down" => memory = decisions

LEMMA MemoryStep ==
    ASSUME MemoryIsCurrent, [Next]_vars
    PROVE  MemoryIsCurrent'
<1> USE DEF MemoryIsCurrent, approvals, cycle, vars
<1>0. CASE UNCHANGED vars
  BY <1>0
<1>1. CASE World
  BY <1>1 DEF World, TimePasses, CompanyFiles, BrokerFills
<1>2. CASE Operator \/ Start \/ Stop \/ Die
  BY <1>2 DEF Operator, Decide, SubmitApproved, ResearchOnce, Start, Stop, Die
<1>3. CASE Screening
  <2>1. pc # "down" /\ UNCHANGED approvals
    BY <1>3 DEF Screening, BeginCycle, SkipScreen, EndCycle, Screen, RecordEvent,
                QueueRecorded, NextEvent, QueueDone
  <2> QED
    BY <2>1
<1>4. CASE Analysing
  <2>1. pc # "down" /\ UNCHANGED <<decisions, memory>>
    BY <1>4 DEF Analysing, AnalyseCached, RefuseOverBudget, CallModel, RecordCost, ParseAnswer, Remember,
                ProposeRefused, ProposeRequest, MarkHandled
  <2> QED
    BY <2>1
<1> QED
  BY <1>0, <1>1, <1>2, <1>3, <1>4 DEF Next

LEMMA RequestIsCapped ==
    ASSUME MemoryIsCurrent, [Next]_vars, RequestMade, ASequence(requests)
    PROVE  Cardinality(On(Session(now), decisions)) < MaxDecisions
<1>1. ProposeRequest
  <2>1. Len(requests) \in Nat
    BY DEF ASequence
  <2> QED
    BY <2>1, RequestEffects DEF RequestMade
<1> QED
  BY <1>1 DEF ProposeRequest, UnderCap, MemoryIsCurrent

LEMMA SettledStep ==
    ASSUME Typed, InHand, ASequence(requests), [Next]_vars,
           NEW e \in Events, IsHandled(e, now)
    PROVE  paid'[e] = paid[e] /\ ~(RequestMade /\ Made.event = e)
<1>1. paid'[e] = paid[e]
  <2>1. ASSUME NEW cost \in RealCosts, CallModel(cost) PROVE paid'[e] = paid[e]
    BY <2>1 DEF CallModel, InHand, Working, Typed
  <2> QED
    BY <2>1, CallEffects DEF Die
<1>2. ASSUME RequestMade, Made.event = e PROVE FALSE
  <2>1. ProposeRequest
    <3>1. Len(requests) \in Nat
      BY DEF ASequence
    <3> QED
      BY <1>2, <3>1, RequestEffects DEF RequestMade
  <2>2. PICK x : requests' = Append(requests, x) /\ x.event = current
    BY <2>1 DEF ProposeRequest
  <2>3. Made = x
    BY <2>2, AppendFacts DEF Made
  <2> QED
    BY <1>2, <2>1, <2>2, <2>3 DEF ProposeRequest, InHand, Working
<1> QED
  BY <1>1, <1>2

-----------------------------------------------------------------------------
(***************************************************************************)
(* The risk gate: what risk_constrain makes of any book.                   *)
(***************************************************************************)
Books == [Symbols -> Nat]

LEMMA TotalSums ==
    ASSUME NEW book, NEW S, IsFiniteSet(S)
    PROVE  Total(book, S) = SumOver(book, S)
BY DEF Total, MapThenSumSet, MapThenFoldSet, SumOver, Sums, Picked

LEMMA ShareIsNatural ==
    ASSUME NEW pct \in 0..100, NEW nlv \in Nat
    PROVE  Share(pct, nlv) \in Nat
<1>1. nlv * pct \in Nat
  OBVIOUS
<1>2. \A n \in Nat : n \div 100 \in Nat
  OBVIOUS
<1> QED
  BY <1>1, <1>2 DEF Share

LEMMA LimitsAreShares ==
    ASSUME NEW nlv \in Nat
    PROVE  /\ Share(MaxPositionPct, nlv) \in Nat /\ Share(MaxSectorPct, nlv) \in Nat
           /\ Share(ReservePct, nlv) \in Nat
<1>1. MaxPositionPct \in 0..100 /\ MaxSectorPct \in 0..100 /\ ReservePct \in 0..100
  BY LimitsAssumption
<1> QED
  BY <1>1, ShareIsNatural

\* Scaling to a smaller total takes each part down, and rounds down.
LEMMA ScalingDown ==
    ASSUME NEW a \in Nat, NEW num \in Nat, NEW den \in Nat, num < den
    PROVE  /\ (a * num) \div den \in Nat
           /\ (a * num) \div den <= a
           /\ ((a * num) \div den) * den <= a * num
<1> DEFINE q == (a * num) \div den
<1>1. a * num \in Nat /\ a * num <= a * den
  OBVIOUS
<1>2. q \in Nat /\ q * den <= a * num
  BY <1>1
<1>3. q * den <= a * den
  BY <1>1, <1>2
<1>4. q <= a
  <2> HIDE DEF q
  <2> SUFFICES ASSUME q >= a + 1 PROVE FALSE
    BY <1>2
  <2>1. q * den >= (a + 1) * den
    BY <1>2
  <2>2. (a + 1) * den = a * den + den /\ a * den \in Nat
    OBVIOUS
  <2> QED
    BY <1>2, <1>3, <2>1, <2>2
<1> QED
  BY <1>2, <1>4

LEMMA FittedFacts ==
    ASSUME NEW book \in Books, NEW S \in SUBSET Symbols, NEW limit \in Nat
    PROVE  /\ Fitted(book, S, limit) \in Books
           /\ \A s \in Symbols : Fitted(book, S, limit)[s] <= book[s]
           /\ Total(Fitted(book, S, limit), S) <= limit
<1> DEFINE all == Total(book, S)
           new == Fitted(book, S, limit)
<1>0. IsFiniteSet(S) /\ \A s \in Symbols : book[s] \in Nat
  BY SymbolsAssumption, FS_Subset DEF Books
<1>1. all = SumOver(book, S) /\ all \in Nat
  BY <1>0, TotalSums, SumIsNatural
<1>2. Total(new, S) = SumOver(new, S)
  BY <1>0, TotalSums
<1> HIDE DEF all
<1>3. CASE all <= limit
  <2>1. new = book
    BY <1>1, <1>3 DEF Fitted, all
  <2> QED
    BY <1>0, <1>1, <1>2, <1>3, <2>1
<1>4. CASE all > limit
  <2>1. new = [s \in Symbols |-> IF s \in S THEN (book[s] * limit) \div all ELSE book[s]]
    BY <1>4 DEF Fitted, Scaled, Books, all
  <2> HIDE DEF new
  <2>2. \A s \in S : /\ new[s] \in Nat /\ new[s] <= book[s]
                     /\ new[s] * all <= book[s] * limit
    BY <1>0, <1>1, <1>4, <2>1, ScalingDown
  <2>3. new \in Books /\ \A s \in Symbols : new[s] <= book[s]
    <3>1. \A s \in Symbols : new[s] \in Nat /\ new[s] <= book[s]
      <4>1. \A s \in Symbols : s \notin S => new[s] = book[s]
        BY <2>1
      <4>2. \A n \in Nat : n <= n
        OBVIOUS
      <4> QED
        BY <1>0, <2>2, <4>1, <4>2
    <3> QED
      BY <2>1, <3>1 DEF Books
  <2>4. SumOver(new, S) * all <= all * limit
    <3> DEFINE left == [s \in S |-> new[s] * all]
               right == [s \in S |-> book[s] * limit]
    <3>1. \A s \in S : left[s] \in Int /\ right[s] \in Int /\ left[s] <= right[s]
      BY <1>0, <1>1, <2>2
    <3>2. SumOver(left, S) <= SumOver(right, S)
      <4> HIDE DEF left, right
      <4> QED
        BY <1>0, <3>1, SumIsMonotone
    <3>3. SumOver(left, S) = SumOver(new, S) * all
      <4>1. \A s \in S : new[s] \in Int /\ left[s] = new[s] * all
        BY <2>2
      <4> HIDE DEF left
      <4> QED
        BY <1>0, <1>1, <4>1, SumTimes
    <3>4. SumOver(right, S) = SumOver(book, S) * limit
      <4>1. \A s \in S : book[s] \in Int /\ right[s] = book[s] * limit
        BY <1>0
      <4> HIDE DEF right
      <4> QED
        BY <1>0, <4>1, SumTimes
    <3> QED
      BY <1>1, <3>2, <3>3, <3>4
  <2>5. SumOver(new, S) \in Nat
    BY <1>0, <2>2, SumIsNatural
  <2>6. SumOver(new, S) <= limit
    <3>1. \A a, b, c \in Nat : c > 0 /\ a * c <= c * b => a <= b
      <4> SUFFICES ASSUME NEW a \in Nat, NEW b \in Nat, NEW c \in Nat, c > 0, a >= b + 1
                   PROVE  ~(a * c <= c * b)
        OBVIOUS
      <4>1. a * c >= (b + 1) * c
        OBVIOUS
      <4>2. (b + 1) * c = c * b + c /\ c * b \in Nat /\ a * c \in Nat
        OBVIOUS
      <4> QED
        BY <4>1, <4>2
    <3> QED
      BY <1>1, <1>4, <2>4, <2>5, <3>1
  <2> QED
    BY <1>2, <2>3, <2>6 DEF new
<1> QED
  BY <1>1, <1>3, <1>4

LEMMA ClippedFacts ==
    ASSUME NEW target \in [Symbols -> Int], NEW p, p.nlv \in Nat
    PROVE  /\ Clipped(target, p) \in Books
           /\ \A s \in Symbols :
                 /\ Clipped(target, p)[s] <= Larger(0, target[s])
                 /\ Clipped(target, p)[s] <= Share(MaxPositionPct, p.nlv)
                 /\ s \notin Allowed => Clipped(target, p)[s] = 0
<1> DEFINE new == Clipped(target, p)
           most == Share(MaxPositionPct, p.nlv)
<1>1. most \in Nat
  BY LimitsAreShares
<1> HIDE DEF most
<1>2. new = [s \in Symbols |-> IF s \in Allowed THEN Smaller(Larger(0, target[s]), most) ELSE 0]
  BY DEF Clipped, Permits, most
<1> HIDE DEF new
<1>3. ASSUME NEW s \in Symbols
      PROVE  /\ new[s] \in Nat /\ new[s] <= Larger(0, target[s]) /\ new[s] <= most
             /\ s \notin Allowed => new[s] = 0
  <2>1. target[s] \in Int
    OBVIOUS
  <2> QED
    BY <1>1, <1>2, <2>1 DEF Smaller, Larger
<1> QED
  BY <1>2, <1>3 DEF Books, new, most

\* Whatever book is aimed at, the constrained one holds nothing short, nothing
\* forbidden and no more than was aimed at, and fits the three limits
\* (agent/risk.py, risk_constrain).
THEOREM ConstrainedBooks ==
    ASSUME NEW target \in [Symbols -> Int], NEW sector, DOMAIN sector = Symbols,
           NEW p, p.nlv \in Nat, p.cash \in Int, p.pending \in Int
    PROVE  LET new == RiskConstrain(target, p, sector)
           IN  /\ new \in Books
               /\ \A s \in Symbols : /\ new[s] <= Larger(0, target[s])
                                     /\ new[s] <= Share(MaxPositionPct, p.nlv)
                                     /\ s \notin Allowed => new[s] = 0
               /\ \A name : Total(new, Members(sector, name)) <= Share(MaxSectorPct, p.nlv)
               /\ Total(new, Symbols) <= InvestableCash(p)
<1> DEFINE clipped == Clipped(target, p)
           cap == Share(MaxSectorPct, p.nlv)
           within == SectorFitted(clipped, p, sector)
           new == RiskConstrain(target, p, sector)
<1>1. /\ clipped \in Books
      /\ \A s \in Symbols : /\ clipped[s] \in Nat /\ clipped[s] <= Larger(0, target[s])
                            /\ clipped[s] <= Share(MaxPositionPct, p.nlv)
                            /\ s \notin Allowed => clipped[s] = 0
  BY ClippedFacts DEF Books
<1>2. cap \in Nat /\ Share(MaxPositionPct, p.nlv) \in Nat /\ Share(ReservePct, p.nlv) \in Nat
  BY LimitsAreShares
<1>3. InvestableCash(p) \in Nat
  BY <1>2, LimitsAssumption DEF InvestableCash, RequiredReserve, Larger
<1>4. \A name : Members(sector, name) \in SUBSET Symbols /\ IsFiniteSet(Members(sector, name))
  <2>1. \A name : Members(sector, name) \in SUBSET Symbols
    BY DEF Members
  <2> QED
    BY <2>1, FS_Subset, SymbolsAssumption
<1> HIDE DEF clipped, cap
<1>5. within = [s \in Symbols |-> Fitted(clipped, Members(sector, sector[s]), cap)[s]]
  BY <1>1 DEF SectorFitted, Books, cap
<1>6. \A s \in Symbols :
          /\ Fitted(clipped, Members(sector, sector[s]), cap) \in Books
          /\ Fitted(clipped, Members(sector, sector[s]), cap)[s] <= clipped[s]
  BY <1>1, <1>2, <1>4, FittedFacts
<1> HIDE DEF within
<1>7. within \in Books /\ \A s \in Symbols : within[s] \in Nat /\ within[s] <= clipped[s]
  BY <1>5, <1>6 DEF Books
<1>8. \A name : SumOver(within, Members(sector, name)) <= cap
  <2> SUFFICES ASSUME NEW name PROVE SumOver(within, Members(sector, name)) <= cap
    OBVIOUS
  <2> DEFINE M == Members(sector, name)
             fit == Fitted(clipped, M, cap)
  <2>1. M \in SUBSET Symbols /\ IsFiniteSet(M) /\ \A s \in M : sector[s] = name
    BY <1>4 DEF Members
  <2>2. Total(fit, M) <= cap
    BY <1>1, <1>2, <2>1, FittedFacts
  <2>3. \A s \in M : within[s] = fit[s]
    BY <1>5, <2>1
  <2> HIDE DEF M, fit
  <2>4. SumOver(within, M) = SumOver(fit, M)
    BY <2>1, <2>3, SumOfEquals
  <2>5. Total(fit, M) = SumOver(fit, M)
    BY <2>1, TotalSums
  <2>6. SumOver(within, M) <= cap
    BY <2>2, <2>4, <2>5
  <2> QED
    BY <2>6 DEF M
<1>9. new = Fitted(within, Symbols, InvestableCash(p))
  BY <1>1 DEF RiskConstrain, within, clipped, Clipped
<1>10. /\ new \in Books
       /\ \A s \in Symbols : new[s] \in Nat /\ new[s] <= within[s]
       /\ Total(new, Symbols) <= InvestableCash(p)
  <2>1. Symbols \in SUBSET Symbols
    OBVIOUS
  <2> QED
    BY <1>3, <1>7, <1>9, <2>1, FittedFacts DEF Books
<1> HIDE DEF new
<1>11. ASSUME NEW s \in Symbols
       PROVE  /\ new[s] <= Larger(0, target[s])
              /\ new[s] <= Share(MaxPositionPct, p.nlv)
              /\ s \notin Allowed => new[s] = 0
  <2>1. Larger(0, target[s]) \in Int
    BY DEF Larger
  <2> QED
    BY <1>1, <1>2, <1>7, <1>10, <2>1
<1>12. ASSUME NEW name
       PROVE  Total(new, Members(sector, name)) <= cap
  <2> DEFINE M == Members(sector, name)
  <2>1. M \in SUBSET Symbols /\ IsFiniteSet(M) /\ SumOver(within, M) <= cap
    BY <1>4, <1>8
  <2> HIDE DEF M
  <2>2. \A s \in M : new[s] \in Int /\ within[s] \in Int /\ new[s] <= within[s]
    BY <1>7, <1>10, <2>1
  <2>3. SumOver(new, M) <= SumOver(within, M)
    BY <2>1, <2>2, SumIsMonotone
  <2>4. SumOver(new, M) \in Int /\ SumOver(within, M) \in Int
    BY <2>1, <2>2, SumIsAnInteger
  <2>5. Total(new, M) <= cap
    BY <1>2, <2>1, <2>3, <2>4, TotalSums
  <2> QED
    BY <2>5 DEF M
<1> QED
  BY <1>10, <1>11, <1>12 DEF new, cap

\* What the gate signs is no more than what was proposed.
LEMMA AuthorizedFacts ==
    ASSUME NEW o, o.symbol \in Symbols, o.side \in {"BUY", "CLOSE"}, o.qty \in Nat,
           NEW c, c.book \in Books, c.portfolio.nlv \in Nat,
           c.portfolio.cash \in Int, c.portfolio.pending \in Int
    PROVE  Authorized(o, c) \in Nat /\ Authorized(o, c) <= o.qty
<1> DEFINE s == o.symbol
           p == c.portfolio
           Confined(target) == RiskConstrain(target, p, OneSector)
<1>1. DOMAIN OneSector = Symbols
  BY DEF OneSector
<1>2. c.book[s] \in Nat
  BY DEF Books
<1>3. CASE o.side = "BUY"
  <2> DEFINE target == [c.book EXCEPT ![s] = @ + o.qty]
  <2>1. target \in [Symbols -> Int] /\ target[s] = c.book[s] + o.qty
    BY DEF Books
  <2>2. Authorized(o, c) = Larger(0, Confined(target)[s] - c.book[s])
    BY <1>3 DEF Authorized, AuthorizedBuy
  <2> HIDE DEF target
  <2>3. Confined(target)[s] \in Nat /\ Confined(target)[s] <= Larger(0, target[s])
    BY <1>1, <2>1, ConstrainedBooks DEF Books
  <2> HIDE DEF Confined, s
  <2> QED
    BY <1>2, <2>1, <2>2, <2>3 DEF Larger
<1>4. CASE o.side = "CLOSE"
  <2> DEFINE target == [c.book EXCEPT ![s] = 0]
  <2>1. target \in [Symbols -> Int]
    BY DEF Books
  <2>2. Authorized(o, c) = Larger(0, o.qty - Confined(target)[s])
    BY <1>4 DEF Authorized, AuthorizedClose
  <2> HIDE DEF target
  <2>3. Confined(target)[s] \in Nat
    BY <1>1, <2>1, ConstrainedBooks DEF Books
  <2> HIDE DEF Confined, s
  <2> QED
    BY <2>2, <2>3 DEF Larger
<1> QED
  BY <1>3, <1>4

-----------------------------------------------------------------------------
(***************************************************************************)
(* The account: what the fills amount to.                                  *)
(***************************************************************************)
OrdersTyped ==
    /\ requests \in Seq(Request)
    /\ decisions \subseteq [request : Requests, decision : Decisions, at : Nat]
    /\ memory \subseteq decisions
    /\ posted \subseteq Requests
    /\ fills \subseteq [request : posted, at : Nat] /\ IsFiniteSet(fills)

ReadTyped == account \in [cash : Int, nlv : Nat, book : Books, ripe : SUBSET Symbols]

\* Nothing is held short, and at a price of 1 trading changes no value.
Holdings == (\A s \in Symbols : Held(s) \in Nat) /\ NetValue = Funds

Amounts == [f \in fills |-> requests[f.request].qty]

LEMMA FillFacts ==
    ASSUME OrdersTyped
    PROVE  /\ \A f \in fills : /\ Amounts[f] \in Nat /\ f.request \in Requests
                               /\ requests[f.request] \in Request
                               /\ Sym(requests[f.request].event) \in Symbols
           /\ \A s, side : Of(s, side) \in SUBSET fills
           /\ Bought = {f \in fills : requests[f.request].side = "BUY"}
           /\ Closed = {f \in fills : requests[f.request].side = "CLOSE"}
<1>1. ASSUME NEW f \in fills
      PROVE  /\ Amounts[f] \in Nat /\ f.request \in Requests
             /\ requests[f.request] \in Request
             /\ Sym(requests[f.request].event) \in Symbols
  <2>1. f.request \in Requests
    BY DEF OrdersTyped
  <2>2. requests[f.request] \in Request
    BY <2>1 DEF OrdersTyped, Requests
  <2> QED
    BY <2>1, <2>2 DEF Amounts, Request, Events, Sym
<1>2. \A s, side : Of(s, side) \in SUBSET fills
  BY DEF Of
<1> QED
  BY <1>1, <1>2 DEF Bought, Closed, Of

LEMMA QtySums ==
    ASSUME OrdersTyped, NEW F \in SUBSET fills
    PROVE  Qty(F) = SumOver(Amounts, F) /\ Qty(F) \in Nat /\ IsFiniteSet(F)
<1> DEFINE Step(g, T) == IF T = {} THEN 0
                         ELSE requests[Picked(T).request].qty + g[T \ {Picked(T)}]
           iter == CHOOSE g : g = [T \in SUBSET F |-> Step(g, T)]
<1>1. IsFiniteSet(F)
  BY FS_Subset DEF OrdersTyped
<1>2. \A T \in SUBSET F : T # {} => Amounts[Picked(T)] = requests[Picked(T).request].qty
  BY PickedIsIn DEF Amounts
<1>3. Qty(F) = iter[F]
  BY DEF Qty, MapThenSumSet, MapThenFoldSet, Picked
<1>4. PICK g : Sums(Amounts, F, g)
  BY <1>1, SumsExist
<1>5. g = [T \in SUBSET F |-> Step(g, T)]
  BY <1>2, <1>4 DEF Sums
<1>6. iter = [T \in SUBSET F |-> Step(iter, T)]
  BY <1>5
<1> HIDE DEF iter
<1>7. Sums(Amounts, F, iter)
  BY <1>2, <1>6 DEF Sums
<1>8. \A f \in F : Amounts[f] \in Nat
  BY FillFacts
<1>9. SumOver(Amounts, F) \in Nat
  BY <1>1, <1>8, SumIsNatural
<1> QED
  BY <1>1, <1>3, <1>7, <1>9, SumIs

LEMMA EarmarksAreNatural ==
    ASSUME OrdersTyped, NEW t
    PROVE  OutstandingEarmarks(t) \in Nat
<1> DEFINE R == {r \in Requests : Pending(r, t)}
           marks == [r \in R |-> Earmark(r)]
           Step(g, T) == IF T = {} THEN 0 ELSE Earmark(Picked(T)) + g[T \ {Picked(T)}]
           iter == CHOOSE g : g = [T \in SUBSET R |-> Step(g, T)]
<1>0. /\ R \in SUBSET Requests /\ IsFiniteSet(R)
      /\ \A r \in Requests : requests[r] \in Request
  <2>1. Requests = 1..Len(requests) /\ Len(requests) \in Nat
        /\ \A r \in Requests : requests[r] \in Request
    BY DEF OrdersTyped, Requests
  <2>2. IsFiniteSet(Requests)
    BY <2>1, FS_Interval
  <2> QED
    BY <2>1, <2>2, FS_Subset
<1>1. \A r \in R : marks[r] = Earmark(r) /\ marks[r] \in Nat
  BY <1>0 DEF Earmark, Request
<1>2. OutstandingEarmarks(t) = iter[R]
  BY DEF OutstandingEarmarks, MapThenSumSet, MapThenFoldSet, Picked
<1> HIDE DEF R, marks
<1>3. \A T \in SUBSET R : T # {} => marks[Picked(T)] = Earmark(Picked(T))
  BY <1>1, PickedIsIn
<1>4. PICK g : Sums(marks, R, g)
  BY <1>0, SumsExist
<1>5. g = [T \in SUBSET R |-> Step(g, T)]
  BY <1>3, <1>4 DEF Sums
<1>6. iter = [T \in SUBSET R |-> Step(iter, T)]
  BY <1>5
<1> HIDE DEF iter
<1>7. Sums(marks, R, iter)
  BY <1>3, <1>6 DEF Sums
<1>8. iter[R] = SumOver(marks, R)
  BY <1>0, <1>7, SumIs
<1>9. SumOver(marks, R) \in Nat
  BY <1>0, <1>1, SumIsNatural
<1> QED
  BY <1>2, <1>8, <1>9

LEMMA FiguresMean ==
    OrdersTyped =>
        /\ \A s \in Symbols :
              Held(s) = SumOver(Amounts, Of(s, "BUY")) - SumOver(Amounts, Of(s, "CLOSE"))
        /\ NetValue = Funds - SumOver(Amounts, Bought) + SumOver(Amounts, Closed)
                      + SumOver(Book, Symbols)
<1> SUFFICES ASSUME OrdersTyped
             PROVE  /\ \A s \in Symbols : Held(s) = SumOver(Amounts, Of(s, "BUY"))
                                                    - SumOver(Amounts, Of(s, "CLOSE"))
                    /\ NetValue = Funds - SumOver(Amounts, Bought) + SumOver(Amounts, Closed)
                                  + SumOver(Book, Symbols)
  OBVIOUS
<1>1. \A s \in Symbols : Held(s) = SumOver(Amounts, Of(s, "BUY"))
                                   - SumOver(Amounts, Of(s, "CLOSE"))
  BY FillFacts, QtySums DEF Held
<1>2. Qty(Bought) = SumOver(Amounts, Bought) /\ Qty(Closed) = SumOver(Amounts, Closed)
  <2>1. Bought \in SUBSET fills /\ Closed \in SUBSET fills
    BY FillFacts
  <2> QED
    BY <2>1, QtySums
<1>3. Total(Book, Symbols) = SumOver(Book, Symbols)
  BY TotalSums, SymbolsAssumption
<1> QED
  BY <1>1, <1>2, <1>3 DEF NetValue

LEMMA FiguresMeanNext ==
    (OrdersTyped =>
        /\ \A s \in Symbols :
              Held(s) = SumOver(Amounts, Of(s, "BUY")) - SumOver(Amounts, Of(s, "CLOSE"))
        /\ NetValue = Funds - SumOver(Amounts, Bought) + SumOver(Amounts, Closed)
                      + SumOver(Book, Symbols))'
BY FiguresMean, PTL

LEMMA OrderEffects ==
    ASSUME [Next]_vars
    PROVE  /\ UNCHANGED fills \/ \E r \in posted : BrokerFills(r)
           /\ \/ UNCHANGED <<decisions, memory>>
              \/ memory' \in {{}, memory, decisions}
                 /\ (UNCHANGED decisions \/ \E r \in Requests, d \in Decisions : Decide(r, d))
           /\ UNCHANGED posted \/ \E r \in Requests : SubmitApproved(r)
<1> USE DEF vars, approvals, orders, cycle
<1>0. CASE UNCHANGED vars
  BY <1>0
<1>1. CASE World
  BY <1>1 DEF World, TimePasses, CompanyFiles, BrokerFills
<1>2. CASE Operator
  BY <1>2 DEF Operator, Decide, SubmitApproved, ResearchOnce
<1>3. CASE Start \/ Stop \/ Die
  BY <1>3 DEF Start, Stop, Die
<1>4. CASE Screening
  BY <1>4 DEF Screening, BeginCycle, SkipScreen, EndCycle, Screen, RecordEvent,
              QueueRecorded, NextEvent, QueueDone
<1>5. CASE Analysing
  BY <1>5 DEF Analysing, AnalyseCached, RefuseOverBudget, CallModel, RecordCost, ParseAnswer, Remember,
              ProposeRefused, ProposeRequest, MarkHandled
<1> QED
  BY <1>0, <1>1, <1>2, <1>3, <1>4, <1>5 DEF Next

LEMMA RequestsKeep ==
    ASSUME OrdersTyped, [Next]_vars
    PROVE  \A r \in Requests : r \in Requests' /\ requests'[r] = requests[r]
<1>1. ASequence(requests)
  BY DEF OrdersTyped, ASequence
<1>2. CASE UNCHANGED requests
  BY <1>2 DEF Requests
<1>3. CASE ProposeRequest
  BY <1>1, <1>3, AppendFacts DEF ProposeRequest, Requests
<1> QED
  BY <1>2, <1>3, RequestEffects

\* One fill more.
LEMMA HoldingsFill ==
    ASSUME OrdersTyped, OrdersTyped', Holdings, [Next]_vars,
           NEW r \in posted, BrokerFills(r)
    PROVE  Holdings'
<1> DEFINE f == [request |-> r, at |-> time]
           q == requests[r].qty
           side == requests[r].side
           where == Sym(requests[r].event)
           next == Amounts'
<1>1. /\ fills' = fills \cup {f} /\ f \notin fills /\ requests' = requests
      /\ f.request = r
      /\ side = "CLOSE" => q <= Held(where)
  BY DEF BrokerFills, approvals
<1>2. /\ where \in Symbols /\ q \in Nat /\ side \in {"BUY", "CLOSE"}
  <2>1. requests[r] \in Request
    BY DEF OrdersTyped, Requests
  <2> QED
    BY <2>1 DEF Request, Events, Sym
<1>3. next[f] = q /\ \A g \in fills : next[g] = Amounts[g] /\ Amounts[g] \in Int
  BY <1>1, FillFacts DEF Amounts
<1>4. /\ \A s, x : (Of(s, x))' = IF s = where /\ x = side THEN Of(s, x) \cup {f} ELSE Of(s, x)
      /\ Bought' = IF side = "BUY" THEN Bought \cup {f} ELSE Bought
      /\ Closed' = IF side = "CLOSE" THEN Closed \cup {f} ELSE Closed
  <2>1. \A s, x : (Of(s, x))' = IF s = where /\ x = side THEN Of(s, x) \cup {f} ELSE Of(s, x)
    BY <1>1 DEF Of
  <2> QED
    BY <1>2, <2>1 DEF Bought, Closed
<1> HIDE DEF f, q, side, where, next
<1>5. ASSUME NEW F \in SUBSET fills
      PROVE  /\ SumOver(next, F) = SumOver(Amounts, F) /\ SumOver(Amounts, F) \in Int
             /\ SumOver(next, F \cup {f}) = SumOver(Amounts, F) + q
  <2>1. IsFiniteSet(F) /\ SumOver(Amounts, F) \in Int
    BY QtySums
  <2>2. SumOver(next, F) = SumOver(Amounts, F)
    BY <1>3, <2>1, SumOfEquals
  <2>3. f \notin F /\ \A x \in F \cup {f} : next[x] \in Int
    BY <1>1, <1>2, <1>3
  <2>4. SumOver(next, F \cup {f}) = SumOver(next, F) + next[f]
    BY <2>1, <2>3, SumMore
  <2> QED
    BY <1>3, <2>1, <2>2, <2>4
<1>6. \A s, x : Of(s, x) \in SUBSET fills
  BY FillFacts
<1> DEFINE gain == IF side = "BUY" THEN q ELSE -q
<1>7. ASSUME NEW s \in Symbols
      PROVE  Held(s)' = IF s = where THEN Held(s) + gain ELSE Held(s)
  <2>1. Held(s)' = SumOver(next, Of(s, "BUY")') - SumOver(next, Of(s, "CLOSE")')
    BY FiguresMeanNext DEF next
  <2>2. Held(s) = SumOver(Amounts, Of(s, "BUY")) - SumOver(Amounts, Of(s, "CLOSE"))
    BY FiguresMean
  <2>3. \A x : Of(s, x)' = IF s = where /\ x = side THEN Of(s, x) \cup {f} ELSE Of(s, x)
    BY <1>4
  <2>4. CASE s # where
    <3>1. Of(s, "BUY")' = Of(s, "BUY") /\ Of(s, "CLOSE")' = Of(s, "CLOSE")
      BY <2>3, <2>4
    <3>2. /\ SumOver(next, Of(s, "BUY")) = SumOver(Amounts, Of(s, "BUY"))
          /\ SumOver(next, Of(s, "CLOSE")) = SumOver(Amounts, Of(s, "CLOSE"))
      BY <1>5, <1>6
    <3>3. Held(s)' = Held(s)
      BY <2>1, <2>2, <3>1, <3>2
    <3> QED
      BY <2>4, <3>3
  <2>5. CASE s = where /\ side = "BUY"
    <3>1. Of(s, "BUY")' = Of(s, "BUY") \cup {f} /\ Of(s, "CLOSE")' = Of(s, "CLOSE")
      BY <2>3, <2>5
    <3>2. /\ SumOver(next, Of(s, "BUY")') = SumOver(Amounts, Of(s, "BUY")) + q
          /\ SumOver(next, Of(s, "CLOSE")') = SumOver(Amounts, Of(s, "CLOSE"))
          /\ SumOver(Amounts, Of(s, "BUY")) \in Int /\ SumOver(Amounts, Of(s, "CLOSE")) \in Int
      BY <1>5, <1>6, <3>1
    <3> QED
      BY <1>2, <2>1, <2>2, <2>5, <3>2
  <2>6. CASE s = where /\ side = "CLOSE"
    <3>1. Of(s, "CLOSE")' = Of(s, "CLOSE") \cup {f} /\ Of(s, "BUY")' = Of(s, "BUY")
      BY <2>3, <2>6
    <3>2. /\ SumOver(next, Of(s, "CLOSE")') = SumOver(Amounts, Of(s, "CLOSE")) + q
          /\ SumOver(next, Of(s, "BUY")') = SumOver(Amounts, Of(s, "BUY"))
          /\ SumOver(Amounts, Of(s, "BUY")) \in Int /\ SumOver(Amounts, Of(s, "CLOSE")) \in Int
      BY <1>5, <1>6, <3>1
    <3> QED
      BY <1>2, <2>1, <2>2, <2>6, <3>2
  <2> QED
    BY <1>2, <2>4, <2>5, <2>6
<1>8. \A s \in Symbols : Held(s)' \in Nat
  <2>1. \A s \in Symbols : Held(s) \in Nat
    BY DEF Holdings
  <2> QED
    BY <1>1, <1>2, <1>7, <2>1
<1>9. SumOver(Book', Symbols) = SumOver(Book, Symbols) + gain /\ SumOver(Book, Symbols) \in Int
  <2>1. \A s \in Symbols : Book[s] = Held(s) /\ Book'[s] = Held(s)'
    BY DEF Book
  <2>2. \A s \in Symbols : Book[s] \in Int /\ Book'[s] \in Int
    BY <1>8, <2>1 DEF Holdings
  <2>3. Book'[where] = Book[where] + gain /\ \A s \in Symbols \ {where} : Book'[s] = Book[s]
    BY <1>2, <1>7, <2>1
  <2> DEFINE new == Book'
             old == Book
  <2>4. IsFiniteSet(Symbols)
    BY SymbolsAssumption
  <2> HIDE DEF new, old, gain
  <2>5. SumOver(new, Symbols) = SumOver(old, Symbols) - old[where] + new[where]
    BY <1>2, <2>2, <2>3, <2>4, SumChanged DEF new, old
  <2>6. SumOver(old, Symbols) \in Int
    BY <2>2, <2>4, SumIsAnInteger DEF old
  <2>7. gain \in Int /\ old[where] \in Int /\ new[where] = old[where] + gain
    BY <1>2, <2>2, <2>3 DEF gain, old, new
  <2>8. SumOver(new, Symbols) = SumOver(old, Symbols) + gain
    BY <2>5, <2>6, <2>7
  <2> QED
    BY <2>6, <2>8 DEF new, old
<1>10. NetValue' = Funds
  <2>1. NetValue' = Funds - SumOver(next, Bought') + SumOver(next, Closed')
                    + SumOver(Book', Symbols)
    BY FiguresMeanNext DEF next
  <2>2. Funds = Funds - SumOver(Amounts, Bought) + SumOver(Amounts, Closed)
                + SumOver(Book, Symbols)
    BY FiguresMean DEF Holdings
  <2>3. Bought \in SUBSET fills /\ Closed \in SUBSET fills
    BY FillFacts
  <2>4. SumOver(Amounts, Bought) \in Int /\ SumOver(Amounts, Closed) \in Int /\ Funds \in Int
    <3>1. Funds \in Int
      BY PipelineAssumption
    <3> QED
      BY <1>5, <2>3, <3>1
  <2>5. CASE side = "BUY"
    <3>1. /\ SumOver(next, Bought') = SumOver(Amounts, Bought) + q
          /\ SumOver(next, Closed') = SumOver(Amounts, Closed)
      BY <1>4, <1>5, <2>3, <2>5
    <3> QED
      BY <1>2, <1>9, <2>1, <2>2, <2>4, <2>5, <3>1
  <2>6. CASE side = "CLOSE"
    <3>1. /\ SumOver(next, Bought') = SumOver(Amounts, Bought)
          /\ SumOver(next, Closed') = SumOver(Amounts, Closed) + q
      BY <1>4, <1>5, <2>3, <2>6
    <3> QED
      BY <1>2, <1>9, <2>1, <2>2, <2>4, <2>6, <3>1
  <2> QED
    BY <1>2, <2>5, <2>6
<1> QED
  BY <1>8, <1>10 DEF Holdings

LEMMA HoldingsStep ==
    ASSUME OrdersTyped, OrdersTyped', Holdings, [Next]_vars
    PROVE  Holdings'
<1>1. CASE UNCHANGED fills
  <2>1. \A f \in fills : requests'[f.request] = requests[f.request]
    BY RequestsKeep, FillFacts
  <2>2. Amounts' = Amounts
    BY <1>1, <2>1 DEF Amounts
  <2>3. \A s, x : Of(s, x)' = Of(s, x)
    BY <1>1, <2>1 DEF Of
  <2>4. Bought' = Bought /\ Closed' = Closed
    BY <2>3 DEF Bought, Closed
  <2>5. \A s \in Symbols : Held(s)' = Held(s)
    BY <2>2, <2>3, FiguresMean, FiguresMeanNext
  <2>6. Book' = Book
    BY <2>5 DEF Book
  <2>7. NetValue' = NetValue
    BY <2>2, <2>4, <2>6, FiguresMean, FiguresMeanNext
  <2> QED
    BY <2>5, <2>7 DEF Holdings
<1> QED
  BY <1>1, OrderEffects, HoldingsFill

LEMMA AccountEffects ==
    ASSUME [Next]_vars
    PROVE  \/ UNCHANGED account \/ account' = NoAccount
           \/ \E S \in SUBSET Symbols : BeginCycle(S)
<1> USE DEF vars, cycle
<1>0. CASE UNCHANGED vars
  BY <1>0
<1>1. CASE World \/ Operator
  BY <1>1 DEF World, TimePasses, CompanyFiles, BrokerFills, Operator, Decide, SubmitApproved,
              ResearchOnce
<1>2. CASE Start \/ Stop \/ Die
  BY <1>2 DEF Start, Stop, Die, Forget
<1>3. CASE Screening
  BY <1>3 DEF Screening, SkipScreen, EndCycle, Forget, Screen, RecordEvent,
              QueueRecorded, NextEvent, QueueDone
<1>4. CASE Analysing
  BY <1>4 DEF Analysing, AnalyseCached, RefuseOverBudget, CallModel, RecordCost, ParseAnswer,
              ProposeRefused, ProposeRequest, MarkHandled, Finish, GoTo
<1> QED
  BY <1>0, <1>1, <1>2, <1>3, <1>4 DEF Next

LEMMA ReadStep ==
    ASSUME Typed, OrdersTyped, Holdings, ReadTyped, [Next]_vars
    PROVE  ReadTyped'
<1>1. CASE UNCHANGED account
  BY <1>1 DEF ReadTyped
<1>2. CASE account' = NoAccount
  BY <1>2 DEF ReadTyped, NoAccount, Books
<1>3. CASE \E S \in SUBSET Symbols : BeginCycle(S)
  <2>1. account' = [cash |-> SettledCash(time), nlv |-> NetValue, book |-> Book,
                    ripe |-> RipeSymbols(time)]
    BY <1>3 DEF BeginCycle
  <2>2. NetValue \in Nat /\ Book \in Books /\ RipeSymbols(time) \in SUBSET Symbols
    BY PipelineAssumption DEF Holdings, Book, Books, RipeSymbols
  <2>3. SettledCash(time) \in Int
    <3> DEFINE paidOut == {f \in Closed : Session(f.at) < Session(time)}
    <3>1. Bought \in SUBSET fills /\ paidOut \in SUBSET fills
      BY FillFacts
    <3>2. Qty(Bought) \in Nat /\ Qty(paidOut) \in Nat
      BY <3>1, QtySums
    <3>3. SettledCash(time) = Funds - Qty(Bought) + Qty(paidOut)
      BY DEF SettledCash
    <3>4. Funds \in Nat
      BY PipelineAssumption
    <3> HIDE DEF paidOut
    <3> QED
      BY <3>2, <3>3, <3>4
  <2> QED
    BY <2>1, <2>2, <2>3 DEF ReadTyped
<1> QED
  BY <1>1, <1>2, <1>3, AccountEffects

\* What a proposal and its context are to the gate.
LEMMA ProposalFacts ==
    ASSUME Typed, OrdersTyped, ReadTyped, NEW s \in Symbols
    PROVE  /\ Side(s) \in {"BUY", "CLOSE"} /\ Proposal(s).qty \in Nat
           /\ Side(s) = "BUY" => account.book[s] = 0
           /\ Authorized(Proposal(s), Context(s)) \in Nat
           /\ Authorized(Proposal(s), Context(s)) <= Proposal(s).qty
<1>1. /\ account.cash \in Int /\ account.nlv \in Nat /\ account.book \in Books
      /\ account.book[s] \in Nat
  BY DEF ReadTyped, Books
<1>2. OutstandingEarmarks(now) \in Nat
  BY EarmarksAreNatural
<1>3. Side(s) \in {"BUY", "CLOSE"} /\ (Side(s) = "BUY" => account.book[s] = 0)
  BY <1>1 DEF Side
<1>4. Proposal(s).qty \in Nat /\ Proposal(s).symbol = s /\ Proposal(s).side = Side(s)
  BY <1>1, LimitsAreShares DEF Proposal
<1>5. /\ Context(s).book = account.book /\ Context(s).portfolio.nlv = account.nlv
      /\ Context(s).portfolio.cash = account.cash
      /\ Context(s).portfolio.pending = OutstandingEarmarks(now)
  BY DEF Context, Portfolio
<1>6. /\ Authorized(Proposal(s), Context(s)) \in Nat
      /\ Authorized(Proposal(s), Context(s)) <= Proposal(s).qty
  <2> DEFINE o == Proposal(s)
             c == Context(s)
  <2>1. /\ o.symbol \in Symbols /\ o.side \in {"BUY", "CLOSE"} /\ o.qty \in Nat
        /\ c.book \in Books /\ c.portfolio.nlv \in Nat
        /\ c.portfolio.cash \in Int /\ c.portfolio.pending \in Int
    BY <1>1, <1>2, <1>3, <1>4, <1>5
  <2> HIDE DEF o, c
  <2>2. Authorized(o, c) \in Nat /\ Authorized(o, c) <= o.qty
    BY <2>1, AuthorizedFacts
  <2> QED
    BY <2>2 DEF o, c
<1> QED
  BY <1>3, <1>4, <1>6

LEMMA OrdersStep ==
    ASSUME Typed, InHand, OrdersTyped, ReadTyped, [Next]_vars
    PROVE  OrdersTyped'
<1>1. requests' \in Seq(Request)
  <2>1. CASE UNCHANGED requests
    BY <2>1 DEF OrdersTyped
  <2>2. CASE ProposeRequest
    <3> DEFINE s == Sym(current)
               new == [event |-> current, side |-> Side(s),
                       qty |-> Authorized(Proposal(s), Context(s)), at |-> now]
    <3>1. current \in Events /\ s \in Symbols
      BY <2>2 DEF ProposeRequest, InHand, Working, Events, Sym
    <3>2. new \in Request
      BY <3>1, ProposalFacts DEF Request, Typed
    <3>3. requests' = Append(requests, new)
      BY <2>2 DEF ProposeRequest
    <3> HIDE DEF new
    <3> QED
      BY <3>2, <3>3 DEF OrdersTyped
  <2> QED
    BY <2>1, <2>2, RequestEffects
<1>2. Requests \subseteq Requests'
  BY RequestsKeep
<1>3. decisions' \subseteq [request : Requests', decision : Decisions, at : Nat]
  <2>1. CASE UNCHANGED decisions
    BY <1>2, <2>1 DEF OrdersTyped
  <2>2. ASSUME NEW r \in Requests, NEW d \in Decisions, Decide(r, d)
        PROVE  decisions' \subseteq [request : Requests', decision : Decisions, at : Nat]
    BY <1>2, <2>2 DEF OrdersTyped, Decide, Typed
  <2> QED
    BY <2>1, <2>2, OrderEffects
<1>4. memory' \subseteq decisions'
  <2>1. decisions \subseteq decisions'
    BY OrderEffects DEF Decide
  <2> QED
    BY <2>1, OrderEffects DEF OrdersTyped
<1>5. posted \subseteq posted' /\ posted' \subseteq Requests'
  BY <1>2, OrderEffects DEF OrdersTyped, SubmitApproved
<1>6. fills' \subseteq [request : posted', at : Nat] /\ IsFiniteSet(fills')
  <2>1. CASE UNCHANGED fills
    BY <1>5, <2>1 DEF OrdersTyped
  <2>2. ASSUME NEW r \in posted, BrokerFills(r)
        PROVE  fills' \subseteq [request : posted', at : Nat] /\ IsFiniteSet(fills')
    <3> DEFINE f == [request |-> r, at |-> time]
    <3>1. fills' = fills \cup {f}
      BY <2>2 DEF BrokerFills
    <3>2. f \in [request : posted', at : Nat]
      BY <1>5 DEF Typed
    <3> HIDE DEF f
    <3> QED
      BY <1>5, <3>1, <3>2, FS_AddElement DEF OrdersTyped
  <2> QED
    BY <2>1, <2>2, OrderEffects
<1> QED
  BY <1>1, <1>3, <1>4, <1>5, <1>6 DEF OrdersTyped

\* What a request to buy may be.
LEMMA RequestFits ==
    ASSUME Typed, InHand, OrdersTyped, ReadTyped, [Next]_vars,
           RequestMade, Made.side = "BUY"
    PROVE  Made.qty + PendingCash + Reserve <= account.cash
<1> DEFINE s == Sym(current)
           qty == Authorized(Proposal(s), Context(s))
<1>1. ASequence(requests)
  BY DEF OrdersTyped, ASequence
<1>2. ProposeRequest
  <2>1. Len(requests) \in Nat
    BY DEF OrdersTyped
  <2> QED
    BY <2>1, RequestEffects DEF RequestMade
<1>3. Made = [event |-> current, side |-> Side(s), qty |-> qty, at |-> now]
  BY <1>1, <1>2, AppendFacts DEF ProposeRequest, Made
<1>4. /\ s \in Symbols /\ Side(s) = "BUY" /\ Made.qty = qty
      /\ ~(Proposal(s).qty > InvestableCash(Portfolio))
      /\ Signed(Proposal(s), Context(s))
  BY <1>2, <1>3 DEF ProposeRequest, ShortOfCash, InHand, Working, Events, Sym
<1>5. qty \in Nat /\ qty <= Proposal(s).qty /\ Proposal(s).qty \in Nat
  BY <1>4, ProposalFacts
<1>6. qty # 0
  BY <1>4 DEF Signed, RejectingGate, Proposal, Exits
<1>7. OutstandingEarmarks(now) \in Nat /\ PendingCash = OutstandingEarmarks(now)
  BY EarmarksAreNatural DEF PendingCash, OutstandingEarmarks
<1>8. /\ account.cash \in Int /\ account.nlv \in Nat /\ Reserve \in Nat
      /\ Reserve = RequiredReserve(Portfolio)
  <2>1. account.cash \in Int /\ account.nlv \in Nat
    BY DEF ReadTyped
  <2> QED
    BY <2>1, LimitsAreShares, LimitsAssumption DEF Reserve, RequiredReserve, Portfolio, Larger
<1>9. InvestableCash(Portfolio) = Larger(0, account.cash - PendingCash - Reserve)
  BY <1>7, <1>8 DEF InvestableCash, Portfolio
<1>10. InvestableCash(Portfolio) \in Int
  BY <1>7, <1>8, <1>9 DEF Larger
<1> HIDE DEF qty, s
<1>11. qty <= InvestableCash(Portfolio)
  BY <1>4, <1>5, <1>10
<1> QED
  BY <1>4, <1>5, <1>6, <1>7, <1>8, <1>9, <1>11 DEF Larger

-----------------------------------------------------------------------------
(***************************************************************************)
(* The other types.                                                        *)
(***************************************************************************)
OthersTyped ==
    /\ recorded \subseteq Events
    /\ calls \in [0..Session(MaxTime) -> Nat]
    /\ queue \subseteq [event : Events, score : Int]

LEMMA RecordedTyped ==
    ASSUME Typed, Waiting, OthersTyped, [Next]_vars
    PROVE  recorded' \subseteq Events
<1>1. ASSUME NEW e \in todo, RecordEvent(e) PROVE recorded' \subseteq Events
  BY <1>1 DEF RecordEvent, OthersTyped, Waiting
<1>2. ASSUME NEW C \in SUBSET Symbols, NEW S \in SUBSET Symbols, ResearchOnce(C, S)
      PROVE  recorded' \subseteq Events
  <2>1. \A s \in Symbols : known'[s] \in 0..MaxFilings
    BY <1>2 DEF ResearchOnce, Typed
  <2>2. \A s \in S : known'[s] > 0 => <<s, known'[s]>> \in Events
    BY <2>1, PipelineAssumption DEF Events
  <2> QED
    BY <1>2, <2>2 DEF ResearchOnce, OthersTyped
<1>3. \/ UNCHANGED recorded \/ \E e \in todo : RecordEvent(e)
      \/ \E C, S \in SUBSET Symbols : ResearchOnce(C, S)
  BY DEF Next, vars, evidence, World, TimePasses, CompanyFiles, BrokerFills, Operator, Decide,
     SubmitApproved, Start, Stop, Die, Screening, BeginCycle, SkipScreen, EndCycle, Screen,
     QueueRecorded, NextEvent, QueueDone, Analysing, AnalyseCached, RefuseOverBudget, CallModel,
     RecordCost, ParseAnswer, ProposeRefused, ProposeRequest, MarkHandled
<1> QED
  BY <1>1, <1>2, <1>3 DEF OthersTyped

LEMMA CallsTyped ==
    ASSUME Typed, OthersTyped, [Next]_vars
    PROVE  calls' \in [0..Session(MaxTime) -> Nat]
<1>1. CASE RecordCost
  <2> DEFINE D == 0..Session(MaxTime)
             day == Session(now)
  <2>1. calls \in [D -> Nat] /\ calls' = [calls EXCEPT ![day] = @ + 1]
    BY <1>1 DEF RecordCost, OthersTyped
  <2> HIDE DEF D, day
  <2>2. calls' = [x \in D |-> IF x = day THEN calls[day] + 1 ELSE calls[x]]
    BY <2>1
  <2>3. \A x \in D : calls[x] \in Nat /\ calls[x] + 1 \in Nat
    BY <2>1
  <2>4. calls' \in [D -> Nat]
    BY <2>2, <2>3
  <2> QED
    BY <2>4 DEF D
<1>2. UNCHANGED calls \/ RecordCost
  BY DEF Next, vars, model, World, TimePasses, CompanyFiles, BrokerFills, Operator, Decide,
     SubmitApproved, ResearchOnce, Start, Stop, Die, Screening, BeginCycle, SkipScreen, EndCycle,
     Screen, RecordEvent, QueueRecorded, NextEvent, QueueDone, Analysing, AnalyseCached,
     RefuseOverBudget, CallModel, ParseAnswer, ProposeRefused, ProposeRequest, MarkHandled
<1> QED
  BY <1>1, <1>2 DEF OthersTyped

LEMMA QueueTyped ==
    ASSUME Typed, OthersTyped, [Next]_vars
    PROVE  queue' \subseteq [event : Events, score : Int]
<1> USE DEF vars, cycle
<1>1. ASSUME NEW S \in SUBSET Collected, NEW reading \in [S -> Scores], Screen(reading)
      PROVE  queue' \subseteq [event : Events, score : Int]
  <2> DEFINE screened == {[event |-> Latest(s), score |-> reading[s]] : s \in S}
  <2>1. \A s \in S : Latest(s) \in Events /\ reading[s] \in Int
    <3> SUFFICES ASSUME NEW s \in S PROVE Latest(s) \in Events /\ reading[s] \in Int
      OBVIOUS
    <3>1. s \in Symbols /\ known[s] > 0 /\ known[s] \in 0..MaxFilings
      BY DEF Collected, Typed
    <3>2. known[s] \in 1..MaxFilings
      BY <3>1, PipelineAssumption
    <3>3. reading[s] \in Int
      BY PipelineAssumption
    <3> QED
      BY <3>1, <3>2, <3>3 DEF Latest, Events
  <2>2. screened \subseteq [event : Events, score : Int]
    BY <2>1
  <2>3. queue' \subseteq screened
    BY <1>1 DEF Screen, Triggered
  <2> QED
    BY <2>2, <2>3
<1>2. queue' \subseteq queue
      \/ \E S \in SUBSET Collected : \E reading \in [S -> Scores] : Screen(reading)
  <2>0. CASE UNCHANGED vars
    BY <2>0
  <2>1. CASE World \/ Operator
    BY <2>1 DEF World, TimePasses, CompanyFiles, BrokerFills, Operator, Decide, SubmitApproved,
                ResearchOnce
  <2>2. CASE Start \/ Stop \/ Die
    BY <2>2 DEF Start, Stop, Die, Forget
  <2>3. CASE Screening
    BY <2>3 DEF Screening, BeginCycle, SkipScreen, EndCycle, Forget, RecordEvent,
                QueueRecorded, NextEvent, QueueDone
  <2>4. CASE Analysing
    BY <2>4 DEF Analysing, AnalyseCached, RefuseOverBudget, CallModel, RecordCost, ParseAnswer,
                ProposeRefused, ProposeRequest, MarkHandled, Finish, GoTo
  <2> QED
    BY <2>0, <2>1, <2>2, <2>3, <2>4 DEF Next
<1> QED
  BY <1>1, <1>2 DEF OthersTyped

-----------------------------------------------------------------------------
(***************************************************************************)
(* The theorems.                                                           *)
(***************************************************************************)
IInv == /\ Typed /\ InHand /\ Waiting
        /\ CallsAccounted /\ NothingUnrecordedIsAnalysed
        /\ Budget /\ RequestsCounted /\ MemoryIsCurrent
        /\ OrdersTyped /\ ReadTyped /\ Holdings /\ OthersTyped

LEMMA InitAccount == Init => OrdersTyped /\ ReadTyped /\ Holdings /\ OthersTyped
<1> SUFFICES ASSUME Init PROVE OrdersTyped /\ ReadTyped /\ Holdings /\ OthersTyped
  OBVIOUS
<1>1. OrdersTyped
  BY FS_EmptySet DEF Init, OrdersTyped
<1>2. ReadTyped
  BY DEF Init, NoAccount, ReadTyped, Books
<1>3. OthersTyped
  BY DEF Init, OthersTyped
<1>4. fills = {} /\ Bought = {} /\ Closed = {} /\ \A s, side : Of(s, side) = {}
  <2>1. fills = {}
    BY DEF Init
  <2>2. \A s, side : Of(s, side) = {}
    BY <2>1 DEF Of
  <2> QED
    BY <2>1, <2>2 DEF Bought, Closed
<1>5. \A s \in Symbols : Held(s) = 0
  BY <1>1, <1>4, FiguresMean, SumOfNone
<1>6. SumOver(Book, Symbols) = 0
  <2> DEFINE book == Book
             times == [s \in Symbols |-> book[s] * 0]
  <2>1. \A s \in Symbols : book[s] = 0 /\ times[s] = 0
    BY <1>5 DEF Book
  <2>2. IsFiniteSet(Symbols) /\ \A s \in Symbols : book[s] \in Int /\ times[s] = book[s] * 0
    BY <2>1, SymbolsAssumption
  <2> HIDE DEF book, times
  <2>3. SumOver(times, Symbols) = SumOver(book, Symbols) * 0
    BY <2>2, SumTimes
  <2>4. SumOver(times, Symbols) = SumOver(book, Symbols)
    BY <2>1, <2>2, SumOfEquals
  <2>5. SumOver(book, Symbols) \in Int
    BY <2>2, SumIsAnInteger
  <2>6. SumOver(book, Symbols) = 0
    BY <2>3, <2>4, <2>5
  <2> QED
    BY <2>6 DEF book
<1>7. NetValue = Funds
  <2>1. NetValue = Funds - SumOver(Amounts, Bought) + SumOver(Amounts, Closed)
                   + SumOver(Book, Symbols)
    BY <1>1, FiguresMean
  <2>2. SumOver(Amounts, Bought) = 0 /\ SumOver(Amounts, Closed) = 0
    BY <1>4, SumOfNone
  <2>3. Funds \in Nat
    BY PipelineAssumption
  <2> QED
    BY <1>6, <2>1, <2>2, <2>3
<1> QED
  BY <1>1, <1>2, <1>3, <1>5, <1>7 DEF Holdings

LEMMA InitIInv == Init => IInv
<1> SUFFICES ASSUME Init PROVE IInv
  OBVIOUS
<1>1. CallsAccounted /\ NothingUnrecordedIsAnalysed /\ MemoryIsCurrent
  BY DEF Init, CallsAccounted, NothingUnrecordedIsAnalysed, MemoryIsCurrent
<1>2. Budget
  BY DearestFacts DEF Init, Budget
<1>3. RequestsCounted
  <2>1. requests = <<>> /\ ASequence(requests)
    BY DEF Init, ASequence
  <2>2. \A e \in Events : RequestsOf(e) = {}
    BY <2>1 DEF RequestsOf, Requests
  <2>3. IsFiniteSet({}) /\ Cardinality({}) = 0
    BY FS_EmptySet
  <2>4. \A e \in Events : lostMarks[e] = 0
    BY DEF Init
  <2> SUFFICES ASSUME NEW e \in Events
               PROVE  /\ IsFiniteSet(RequestsOf(e))
                      /\ Cardinality(RequestsOf(e)) <= lostMarks[e] + IF Answered(e) THEN 1 ELSE 0
    BY <2>1 DEF RequestsCounted
  <2>5. Cardinality(RequestsOf(e)) = 0 /\ lostMarks[e] = 0 /\ IsFiniteSet(RequestsOf(e))
    BY <2>2, <2>3, <2>4
  <2>6. 0 <= 0 + IF Answered(e) THEN 1 ELSE 0
    <3> HIDE DEF Answered
    <3> QED
      OBVIOUS
  <2> QED
    BY <2>5, <2>6
<1> QED
  BY <1>1, <1>2, <1>3, InitTyped, InitInHand, InitAccount DEF IInv

LEMMA IInvStep == IInv /\ [Next]_vars => IInv'
<1> SUFFICES ASSUME IInv, [Next]_vars PROVE IInv'
  OBVIOUS
<1>1. /\ Typed' /\ InHand' /\ Waiting' /\ CallsAccounted'
      /\ NothingUnrecordedIsAnalysed' /\ Budget' /\ RequestsCounted' /\ MemoryIsCurrent'
  BY TypedStep, InHandStep, WaitingStep, CallsStep, RecordedStep, BudgetStep, RequestsStep,
     MemoryStep DEF IInv
<1>2. OrdersTyped' /\ ReadTyped'
  BY OrdersStep, ReadStep DEF IInv
<1>3. Holdings'
  BY <1>2, HoldingsStep DEF IInv
<1>4. OthersTyped'
  BY RecordedTyped, CallsTyped, QueueTyped DEF IInv, OthersTyped
<1> QED
  BY <1>1, <1>2, <1>3, <1>4 DEF IInv

\* What is in hand or waits is recorded and unsettled; every call, request and
\* bill is accounted for; the loop's copy of the decisions is current.
THEOREM PipelineInvariant == Spec => []IInv
BY InitIInv, IInvStep, PTL DEF Spec

\* Every store, the account and the queue hold what they may, for every bound.
THEOREM PipelineTypes == Spec => []TypeOK
<1>1. ASSUME IInv PROVE TypeOK
  <2>1. account \in Accounts
    BY <1>1 DEF IInv, ReadTyped, Books, Accounts
  <2>2. /\ spent \in Nat /\ price \in Nat /\ billed \in Nat /\ deaths \in Nat
        /\ todo \subseteq Events /\ current \in Events \cup {NoEvent}
    BY <1>1 DEF IInv, Budget, Waiting, InHand
  <2>3. /\ recorded \subseteq Events /\ calls \in [0..Session(MaxTime) -> Nat]
        /\ queue \subseteq [event : Events, score : Int]
    BY <1>1 DEF IInv, OthersTyped
  <2>4. /\ requests \in Seq(Request) /\ memory \subseteq decisions /\ posted \subseteq Requests
        /\ decisions \subseteq [request : Requests, decision : Decisions, at : Nat]
        /\ fills \subseteq [request : posted, at : Nat]
    BY <1>1 DEF IInv, OrdersTyped
  <2>5. Typed
    BY <1>1 DEF IInv
  <2> QED
    BY <2>1, <2>2, <2>3, <2>4, <2>5 DEF Typed, TypeOK, Outcomes
<1> QED
  BY <1>1, PipelineInvariant, PTL

\* No document is paid for twice, but for a death between the call and the
\* cache (run_analysis, analyze_opportunity_event and the tracker).
THEOREM PaidOnce == Spec => []PaidOncePerDocument
<1>1. IInv => PaidOncePerDocument
  BY DEF IInv, CallsAccounted, Typed, PaidOncePerDocument
<1> QED
  BY <1>1, PipelineInvariant, PTL

\* Whatever is analysed is on record first (run_materiality_cycle before
\* run_pipeline_stage's analyses).
THEOREM RecordedFirst == Spec => []NothingUnrecordedIsAnalysed
<1>1. IInv => NothingUnrecordedIsAnalysed
  BY DEF IInv
<1> QED
  BY <1>1, PipelineInvariant, PTL

\* The month passes the hard stop by what one call cost beyond its estimate at
\* most, and the file lacks only the bills of calls cut off.
THEOREM MonthBounded == Spec => []MonthIsBounded
<1>1. IInv => MonthIsBounded
  BY BudgetBounds DEF IInv
<1> QED
  BY <1>1, PipelineInvariant, PTL

\* An event is put to the operator once, and once more for every death between
\* its request and its mark.
THEOREM RepeatsAreOnlyDeaths == Spec => []RepeatsAreDeaths
<1>1. ASSUME IInv PROVE RepeatsAreDeaths
  <2> SUFFICES ASSUME NEW e \in Events
               PROVE  Cardinality(RequestsOf(e)) <= 1 + lostMarks[e]
    BY DEF RepeatsAreDeaths
  <2>1. /\ lostMarks[e] \in Nat /\ Cardinality(RequestsOf(e)) \in Nat
        /\ Cardinality(RequestsOf(e)) <= lostMarks[e] + IF Answered(e) THEN 1 ELSE 0
    BY <1>1, FS_CardinalityType DEF IInv, RequestsCounted, Typed
  <2> QED
    BY <2>1
<1> QED
  BY <1>1, PipelineInvariant, PTL

\* The daily cap is the cap of the file, though the loop reads its own copy.
THEOREM CapIsOfTheFile == Spec => CapReadsTheFile
<1>1. IInv /\ [Next]_vars
      => [RequestMade => Cardinality(On(Session(now), decisions)) < MaxDecisions]_vars
  BY RequestIsCapped DEF IInv, RequestsCounted
<1> QED
  BY <1>1, PipelineInvariant, PTL DEF Spec, CapReadsTheFile

\* What the tracker has settled is neither paid for nor put to the operator.
THEOREM SettledStays == Spec => SettledStaysSettled
<1>1. IInv /\ [Next]_vars
      => [\A e \in Events : IsHandled(e, now) =>
             paid'[e] = paid[e] /\ ~(RequestMade /\ Made.event = e)]_vars
  BY SettledStep DEF IInv, RequestsCounted
<1> QED
  BY <1>1, PipelineInvariant, PTL DEF Spec, SettledStaysSettled

\* A request to buy fits the settled cash its cycle read, next to the requests
\* still undecided and the reserve (request_approval_for_analysis).
THEOREM RequestsFit == Spec => RequestsFitTheCash
<1>1. IInv /\ [Next]_vars
      => [RequestMade /\ Made.side = "BUY"
            => Made.qty + PendingCash + Reserve <= account.cash]_vars
  BY RequestFits DEF IInv
<1> QED
  BY <1>1, PipelineInvariant, PTL DEF Spec, RequestsFitTheCash


-----------------------------------------------------------------------------
(***************************************************************************)
(* The days of trading that follow from what the gate has signed.  Trading *)
(* is taken as an instance with the gate, the instant and the account that *)
(* are declared above; its orders are called filled.  Nothing that follows *)
(* uses what PipelineStage says of them.                                   *)
(***************************************************************************)
CONSTANTS StartDay, EndDay, Deposit, Hold, Expiration, MaxOrders, MaxProposals
VARIABLES settlements, filled, standing, warrant, proposals, passed, halted
D == INSTANCE Trading WITH orders <- filled

\* What Trading assumes of the constants its books depend on.
TradingConstants ==
    /\ StartDay \in D!Days /\ EndDay \in D!Days /\ StartDay <= EndDay
    /\ \A d \in StartDay..EndDay : D!IsTradingDay(d) => D!SettlementDate(d) # D!Uncovered
    /\ Cardinality(Symbols) = 1
    /\ Deposit \in Nat /\ \A v \in DOMAIN Hold : Hold[v] \in Nat
    /\ Expiration \in Nat /\ MaxOrders \in Nat /\ MaxProposals \in Nat

LEMMA TradingDays ==
    ASSUME TradingConstants
    PROVE  /\ StartDay \in Nat /\ EndDay \in Nat
           /\ \A d \in StartDay..EndDay : d \in D!Days
           /\ Deposit \in Nat /\ \E s : Symbols = {s}
<1>1. D!LastDay \in Int
  BY DEF D!LastDay, D!DayOf, D!YearStart, D!MonthStart, D!MAX_YEAR, D!MIN_YEAR, D!IsLeap
<1>2. \E s : Symbols = {s}
  BY FS_Singleton, SymbolsAssumption DEF TradingConstants
<1> HIDE DEF D!LastDay
<1> QED
  BY <1>1, <1>2 DEF TradingConstants, D!Days, D!FirstDay

\* A fill settles at the open of a later day.
LEMMA SettlesLater ==
    ASSUME TradingConstants, NEW t \in Nat, D!Date(t) \in StartDay..EndDay,
           D!IsTradingDay(D!Date(t))
    PROVE  D!SettlementInstant(t) \in Nat /\ D!SettlementInstant(t) > t
<1> DEFINE d == D!Date(t)
           after == {s \in (d + 1)..(d + D!Reach) : D!Covered(s) /\ D!IsTradingDay(s)}
           first == CHOOSE s \in after : \A r \in after : s <= r
<1>1. d \in Nat /\ t < 4 * (d + 1)
  BY DEF D!Date, D!SlotsOfDay
<1>2. D!SettlementDate(d) = D!NextTradingDay(d) /\ D!NextTradingDay(d) # D!Uncovered
  BY DEF TradingConstants, D!SettlementDate
<1>3. after # {} /\ D!NextTradingDay(d) = first
  BY <1>2 DEF D!NextTradingDay
<1>4. after \in SUBSET Nat /\ \A s \in after : s >= d + 1
  BY <1>1 DEF D!Reach
<1>5. first \in after
  <2>1. \E s \in after : \A r \in after : s <= r
    <3> HIDE DEF after
    <3> QED
      BY <1>3, <1>4, LeastThereIs
  <2> HIDE DEF after
  <2> QED
    BY <2>1
<1>6. D!SettlementInstant(t) = D!OpenOf(first)
  BY <1>2, <1>3 DEF D!SettlementInstant
<1> HIDE DEF first, after
<1>7. first \in Nat /\ first >= d + 1
  BY <1>4, <1>5
<1> HIDE DEF d
<1> QED
  BY <1>1, <1>6, <1>7 DEF D!OpenOf, D!SlotsOfDay

-----------------------------------------------------------------------------
(* Sums of shares *)

Traded == [i \in D!Orders |-> filled[i].qty]

LEMMA OrdersAre ==
    ASSUME D!TypeOK
    PROVE  /\ D!Orders = 1..Len(filled) /\ Len(filled) \in Nat /\ IsFiniteSet(D!Orders)
           /\ \A i \in D!Orders : filled[i] \in D!Order /\ Traded[i] \in Nat
           /\ DOMAIN standing = D!Orders /\ DOMAIN warrant = D!Orders
<1>1. filled \in Seq(D!Order) /\ Len(standing) = Len(filled) /\ Len(warrant) = Len(filled)
      /\ standing \in Seq(D!Standings) /\ \E W : warrant \in Seq(W)
  BY DEF D!TypeOK
<1>2. D!Orders = 1..Len(filled) /\ Len(filled) \in Nat
  BY <1>1 DEF D!Orders
<1>3. IsFiniteSet(D!Orders)
  BY <1>2, FS_Interval
<1>4. \A i \in D!Orders : filled[i] \in D!Order
  BY <1>1, <1>2
<1> QED
  BY <1>1, <1>2, <1>3, <1>4 DEF Traded, D!Order

LEMMA SharesSum ==
    ASSUME D!TypeOK, NEW S \in SUBSET D!Orders
    PROVE  /\ IsFiniteSet(S) /\ D!Shares(S) = SumOver(Traded, S)
           /\ SumOver(Traded, S) \in Nat
<1> DEFINE Step(g, A) == IF A = {} THEN 0 ELSE filled[Picked(A)].qty + g[A \ {Picked(A)}]
           iter == CHOOSE g : g = [A \in SUBSET S |-> Step(g, A)]
<1>1. IsFiniteSet(S) /\ \A i \in S : Traded[i] = filled[i].qty /\ Traded[i] \in Nat
  BY OrdersAre, FS_Subset DEF Traded
<1>2. \A A \in SUBSET S : A # {} => Traded[Picked(A)] = filled[Picked(A)].qty
  BY <1>1, PickedIsIn
<1>3. D!Shares(S) = iter[S]
  BY DEF D!Shares, D!MapThenSumSet, D!MapThenFoldSet, Picked
<1>4. PICK g : Sums(Traded, S, g)
  BY <1>1, SumsExist
<1>5. g = [A \in SUBSET S |-> Step(g, A)]
  BY <1>2, <1>4 DEF Sums
<1>6. iter = [A \in SUBSET S |-> Step(iter, A)]
  BY <1>5
<1> HIDE DEF iter
<1>7. Sums(Traded, S, iter)
  BY <1>2, <1>6 DEF Sums
<1>8. SumOver(Traded, S) \in Nat
  BY <1>1, SumIsNatural
<1> QED
  BY <1>1, <1>3, <1>7, <1>8, SumIs

\* Of two disjoint parts.
LEMMA SharesOfTwo ==
    ASSUME D!TypeOK, NEW R \in SUBSET D!Orders, NEW S \in SUBSET D!Orders, R \cap S = {}
    PROVE  SumOver(Traded, R \cup S) = SumOver(Traded, R) + SumOver(Traded, S)
<1>1. IsFiniteSet(R) /\ IsFiniteSet(S) /\ \A i \in R \cup S : Traded[i] \in Int
  BY SharesSum, OrdersAre
<1> QED
  BY <1>1, SumOfDisjoint

\* What the broker pays for some of its settlements.
LEMMA SettlementsSum ==
    ASSUME D!TypeOK, NEW S \in SUBSET D!Orders
    PROVE  D!MapThenSumSet(LAMBDA s : s.amount, {D!SettlementOf(i) : i \in S})
               = SumOver(Traded, S)
<1> DEFINE All == {D!SettlementOf(i) : i \in S}
           amounts == [s \in All |-> s.amount]
           Step(g, A) == IF A = {} THEN 0 ELSE Picked(A).amount + g[A \ {Picked(A)}]
           iter == CHOOSE g : g = [A \in SUBSET All |-> Step(g, A)]
<1>1. IsFiniteSet(S) /\ \A i \in S : Traded[i] = filled[i].qty /\ Traded[i] \in Nat
  BY OrdersAre, SharesSum DEF Traded
<1>2. IsFiniteSet(All)
  <2> DEFINE f == [i \in S |-> D!SettlementOf(i)]
  <2>1. f \in Surjection(S, All)
    BY DEF Surjection
  <2> HIDE DEF f, All
  <2> QED
    BY <1>1, <2>1, FS_Surjection
<1>3. \A i \in S : D!SettlementOf(i) \in All /\ amounts[D!SettlementOf(i)] = Traded[i]
  BY <1>1 DEF D!SettlementOf
<1>4. D!MapThenSumSet(LAMBDA s : s.amount, All) = iter[All]
  BY DEF D!MapThenSumSet, D!MapThenFoldSet, Picked
<1>5. \A A \in SUBSET All : A # {} => amounts[Picked(A)] = Picked(A).amount
  BY PickedIsIn
<1>6. \A s \in All : amounts[s] \in Int
  <2> SUFFICES ASSUME NEW i \in S PROVE amounts[D!SettlementOf(i)] \in Int
    OBVIOUS
  <2> QED
    BY <1>1, <1>3
<1>7. \A i, j \in S : D!SettlementOf(i) = D!SettlementOf(j) => i = j
  BY DEF D!SettlementOf
<1> HIDE DEF amounts
<1>8. PICK g : Sums(amounts, All, g)
  BY <1>2, SumsExist
<1>9. g = [A \in SUBSET All |-> Step(g, A)]
  BY <1>5, <1>8 DEF Sums
<1>10. iter = [A \in SUBSET All |-> Step(iter, A)]
  BY <1>9
<1> HIDE DEF iter
<1>11. Sums(amounts, All, iter)
  BY <1>5, <1>10 DEF Sums
<1>12. iter[All] = SumOver(amounts, All)
  BY <1>2, <1>11, SumIs
<1> DEFINE Good == {A \in SUBSET S :
                       SumOver(amounts, {D!SettlementOf(i) : i \in A}) = SumOver(Traded, A)}
<1>13. ASSUME NEW A \in SUBSET S, \A x \in A : A \ {x} \in Good
       PROVE  A \in Good
  <2>1. CASE A = {}
    <3>1. {D!SettlementOf(i) : i \in A} = {}
      BY <2>1
    <3> QED
      BY <2>1, <3>1, SumOfNone
  <2>2. CASE A # {}
    <3> DEFINE x == Picked(A)
               B == A \ {x}
               part == {D!SettlementOf(i) : i \in B}
    <3>1. x \in A /\ B \in Good /\ A = B \cup {x} /\ x \notin B
      BY <1>13, <2>2, PickedIsIn
    <3> HIDE DEF x
    <3>2. {D!SettlementOf(i) : i \in A} = part \cup {D!SettlementOf(x)}
      BY <3>1
    <3>3. D!SettlementOf(x) \notin part /\ part \subseteq All /\ D!SettlementOf(x) \in All
      BY <1>7, <3>1
    <3>4. IsFiniteSet(part) /\ IsFiniteSet(B)
      BY <1>1, <1>2, <3>3, FS_Subset
    <3>5. SumOver(Traded, A) = SumOver(Traded, B) + Traded[x]
      <4>1. x \notin B /\ IsFiniteSet(B) /\ \A i \in B \cup {x} : Traded[i] \in Int
        BY <1>1, <3>1, <3>4
      <4> HIDE DEF B
      <4>2. SumOver(Traded, B \cup {x}) = SumOver(Traded, B) + Traded[x]
        BY <4>1, SumMore
      <4> QED
        BY <3>1, <4>2
    <3>6. SumOver(amounts, {D!SettlementOf(i) : i \in A})
              = SumOver(amounts, part) + amounts[D!SettlementOf(x)]
      <4>1. \A s \in part \cup {D!SettlementOf(x)} : amounts[s] \in Int
        BY <1>6, <3>3
      <4> HIDE DEF B, part, All
      <4>2. SumOver(amounts, part \cup {D!SettlementOf(x)})
                = SumOver(amounts, part) + amounts[D!SettlementOf(x)]
        BY <3>3, <3>4, <4>1, SumMore
      <4> QED
        BY <3>2, <4>2
    <3>7. SumOver(amounts, part) = SumOver(Traded, B)
      BY <3>1
    <3> QED
      BY <1>3, <3>1, <3>5, <3>6, <3>7
  <2> QED
    BY <2>1, <2>2
<1>14. SUBSET S \subseteq Good
  <2> HIDE DEF Good
  <2> QED
    BY <1>1, <1>13, SubsetInduction
<1>15. S \in Good
  BY <1>14
<1> QED
  BY <1>4, <1>12, <1>15

-----------------------------------------------------------------------------
(* The lots *)

\* A set of executions that can be on the books together.
Sound(booked) ==
    /\ \A i \in D!Sales(booked) : warrant[i] \in D!Buys(booked)
    /\ \A l \in D!Buys(booked) : D!Left(booked, l) >= 0

\* What some sales leave of a lot.
SoldFrom(sales, l) == {i \in sales : warrant[i] = l}
LeftBy(sales, lots) == [l \in lots |-> Traded[l] - SumOver(Traded, SoldFrom(sales, l))]

LEMMA LeftIs ==
    ASSUME D!TypeOK, NEW booked \in SUBSET D!Orders, NEW l \in D!Orders
    PROVE  /\ D!Left(booked, l) = Traded[l] - SumOver(Traded, SoldFrom(D!Sales(booked), l))
           /\ D!Left(booked, l) \in Int
           /\ SumOver(Traded, SoldFrom(D!Sales(booked), l)) \in Nat
<1> DEFINE S == SoldFrom(D!Sales(booked), l)
<1>1. S \in SUBSET D!Orders
  BY DEF SoldFrom, D!Sales
<1>2. D!Left(booked, l) = filled[l].qty - D!Shares(S)
  BY DEF D!Left, SoldFrom
<1> HIDE DEF S
<1>3. D!Shares(S) = SumOver(Traded, S) /\ SumOver(Traded, S) \in Nat
  BY <1>1, SharesSum
<1>4. filled[l].qty = Traded[l] /\ Traded[l] \in Nat
  BY OrdersAre DEF Traded
<1>5. D!Left(booked, l) = Traded[l] - SumOver(Traded, S) /\ D!Left(booked, l) \in Int
  BY <1>2, <1>3, <1>4
<1> QED
  BY <1>3, <1>5 DEF S

\* What all sales leave of all lots.
LEMMA LeftTogether ==
    ASSUME D!TypeOK, NEW lots \in SUBSET D!Orders, NEW sales \in SUBSET D!Orders,
           \A i \in sales : warrant[i] \in lots
    PROVE  SumOver(LeftBy(sales, lots), lots) = SumOver(Traded, lots) - SumOver(Traded, sales)
<1> DEFINE Good == {A \in SUBSET sales : SumOver(LeftBy(A, lots), lots)
                                             = SumOver(Traded, lots) - SumOver(Traded, A)}
<1>1. /\ IsFiniteSet(lots) /\ IsFiniteSet(sales) /\ SumOver(Traded, lots) \in Nat
      /\ \A i \in D!Orders : Traded[i] \in Nat
  BY SharesSum, OrdersAre
<1>2. \A A \in SUBSET sales : \A l : /\ SoldFrom(A, l) \in SUBSET D!Orders
                                 /\ IsFiniteSet(SoldFrom(A, l))
                                 /\ SumOver(Traded, SoldFrom(A, l)) \in Nat
                                 /\ SumOver(Traded, A) \in Nat
  <2> SUFFICES ASSUME NEW A \in SUBSET sales, NEW l
               PROVE  /\ SoldFrom(A, l) \in SUBSET D!Orders
                      /\ IsFiniteSet(SoldFrom(A, l))
                      /\ SumOver(Traded, SoldFrom(A, l)) \in Nat
                      /\ SumOver(Traded, A) \in Nat
    OBVIOUS
  <2>1. A \in SUBSET D!Orders /\ SoldFrom(A, l) \in SUBSET D!Orders
    BY DEF SoldFrom
  <2> QED
    BY <2>1, SharesSum
<1>3. ASSUME NEW A \in SUBSET sales
      PROVE  \A l \in lots : /\ LeftBy(A, lots)[l] = Traded[l] - SumOver(Traded, SoldFrom(A, l))
                             /\ LeftBy(A, lots)[l] \in Int
  <2> SUFFICES ASSUME NEW l \in lots
               PROVE  /\ LeftBy(A, lots)[l] = Traded[l] - SumOver(Traded, SoldFrom(A, l))
                      /\ LeftBy(A, lots)[l] \in Int
    OBVIOUS
  <2>1. Traded[l] \in Nat /\ SumOver(Traded, SoldFrom(A, l)) \in Nat
    BY <1>1, <1>2
  <2>2. LeftBy(A, lots)[l] = Traded[l] - SumOver(Traded, SoldFrom(A, l))
    BY DEF LeftBy
  <2> QED
    BY <2>1, <2>2
<1>4. ASSUME NEW A \in SUBSET sales, \A x \in A : A \ {x} \in Good
      PROVE  A \in Good
  <2>1. CASE A = {}
    <3>1. \A l \in lots : LeftBy(A, lots)[l] = Traded[l]
      <4> SUFFICES ASSUME NEW l \in lots PROVE LeftBy(A, lots)[l] = Traded[l]
        OBVIOUS
      <4>1. SoldFrom(A, l) = {}
        BY <2>1 DEF SoldFrom
      <4>2. SumOver(Traded, SoldFrom(A, l)) = 0
        BY <4>1, SumOfNone
      <4>3. Traded[l] \in Nat
        BY <1>1
      <4> QED
        BY <1>3, <4>2, <4>3
    <3>2. SumOver(LeftBy(A, lots), lots) = SumOver(Traded, lots)
      BY <1>1, <3>1, SumOfEquals
    <3>3. SumOver(Traded, A) = 0
      BY <2>1, SumOfNone
    <3> QED
      BY <1>1, <3>2, <3>3
  <2>2. CASE A # {}
    <3> DEFINE x == Picked(A)
               B == A \ {x}
               F == LeftBy(B, lots)
               G == LeftBy(A, lots)
               y == warrant[x]
    <3>1. x \in A /\ B \in Good /\ A = B \cup {x} /\ x \notin B /\ y \in lots
      BY <1>4, <2>2, PickedIsIn
    <3> HIDE DEF x
    <3>2. \A l \in lots : /\ F[l] = Traded[l] - SumOver(Traded, SoldFrom(B, l)) /\ F[l] \in Int
                          /\ G[l] = Traded[l] - SumOver(Traded, SoldFrom(A, l)) /\ G[l] \in Int
      BY <1>3, <3>1
    <3>3. \A l \in lots \ {y} : SoldFrom(A, l) = SoldFrom(B, l)
      BY <3>1 DEF SoldFrom
    <3>4. SoldFrom(A, y) = SoldFrom(B, y) \cup {x} /\ x \notin SoldFrom(B, y)
      BY <3>1 DEF SoldFrom
    <3>5. Traded[x] \in Nat /\ B \in SUBSET sales /\ IsFiniteSet(B)
      BY <1>1, <3>1, FS_Subset
    <3>6. SumOver(Traded, SoldFrom(A, y)) = SumOver(Traded, SoldFrom(B, y)) + Traded[x]
      <4>1. /\ IsFiniteSet(SoldFrom(B, y))
            /\ \A i \in SoldFrom(B, y) \cup {x} : Traded[i] \in Int
        BY <1>1, <1>2, <3>1, <3>5
      <4> HIDE DEF B, y
      <4>2. SumOver(Traded, SoldFrom(B, y) \cup {x}) = SumOver(Traded, SoldFrom(B, y)) + Traded[x]
        BY <3>4, <4>1, SumMore
      <4> QED
        BY <3>4, <4>2
    <3>7. SumOver(Traded, A) = SumOver(Traded, B) + Traded[x]
      <4>1. \A i \in B \cup {x} : Traded[i] \in Int
        BY <1>1, <3>1
      <4> HIDE DEF B
      <4> QED
        BY <3>1, <3>5, <4>1, SumMore
    <3>8. SumOver(F, lots) = SumOver(Traded, lots) - SumOver(Traded, B)
      BY <3>1
    <3>9. SumOver(Traded, SoldFrom(B, y)) \in Nat /\ SumOver(Traded, B) \in Nat
      BY <1>2, <3>5
    <3>10. Traded[y] \in Nat
      BY <1>1, <3>1
    <3>11. SumOver(G, lots) = SumOver(F, lots) - F[y] + G[y]
      <4>1. \A l \in lots \ {y} : G[l] = F[l]
        BY <3>2, <3>3
      <4> HIDE DEF F, G, y
      <4> QED
        BY <1>1, <3>1, <3>2, <4>1, SumChanged
    <3>12. G[y] = F[y] - Traded[x] /\ F[y] \in Int
      <4> HIDE DEF F, G, B
      <4> QED
        BY <3>1, <3>2, <3>5, <3>6, <3>9, <3>10
    <3> HIDE DEF F, B, y
    <3>13. SumOver(G, lots) = SumOver(Traded, lots) - SumOver(Traded, A)
      <4> HIDE DEF G
      <4> QED
        BY <1>1, <3>5, <3>7, <3>8, <3>9, <3>11, <3>12
    <3> QED
      BY <3>13
  <2> QED
    BY <2>1, <2>2
<1>5. SUBSET sales \subseteq Good
  <2> HIDE DEF Good
  <2> QED
    BY <1>1, <1>4, SubsetInduction
<1> QED
  BY <1>5

\* All that is held of sound books is what was bought less what was sold.
LEMMA HeldIs ==
    ASSUME D!TypeOK, NEW booked \in SUBSET D!Orders, Sound(booked)
    PROVE  /\ D!Held(booked) = SumOver(Traded, D!Buys(booked)) - SumOver(Traded, D!Sales(booked))
           /\ D!Held(booked) \in Nat
<1> DEFINE lots == D!Buys(booked)
           sales == D!Sales(booked)
           open == D!OpenLots(booked)
           lefts == LeftBy(sales, lots)
           Step(g, A) == IF A = {} THEN 0
                         ELSE D!Left(booked, Picked(A)) + g[A \ {Picked(A)}]
           iter == CHOOSE g : g = [A \in SUBSET open |-> Step(g, A)]
<1>1. /\ lots \in SUBSET D!Orders /\ sales \in SUBSET D!Orders /\ open \in SUBSET lots
      /\ IsFiniteSet(lots)
  <2>1. lots \in SUBSET D!Orders /\ sales \in SUBSET D!Orders
    BY DEF D!Buys, D!Sales
  <2> QED
    BY <2>1, SharesSum DEF D!OpenLots
<1>2. IsFiniteSet(open) /\ IsFiniteSet(lots \ open)
  BY <1>1, FS_Subset
<1>3. ASSUME NEW l \in lots
      PROVE  /\ lefts[l] = D!Left(booked, l) /\ lefts[l] \in Nat
             /\ l \notin open => lefts[l] = 0
  <2>1. D!Left(booked, l) >= 0
    BY DEF Sound
  <2>2. lefts[l] = D!Left(booked, l) /\ D!Left(booked, l) \in Int
    BY <1>1, LeftIs DEF LeftBy
  <2>3. l \notin open => ~(D!Left(booked, l) > 0)
    BY DEF D!OpenLots
  <2> HIDE DEF lefts
  <2> QED
    BY <2>1, <2>2, <2>3
<1>4. D!Held(booked) = iter[open]
  BY DEF D!Held, D!MapThenSumSet, D!MapThenFoldSet, Picked
<1>5. \A A \in SUBSET open : A # {} => lefts[Picked(A)] = D!Left(booked, Picked(A))
  BY <1>1, <1>3, PickedIsIn
<1> HIDE DEF lefts, open
<1>6. PICK g : Sums(lefts, open, g)
  BY <1>2, SumsExist
<1>7. g = [A \in SUBSET open |-> Step(g, A)]
  BY <1>5, <1>6 DEF Sums
<1>8. iter = [A \in SUBSET open |-> Step(iter, A)]
  BY <1>7
<1> HIDE DEF iter
<1>9. Sums(lefts, open, iter)
  BY <1>5, <1>8 DEF Sums
<1>10. D!Held(booked) = SumOver(lefts, open)
  BY <1>2, <1>4, <1>9, SumIs
<1>11. SumOver(lefts, open) \in Nat
  BY <1>1, <1>2, <1>3, SumIsNatural
<1>12. SumOver(lefts, lots \ open) = 0
  <2>1. \A l \in lots \ open : lefts[l] \in Int /\ lefts[l] = lefts[l] * 0
    BY <1>3
  <2>2. SumOver(lefts, lots \ open) = SumOver(lefts, lots \ open) * 0
    BY <1>2, <2>1, SumTimes
  <2>3. SumOver(lefts, lots \ open) \in Int
    BY <1>2, <2>1, SumIsAnInteger
  <2> QED
    BY <2>2, <2>3
<1>13. SumOver(lefts, lots) = SumOver(lefts, open) + SumOver(lefts, lots \ open)
  <2>1. open \cap (lots \ open) = {} /\ open \cup (lots \ open) = lots
    BY <1>1
  <2>2. \A l \in open \cup (lots \ open) : lefts[l] \in Int
    BY <1>3, <2>1
  <2>3. SumOver(lefts, open \cup (lots \ open))
            = SumOver(lefts, open) + SumOver(lefts, lots \ open)
    BY <1>2, <2>1, <2>2, SumOfDisjoint
  <2> QED
    BY <2>1, <2>3
<1>14. SumOver(lefts, lots) = SumOver(Traded, lots) - SumOver(Traded, sales)
  <2>1. \A i \in sales : warrant[i] \in lots
    BY DEF Sound
  <2> HIDE DEF lots, sales
  <2> QED
    BY <1>1, <2>1, LeftTogether DEF lefts
<1> QED
  BY <1>10, <1>11, <1>12, <1>13, <1>14

-----------------------------------------------------------------------------
(* A cycle books what it reaches *)

LEMMA LatestOf ==
    ASSUME NEW N \in Nat, NEW S \in SUBSET 1..N, S # {}
    PROVE  \E i \in S : \A j \in S : j <= i
<1> DEFINE above == {n \in Nat : \A j \in S : j <= n}
<1>1. N \in above
  OBVIOUS
<1>2. PICK i \in above : \A n \in above : i <= n
  <2>1. above \in SUBSET Nat /\ above # {}
    BY <1>1
  <2> HIDE DEF above
  <2> QED
    BY <2>1, LeastThereIs
<1>3. ASSUME i \notin S PROVE FALSE
  <2>1. \A j \in S : j <= i - 1
    BY <1>2, <1>3
  <2>2. i - 1 \in Nat
    <3>1. PICK j \in S : TRUE
      OBVIOUS
    <3>2. j \in Nat /\ j >= 1 /\ j <= i - 1 /\ i \in Nat
      BY <1>2, <2>1, <3>1
    <3> QED
      BY <3>2
  <2>3. i - 1 \in above
    BY <2>1, <2>2
  <2> QED
    BY <1>2, <2>3
<1> QED
  BY <1>2, <1>3

Newly == {i \in D!In(standing, "admitted") : i \in D!Reached}
AtFirst(i) == D!In(standing, "booked") \cup {j \in D!In(standing, "admitted") : j < i}

LEMMA SyncedIs ==
    ASSUME D!TypeOK
    PROVE  /\ D!Synced \in [D!Orders -> D!Standings]
           /\ D!In(D!Synced, "booked") = D!In(standing, "booked") \cup Newly
<1>1. /\ D!Synced = [i \in D!Orders |->
              CASE i \in D!Reached /\ standing[i] = "unseen" -> "pending"
                [] i \in D!Reached /\ standing[i] = "admitted" -> "booked"
                [] OTHER -> standing[i]]
      /\ \A i \in D!Orders : standing[i] \in D!Standings
  BY OrdersAre DEF D!Synced, D!TypeOK
<1>2. \A i \in D!Orders : D!Synced[i] =
          IF i \in D!Reached /\ standing[i] = "unseen" THEN "pending"
          ELSE IF i \in D!Reached /\ standing[i] = "admitted" THEN "booked" ELSE standing[i]
  <2> SUFFICES ASSUME NEW i \in D!Orders
               PROVE  D!Synced[i] =
                  IF i \in D!Reached /\ standing[i] = "unseen" THEN "pending"
                  ELSE IF i \in D!Reached /\ standing[i] = "admitted" THEN "booked" ELSE standing[i]
    OBVIOUS
  <2>1. D!Synced[i] = CASE i \in D!Reached /\ standing[i] = "unseen" -> "pending"
                        [] i \in D!Reached /\ standing[i] = "admitted" -> "booked"
                        [] OTHER -> standing[i]
    BY <1>1
  <2>2. CASE i \in D!Reached /\ standing[i] = "unseen"
    BY <2>1, <2>2
  <2>3. CASE i \in D!Reached /\ standing[i] = "admitted"
    BY <2>1, <2>3
  <2>4. CASE ~(i \in D!Reached /\ standing[i] = "unseen")
             /\ ~(i \in D!Reached /\ standing[i] = "admitted")
    BY <2>1, <2>4
  <2> QED
    BY <2>2, <2>3, <2>4
<1>3. DOMAIN D!Synced = D!Orders
  BY <1>1
<1>4. ASSUME NEW i \in D!Orders
      PROVE  D!Synced[i] = "booked" <=> \/ standing[i] = "booked"
                                        \/ i \in D!Reached /\ standing[i] = "admitted"
  BY <1>2
<1>5. D!In(D!Synced, "booked") = D!In(standing, "booked") \cup Newly
  BY <1>4 DEF D!In, Newly
<1>6. \A i \in D!Orders : D!Synced[i] \in D!Standings
  BY <1>1, <1>2 DEF D!Standings
<1>7. D!Synced \in [D!Orders -> D!Standings]
  <2>1. D!Synced = [i \in D!Orders |-> D!Synced[i]]
    BY <1>1
  <2> QED
    BY <1>6, <2>1
<1> QED
  BY <1>5, <1>7

\* The latest of the sales newly booked against a lot was checked against all others.
LEMMA SyncIsSound ==
    ASSUME D!TypeOK, Sound(D!In(standing, "booked"))
    PROVE  Sound(D!In(D!Synced, "booked"))
<1> DEFINE before == D!In(standing, "booked")
           after == before \cup Newly
<1>0. /\ D!In(D!Synced, "booked") = after
      /\ before \in SUBSET D!Orders /\ Newly \in SUBSET D!Orders
      /\ before \cap Newly = {} /\ D!Reached \in SUBSET D!Orders
  BY SyncedIs DEF D!In, Newly, D!Reached
<1>1. ASSUME NEW i \in Newly
      PROVE  /\ D!Recordable(AtFirst(i), i) /\ AtFirst(i) \subseteq after /\ i \notin AtFirst(i)
             /\ D!In(standing, "admitted") \subseteq D!Orders
             /\ \A j \in after : j <= i => j \in AtFirst(i) \cup {i}
  <2>1. i \in D!In(standing, "admitted") /\ \A j \in D!Unrecordable : i < j
    BY DEF Newly, D!Reached
  <2>2. /\ D!Orders \subseteq Nat /\ D!Unrecordable \subseteq D!Orders /\ i \in D!Orders
        /\ D!In(standing, "admitted") \subseteq D!Orders
    BY <1>0, OrdersAre DEF D!Unrecordable, D!In
  <2>3. i \notin D!Unrecordable
    BY <2>1, <2>2
  <2>4. D!Recordable(AtFirst(i), i)
    BY <2>1, <2>3 DEF D!Unrecordable, AtFirst
  <2>5. ASSUME NEW j \in D!In(standing, "admitted"), j < i
        PROVE  j \in Newly
    <3>1. \A k \in D!Unrecordable : j < k
      BY <2>1, <2>2, <2>5
    <3> QED
      BY <2>2, <3>1 DEF Newly, D!Reached
  <2>6. AtFirst(i) \subseteq after
    BY <2>5 DEF AtFirst
  <2>7. i \notin AtFirst(i)
    BY <2>1, <2>2 DEF AtFirst, D!In
  <2>8. ASSUME NEW j \in after, j <= i PROVE j \in AtFirst(i) \cup {i}
    <3>1. CASE j \in before
      BY <3>1 DEF AtFirst
    <3>2. CASE j \in Newly /\ j # i
      BY <2>2, <2>8, <3>2, <1>0 DEF AtFirst, Newly
    <3> QED
      BY <2>8, <3>1, <3>2
  <2> QED
    BY <2>2, <2>4, <2>6, <2>7, <2>8
<1>2. \A S : \A i \in S : i \in D!Buys(S) <=> filled[i].side = "BUY"
  BY DEF D!Buys
<1>3. \A S : /\ D!Buys(S) \subseteq S /\ D!Sales(S) \subseteq S
             /\ \A i \in S : i \in D!Sales(S) <=> filled[i].side # "BUY"
  BY DEF D!Buys, D!Sales
<1>4. \A S : \A R : S \subseteq R => D!Buys(S) \subseteq D!Buys(R)
  BY DEF D!Buys
<1>5. ASSUME NEW i \in D!Sales(after) PROVE warrant[i] \in D!Buys(after)
  <2>1. CASE i \in before
    <3>1. i \in D!Sales(before)
      BY <1>3, <2>1
    <3>2. warrant[i] \in D!Buys(before)
      BY <3>1 DEF Sound
    <3> QED
      BY <1>4, <3>2
  <2>2. CASE i \in Newly
    <3>1. warrant[i] \in D!Buys(AtFirst(i))
      BY <1>1, <1>3, <2>2 DEF D!Recordable
    <3> QED
      BY <1>1, <1>4, <2>2, <3>1
  <2> QED
    BY <1>3, <2>1, <2>2
<1>6. ASSUME NEW l \in D!Buys(after) PROVE D!Left(after, l) >= 0
  <2> DEFINE new == SoldFrom(D!Sales(Newly), l)
  <2>1. after \in SUBSET D!Orders /\ l \in D!Orders /\ new \in SUBSET D!Orders
    BY <1>0, <1>3 DEF SoldFrom
  <2>2. D!Left(after, l) = Traded[l] - SumOver(Traded, SoldFrom(D!Sales(after), l))
        /\ D!Left(after, l) \in Int /\ Traded[l] \in Nat
    BY <2>1, LeftIs, OrdersAre
  <2>3. CASE new = {} /\ l \in before
    <3>1. SoldFrom(D!Sales(after), l) = SoldFrom(D!Sales(before), l)
      BY <2>3 DEF SoldFrom, D!Sales, D!Buys
    <3>2. D!Left(before, l) = Traded[l] - SumOver(Traded, SoldFrom(D!Sales(before), l))
      BY <1>0, <2>1, LeftIs
    <3>3. l \in D!Buys(before)
      BY <1>2, <1>3, <2>3
    <3>4. D!Left(before, l) >= 0
      BY <3>3 DEF Sound
    <3> QED
      BY <2>2, <3>1, <3>2, <3>4
  <2>4. CASE new = {} /\ l \notin before
    <3>1. SoldFrom(D!Sales(after), l) = {}
      <4> SUFFICES ASSUME NEW i \in D!Sales(after), warrant[i] = l PROVE FALSE
        BY DEF SoldFrom
      <4>1. i \notin Newly
        BY <1>3, <2>4 DEF SoldFrom
      <4>2. i \in D!Sales(before)
        BY <1>3, <4>1
      <4>3. warrant[i] \in before
        BY <1>3, <4>2 DEF Sound
      <4> QED
        BY <2>4, <4>3
    <3>2. SumOver(Traded, SoldFrom(D!Sales(after), l)) = 0
      BY <3>1, SumOfNone
    <3> QED
      BY <2>2, <3>2
  <2>5. CASE new # {}
    <3>1. PICK i \in new : \A j \in new : j <= i
      <4>1. new \in SUBSET 1..Len(filled) /\ Len(filled) \in Nat
        BY <2>1, OrdersAre
      <4> HIDE DEF new
      <4> QED
        BY <2>5, <4>1, LatestOf
    <3>2. i \in Newly /\ i \in D!Sales(Newly) /\ warrant[i] = l /\ filled[i].side # "BUY"
      BY <1>3, <3>1 DEF SoldFrom
    <3> DEFINE first == AtFirst(i)
               earlier == SoldFrom(D!Sales(first), l)
    <3>3. /\ D!Recordable(first, i) /\ first \subseteq after /\ i \notin first
          /\ \A j \in after : j <= i => j \in first \cup {i}
      BY <1>1, <3>2
    <3> HIDE DEF first
    <3>4. filled[i].qty <= D!Left(first, l) /\ Traded[i] = filled[i].qty /\ Traded[i] \in Nat
      BY <1>0, <3>2, <3>3, OrdersAre DEF D!Recordable, Traded
    <3>5. first \in SUBSET D!Orders
      BY <2>1, <3>3
    <3>6. D!Left(first, l) = Traded[l] - SumOver(Traded, earlier)
          /\ SumOver(Traded, earlier) \in Nat
      BY <2>1, <3>5, LeftIs
    <3>7. SoldFrom(D!Sales(after), l) = earlier \cup {i} /\ i \notin earlier
      <4>1. ASSUME NEW j \in D!Sales(after), warrant[j] = l PROVE j \in earlier \cup {i}
        <5>1. CASE j \in Newly
          <6>1. j \in new
            BY <1>3, <4>1, <5>1 DEF SoldFrom
          <6>2. j \in first \cup {i}
            BY <1>3, <3>1, <3>3, <6>1
          <6> QED
            BY <1>3, <4>1, <6>2 DEF SoldFrom
        <5>2. CASE j \in before
          <6>1. j \in first
            BY <5>2 DEF first, AtFirst
          <6> QED
            BY <1>3, <4>1, <6>1 DEF SoldFrom
        <5> QED
          BY <1>3, <5>1, <5>2
      <4>2. earlier \subseteq SoldFrom(D!Sales(after), l) /\ i \notin earlier
        BY <1>3, <3>3 DEF SoldFrom
      <4>3. i \in SoldFrom(D!Sales(after), l)
        BY <1>3, <3>2 DEF SoldFrom
      <4>4. SoldFrom(D!Sales(after), l) \subseteq earlier \cup {i}
        BY <4>1 DEF SoldFrom
      <4> QED
        BY <4>2, <4>3, <4>4
    <3>8. SumOver(Traded, SoldFrom(D!Sales(after), l)) = SumOver(Traded, earlier) + Traded[i]
      <4>1. earlier \in SUBSET D!Orders /\ i \in D!Orders
        BY <1>0, <1>3, <3>2, <3>5 DEF SoldFrom
      <4>2. IsFiniteSet(earlier) /\ \A j \in earlier \cup {i} : Traded[j] \in Int
        BY <4>1, SharesSum, OrdersAre
      <4> HIDE DEF earlier
      <4>3. SumOver(Traded, earlier \cup {i}) = SumOver(Traded, earlier) + Traded[i]
        BY <3>7, <4>2, SumMore
      <4> QED
        BY <3>7, <4>3
    <3> HIDE DEF earlier
    <3> QED
      BY <2>2, <3>4, <3>6, <3>8
  <2> QED
    BY <2>3, <2>4, <2>5
<1> HIDE DEF after
<1> QED
  BY <1>0, <1>5, <1>6 DEF Sound

-----------------------------------------------------------------------------
(* A proposal is a proposal *)

\* The gate these orders pass is the one the books were confined by above.
LEMMA SameGate ==
    ASSUME NEW o, NEW c
    PROVE  /\ D!Authorized(o, c) = Authorized(o, c)
           /\ D!Signed(o, c) /\ o.side \in {"BUY", "CLOSE"} => Authorized(o, c) # 0
<1>1. \A book, S : D!Total(book, S) = Total(book, S)
  BY DEF D!Total, Total, D!MapThenSumSet, MapThenSumSet, D!MapThenFoldSet, MapThenFoldSet
<1>2. \A a, b : D!Larger(a, b) = Larger(a, b) /\ D!Smaller(a, b) = Smaller(a, b)
               /\ D!Share(a, b) = Share(a, b)
  BY DEF D!Larger, Larger, D!Smaller, Smaller, D!Share, Share
<1>3. \A book, S, limit : D!Fitted(book, S, limit) = Fitted(book, S, limit)
  BY <1>1 DEF D!Fitted, Fitted, D!Scaled, Scaled
<1>4. \A target, p, sector :
          D!RiskConstrain(target, p, sector) = RiskConstrain(target, p, sector)
  <2>1. \A book, p : D!Clipped(book, p) = Clipped(book, p)
    BY <1>2 DEF D!Clipped, Clipped, D!Permits, Permits
  <2>2. \A book, p, sector : D!SectorFitted(book, p, sector) = SectorFitted(book, p, sector)
    BY <1>2, <1>3 DEF D!SectorFitted, SectorFitted, D!Members, Members
  <2>3. \A p : D!InvestableCash(p) = InvestableCash(p)
    BY <1>2 DEF D!InvestableCash, InvestableCash, D!RequiredReserve, RequiredReserve
  <2> QED
    BY <1>3, <2>1, <2>2, <2>3 DEF D!RiskConstrain, RiskConstrain
<1>5. D!Authorized(o, c) = Authorized(o, c)
  <2>1. D!OneSector = OneSector
    BY DEF D!OneSector, OneSector
  <2> QED
    BY <1>2, <1>4, <2>1 DEF D!Authorized, Authorized, D!AuthorizedBuy, AuthorizedBuy,
                            D!AuthorizedClose, AuthorizedClose
<1>6. ASSUME D!Signed(o, c), o.side \in {"BUY", "CLOSE"} PROVE D!Authorized(o, c) # 0
  BY <1>6 DEF D!Signed, D!RejectingGate
<1> QED
  BY <1>5, <1>6

LEMMA SameSizes ==
    /\ \A S : D!IsFiniteSet(S) <=> IsFiniteSet(S)
    /\ \A S : D!Cardinality(S) = Cardinality(S)
BY DEF D!IsFiniteSet, IsFiniteSet, D!Cardinality, Cardinality

LEMMA EarmarksAre ==
    ASSUME D!TypeOK
    PROVE  D!Earmarks \in Nat
<1> DEFINE Mark(p) == IF p.side = "BUY" THEN p.qty ELSE 0
           R == D!Unanswered
           marks == [p \in R |-> Mark(p)]
           Step(g, A) == IF A = {} THEN 0 ELSE Mark(Picked(A)) + g[A \ {Picked(A)}]
           iter == CHOOSE g : g = [A \in SUBSET R |-> Step(g, A)]
<1>1. IsFiniteSet(R) /\ \A p \in R : p \in D!Proposal
  BY SameSizes, FS_Subset DEF D!Unanswered, D!TypeOK
<1>2. \A p \in R : marks[p] = Mark(p) /\ marks[p] \in Nat
  BY <1>1 DEF D!Proposal
<1>3. D!Earmarks = iter[R]
  BY DEF D!Earmarks, D!MapThenSumSet, D!MapThenFoldSet, Picked
<1> HIDE DEF R, marks
<1>4. \A A \in SUBSET R : A # {} => marks[Picked(A)] = Mark(Picked(A))
  BY <1>2, PickedIsIn
<1>5. PICK g : Sums(marks, R, g)
  BY <1>1, SumsExist
<1>6. g = [A \in SUBSET R |-> Step(g, A)]
  BY <1>4, <1>5 DEF Sums
<1>7. iter = [A \in SUBSET R |-> Step(iter, A)]
  BY <1>6
<1> HIDE DEF iter
<1>8. Sums(marks, R, iter)
  BY <1>4, <1>7 DEF Sums
<1>9. iter[R] = SumOver(marks, R)
  BY <1>1, <1>8, SumIs
<1>10. SumOver(marks, R) \in Nat
  BY <1>1, <1>2, SumIsNatural
<1> QED
  BY <1>3, <1>9, <1>10

\* There is a number left for one more.
LEMMA NumberLeft ==
    ASSUME TradingConstants, D!TypeOK, Cardinality(proposals) < MaxProposals
    PROVE  \E n \in 1..MaxProposals : \A p \in proposals : p.id # n
<1> DEFINE used == {p.id : p \in proposals}
           f == [p \in proposals |-> p.id]
<1>1. IsFiniteSet(proposals) /\ MaxProposals \in Nat
  BY SameSizes DEF D!TypeOK, TradingConstants
<1>2. f \in Surjection(proposals, used)
  BY DEF Surjection
<1>3. IsFiniteSet(used) /\ Cardinality(used) <= Cardinality(proposals)
  <2> HIDE DEF f, used
  <2> QED
    BY <1>1, <1>2, FS_Surjection
<1>4. IsFiniteSet(1..MaxProposals) /\ Cardinality(1..MaxProposals) = MaxProposals
  BY <1>1, FS_Interval
<1>5. ASSUME 1..MaxProposals \subseteq used PROVE FALSE
  <2>1. Cardinality(1..MaxProposals) <= Cardinality(used)
    <3> HIDE DEF used
    <3> QED
      BY <1>3, <1>5, FS_Subset
  <2>2. Cardinality(proposals) \in Nat /\ Cardinality(used) \in Nat
    BY <1>1, <1>3, FS_CardinalityType
  <2> HIDE DEF used
  <2> QED
    BY <1>1, <1>3, <1>4, <2>1, <2>2
<1> QED
  BY <1>5

LEMMA ProposalIs ==
    ASSUME TradingConstants, D!TypeOK, NEW booked \in SUBSET D!Orders, Sound(booked),
           Cardinality(proposals) < MaxProposals, D!Proposable(booked)
    PROVE  D!ProposalOf(booked) \in D!Proposal
<1> DEFINE o == D!Wanted(booked)
           c == D!Context(booked)
<1>1. /\ account.settled \in Nat /\ account.unsettled \in Nat /\ account.held \in Nat
      /\ now \in Nat /\ Len(filled) \in Nat
  BY TradingDays, OrdersAre DEF D!TypeOK, D!SlotsOfDay
<1>2. D!NetValue \in Nat
  BY <1>1 DEF D!NetValue
<1>3. D!Symbol \in Symbols /\ Symbols = {D!Symbol}
  BY TradingDays DEF D!Symbol
<1>4. o.symbol \in Symbols /\ o.side \in {"BUY", "CLOSE"} /\ o.qty \in Nat
  <2>1. D!Held(booked) \in Nat
    BY HeldIs
  <2>2. D!Share(MaxPositionPct, D!NetValue) \in Nat
    BY <1>2, LimitsAreShares DEF D!Share, Share
  <2> QED
    BY <1>3, <2>1, <2>2 DEF D!Wanted
<1>5. c.book \in Books /\ c.portfolio.nlv \in Nat /\ c.portfolio.cash \in Int
      /\ c.portfolio.pending \in Int
  <2>1. c.book = [s \in {D!Symbol} |-> account.held] /\ c.portfolio = D!Portfolio
    BY DEF D!Context
  <2>2. c.book \in Books
    BY <1>1, <1>3, <2>1 DEF Books
  <2>3. /\ D!Portfolio.nlv = D!NetValue /\ D!Portfolio.cash = account.settled
        /\ D!Portfolio.pending = D!Earmarks
    BY DEF D!Portfolio
  <2> HIDE DEF c
  <2> QED
    BY <1>1, <1>2, <2>1, <2>2, <2>3, EarmarksAre
<1>6. D!Signed(o, c)
  BY DEF D!Proposable
<1> HIDE DEF o, c
<1>7. D!Authorized(o, c) \in Nat \ {0}
  <2>1. Authorized(o, c) \in Nat
    BY <1>4, <1>5, AuthorizedFacts
  <2>2. D!Authorized(o, c) = Authorized(o, c) /\ Authorized(o, c) # 0
    BY <1>4, <1>6, SameGate
  <2> QED
    BY <2>1, <2>2
<1>8. D!ProposalOf(booked) =
          [id |-> CHOOSE n \in 1..MaxProposals : \A p \in proposals : p.id # n,
           side |-> o.side, qty |-> D!Authorized(o, c), at |-> now,
           seen |-> Len(filled), approved |-> FALSE]
  BY DEF D!ProposalOf, o, c
<1>9. (CHOOSE n \in 1..MaxProposals : \A p \in proposals : p.id # n) \in Int
  <2>1. (CHOOSE n \in 1..MaxProposals : \A p \in proposals : p.id # n) \in 1..MaxProposals
    BY NumberLeft
  <2> QED
    BY <2>1 DEF TradingConstants
<1> QED
  BY <1>1, <1>4, <1>7, <1>8, <1>9 DEF D!Proposal

-----------------------------------------------------------------------------
(***************************************************************************)
(* The figures as sums of what the orders are of, which is how the steps   *)
(* are followed.                                                           *)
(***************************************************************************)
Open == D!Sales(D!Orders) \ D!Settled(now)
Booked == D!In(standing, "booked")

Stands ==
    /\ account.held = SumOver(Traded, D!Buys(D!Orders)) - SumOver(Traded, D!Sales(D!Orders))
    /\ account.settled = Deposit - SumOver(Traded, D!Buys(D!Orders))
                         + SumOver(Traded, D!Settled(now))
    /\ account.unsettled = SumOver(Traded, Open)
    /\ settlements = {D!SettlementOf(i) : i \in Open}
LotsStand ==
    /\ \A i \in D!Sales(Booked) : warrant[i] \in D!Buys(Booked)
    /\ \A l \in D!Buys(Booked) :
          SumOver(Traded, SoldFrom(D!Sales(Booked), l)) <= Traded[l]

LEMMA PartsAre ==
    ASSUME D!TypeOK
    PROVE  /\ D!Buys(D!Orders) \in SUBSET D!Orders /\ D!Sales(D!Orders) \in SUBSET D!Orders
           /\ D!Buys(D!Orders) \cup D!Sales(D!Orders) = D!Orders
           /\ \A t : D!Settled(t) \in SUBSET D!Sales(D!Orders)
           /\ Open \in SUBSET D!Orders /\ Booked \in SUBSET D!Orders
           /\ \A S \in SUBSET D!Orders :
                 D!Buys(S) \in SUBSET D!Orders /\ D!Sales(S) \in SUBSET D!Orders
BY DEF D!Buys, D!Sales, D!Settled, Open, Booked, D!In

LEMMA SoundIs ==
    ASSUME D!TypeOK, NEW booked \in SUBSET D!Orders
    PROVE  Sound(booked) <=>
              /\ \A i \in D!Sales(booked) : warrant[i] \in D!Buys(booked)
              /\ \A l \in D!Buys(booked) :
                    SumOver(Traded, SoldFrom(D!Sales(booked), l)) <= Traded[l]
<1>1. ASSUME NEW l \in D!Buys(booked)
      PROVE  D!Left(booked, l) >= 0 <=>
                SumOver(Traded, SoldFrom(D!Sales(booked), l)) <= Traded[l]
  <2>1. l \in D!Orders
    BY DEF D!Buys
  <2>2. /\ D!Left(booked, l) = Traded[l] - SumOver(Traded, SoldFrom(D!Sales(booked), l))
        /\ SumOver(Traded, SoldFrom(D!Sales(booked), l)) \in Nat
        /\ Traded[l] \in Nat
    BY <2>1, LeftIs, OrdersAre
  <2> QED
    BY <2>2
<1> QED
  BY <1>1 DEF Sound

LEMMA FiguresAre ==
    D!TypeOK => (D!AccountStands <=> Stands) /\ (D!BooksAreSound <=> LotsStand)
<1> SUFFICES ASSUME D!TypeOK
             PROVE  (D!AccountStands <=> Stands) /\ (D!BooksAreSound <=> LotsStand)
  OBVIOUS
<1>1. D!BooksAreSound <=> Sound(Booked)
  BY DEF D!BooksAreSound, Sound, Booked
<1>2. Sound(Booked) <=> LotsStand
  BY PartsAre, SoundIs DEF LotsStand
<1>3. /\ D!Shares(D!Buys(D!Orders)) = SumOver(Traded, D!Buys(D!Orders))
      /\ D!Shares(D!Sales(D!Orders)) = SumOver(Traded, D!Sales(D!Orders))
      /\ D!Shares(D!Settled(now)) = SumOver(Traded, D!Settled(now))
      /\ D!Shares(Open) = SumOver(Traded, Open)
  BY PartsAre, SharesSum
<1>4. D!AccountStands <=> Stands
  BY <1>3 DEF D!AccountStands, Stands, Open
<1> QED
  BY <1>1, <1>2, <1>4

LEMMA FiguresAreNext ==
    (D!TypeOK => (D!AccountStands <=> Stands) /\ (D!BooksAreSound <=> LotsStand))'
BY FiguresAre, PTL

LEMMA InitBooks == TradingConstants /\ D!Init => D!IInv
<1> SUFFICES ASSUME TradingConstants, D!Init PROVE D!IInv
  OBVIOUS
<1>1. D!Orders = {} /\ filled = <<>>
  BY DEF D!Init, D!Orders
<1>2. D!TypeOK
  <2>1. now \in (StartDay * D!SlotsOfDay)..((EndDay + 1) * D!SlotsOfDay - 1) /\ now \in Nat
    BY TradingDays DEF D!Init, D!SlotsOfDay, TradingConstants
  <2>2. D!IsFiniteSet(proposals) /\ proposals \subseteq D!Proposal
    BY SameSizes, FS_EmptySet DEF D!Init
  <2>3. account \in [settled : Nat, unsettled : Nat, held : Nat]
    BY TradingDays DEF D!Init
  <2>4. passed \in Int /\ passed <= now /\ halted \in BOOLEAN
    <3>1. passed = -1 /\ halted = FALSE
      BY DEF D!Init
    <3>2. now \in Nat
      BY <2>1
    <3>3. passed \in Int /\ passed <= now
      BY <3>1, <3>2
    <3> QED
      BY <3>1, <3>3
  <2>5. filled = <<>> /\ standing = <<>> /\ warrant = <<>>
    BY DEF D!Init
  <2> QED
    BY <2>1, <2>2, <2>3, <2>4, <2>5 DEF D!TypeOK
<1>3. D!FilledInSessions
  BY <1>1 DEF D!FilledInSessions
<1>4. Stands
  <2>1. D!Buys(D!Orders) = {} /\ D!Sales(D!Orders) = {} /\ D!Settled(now) = {} /\ Open = {}
    BY <1>1 DEF D!Buys, D!Sales, D!Settled, Open
  <2>2. SumOver(Traded, {}) = 0
    BY SumOfNone
  <2>3. {D!SettlementOf(i) : i \in Open} = {}
    BY <2>1
  <2>4. settlements = {} /\ account.settled = Deposit /\ account.unsettled = 0
        /\ account.held = 0 /\ Deposit \in Nat
    BY TradingDays DEF D!Init
  <2> QED
    BY <2>1, <2>2, <2>3, <2>4 DEF Stands
<1>5. LotsStand
  BY <1>1 DEF LotsStand, Booked, D!In, D!Buys, D!Sales
<1>6. D!ProposalsLookBack
  BY DEF D!Init, D!ProposalsLookBack
<1> QED
  BY <1>2, <1>3, <1>4, <1>5, <1>6, FiguresAre DEF D!IInv

-----------------------------------------------------------------------------
(* The steps *)

LEMMA InstantFacts ==
    ASSUME TradingConstants, D!TypeOK, NEW t \in (StartDay * D!SlotsOfDay)..now,
           D!InSessionAt(t)
    PROVE  t \in Nat /\ D!SettlementInstant(t) \in Nat /\ D!SettlementInstant(t) > t
<1>1. StartDay \in Nat /\ EndDay \in Nat
  BY TradingDays
<1>2. now \in (StartDay * 4)..((EndDay + 1) * 4 - 1) /\ t \in (StartDay * 4)..now
  BY DEF D!TypeOK, D!SlotsOfDay
<1>3. t \in Nat /\ StartDay * 4 <= t /\ t < (EndDay + 1) * 4
  BY <1>1, <1>2
<1>4. t \div 4 \in StartDay..EndDay
  BY <1>1, <1>3
<1>5. D!Date(t) \in StartDay..EndDay
  BY <1>4 DEF D!Date, D!SlotsOfDay
<1>6. D!IsTradingDay(D!Date(t))
  BY DEF D!InSessionAt
<1> QED
  BY <1>3, <1>5, <1>6, SettlesLater

LEMMA Kept ==
    ASSUME UNCHANGED filled
    PROVE  /\ D!Orders' = D!Orders /\ Traded' = Traded
           /\ \A S : D!Buys(S)' = D!Buys(S) /\ D!Sales(S)' = D!Sales(S)
           /\ \A i : D!SettlesAt(i)' = D!SettlesAt(i)
           /\ \A i : D!SettlementOf(i)' = D!SettlementOf(i)
BY DEF D!Orders, Traded, D!Buys, D!Sales, D!SettlesAt, D!SettlementOf

\* Where neither the orders nor the account changes, nor the instant.
LEMMA StandsKept ==
    ASSUME Stands, D!FilledInSessions, UNCHANGED <<now, filled, account, settlements>>
    PROVE  Stands' /\ D!FilledInSessions'
<1>1. /\ D!Buys(D!Orders)' = D!Buys(D!Orders) /\ D!Sales(D!Orders)' = D!Sales(D!Orders)
      /\ D!Settled(now)' = D!Settled(now) /\ Open' = Open
      /\ {D!SettlementOf(i) : i \in Open}' = {D!SettlementOf(i) : i \in Open}
  BY Kept DEF D!Settled, Open, D!Orders, D!Buys, D!Sales, D!SettlesAt, D!SettlementOf
<1>2. Stands'
  BY <1>1, Kept DEF Stands
<1>3. D!FilledInSessions'
  BY DEF D!FilledInSessions, D!Orders
<1> QED
  BY <1>2, <1>3

LEMMA LotsKept ==
    ASSUME LotsStand, UNCHANGED <<filled, standing, warrant>>
    PROVE  LotsStand'
<1>1. Booked' = Booked
  BY DEF Booked, D!In, D!Orders
<1>2. D!Buys(Booked)' = D!Buys(Booked) /\ D!Sales(Booked)' = D!Sales(Booked)
  BY <1>1 DEF D!Buys, D!Sales
<1>3. \A l : SoldFrom(D!Sales(Booked), l)' = SoldFrom(D!Sales(Booked), l)
  BY <1>2 DEF SoldFrom
<1> QED
  BY <1>2, <1>3, Kept DEF LotsStand

\* What falls due leaves the unsettled cash for the settled.
LEMMA TickStep ==
    ASSUME TradingConstants, D!TypeOK, D!FilledInSessions, Stands, LotsStand, D!Tick
    PROVE  D!TypeOK' /\ D!FilledInSessions' /\ Stands' /\ LotsStand'
<1> DEFINE part == Open \ (Open')
           late == SumOver(Traded, Open')
           payment == SumOver(Traded, part)
<1>1. /\ now < (EndDay + 1) * D!SlotsOfDay - 1 /\ now' = now + 1
      /\ UNCHANGED <<filled, standing, warrant, passed, halted>>
  BY DEF D!Tick, D!ledger
<1>2. now \in Nat /\ now' \in Nat /\ now' \in (StartDay * D!SlotsOfDay)..((EndDay + 1) * D!SlotsOfDay - 1)
  BY <1>1, TradingDays DEF D!TypeOK, D!SlotsOfDay
<1>3. /\ D!Orders' = D!Orders /\ Traded' = Traded
      /\ D!Buys(D!Orders)' = D!Buys(D!Orders) /\ D!Sales(D!Orders)' = D!Sales(D!Orders)
      /\ \A i : D!SettlementOf(i)' = D!SettlementOf(i) /\ D!SettlesAt(i)' = D!SettlesAt(i)
  BY <1>1, Kept DEF D!Buys, D!Sales, D!Orders
<1>4. D!FilledInSessions'
  BY <1>1, <1>2, <1>3 DEF D!FilledInSessions, D!TypeOK
<1>5. \A i \in D!Orders : D!SettlesAt(i) \in Nat
  BY InstantFacts DEF D!FilledInSessions, D!SettlesAt
<1>6. /\ Open = {i \in D!Sales(D!Orders) : now < D!SettlesAt(i)}
      /\ Open' = {i \in D!Sales(D!Orders) : now' < D!SettlesAt(i)}
      /\ part = {i \in Open : D!SettlesAt(i) <= now'}
      /\ Open' \subseteq Open /\ part \subseteq Open
  <2>1. Open = {i \in D!Sales(D!Orders) : now < D!SettlesAt(i)}
    BY <1>2, <1>5, PartsAre DEF Open, D!Settled
  <2>2. Open' = {i \in D!Sales(D!Orders) : now' < D!SettlesAt(i)}
    BY <1>2, <1>3, <1>5, PartsAre DEF Open, D!Settled
  <2>3. \A i \in D!Sales(D!Orders) : D!SettlesAt(i) \in Nat
    BY <1>5, PartsAre
  <2>4. Open' \subseteq Open
    BY <1>1, <1>2, <2>1, <2>2, <2>3
  <2> QED
    BY <1>2, <2>1, <2>2, <2>3, <2>4
<1>7. /\ D!Settled(now)' = D!Settled(now) \cup part
      /\ D!Settled(now) \cap part = {} /\ Open' \cap part = {} /\ Open = Open' \cup part
  <2>1. D!Settled(now) = D!Sales(D!Orders) \ Open
    BY PartsAre DEF Open
  <2>2. D!Settled(now)' = D!Sales(D!Orders) \ (Open')
    BY <1>2, <1>3, <1>5, <1>6, PartsAre DEF D!Settled
  <2> HIDE DEF part
  <2> QED
    BY <1>6, <2>1, <2>2, PartsAre DEF part, Open
<1>8. /\ part \in SUBSET D!Orders /\ Open' \in SUBSET D!Orders
      /\ D!Settled(now) \in SUBSET D!Orders
  BY <1>6, PartsAre
<1>9. late \in Nat /\ payment \in Nat
  BY <1>8, SharesSum
<1>10. /\ SumOver(Traded, D!Settled(now)') = SumOver(Traded, D!Settled(now)) + payment
       /\ SumOver(Traded, Open) = late + payment
  <2> HIDE DEF part
  <2> QED
    BY <1>7, <1>8, SharesOfTwo
<1>11. {s \in settlements : s.at <= now'} = {D!SettlementOf(i) : i \in part}
  <2>1. \A i : D!SettlementOf(i).at = D!SettlesAt(i)
    BY DEF D!SettlementOf
  <2>2. settlements = {D!SettlementOf(i) : i \in Open}
    BY DEF Stands
  <2> HIDE DEF part
  <2> QED
    BY <1>6, <2>1, <2>2
<1>12. /\ settlements' = settlements \ {D!SettlementOf(i) : i \in part}
       /\ account' = [account EXCEPT !.settled = @ + payment, !.unsettled = @ - payment]
       /\ proposals' = {p \in proposals : D!Alive(p, now')}
  <2>1. D!MapThenSumSet(LAMBDA s : s.amount, {D!SettlementOf(i) : i \in part}) = payment
    BY <1>8, SettlementsSum
  <2> HIDE DEF part
  <2> QED
    BY <1>11, <2>1 DEF D!Tick
<1>13. settlements' = {D!SettlementOf(i) : i \in Open'}
  <2>1. settlements = {D!SettlementOf(i) : i \in Open}
    BY DEF Stands
  <2>2. \A i, j : D!SettlementOf(i) = D!SettlementOf(j) => i = j
    BY DEF D!SettlementOf
  <2> HIDE DEF part
  <2> QED
    BY <1>7, <1>12, <2>1, <2>2
<1>14. account \in [settled : Nat, unsettled : Nat, held : Nat]
  BY DEF D!TypeOK
<1>15. /\ account'.held = account.held /\ account'.settled = account.settled + payment
       /\ account'.unsettled = late
       /\ account' \in [settled : Nat, unsettled : Nat, held : Nat]
  <2>1. account.unsettled = late + payment
    BY <1>10 DEF Stands
  <2> HIDE DEF part, late, payment
  <2>2. account' = [settled |-> account.settled + payment,
                    unsettled |-> account.unsettled - payment, held |-> account.held]
    BY <1>12, <1>14
  <2>3. account.unsettled - payment = late /\ account.settled + payment \in Nat
        /\ account.held \in Nat
    BY <1>9, <1>14, <2>1
  <2> QED
    BY <1>9, <2>2, <2>3
<1>16. Stands'
  <2>1. account.held = SumOver(Traded, D!Buys(D!Orders)) - SumOver(Traded, D!Sales(D!Orders))
        /\ account.settled = Deposit - SumOver(Traded, D!Buys(D!Orders))
                             + SumOver(Traded, D!Settled(now))
    BY DEF Stands
  <2>2. /\ Deposit \in Int /\ SumOver(Traded, D!Buys(D!Orders)) \in Int
        /\ SumOver(Traded, D!Settled(now)) \in Int
    BY <1>8, PartsAre, SharesSum, TradingDays
  <2>3. account'.settled = Deposit - SumOver(Traded, D!Buys(D!Orders))
                           + SumOver(Traded, D!Settled(now)')
    <3> HIDE DEF payment
    <3> QED
      BY <1>9, <1>10, <1>15, <2>1, <2>2
  <2>4. {D!SettlementOf(i) : i \in Open}' = {D!SettlementOf(i) : i \in Open'}
    BY <1>3
  <2> QED
    BY <1>3, <1>13, <1>15, <2>1, <2>3, <2>4 DEF Stands
<1>17. LotsStand'
  BY <1>1, LotsKept
<1>18. D!TypeOK'
  <2>1. proposals' \subseteq D!Proposal /\ D!IsFiniteSet(proposals')
    <3>1. IsFiniteSet(proposals) /\ proposals' \subseteq proposals
      BY <1>12, SameSizes DEF D!TypeOK
    <3> QED
      BY <3>1, FS_Subset, SameSizes DEF D!TypeOK
  <2>2. passed' \in Int /\ passed' <= now'
    BY <1>1, <1>2 DEF D!TypeOK
  <2> QED
    BY <1>1, <1>2, <1>3, <1>15, <2>1, <2>2 DEF D!TypeOK
<1> QED
  BY <1>4, <1>16, <1>17, <1>18

\* A cycle changes no figure of the broker, and what it books is sound.
LEMMA CycleKeeps ==
    ASSUME D!TypeOK, D!FilledInSessions, Stands, LotsStand, NEW raised, D!Cycle(raised)
    PROVE  /\ D!FilledInSessions' /\ Stands' /\ LotsStand'
           /\ D!In(D!Synced, "booked") \in SUBSET D!Orders
           /\ Sound(D!In(D!Synced, "booked"))
           /\ UNCHANGED <<now, account, settlements, filled, warrant>>
           /\ standing' \in Seq(D!Standings) /\ Len(standing') = Len(filled)
<1>1. UNCHANGED <<now, account, settlements, filled, warrant>> /\ standing' = D!Synced
  BY DEF D!Cycle, D!broker
<1>2. D!FilledInSessions' /\ Stands'
  BY <1>1, StandsKept
<1> DEFINE booked == D!In(D!Synced, "booked")
<1>3. booked \in SUBSET D!Orders
  BY DEF D!In
<1>4. Sound(booked)
  <2>1. Sound(Booked)
    BY PartsAre, SoundIs DEF LotsStand
  <2> QED
    BY <2>1, SyncIsSound DEF Booked
<1>5. Booked' = booked
  BY <1>1 DEF Booked, D!In, D!Orders
<1> HIDE DEF booked
<1>6. LotsStand'
  <2>1. /\ \A i \in D!Sales(booked) : warrant[i] \in D!Buys(booked)
        /\ \A l \in D!Buys(booked) :
              SumOver(Traded, SoldFrom(D!Sales(booked), l)) <= Traded[l]
    BY <1>3, <1>4, SoundIs
  <2>2. D!Buys(Booked)' = D!Buys(booked) /\ D!Sales(Booked)' = D!Sales(booked)
    BY <1>1, <1>5 DEF D!Buys, D!Sales
  <2>3. \A l : SoldFrom(D!Sales(Booked), l)' = SoldFrom(D!Sales(booked), l)
    BY <1>1, <2>2 DEF SoldFrom
  <2> QED
    BY <1>1, <2>1, <2>2, <2>3, Kept DEF LotsStand
<1>7. standing' \in Seq(D!Standings) /\ Len(standing') = Len(filled)
  <2>1. D!Synced \in [1..Len(filled) -> D!Standings] /\ Len(filled) \in Nat
    BY SyncedIs, OrdersAre
  <2> QED
    BY <1>1, <2>1
<1> QED
  BY <1>1, <1>2, <1>3, <1>4, <1>6, <1>7 DEF booked

LEMMA CycleStep ==
    ASSUME TradingConstants, D!TypeOK, D!FilledInSessions, Stands, LotsStand,
           D!CycleRaises \/ D!CyclePaused \/ D!CycleHalts \/ D!CyclePasses
    PROVE  D!TypeOK' /\ D!FilledInSessions' /\ Stands' /\ LotsStand'
<1>1. \E raised : D!Cycle(raised)
  BY DEF D!CycleRaises, D!CyclePaused, D!CycleHalts, D!CyclePasses
<1>2. /\ D!FilledInSessions' /\ Stands' /\ LotsStand'
      /\ D!In(D!Synced, "booked") \in SUBSET D!Orders
      /\ Sound(D!In(D!Synced, "booked"))
      /\ UNCHANGED <<now, account, settlements, filled, warrant>>
      /\ standing' \in Seq(D!Standings) /\ Len(standing') = Len(filled)
  BY <1>1, CycleKeeps
<1>3. proposals' \subseteq D!Proposal /\ D!IsFiniteSet(proposals')
  <2>1. proposals \subseteq D!Proposal /\ IsFiniteSet(proposals)
    BY SameSizes DEF D!TypeOK
  <2>2. CASE UNCHANGED proposals
    BY <2>1, <2>2, SameSizes
  <2>3. CASE ~ UNCHANGED proposals
    <3>1. /\ Cardinality(proposals) < MaxProposals
          /\ D!Proposable(D!In(D!Synced, "booked"))
          /\ proposals' = proposals \cup {D!ProposalOf(D!In(D!Synced, "booked"))}
      BY <2>3, SameSizes DEF D!CycleRaises, D!CyclePaused, D!CycleHalts, D!CyclePasses
    <3>2. D!ProposalOf(D!In(D!Synced, "booked")) \in D!Proposal
      BY <1>2, <3>1, ProposalIs
    <3>3. IsFiniteSet(proposals')
      BY <2>1, <3>1, FS_AddElement
    <3> QED
      BY <2>1, <3>1, <3>2, <3>3, SameSizes
  <2> QED
    BY <2>2, <2>3
<1>4. passed' \in Int /\ passed' <= now' /\ halted' \in BOOLEAN
  <2>1. now \in Int /\ passed \in Int /\ passed <= now /\ halted \in BOOLEAN
    BY TradingDays DEF D!TypeOK, D!SlotsOfDay
  <2>2. now' = now /\ (passed' = passed \/ passed' = now) /\ (halted' = halted \/ halted' = TRUE)
    BY <1>2 DEF D!CycleRaises, D!CyclePaused, D!CycleHalts, D!CyclePasses
  <2>3. passed' \in Int /\ passed' <= now'
    BY <2>1, <2>2
  <2>4. halted' \in BOOLEAN
    BY <2>1, <2>2
  <2> QED
    BY <2>3, <2>4
<1>5. D!TypeOK'
  BY <1>2, <1>3, <1>4 DEF D!TypeOK, D!Orders
<1> QED
  BY <1>2, <1>5

LEMMA ApproveStep ==
    ASSUME D!TypeOK, D!FilledInSessions, Stands, LotsStand,
           NEW p \in proposals, D!Approve(p)
    PROVE  D!TypeOK' /\ D!FilledInSessions' /\ Stands' /\ LotsStand'
<1>1. /\ proposals' = (proposals \ {p}) \cup {[p EXCEPT !.approved = TRUE]}
      /\ UNCHANGED <<now, account, settlements, filled, standing, warrant, passed, halted>>
  BY DEF D!Approve, D!broker, D!ledger
<1>2. proposals \subseteq D!Proposal /\ IsFiniteSet(proposals)
  BY SameSizes DEF D!TypeOK
<1>3. [p EXCEPT !.approved = TRUE] \in D!Proposal
  BY <1>2 DEF D!Proposal
<1>4. IsFiniteSet(proposals')
  <2>1. IsFiniteSet(proposals \ {p})
    BY <1>2, FS_Subset
  <2> QED
    BY <1>1, <2>1, FS_AddElement
<1>5. proposals' \subseteq D!Proposal /\ D!IsFiniteSet(proposals')
  BY <1>1, <1>2, <1>3, <1>4, SameSizes
<1>6. D!TypeOK'
  BY <1>1, <1>5 DEF D!TypeOK, D!Orders
<1> QED
  BY <1>1, <1>6, StandsKept, LotsKept

\* What is not booked may be given any standing but that, and any lot.
LEMMA OperatorKeepsLots ==
    ASSUME D!TypeOK, LotsStand, UNCHANGED filled, NEW i \in D!Orders,
           standing[i] # "booked", NEW state \in D!Standings \ {"booked"},
           standing' = [standing EXCEPT ![i] = state],
           \A j \in D!Orders \ {i} : warrant'[j] = warrant[j]
    PROVE  LotsStand' /\ standing' \in Seq(D!Standings) /\ Len(standing') = Len(standing)
<1>1. Booked' = Booked /\ i \notin Booked
  BY OrdersAre DEF Booked, D!In, D!Orders
<1>2. D!Buys(Booked)' = D!Buys(Booked) /\ D!Sales(Booked)' = D!Sales(Booked)
  BY <1>1 DEF D!Buys, D!Sales
<1>3. \A j \in D!Sales(Booked) : warrant'[j] = warrant[j]
  BY <1>1 DEF Booked, D!In, D!Sales
<1>4. \A l : SoldFrom(D!Sales(Booked), l)' = SoldFrom(D!Sales(Booked), l)
  BY <1>2, <1>3 DEF SoldFrom
<1>5. LotsStand'
  BY <1>2, <1>3, <1>4, Kept DEF LotsStand
<1>6. standing' \in Seq(D!Standings) /\ Len(standing') = Len(standing)
  <2>1. standing \in Seq(D!Standings) /\ i \in DOMAIN standing
    BY OrdersAre DEF D!TypeOK
  <2> QED
    BY <2>1
<1> QED
  BY <1>5, <1>6

LEMMA AdmitStep ==
    ASSUME D!TypeOK, D!FilledInSessions, Stands, LotsStand, NEW i \in D!Orders,
           D!Reject(i) \/ \E w : D!Admit(i, w)
    PROVE  D!TypeOK' /\ D!FilledInSessions' /\ Stands' /\ LotsStand'
<1>1. UNCHANGED <<now, account, settlements, filled, proposals, passed, halted>>
  BY DEF D!Reject, D!Admit, D!broker
<1>2. PICK state \in {"admitted", "rejected"} :
          standing' = [standing EXCEPT ![i] = state] /\ standing[i] = "pending"
  BY DEF D!Reject, D!Admit
<1>3. /\ warrant' \in Seq(D!Orders \cup DOMAIN Hold \cup {0}) /\ Len(warrant') = Len(warrant)
      /\ \A j \in D!Orders \ {i} : warrant'[j] = warrant[j]
  <2>1. /\ warrant \in Seq(D!Orders \cup DOMAIN Hold \cup {0})
        /\ DOMAIN warrant = D!Orders /\ i \in DOMAIN warrant
    BY OrdersAre DEF D!TypeOK
  <2>2. CASE D!Reject(i)
    BY <2>1, <2>2 DEF D!Reject
  <2>3. CASE \E w : D!Admit(i, w)
    <3>1. PICK w : /\ w \in IF filled[i].side = "BUY" THEN DOMAIN Hold ELSE D!Buys(D!Orders)
                   /\ warrant' = [warrant EXCEPT ![i] = w]
      BY <2>3 DEF D!Admit
    <3>2. w \in D!Orders \cup DOMAIN Hold \cup {0}
      BY <3>1 DEF D!Buys
    <3> QED
      BY <2>1, <3>1, <3>2
  <2> QED
    BY <2>2, <2>3
<1>4. LotsStand' /\ standing' \in Seq(D!Standings) /\ Len(standing') = Len(standing)
  <2>1. state \in D!Standings \ {"booked"}
    BY DEF D!Standings
  <2> QED
    BY <1>1, <1>2, <1>3, <2>1, OperatorKeepsLots
<1>5. D!TypeOK'
  <2>1. D!Orders' = D!Orders
    BY <1>1 DEF D!Orders
  <2> QED
    BY <1>1, <1>3, <1>4, <2>1 DEF D!TypeOK
<1> QED
  BY <1>1, <1>4, <1>5, StandsKept

LEMMA SumKept ==
    ASSUME D!TypeOK, NEW S \in SUBSET D!Orders, \A i \in D!Orders : Traded'[i] = Traded[i]
    PROVE  SumOver(Traded', S) = SumOver(Traded, S)
<1>1. IsFiniteSet(S)
  BY SharesSum
<1> QED
  BY <1>1, SumOfEquals

\* The order that is added has the next number, and settles later.
LEMMA SubmitEffects ==
    ASSUME TradingConstants, D!TypeOK, D!FilledInSessions, NEW p \in proposals, D!Submit(p)
    PROVE  LET last == Len(filled) + 1
           IN /\ p \in D!Proposal /\ D!Sufficient(p) /\ D!Filled(p) /\ last \notin D!Orders
              /\ D!Orders' = D!Orders \cup {last} /\ filled' \in Seq(D!Order)
              /\ filled'[last] = [side |-> p.side, qty |-> p.qty, at |-> now, seen |-> p.seen]
              /\ standing' \in Seq(D!Standings) /\ standing'[last] = "unseen"
              /\ warrant' \in Seq(D!Orders' \cup DOMAIN Hold \cup {0})
              /\ Len(filled') = last /\ Len(standing') = last /\ Len(warrant') = last
              /\ \A i \in D!Orders : /\ filled'[i] = filled[i] /\ standing'[i] = standing[i]
                                     /\ warrant'[i] = warrant[i]
              /\ D!InSessionAt(now) /\ D!SettlementInstant(now) > now
              /\ now \in Nat /\ D!SettlementInstant(now) \in Nat
              /\ proposals' = proposals \ {p} /\ UNCHANGED <<now, passed, halted>>
<1> DEFINE last == Len(filled) + 1
           o == [side |-> p.side, qty |-> p.qty, at |-> now, seen |-> p.seen]
<1>1. /\ p \in D!Proposal
      /\ now \in (StartDay * D!SlotsOfDay)..((EndDay + 1) * D!SlotsOfDay - 1)
  BY DEF D!TypeOK
<1>2. /\ D!Sufficient(p) /\ D!Filled(p) /\ D!InSessionAt(now) /\ filled' = Append(filled, o)
      /\ standing' = Append(standing, "unseen") /\ warrant' = Append(warrant, 0)
      /\ proposals' = proposals \ {p} /\ UNCHANGED <<now, passed, halted>>
  BY DEF D!Submit
<1>3. StartDay * D!SlotsOfDay \in Nat /\ now \in Nat
  BY <1>1, TradingDays DEF D!SlotsOfDay
<1>4. now \in (StartDay * D!SlotsOfDay)..now
  BY <1>1, <1>3
<1>5. D!SettlementInstant(now) > now /\ D!SettlementInstant(now) \in Nat
  BY <1>2, <1>4, InstantFacts
<1>6. o \in D!Order
  BY <1>1, <1>3 DEF D!Order, D!Proposal
<1> HIDE DEF o
<1>7. D!Orders = 1..Len(filled) /\ Len(filled) \in Nat /\ filled \in Seq(D!Order)
  BY OrdersAre DEF D!TypeOK
<1>8. /\ filled' \in Seq(D!Order) /\ Len(filled') = last /\ filled'[last] = o
      /\ \A i \in 1..Len(filled) : filled'[i] = filled[i]
  BY <1>2, <1>6, <1>7
<1>9. D!Orders' = D!Orders \cup {last} /\ last \notin D!Orders
  BY <1>7, <1>8 DEF D!Orders
<1>10. /\ standing' \in Seq(D!Standings) /\ Len(standing') = last /\ standing'[last] = "unseen"
       /\ \A i \in 1..Len(filled) : standing'[i] = standing[i]
  <2>1. standing \in Seq(D!Standings) /\ Len(standing) = Len(filled)
        /\ "unseen" \in D!Standings
    BY DEF D!TypeOK, D!Standings
  <2> QED
    BY <1>2, <1>7, <2>1
<1>11. /\ warrant' \in Seq(D!Orders' \cup DOMAIN Hold \cup {0}) /\ Len(warrant') = last
       /\ \A i \in 1..Len(filled) : warrant'[i] = warrant[i]
  <2> DEFINE W == D!Orders' \cup DOMAIN Hold \cup {0}
  <2>1. warrant \in Seq(D!Orders \cup DOMAIN Hold \cup {0}) /\ Len(warrant) = Len(filled)
    BY DEF D!TypeOK
  <2>2. warrant \in Seq(W) /\ 0 \in W
    BY <1>9, <2>1
  <2> HIDE DEF W
  <2>3. /\ Append(warrant, 0) \in Seq(W) /\ Len(Append(warrant, 0)) = Len(warrant) + 1
        /\ \A i \in 1..Len(warrant) : Append(warrant, 0)[i] = warrant[i]
    BY <2>2
  <2> QED
    BY <1>2, <2>1, <2>3 DEF W
<1> QED
  BY <1>1, <1>2, <1>3, <1>5, <1>7, <1>8, <1>9, <1>10, <1>11 DEF o

LEMMA SubmitStep ==
    ASSUME TradingConstants, D!TypeOK, D!FilledInSessions, Stands, LotsStand,
           NEW p \in proposals, D!Submit(p)
    PROVE  D!TypeOK' /\ D!FilledInSessions' /\ Stands' /\ LotsStand'
<1>0. PICK last : last = Len(filled) + 1
  OBVIOUS
<1> DEFINE buys == D!Buys(D!Orders)
           sales == D!Sales(D!Orders)
<1>1. /\ p \in D!Proposal /\ D!Sufficient(p) /\ D!Filled(p) /\ last \notin D!Orders
      /\ D!Orders' = D!Orders \cup {last} /\ filled' \in Seq(D!Order)
      /\ filled'[last] = [side |-> p.side, qty |-> p.qty, at |-> now, seen |-> p.seen]
      /\ standing' \in Seq(D!Standings) /\ standing'[last] = "unseen"
      /\ warrant' \in Seq(D!Orders' \cup DOMAIN Hold \cup {0})
      /\ Len(filled') = last /\ Len(standing') = last /\ Len(warrant') = last
      /\ \A i \in D!Orders : /\ filled'[i] = filled[i] /\ standing'[i] = standing[i]
                             /\ warrant'[i] = warrant[i]
      /\ D!InSessionAt(now) /\ D!SettlementInstant(now) > now
      /\ now \in Nat /\ D!SettlementInstant(now) \in Nat
      /\ proposals' = proposals \ {p} /\ UNCHANGED <<now, passed, halted>>
  BY <1>0, SubmitEffects
<1>2. p.side \in {"BUY", "CLOSE"} /\ p.qty \in Nat
  BY <1>1 DEF D!Proposal
<1>3. /\ account \in [settled : Nat, unsettled : Nat, held : Nat]
      /\ account.settled \in Nat /\ account.unsettled \in Nat /\ account.held \in Nat
  BY DEF D!TypeOK
<1>4. account' \in [settled : Nat, unsettled : Nat, held : Nat]
  <2>1. CASE p.side = "BUY"
    <3>1. account' = [settled |-> account.settled - p.qty, unsettled |-> account.unsettled,
                      held |-> account.held + p.qty]
      BY <1>1, <1>3, <2>1 DEF D!Filled
    <3>2. account.settled - p.qty \in Nat /\ account.held + p.qty \in Nat
      BY <1>1, <1>2, <1>3, <2>1 DEF D!Sufficient
    <3> QED
      BY <1>3, <3>1, <3>2
  <2>2. CASE p.side = "CLOSE"
    <3>1. account' = [settled |-> account.settled, unsettled |-> account.unsettled + p.qty,
                      held |-> account.held - p.qty]
      BY <1>1, <1>3, <2>2 DEF D!Filled
    <3>2. account.held - p.qty \in Nat /\ account.unsettled + p.qty \in Nat
      BY <1>1, <1>2, <1>3, <2>2 DEF D!Sufficient
    <3> QED
      BY <1>3, <3>1, <3>2
  <2> QED
    BY <1>2, <2>1, <2>2
<1>5. D!TypeOK'
  <2>1. proposals' \subseteq D!Proposal /\ D!IsFiniteSet(proposals')
    <3>1. IsFiniteSet(proposals) /\ proposals' \subseteq proposals
      BY <1>1, SameSizes DEF D!TypeOK
    <3> QED
      BY <3>1, FS_Subset, SameSizes DEF D!TypeOK
  <2> QED
    BY <1>1, <1>4, <2>1 DEF D!TypeOK
<1>6. \A i \in D!Orders : Traded'[i] = Traded[i]
  BY <1>1 DEF Traded
<1>7. Traded'[last] = p.qty /\ \A i \in D!Orders' : Traded'[i] \in Int
  BY <1>1, <1>2, <1>6, OrdersAre DEF Traded
<1>8. /\ \A i \in D!Orders : D!SettlesAt(i)' = D!SettlesAt(i)
      /\ \A i \in D!Orders : D!SettlementOf(i)' = D!SettlementOf(i)
      /\ D!SettlesAt(last)' = D!SettlementInstant(now)
      /\ D!SettlementOf(last)' =
            [order |-> last, at |-> D!SettlementInstant(now), amount |-> p.qty]
  BY <1>1 DEF D!SettlesAt, D!SettlementOf
<1>9. D!FilledInSessions'
  <2>1. now \in (StartDay * D!SlotsOfDay)..now
    BY <1>1, TradingDays DEF D!TypeOK, D!SlotsOfDay
  <2> QED
    BY <1>1, <2>1 DEF D!FilledInSessions
<1>10. /\ D!Buys(D!Orders)' = IF p.side = "BUY" THEN buys \cup {last} ELSE buys
       /\ D!Sales(D!Orders)' = IF p.side = "BUY" THEN sales ELSE sales \cup {last}
  <2>1. D!Buys(D!Orders)' = {i \in D!Orders \cup {last} : filled'[i].side = "BUY"}
    BY <1>1 DEF D!Buys
  <2>2. D!Buys(D!Orders)' = IF p.side = "BUY" THEN buys \cup {last} ELSE buys
    BY <1>1, <2>1 DEF D!Buys
  <2>3. D!Sales(D!Orders)' = (D!Orders \cup {last}) \ D!Buys(D!Orders)'
    BY <1>1 DEF D!Sales
  <2> QED
    BY <1>1, <2>2, <2>3 DEF D!Sales, D!Buys
<1>11. D!Settled(now)' = D!Settled(now)
  <2>1. D!Settled(now)' = {i \in D!Sales(D!Orders)' : now >= D!SettlesAt(i)'}
    BY <1>1 DEF D!Settled
  <2>2. \A i \in sales : i \in D!Orders
    BY PartsAre
  <2>3. ~(now >= D!SettlesAt(last)')
    BY <1>1, <1>8
  <2>4. D!Settled(now) = {i \in sales : now >= D!SettlesAt(i)}
    BY DEF D!Settled
  <2> HIDE DEF sales
  <2> QED
    BY <1>8, <1>10, <2>1, <2>2, <2>3, <2>4
<1>12. Open' = IF p.side = "BUY" THEN Open ELSE Open \cup {last}
  <2>1. Open' = (D!Sales(D!Orders)') \ (D!Settled(now)')
    BY DEF Open
  <2>2. last \notin D!Settled(now) /\ Open = sales \ D!Settled(now)
    BY <1>1, PartsAre DEF Open
  <2> HIDE DEF sales
  <2> QED
    BY <1>10, <1>11, <2>1, <2>2
<1>13. \A S \in SUBSET D!Orders : /\ SumOver(Traded', S) = SumOver(Traded, S)
                                  /\ SumOver(Traded', S \cup {last}) = SumOver(Traded, S) + p.qty
                                  /\ SumOver(Traded, S) \in Nat
  <2> SUFFICES ASSUME NEW S \in SUBSET D!Orders
               PROVE  /\ SumOver(Traded', S) = SumOver(Traded, S)
                      /\ SumOver(Traded', S \cup {last}) = SumOver(Traded, S) + p.qty
                      /\ SumOver(Traded, S) \in Nat
    OBVIOUS
  <2>1. SumOver(Traded', S) = SumOver(Traded, S)
    BY <1>6, SumKept
  <2>2. IsFiniteSet(S) /\ SumOver(Traded, S) \in Nat
    BY SharesSum
  <2>3. last \notin S /\ \A i \in S \cup {last} : Traded'[i] \in Int
    BY <1>1, <1>7
  <2>4. SumOver(Traded', S \cup {last}) = SumOver(Traded', S) + Traded'[last]
    <3> QED
      BY <2>2, <2>3, SumMore
  <2> QED
    BY <1>7, <2>1, <2>2, <2>4
<1>14. /\ buys \in SUBSET D!Orders /\ sales \in SUBSET D!Orders /\ Open \in SUBSET D!Orders
       /\ D!Settled(now) \in SUBSET D!Orders
  BY PartsAre
<1>15. /\ account.held = SumOver(Traded, buys) - SumOver(Traded, sales)
       /\ account.settled = Deposit - SumOver(Traded, buys) + SumOver(Traded, D!Settled(now))
       /\ account.unsettled = SumOver(Traded, Open)
       /\ settlements = {D!SettlementOf(i) : i \in Open}
  BY DEF Stands
<1>16. Deposit \in Nat /\ \A i \in Open : D!SettlementOf(i)' = D!SettlementOf(i)
  BY <1>8, <1>14, TradingDays
<1> HIDE DEF buys, sales
<1>17. Stands'
  <2>1. CASE p.side = "BUY"
    <3>1. /\ account'.settled = account.settled - p.qty
          /\ account'.held = account.held + p.qty /\ account'.unsettled = account.unsettled
          /\ settlements' = settlements
      BY <1>1, <1>3, <2>1 DEF D!Filled
    <3>2. /\ D!Buys(D!Orders)' = buys \cup {last} /\ D!Sales(D!Orders)' = sales /\ Open' = Open
      BY <1>10, <1>12, <2>1
    <3>3. settlements' = {D!SettlementOf(i) : i \in Open}'
      <4>1. {D!SettlementOf(i) : i \in Open}' = {D!SettlementOf(i)' : i \in Open}
        BY <3>2
      <4>2. {D!SettlementOf(i)' : i \in Open} = {D!SettlementOf(i) : i \in Open}
        BY <1>16
      <4> QED
        BY <1>15, <3>1, <4>1, <4>2
    <3>4. account'.held = SumOver(Traded', buys \cup {last}) - SumOver(Traded', sales)
      <4>1. /\ SumOver(Traded', buys \cup {last}) = SumOver(Traded, buys) + p.qty
            /\ SumOver(Traded', sales) = SumOver(Traded, sales)
            /\ SumOver(Traded, buys) \in Nat /\ SumOver(Traded, sales) \in Nat
        BY <1>13, <1>14
      <4> QED
        BY <1>2, <1>15, <3>1, <4>1
    <3>5. account'.settled = Deposit - SumOver(Traded', buys \cup {last})
                             + SumOver(Traded', D!Settled(now))
      <4>1. /\ SumOver(Traded', buys \cup {last}) = SumOver(Traded, buys) + p.qty
            /\ SumOver(Traded', D!Settled(now)) = SumOver(Traded, D!Settled(now))
            /\ SumOver(Traded, buys) \in Nat /\ SumOver(Traded, D!Settled(now)) \in Nat
        BY <1>13, <1>14
      <4> QED
        BY <1>2, <1>15, <1>16, <3>1, <4>1
    <3>6. account'.unsettled = SumOver(Traded', Open)
      BY <1>13, <1>14, <1>15, <3>1
    <3> QED
      BY <1>11, <3>2, <3>3, <3>4, <3>5, <3>6 DEF Stands
  <2>2. CASE p.side = "CLOSE"
    <3>1. /\ account'.settled = account.settled
          /\ account'.held = account.held - p.qty
          /\ account'.unsettled = account.unsettled + p.qty
          /\ settlements' = settlements \cup
                {[order |-> last, at |-> D!SettlementInstant(now), amount |-> p.qty]}
      BY <1>0, <1>1, <1>3, <2>2 DEF D!Filled
    <3>2. /\ D!Buys(D!Orders)' = buys /\ D!Sales(D!Orders)' = sales \cup {last}
          /\ Open' = Open \cup {last}
      BY <1>10, <1>12, <2>2
    <3>3. settlements' = {D!SettlementOf(i) : i \in Open}'
      <4>1. {D!SettlementOf(i) : i \in Open}'
                = {D!SettlementOf(i)' : i \in Open} \cup {D!SettlementOf(last)'}
        BY <3>2
      <4>2. {D!SettlementOf(i)' : i \in Open} = {D!SettlementOf(i) : i \in Open}
        BY <1>16
      <4> QED
        BY <1>8, <1>15, <3>1, <4>1, <4>2
    <3>4. account'.held = SumOver(Traded', buys) - SumOver(Traded', sales \cup {last})
      <4>1. /\ SumOver(Traded', sales \cup {last}) = SumOver(Traded, sales) + p.qty
            /\ SumOver(Traded', buys) = SumOver(Traded, buys)
            /\ SumOver(Traded, buys) \in Nat /\ SumOver(Traded, sales) \in Nat
        BY <1>13, <1>14
      <4> QED
        BY <1>2, <1>15, <3>1, <4>1
    <3>5. account'.settled = Deposit - SumOver(Traded', buys) + SumOver(Traded', D!Settled(now))
      BY <1>13, <1>14, <1>15, <3>1
    <3>6. account'.unsettled = SumOver(Traded', Open \cup {last})
      BY <1>13, <1>14, <1>15, <3>1
    <3> QED
      BY <1>11, <3>2, <3>3, <3>4, <3>5, <3>6 DEF Stands
  <2> QED
    BY <1>2, <2>1, <2>2
<1>18. LotsStand'
  <2>1. Booked \in SUBSET D!Orders
    BY PartsAre
  <2>2. Booked' = Booked
    <3>1. Booked' = {i \in D!Orders \cup {last} : standing'[i] = "booked"}
      BY <1>1 DEF Booked, D!In
    <3>2. standing'[last] # "booked" /\ \A i \in D!Orders : standing'[i] = standing[i]
      BY <1>1
    <3> QED
      BY <3>1, <3>2 DEF Booked, D!In
  <2>3. \A i \in Booked : filled'[i] = filled[i] /\ warrant'[i] = warrant[i]
    BY <1>1, <2>1
  <2>4. D!Buys(Booked)' = D!Buys(Booked) /\ D!Sales(Booked)' = D!Sales(Booked)
    BY <2>2, <2>3 DEF D!Buys, D!Sales
  <2>5. \A i \in D!Sales(Booked) : i \in Booked /\ warrant'[i] = warrant[i]
    BY <2>3 DEF D!Sales
  <2>6. \A l : SoldFrom(D!Sales(Booked), l)' = SoldFrom(D!Sales(Booked), l)
    BY <2>4, <2>5 DEF SoldFrom
  <2>7. \A l : SoldFrom(D!Sales(Booked), l) \in SUBSET D!Orders
    BY <2>1, <2>5 DEF SoldFrom
  <2>8. \A l \in D!Buys(Booked) : l \in D!Orders
    BY <2>1 DEF D!Buys
  <2>9. ASSUME NEW l \in D!Buys(Booked)
        PROVE  /\ Traded'[l] = Traded[l]
               /\ SumOver(Traded, SoldFrom(D!Sales(Booked), l)) <= Traded[l]
               /\ SumOver(Traded', SoldFrom(D!Sales(Booked), l))
                      = SumOver(Traded, SoldFrom(D!Sales(Booked), l))
    BY <1>6, <1>13, <2>7, <2>8 DEF LotsStand
  <2>10. \A i \in D!Sales(Booked) : warrant'[i] \in D!Buys(Booked)
    BY <2>5 DEF LotsStand
  <2> QED
    BY <2>4, <2>6, <2>9, <2>10 DEF LotsStand
<1> QED
  BY <1>5, <1>9, <1>17, <1>18

LEMMA LookBackStep ==
    ASSUME D!TypeOK, D!ProposalsLookBack, [D!Next]_(D!vars)
    PROVE  D!ProposalsLookBack'
<1>1. now \in Int /\ Len(filled) \in Nat
  BY OrdersAre DEF D!TypeOK
<1>2. \A p \in proposals : p \in D!Proposal /\ p.at <= now /\ p.seen <= Len(filled)
  BY DEF D!ProposalsLookBack, D!TypeOK
<1>3. CASE D!Tick
  BY <1>1, <1>2, <1>3 DEF D!Tick, D!ProposalsLookBack, D!Proposal
<1>4. CASE D!CycleRaises \/ D!CyclePaused \/ D!CycleHalts \/ D!CyclePasses
  <2>1. UNCHANGED <<now, filled>>
    BY <1>4 DEF D!CycleRaises, D!CyclePaused, D!CycleHalts, D!CyclePasses, D!Cycle, D!broker
  <2>2. \E booked : proposals' \subseteq proposals \cup {D!ProposalOf(booked)}
    BY <1>4 DEF D!CycleRaises, D!CyclePaused, D!CycleHalts, D!CyclePasses
  <2>3. \A booked : D!ProposalOf(booked).at = now /\ D!ProposalOf(booked).seen = Len(filled)
    BY DEF D!ProposalOf
  <2> QED
    BY <1>1, <1>2, <2>1, <2>2, <2>3 DEF D!ProposalsLookBack
<1>5. CASE D!Resume \/ UNCHANGED D!vars
  BY <1>2, <1>5 DEF D!Resume, D!vars, D!broker, D!ledger, D!ProposalsLookBack
<1>6. ASSUME NEW p \in proposals, D!Approve(p) PROVE D!ProposalsLookBack'
  <2>1. [p EXCEPT !.approved = TRUE].at = p.at /\ [p EXCEPT !.approved = TRUE].seen = p.seen
    BY <1>2 DEF D!Proposal
  <2> QED
    BY <1>2, <1>6, <2>1 DEF D!Approve, D!broker, D!ProposalsLookBack
<1>7. ASSUME NEW p \in proposals, D!Submit(p) PROVE D!ProposalsLookBack'
  <2>1. proposals' \subseteq proposals /\ now' = now /\ Len(filled') = Len(filled) + 1
    <3>1. filled \in Seq(D!Order) /\ p \in D!Proposal
      BY <1>2 DEF D!TypeOK
    <3>2. \E x : filled' = Append(filled, x)
      BY <1>7 DEF D!Submit
    <3>3. \A x : Len(Append(filled, x)) = Len(filled) + 1
      <4> SUFFICES ASSUME NEW x PROVE Len(Append(filled, x)) = Len(filled) + 1
        OBVIOUS
      <4>1. filled \in Seq(D!Order \cup {x}) /\ x \in D!Order \cup {x}
        BY <3>1
      <4> QED
        BY <4>1
    <3> QED
      BY <1>7, <3>2, <3>3 DEF D!Submit
  <2> QED
    BY <1>1, <1>2, <2>1 DEF D!ProposalsLookBack, D!Proposal
<1>8. ASSUME NEW i \in D!Orders, D!Reject(i) \/ \E w : D!Admit(i, w)
      PROVE  D!ProposalsLookBack'
  BY <1>2, <1>8 DEF D!Reject, D!Admit, D!broker, D!ProposalsLookBack
<1> QED
  BY <1>3, <1>4, <1>5, <1>6, <1>7, <1>8 DEF D!Next

LEMMA BooksStep ==
    ASSUME TradingConstants, D!IInv, [D!Next]_(D!vars)
    PROVE  D!IInv'
<1>1. D!TypeOK /\ D!FilledInSessions /\ Stands /\ LotsStand
  BY FiguresAre DEF D!IInv
<1>2. D!TypeOK' /\ D!FilledInSessions' /\ Stands' /\ LotsStand'
  <2>1. CASE D!Tick
    BY <1>1, <2>1, TickStep
  <2>2. CASE D!CycleRaises \/ D!CyclePaused \/ D!CycleHalts \/ D!CyclePasses
    BY <1>1, <2>2, CycleStep
  <2>3. CASE D!Resume \/ UNCHANGED D!vars
    <3>1. UNCHANGED <<now, account, settlements, filled, standing, warrant, proposals, passed>>
          /\ (halted' = halted \/ halted' = FALSE)
      BY <2>3 DEF D!Resume, D!vars, D!broker, D!ledger
    <3>2. halted' \in BOOLEAN
      BY <1>1, <3>1 DEF D!TypeOK
    <3>3. D!TypeOK'
      BY <1>1, <3>1, <3>2 DEF D!TypeOK, D!Orders
    <3> QED
      BY <1>1, <3>1, <3>3, StandsKept, LotsKept
  <2>4. ASSUME NEW p \in proposals, D!Approve(p) \/ D!Submit(p)
        PROVE  D!TypeOK' /\ D!FilledInSessions' /\ Stands' /\ LotsStand'
    BY <1>1, <2>4, ApproveStep, SubmitStep
  <2>5. ASSUME NEW i \in D!Orders, D!Reject(i) \/ \E w : D!Admit(i, w)
        PROVE  D!TypeOK' /\ D!FilledInSessions' /\ Stands' /\ LotsStand'
    BY <1>1, <2>5, AdmitStep
  <2> QED
    BY <2>1, <2>2, <2>3, <2>4, <2>5 DEF D!Next
<1>3. D!ProposalsLookBack'
  BY <1>1, LookBackStep DEF D!IInv
<1> QED
  BY <1>2, <1>3, FiguresAreNext DEF D!IInv

\* The broker's figures are what the fills amount to, only sessions have fills, every
\* booked sale is of a booked lot and no lot is overdrawn: for every span of days, deposit
\* and hold, and whatever is proposed, submitted, admitted and resumed, in any order.
THEOREM BooksInvariance == TradingConstants => (D!Spec => []D!IInv)
<1> SUFFICES ASSUME TradingConstants PROVE D!Spec => []D!IInv
  OBVIOUS
<1>1. D!Init => D!IInv
  BY InitBooks
<1>2. D!IInv /\ [D!Next]_(D!vars) => D!IInv'
  BY BooksStep
<1> QED
  BY <1>1, <1>2, PTL DEF D!Spec

\* Once every execution is booked, the cash and the shares the ledger recomputes from the
\* fills are those of the broker, at every instant, although it keeps a list of settlements
\* and pays them as they fall due: Trading's BooksAgree (ledger.py:855, simulator.py:71).
THEOREM BooksStayInAgreement == TradingConstants => (D!Spec => []D!BooksAgree)
<1> SUFFICES ASSUME TradingConstants PROVE D!Spec => []D!BooksAgree
  OBVIOUS
<1>1. D!IInv => D!BooksAgree
  <2> SUFFICES ASSUME D!IInv, D!In(standing, "booked") = D!Orders
               PROVE  /\ D!SettledCash(D!Orders, now) = account.settled
                      /\ D!UnsettledCash(D!Orders, now) = account.unsettled
                      /\ D!Held(D!Orders) = account.held
    BY DEF D!BooksAgree
  <2>1. D!TypeOK /\ Stands /\ LotsStand /\ D!AccountStands
    BY FiguresAre DEF D!IInv
  <2>2. D!SettledCash(D!Orders, now) = account.settled
    BY <2>1 DEF D!AccountStands, D!SettledCash, D!Settled
  <2>3. D!UnsettledCash(D!Orders, now) = account.unsettled
    <3>1. {i \in D!Sales(D!Orders) : now < D!SettlesAt(i)}
              = D!Sales(D!Orders) \ D!Settled(now)
      <4>1. \A i \in D!Orders : D!SettlesAt(i) \in Nat
        BY <2>1, InstantFacts DEF D!IInv, D!FilledInSessions, D!SettlesAt
      <4>2. now \in Nat
        BY <2>1, TradingDays DEF D!TypeOK, D!SlotsOfDay
      <4> QED
        BY <2>1, <4>1, <4>2, PartsAre DEF D!Settled
    <3> QED
      BY <2>1, <3>1 DEF D!AccountStands, D!UnsettledCash
  <2>4. D!Held(D!Orders) = account.held
    <3>1. Sound(D!Orders)
      BY <2>1, SoundIs DEF LotsStand, Booked
    <3> QED
      BY <2>1, <3>1, HeldIs DEF Stands
  <2> QED
    BY <2>2, <2>3, <2>4
<1>2. D!Spec => []D!IInv
  BY BooksInvariance
<1> QED
  BY <1>1, <1>2, PTL
=============================================================================
