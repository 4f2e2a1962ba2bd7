-------------------------- MODULE Supervision_proofs --------------------------
(***************************************************************************)
(* Proofs about Supervision, for every bound and every set of modes an     *)
(* operator may ask for.  IInv is inductive: only WriteMode changes the    *)
(* mode or what has been visited, so a lemma settles the conjuncts that    *)
(* speak of them for every writer, and each action has to show that it     *)
(* writes a legal step.  The second part is about Unattended, the loop's   *)
(* failure sentinel, taken as an instance: pc, mem, faults and MaxFaults   *)
(* are names the two modules share, and there they are Unattended's.       *)
(***************************************************************************)
EXTENDS Supervision, TLAPS

LEMMA RungFacts ==
    /\ Ladder = {"DISABLED", "RESEARCH", "PAPER", "PRODUCTION_ACTIVE"}
    /\ Rung["DISABLED"] = 0 /\ Rung["RESEARCH"] = 1
    /\ Rung["PAPER"] = 2 /\ Rung["PRODUCTION_ACTIVE"] = 3
BY DEF Ladder, Rung

\* A legal step never climbs past a rung whose predecessors were not visited.
LEMMA LegalStepKeepsClosed ==
    ASSUME NEW seen \in SUBSET Modes, NEW p \in Persisted, NEW m \in Modes,
           NEW from \in Persisted,
           p # "none" => p \in seen,
           p = "PAUSED" => from \in seen \cup {"DISABLED"},
           \A x \in Ladder \cap seen :
               \A r \in Ladder : 0 < Rung[r] /\ Rung[r] < Rung[x] => r \in seen,
           IsLegalStep(Normalized(p), m, from)
    PROVE  \A x \in Ladder \cap (seen \cup {m}) :
               \A r \in Ladder : 0 < Rung[r] /\ Rung[r] < Rung[x] => r \in seen \cup {m}
<1> SUFFICES ASSUME NEW r \in Ladder, m \in Ladder, 0 < Rung[r], Rung[r] < Rung[m]
             PROVE  r \in seen \cup {m}
    OBVIOUS
<1> USE RungFacts
<1>1. CASE m \in seen
    BY <1>1
<1>2. CASE m = "DISABLED"
    BY <1>2
<1>3. CASE m # "DISABLED" /\ m \notin seen
    <2>1. Normalized(p) # m /\ m \notin ImmediateTargets
        BY <1>3 DEF Normalized, ImmediateTargets, Modes
    <2>2. ~(Normalized(p) = "PAUSED" /\ m = from)
        BY <1>3 DEF Normalized
    <2>3. Normalized(p) \in Ladder /\ Adjacent(Normalized(p), m)
        BY <2>1, <2>2 DEF IsLegalStep
    <2>4. CASE p = "none"
        BY <2>3, <2>4 DEF Normalized, Adjacent
    <2>5. CASE p # "none"
        <3>1. p \in Ladder \cap seen /\ Adjacent(p, m)
            BY <2>3, <2>5 DEF Normalized
        <3>2. r = p \/ Rung[r] < Rung[p]
            BY <3>1 DEF Adjacent
        <3> QED
            BY <3>1, <3>2
    <2> QED
        BY <2>4, <2>5
<1> QED
    BY <1>1, <1>2, <1>3 DEF Modes

LEMMA TailsAreTails ==
    ASSUME NEW t \in Tail
    PROVE  /\ TailAfterRow(t) \in Tail /\ TailAfterHalfRow(t) \in Tail
           /\ TailAfterRow(t) = "clean" <=> t = "clean"
           /\ TailAfterHalfRow(t) # "clean"
BY DEF Tail, TailAfterRow, TailAfterHalfRow

\* What every mode write preserves, if it is a legal step on a clean file and a
\* pause records where it comes from.
LEMMA WriteModeEffect ==
    ASSUME IInv, NEW m \in Modes, NEW from \in Persisted, WriteMode(m, from),
           disk.tail = "clean" => IsLegalStep(Normalized(disk.mode), m, disk.from),
           disk.tail = "clean" /\ m = "PAUSED" =>
               from = Normalized(disk.mode) /\ disk.mode # "PAUSED"
    PROVE  /\ disk' \in [mode : Persisted, from : Persisted, tail : Tail]
           /\ mem' \in [mode : Persisted, from : Persisted, claim : Persisted]
           /\ visited' \subseteq Modes
           /\ disk'.tail = "clean" => mem'.mode = disk'.mode /\ mem'.from = disk'.from
           /\ ModeIsVisited' /\ VisitedIsClosed' /\ PauseHasAWayBack'
<1> USE DEF IInv, TypeOK
<1>1. /\ disk'.tail = TailAfterRow(disk.tail) /\ disk'.tail \in Tail
      /\ disk'.tail = "clean" <=> disk.tail = "clean"
    BY TailsAreTails DEF WriteMode
<1>2. m \in Persisted
    BY DEF Persisted
<1>3. /\ disk' \in [mode : Persisted, from : Persisted, tail : Tail]
      /\ mem' = [mem EXCEPT !.mode = m, !.from = from]
      /\ mem' \in [mode : Persisted, from : Persisted, claim : Persisted]
    BY <1>1, <1>2 DEF WriteMode
<1>4. CASE disk.tail = "clean"
    <2>1. disk'.mode = m /\ disk'.from = from /\ visited' = visited \cup {m}
        BY <1>4 DEF WriteMode, Modes, Ladder, Rung
    <2>2. visited' \subseteq Modes /\ ModeIsVisited'
        BY <2>1 DEF ModeIsVisited
    <2>3. disk.mode = "PAUSED" => disk.from \in visited \cup {"DISABLED"}
        BY DEF PauseHasAWayBack
    <2>4. VisitedIsClosed'
        BY <1>4, <2>1, <2>3, LegalStepKeepsClosed DEF ModeIsVisited, VisitedIsClosed
    <2>5. PauseHasAWayBack'
        <3>1. SUFFICES ASSUME m = "PAUSED"
                       PROVE  from \in Ladder /\ from \in visited \cup {"DISABLED"}
            BY <2>1 DEF PauseHasAWayBack, IsLegalStep
        <3> QED
            BY <1>4, <3>1, RungFacts DEF Normalized, ModeIsVisited, Persisted, Modes
    <2> QED
        BY <1>3, <2>1, <2>2, <2>4, <2>5
<1>5. CASE disk.tail # "clean"
    <2>1. disk'.mode = disk.mode /\ disk'.from = disk.from
        BY <1>5 DEF WriteMode
    <2>2. visited' = visited
        BY <1>5, <2>1 DEF WriteMode, ModeIsVisited
    <2> QED
        BY <1>1, <1>3, <1>5, <2>1, <2>2
           DEF ModeIsVisited, VisitedIsClosed, PauseHasAWayBack
<1> QED
    BY <1>4, <1>5

\* A step that leaves the mode file alone, or only tears it.
LEMMA ModeUntouched ==
    ASSUME IInv,
           disk'.mode = disk.mode, disk'.from = disk.from, visited' = visited
    PROVE  ModeIsVisited' /\ VisitedIsClosed' /\ PauseHasAWayBack'
BY DEF IInv, ModeIsVisited, VisitedIsClosed, PauseHasAWayBack

LEMMA AppendEffect ==
    ASSUME TypeOK, NEW m \in Persisted, AppendClaim(m)
    PROVE  /\ log' \in [claim : Persisted, intact : BOOLEAN, tail : Tail]
           /\ dash' \in {"down", "current", "behind"}
BY TailsAreTails DEF TypeOK, AppendClaim

LEMMA AppendsKeepTypes ==
    ASSUME TypeOK, Append
    PROVE  /\ log' \in [claim : Persisted, intact : BOOLEAN, tail : Tail]
           /\ dash' \in {"down", "current", "behind"}
BY AppendEffect DEF TypeOK, Append

LEMMA ModesArePersisted ==
    /\ Target \in Modes /\ "PAUSED" \in Modes /\ "PAUSED" \in Persisted
    /\ "none" \in Persisted /\ \A m \in Modes : m \in Persisted
    /\ \A p \in Persisted : Normalized(p) \in Persisted /\ Normalized(p) # "none"
BY RungFacts DEF Target, Modes, Persisted, Normalized

THEOREM InitEstablishesIInv == Init => IInv
<1> SUFFICES ASSUME Init PROVE IInv
    OBVIOUS
<1> USE DEF Init
<1>1. /\ "none" \in Persisted /\ "clean" \in Tail /\ "DISABLED" \in Modes
      /\ "off" \in Steps
    BY RungFacts, ModesArePersisted DEF Tail, Steps, Modes
<1>2. TypeOK
    <2>1. faults \in 0..MaxFaults /\ commands \in 0..MaxCommands /\ posts \in 0..MaxPosts
        BY BoundsAssumption
    <2>2. /\ disk \in [mode : Persisted, from : Persisted, tail : Tail]
          /\ log \in [claim : Persisted, intact : BOOLEAN, tail : Tail]
          /\ mem \in [mode : Persisted, from : Persisted, claim : Persisted]
        BY <1>1
    <2> QED
        BY <1>1, <2>1, <2>2 DEF TypeOK
<1>3. HolderKnowsTheMode /\ TransitionIsLegal
    BY DEF HolderKnowsTheMode, TransitionIsLegal
<1>4. ModeIsVisited /\ VisitedIsClosed /\ PauseHasAWayBack
    BY DEF ModeIsVisited, VisitedIsClosed, PauseHasAWayBack
<1>5. StepFacts
    BY DEF StepFacts, MemFitsTheStep, CycleVouches, HaltIsPersisted
<1> QED
    BY <1>2, <1>3, <1>4, <1>5 DEF IInv

(***************************************************************************)
(* What each step of a process establishes for the next.                   *)
(***************************************************************************)
LEMMA StepFactsPreserved ==
    ASSUME IInv, [Next]_vars
    PROVE  StepFacts'
<1> USE DEF IInv, StepFacts, MemFitsTheStep, CycleVouches, HaltIsPersisted,
            files, lockVars, budget, history, Goto
<1>1. CASE \/ CycleBegin \/ SyncFails \/ LoopStop \/ AdvanceRefused
           \/ DashStart \/ DashStop \/ BooksChange \/ StatusAges \/ CheckTransition
    <2>1. CASE DashStart \/ DashStop \/ BooksChange \/ StatusAges
        BY <2>1 DEF DashStart, DashStop, BooksChange, StatusAges
    <2>2. CASE CycleBegin \/ SyncFails \/ LoopStop \/ AdvanceRefused
        BY <2>2 DEF CycleBegin, SyncFails, LoopStop, AdvanceRefused
    <2>3. CASE CheckTransition
        <3>1. pc' \in {"reconcile", "halt"}
            BY <2>3, Zenon DEF CheckTransition
        <3>2. UNCHANGED <<disk, log, mem, lastRecon, halted>>
            BY <2>3 DEF CheckTransition
        <3> QED
            BY <3>1, <3>2
    <2> QED
        BY <1>1, <2>1, <2>2, <2>3
<1>2. CASE \/ HaltClaim \/ Complete \/ PipelineFails \/ AdvanceClaim
           \/ ReconcileOnce \/ SubmitApproved
    BY <1>2 DEF HaltClaim, Complete, PipelineFails, AdvanceClaim, ReconcileOnce,
        SubmitApproved
<1>3. CASE Reconcile
    BY <1>3 DEF Reconcile
<1>4. CASE LoopStart \/ AdvanceStart
    BY <1>4 DEF LoopStart, AdvanceStart, LockAndLoad
<1>5. CASE LoopCatchUp \/ AdvanceCatchUp
    BY <1>5 DEF LoopCatchUp, AdvanceCatchUp, CatchUp
<1>6. CASE Halt
    <2>1. mem.mode = "PAUSED" /\ disk.tail = "clean" => disk.mode = "PAUSED"
        BY <1>6 DEF Halt, HolderKnowsTheMode
    <2>2. Pause => /\ mem'.mode = "PAUSED"
                   /\ disk'.tail = "clean" => disk'.mode = "PAUSED"
        BY TailsAreTails DEF Pause, WriteMode, TypeOK
    <2> QED
        BY <1>6, <2>1, <2>2 DEF Halt
<1>7. CASE Verify
    <2>1. mem.mode = "PAUSED" /\ disk.tail = "clean" => disk.mode = "PAUSED"
        BY <1>7 DEF Verify, HolderKnowsTheMode
    <2>2. Pause => (disk'.tail = "clean" => disk'.mode = "PAUSED")
        BY TailsAreTails DEF Pause, WriteMode, TypeOK
    <2> QED
        BY <1>7, <2>1, <2>2 DEF Verify
<1>8. CASE Adopt
    <2>1. WriteMode(Target, "none") => mem'.mode = Target
        BY DEF WriteMode, TypeOK
    <2> QED
        BY <1>8, <2>1 DEF Adopt
<1>9. CASE AdoptClaim
    BY <1>9 DEF AdoptClaim, AppendClaim, TypeOK
<1>10. CASE AdvanceWrite
    <2>1. mem'.mode = target
        BY <1>10 DEF AdvanceWrite, Pause, WriteMode, TypeOK
    <2> QED
        BY <1>10, <2>1 DEF AdvanceWrite
<1>11. CASE DashAppend
    BY <1>11 DEF DashAppend
<1>12. CASE Crash
    BY <1>12, TailsAreTails DEF Crash, TypeOK
<1>13. CASE UNCHANGED vars
    BY <1>13 DEF vars
<1> QED
    BY <1>1, <1>2, <1>3, <1>4, <1>5, <1>6, <1>7, <1>8, <1>9, <1>10, <1>11, <1>12, <1>13
       DEF Next, LoopStep, AdvanceStep

(***************************************************************************)
(* The steps that write no mode: their types, what the holder knows, and   *)
(* the legality they carry along.                                          *)
(***************************************************************************)
LEMMA QuietPreserves ==
    ASSUME IInv, StepFacts',
           \/ CycleBegin \/ SyncFails \/ LoopStop \/ AdvanceRefused
           \/ DashStart \/ DashStop \/ BooksChange \/ StatusAges
    PROVE  IInv'
<1> USE DEF IInv, TypeOK, files, lockVars, budget, history, Goto
<1>1. TypeOK'
    <2>1. CASE CycleBegin \/ AdvanceRefused
        BY <2>1 DEF CycleBegin, AdvanceRefused, Steps
    <2>2. CASE SyncFails \/ LoopStop
        BY <2>2, BoundsAssumption DEF SyncFails, LoopStop, Steps
    <2>3. CASE DashStart \/ DashStop \/ BooksChange \/ StatusAges
        BY <2>3 DEF DashStart, DashStop, BooksChange, StatusAges
    <2> QED
        BY <2>1, <2>2, <2>3
<1>2. HolderKnowsTheMode' /\ TransitionIsLegal'
    BY DEF HolderKnowsTheMode, TransitionIsLegal, CycleBegin, SyncFails, LoopStop,
        AdvanceRefused, DashStart, DashStop, BooksChange, StatusAges
<1>3. disk' = disk /\ visited' = visited
    BY DEF CycleBegin, SyncFails, LoopStop, AdvanceRefused, DashStart, DashStop,
        BooksChange, StatusAges
<1> QED
    BY <1>1, <1>2, <1>3, ModeUntouched

LEMMA AppendersPreserve ==
    ASSUME IInv, StepFacts',
           \/ HaltClaim \/ Complete \/ PipelineFails \/ AdvanceClaim
           \/ Reconcile \/ ReconcileOnce \/ SubmitApproved
    PROVE  IInv'
<1> USE DEF IInv, TypeOK, lockVars, budget, history, Goto
<1>1. disk' = disk /\ visited' = visited /\ mem' = mem /\ target' = target
    BY DEF HaltClaim, Complete, PipelineFails, AdvanceClaim, Reconcile, ReconcileOnce,
        SubmitApproved
<1>2. /\ log' \in [claim : Persisted, intact : BOOLEAN, tail : Tail]
      /\ dash' \in {"down", "current", "behind"}
    BY AppendEffect, AppendsKeepTypes, ModesArePersisted
       DEF HaltClaim, Complete, PipelineFails, AdvanceClaim, Reconcile, ReconcileOnce,
           SubmitApproved
<1>3. /\ pc' \in Steps /\ agree' \in BOOLEAN /\ status' \in {"none", "fresh", "stale"}
      /\ faults' \in 0..MaxFaults /\ commands' \in 0..MaxCommands
      /\ posts' \in 0..MaxPosts
      /\ lastRecon' \in {"none", "pass", "mismatch"} /\ halted' \in BOOLEAN
    BY BoundsAssumption DEF HaltClaim, Complete, PipelineFails, AdvanceClaim, Reconcile,
        ReconcileOnce, SubmitApproved, Steps
<1>4. TypeOK'
    BY <1>1, <1>2, <1>3
<1>5. HolderKnowsTheMode' /\ TransitionIsLegal'
    BY <1>1 DEF HolderKnowsTheMode, TransitionIsLegal, HaltClaim, Complete, PipelineFails,
        AdvanceClaim, Reconcile, ReconcileOnce, SubmitApproved
<1> QED
    BY <1>1, <1>4, <1>5, ModeUntouched

LEMMA StartsPreserve ==
    ASSUME IInv, StepFacts', LoopStart \/ AdvanceStart
    PROVE  IInv'
<1> USE DEF IInv, TypeOK, files, budget, history, Goto
<1>1. disk' = disk /\ visited' = visited /\ mem' = Loaded
    BY DEF LoopStart, AdvanceStart, LockAndLoad
<1>2. /\ log' \in [claim : Persisted, intact : BOOLEAN, tail : Tail]
      /\ dash' \in {"down", "current", "behind"}
    BY AppendsKeepTypes DEF LoopStart, AdvanceStart
<1>3. /\ mem' \in [mode : Persisted, from : Persisted, claim : Persisted]
      /\ target' \in Modes
    BY <1>1, AdvanceAssumption DEF Loaded, LoopStart, AdvanceStart
<1>4. TypeOK'
    BY <1>1, <1>2, <1>3, BoundsAssumption DEF LoopStart, AdvanceStart, LockAndLoad, Steps
<1>5. HolderKnowsTheMode' /\ TransitionIsLegal'
    BY <1>1 DEF HolderKnowsTheMode, TransitionIsLegal, Loaded, LoopStart, AdvanceStart,
        LockAndLoad
<1> QED
    BY <1>1, <1>4, <1>5, ModeUntouched

LEMMA CatchUpPreserves ==
    ASSUME IInv, StepFacts', LoopCatchUp \/ AdvanceCatchUp
    PROVE  IInv'
<1> USE DEF IInv, TypeOK, budget, history, Goto, LoopCatchUp, AdvanceCatchUp
<1>1. /\ disk' = disk /\ visited' = visited
      /\ mem'.mode = mem.mode /\ mem'.from = mem.from
      /\ mem' \in [mode : Persisted, from : Persisted, claim : Persisted]
    BY DEF CatchUp
<1>2. /\ log' \in [claim : Persisted, intact : BOOLEAN, tail : Tail]
      /\ dash' \in {"down", "current", "behind"}
    <2>1. PICK m \in Persisted : m = mem.mode
        OBVIOUS
    <2>2. UNCHANGED <<log, dash>> \/ AppendClaim(m)
        BY <2>1 DEF CatchUp
    <2> QED
        BY <2>2, AppendEffect
<1>3. TypeOK'
    BY <1>1, <1>2 DEF CatchUp, Steps
<1>4. HolderKnowsTheMode' /\ TransitionIsLegal'
    BY <1>1 DEF HolderKnowsTheMode, TransitionIsLegal, CatchUp
<1> QED
    BY <1>1, <1>3, <1>4, ModeUntouched

LEMMA CheckTransitionPreserves ==
    ASSUME IInv, StepFacts', CheckTransition
    PROVE  IInv'
<1> USE DEF IInv, TypeOK, files, budget, history, Goto, CheckTransition
<1>1. TypeOK'
    BY DEF Steps
<1>2. HolderKnowsTheMode'
    BY DEF HolderKnowsTheMode
<1>3. TransitionIsLegal'
    BY DEF TransitionIsLegal
<1> QED
    BY <1>1, <1>2, <1>3, ModeUntouched

LEMMA AdoptClaimPreserves ==
    ASSUME IInv, StepFacts', AdoptClaim
    PROVE  IInv'
<1> USE DEF IInv, TypeOK, budget, history, Goto, AdoptClaim
<1>1. /\ log' \in [claim : Persisted, intact : BOOLEAN, tail : Tail]
      /\ dash' \in {"down", "current", "behind"}
    BY AppendEffect, ModesArePersisted
<1>2. TypeOK'
    BY <1>1, ModesArePersisted DEF Steps
<1>3. HolderKnowsTheMode' /\ TransitionIsLegal'
    BY DEF HolderKnowsTheMode, TransitionIsLegal
<1> QED
    BY <1>2, <1>3, ModeUntouched

LEMMA DashAppendPreserves ==
    ASSUME IInv, StepFacts', DashAppend
    PROVE  IInv'
<1> USE DEF IInv, TypeOK, lockVars, budget, history, DashAppend
<1>1. TypeOK'
    BY TailsAreTails
<1>2. HolderKnowsTheMode' /\ TransitionIsLegal'
    BY DEF HolderKnowsTheMode, TransitionIsLegal
<1> QED
    BY <1>1, <1>2, ModeUntouched

LEMMA CrashPreserves ==
    ASSUME IInv, StepFacts', Crash
    PROVE  IInv'
<1> USE DEF IInv, TypeOK, files, history, Goto, Crash
<1>1. /\ disk' \in [mode : Persisted, from : Persisted, tail : Tail]
      /\ log' \in [claim : Persisted, intact : BOOLEAN, tail : Tail]
    BY TailsAreTails
<1>2. disk'.mode = disk.mode /\ disk'.from = disk.from /\ visited' = visited
    OBVIOUS
<1>3. TypeOK'
    BY <1>1, BoundsAssumption DEF Steps
<1>4. HolderKnowsTheMode' /\ TransitionIsLegal'
    BY DEF HolderKnowsTheMode, TransitionIsLegal
<1> QED
    BY <1>2, <1>3, <1>4, ModeUntouched

(***************************************************************************)
(* The steps that write the mode.                                          *)
(***************************************************************************)
\* Pausing is always legal, and from any mode but PAUSED remembers a rung.
LEMMA PauseEffect ==
    ASSUME IInv, pc # "off", mem.mode # "PAUSED", Pause
    PROVE  /\ disk' \in [mode : Persisted, from : Persisted, tail : Tail]
           /\ mem' \in [mode : Persisted, from : Persisted, claim : Persisted]
           /\ visited' \subseteq Modes
           /\ disk'.tail = "clean" => mem'.mode = disk'.mode /\ mem'.from = disk'.from
           /\ ModeIsVisited' /\ VisitedIsClosed' /\ PauseHasAWayBack'
<1>1. PICK from \in Persisted : from = Normalized(mem.mode)
    BY ModesArePersisted DEF IInv, TypeOK
<1>2. WriteMode("PAUSED", from)
    BY <1>1 DEF Pause
<1>3. disk.tail = "clean" => from = Normalized(disk.mode) /\ disk.mode # "PAUSED"
    BY <1>1 DEF IInv, HolderKnowsTheMode
<1>4. IsLegalStep(Normalized(disk.mode), "PAUSED", disk.from)
    BY DEF IsLegalStep, ImmediateTargets
<1> QED
    BY <1>2, <1>3, <1>4, WriteModeEffect, ModesArePersisted

LEMMA HaltPreserves ==
    ASSUME IInv, StepFacts', Halt
    PROVE  IInv'
<1> USE DEF budget, Goto, Halt
<1>1. CASE mem.mode = "PAUSED"
    <2>1. TypeOK'
        BY <1>1, AppendsKeepTypes DEF IInv, TypeOK, Steps
    <2>2. HolderKnowsTheMode' /\ TransitionIsLegal'
        BY <1>1 DEF HolderKnowsTheMode, TransitionIsLegal
    <2> QED
        BY <1>1, <2>1, <2>2, ModeUntouched DEF IInv
<1>2. CASE mem.mode # "PAUSED"
    <2>1. Pause /\ pc' = "halted" /\ pc = "halt" /\ UNCHANGED <<log, dash>>
        BY <1>2
    <2>2. TypeOK'
        BY <1>2, <2>1, PauseEffect DEF IInv, TypeOK, Steps
    <2>3. HolderKnowsTheMode' /\ TransitionIsLegal'
        BY <1>2, <2>1, PauseEffect DEF HolderKnowsTheMode, TransitionIsLegal
    <2> QED
        BY <1>2, <2>1, <2>2, <2>3, PauseEffect DEF IInv
<1> QED
    BY <1>1, <1>2

LEMMA VerifyPreserves ==
    ASSUME IInv, StepFacts', Verify
    PROVE  IInv'
<1> USE DEF budget, Goto, Verify
<1>1. CASE log.intact \/ mem.mode = "PAUSED"
    <2>1. UNCHANGED <<disk, mem, visited>>
        BY <1>1
    <2>2. TypeOK'
        BY <2>1 DEF IInv, TypeOK, Steps
    <2>3. HolderKnowsTheMode' /\ TransitionIsLegal'
        BY <2>1 DEF IInv, HolderKnowsTheMode, TransitionIsLegal
    <2> QED
        BY <2>1, <2>2, <2>3, ModeUntouched DEF IInv
<1>2. CASE ~log.intact /\ mem.mode # "PAUSED"
    <2>1. Pause /\ pc' = "off" /\ pc = "verify"
        BY <1>2
    <2>2. TypeOK'
        BY <1>2, <2>1, PauseEffect DEF IInv, TypeOK, Steps
    <2>3. HolderKnowsTheMode' /\ TransitionIsLegal'
        BY <2>1 DEF HolderKnowsTheMode, TransitionIsLegal
    <2> QED
        BY <1>2, <2>1, <2>2, <2>3, PauseEffect DEF IInv
<1> QED
    BY <1>1, <1>2

LEMMA AdoptPreserves ==
    ASSUME IInv, StepFacts', Adopt
    PROVE  IInv'
<1> USE DEF budget, Goto, Adopt
<1>1. CASE mem.mode = Target
    <2>1. UNCHANGED <<disk, mem, visited>> /\ pc' = "complete" /\ pc = "adopt"
        BY <1>1
    <2>2. TypeOK'
        BY <2>1 DEF IInv, TypeOK, Steps
    <2>3. HolderKnowsTheMode' /\ TransitionIsLegal'
        BY <2>1 DEF IInv, HolderKnowsTheMode, TransitionIsLegal
    <2> QED
        BY <2>1, <2>2, <2>3, ModeUntouched DEF IInv
<1>2. CASE mem.mode # Target
    <2>1. WriteMode(Target, "none") /\ pc' = "adopted" /\ pc = "adopt"
        BY <1>2
    <2>2. disk.tail = "clean" => IsLegalStep(Normalized(disk.mode), Target, disk.from)
        BY <2>1 DEF IInv, TransitionIsLegal, AcceptedAtLoad, HolderKnowsTheMode
    <2>3. /\ disk' \in [mode : Persisted, from : Persisted, tail : Tail]
          /\ mem' \in [mode : Persisted, from : Persisted, claim : Persisted]
          /\ visited' \subseteq Modes
          /\ disk'.tail = "clean" => mem'.mode = disk'.mode /\ mem'.from = disk'.from
          /\ ModeIsVisited' /\ VisitedIsClosed' /\ PauseHasAWayBack'
        BY <2>1, <2>2, WriteModeEffect, ModesArePersisted DEF Target
    <2>4. TypeOK'
        BY <1>2, <2>1, <2>3 DEF IInv, TypeOK, Steps
    <2>5. HolderKnowsTheMode' /\ TransitionIsLegal'
        BY <2>1, <2>3 DEF HolderKnowsTheMode, TransitionIsLegal
    <2> QED
        BY <2>3, <2>4, <2>5 DEF IInv
<1> QED
    BY <1>1, <1>2

LEMMA AdvanceWritePreserves ==
    ASSUME IInv, StepFacts', AdvanceWrite
    PROVE  IInv'
<1> USE DEF budget, Goto, AdvanceWrite
<1>1. /\ disk' \in [mode : Persisted, from : Persisted, tail : Tail]
      /\ mem' \in [mode : Persisted, from : Persisted, claim : Persisted]
      /\ visited' \subseteq Modes
      /\ disk'.tail = "clean" => mem'.mode = disk'.mode /\ mem'.from = disk'.from
      /\ ModeIsVisited' /\ VisitedIsClosed' /\ PauseHasAWayBack'
    <2>1. CASE target = "PAUSED"
        BY <2>1, PauseEffect
    <2>2. CASE target # "PAUSED"
        <3>1. PICK m \in Modes : m = target
            BY DEF IInv, TypeOK
        <3>2. WriteMode(m, "none") /\ m # "PAUSED"
            BY <2>2, <3>1
        <3>3. disk.tail = "clean" => IsLegalStep(Normalized(disk.mode), m, disk.from)
            BY <3>1 DEF Advanceable, AcceptedAtLoad, IInv, HolderKnowsTheMode
        <3> QED
            BY <3>2, <3>3, WriteModeEffect, ModesArePersisted
    <2> QED
        BY <2>1, <2>2
<1>2. TypeOK'
    BY <1>1 DEF IInv, TypeOK, Steps
<1>3. HolderKnowsTheMode' /\ TransitionIsLegal'
    BY <1>1 DEF HolderKnowsTheMode, TransitionIsLegal
<1> QED
    BY <1>1, <1>2, <1>3 DEF IInv

THEOREM StepPreservesIInv == IInv /\ [Next]_vars => IInv'
<1> SUFFICES ASSUME IInv, [Next]_vars PROVE IInv'
    OBVIOUS
<1>0. StepFacts'
    BY StepFactsPreserved
<1>1. CASE LoopStep \/ SyncFails \/ PipelineFails \/ LoopStop
    BY <1>0, <1>1, QuietPreserves, AppendersPreserve, StartsPreserve, CatchUpPreserves,
       CheckTransitionPreserves, AdoptClaimPreserves, HaltPreserves, VerifyPreserves,
       AdoptPreserves
       DEF LoopStep
<1>2. CASE AdvanceStart \/ AdvanceStep
    BY <1>0, <1>2, QuietPreserves, AppendersPreserve, StartsPreserve, CatchUpPreserves,
       AdvanceWritePreserves
       DEF AdvanceStep
<1>3. CASE ReconcileOnce \/ SubmitApproved
    BY <1>0, <1>3, AppendersPreserve
<1>4. CASE DashStart \/ DashAppend \/ DashStop
    BY <1>0, <1>4, QuietPreserves, DashAppendPreserves
<1>5. CASE BooksChange \/ StatusAges \/ Crash
    BY <1>0, <1>5, QuietPreserves, CrashPreserves
<1>6. CASE UNCHANGED vars
    <2> USE <1>6 DEF vars, files, lockVars, budget, history
    <2>1. TypeOK'
        BY DEF IInv, TypeOK
    <2>2. HolderKnowsTheMode' /\ TransitionIsLegal'
        BY DEF IInv, HolderKnowsTheMode, TransitionIsLegal
    <2> QED
        BY <1>0, <2>1, <2>2, ModeUntouched DEF IInv
<1> QED
    BY <1>1, <1>2, <1>3, <1>4, <1>5, <1>6 DEF Next

THEOREM Invariance == Spec => []IInv
BY InitEstablishesIInv, StepPreservesIInv, PTL DEF Spec

\* Type correctness.
THEOREM TypeCorrect == Spec => []TypeOK
<1>1. IInv => TypeOK
    BY DEF IInv
<1> QED
    BY <1>1, Invariance, PTL

\* No mode is persisted above a rung never stood on, whatever the operator asks
\* for and however often a write is torn (agent/mode.py, agent/mode_store.py).
THEOREM NoRungIsSkipped == Spec => []RungsAreClimbed
<1>1. IInv => RungsAreClimbed
    BY RungFacts DEF IInv, ModeIsVisited, VisitedIsClosed, RungsAreClimbed
<1> QED
    BY <1>1, Invariance, PTL

\* Every pause can be left for the rung it was entered from (agent/mode.py,
\* agent/startup.py).
THEOREM NoDeadEnd == Spec => []PauseHasAWayBack
<1>1. IInv => PauseHasAWayBack
    BY DEF IInv
<1> QED
    BY <1>1, Invariance, PTL

\* The log claims a mode only after the store holds it, on a file no crash has
\* torn (DECISION 5 of agent/startup.py).
THEOREM NoFalseClaim == Spec => ClaimsAreTrue
<1>1. ASSUME IInv, [Next]_vars, log'.claim # log.claim, disk.tail = "clean"
      PROVE  log'.claim = disk.mode
    <2> USE <1>1 DEF IInv, files, lockVars, budget, history, AppendClaim, Append, TypeOK
    <2>1. CASE \/ CycleBegin \/ SyncFails \/ LoopStop \/ AdvanceRefused \/ BooksChange
               \/ DashStart \/ DashStop \/ DashAppend \/ StatusAges \/ CheckTransition
        BY <2>1 DEF CycleBegin, SyncFails, LoopStop, AdvanceRefused, DashStart,
            DashStop, DashAppend, BooksChange, StatusAges, CheckTransition
    <2>2. CASE \/ Complete \/ PipelineFails \/ Reconcile \/ ReconcileOnce
               \/ SubmitApproved \/ LoopStart \/ AdvanceStart
        BY <2>2 DEF Complete, PipelineFails, Reconcile, ReconcileOnce, SubmitApproved,
            LoopStart, AdvanceStart
    <2>3. CASE \/ LoopCatchUp \/ AdvanceCatchUp \/ HaltClaim \/ AdvanceClaim \/ AdoptClaim
        BY <2>3 DEF LoopCatchUp, AdvanceCatchUp, CatchUp, HaltClaim, AdvanceClaim,
            AdoptClaim, StepFacts, MemFitsTheStep, HolderKnowsTheMode
    <2>4. CASE Halt \/ Verify \/ Adopt \/ AdvanceWrite \/ Crash \/ UNCHANGED vars
        BY <2>4 DEF Halt, Verify, Adopt, AdvanceWrite, Crash, vars
    <2> QED
        BY <2>1, <2>2, <2>3, <2>4 DEF Next, LoopStep, AdvanceStep
<1> QED
    BY <1>1, Invariance, PTL DEF Spec, ClaimsAreTrue

\* After a halt no order is posted until a cycle or an operator lifts it, on a
\* mode file no crash has torn (agent/mode_store.py, agent/approval_execution.py).
THEOREM HaltShutsTrading == Spec => HaltHolds
<1>1. ASSUME IInv, [Next]_vars, posts' # posts, disk.tail = "clean"
      PROVE  ~halted
    <2>1. SubmitApproved
        BY <1>1 DEF Next, LoopStep, AdvanceStep, vars, files, lockVars, budget, history,
            LoopStart, CycleBegin, LoopCatchUp, CatchUp, CheckTransition, Reconcile, Halt,
            HaltClaim, Verify, Adopt, AdoptClaim, Complete, SyncFails, PipelineFails,
            LoopStop, AdvanceStart, AdvanceCatchUp, AdvanceRefused, AdvanceWrite,
            AdvanceClaim, ReconcileOnce, DashStart, DashAppend, DashStop, BooksChange,
            StatusAges, Crash
    <2>2. disk.mode # "PAUSED"
        BY <2>1 DEF SubmitApproved, Normalized
    <2> QED
        BY <1>1, <2>2 DEF IInv, StepFacts, HaltIsPersisted
<1> QED
    BY <1>1, Invariance, PTL DEF Spec, HaltHolds

\* A completed cycle follows a passing reconciliation on a chain that verifies,
\* with no halt outstanding (agent/startup.py, agent/run_loop.py).
THEOREM CompletionIsEarned == Spec => StatusIsEarned
<1>1. ASSUME IInv, pc = "complete", pc' = "asleep"
      PROVE  lastRecon = "pass" /\ log.intact /\ ~halted /\ mem.mode = Target
    BY <1>1 DEF IInv, StepFacts, CycleVouches, MemFitsTheStep
<1> QED
    BY <1>1, Invariance, PTL DEF Spec, StatusIsEarned

-----------------------------------------------------------------------------
(* The failure sentinel *)

CONSTANT MaxCount
VARIABLES cond, rec, kind, once, diag, streak, missed
U == INSTANCE Unattended

\* What Unattended assumes of its constants.
SentinelConstants ==
    MaxCount \in Nat /\ MaxCount > U!FAILURE_ALERT_THRESHOLD /\ MaxFaults \in Nat

LEMMA SentinelBounds ==
    ASSUME SentinelConstants
    PROVE  MaxCount \in Nat /\ MaxCount > U!FAILURE_ALERT_THRESHOLD /\ MaxFaults \in Nat
BY DEF SentinelConstants

\* The records there are: the file's, and the copies the processes hold.
InHands == {rec, mem, once.mem, diag.mem}

\* A page is due only while it is on its way, and the loop holds no copy then.
DueIsOnItsWay ==
    /\ pc # "paging" => \A r \in InHands : r.page # "due"
    /\ pc = "paging" => mem = U!None

\* Whoever holds a record that counts to the threshold knows of its page.
CountHasAPage ==
    \A r \in InHands : r.count >= U!FAILURE_ALERT_THRESHOLD => r.page # "none"

\* Who is about to save a recovery holds the record it is of, and a halt has a kind.
StepsAreInformed ==
    /\ pc \in {"raised", "recording"} => kind \in U!Kinds
    /\ pc = "marking" => mem # U!None
    /\ once.pc = "marking" => once.mem # U!None
    /\ diag.pc = "marking" => diag.mem # U!None

SentinelInv == U!TypeOK /\ DueIsOnItsWay /\ CountHasAPage /\ StepsAreInformed

-----------------------------------------------------------------------------
LEMMA NoneIsARecord ==
    /\ U!None \in U!Records /\ U!None.count = 0 /\ U!None.page = "none" /\ U!None.status = "none"
BY DEF U!Records, U!None

LEMMA RecordParts ==
    ASSUME SentinelConstants, NEW r \in U!Records
    PROVE  /\ r.kind \in U!Kinds \cup {"none"} /\ r.count \in 0..MaxCount
           /\ r.status \in {"active", "recovered", "none"}
           /\ r.page \in {"none", "due", "told", "lost", "over"}
           /\ r # U!None => r \in U!Record
BY SentinelBounds DEF U!Records, U!Record, U!None

\* What a halt makes of the record it found: a new streak, or one more.
LEMMA RecordFailureFacts ==
    ASSUME SentinelConstants, NEW prior \in U!Records, NEW k \in U!Kinds,
           prior.count >= U!FAILURE_ALERT_THRESHOLD => prior.page # "none"
    PROVE  LET r == U!RecordFailure(prior, k)
           IN /\ r \in U!Record
              /\ r.page \in {"none", prior.page}
              /\ r.count >= U!FAILURE_ALERT_THRESHOLD /\ ~U!ShouldAlert(r) => r.page # "none"
<1>1. CASE prior.status = "active" /\ prior.kind = k
  <2>1. prior \in U!Record
    BY <1>1, NoneIsARecord, RecordParts
  <2>2. U!RecordFailure(prior, k) = U!Extended(prior)
    BY <1>1 DEF U!RecordFailure
  <2>3. U!Saturated(prior.count + 1) \in 1..MaxCount
    BY <2>1, SentinelBounds DEF U!Saturated, U!Record
  <2>4. U!Extended(prior) \in U!Record
    BY <2>1, <2>3 DEF U!Extended, U!Record
  <2>5. /\ U!Extended(prior).page = prior.page
        /\ U!Extended(prior).count = U!Saturated(prior.count + 1)
    BY <2>1 DEF U!Extended, U!Record
  <2>6. CASE prior.count >= U!FAILURE_ALERT_THRESHOLD
    BY <2>2, <2>4, <2>5, <2>6
  <2>7. CASE ~(prior.count >= U!FAILURE_ALERT_THRESHOLD)
    <3>1. U!Saturated(prior.count + 1) <= U!FAILURE_ALERT_THRESHOLD
      BY <2>1, <2>7, SentinelBounds DEF U!Saturated, U!Record, U!FAILURE_ALERT_THRESHOLD
    <3>2. U!Extended(prior).count >= U!FAILURE_ALERT_THRESHOLD => U!ShouldAlert(U!Extended(prior))
      BY <2>3, <2>5, <3>1, SentinelBounds DEF U!ShouldAlert, U!FAILURE_ALERT_THRESHOLD
    <3> QED
      BY <2>2, <2>4, <2>5, <3>2
  <2> QED
    BY <2>6, <2>7
<1>2. CASE ~(prior.status = "active" /\ prior.kind = k)
  <2>1. U!RecordFailure(prior, k) = U!Opened(k)
    BY <1>2 DEF U!RecordFailure
  <2>2. /\ U!Opened(k) \in U!Record /\ U!Opened(k).count = 1 /\ U!Opened(k).page = "none"
    BY SentinelBounds DEF U!Opened, U!Record, U!FAILURE_ALERT_THRESHOLD
  <2> QED
    BY <2>1, <2>2 DEF U!FAILURE_ALERT_THRESHOLD
<1> QED
  BY <1>1, <1>2

LEMMA RecoveredFacts ==
    ASSUME SentinelConstants, NEW r \in U!Records, r # U!None
    PROVE  /\ U!Recovered(r) \in U!Records
           /\ U!Recovered(r).count = r.count /\ U!Recovered(r).page = r.page
BY RecordParts DEF U!Recovered, U!Records, U!Record

LEMMA PagedFacts ==
    ASSUME SentinelConstants, NEW r \in U!Records, NEW how \in {"told", "lost"}
    PROVE  /\ U!Paged(r, how) \in U!Records
           /\ U!Paged(r, how).count = r.count
           /\ U!Paged(r, how).page # "due"
           /\ r # U!None => U!Paged(r, how) # U!None
           /\ r.page # "none" => U!Paged(r, how).page # "none"
<1>1. CASE r = U!None
  BY <1>1, NoneIsARecord DEF U!Paged
<1>2. CASE r \in U!Record
  <2>1. U!Record \subseteq U!Records /\ U!None \notin U!Record
    BY DEF U!Records, U!Record, U!None, U!Kinds
  <2>2. U!Paged(r, how) \in U!Record /\ U!Paged(r, how).count = r.count
    BY <1>2 DEF U!Paged, U!Record
  <2>3. /\ U!Paged(r, how).page # "due"
        /\ r.page # "none" => U!Paged(r, how).page # "none"
    BY <1>2 DEF U!Paged, U!Record
  <2> QED
    BY <2>1, <2>2, <2>3
<1> QED
  BY <1>1, <1>2, RecordParts

-----------------------------------------------------------------------------
LEMMA SentinelInit == SentinelConstants /\ U!Init => SentinelInv
<1> SUFFICES ASSUME SentinelConstants, U!Init PROVE SentinelInv
  OBVIOUS
<1>1. 0 \in 0..MaxFaults /\ 0 \in 0..MaxCount
  BY SentinelBounds DEF U!FAILURE_ALERT_THRESHOLD
<1>2. /\ once \in [pc : {"idle", "passed", "marking"}, mem : U!Records]
      /\ diag \in [pc : {"idle", "read", "marking"}, mem : U!Records,
                   fail : BOOLEAN, unavailable : BOOLEAN]
  BY NoneIsARecord DEF U!Init, U!Idle, U!NoReport
<1>3. U!TypeOK
  BY <1>1, <1>2, NoneIsARecord DEF U!Init, U!TypeOK
<1>4. \A r \in InHands : r = U!None
  BY DEF U!Init, InHands, U!Idle, U!NoReport
<1> QED
  BY <1>3, <1>4, NoneIsARecord
     DEF U!Init, SentinelInv, DueIsOnItsWay, CountHasAPage, StepsAreInformed, U!Idle, U!NoReport,
         U!FAILURE_ALERT_THRESHOLD

\* A step that puts no record in anybody's hands that was not in somebody's.
LEMMA CopiesKeep ==
    ASSUME SentinelConstants, SentinelInv, U!TypeOK', StepsAreInformed',
           InHands' \subseteq InHands \cup {U!None},
           pc' = "paging" <=> pc = "paging", pc = "paging" => mem' = mem
    PROVE  SentinelInv'
<1>1. DueIsOnItsWay'
  BY NoneIsARecord DEF SentinelInv, DueIsOnItsWay
<1>2. CountHasAPage'
  BY NoneIsARecord DEF SentinelInv, CountHasAPage, U!FAILURE_ALERT_THRESHOLD
<1> QED
  BY <1>1, <1>2 DEF SentinelInv

\* A step that marks the record somebody holds, or notes what became of its page.
LEMMA MarksKeep ==
    ASSUME SentinelConstants, SentinelInv, U!TypeOK', StepsAreInformed',
           NEW r \in InHands, r # U!None,
           NEW s, s.count = r.count, s.page \in {r.page, "over"},
           InHands' \subseteq InHands \cup {U!None, s},
           pc' = "paging" <=> pc = "paging", pc = "paging" => mem' = mem
    PROVE  SentinelInv'
<1>1. DueIsOnItsWay'
  BY NoneIsARecord DEF SentinelInv, DueIsOnItsWay
<1>2. s.count >= U!FAILURE_ALERT_THRESHOLD => s.page # "none"
  BY DEF SentinelInv, CountHasAPage
<1>3. CountHasAPage'
  BY <1>2, NoneIsARecord DEF SentinelInv, CountHasAPage, U!FAILURE_ALERT_THRESHOLD
<1> QED
  BY <1>1, <1>3 DEF SentinelInv

\* Every copy of a record whose page was on its way learns what became of it.
LEMMA PagingEnds ==
    ASSUME SentinelConstants, SentinelInv, pc = "paging", pc' = "down", mem' = U!None,
           NEW how \in {"told", "lost"},
           U!PageIs(how), faults' \in 0..MaxFaults, missed' \in BOOLEAN,
           UNCHANGED <<cond, kind, streak>>
    PROVE  SentinelInv'
<1>1. /\ rec \in U!Records /\ once.mem \in U!Records /\ diag.mem \in U!Records
      /\ \A r \in {rec, once.mem, diag.mem} :
            r.count >= U!FAILURE_ALERT_THRESHOLD => r.page # "none"
  BY DEF SentinelInv, U!TypeOK, CountHasAPage, InHands
<1>2. /\ rec' = U!Paged(rec, how)
      /\ once' = [once EXCEPT !.mem = U!Paged(once.mem, how)]
      /\ diag' = [diag EXCEPT !.mem = U!Paged(diag.mem, how)]
  BY DEF U!PageIs
<1>3. /\ rec' \in U!Records /\ U!Paged(once.mem, how) \in U!Records
      /\ U!Paged(diag.mem, how) \in U!Records
  BY <1>1, <1>2, PagedFacts
<1>4. /\ once' \in [pc : {"idle", "passed", "marking"}, mem : U!Records]
      /\ diag' \in [pc : {"idle", "read", "marking"}, mem : U!Records,
                    fail : BOOLEAN, unavailable : BOOLEAN]
      /\ once'.mem = U!Paged(once.mem, how) /\ diag'.mem = U!Paged(diag.mem, how)
  BY <1>2, <1>3 DEF SentinelInv, U!TypeOK
<1>5. U!TypeOK'
  BY <1>3, <1>4, NoneIsARecord DEF SentinelInv, U!TypeOK
<1>6. InHands' = {U!Paged(rec, how), U!None, U!Paged(once.mem, how), U!Paged(diag.mem, how)}
  BY <1>2, <1>4 DEF InHands
<1>7. \A r \in {rec, once.mem, diag.mem} :
         /\ U!Paged(r, how).page # "due"
         /\ U!Paged(r, how).count >= U!FAILURE_ALERT_THRESHOLD => U!Paged(r, how).page # "none"
  BY <1>1, PagedFacts
<1>8. StepsAreInformed'
  BY <1>1, <1>4, PagedFacts DEF SentinelInv, StepsAreInformed, U!PageIs
<1> QED
  BY <1>5, <1>6, <1>7, <1>8, NoneIsARecord
     DEF SentinelInv, DueIsOnItsWay, CountHasAPage, U!FAILURE_ALERT_THRESHOLD

-----------------------------------------------------------------------------
(* The loop *)

LEMMA RelaunchKeeps == SentinelConstants /\ SentinelInv /\ U!Relaunch => SentinelInv'
<1> SUFFICES ASSUME SentinelConstants, SentinelInv, U!Relaunch PROVE SentinelInv'
  OBVIOUS
<1>1. pc = "down" /\ pc' \in {"up", "raised"} /\ UNCHANGED <<rec, mem, once, diag>>
  BY DEF U!Relaunch, U!Raise, U!history
<1>2. U!Saturated(streak + 1) \in 0..MaxCount /\ 1 \in 0..MaxCount
  BY SentinelBounds DEF SentinelInv, U!TypeOK, U!Saturated, U!FAILURE_ALERT_THRESHOLD
<1>3. U!TypeOK'
  BY <1>1, <1>2 DEF SentinelInv, U!TypeOK, U!Relaunch, U!Raise, U!history, U!Kinds
<1>4. StepsAreInformed'
  BY <1>1 DEF SentinelInv, StepsAreInformed, U!Relaunch, U!Raise, U!Kinds
<1> QED
  BY <1>1, <1>3, <1>4, CopiesKeep DEF InHands

LEMMA CycleKeeps == SentinelConstants /\ SentinelInv /\ U!Cycle => SentinelInv'
<1> SUFFICES ASSUME SentinelConstants, SentinelInv, U!Cycle PROVE SentinelInv'
  OBVIOUS
<1>1. pc = "up" /\ pc' \in {"passed", "raised"} /\ UNCHANGED <<rec, mem, once, diag>>
  BY DEF U!Cycle, U!Raise
<1>2. U!Saturated(streak + 1) \in 0..MaxCount /\ {0, 1} \subseteq 0..MaxCount
  BY SentinelBounds DEF SentinelInv, U!TypeOK, U!Saturated, U!FAILURE_ALERT_THRESHOLD
<1>3. U!TypeOK'
  BY <1>1, <1>2 DEF SentinelInv, U!TypeOK, U!Cycle, U!Raise, U!Kinds, U!Conditions
<1>4. StepsAreInformed'
  BY <1>1 DEF SentinelInv, U!TypeOK, StepsAreInformed, U!Cycle, U!Raise, U!Kinds, U!Conditions
<1> QED
  BY <1>1, <1>3, <1>4, CopiesKeep DEF InHands

LEMMA NoticeKeeps == SentinelConstants /\ SentinelInv /\ U!Notice => SentinelInv'
<1> SUFFICES ASSUME SentinelConstants, SentinelInv, U!Notice PROVE SentinelInv'
  OBVIOUS
<1>1. /\ pc = "passed" /\ pc' = "noticed" /\ faults' \in 0..MaxFaults
      /\ UNCHANGED <<cond, kind, mem, once, diag, streak, missed>>
  BY SentinelBounds DEF SentinelInv, U!TypeOK, U!Notice
<1>m. StepsAreInformed'
  BY <1>1 DEF SentinelInv, StepsAreInformed
<1>2. CASE rec' = rec
  <2>1. U!TypeOK'
    BY <1>1, <1>2 DEF SentinelInv, U!TypeOK
  <2> QED
    BY <1>1, <1>m, <1>2, <2>1, CopiesKeep DEF InHands
<1>3. CASE rec.count >= U!FAILURE_ALERT_THRESHOLD /\ rec' = [rec EXCEPT !.page = "over"]
  <2>1. rec # U!None /\ rec \in U!Record
    BY <1>3, NoneIsARecord, RecordParts DEF SentinelInv, U!TypeOK, U!FAILURE_ALERT_THRESHOLD
  <2>2. rec' \in U!Record /\ rec'.count = rec.count /\ rec'.page = "over"
    BY <1>3, <2>1 DEF U!Record
  <2>3. U!TypeOK'
    BY <1>1, <2>2 DEF SentinelInv, U!TypeOK, U!Records
  <2>4. InHands' \subseteq InHands \cup {U!None, rec'}
    BY <1>1 DEF InHands
  <2> QED
    BY <1>1, <1>m, <2>1, <2>2, <2>3, <2>4, MarksKeep DEF InHands
<1> QED
  BY <1>2, <1>3 DEF U!Notice

LEMMA CycleMarkLoadsKeeps == SentinelConstants /\ SentinelInv /\ U!CycleMarkLoads => SentinelInv'
<1> SUFFICES ASSUME SentinelConstants, SentinelInv, U!CycleMarkLoads PROVE SentinelInv'
  OBVIOUS
<1>1. U!TypeOK'
  BY NoneIsARecord DEF SentinelInv, U!TypeOK, U!CycleMarkLoads
<1>2. /\ pc = "noticed" /\ pc' \in {"marking", "up"} /\ mem' \in {rec, U!None}
      /\ UNCHANGED <<rec, once, diag>>
  BY DEF U!CycleMarkLoads
<1>3. StepsAreInformed'
  BY NoneIsARecord DEF SentinelInv, StepsAreInformed, U!CycleMarkLoads, U!NeedsMark
<1> QED
  BY <1>1, <1>2, <1>3, CopiesKeep DEF InHands

LEMMA CycleMarkSavesKeeps == SentinelConstants /\ SentinelInv /\ U!CycleMarkSaves => SentinelInv'
<1> SUFFICES ASSUME SentinelConstants, SentinelInv, U!CycleMarkSaves PROVE SentinelInv'
  OBVIOUS
<1>1. mem # U!None /\ mem \in U!Records /\ pc = "marking" /\ pc' = "up" /\ mem' = U!None
  BY DEF SentinelInv, StepsAreInformed, U!TypeOK, U!CycleMarkSaves
<1>2. /\ rec' \in U!Records /\ rec'.count = mem.count /\ rec'.page = mem.page
  BY <1>1, RecoveredFacts DEF U!CycleMarkSaves
<1>3. U!TypeOK'
  BY <1>1, <1>2, NoneIsARecord DEF SentinelInv, U!TypeOK, U!CycleMarkSaves
<1>4. StepsAreInformed'
  BY <1>1 DEF SentinelInv, StepsAreInformed, U!CycleMarkSaves
<1>5. InHands' \subseteq InHands \cup {U!None, rec'}
  BY <1>1 DEF InHands, U!CycleMarkSaves
<1> QED
  BY <1>1, <1>2, <1>3, <1>4, <1>5, MarksKeep DEF InHands

LEMMA HaltLoadsKeeps == SentinelConstants /\ SentinelInv /\ U!HaltLoads => SentinelInv'
<1> SUFFICES ASSUME SentinelConstants, SentinelInv, U!HaltLoads PROVE SentinelInv'
  OBVIOUS
<1>1. U!TypeOK'
  BY DEF SentinelInv, U!TypeOK, U!HaltLoads, U!history
<1>2. StepsAreInformed'
  BY DEF SentinelInv, StepsAreInformed, U!HaltLoads
<1>3. /\ pc = "raised" /\ pc' = "recording" /\ mem' = rec /\ UNCHANGED <<rec, once, diag>>
  BY DEF U!HaltLoads
<1> QED
  BY <1>1, <1>2, <1>3, CopiesKeep DEF InHands

\* The record saved either counts to no milestone, and then has the page of its
\* predecessor, or its page is due and the loop goes to deliver it.
LEMMA HaltSavesKeeps == SentinelConstants /\ SentinelInv /\ U!HaltSaves => SentinelInv'
<1> SUFFICES ASSUME SentinelConstants, SentinelInv, U!HaltSaves PROVE SentinelInv'
  OBVIOUS
<1> DEFINE r == U!RecordFailure(mem, kind)
           page == IF r.page = "told" THEN "told" ELSE "due"
<1>1. /\ mem \in U!Records /\ mem.page # "due"
      /\ mem.count >= U!FAILURE_ALERT_THRESHOLD => mem.page # "none"
      /\ pc = "recording" /\ mem' = U!None /\ kind \in U!Kinds
      /\ UNCHANGED <<cond, kind, once, diag, faults, streak>>
  BY DEF SentinelInv, U!TypeOK, DueIsOnItsWay, CountHasAPage, StepsAreInformed, InHands, U!HaltSaves
<1>2. /\ r \in U!Record /\ r.page \in {"none", mem.page}
      /\ r.count >= U!FAILURE_ALERT_THRESHOLD /\ ~U!ShouldAlert(r) => r.page # "none"
  BY <1>1, RecordFailureFacts
<1> HIDE DEF r
<1>3. missed' \in BOOLEAN
  BY DEF SentinelInv, U!TypeOK, U!HaltSaves
<1>4. StepsAreInformed'
  BY <1>1 DEF SentinelInv, StepsAreInformed, U!HaltSaves
<1>5. CASE U!ShouldAlert(r)
  <2>1. rec' = [r EXCEPT !.page = page] /\ pc' = "paging"
    BY <1>5 DEF U!HaltSaves, r
  <2>2. rec' \in U!Record /\ rec'.page # "none"
    BY <1>2, <2>1 DEF U!Record
  <2>3. U!TypeOK'
    BY <1>1, <1>3, <2>1, <2>2, NoneIsARecord DEF SentinelInv, U!TypeOK, U!Records
  <2>4. InHands' \subseteq InHands \cup {U!None, rec'}
    BY <1>1 DEF InHands
  <2>5. DueIsOnItsWay'
    BY <1>1, <2>1 DEF DueIsOnItsWay
  <2>6. CountHasAPage'
    BY <2>2, <2>4, NoneIsARecord DEF SentinelInv, CountHasAPage, U!FAILURE_ALERT_THRESHOLD
  <2> QED
    BY <1>4, <2>3, <2>5, <2>6 DEF SentinelInv
<1>6. CASE ~U!ShouldAlert(r)
  <2>1. rec' = r /\ pc' = "down"
    BY <1>6 DEF U!HaltSaves, r
  <2>2. U!TypeOK'
    BY <1>1, <1>2, <1>3, <2>1, NoneIsARecord DEF SentinelInv, U!TypeOK, U!Records
  <2>3. InHands' \subseteq InHands \cup {U!None, r}
    BY <1>1, <2>1 DEF InHands
  <2>4. r.page # "due"
    BY <1>1, <1>2
  <2> QED
    BY <1>1, <1>2, <1>4, <1>6, <2>1, <2>2, <2>3, <2>4, NoneIsARecord
       DEF SentinelInv, DueIsOnItsWay, CountHasAPage, U!FAILURE_ALERT_THRESHOLD
<1> QED
  BY <1>5, <1>6

LEMMA PageKeeps == SentinelConstants /\ SentinelInv /\ U!Page => SentinelInv'
<1> SUFFICES ASSUME SentinelConstants, SentinelInv, U!Page PROVE SentinelInv'
  OBVIOUS
<1>1. /\ pc = "paging" /\ pc' = "down" /\ mem' = U!None
      /\ faults' \in 0..MaxFaults /\ missed' \in BOOLEAN
      /\ UNCHANGED <<cond, kind, streak>>
  BY SentinelBounds DEF SentinelInv, U!TypeOK, DueIsOnItsWay, U!Page
<1>2. U!PageIs("told") \/ U!PageIs("lost")
  BY DEF U!Page
<1> QED
  BY <1>1, <1>2, PagingEnds

LEMMA LoopDiesKeeps == SentinelConstants /\ SentinelInv /\ U!LoopDies => SentinelInv'
<1> SUFFICES ASSUME SentinelConstants, SentinelInv, U!LoopDies PROVE SentinelInv'
  OBVIOUS
<1>1. /\ pc # "down" /\ pc' = "down" /\ mem' = U!None
      /\ faults' \in 0..MaxFaults /\ missed' \in BOOLEAN
      /\ UNCHANGED <<cond, kind, streak>>
  BY SentinelBounds DEF SentinelInv, U!TypeOK, U!LoopDies
<1>2. CASE pc = "paging"
  BY <1>1, <1>2, PagingEnds DEF U!LoopDies
<1>3. CASE pc # "paging"
  <2>1. UNCHANGED <<rec, once, diag>>
    BY <1>3 DEF U!LoopDies
  <2>2. U!TypeOK'
    BY <1>1, <2>1, NoneIsARecord DEF SentinelInv, U!TypeOK
  <2>3. StepsAreInformed'
    BY <1>1, <2>1 DEF SentinelInv, StepsAreInformed
  <2> QED
    BY <1>1, <1>3, <2>1, <2>2, <2>3, CopiesKeep DEF InHands
<1> QED
  BY <1>2, <1>3

-----------------------------------------------------------------------------
(* The two commands *)

LEMMA CommandStepsKeep ==
    ASSUME SentinelConstants, SentinelInv, UNCHANGED U!loopVars,
           \/ U!OnceBegins \/ U!OnceMarkLoads \/ U!OnceDies
           \/ U!Diagnose \/ U!DiagMarkLoads \/ U!DiagDies
    PROVE  SentinelInv'
<1>1. /\ UNCHANGED <<cond, rec, pc, kind, mem, streak, missed>>
      /\ faults' \in 0..MaxFaults
  BY SentinelBounds
     DEF SentinelInv, U!TypeOK, U!loopVars, U!history, U!OnceBegins, U!OnceMarkLoads, U!OnceDies,
         U!Diagnose, U!DiagMarkLoads, U!DiagDies
<1> DEFINE OnceIsWell == /\ once' \in [pc : {"idle", "passed", "marking"}, mem : U!Records]
                         /\ once'.mem \in {once.mem, rec, U!None}
                         /\ once'.pc = "marking" => once'.mem # U!None
           DiagIsWell == /\ diag' \in [pc : {"idle", "read", "marking"}, mem : U!Records,
                                       fail : BOOLEAN, unavailable : BOOLEAN]
                         /\ diag'.mem \in {diag.mem, rec, U!None}
                         /\ diag'.pc = "marking" => diag'.mem # U!None
<1>2. OnceIsWell
  <2>1. once' = once => OnceIsWell
    BY DEF SentinelInv, U!TypeOK, StepsAreInformed
  <2>2. once' = U!Idle => OnceIsWell
    BY NoneIsARecord DEF U!Idle
  <2>3. U!OnceBegins => OnceIsWell
    BY NoneIsARecord DEF SentinelInv, U!TypeOK, U!OnceBegins
  <2>4. U!OnceMarkLoads /\ U!NeedsMark(rec) => OnceIsWell
    BY NoneIsARecord DEF SentinelInv, U!TypeOK, U!OnceMarkLoads, U!NeedsMark
  <2>5. U!OnceDies \/ U!OnceMarkLoads => once' = U!Idle \/ (U!OnceMarkLoads /\ U!NeedsMark(rec))
    BY DEF U!OnceDies, U!OnceMarkLoads
  <2>6. U!Diagnose \/ U!DiagMarkLoads \/ U!DiagDies => once' = once
    BY DEF U!Diagnose, U!DiagMarkLoads, U!DiagDies
  <2> QED
    BY <2>1, <2>2, <2>3, <2>4, <2>5, <2>6
<1>3. DiagIsWell
  <2>1. diag' = diag => DiagIsWell
    BY DEF SentinelInv, U!TypeOK, StepsAreInformed
  <2>2. diag' = U!NoReport => DiagIsWell
    BY NoneIsARecord DEF U!NoReport
  <2>3. U!Diagnose => DiagIsWell
    <3> SUFFICES ASSUME NEW report,
                        diag' = [pc |-> "read", mem |-> U!None, fail |-> U!Some(report, "FAIL"),
                                 unavailable |-> U!Some(report, "UNAVAILABLE")]
                 PROVE  DiagIsWell
      BY DEF U!Diagnose
    <3>1. \A v : U!Some(report, v) \in BOOLEAN
      BY DEF U!Some
    <3> QED
      BY <3>1, NoneIsARecord
  <2>4. U!DiagMarkLoads /\ ~diag.fail /\ U!NeedsMark(rec) => DiagIsWell
    BY NoneIsARecord DEF SentinelInv, U!TypeOK, U!DiagMarkLoads, U!NeedsMark
  <2>5. U!DiagDies \/ U!DiagMarkLoads
            => diag' = U!NoReport \/ (U!DiagMarkLoads /\ ~diag.fail /\ U!NeedsMark(rec))
    BY DEF U!DiagDies, U!DiagMarkLoads
  <2>6. U!OnceBegins \/ U!OnceMarkLoads \/ U!OnceDies => diag' = diag
    BY DEF U!OnceBegins, U!OnceMarkLoads, U!OnceDies
  <2> QED
    BY <2>1, <2>2, <2>3, <2>4, <2>5, <2>6
<1>4. U!TypeOK'
  BY <1>1, <1>2, <1>3 DEF SentinelInv, U!TypeOK
<1>5. StepsAreInformed'
  BY <1>1, <1>2, <1>3 DEF SentinelInv, StepsAreInformed
<1> QED
  BY <1>1, <1>2, <1>3, <1>4, <1>5, CopiesKeep DEF InHands

LEMMA OnceMarkSavesKeeps == SentinelConstants /\ SentinelInv /\ U!OnceMarkSaves => SentinelInv'
<1> SUFFICES ASSUME SentinelConstants, SentinelInv, U!OnceMarkSaves PROVE SentinelInv'
  OBVIOUS
<1>1. /\ once.mem # U!None /\ once.mem \in U!Records /\ once' = U!Idle
      /\ UNCHANGED <<cond, pc, kind, mem, diag, faults, streak, missed>>
  BY DEF SentinelInv, StepsAreInformed, U!TypeOK, U!OnceMarkSaves, U!loopVars, U!history
<1>2. /\ rec' \in U!Records /\ rec'.count = once.mem.count /\ rec'.page = once.mem.page
  BY <1>1, RecoveredFacts DEF U!OnceMarkSaves
<1>3. U!TypeOK'
  BY <1>1, <1>2, NoneIsARecord DEF SentinelInv, U!TypeOK, U!Idle
<1>4. StepsAreInformed'
  BY <1>1 DEF SentinelInv, StepsAreInformed, U!Idle
<1>5. InHands' \subseteq InHands \cup {U!None, rec'}
  BY <1>1 DEF InHands, U!Idle
<1> QED
  BY <1>1, <1>2, <1>3, <1>4, <1>5, MarksKeep DEF InHands

LEMMA DiagMarkSavesKeeps == SentinelConstants /\ SentinelInv /\ U!DiagMarkSaves => SentinelInv'
<1> SUFFICES ASSUME SentinelConstants, SentinelInv, U!DiagMarkSaves PROVE SentinelInv'
  OBVIOUS
<1>1. /\ diag.mem # U!None /\ diag.mem \in U!Records /\ diag' = U!NoReport
      /\ UNCHANGED <<cond, pc, kind, mem, once, faults, streak, missed>>
  BY DEF SentinelInv, StepsAreInformed, U!TypeOK, U!DiagMarkSaves, U!loopVars, U!history
<1>2. /\ rec' \in U!Records /\ rec'.count = diag.mem.count /\ rec'.page = diag.mem.page
  BY <1>1, RecoveredFacts DEF U!DiagMarkSaves
<1>3. U!TypeOK'
  BY <1>1, <1>2, NoneIsARecord DEF SentinelInv, U!TypeOK, U!NoReport
<1>4. StepsAreInformed'
  BY <1>1 DEF SentinelInv, StepsAreInformed, U!NoReport
<1>5. InHands' \subseteq InHands \cup {U!None, rec'}
  BY <1>1 DEF InHands, U!NoReport
<1> QED
  BY <1>1, <1>2, <1>3, <1>4, <1>5, MarksKeep DEF InHands

LEMMA ConditionKeeps == SentinelConstants /\ SentinelInv /\ U!ConditionChanges => SentinelInv'
<1> SUFFICES ASSUME SentinelConstants, SentinelInv, U!ConditionChanges PROVE SentinelInv'
  OBVIOUS
<1>1. U!TypeOK' /\ StepsAreInformed' /\ InHands' = InHands /\ UNCHANGED <<pc, mem>>
  BY DEF SentinelInv, U!TypeOK, StepsAreInformed, InHands, U!ConditionChanges, U!loopVars, U!history
<1> QED
  BY <1>1, CopiesKeep

LEMMA StutterKeeps == SentinelConstants /\ SentinelInv /\ UNCHANGED U!vars => SentinelInv'
<1> SUFFICES ASSUME SentinelConstants, SentinelInv, UNCHANGED U!vars PROVE SentinelInv'
  OBVIOUS
<1>1. U!TypeOK' /\ StepsAreInformed' /\ InHands' = InHands /\ UNCHANGED <<pc, mem>>
  BY DEF SentinelInv, U!TypeOK, StepsAreInformed, InHands, U!vars, U!loopVars, U!history
<1> QED
  BY <1>1, CopiesKeep

-----------------------------------------------------------------------------
\* The inductive invariant holds in every reachable state, for every bound on
\* counts and faults (agent/failure_sentinel.py, scripts/run_agent.py:2365-2420).
THEOREM SentinelInvariance == SentinelConstants => (U!Spec => []SentinelInv)
<1> SUFFICES ASSUME SentinelConstants PROVE U!Spec => []SentinelInv
  OBVIOUS
<1>1. SentinelInv /\ [U!Next]_(U!vars) => SentinelInv'
  <2> SUFFICES ASSUME SentinelInv, [U!Next]_(U!vars) PROVE SentinelInv'
    OBVIOUS
  <2>1. CASE U!Loop
    BY <2>1, RelaunchKeeps, CycleKeeps, NoticeKeeps, CycleMarkLoadsKeeps,
       CycleMarkSavesKeeps, HaltLoadsKeeps, HaltSavesKeeps, PageKeeps DEF U!Loop
  <2>2. CASE U!LoopDies
    BY <2>2, LoopDiesKeeps
  <2>3. CASE \/ U!OnceBegins \/ U!OnceMarkLoads \/ U!OnceDies
             \/ U!Diagnose \/ U!DiagMarkLoads \/ U!DiagDies
    <3>1. UNCHANGED U!loopVars
      BY <2>3 DEF U!OnceBegins, U!OnceMarkLoads, U!OnceDies, U!Diagnose, U!DiagMarkLoads, U!DiagDies
    <3> QED
      BY <2>3, <3>1, CommandStepsKeep
  <2>4. CASE U!OnceMarkSaves \/ U!DiagMarkSaves
    BY <2>4, OnceMarkSavesKeeps, DiagMarkSavesKeeps
  <2>5. CASE U!ConditionChanges \/ UNCHANGED U!vars
    BY <2>5, ConditionKeeps, StutterKeeps
  <2> QED
    BY <2>1, <2>2, <2>3, <2>4, <2>5 DEF U!Next, U!Once, U!Diag
<1>2. U!Init => SentinelInv
  BY SentinelInit
<1> QED
  BY <1>1, <1>2, PTL DEF U!Spec

\* A count at the threshold means what _on_cycle_success infers from it: the
\* incident was paged for, is being paged for, or its page was lost.
THEOREM CountIsAlerted == SentinelConstants => (U!Spec => []U!CountMeansAlerted)
<1> SUFFICES ASSUME SentinelConstants PROVE U!Spec => []U!CountMeansAlerted
  OBVIOUS
<1>1. SentinelInv => U!CountMeansAlerted
  <2> SUFFICES ASSUME SentinelInv, rec.count >= U!FAILURE_ALERT_THRESHOLD, pc # "paging"
               PROVE  rec.page \in {"told", "lost", "over"}
    BY DEF U!CountMeansAlerted
  <2>1. rec \in U!Records /\ rec.page \notin {"none", "due"}
    BY DEF SentinelInv, U!TypeOK, DueIsOnItsWay, CountHasAPage, InHands
  <2> QED
    BY <2>1, RecordParts
<1>2. U!Spec => []SentinelInv
  BY SentinelInvariance
<1> QED
  BY <1>1, <1>2, PTL

\* Every variable keeps its type, for every bound.
THEOREM SentinelTypes == SentinelConstants => (U!Spec => []U!TypeOK)
<1> SUFFICES ASSUME SentinelConstants PROVE U!Spec => []U!TypeOK
  OBVIOUS
<1>1. SentinelInv => U!TypeOK
  BY DEF SentinelInv
<1>2. U!Spec => []SentinelInv
  BY SentinelInvariance
<1> QED
  BY <1>1, <1>2, PTL
=============================================================================
