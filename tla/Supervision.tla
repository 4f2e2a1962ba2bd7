----------------------------- MODULE Supervision -----------------------------
(***************************************************************************)
(* Who may trade, and since when: the persisted mode (mode_state.jsonl,    *)
(* written by agent/mode_store.py), the audit chain (agent/audit.py), the  *)
(* startup sequence the scheduled loop runs each cycle (agent/startup.py), *)
(* and the one-shot commands and the dashboard that share those files.     *)
(*                                                                         *)
(* Every writer holds the process lock.  The loop holds it for its whole   *)
(* life, a command for its own, the dashboard for one request.  The        *)
(* dashboard loads its AuditLog once and never reloads it.  A process may  *)
(* die in the middle of an append and leave half a row at the end of a     *)
(* file; the loaders discard an unreadable LAST line in memory and leave   *)
(* the file as it is.                                                      *)
(***************************************************************************)
EXTENDS Modes

CONSTANTS
    AdvanceTargets, \* the modes an operator may ask --advance-mode-to for
    MaxFaults,      \* bound on crashes, failed syncs and failed pipelines
    MaxCommands,    \* bound on operator interventions
    MaxPosts        \* bound on orders posted

ASSUME AdvanceAssumption == AdvanceTargets \subseteq Modes
ASSUME BoundsAssumption ==
    MaxFaults \in Nat /\ MaxCommands \in Nat /\ MaxPosts \in Nat

\* _ADAPTER_CONSTRUCTIBLE_MODES, and so the only cfg.mode the loop can run with:
\* with any other it dies building its adapter, before run_startup.
Constructible == {"PAPER"}
Target == "PAPER"

(***************************************************************************)
(* The tail of an append-only file: its last line is complete; half a row  *)
(* without a newline; a row written onto such a half row (complete, and    *)
(* unreadable); or such a line has rows after it and no load succeeds.     *)
(***************************************************************************)
Tail == {"clean", "torn", "glued", "garbled"}
TailAfterRow(tail) == CASE tail = "clean" -> "clean"
                        [] tail = "torn" -> "glued"
                        [] OTHER -> "garbled"
TailAfterHalfRow(tail) == IF tail \in {"clean", "torn"} THEN "torn" ELSE "garbled"

VARIABLES
    disk,      \* mode_state.jsonl as a loader reads it: mode, paused_from, and its tail
    log,       \* audit.jsonl as a loader reads it: last claimed mode, chain, tail
    dash,      \* the dashboard's AuditLog: not running, or how it compares to the file
    pc,        \* the process that holds the lock, and where it is; "off" if free
    mem,       \* that process's ModeStore and AuditLog: mode, from, claim
    target,    \* the mode --advance-mode-to was last given
    agree,     \* do the broker and the local books agree
    status,    \* runtime_status.json: none, a fresh PASS, a stale one
    faults, commands, posts,
    lastRecon, \* history: how the latest reconciliation ended
    halted,    \* history: a halt since the last adoption or operator command
    visited    \* history: every mode ever persisted

files == <<disk, log>>
lockVars == <<pc, mem, target>>
budget == <<faults, commands, posts>>
history == <<lastRecon, halted, visited>>
vars == <<files, dash, lockVars, agree, status, budget, history>>

Steps == {"off", "asleep", "claims", "legal", "reconcile", "verify", "adopt",
          "adopted", "complete", "halt", "halted", "advClaims", "advWrite", "advClaim"}

TypeOK ==
    /\ disk \in [mode : Persisted, from : Persisted, tail : Tail]
    /\ log \in [claim : Persisted, intact : BOOLEAN, tail : Tail]
    /\ dash \in {"down", "current", "behind"}
    /\ pc \in Steps
    /\ mem \in [mode : Persisted, from : Persisted, claim : Persisted]
    /\ target \in Modes
    /\ agree \in BOOLEAN
    /\ status \in {"none", "fresh", "stale"}
    /\ faults \in 0..MaxFaults /\ commands \in 0..MaxCommands /\ posts \in 0..MaxPosts
    /\ lastRecon \in {"none", "pass", "mismatch"}
    /\ halted \in BOOLEAN
    /\ visited \subseteq Modes

Init ==
    /\ disk = [mode |-> "none", from |-> "none", tail |-> "clean"]
    /\ log = [claim |-> "none", intact |-> TRUE, tail |-> "clean"]
    /\ dash = "down"
    /\ pc = "off"
    /\ mem = [mode |-> "none", from |-> "none", claim |-> "none"]
    /\ target = "DISABLED"
    /\ agree \in BOOLEAN
    /\ status = "none"
    /\ faults = 0 /\ commands = 0 /\ posts = 0
    /\ lastRecon = "none" /\ halted = FALSE /\ visited = {}

Loadable == disk.tail # "garbled" /\ log.tail # "garbled"

(***************************************************************************)
(* Appending a row.  It lands where a loader finds it only on a clean tail *)
(***************************************************************************)
Goto(step) == pc' = step

\* ModeStore.write: the row is on disk before the writer's memory has it.
WriteMode(m, from) ==
    /\ disk' = [mode |-> IF disk.tail = "clean" THEN m ELSE disk.mode,
                from |-> IF disk.tail = "clean" THEN from ELSE disk.from,
                tail |-> TailAfterRow(disk.tail)]
    /\ visited' = visited \cup ({disk'.mode} \ {"none"})
    /\ mem' = [mem EXCEPT !.mode = m, !.from = from]

\* AuditLog.append by the holder of the lock, of a row that claims `m`.
AppendClaim(m) ==
    /\ log' = [log EXCEPT !.claim = IF log.tail = "clean" THEN m ELSE @,
                          !.tail = TailAfterRow(@)]
    /\ dash' = IF dash = "current" THEN "behind" ELSE dash
\* The same, of a row that claims no mode.
Append == AppendClaim(log.claim)

\* A process starts: it takes the lock and loads both files.
Loaded == [mode |-> disk.mode, from |-> disk.from, claim |-> log.claim]
LockAndLoad(step) ==
    /\ pc = "off" /\ Loadable
    /\ mem' = Loaded
    /\ Goto(step)

\* startup._reconcile_mode_persistence: the log catches up with the mode.
CatchUp(step, next) ==
    /\ pc = step /\ Goto(next)
    /\ IF mem.mode = mem.claim
       THEN UNCHANGED <<log, dash, mem>>
       ELSE AppendClaim(mem.mode) /\ mem' = [mem EXCEPT !.claim = mem.mode]
    /\ UNCHANGED <<disk, target, agree, status, budget, history>>

(***************************************************************************)
(* The scheduled loop (run_agent.py main, run_loop.py, run_startup).       *)
(***************************************************************************)
LoopStart ==
    /\ LockAndLoad("asleep")
    /\ Append                                  \* data_dir_resolved
    /\ UNCHANGED <<disk, target, agree, status, budget, history>>

\* A session opens and the accounts are synchronised with the broker.
CycleBegin ==
    /\ pc = "asleep" /\ Goto("claims")
    /\ UNCHANGED <<files, dash, mem, target, agree, status, budget, history>>

\* The broker could not be reached: the process exits and launchd restarts it.
SyncFails ==
    /\ pc = "asleep" /\ Goto("off")
    /\ faults < MaxFaults /\ faults' = faults + 1
    /\ UNCHANGED <<files, dash, mem, target, agree, status, commands, posts, history>>

LoopCatchUp == CatchUp("claims", "legal")

CheckTransition ==
    /\ pc = "legal"
    /\ Goto(IF AcceptedAtLoad(mem.mode, Target, FALSE, mem.from)
            THEN "reconcile" ELSE "halt")
    /\ UNCHANGED <<files, dash, mem, target, agree, status, budget, history>>

\* reconcile_accounts_or_raise: a row for each account that agrees.
Reconcile ==
    /\ pc = "reconcile"
    /\ IF agree THEN /\ Append /\ Goto("verify") /\ lastRecon' = "pass"
                ELSE /\ UNCHANGED <<log, dash>>
                     /\ Goto("halt") /\ lastRecon' = "mismatch"
    /\ UNCHANGED <<disk, mem, target, agree, status, budget, halted, visited>>

\* Pausing writes down the mode to come back to.
Pause == WriteMode("PAUSED", Normalized(mem.mode))

\* Fault: the transition is claimed in the log with no store behind it.
HaltClaimedOnly ==
    /\ pc = "halt" /\ halted' = TRUE
    /\ IF mem.mode = "PAUSED"
       THEN Append /\ Goto("off") /\ UNCHANGED <<disk, mem, visited>>
       ELSE AppendClaim("PAUSED") /\ Goto("off") /\ UNCHANGED <<disk, mem, visited>>
    /\ UNCHANGED <<target, agree, status, budget, lastRecon>>

\* _halt: the mode first, its audit rows after; an already paused system only
\* gets the startup_halted row.
Halt ==
    /\ pc = "halt" /\ halted' = TRUE
    /\ IF mem.mode = "PAUSED"
       THEN Append /\ Goto("off") /\ UNCHANGED <<disk, mem, visited>>
       ELSE Pause /\ Goto("halted") /\ UNCHANGED <<log, dash>>
    /\ UNCHANGED <<target, agree, status, budget, lastRecon>>

\* The mode_transition row; the startup_halted row is still to come.
HaltClaim ==
    /\ pc = "halted" /\ Goto("halt")
    /\ AppendClaim("PAUSED")
    /\ UNCHANGED <<disk, mem, target, agree, status, budget, history>>

\* Fault: a broken chain is reported, and the startup goes on.
VerifyOnlyWarns ==
    /\ pc = "verify" /\ Goto("adopt")
    /\ UNCHANGED <<disk, mem, halted, visited>>
    /\ UNCHANGED <<log, dash, target, agree, status, budget, lastRecon>>

\* Fault: a broken chain ends the startup without pausing.
VerifyOnlyRaises ==
    /\ pc = "verify"
    /\ Goto(IF log.intact THEN "adopt" ELSE "off")
    /\ halted' = (halted \/ ~log.intact)
    /\ UNCHANGED <<disk, mem, visited>>
    /\ UNCHANGED <<log, dash, target, agree, status, budget, lastRecon>>

\* audit_log.verify(): a broken chain pauses the system and is not appended to.
Verify ==
    /\ pc = "verify"
    /\ IF log.intact
       THEN Goto("adopt") /\ UNCHANGED <<disk, mem, halted, visited>>
       ELSE /\ Goto("off") /\ halted' = TRUE
            /\ IF mem.mode = "PAUSED" THEN UNCHANGED <<disk, mem, visited>> ELSE Pause
    /\ UNCHANGED <<log, dash, target, agree, status, budget, lastRecon>>

Adopt ==
    /\ pc = "adopt" /\ halted' = FALSE
    /\ IF mem.mode = Target
       THEN Goto("complete") /\ UNCHANGED <<disk, mem, visited>>
       ELSE WriteMode(Target, "none") /\ Goto("adopted")
    /\ UNCHANGED <<log, dash, target, agree, status, budget, lastRecon>>

AdoptClaim ==
    /\ pc = "adopted" /\ Goto("complete")
    /\ AppendClaim(Target) /\ mem' = [mem EXCEPT !.claim = Target]
    /\ UNCHANGED <<disk, target, agree, status, budget, history>>

\* startup_complete, the pipeline stage, and _on_cycle_success.
Complete ==
    /\ pc = "complete" /\ Goto("asleep")
    /\ Append /\ status' = "fresh"
    /\ UNCHANGED <<disk, mem, target, agree, budget, history>>

\* The pipeline raises after startup_complete: the status is not rewritten.
PipelineFails ==
    /\ pc = "complete" /\ Goto("off")
    /\ Append
    /\ faults < MaxFaults /\ faults' = faults + 1
    /\ UNCHANGED <<disk, mem, target, agree, status, commands, posts, history>>

LoopStop ==
    /\ pc = "asleep" /\ Goto("off")
    /\ commands < MaxCommands /\ commands' = commands + 1
    /\ UNCHANGED <<files, dash, mem, target, agree, status, faults, posts, history>>

(***************************************************************************)
(* run_agent.py --advance-mode-to: no account, no reconciliation.          *)
(***************************************************************************)
AdvanceStart ==
    /\ LockAndLoad("advClaims")
    /\ target' \in AdvanceTargets
    /\ commands < MaxCommands /\ commands' = commands + 1
    /\ UNCHANGED <<files, dash, agree, status, faults, posts, history>>

AdvanceCatchUp == CatchUp("advClaims", "advWrite")

Advanceable(confirmed) ==
    /\ AcceptedAtLoad(mem.mode, target, confirmed, mem.from)
    /\ target \in {"PAPER", "PRODUCTION_ACTIVE"} => target \in Constructible

AdvanceRefused ==
    /\ pc = "advWrite" /\ Goto("off")
    /\ \/ \E confirmed \in BOOLEAN : ~Advanceable(confirmed)
       \/ target = mem.mode
    /\ UNCHANGED <<files, dash, mem, target, agree, status, budget, history>>

AdvanceWrite ==
    /\ pc = "advWrite" /\ Goto("advClaim")
    /\ \E confirmed \in BOOLEAN : Advanceable(confirmed)
    /\ target # mem.mode
    /\ IF target = "PAUSED" THEN Pause ELSE WriteMode(target, "none")
    /\ halted' = FALSE
    /\ UNCHANGED <<log, dash, target, agree, status, budget, lastRecon>>

AdvanceClaim ==
    /\ pc = "advClaim" /\ Goto("off")
    /\ AppendClaim(target)
    /\ UNCHANGED <<disk, mem, target, agree, status, budget, history>>

(***************************************************************************)
(* --reconcile-once and --submit-approved, with the lock for their whole   *)
(* run.  A mismatch is reported; it changes neither mode nor status.       *)
(***************************************************************************)

ReconcileOnce ==
    /\ pc = "off" /\ Loadable
    /\ IF agree THEN Append /\ status' = "fresh" /\ lastRecon' = "pass"
                ELSE UNCHANGED <<log, dash, status>> /\ lastRecon' = "mismatch"
    /\ UNCHANGED <<disk, lockVars, agree, budget, halted, visited>>

SubmitApproved ==
    /\ pc = "off" /\ Loadable
    /\ Normalized(disk.mode) \in {"PAPER", "PRODUCTION_ACTIVE"}
    /\ status = "fresh"
    /\ posts < MaxPosts /\ posts' = posts + 1
    /\ Append                                  \* approval_execution_submitted
    /\ UNCHANGED <<disk, lockVars, agree, status, faults, commands, history>>

(***************************************************************************)
(* The dashboard: one AuditLog for the life of the process.                *)
(***************************************************************************)
DashStart ==
    /\ dash = "down" /\ log.tail # "garbled"
    /\ dash' = "current"
    /\ UNCHANGED <<files, lockVars, agree, status, budget, history>>

\* A decision or a config patch, under the lock: its row continues the chain
\* the dashboard remembers, which need not be the one in the file.
DashAppend ==
    /\ dash # "down" /\ pc = "off"
    /\ log' = [log EXCEPT !.tail = TailAfterRow(@),
                          !.intact = @ /\ ~(dash = "behind" /\ log.tail = "clean")]
    /\ dash' = IF log.tail = "clean" THEN dash ELSE "behind"
    /\ UNCHANGED <<disk, lockVars, agree, status, budget, history>>

DashStop ==
    /\ dash # "down" /\ dash' = "down"
    /\ UNCHANGED <<files, lockVars, agree, status, budget, history>>

(***************************************************************************)
(* The environment.                                                        *)
(***************************************************************************)
\* The books come apart (a trade made elsewhere) or are put right.
BooksChange ==
    /\ agree' = ~agree
    /\ UNCHANGED <<files, dash, lockVars, status, budget, history>>

\* DEFAULT_STALE_AFTER passes with no new pass.
StatusAges ==
    /\ status = "fresh" /\ status' = "stale"
    /\ UNCHANGED <<files, dash, lockVars, agree, budget, history>>

\* What the process at pc was about to append to, if it was to the mode file.
WritesMode ==
    \/ pc = "halt" /\ mem.mode # "PAUSED"
    \/ pc = "verify" /\ ~log.intact /\ mem.mode # "PAUSED"
    \/ pc = "adopt" /\ mem.mode # Target
    \/ pc = "advWrite"

WritesLog ==
    \/ pc \in {"claims", "advClaims", "reconcile", "halted", "adopted",
               "complete", "advClaim"}
    \/ pc = "halt" /\ mem.mode = "PAUSED"

\* The process dies between two steps, or half-way through an append.
Crash ==
    /\ pc # "off" /\ Goto("off")
    /\ faults < MaxFaults /\ faults' = faults + 1
    /\ \/ UNCHANGED files
       \/ WritesMode /\ disk' = [disk EXCEPT !.tail = TailAfterHalfRow(@)] /\ UNCHANGED log
       \/ WritesLog /\ log' = [log EXCEPT !.tail = TailAfterHalfRow(@)] /\ UNCHANGED disk
    /\ UNCHANGED <<dash, mem, target, agree, status, commands, posts, history>>

LoopStep == \/ LoopStart \/ CycleBegin \/ LoopCatchUp \/ CheckTransition
            \/ Reconcile \/ Halt \/ HaltClaim \/ Verify
            \/ Adopt \/ AdoptClaim \/ Complete
AdvanceStep == AdvanceCatchUp \/ AdvanceRefused \/ AdvanceWrite \/ AdvanceClaim

Next ==
    \/ LoopStep \/ SyncFails \/ PipelineFails \/ LoopStop
    \/ AdvanceStart \/ AdvanceStep
    \/ ReconcileOnce \/ SubmitApproved
    \/ DashStart \/ DashAppend \/ DashStop
    \/ BooksChange \/ StatusAges \/ Crash

Spec == Init /\ [][Next]_vars

\* launchd restarts the loop, sessions keep opening, and a process that holds
\* the lock goes on to its next step.
FairSpec == Spec /\ WF_vars(LoopStep) /\ WF_vars(AdvanceStep)

(***************************************************************************)
(* Safety                                                                  *)
(***************************************************************************)
\* No mode is ever persisted above a rung the system has not stood on, through
\* whatever pauses, resumptions, crashes and operator commands it got there:
\* the bypass DISABLED -> PAUSED -> a higher mode is closed (agent/mode.py).
RungsAreClimbed ==
    \A m \in Ladder \cap {disk.mode} :
        \A r \in Ladder : 0 < Rung[r] /\ Rung[r] < Rung[m] => r \in visited

\* PAUSED is never a dead end: it remembers a rung the system stood on (or the
\* baseline of a fresh install), which is a legal way out.
PauseHasAWayBack ==
    disk.mode = "PAUSED" =>
        /\ disk.from \in Ladder \cap (visited \cup {"DISABLED"})
        /\ IsLegalStep("PAUSED", disk.from, disk.from)

\* What makes both inductive.  On a clean file the holder of the lock remembers
\* the mode it has read or written; past the legality check its transition is a
\* legal one; and the rungs below any visited one are visited.
HolderKnowsTheMode ==
    (pc # "off" /\ disk.tail = "clean") =>
        mem.mode = disk.mode /\ mem.from = disk.from

TransitionIsLegal ==
    pc \in {"reconcile", "verify", "adopt"} =>
        AcceptedAtLoad(mem.mode, Target, FALSE, mem.from)

ModeIsVisited == disk.mode # "none" => disk.mode \in visited

VisitedIsClosed ==
    \A m \in Ladder \cap visited :
        \A r \in Ladder : 0 < Rung[r] /\ Rung[r] < Rung[m] => r \in visited

\* Where a process is says what it has just read or written.
MemFitsTheStep ==
    /\ pc \in {"adopted", "complete"} => mem.mode = Target
    /\ pc = "halted" => mem.mode = "PAUSED"
    /\ pc = "advClaim" => mem.mode = target

\* What the steps of a cycle have established so far.
CycleVouches ==
    /\ pc \in {"verify", "adopt", "adopted", "complete"} => lastRecon = "pass"
    /\ pc \in {"adopt", "adopted", "complete"} => log.intact
    /\ pc \in {"adopted", "complete"} => ~halted

\* A halt is on disk, until an adoption or a command lifts it.
HaltIsPersisted == (halted /\ disk.tail = "clean") => disk.mode = "PAUSED"

StepFacts == MemFitsTheStep /\ CycleVouches /\ HaltIsPersisted

IInv ==
    /\ TypeOK
    /\ StepFacts
    /\ HolderKnowsTheMode
    /\ TransitionIsLegal
    /\ ModeIsVisited
    /\ VisitedIsClosed
    /\ PauseHasAWayBack

\* DECISION 5 of agent/startup.py: the log never claims a mode the store does not
\* hold, on a mode file no crash has torn.
ClaimsAreTrue ==
    [][(log'.claim # log.claim /\ disk.tail = "clean") => log'.claim = disk.mode]_vars

\* Once a cycle completes, what it vouches for is so: the latest
\* reconciliation passed, the chain verifies, and no halt is outstanding.
StatusIsEarned ==
    [][(pc = "complete" /\ pc' = "asleep") =>
          lastRecon = "pass" /\ log.intact /\ ~halted /\ mem.mode = Target]_vars

\* On a mode file no crash has torn, an order is posted after a halt only when
\* a cycle or an operator has lifted the halt.
HaltHolds == [][(posts' # posts /\ disk.tail = "clean") => ~halted]_vars

(***************************************************************************)
(* Liveness                                                                *)
(***************************************************************************)
Untorn == Loadable /\ disk.tail = "clean"

\* A system paused out of PAPER leaves PAUSED once the books agree for good.
PauseEnds ==
    <>[](agree /\ log.intact /\ Untorn) =>
        ((disk.mode = "PAUSED" /\ disk.from = Target) ~> disk.mode # "PAUSED")

\* Books that disagree for good, or a broken chain, end trading for good.
TradingEnds ==
    <>[]((~agree \/ ~log.intact) /\ Untorn) => <>[](disk.mode # Target)

(***************************************************************************)
(* Claims of the repository that the code does not keep                    *)
(***************************************************************************)
\* run_agent.py:738-745: a forced mode "cannot make anything trade"; only the
\* next cycle, which reconciles, could: no post follows a failed reconciliation.
PostsFollowAPass == [][posts' # posts => lastRecon = "pass"]_vars

\* mode_store.py:86-98: a crash is never mistaken for permission to trade.
HaltSurvives == [][posts' # posts => ~halted]_vars

\* audit.py:264-286: a row malformed in the middle of the file is tampering.
\* (Nobody tampers in this model.)
OnlyTamperingGarbles == log.tail # "garbled"

\* process_lock.py:6-16: with one writer at a time no two writers fork the chain.
ChainIntact == log.intact
=============================================================================
