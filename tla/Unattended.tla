------------------------------ MODULE Unattended ------------------------------
(***************************************************************************)
(* Who is told when nobody watches: the failure sentinel (agent/           *)
(* failure_sentinel.py) that run_agent.main keeps across launchd relaunches*)
(* of the loop, and the two operator commands that write it too:           *)
(* --reconcile-once, under the process lock, and diagnose_runtime.py,      *)
(* under no lock at all.  The runtime status both write is in Supervision. *)
(*                                                                         *)
(* main's except-block runs after the `with` that held the lock, so the    *)
(* bookkeeping of a halt overlaps either command.  Every update of the     *)
(* sentinel is a load, a decision in memory and an atomic replace of the   *)
(* file: two processes that overlap lose one of the two updates.           *)
(***************************************************************************)
EXTENDS Naturals, FiniteSets

CONSTANTS
    MaxCount,   \* bound: a streak is counted up to here, and no further
    MaxFaults   \* bound on deaths and on lost notifications

FAILURE_ALERT_THRESHOLD == 3
Escalations == {5, 25, 100}
ASSUME CountAssumption == MaxCount \in Nat /\ MaxCount > FAILURE_ALERT_THRESHOLD
ASSUME FaultsAssumption == MaxFaults \in Nat

(***************************************************************************)
(* What the loop meets: books that agree with a broker that answers, books *)
(* that do not (ReconciliationMismatch), or credentials it cannot read     *)
(* (SecretNotFoundError).  A process that finds the lock taken halts too   *)
(* (ProcessLockError), and is recorded like the others.                    *)
(***************************************************************************)
Conditions == {"fine", "mismatch", "keychain"}
Kinds == {"mismatch", "keychain", "lock"}

\* A record, with the history of its page: none was due, one is on its way, was
\* delivered or swallowed, or a recovery notification followed.  The messages and times are left out.
None == [kind |-> "none", count |-> 0, status |-> "none", page |-> "none"]
Record == [kind : Kinds, count : 1..MaxCount, status : {"active", "recovered"},
           page : {"none", "due", "told", "lost", "over"}]
Records == Record \cup {None}

VARIABLES
    cond,      \* what a cycle would meet now
    rec,       \* failure_sentinel.json
    pc,        \* the scheduled loop's process
    kind,      \* the type of the exception that ended it
    mem,       \* the record it loaded
    once,      \* --reconcile-once: where it is, the record and the cycle it read
    diag,      \* diagnose_runtime: where it is, its report, the record it loaded
    faults,
    streak,    \* history: halts of one type in a row, with no completed cycle between
    missed     \* history: the sentinel missed a halt or a completed cycle of this streak

loopVars == <<pc, kind, mem>>
history == <<streak, missed>>
vars == <<cond, rec, loopVars, once, diag, faults, history>>

LockHeldByLoop == pc \in {"up", "passed", "noticed", "marking"}

TypeOK ==
    /\ cond \in Conditions
    /\ rec \in Records /\ mem \in Records
    /\ pc \in {"down", "up", "passed", "noticed", "marking",
               "raised", "recording", "paging"}
    /\ kind \in Kinds \cup {"none"}
    /\ once \in [pc : {"idle", "passed", "marking"}, mem : Records]
    /\ diag \in [pc : {"idle", "read", "marking"}, mem : Records,
                 fail : BOOLEAN, unavailable : BOOLEAN]
    /\ faults \in 0..MaxFaults
    /\ streak \in 0..MaxCount
    /\ missed \in BOOLEAN

NoReport == [pc |-> "idle", mem |-> None, fail |-> FALSE, unavailable |-> FALSE]
Idle == [pc |-> "idle", mem |-> None]

Init ==
    /\ cond \in Conditions
    /\ rec = None /\ mem = None
    /\ pc = "down" /\ kind = "none"
    /\ once = Idle /\ diag = NoReport
    /\ faults = 0
    /\ streak = 0 /\ missed = FALSE

(***************************************************************************)
(* agent/failure_sentinel.py                                               *)
(***************************************************************************)
Saturated(n) == IF n > MaxCount THEN MaxCount ELSE n

\* What the next record is, its page due at a milestone unless one was delivered.
Opened(k) == [kind |-> k, count |-> 1, status |-> "active", page |-> "none"]
Extended(prior) == [prior EXCEPT !.count = Saturated(@ + 1), !.status = "active"]

RecordFailure(prior, k) ==
    IF prior.status = "active" /\ prior.kind = k
    THEN Extended(prior) ELSE Opened(k)

\* mutant: the threshold itself is not a milestone.
ShouldAlertPastThreshold(r) == r.count \in Escalations

\* mutant: the threshold is the only milestone.
ShouldAlertOnce(r) == r.count = FAILURE_ALERT_THRESHOLD

ShouldAlert(r) == r.count \in {FAILURE_ALERT_THRESHOLD} \cup Escalations

NeedsMark(r) == r.status = "active"
Recovered(r) == [r EXCEPT !.status = "recovered"]

(***************************************************************************)
(* The scheduled loop: launchd starts it again whenever it has ended.      *)
(***************************************************************************)
Raise(k) ==
    /\ pc' = "raised" /\ kind' = k
    /\ streak' = IF kind = k THEN Saturated(streak + 1) ELSE 1
    /\ UNCHANGED <<cond, rec, mem, once, diag, faults, missed>>

\* The lock, then config and the signing key, before the loop is entered.
Relaunch ==
    /\ pc = "down"
    /\ \/ /\ once.pc # "idle"
          /\ Raise("lock")
       \/ /\ once.pc = "idle" /\ cond = "keychain"
          /\ Raise("keychain")
       \/ /\ once.pc = "idle" /\ cond # "keychain"
          /\ pc' = "up"
          /\ UNCHANGED <<cond, rec, kind, mem, once, diag, faults, history>>

\* A cycle raises or returns a report; the session it waits for is not modelled.
Cycle ==
    /\ pc = "up"
    /\ \/ /\ cond # "fine"
          /\ Raise(cond)
       \/ /\ cond = "fine"
          /\ pc' = "passed"
          /\ streak' = 0 /\ kind' = "none"
          /\ UNCHANGED <<cond, rec, mem, once, diag, faults, missed>>

\* _on_cycle_success: the notice is owed by the count alone, whatever the status.
Notice ==
    /\ pc = "passed"
    /\ pc' = "noticed"
    /\ \/ rec.count < FAILURE_ALERT_THRESHOLD /\ UNCHANGED <<rec, faults>>
       \/ /\ rec.count >= FAILURE_ALERT_THRESHOLD
          /\ rec' = [rec EXCEPT !.page = "over"]       \* in the history only
          /\ UNCHANGED faults
       \/ /\ rec.count >= FAILURE_ALERT_THRESHOLD     \* notify_fn raised
          /\ faults < MaxFaults /\ faults' = faults + 1
          /\ UNCHANGED rec
    /\ UNCHANGED <<cond, kind, mem, once, diag, streak, missed>>

\* mark_recovered, by the cycle: nothing to write unless the record is active.
CycleMarkLoads ==
    /\ pc = "noticed"
    /\ mem' = IF NeedsMark(rec) THEN rec ELSE None
    /\ pc' = IF NeedsMark(rec) THEN "marking" ELSE "up"
    /\ missed' = IF NeedsMark(rec) THEN missed ELSE FALSE
    /\ UNCHANGED <<cond, rec, kind, once, diag, faults, streak>>

CycleMarkSaves ==
    /\ pc = "marking"
    /\ rec' = Recovered(mem)
    /\ pc' = "up" /\ mem' = None /\ missed' = FALSE
    /\ UNCHANGED <<cond, kind, once, diag, faults, streak>>

\* The except-block, after the lock is released.
HaltLoads ==
    /\ pc = "raised"
    /\ mem' = rec
    /\ pc' = "recording"
    /\ UNCHANGED <<cond, rec, kind, once, diag, faults, history>>

HaltSaves ==
    /\ pc = "recording"
    /\ LET r == RecordFailure(mem, kind)
           due == ShouldAlert(r)
       IN  /\ rec' = IF due THEN [r EXCEPT !.page = IF @ = "told" THEN @ ELSE "due"] ELSE r
           /\ pc' = IF due THEN "paging" ELSE "down"
           /\ missed' = IF r.count = 1 THEN FALSE ELSE missed
    /\ mem' = None
    /\ UNCHANGED <<cond, kind, once, diag, faults, streak>>

\* Wherever the record is by now, its page was delivered, or swallowed.
Paged(r, how) == IF r.page = "due" THEN [r EXCEPT !.page = how] ELSE r
PageIs(how) ==
    /\ rec' = Paged(rec, how)
    /\ once' = [once EXCEPT !.mem = Paged(@, how)]
    /\ diag' = [diag EXCEPT !.mem = Paged(@, how)]

Page ==
    /\ pc = "paging"
    /\ pc' = "down"
    /\ \/ PageIs("told") /\ UNCHANGED faults
       \/ PageIs("lost") /\ faults < MaxFaults /\ faults' = faults + 1  \* notify_fn raised
    /\ UNCHANGED <<cond, kind, mem, streak, missed>>

\* A death, or an error in the bookkeeping, which is logged and swallowed.
LoopDies ==
    /\ pc # "down" /\ faults < MaxFaults
    /\ faults' = faults + 1
    /\ pc' = "down" /\ mem' = None
    /\ IF pc = "paging" THEN PageIs("lost") ELSE UNCHANGED <<rec, once, diag>>
    /\ missed' = (missed \/ pc \in {"passed", "noticed", "marking", "raised", "recording"})
    /\ UNCHANGED <<cond, kind, streak>>

(***************************************************************************)
(* --reconcile-once, for as long as it holds the lock.                     *)
(***************************************************************************)
\* bound: one operator, who runs one command at a time.
OperatorFree == once.pc = "idle" /\ diag.pc = "idle"

\* It goes on only if the broker answered and the books agree.
OnceBegins ==
    /\ OperatorFree /\ ~LockHeldByLoop /\ cond = "fine"
    /\ once' = [once EXCEPT !.pc = "passed"]
    /\ UNCHANGED <<cond, rec, loopVars, diag, faults, history>>

OnceMarkLoads ==
    /\ once.pc = "passed"
    /\ once' = IF NeedsMark(rec) THEN [once EXCEPT !.pc = "marking", !.mem = rec] ELSE Idle
    /\ UNCHANGED <<cond, rec, loopVars, diag, faults, history>>

OnceMarkSaves ==
    /\ once.pc = "marking"
    /\ rec' = Recovered(once.mem)
    /\ once' = Idle
    /\ UNCHANGED <<cond, loopVars, diag, faults, history>>

OnceDies ==
    /\ once.pc # "idle" /\ faults < MaxFaults
    /\ faults' = faults + 1
    /\ once' = Idle
    /\ UNCHANGED <<cond, rec, loopVars, diag, history>>

(***************************************************************************)
(* agent/diagnostics.py: one verdict for each component it looks at.  What *)
(* it finds on disk, and which broker calls answer, is free; whether there *)
(* is an adapter at all, and whether the books agree, is the condition the *)
(* loop meets too.                                                         *)
(***************************************************************************)
Healthy == [mode |-> "kept", chain |-> "intact", held |-> "empty", cash |-> "empty",
            ledger |-> "loaded", answers |-> {"account", "positions", "orders", "fills"}]

\* Everything as it should be but one thing.
Surroundings ==
    {Healthy}
    \cup {[Healthy EXCEPT !.mode = m] : m \in {"none", "unreadable"}}
    \cup {[Healthy EXCEPT !.chain = c] : c \in {"absent", "torn", "forged", "unreadable"}}
    \cup {[Healthy EXCEPT !.held = h] : h \in {"pending", "unreadable"}}
    \cup {[Healthy EXCEPT !.cash = h] : h \in {"pending", "unreadable"}}
    \cup {[Healthy EXCEPT !.ledger = l] : l \in {"unseeded", "unreadable"}}
    \cup {[Healthy EXCEPT !.answers = @ \ {call}] : call \in Healthy.answers}

QuarantineVerdict(q) ==
    CASE q = "empty" -> "PASS" [] q = "pending" -> "WARN" [] OTHER -> "UNAVAILABLE"

SentinelVerdict(r) ==
    CASE r.status # "active" -> "PASS"
      [] r.count >= FAILURE_ALERT_THRESHOLD -> "FAIL"
      [] OTHER -> "WARN"

\* A comparison has its two sides, or it is not made.
Compared(sides, same) == IF ~sides THEN "UNAVAILABLE" ELSE IF same THEN "PASS" ELSE "FAIL"

\* The books disagree in one of the four comparisons, `off`, under a mismatch.
Comparisons == {"positions", "settled_cash", "open_orders", "day_trades"}

DiagnoseAccount(w, off) ==
    LET answered == IF cond = "keychain" THEN {} ELSE w.answers
        broker == [call \in Healthy.answers |->
                     IF call \in answered THEN "PASS" ELSE "UNAVAILABLE"]
        booked == w.ledger = "loaded"
    IN  [persisted_mode |-> IF w.mode = "kept" THEN "PASS" ELSE "UNAVAILABLE",
         audit_chain |-> CASE w.chain = "intact" -> "PASS"
                           [] w.chain = "torn" -> "WARN"
                           [] w.chain = "forged" -> "FAIL"
                           [] OTHER -> "UNAVAILABLE",
         failure_sentinel |-> SentinelVerdict(rec),
         execution_quarantine |-> QuarantineVerdict(w.held),
         cash_quarantine |-> QuarantineVerdict(w.cash),
         local_ledger |-> CASE w.ledger = "loaded" -> "PASS"
                            [] w.ledger = "unseeded" -> "WARN"
                            [] OTHER -> "UNAVAILABLE",
         broker_account |-> broker["account"],
         broker_positions |-> broker["positions"],
         broker_open_orders |-> broker["orders"],
         broker_fills |-> broker["fills"],
         positions |-> Compared(booked /\ "positions" \in answered, "positions" \notin off),
         settled_cash |-> Compared(booked /\ "account" \in answered, "settled_cash" \notin off),
         open_orders |-> Compared(booked /\ "orders" \in answered, "open_orders" \notin off),
         day_trades |-> Compared("account" \in answered, "day_trades" \notin off)]

Some(report, v) == \E name \in DOMAIN report : report[name] = v

Diagnose ==
    /\ OperatorFree
    /\ \E w \in Surroundings, off \in SUBSET Comparisons :
         /\ (off # {}) = (cond = "mismatch") /\ Cardinality(off) <= 1
         /\ LET report == DiagnoseAccount(w, off) IN
            diag' = [pc |-> "read", mem |-> None, fail |-> Some(report, "FAIL"),
                     unavailable |-> Some(report, "UNAVAILABLE")]
    /\ UNCHANGED <<cond, rec, loopVars, once, faults, history>>

\* maybe_mark_recovered: only a FAIL stands in the way.
DiagMarkLoads ==
    /\ diag.pc = "read"
    /\ diag' = IF ~diag.fail /\ NeedsMark(rec)
               THEN [diag EXCEPT !.pc = "marking", !.mem = rec]
               ELSE NoReport
    /\ UNCHANGED <<cond, rec, loopVars, once, faults, history>>

DiagMarkSaves ==
    /\ diag.pc = "marking"
    /\ rec' = Recovered(diag.mem)
    /\ diag' = NoReport
    /\ UNCHANGED <<cond, loopVars, once, faults, history>>

DiagDies ==
    /\ diag.pc # "idle" /\ faults < MaxFaults
    /\ faults' = faults + 1
    /\ diag' = NoReport
    /\ UNCHANGED <<cond, rec, loopVars, once, history>>

(***************************************************************************)
(* The surroundings.                                                       *)
(***************************************************************************)
ConditionChanges ==
    /\ cond' \in Conditions \ {cond}
    /\ UNCHANGED <<rec, loopVars, once, diag, faults, history>>

Loop == Relaunch \/ Cycle \/ Notice \/ CycleMarkLoads \/ CycleMarkSaves
        \/ HaltLoads \/ HaltSaves \/ Page
Once == OnceMarkLoads \/ OnceMarkSaves
Diag == DiagMarkLoads \/ DiagMarkSaves

Next == \/ Loop \/ LoopDies
        \/ OnceBegins \/ Once \/ OnceDies
        \/ Diagnose \/ Diag \/ DiagDies
        \/ ConditionChanges

Spec == Init /\ [][Next]_vars

\* launchd starts the loop again whenever it ended, and sessions keep opening; a
\* command that began ends.
FairSpec == /\ Spec
            /\ SF_vars(Loop) /\ WF_vars(Once) /\ WF_vars(Diag)

(***************************************************************************)
(* Properties                                                              *)
(***************************************************************************)
\* An active record never counts more halts than there were in a row of its
\* type since a cycle last completed, whatever relaunched in between, unless
\* a death cost the sentinel a halt or a completed cycle.
CountIsOfThisStreak ==
    rec.status = "active" /\ pc \in {"down", "up", "paging"}
        => rec.count <= streak \/ missed

\* _on_cycle_success infers from a count at the threshold that an operator was
\* told: every such record was paged for, is being paged for, or its page was
\* lost to a death or to a notification that raised.
CountMeansAlerted ==
    rec.count >= FAILURE_ALERT_THRESHOLD
        => rec.page \in {"told", "lost", "over"} \/ pc = "paging"

\* A loop that meets the same trouble for ever, while no command interferes, is
\* reported: a page for that type is delivered.
Undisturbed(c) == cond = c /\ once.pc = "idle" /\ diag.pc = "idle"
StuckIsTold ==
    \A c \in {"mismatch", "keychain"} :
        <>[]Undisturbed(c) => <>(rec.kind = c /\ rec.page = "told")

\* An incident that is over for good does not stay active for ever.
MendedIsRecovered == <>[]Undisturbed("fine") => <>[](rec.status # "active")

\* tests/test_run_agent.py: a successful cycle "must then send exactly one
\* recovery notification" for the incident.
OneNoticePerIncident ==
    [][pc = "passed" /\ pc' = "noticed" => rec.page # "over"]_vars

\* diagnostics.py: "Marks the failure sentinel recovered iff EVERY component in
\* `report` is PASS or WARN".
RecoveryIsSeen == diag.pc = "marking" => ~diag.unavailable
===============================================================================
