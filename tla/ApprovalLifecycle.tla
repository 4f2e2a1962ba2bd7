------------------------- MODULE ApprovalLifecycle -------------------------
(***************************************************************************)
(* One approval request from the proposal to the broker, across the three  *)
(* processes that share approval_requests.jsonl:                           *)
(*                                                                         *)
(*   loop  scripts/run_agent.py's scheduled loop: holds the process lock   *)
(*         for its whole life and appends the rows of new requests;        *)
(*   dash  scripts/run_dashboard.py: loads the store ONCE at startup, then *)
(*         takes the lock for one decision at a time;                      *)
(*   cli   run_agent.py --submit-approved: takes the lock, loads the store *)
(*         afresh, mints or reuses the token, passes the gates, spends the *)
(*         token durably and only then posts the order.                    *)
(*                                                                         *)
(* The broker is external: it may take a post it was sent, lose it, and    *)
(* answer late or never.  A write to the file may fail after the writer's  *)
(* own memory was updated, and any process may die between two steps.      *)
(***************************************************************************)
EXTENDS Naturals, FiniteSets

CONSTANTS
    Request,             \* the requests that may ever be created
    Mode,                \* the persisted modes that may be met
    MinDisplay,          \* approval_min_display_seconds
    Expiration,          \* approval_expiration_minutes: request AND token life
    DriftTolerance,      \* SHOWN_AT_DRIFT_TOLERANCE_MS
    MaxTime,             \* bound on the clock
    OperatorInvalidates  \* does an operator call invalidate()? (nothing in src/ does)

ASSUME TimesAssumption ==
    /\ MinDisplay \in Nat /\ Expiration \in Nat /\ DriftTolerance \in Nat
    /\ MaxTime \in Nat
ASSUME SwitchAssumption == OperatorInvalidates \in BOOLEAN

SubmissionPermitted == {"PAPER", "PRODUCTION_ACTIVE"}

Decision == {"absent", "none", "APPROVED", "REJECTED"}
Size == {"full", "reduced"}
Token == [state : {"none", "unspent", "spent"}, qty : Size, until : Nat]
Row == [decision : Decision, withdrawn : BOOLEAN, shownAt : Nat,
        decidedAt : Nat, token : Token]

NoToken == [state |-> "none", qty |-> "full", until |-> 0]
NoRow == [decision |-> "absent", withdrawn |-> FALSE, shownAt |-> 0,
          decidedAt |-> 0, token |-> NoToken]

VARIABLES
    clock,       \* the wall clock every process reads
    mode,        \* mode_state.jsonl
    lock,        \* who holds the process lock
    file,        \* Request -> its last complete row in approval_requests.jsonl
    dashUp,      \* is the dashboard process running
    dashMem,     \* Request -> the row in the dashboard's ApprovalRequestStore
    dashReq, dashQty, dashNow,  \* the approve call being served (lock = "dash")
    cliPc,       \* where --submit-approved is
    cliReq,      \* its request
    cliRow,      \* its own copy of the row, with the token it holds
    inflight,    \* posts the broker has not yet taken or lost
    orders,      \* orders the broker knows by client_order_id
    mints, spends, sends,  \* history: durable mints, durable spends, posts
    asked        \* history: the size the operator approved, "none" before

time == <<clock, mode>>
dashVars == <<dashUp, dashMem, dashReq, dashQty, dashNow>>
cliVars == <<cliPc, cliReq, cliRow>>
brokerVars == <<inflight, orders>>
history == <<mints, spends, sends, asked>>
vars == <<time, lock, file, dashVars, cliVars, brokerVars, history>>

TypeOK ==
    /\ clock \in 0..MaxTime
    /\ mode \in Mode
    /\ lock \in {"free", "loop", "dash", "cli"}
    /\ file \in [Request -> Row]
    /\ dashUp \in BOOLEAN
    /\ dashMem \in [Request -> Row]
    /\ dashReq \in Request /\ dashQty \in Size /\ dashNow \in Nat
    /\ cliPc \in {"idle", "mint", "lookup", "gates", "consume", "post",
                  "await", "audit"}
    /\ cliReq \in Request
    /\ cliRow \in Row
    /\ inflight \subseteq Request
    /\ orders \subseteq Request
    /\ mints \in [Request -> Nat]
    /\ spends \in [Request -> Nat]
    /\ sends \in [Request -> Nat]
    /\ asked \in [Request -> Size \cup {"none"}]

Init ==
    /\ clock = 0 /\ mode \in Mode /\ lock = "free"
    /\ file = [r \in Request |-> NoRow]
    /\ dashUp = FALSE /\ dashMem = [r \in Request |-> NoRow]
    /\ dashReq \in Request /\ dashQty = "full" /\ dashNow = 0
    /\ cliPc = "idle" /\ cliReq \in Request /\ cliRow = NoRow
    /\ inflight = {} /\ orders = {}
    /\ mints = [r \in Request |-> 0]
    /\ spends = [r \in Request |-> 0]
    /\ sends = [r \in Request |-> 0]
    /\ asked = [r \in Request |-> "none"]

Raise(f, r) == [f EXCEPT ![r] = @ + 1]

(***************************************************************************)
(* What mint_approval_token and ApprovalService.approve accept of a row.   *)
(***************************************************************************)
\* Fault: the drift between the decision and the mint is not checked.
MintableLate(row, now) ==
    /\ row.decision = "APPROVED" /\ ~row.withdrawn
    /\ row.token.state = "none"
    /\ now < row.shownAt + Expiration
    /\ row.shownAt + MinDisplay <= now

\* Fault: any decision will do.
MintableRejected(row, now) ==
    /\ row.decision # "absent" /\ row.token.state = "none"
    /\ now < row.shownAt + Expiration

Mintable(row, now) ==
    /\ row.decision = "APPROVED" /\ ~row.withdrawn
    /\ row.token.state = "none"
    /\ now < row.shownAt + Expiration
    /\ now <= row.decidedAt + DriftTolerance
    /\ row.shownAt + MinDisplay <= now

\* create() records when the request was shown; decide() when it was decided.
Created(now) == [NoRow EXCEPT !.decision = "none", !.shownAt = now]

Decided(row, verdict, now) ==
    [row EXCEPT !.decision = verdict, !.decidedAt = now]

WithToken(row, qty, now) ==
    [row EXCEPT !.token = [state |-> "unspent", qty |-> qty,
                           until |-> now + Expiration]]

\* Fault: the snapshot written on consumption drops expires_at.
WithTokenTruncated(row) ==
    [row EXCEPT !.token = [state |-> "spent", qty |-> row.token.qty]]

WithTokenSpent(row) == [row EXCEPT !.token.state = "spent"]

\* verify_modification_within_bounds as both submit checks call it: with the
\* staged order's full quantity against the size the token was minted for.
WithinBounds(token) == token.qty = "full"

(***************************************************************************)
(* Time, and the scheduled loop with the mode writers.                     *)
(***************************************************************************)
Tick ==
    /\ clock < MaxTime
    /\ clock' = clock + 1
    /\ UNCHANGED <<mode, lock, file, dashVars, cliVars, brokerVars, history>>

LoopStart ==
    /\ lock = "free"
    /\ lock' = "loop"
    /\ UNCHANGED <<time, file, dashVars, cliVars, brokerVars, history>>

LoopCreate(r) ==
    /\ lock = "loop" /\ file[r].decision = "absent"
    /\ file' = [file EXCEPT ![r] = Created(clock)]
    /\ UNCHANGED <<time, lock, dashVars, cliVars, brokerVars, history>>

LoopExit ==
    /\ lock = "loop"
    /\ lock' = "free"
    /\ UNCHANGED <<time, file, dashVars, cliVars, brokerVars, history>>

\* Fault: a mode command does not take the lock.
WriteModeUnlocked(m) ==
    /\ m # mode
    /\ mode' = m
    /\ UNCHANGED <<clock, lock, file, dashVars, cliVars, brokerVars, history>>

\* The loop's halts and resumes, and the one-shot mode commands, which take
\* and release the lock around the write.
WriteMode(m) ==
    /\ lock \in {"free", "loop"} /\ m # mode
    /\ mode' = m
    /\ UNCHANGED <<clock, lock, file, dashVars, cliVars, brokerVars, history>>

(***************************************************************************)
(* The dashboard.                                                          *)
(***************************************************************************)
DashStart ==
    /\ ~dashUp
    /\ dashUp' = TRUE
    /\ dashMem' = file
    /\ UNCHANGED <<time, lock, file, dashReq, dashQty, dashNow, cliVars,
                   brokerVars, history>>

DashStop ==
    /\ dashUp
    /\ dashUp' = FALSE
    /\ dashMem' = [r \in Request |-> NoRow]
    /\ lock' = IF lock = "dash" THEN "free" ELSE lock
    /\ UNCHANGED <<time, file, dashReq, dashQty, dashNow, cliVars,
                   brokerVars, history>>

\* decide() replaces the row in memory and then appends it; when the append
\* raises (persisted is FALSE) the memory keeps the decision.
Decide(r, verdict, persisted) ==
    LET row == Decided(dashMem[r], verdict, clock)
    IN  /\ dashUp /\ lock = "free"
        /\ dashMem[r].decision = "none" /\ ~dashMem[r].withdrawn
        /\ dashMem' = [dashMem EXCEPT ![r] = row]
        /\ file' = IF persisted THEN [file EXCEPT ![r] = row] ELSE file

DashApprove(r, q, persisted) ==
    /\ Decide(r, "APPROVED", persisted)
    /\ dashMem[r].shownAt + MinDisplay <= clock
    /\ lock' = IF persisted THEN "dash" ELSE "free"
    /\ dashReq' = r /\ dashQty' = q /\ dashNow' = clock
    /\ asked' = [asked EXCEPT ![r] = q]
    /\ UNCHANGED <<time, dashUp, cliVars, brokerVars, mints, spends, sends>>

\* The retry of an approve whose mint never happened: APPROVED in memory,
\* and neither a live nor a recorded token there.
DashReapprove(r, q) ==
    /\ dashUp /\ lock = "free"
    /\ dashMem[r].decision = "APPROVED"
    /\ dashMem[r].token.state = "none"
    /\ lock' = "dash"
    /\ dashReq' = r /\ dashQty' = q /\ dashNow' = clock
    /\ asked' = [asked EXCEPT ![r] = q]
    /\ UNCHANGED <<time, file, dashUp, dashMem, cliVars, brokerVars, mints,
                   spends, sends>>

DashMint(persisted) ==
    LET row == WithToken(dashMem[dashReq], dashQty, dashNow)
    IN  /\ lock = "dash"
        /\ Mintable(dashMem[dashReq], dashNow)
        /\ dashMem' = [dashMem EXCEPT ![dashReq] = row]
        /\ file' = IF persisted THEN [file EXCEPT ![dashReq] = row] ELSE file
        /\ mints' = IF persisted THEN Raise(mints, dashReq) ELSE mints
        /\ lock' = "free"
        /\ UNCHANGED <<time, dashUp, dashReq, dashQty, dashNow, cliVars,
                       brokerVars, spends, sends, asked>>

\* The audit append raises, or the mint is refused (an unusable limit price,
\* an expired request, drift): the decision stands, the call answers an error.
DashGivesUp ==
    /\ lock = "dash"
    /\ lock' = "free"
    /\ UNCHANGED <<time, file, dashVars, cliVars, brokerVars, history>>

DashReject(r, persisted) ==
    /\ Decide(r, "REJECTED", persisted)
    /\ UNCHANGED <<time, lock, dashUp, dashReq, dashQty, dashNow, cliVars,
                   brokerVars, history>>

(***************************************************************************)
(* run_agent.py --submit-approved.                                         *)
(***************************************************************************)
CliStart(r) ==
    /\ lock = "free"
    /\ lock' = "cli" /\ cliPc' = "mint" /\ cliReq' = r /\ cliRow' = file[r]
    /\ UNCHANGED <<time, file, dashVars, brokerVars, history>>

\* A recorded token, spent or not, is rebuilt from its snapshot.
CliReuse ==
    /\ cliPc = "mint"
    /\ cliRow.decision = "APPROVED" /\ ~cliRow.withdrawn
    /\ cliRow.token.state # "none"
    /\ cliPc' = "lookup"
    /\ UNCHANGED <<time, lock, file, dashVars, cliReq, cliRow, brokerVars,
                   history>>

\* The command passes no overrides: the token is for the full staged size.
CliMint ==
    LET row == WithToken(cliRow, "full", clock)
    IN  /\ cliPc = "mint"
        /\ Mintable(cliRow, clock)
        /\ cliRow' = row
        /\ file' = [file EXCEPT ![cliReq] = row]
        /\ mints' = Raise(mints, cliReq)
        /\ cliPc' = "lookup"
        /\ UNCHANGED <<time, lock, dashVars, cliReq, brokerVars, spends,
                       sends, asked>>

\* get_by_client_id, before anything is spent: an order the broker already
\* holds is returned as it is.
CliFindsOrder ==
    /\ cliPc \in {"lookup", "post", "await"}
    /\ cliReq \in orders
    /\ cliPc' = "audit"
    /\ UNCHANGED <<time, lock, file, dashVars, cliReq, cliRow, brokerVars,
                   history>>

CliChecks ==
    /\ cliPc = "lookup" /\ cliReq \notin orders
    /\ WithinBounds(cliRow.token)
    /\ cliPc' = "gates"
    /\ UNCHANGED <<time, lock, file, dashVars, cliReq, cliRow, brokerVars,
                   history>>

\* The mode, reconciliation, session and quote gates; the last three only
\* refuse, which CliStops covers.
CliGates ==
    /\ cliPc = "gates"
    /\ mode \in SubmissionPermitted
    /\ cliPc' = "consume"
    /\ UNCHANGED <<time, lock, file, dashVars, cliReq, cliRow, brokerVars,
                   history>>

\* Fault: no sink is attached, the spend is known to this process only.
CliConsumeInMemory ==
    /\ cliPc = "consume"
    /\ cliRow.token.state = "unspent"
    /\ clock < cliRow.token.until
    /\ cliRow' = WithTokenSpent(cliRow)
    /\ cliPc' = "post"
    /\ UNCHANGED <<time, lock, file, dashVars, cliReq, brokerVars, history>>

\* consume(), then the sink records the spend before _submit_impl runs.
CliConsume ==
    LET row == WithTokenSpent(cliRow)
    IN  /\ cliPc = "consume"
        /\ cliRow.token.state = "unspent"
        /\ clock < cliRow.token.until
        /\ cliRow.shownAt + MinDisplay <= clock
        /\ cliRow' = row
        /\ file' = [file EXCEPT ![cliReq] = row]
        /\ spends' = Raise(spends, cliReq)
        /\ cliPc' = "post"
        /\ UNCHANGED <<time, lock, dashVars, cliReq, brokerVars, mints,
                       sends, asked>>

\* _submit_impl looks again and posts once; a write is never retried.
CliPost ==
    /\ cliPc = "post" /\ cliReq \notin orders
    /\ sends' = Raise(sends, cliReq)
    /\ inflight' = inflight \cup {cliReq}
    /\ cliPc' = "await"
    /\ UNCHANGED <<time, lock, file, dashVars, cliReq, cliRow, orders, mints,
                   spends, asked>>

CliAudit ==
    /\ cliPc = "audit"
    /\ cliPc' = "idle" /\ lock' = "free"
    /\ UNCHANGED <<time, file, dashVars, cliReq, cliRow, brokerVars, history>>

\* Fault: the post carries no timeout, so a lost one is awaited for ever.
CliStopsUnlessAwaiting ==
    /\ cliPc \notin {"idle", "await"}
    /\ cliPc' = "idle" /\ lock' = "free"
    /\ UNCHANGED <<time, file, dashVars, cliReq, cliRow, brokerVars, history>>

\* Every refusal, an append that raises, a transport timeout after the post
\* (AmbiguousOrderState) and the death of the process: all leave the file as
\* it is and give the lock back.
CliStops ==
    /\ cliPc # "idle"
    /\ cliPc' = "idle" /\ lock' = "free"
    /\ UNCHANGED <<time, file, dashVars, cliReq, cliRow, brokerVars, history>>

(***************************************************************************)
(* The broker, and the operator's invalidate().                            *)
(***************************************************************************)
BrokerTakes(r) ==
    /\ r \in inflight
    /\ inflight' = inflight \ {r}
    /\ orders' = orders \cup {r}
    /\ UNCHANGED <<time, lock, file, dashVars, cliVars, history>>

BrokerLoses(r) ==
    /\ r \in inflight
    /\ inflight' = inflight \ {r}
    /\ UNCHANGED <<time, lock, file, dashVars, cliVars, orders, history>>

\* invalidate() refuses a decided request.
Invalidatable(row) == row.decision = "none" /\ ~row.withdrawn

Withdrawn(row) == [row EXCEPT !.withdrawn = TRUE]

OperatorInvalidate(r) ==
    /\ OperatorInvalidates /\ lock = "free"
    /\ Invalidatable(file[r])
    /\ file' = [file EXCEPT ![r] = Withdrawn(file[r])]
    /\ UNCHANGED <<time, lock, dashVars, cliVars, brokerVars, history>>

(***************************************************************************)
CliStep ==
    \/ CliReuse \/ CliMint \/ CliFindsOrder \/ CliChecks \/ CliGates
    \/ CliConsume \/ CliPost \/ CliAudit \/ CliStops

DashWork == (\E persisted \in BOOLEAN : DashMint(persisted)) \/ DashGivesUp

Next ==
    \/ Tick \/ LoopStart \/ LoopExit \/ DashStart \/ DashStop
    \/ CliStep \/ DashWork
    \/ \E m \in Mode : WriteMode(m)
    \/ \E r \in Request :
        \/ LoopCreate(r) \/ CliStart(r)
        \/ BrokerTakes(r) \/ BrokerLoses(r) \/ OperatorInvalidate(r)
        \/ \E q \in Size : DashReapprove(r, q)
        \/ \E persisted \in BOOLEAN :
            \/ DashReject(r, persisted)
            \/ \E q \in Size : DashApprove(r, q, persisted)

Spec == Init /\ [][Next]_vars

\* A process that holds the lock for one call finishes the call: every HTTP
\* request carries a timeout and nothing in the two handlers waits otherwise.
FairSpec == Spec /\ WF_vars(CliStep) /\ WF_vars(DashWork)

(***************************************************************************)
(* Properties.                                                             *)
(***************************************************************************)
One(b) == IF b THEN 1 ELSE 0

\* While --submit-approved runs, the row it loaded is the row in the file: no
\* other process writes between its reads and its writes (process_lock.py).
WriterSeesTheFile == lock = "cli" => cliRow = file[cliReq]

\* Every post to the broker, the one about to leave included, is paid for by a
\* spend already on disk, and every spend by a durable mint: what holds across
\* crashes, stale dashboards and repeated --submit-approved runs.
SendsAreCovered ==
    \A r \in Request :
        /\ sends[r] + One(cliPc = "post" /\ cliReq = r) <= spends[r]
        /\ spends[r] + One(file[r].token.state = "unspent") <= mints[r]

\* An order the broker holds, or may yet take, belongs to a request the file
\* records as APPROVED, was paid for, and (unless a second token was minted
\* over the first) has its token recorded as spent.
OrdersAreApproved ==
    \A r \in orders \cup inflight :
        /\ file[r].decision = "APPROVED"
        /\ sends[r] > 0
        /\ mints[r] = 1 => file[r].token.state = "spent"

\* A decision on disk is never replaced by the other one, by no process and
\* from no stale copy (decide() refuses a decided request).
DecisionFinal ==
    [][\A r \in Request :
        file[r].decision \in {"APPROVED", "REJECTED"}
            => file'[r].decision = file[r].decision]_vars

\* Nothing is posted in a mode that does not permit submission, although the
\* mode is read several steps before the post.
PostsOnlyWhenPermitted == [][sends' # sends => mode \in SubmissionPermitted]_vars

\* A token is spent close to the decision it carries: at most the drift
\* tolerance plus one token life after it, however often the mint was retried.
SpentWhileFresh ==
    [][\A r \in Request : spends'[r] > spends[r] =>
        /\ clock < file[r].decidedAt + DriftTolerance + Expiration
        /\ file[r].shownAt + MinDisplay <= file[r].decidedAt]_vars

\* What the invariants above rest on: who may hold the lock, what a stale
\* dashboard row may still say of a request, what a mint leaves in the file,
\* and that the mode cannot move between the gate and the post.
LockDiscipline ==
    /\ lock = "cli" <=> cliPc # "idle"
    /\ lock = "dash" => dashUp
    /\ cliPc \in {"consume", "post"} => mode \in SubmissionPermitted
    /\ cliPc \in {"lookup", "gates", "consume", "post", "await"}
           => cliRow.decision = "APPROVED" /\ cliRow.token.state # "none"

StaleMemory ==
    \A r \in Request :
        /\ dashMem[r].decision = "none" => file[r].decision = "none"
        /\ dashMem[r].decision = "APPROVED"
               => file[r].decision \in {"none", "APPROVED"}
        /\ dashMem[r].token.state # "none" => dashMem[r].decision = "APPROVED"

MintsAreRecorded ==
    \A r \in Request :
        /\ mints[r] > 0 <=> file[r].token.state # "none"
        /\ mints[r] > 0 => file[r].decision = "APPROVED"
        /\ r \in orders \cup inflight => sends[r] > 0

\* What a spend's freshness rests on: an approval was never given before the
\* request had been shown long enough, and no token, on disk or in the
\* dashboard's memory, outlives the decision it carries by more.
TimelyRow(row) ==
    /\ row.decision = "APPROVED" => row.shownAt + MinDisplay <= row.decidedAt
    /\ row.token.state # "none"
           => row.token.until <= row.decidedAt + DriftTolerance + Expiration
Timely == \A r \in Request : TimelyRow(file[r]) /\ TimelyRow(dashMem[r])

IInv ==
    /\ TypeOK
    /\ LockDiscipline
    /\ WriterSeesTheFile
    /\ StaleMemory
    /\ MintsAreRecorded
    /\ SendsAreCovered

(***************************************************************************)
(* What the docs say of this path and the code does not do.                *)
(***************************************************************************)
\* approval_bridge.py: "a decided request mints exactly one spendable token,
\* durably".
OneSpendableToken == \A r \in Request : mints[r] <= 1

\* The token is bound to the size the operator actually approved.
NeverLargerThanApproved ==
    \A r \in Request :
        file[r].token.state # "none" /\ file[r].token.qty = "full"
            => asked[r] = "full"

\* The process lock is always given back by the call that took it.
LockIsReleased == lock \in {"cli", "dash"} ~> lock \in {"free", "loop"}

\* The three processes implement the promise.
Promise == INSTANCE ApprovalPromise WITH
    decision <- [r \in Request |-> file[r].decision],
    granted <- mints, spent <- spends, sent <- sends, placed <- orders
ImplementsPromise == Promise!Spec
=============================================================================
