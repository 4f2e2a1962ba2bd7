---------------------- MODULE ApprovalLifecycle_proofs ----------------------
(***************************************************************************)
(* The approval path is correct for every set of requests, every set of    *)
(* modes and all the times: proofs of the safety properties of             *)
(* ApprovalLifecycle.                                                      *)
(***************************************************************************)
EXTENDS ApprovalLifecycle, TLAPS

(***************************************************************************)
(* What the row operators return.                                          *)
(***************************************************************************)
\* A request just created is a row that is undecided and has no token.
LEMMA CreatedRow ==
    ASSUME NEW now \in Nat
    PROVE  /\ Created(now) \in Row
           /\ Created(now).decision = "none"
           /\ Created(now).token.state = "none"
  BY DEF Created, NoRow, NoToken, Row, Token, Size, Decision

\* A decision changes the decision of a row and leaves its token alone.
LEMMA DecidedRow ==
    ASSUME NEW row \in Row, NEW verdict \in Decision, NEW now \in Nat
    PROVE  /\ Decided(row, verdict, now) \in Row
           /\ Decided(row, verdict, now).decision = verdict
           /\ Decided(row, verdict, now).token = row.token
  BY DEF Decided, Row

\* A row given a token is a row, decided as before, with an unspent token.
LEMMA WithTokenRow ==
    ASSUME NEW row \in Row, NEW q \in Size, NEW now \in Nat
    PROVE  /\ WithToken(row, q, now) \in Row
           /\ WithToken(row, q, now).decision = row.decision
           /\ WithToken(row, q, now).token.state = "unspent"
  BY TimesAssumption DEF WithToken, Row, Token, Size

\* A row whose token is spent is a row, decided as before.
LEMMA WithTokenSpentRow ==
    ASSUME NEW row \in Row
    PROVE  /\ WithTokenSpent(row) \in Row
           /\ WithTokenSpent(row).decision = row.decision
           /\ WithTokenSpent(row).token.state = "spent"
  BY DEF WithTokenSpent, Row, Token

\* A withdrawn row is a row, with the decision and the token it had.
LEMMA WithdrawnRow ==
    ASSUME NEW row \in Row
    PROVE  /\ Withdrawn(row) \in Row
           /\ Withdrawn(row).decision = row.decision
           /\ Withdrawn(row).token = row.token
  BY DEF Withdrawn, Row

\* A fresh row is a row.
LEMMA NoRowIsARow ==
    /\ NoRow \in Row
    /\ NoRow.decision = "absent" /\ NoRow.token.state = "none"
  BY DEF NoRow, NoToken, Row, Token, Size, Decision

\* The initial states satisfy the inductive invariant.
LEMMA InitInv == Init => IInv
  <1> SUFFICES ASSUME Init PROVE IInv
    OBVIOUS
  <1>1. TypeOK
    <2>1. clock \in 0..MaxTime
      BY TimesAssumption DEF Init
    <2>2. file \in [Request -> Row] /\ dashMem \in [Request -> Row] /\ cliRow \in Row
      BY NoRowIsARow DEF Init
    <2>3. dashQty \in Size /\ asked \in [Request -> Size \cup {"none"}]
      BY DEF Init, Size
    <2> QED
      BY <2>1, <2>2, <2>3 DEF Init, TypeOK
  <1>2. LockDiscipline /\ WriterSeesTheFile
    BY DEF Init, LockDiscipline, WriterSeesTheFile
  <1>3. StaleMemory
    BY NoRowIsARow DEF Init, StaleMemory
  <1>4. MintsAreRecorded
    BY NoRowIsARow DEF Init, MintsAreRecorded
  <1>5. SendsAreCovered
    BY NoRowIsARow DEF Init, SendsAreCovered, One
  <1> QED
    BY <1>1, <1>2, <1>3, <1>4, <1>5 DEF IInv

(***************************************************************************)
(* What the actions that write rows do to them.                            *)
(***************************************************************************)
\* A decision in the dashboard: the row was undecided on disk too.
LEMMA DecideEffect ==
    ASSUME IInv, NEW r \in Request, NEW verdict \in {"APPROVED", "REJECTED"},
           NEW persisted \in BOOLEAN, Decide(r, verdict, persisted)
    PROVE  \E row \in Row :
             /\ row.decision = verdict /\ row.token.state = "none"
             /\ file[r].decision = "none"
             /\ dashMem' = [dashMem EXCEPT ![r] = row]
             /\ file' = [file EXCEPT ![r] = row] \/ file' = file
  <1> DEFINE row == Decided(dashMem[r], verdict, clock)
  <1>1. dashMem[r] \in Row /\ verdict \in Decision /\ clock \in Nat
    BY TimesAssumption DEF IInv, TypeOK, Decision
  <1>2. row \in Row /\ row.decision = verdict /\ row.token = dashMem[r].token
    BY <1>1, DecidedRow
  <1>3. dashMem[r].decision = "none" /\ dashMem[r].token.state = "none"
    BY <1>1 DEF IInv, StaleMemory, Decide, Row, Token
  <1>4. file[r].decision = "none"
    BY <1>3 DEF IInv, StaleMemory
  <1>5. /\ dashMem' = [dashMem EXCEPT ![r] = row]
        /\ file' = [file EXCEPT ![r] = row] \/ file' = file
    BY DEF Decide
  <1> HIDE DEF row
  <1> QED
    BY <1>2, <1>3, <1>4, <1>5

\* A mint in the dashboard, from a row that may be stale.
LEMMA DashMintEffect ==
    ASSUME IInv, NEW persisted \in BOOLEAN, DashMint(persisted)
    PROVE  \E row \in Row :
             /\ row.decision = "APPROVED" /\ row.token.state = "unspent"
             /\ file[dashReq].decision \in {"none", "APPROVED"}
             /\ dashMem' = [dashMem EXCEPT ![dashReq] = row]
             /\ \/ /\ file' = [file EXCEPT ![dashReq] = row]
                   /\ mints' = Raise(mints, dashReq)
                \/ file' = file /\ mints' = mints
  <1> DEFINE row == WithToken(dashMem[dashReq], dashQty, dashNow)
  <1>1. dashMem[dashReq] \in Row /\ dashQty \in Size /\ dashNow \in Nat
    BY DEF IInv, TypeOK
  <1>2. dashMem[dashReq].decision = "APPROVED"
    BY DEF DashMint, Mintable
  <1>3. row \in Row /\ row.decision = "APPROVED" /\ row.token.state = "unspent"
    BY <1>1, <1>2, WithTokenRow
  <1>4. file[dashReq].decision \in {"none", "APPROVED"}
    BY <1>2 DEF IInv, TypeOK, StaleMemory
  <1>5. /\ dashMem' = [dashMem EXCEPT ![dashReq] = row]
        /\ \/ /\ file' = [file EXCEPT ![dashReq] = row]
              /\ mints' = Raise(mints, dashReq)
           \/ file' = file /\ mints' = mints
    BY DEF DashMint
  <1> HIDE DEF row
  <1> QED
    BY <1>3, <1>4, <1>5

\* A mint by --submit-approved, from the row that is in the file.
LEMMA CliMintEffect ==
    ASSUME IInv, CliMint
    PROVE  /\ cliRow' \in Row
           /\ cliRow'.decision = "APPROVED" /\ cliRow'.token.state = "unspent"
           /\ file[cliReq].decision = "APPROVED"
           /\ file[cliReq].token.state = "none"
           /\ file' = [file EXCEPT ![cliReq] = cliRow']
  <1>1. cliRow \in Row /\ "full" \in Size /\ clock \in Nat
    BY TimesAssumption DEF IInv, TypeOK, Size
  <1>2. cliRow.decision = "APPROVED" /\ cliRow.token.state = "none"
    BY DEF CliMint, Mintable
  <1>3. cliRow = file[cliReq]
    BY DEF IInv, LockDiscipline, WriterSeesTheFile, CliMint
  <1>4. /\ cliRow' = WithToken(cliRow, "full", clock)
        /\ file' = [file EXCEPT ![cliReq] = cliRow']
    BY DEF CliMint
  <1> QED
    BY <1>1, <1>2, <1>3, <1>4, WithTokenRow

\* A spend by --submit-approved, of the token that is in the file.
LEMMA CliConsumeEffect ==
    ASSUME IInv, CliConsume
    PROVE  /\ cliRow' \in Row
           /\ cliRow'.decision = file[cliReq].decision
           /\ cliRow'.token.state = "spent"
           /\ file[cliReq].token.state = "unspent"
           /\ file' = [file EXCEPT ![cliReq] = cliRow']
  <1>1. cliRow \in Row
    BY DEF IInv, TypeOK
  <1>2. cliRow = file[cliReq] /\ cliRow.token.state = "unspent"
    BY DEF IInv, LockDiscipline, WriterSeesTheFile, CliConsume
  <1>3. /\ cliRow' = WithTokenSpent(cliRow)
        /\ file' = [file EXCEPT ![cliReq] = cliRow']
    BY DEF CliConsume
  <1> QED
    BY <1>1, <1>2, <1>3, WithTokenSpentRow


\* Every step keeps every variable in its type.
LEMMA TypeStep ==
    ASSUME IInv, [Next]_vars
    PROVE  TypeOK'
  <1> USE DEF IInv, TypeOK, time, dashVars, cliVars, brokerVars, history
  <1>1. CASE Tick
    BY <1>1, TimesAssumption DEF Tick
  <1>2. CASE LoopStart
    BY <1>2 DEF LoopStart
  <1>3. ASSUME NEW r \in Request, LoopCreate(r)
        PROVE  TypeOK'
    BY <1>3, CreatedRow DEF LoopCreate
  <1>4. CASE LoopExit
    BY <1>4 DEF LoopExit
  <1>5. ASSUME NEW m \in Mode, WriteMode(m)
        PROVE  TypeOK'
    BY <1>5 DEF WriteMode
  <1>6. CASE DashStart
    BY <1>6 DEF DashStart
  <1>7. CASE DashStop
    BY <1>7, NoRowIsARow DEF DashStop
  <1>8. ASSUME NEW r \in Request, NEW q \in Size, NEW persisted \in BOOLEAN,
               DashApprove(r, q, persisted)
        PROVE  TypeOK'
    BY <1>8, DecideEffect DEF DashApprove
  <1>9. ASSUME NEW r \in Request, NEW q \in Size, DashReapprove(r, q)
        PROVE  TypeOK'
    BY <1>9 DEF DashReapprove
  <1>10. ASSUME NEW persisted \in BOOLEAN, DashMint(persisted)
        PROVE  TypeOK'
    <2>1. PICK row \in Row :
            /\ dashMem' = [dashMem EXCEPT ![dashReq] = row]
            /\ \/ /\ file' = [file EXCEPT ![dashReq] = row]
                  /\ mints' = Raise(mints, dashReq)
               \/ file' = file /\ mints' = mints
      BY <1>10, DashMintEffect
    <2>2. dashMem' \in [Request -> Row] /\ file' \in [Request -> Row]
      BY <2>1
    <2>3. mints' \in [Request -> Nat]
      BY <2>1 DEF Raise
    <2> QED
      BY <1>10, <2>2, <2>3 DEF DashMint
  <1>11. CASE DashGivesUp
    BY <1>11 DEF DashGivesUp
  <1>12. ASSUME NEW r \in Request, NEW persisted \in BOOLEAN,
               DashReject(r, persisted)
        PROVE  TypeOK'
    BY <1>12, DecideEffect DEF DashReject
  <1>13. ASSUME NEW r \in Request, CliStart(r)
        PROVE  TypeOK'
    BY <1>13 DEF CliStart
  <1>14. CASE CliReuse
    BY <1>14 DEF CliReuse
  <1>15. CASE CliMint
    BY <1>15, CliMintEffect DEF CliMint, Raise, Size
  <1>16. CASE CliFindsOrder
    BY <1>16 DEF CliFindsOrder
  <1>17. CASE CliChecks
    BY <1>17 DEF CliChecks
  <1>18. CASE CliGates
    BY <1>18 DEF CliGates
  <1>19. CASE CliConsume
    BY <1>19, CliConsumeEffect DEF CliConsume, Raise
  <1>20. CASE CliPost
    BY <1>20 DEF CliPost, Raise
  <1>21. CASE CliAudit
    BY <1>21 DEF CliAudit
  <1>22. CASE CliStops
    BY <1>22 DEF CliStops
  <1>23. ASSUME NEW r \in Request, BrokerTakes(r)
        PROVE  TypeOK'
    BY <1>23 DEF BrokerTakes
  <1>24. ASSUME NEW r \in Request, BrokerLoses(r)
        PROVE  TypeOK'
    BY <1>24 DEF BrokerLoses
  <1>25. ASSUME NEW r \in Request, OperatorInvalidate(r)
        PROVE  TypeOK'
    BY <1>25, WithdrawnRow DEF OperatorInvalidate, Invalidatable
  <1>26. CASE UNCHANGED vars
    BY <1>26 DEF vars
  <1> QED
    BY <1>1, <1>2, <1>3, <1>4, <1>5, <1>6, <1>7, <1>8, <1>9, <1>10, <1>11,
       <1>12, <1>13, <1>14, <1>15, <1>16, <1>17, <1>18, <1>19, <1>20, <1>21,
       <1>22, <1>23, <1>24, <1>25, <1>26 DEF Next, CliStep, DashWork

\* Every step keeps the lock discipline and leaves the lock holder's copy exact.
LEMMA LockStep ==
    ASSUME IInv, [Next]_vars
    PROVE  LockDiscipline' /\ WriterSeesTheFile'
  <1> USE DEF IInv, TypeOK, time, dashVars, cliVars, brokerVars, history,
              LockDiscipline, WriterSeesTheFile
  <1>1. CASE Tick
    BY <1>1 DEF Tick
  <1>2. CASE LoopStart
    BY <1>2 DEF LoopStart
  <1>3. ASSUME NEW r \in Request, LoopCreate(r)
        PROVE  LockDiscipline' /\ WriterSeesTheFile'
    BY <1>3 DEF LoopCreate
  <1>4. CASE LoopExit
    BY <1>4 DEF LoopExit
  <1>5. ASSUME NEW m \in Mode, WriteMode(m)
        PROVE  LockDiscipline' /\ WriterSeesTheFile'
    BY <1>5 DEF WriteMode
  <1>6. CASE DashStart
    BY <1>6 DEF DashStart
  <1>7. CASE DashStop
    BY <1>7 DEF DashStop
  <1>8. ASSUME NEW r \in Request, NEW q \in Size, NEW persisted \in BOOLEAN,
               DashApprove(r, q, persisted)
        PROVE  LockDiscipline' /\ WriterSeesTheFile'
    BY <1>8 DEF DashApprove, Decide
  <1>9. ASSUME NEW r \in Request, NEW q \in Size, DashReapprove(r, q)
        PROVE  LockDiscipline' /\ WriterSeesTheFile'
    BY <1>9 DEF DashReapprove
  <1>10. ASSUME NEW persisted \in BOOLEAN, DashMint(persisted)
        PROVE  LockDiscipline' /\ WriterSeesTheFile'
    BY <1>10 DEF DashMint
  <1>11. CASE DashGivesUp
    BY <1>11 DEF DashGivesUp
  <1>12. ASSUME NEW r \in Request, NEW persisted \in BOOLEAN,
               DashReject(r, persisted)
        PROVE  LockDiscipline' /\ WriterSeesTheFile'
    BY <1>12 DEF DashReject, Decide
  <1>13. ASSUME NEW r \in Request, CliStart(r)
        PROVE  LockDiscipline' /\ WriterSeesTheFile'
    BY <1>13 DEF CliStart
  <1>14. CASE CliReuse
    BY <1>14 DEF CliReuse
  <1>15. CASE CliMint
    BY <1>15, CliMintEffect DEF CliMint, Size
  <1>16. CASE CliFindsOrder
    BY <1>16 DEF CliFindsOrder
  <1>17. CASE CliChecks
    BY <1>17 DEF CliChecks
  <1>18. CASE CliGates
    BY <1>18 DEF CliGates
  <1>19. CASE CliConsume
    BY <1>19, CliConsumeEffect DEF CliConsume
  <1>20. CASE CliPost
    BY <1>20 DEF CliPost
  <1>21. CASE CliAudit
    BY <1>21 DEF CliAudit
  <1>22. CASE CliStops
    BY <1>22 DEF CliStops
  <1>23. ASSUME NEW r \in Request, BrokerTakes(r)
        PROVE  LockDiscipline' /\ WriterSeesTheFile'
    BY <1>23 DEF BrokerTakes
  <1>24. ASSUME NEW r \in Request, BrokerLoses(r)
        PROVE  LockDiscipline' /\ WriterSeesTheFile'
    BY <1>24 DEF BrokerLoses
  <1>25. ASSUME NEW r \in Request, OperatorInvalidate(r)
        PROVE  LockDiscipline' /\ WriterSeesTheFile'
    BY <1>25 DEF OperatorInvalidate, Invalidatable
  <1>26. CASE UNCHANGED vars
    BY <1>26 DEF vars
  <1> QED
    BY <1>1, <1>2, <1>3, <1>4, <1>5, <1>6, <1>7, <1>8, <1>9, <1>10, <1>11,
       <1>12, <1>13, <1>14, <1>15, <1>16, <1>17, <1>18, <1>19, <1>20, <1>21,
       <1>22, <1>23, <1>24, <1>25, <1>26 DEF Next, CliStep, DashWork

\* The actions that only move a process, the clock, the mode or the lock.
Quiet ==
    \/ Tick \/ LoopStart \/ LoopExit \/ DashGivesUp
    \/ CliReuse \/ CliFindsOrder \/ CliChecks \/ CliGates \/ CliAudit \/ CliStops
    \/ \E m \in Mode : WriteMode(m)
    \/ \E r \in Request : CliStart(r) \/ \E q \in Size : DashReapprove(r, q)
    \/ UNCHANGED vars

\* They leave every request's row, tokens, spends, posts and orders alone.
LEMMA QuietFrame ==
    ASSUME Quiet
    PROVE  UNCHANGED <<file, dashMem, mints, spends, sends, inflight, orders>>
  BY DEF Quiet, Tick, LoopStart, LoopExit, DashGivesUp, CliReuse, CliFindsOrder,
         CliChecks, CliGates, CliAudit, CliStops, WriteMode, CliStart,
         DashReapprove, vars, time, dashVars, cliVars, brokerVars, history

\* Every step keeps a stale dashboard row compatible with the file.
LEMMA MemoryStep ==
    ASSUME IInv, [Next]_vars
    PROVE  StaleMemory'
  <1> USE DEF IInv, TypeOK, time, dashVars, cliVars, brokerVars, history,
              StaleMemory, MintsAreRecorded
  <1>1. CASE Quiet
    BY <1>1, QuietFrame
  <1>2. ASSUME NEW r \in Request, LoopCreate(r)
        PROVE  StaleMemory'
    BY <1>2, CreatedRow DEF LoopCreate
  <1>3. CASE DashStart
    BY <1>3 DEF DashStart
  <1>4. CASE DashStop
    BY <1>4, NoRowIsARow DEF DashStop
  <1>5. ASSUME NEW r \in Request, NEW q \in Size, NEW persisted \in BOOLEAN,
               DashApprove(r, q, persisted)
        PROVE  StaleMemory'
    BY <1>5, DecideEffect DEF DashApprove
  <1>6. ASSUME NEW persisted \in BOOLEAN, DashMint(persisted)
        PROVE  StaleMemory'
    BY <1>6, DashMintEffect DEF DashMint, Raise
  <1>7. ASSUME NEW r \in Request, NEW persisted \in BOOLEAN,
               DashReject(r, persisted)
        PROVE  StaleMemory'
    BY <1>7, DecideEffect DEF DashReject
  <1>8. CASE CliMint
    BY <1>8, CliMintEffect DEF CliMint, Raise, Size
  <1>9. CASE CliConsume
    BY <1>9, CliConsumeEffect DEF CliConsume, Raise
  <1>10. CASE CliPost
    BY <1>10 DEF CliPost, Raise
  <1>11. ASSUME NEW r \in Request, BrokerTakes(r)
        PROVE  StaleMemory'
    BY <1>11 DEF BrokerTakes
  <1>12. ASSUME NEW r \in Request, BrokerLoses(r)
        PROVE  StaleMemory'
    BY <1>12 DEF BrokerLoses
  <1>13. ASSUME NEW r \in Request, OperatorInvalidate(r)
        PROVE  StaleMemory'
    BY <1>13, WithdrawnRow DEF OperatorInvalidate, Invalidatable
  <1> QED
    BY <1>1, <1>2, <1>3, <1>4, <1>5, <1>6, <1>7, <1>8, <1>9, <1>10, <1>11,
       <1>12, <1>13 DEF Next, CliStep, DashWork, Quiet

\* Every step keeps mints, rows and orders consistent.
LEMMA MintStep ==
    ASSUME IInv, [Next]_vars
    PROVE  MintsAreRecorded'
  <1> USE DEF IInv, TypeOK, time, dashVars, cliVars, brokerVars, history,
              MintsAreRecorded, StaleMemory, SendsAreCovered, One, WriterSeesTheFile, LockDiscipline
  <1>1. CASE Quiet
    BY <1>1, QuietFrame
  <1>2. ASSUME NEW r \in Request, LoopCreate(r)
        PROVE  MintsAreRecorded'
    BY <1>2, CreatedRow DEF LoopCreate
  <1>3. CASE DashStart
    BY <1>3 DEF DashStart
  <1>4. CASE DashStop
    BY <1>4, NoRowIsARow DEF DashStop
  <1>5. ASSUME NEW r \in Request, NEW q \in Size, NEW persisted \in BOOLEAN,
               DashApprove(r, q, persisted)
        PROVE  MintsAreRecorded'
    <2>1. PICK row \in Row :
            /\ row.decision = "APPROVED" /\ row.token.state = "none"
            /\ file[r].decision = "none"
            /\ file' = [file EXCEPT ![r] = row] \/ file' = file
      BY <1>5, DecideEffect DEF DashApprove
    <2>2. mints[r] = 0 /\ file[r].token.state = "none"
      BY <2>1
    <2>3. UNCHANGED <<mints, spends, sends, orders, inflight, cliPc, cliReq>>
      BY <1>5 DEF DashApprove
    <2> QED
      BY <2>1, <2>2, <2>3
  <1>6. ASSUME NEW persisted \in BOOLEAN, DashMint(persisted)
        PROVE  MintsAreRecorded'
    <2>1. PICK row \in Row :
            /\ row.decision = "APPROVED" /\ row.token.state = "unspent"
            /\ \/ /\ file' = [file EXCEPT ![dashReq] = row]
                  /\ mints' = Raise(mints, dashReq)
               \/ file' = file /\ mints' = mints
      BY <1>6, DashMintEffect
    <2>2. UNCHANGED <<spends, sends, orders, inflight>>
      BY <1>6 DEF DashMint
    <2> QED
      BY <2>1, <2>2 DEF Raise
  <1>7. ASSUME NEW r \in Request, NEW persisted \in BOOLEAN,
               DashReject(r, persisted)
        PROVE  MintsAreRecorded'
    <2>1. PICK row \in Row :
            /\ row.decision = "REJECTED" /\ row.token.state = "none"
            /\ file[r].decision = "none"
            /\ file' = [file EXCEPT ![r] = row] \/ file' = file
      BY <1>7, DecideEffect DEF DashReject
    <2>2. mints[r] = 0 /\ file[r].token.state = "none"
      BY <2>1
    <2>3. UNCHANGED <<mints, spends, sends, orders, inflight, cliPc, cliReq>>
      BY <1>7 DEF DashReject
    <2> QED
      BY <2>1, <2>2, <2>3
  <1>8. CASE CliMint
    BY <1>8, CliMintEffect DEF CliMint, Raise, Size
  <1>9. CASE CliConsume
    BY <1>9, CliConsumeEffect DEF CliConsume, Raise
  <1>10. CASE CliPost
    BY <1>10 DEF CliPost, Raise
  <1>11. ASSUME NEW r \in Request, BrokerTakes(r)
        PROVE  MintsAreRecorded'
    BY <1>11 DEF BrokerTakes
  <1>12. ASSUME NEW r \in Request, BrokerLoses(r)
        PROVE  MintsAreRecorded'
    BY <1>12 DEF BrokerLoses
  <1>13. ASSUME NEW r \in Request, OperatorInvalidate(r)
        PROVE  MintsAreRecorded'
    BY <1>13, WithdrawnRow DEF OperatorInvalidate, Invalidatable
  <1> QED
    BY <1>1, <1>2, <1>3, <1>4, <1>5, <1>6, <1>7, <1>8, <1>9, <1>10, <1>11,
       <1>12, <1>13 DEF Next, CliStep, DashWork, Quiet

\* Every step keeps each post paid for by a spend, and each spend by a mint.
LEMMA CoverStep ==
    ASSUME IInv, [Next]_vars
    PROVE  SendsAreCovered'
  <1> USE DEF IInv, TypeOK, time, dashVars, cliVars, brokerVars, history,
              SendsAreCovered, One, MintsAreRecorded, StaleMemory, WriterSeesTheFile, LockDiscipline
  <1>1. CASE Quiet
    BY <1>1, QuietFrame DEF Quiet, Tick, LoopStart, LoopExit, DashGivesUp, CliReuse, CliFindsOrder,
          CliChecks, CliGates, CliAudit, CliStops, WriteMode, CliStart,
          DashReapprove, vars
  <1>2. ASSUME NEW r \in Request, LoopCreate(r)
        PROVE  SendsAreCovered'
    BY <1>2, CreatedRow DEF LoopCreate
  <1>3. CASE DashStart
    BY <1>3 DEF DashStart
  <1>4. CASE DashStop
    BY <1>4, NoRowIsARow DEF DashStop
  <1>5. ASSUME NEW r \in Request, NEW q \in Size, NEW persisted \in BOOLEAN,
               DashApprove(r, q, persisted)
        PROVE  SendsAreCovered'
    <2>1. PICK row \in Row :
            /\ row.decision = "APPROVED" /\ row.token.state = "none"
            /\ file[r].decision = "none"
            /\ file' = [file EXCEPT ![r] = row] \/ file' = file
      BY <1>5, DecideEffect DEF DashApprove
    <2>2. mints[r] = 0 /\ file[r].token.state = "none"
      BY <2>1
    <2>3. UNCHANGED <<mints, spends, sends, orders, inflight, cliPc, cliReq>>
      BY <1>5 DEF DashApprove
    <2> QED
      BY <2>1, <2>2, <2>3
  <1>6. ASSUME NEW persisted \in BOOLEAN, DashMint(persisted)
        PROVE  SendsAreCovered'
    BY <1>6, DashMintEffect DEF DashMint, Raise
  <1>7. ASSUME NEW r \in Request, NEW persisted \in BOOLEAN,
               DashReject(r, persisted)
        PROVE  SendsAreCovered'
    <2>1. PICK row \in Row :
            /\ row.decision = "REJECTED" /\ row.token.state = "none"
            /\ file[r].decision = "none"
            /\ file' = [file EXCEPT ![r] = row] \/ file' = file
      BY <1>7, DecideEffect DEF DashReject
    <2>2. mints[r] = 0 /\ file[r].token.state = "none"
      BY <2>1
    <2>3. UNCHANGED <<mints, spends, sends, orders, inflight, cliPc, cliReq>>
      BY <1>7 DEF DashReject
    <2> QED
      BY <2>1, <2>2, <2>3
  <1>8. CASE CliMint
    BY <1>8, CliMintEffect DEF CliMint, Raise, Size
  <1>9. CASE CliConsume
    BY <1>9, CliConsumeEffect DEF CliConsume, Raise
  <1>10. CASE CliPost
    BY <1>10 DEF CliPost, Raise
  <1>11. ASSUME NEW r \in Request, BrokerTakes(r)
        PROVE  SendsAreCovered'
    BY <1>11 DEF BrokerTakes
  <1>12. ASSUME NEW r \in Request, BrokerLoses(r)
        PROVE  SendsAreCovered'
    BY <1>12 DEF BrokerLoses
  <1>13. ASSUME NEW r \in Request, OperatorInvalidate(r)
        PROVE  SendsAreCovered'
    BY <1>13, WithdrawnRow DEF OperatorInvalidate, Invalidatable
  <1> QED
    BY <1>1, <1>2, <1>3, <1>4, <1>5, <1>6, <1>7, <1>8, <1>9, <1>10, <1>11,
       <1>12, <1>13 DEF Next, CliStep, DashWork, Quiet


(***************************************************************************)
(* The theorems.                                                           *)
(***************************************************************************)
\* The strengthened invariant is inductive.
LEMMA InductiveStep == IInv /\ [Next]_vars => IInv'
  BY TypeStep, LockStep, MemoryStep, MintStep, CoverStep DEF IInv

\* Every reachable state satisfies the strengthened invariant.
THEOREM Invariance == Spec => []IInv
  BY InitInv, InductiveStep, PTL DEF Spec

\* Every variable keeps its type.
THEOREM TypeCorrect == Spec => []TypeOK
  <1>1. IInv => TypeOK
    BY DEF IInv
  <1> QED
    BY <1>1, Invariance, PTL

\* --submit-approved works on the row the file holds, never on a stale copy.
THEOREM NoStaleWriter == Spec => []WriterSeesTheFile
  <1>1. IInv => WriterSeesTheFile
    BY DEF IInv
  <1> QED
    BY <1>1, Invariance, PTL

\* Every post is paid for by a durable spend, and every spend by a durable mint.
THEOREM PaidFor == Spec => []SendsAreCovered
  <1>1. IInv => SendsAreCovered
    BY DEF IInv
  <1> QED
    BY <1>1, Invariance, PTL

\* No order reaches the broker for a request that is not approved and spent.
THEOREM OnlyApprovedOrders == Spec => []OrdersAreApproved
  <1>1. ASSUME IInv, NEW r \in orders \cup inflight
        PROVE  /\ file[r].decision = "APPROVED"
               /\ sends[r] > 0
               /\ mints[r] = 1 => file[r].token.state = "spent"
    <2>1. r \in Request /\ sends[r] > 0
      BY <1>1 DEF IInv, TypeOK, MintsAreRecorded
    <2>2. sends[r] \in Nat /\ spends[r] \in Nat /\ mints[r] \in Nat
      BY <1>1, <2>1 DEF IInv, TypeOK
    <2>3. /\ sends[r] <= spends[r]
          /\ spends[r] + One(file[r].token.state = "unspent") <= mints[r]
      BY <1>1, <2>1, <2>2 DEF IInv, SendsAreCovered, One
    <2>4. mints[r] > 0
      BY <2>1, <2>2, <2>3 DEF One
    <2>5. file[r].decision = "APPROVED" /\ file[r].token.state # "none"
      BY <1>1, <2>1, <2>4 DEF IInv, MintsAreRecorded
    <2>6. file[r].token.state \in {"none", "unspent", "spent"}
      BY <1>1, <2>1 DEF IInv, TypeOK, Row, Token
    <2>7. mints[r] = 1 => file[r].token.state # "unspent"
      BY <2>1, <2>2, <2>3 DEF One
    <2> QED
      BY <2>1, <2>5, <2>6, <2>7
  <1>2. IInv => OrdersAreApproved
    BY <1>1 DEF OrdersAreApproved
  <1> QED
    BY <1>2, Invariance, PTL

\* No step replaces a decision on disk by the other one.
THEOREM DecisionsAreFinal == Spec => DecisionFinal
  <1> DEFINE Kept ==
        \A r \in Request :
            file[r].decision \in {"APPROVED", "REJECTED"}
                => file'[r].decision = file[r].decision
  <1>1. ASSUME IInv, [Next]_vars PROVE Kept
    <2> USE DEF IInv, TypeOK, time, dashVars, cliVars, brokerVars, history
    <2>1. CASE Quiet
      BY <2>1, QuietFrame
    <2>2. ASSUME NEW r \in Request, LoopCreate(r) PROVE Kept
      BY <2>2 DEF LoopCreate
    <2>3. CASE DashStart \/ DashStop \/ CliPost
      BY <2>3 DEF DashStart, DashStop, CliPost
    <2>4. ASSUME NEW r \in Request, NEW q \in Size, NEW persisted \in BOOLEAN,
                 DashApprove(r, q, persisted)
          PROVE  Kept
      BY <1>1, <2>4, DecideEffect DEF DashApprove
    <2>5. ASSUME NEW r \in Request, NEW persisted \in BOOLEAN,
                 DashReject(r, persisted)
          PROVE  Kept
      BY <1>1, <2>5, DecideEffect DEF DashReject
    <2>6. ASSUME NEW persisted \in BOOLEAN, DashMint(persisted) PROVE Kept
      BY <1>1, <2>6, DashMintEffect
    <2>7. CASE CliMint
      BY <1>1, <2>7, CliMintEffect
    <2>8. CASE CliConsume
      BY <1>1, <2>8, CliConsumeEffect
    <2>9. ASSUME NEW r \in Request, BrokerTakes(r) \/ BrokerLoses(r)
          PROVE  Kept
      BY <2>9 DEF BrokerTakes, BrokerLoses
    <2>10. ASSUME NEW r \in Request, OperatorInvalidate(r) PROVE Kept
      <3>1. file[r] \in Row /\ file[r].decision = "none"
        BY <1>1, <2>10 DEF OperatorInvalidate, Invalidatable
      <3> QED
        BY <1>1, <2>10, <3>1 DEF OperatorInvalidate
    <2> QED
      BY <1>1, <2>1, <2>2, <2>3, <2>4, <2>5, <2>6, <2>7, <2>8, <2>9, <2>10
         DEF Next, CliStep, DashWork, Quiet
  <1> QED
    BY <1>1, Invariance, PTL DEF Spec, DecisionFinal

\* The three processes implement ApprovalPromise.
THEOREM Refinement == Spec => ImplementsPromise
  <1> DEFINE dec == [r \in Request |-> file[r].decision]
  <1>1. Init => Promise!Init
    BY NoRowIsARow DEF Init, Promise!Init
  <1>2. ASSUME IInv, [Next]_vars PROVE [Promise!Next]_(Promise!promise)
    <2> USE DEF IInv, TypeOK, time, dashVars, cliVars, brokerVars, history,
                Promise!Raise, Raise
    <2> DEFINE Stutter == UNCHANGED <<dec, mints, spends, sends, orders>>
               Step == Promise!Next \/ Stutter
    <2>1. ASSUME Quiet PROVE Step
      BY <2>1, QuietFrame
    <2>2. ASSUME DashStart \/ DashStop PROVE Step
      BY <2>2 DEF DashStart, DashStop
    <2>3. ASSUME NEW r \in Request, LoopCreate(r) PROVE Step
      <3>1. Created(clock).decision = "none" /\ file[r].decision = "absent"
        BY <1>2, <2>3, CreatedRow, TimesAssumption DEF LoopCreate
      <3>2. dec' = [dec EXCEPT ![r] = "none"]
        BY <1>2, <2>3, <3>1 DEF LoopCreate
      <3>3. Promise!Ask(r)
        BY <2>3, <3>1, <3>2 DEF Promise!Ask, LoopCreate
      <3> QED
        BY <3>3 DEF Promise!Next
    <2>4. ASSUME NEW r \in Request, NEW verdict \in {"APPROVED", "REJECTED"},
                 NEW persisted \in BOOLEAN, Decide(r, verdict, persisted),
                 UNCHANGED <<mints, spends, sends, orders>>
          PROVE  Step
      <3>1. PICK row \in Row :
              /\ row.decision = verdict /\ file[r].decision = "none"
              /\ file' = [file EXCEPT ![r] = row] \/ file' = file
        BY <1>2, <2>4, DecideEffect
      <3>2. CASE file' = file
        BY <2>4, <3>2
      <3>3. CASE file' = [file EXCEPT ![r] = row]
        <4>1. dec' = [dec EXCEPT ![r] = verdict]
          BY <1>2, <3>1, <3>3
        <4>2. Promise!Decide(r, verdict)
          BY <2>4, <3>1, <4>1 DEF Promise!Decide
        <4> QED
          BY <4>2 DEF Promise!Next
      <3> QED
        BY <3>1, <3>2, <3>3
    <2>5. ASSUME NEW r \in Request, NEW q \in Size, NEW persisted \in BOOLEAN,
                 DashApprove(r, q, persisted)
          PROVE  Step
      BY <2>4, <2>5 DEF DashApprove
    <2>6. ASSUME NEW r \in Request, NEW persisted \in BOOLEAN,
                 DashReject(r, persisted)
          PROVE  Step
      BY <2>4, <2>6 DEF DashReject
    <2>7. ASSUME NEW persisted \in BOOLEAN, DashMint(persisted) PROVE Step
      <3>1. PICK row \in Row :
              /\ row.decision = "APPROVED"
              /\ file[dashReq].decision \in {"none", "APPROVED"}
              /\ \/ /\ file' = [file EXCEPT ![dashReq] = row]
                    /\ mints' = Raise(mints, dashReq)
                 \/ file' = file /\ mints' = mints
        BY <1>2, <2>7, DashMintEffect
      <3>2. UNCHANGED <<spends, sends, orders>> /\ dashReq \in Request
        BY <1>2, <2>7 DEF DashMint
      <3>3. CASE file' = file /\ mints' = mints
        BY <3>2, <3>3
      <3>4. CASE file' = [file EXCEPT ![dashReq] = row]
                 /\ mints' = Raise(mints, dashReq)
        <4>1. dec' = [dec EXCEPT ![dashReq] = "APPROVED"]
          BY <1>2, <3>1, <3>2, <3>4
        <4>2. PICK r \in Request : r = dashReq
          BY <3>2
        <4>3. Promise!Grant(r)
          BY <3>1, <3>2, <3>4, <4>1, <4>2 DEF Promise!Grant
        <4> QED
          BY <4>3 DEF Promise!Next
      <3> QED
        BY <3>1, <3>3, <3>4
    <2>8. ASSUME CliMint PROVE Step
      <3>1. dec' = [dec EXCEPT ![cliReq] = "APPROVED"]
        BY <1>2, <2>8, CliMintEffect
      <3>2. PICK r \in Request : r = cliReq
        BY <1>2
      <3>3. Promise!Grant(r)
        BY <1>2, <2>8, <3>1, <3>2, CliMintEffect DEF Promise!Grant, CliMint
      <3> QED
        BY <3>3 DEF Promise!Next
    <2>9. ASSUME CliConsume PROVE Step
      <3>1. dec' = dec
        BY <1>2, <2>9, CliConsumeEffect
      <3>2. file[cliReq].decision = "APPROVED" /\ spends[cliReq] < mints[cliReq]
        BY <1>2, <2>9, CliConsumeEffect
           DEF MintsAreRecorded, SendsAreCovered, One
      <3>3. Promise!Spend(cliReq)
        BY <1>2, <2>9, <3>1, <3>2 DEF Promise!Spend, CliConsume
      <3> QED
        BY <1>2, <3>3 DEF Promise!Next
    <2>10. ASSUME CliPost PROVE Step
      <3>1. sends[cliReq] < spends[cliReq]
        BY <1>2, <2>10 DEF CliPost, SendsAreCovered, One
      <3>2. file[cliReq].decision = "APPROVED"
        BY <1>2, <2>10, <3>1 DEF CliPost, MintsAreRecorded, SendsAreCovered, One
      <3>3. Promise!Send(cliReq)
        BY <1>2, <2>10, <3>1, <3>2 DEF Promise!Send, CliPost
      <3> QED
        BY <1>2, <3>3 DEF Promise!Next
    <2>11. ASSUME NEW r \in Request, BrokerTakes(r) PROVE Step
      <3>1. Promise!Place(r)
        BY <1>2, <2>11 DEF Promise!Place, BrokerTakes, MintsAreRecorded
      <3> QED
        BY <3>1 DEF Promise!Next
    <2>12. ASSUME NEW r \in Request, BrokerLoses(r) PROVE Step
      BY <2>12 DEF BrokerLoses
    <2>13. ASSUME NEW r \in Request, OperatorInvalidate(r) PROVE Step
      <3>1. file[r] \in Row
        BY <1>2
      <3>2. dec' = dec
        BY <1>2, <2>13, <3>1, WithdrawnRow DEF OperatorInvalidate
      <3> QED
        BY <2>13, <3>2 DEF OperatorInvalidate
    <2>14. ASSUME CliStep PROVE Step
      BY <2>1, <2>8, <2>9, <2>10, <2>14 DEF CliStep, Quiet
    <2>15. ASSUME DashWork PROVE Step
      BY <2>1, <2>7, <2>15 DEF DashWork, Quiet
    <2>16. Step
      BY <1>2, <2>1, <2>2, <2>3, <2>5, <2>6, <2>11, <2>12, <2>13, <2>14, <2>15
         DEF Next, Quiet
    <2> QED
      BY <2>16 DEF Promise!promise
  <1> QED
    BY <1>1, <1>2, Invariance, PTL DEF Spec, ImplementsPromise, Promise!Spec

\* No order is posted in a mode that does not permit submission.
THEOREM PostsArePermitted == Spec => PostsOnlyWhenPermitted
  <1>1. ASSUME IInv, [Next]_vars
        PROVE  sends' # sends => mode \in SubmissionPermitted
    <2> USE DEF time, dashVars, cliVars, brokerVars, history
    <2>1. CASE Quiet
      BY <2>1, QuietFrame
    <2>2. CASE CliPost
      BY <1>1, <2>2 DEF CliPost, IInv, LockDiscipline
    <2>3. CASE DashStart \/ DashStop \/ CliMint \/ CliConsume
      BY <2>3 DEF DashStart, DashStop, CliMint, CliConsume
    <2>4. ASSUME NEW r \in Request, NEW persisted \in BOOLEAN,
                 \/ LoopCreate(r) \/ BrokerTakes(r) \/ BrokerLoses(r)
                 \/ OperatorInvalidate(r) \/ DashReject(r, persisted)
                 \/ DashMint(persisted)
                 \/ \E q \in Size : DashApprove(r, q, persisted)
          PROVE  sends' = sends
      BY <2>4 DEF LoopCreate, BrokerTakes, BrokerLoses, OperatorInvalidate,
                  DashReject, DashMint, DashApprove
    <2> QED
      BY <1>1, <2>1, <2>2, <2>3, <2>4
         DEF Next, CliStep, DashWork, Quiet, IInv, TypeOK
  <1> QED
    BY <1>1, Invariance, PTL DEF Spec, PostsOnlyWhenPermitted

(***************************************************************************)
(* How old a decision may be when its token is spent.                      *)
(***************************************************************************)
\* A row just created, and one that is about to be, are timely.
LEMMA FreshRowIsTimely ==
    /\ TimelyRow(NoRow)
    /\ \A now \in Nat : TimelyRow(Created(now))
  BY DEF TimelyRow, NoRow, NoToken, Created

\* A decision leaves an undecided row without a token timely: a rejection
\* always, an approval once the request has been shown long enough.
LEMMA DecidedIsTimely ==
    ASSUME NEW row \in Row, row.token.state = "none",
           NEW verdict \in {"APPROVED", "REJECTED"}, NEW now \in Nat,
           verdict = "APPROVED" => row.shownAt + MinDisplay <= now
    PROVE  TimelyRow(Decided(row, verdict, now))
  BY DEF TimelyRow, Decided, Row

\* A mint within the drift tolerance leaves a timely row timely.
LEMMA MintedIsTimely ==
    ASSUME NEW row \in Row, TimelyRow(row), NEW q \in Size, NEW now \in Nat,
           Mintable(row, now)
    PROVE  TimelyRow(WithToken(row, q, now))
  BY TimesAssumption DEF TimelyRow, WithToken, Mintable, Row, Token

\* A spend and a withdrawal leave the times of a row alone.
LEMMA SpentIsTimely ==
    ASSUME NEW row \in Row, TimelyRow(row)
    PROVE  row.token.state # "none" => TimelyRow(WithTokenSpent(row))
  BY DEF TimelyRow, WithTokenSpent, Row, Token

LEMMA WithdrawnIsTimely ==
    ASSUME NEW row \in Row, TimelyRow(row)
    PROVE  TimelyRow(Withdrawn(row))
  BY DEF TimelyRow, Withdrawn, Row

\* Every step leaves every row timely.
LEMMA TimelyStep == IInv /\ Timely /\ [Next]_vars => Timely'
  <1> SUFFICES ASSUME IInv, Timely, [Next]_vars PROVE Timely'
    OBVIOUS
  <1> USE DEF IInv, TypeOK, time, dashVars, cliVars, brokerVars, history, Timely
  <1>1. ASSUME UNCHANGED <<file, dashMem>> PROVE Timely'
    BY <1>1
  <1>2. ASSUME NEW r \in Request, NEW row, TimelyRow(row),
               file' = [file EXCEPT ![r] = row] \/ file' = file,
               dashMem' = [dashMem EXCEPT ![r] = row] \/ dashMem' = dashMem
        PROVE  Timely'
    BY <1>2
  <1>3. ASSUME NEW r \in Request, LoopCreate(r) PROVE Timely'
    BY <1>2, <1>3, FreshRowIsTimely, TimesAssumption DEF LoopCreate
  <1>4. CASE DashStart
    BY <1>4 DEF DashStart
  <1>5. CASE DashStop
    BY <1>5, FreshRowIsTimely DEF DashStop
  <1>6. ASSUME NEW r \in Request, NEW verdict \in {"APPROVED", "REJECTED"},
               NEW persisted \in BOOLEAN, Decide(r, verdict, persisted),
               verdict = "APPROVED" => dashMem[r].shownAt + MinDisplay <= clock
        PROVE  Timely'
    <2> DEFINE row == Decided(dashMem[r], verdict, clock)
    <2>1. /\ dashMem[r] \in Row /\ clock \in Nat
          /\ dashMem[r].decision = "none" /\ dashMem[r].token.state = "none"
      BY <1>6, TimesAssumption DEF StaleMemory, Decide, Row, Token
    <2>2. TimelyRow(row)
      BY <1>6, <2>1, DecidedIsTimely
    <2>3. /\ dashMem' = [dashMem EXCEPT ![r] = row]
          /\ file' = [file EXCEPT ![r] = row] \/ file' = file
      BY <1>6 DEF Decide
    <2> HIDE DEF row
    <2> QED
      BY <1>2, <2>2, <2>3
  <1>7. ASSUME NEW r \in Request, NEW q \in Size, NEW persisted \in BOOLEAN,
               DashApprove(r, q, persisted)
        PROVE  Timely'
    BY <1>6, <1>7 DEF DashApprove
  <1>8. ASSUME NEW r \in Request, NEW persisted \in BOOLEAN,
               DashReject(r, persisted)
        PROVE  Timely'
    BY <1>6, <1>8 DEF DashReject
  <1>9. ASSUME NEW persisted \in BOOLEAN, DashMint(persisted) PROVE Timely'
    <2> DEFINE row == WithToken(dashMem[dashReq], dashQty, dashNow)
    <2>1. TimelyRow(row)
      BY <1>9, MintedIsTimely DEF DashMint
    <2>2. /\ dashMem' = [dashMem EXCEPT ![dashReq] = row]
          /\ file' = [file EXCEPT ![dashReq] = row] \/ file' = file
      BY <1>9 DEF DashMint
    <2> HIDE DEF row
    <2> QED
      BY <1>2, <2>1, <2>2
  <1>10. ASSUME lock = "cli" PROVE cliRow = file[cliReq] /\ TimelyRow(cliRow)
    BY <1>10 DEF WriterSeesTheFile
  <1>11. CASE CliMint
    <2> DEFINE row == WithToken(cliRow, "full", clock)
    <2>1. TimelyRow(row)
      BY <1>10, <1>11, MintedIsTimely, TimesAssumption
         DEF CliMint, LockDiscipline, Size
    <2> HIDE DEF row
    <2> QED
      BY <1>2, <1>11, <2>1 DEF CliMint, row
  <1>12. CASE CliConsume
    <2>1. TimelyRow(WithTokenSpent(cliRow))
      BY <1>10, <1>12, SpentIsTimely DEF CliConsume, LockDiscipline
    <2> QED
      BY <1>2, <1>12, <2>1 DEF CliConsume
  <1>13. ASSUME NEW r \in Request, OperatorInvalidate(r) PROVE Timely'
    <2>1. TimelyRow(Withdrawn(file[r]))
      BY WithdrawnIsTimely
    <2> QED
      BY <1>2, <1>13, <2>1 DEF OperatorInvalidate
  <1>14. ASSUME NEW r \in Request, BrokerTakes(r) \/ BrokerLoses(r) PROVE Timely'
    BY <1>1, <1>14 DEF BrokerTakes, BrokerLoses
  <1>15. CASE CliPost
    BY <1>1, <1>15 DEF CliPost
  <1>16. CASE Quiet
    BY <1>1, <1>16, QuietFrame
  <1> QED
    BY <1>3, <1>4, <1>5, <1>7, <1>8, <1>9, <1>11, <1>12, <1>13, <1>14, <1>15,
       <1>16 DEF Next, CliStep, DashWork, Quiet

\* A step that spends a token spends it close to the decision it carries.
THEOREM SpendsAreFresh == Spec => SpentWhileFresh
  <1> DEFINE Fresh == \A r \in Request : spends'[r] > spends[r] =>
                 /\ clock < file[r].decidedAt + DriftTolerance + Expiration
                 /\ file[r].shownAt + MinDisplay <= file[r].decidedAt
  <1>1. Init => Timely
    BY FreshRowIsTimely DEF Init, Timely
  <1>2. ASSUME IInv, Timely, [Next]_vars PROVE Fresh
    <2> USE DEF time, dashVars, cliVars, brokerVars, history
    <2>1. ASSUME spends' = spends PROVE Fresh
      BY <1>2, <2>1 DEF IInv, TypeOK
    <2>2. CASE CliConsume
      <3>1. /\ cliRow = file[cliReq] /\ cliRow \in Row /\ TimelyRow(cliRow)
            /\ cliRow.token.state = "unspent" /\ clock < cliRow.token.until
            /\ cliRow.decision = "APPROVED"
            /\ clock \in Nat
        BY <1>2, <2>2, TimesAssumption
           DEF CliConsume, IInv, TypeOK, LockDiscipline, WriterSeesTheFile, Timely
      <3>2. /\ clock < file[cliReq].decidedAt + DriftTolerance + Expiration
            /\ file[cliReq].shownAt + MinDisplay <= file[cliReq].decidedAt
        BY <3>1, TimesAssumption DEF TimelyRow, Row, Token
      <3>3. \A r \in Request \ {cliReq} : spends'[r] = spends[r] /\ spends[r] \in Nat
        BY <1>2, <2>2 DEF CliConsume, Raise, IInv, TypeOK
      <3> QED
        BY <3>2, <3>3
    <2>3. CASE Quiet
      BY <2>1, <2>3, QuietFrame
    <2>4. CASE DashStart \/ DashStop \/ CliMint \/ CliPost
      BY <2>1, <2>4 DEF DashStart, DashStop, CliMint, CliPost
    <2>5. ASSUME NEW r \in Request, NEW persisted \in BOOLEAN,
                 \/ LoopCreate(r) \/ BrokerTakes(r) \/ BrokerLoses(r)
                 \/ OperatorInvalidate(r) \/ DashReject(r, persisted)
                 \/ DashMint(persisted)
                 \/ \E q \in Size : DashApprove(r, q, persisted)
          PROVE  Fresh
      BY <2>1, <2>5 DEF LoopCreate, BrokerTakes, BrokerLoses, OperatorInvalidate,
                        DashReject, DashMint, DashApprove
    <2> QED
      BY <1>2, <2>2, <2>3, <2>4, <2>5
         DEF Next, CliStep, DashWork, Quiet, IInv, TypeOK
  <1>3. Spec => []Timely
    BY <1>1, TimelyStep, Invariance, PTL DEF Spec
  <1> QED
    BY <1>2, <1>3, Invariance, PTL DEF Spec, SpentWhileFresh

=============================================================================
