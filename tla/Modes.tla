------------------------------- MODULE Modes -------------------------------
(***************************************************************************)
(* The operational modes and the steps between them: agent/mode.py, which  *)
(* keeps no state.  The persisted mode is "none" on a fresh install.       *)
(***************************************************************************)
EXTENDS Integers

\* The escalation ladder, by rung; PAUSED is an overlay, not a rung.
Rung == [DISABLED |-> 0, RESEARCH |-> 1, PAPER |-> 2, PRODUCTION_ACTIVE |-> 3]
Ladder == DOMAIN Rung
Modes == Ladder \cup {"PAUSED"}
Persisted == Modes \cup {"none"}

ImmediateTargets == {"DISABLED", "PAUSED"}
ConfirmationRequired == {<<"PAPER", "PRODUCTION_ACTIVE">>,
                         <<"PAUSED", "PRODUCTION_ACTIVE">>}

Normalized(persisted) == IF persisted = "none" THEN "DISABLED" ELSE persisted

Adjacent(a, b) == Rung[a] - Rung[b] \in {-1, 1}

\* Fault: PAUSED is a fifth rung, next to PRODUCTION_ACTIVE (the topology before
\* the fix of docs/architecture.md 9.2).
IsLegalStepFifthRung(persisted, target, from) ==
    \/ target = persisted
    \/ target \in ImmediateTargets
    \/ persisted = "PAUSED" /\ target = "PRODUCTION_ACTIVE"
    \/ {persisted, target} \subseteq Ladder /\ Adjacent(persisted, target)

\* Fault: a pause may be left for any mode.
IsLegalStepAnyExit(persisted, target, from) ==
    \/ target = persisted
    \/ target \in ImmediateTargets
    \/ persisted = "PAUSED"
    \/ {persisted, target} \subseteq Ladder /\ Adjacent(persisted, target)

\* `from` is what paused_from() recorded, "none" when it recorded nothing.
IsLegalStep(persisted, target, from) ==
    \/ target = persisted
    \/ target \in ImmediateTargets
    \/ persisted = "PAUSED" /\ target = from
    \/ {persisted, target} \subseteq Ladder /\ Adjacent(persisted, target)

AcceptedAtLoad(persisted, target, confirmed, from) ==
    /\ IsLegalStep(Normalized(persisted), target, from)
    /\ <<Normalized(persisted), target>> \in ConfirmationRequired => confirmed
=============================================================================
