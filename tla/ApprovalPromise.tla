-------------------------- MODULE ApprovalPromise --------------------------
(***************************************************************************)
(* What the approval path promises, without processes, files or clocks:    *)
(* a request is decided once, a permit is granted only for a request that  *)
(* is (or in the same step becomes) approved, a permit is spent at most    *)
(* once, and an order leaves for the broker only against a spent permit.   *)
(***************************************************************************)
EXTENDS Naturals

CONSTANT Request

VARIABLES
    decision,   \* Request -> absent | none | APPROVED | REJECTED
    granted,    \* Request -> how many permits (tokens) were granted
    spent,      \* Request -> how many of them were spent
    sent,       \* Request -> how many times the order was sent
    placed      \* the requests whose order the broker holds

promise == <<decision, granted, spent, sent, placed>>

Init ==
    /\ decision = [r \in Request |-> "absent"]
    /\ granted = [r \in Request |-> 0]
    /\ spent = [r \in Request |-> 0]
    /\ sent = [r \in Request |-> 0]
    /\ placed = {}

Raise(f, r) == [f EXCEPT ![r] = @ + 1]

Ask(r) ==
    /\ decision[r] = "absent"
    /\ decision' = [decision EXCEPT ![r] = "none"]
    /\ UNCHANGED <<granted, spent, sent, placed>>

Decide(r, verdict) ==
    /\ decision[r] = "none"
    /\ decision' = [decision EXCEPT ![r] = verdict]
    /\ UNCHANGED <<granted, spent, sent, placed>>

\* A row written with a permit carries its approval with it.
Grant(r) ==
    /\ decision[r] \in {"none", "APPROVED"}
    /\ decision' = [decision EXCEPT ![r] = "APPROVED"]
    /\ granted' = Raise(granted, r)
    /\ UNCHANGED <<spent, sent, placed>>

Spend(r) ==
    /\ decision[r] = "APPROVED"
    /\ spent[r] < granted[r]
    /\ spent' = Raise(spent, r)
    /\ UNCHANGED <<decision, granted, sent, placed>>

Send(r) ==
    /\ decision[r] = "APPROVED"
    /\ sent[r] < spent[r]
    /\ sent' = Raise(sent, r)
    /\ UNCHANGED <<decision, granted, spent, placed>>

Place(r) ==
    /\ sent[r] > 0
    /\ placed' = placed \cup {r}
    /\ UNCHANGED <<decision, granted, spent, sent>>

Next ==
    \E r \in Request :
        \/ Ask(r) \/ Grant(r) \/ Spend(r) \/ Send(r) \/ Place(r)
        \/ \E verdict \in {"APPROVED", "REJECTED"} : Decide(r, verdict)

Spec == Init /\ [][Next]_promise
=============================================================================
