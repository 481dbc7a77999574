----------------------------- MODULE ScanBudget -----------------------------
(***************************************************************************)
(* What the budget of guarded SQL promises, without the threads, locks and *)
(* counters that keep it (SqlExecutions implements this): a query scans    *)
(* only while fewer than ScanSlots others do, a principal has at most      *)
(* PerPrincipal admitted, and nobody is turned away while there is room.   *)
(***************************************************************************)
EXTENDS Integers, FiniteSets

CONSTANTS Queries, Principals, PerPrincipal, ScanSlots

VARIABLES
    admitted,    \* of each principal: the queries that were let in and have not left
    scanning,    \* those of them that have a slot
    refused      \* queries that were never let in

budgetVars == <<admitted, scanning, refused>>

BudgetInit == admitted = [p \in Principals |-> {}] /\ scanning = {} /\ refused = {}

Outside(q) == q \notin refused /\ \A p \in Principals : q \notin admitted[p]

Admit(p, q) ==
    /\ Outside(q) /\ Cardinality(admitted[p]) < PerPrincipal
    /\ admitted' = [admitted EXCEPT ![p] = @ \cup {q}]
    /\ UNCHANGED <<scanning, refused>>

Refuse(p, q) ==
    /\ Outside(q) /\ Cardinality(admitted[p]) >= PerPrincipal
    /\ refused' = refused \cup {q}
    /\ UNCHANGED <<admitted, scanning>>

Scan(p, q) ==
    /\ q \in admitted[p] \ scanning /\ Cardinality(scanning) < ScanSlots
    /\ scanning' = scanning \cup {q}
    /\ UNCHANGED <<admitted, refused>>

\* Without a slot a query leaves only while there is none to be had.
Leave(p, q) ==
    /\ q \in admitted[p]
    /\ q \in scanning \/ Cardinality(scanning) >= ScanSlots
    /\ admitted' = [admitted EXCEPT ![p] = @ \ {q}]
    /\ scanning' = scanning \ {q}
    /\ UNCHANGED refused

BudgetNext ==
    \E p \in Principals, q \in Queries : Admit(p, q) \/ Refuse(p, q) \/ Scan(p, q) \/ Leave(p, q)

BudgetSpec == BudgetInit /\ [][BudgetNext]_budgetVars
=============================================================================
