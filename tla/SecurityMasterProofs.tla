------------------------ MODULE SecurityMasterProofs ------------------------
(***************************************************************************)
(* The security master, for any executions, principals, days, workers,     *)
(* requests and securities.                                                *)
(*                                                                         *)
(* SQL executions: the threads of sql/executions.py keep the budget of     *)
(* ScanBudget.  The two counters are compared with constants and never     *)
(* with the threads they stand for, so the invariant is that they tell the *)
(* threads.                                                                *)
(*                                                                         *)
(* Bitemporal store: what was known stays known, no day is lost while      *)
(* assertions supersede each other, and a receipt gives the answer it came *)
(* with.                                                                   *)
(*                                                                         *)
(* Identity: of any identifiers, an answer that is no refusal names one    *)
(* security.                                                               *)
(***************************************************************************)
EXTENDS SqlExecutions, TemporalStore, Identity, IntegerSets

Inside  == {"opening", "listed", "armed", "executing", "returned", "closing"}
Pcs     == {"new", "waiting", "done"} \cup Inside
Answers == {"nothing", "budget", "rejected", "cancelled", "memory", "page"}
Threads == [pc : Pcs, by : Principals \cup {"nobody"}, flag : BOOLEAN, hit : BOOLEAN, says : Answers]

\* Types, and whose an execution is: nobody's until it was let in.
SqlTypeOK ==
    /\ query \in [Queries -> Threads]
    /\ counted \in [Principals -> Int] /\ slots \in Int
    /\ \A q \in Queries : /\ At(q, "new") => query[q].by = "nobody"
                          /\ query[q].pc \in Inside \cup {"waiting"} => query[q].by \in Principals

SqlInv == SqlTypeOK /\ CountersTellTheThreads

Scanning == {q \in Queries : Running(q)}
Refused  == {q \in Queries : At(q, "done") /\ query[q].by = "nobody"}

----------------------------------------------------------------------------
\* The budget counts with the same Cardinality.
LEMMA SameCardinality == \A S : Budget!Cardinality(S) = Cardinality(S)
  BY DEF Budget!Cardinality, Cardinality

\* The sets that are counted are finite.
LEMMA Finite ==
    /\ IsFiniteSet(Scanning)
    /\ \A p : IsFiniteSet(Admitted(p))
<1>1. IsFiniteSet(Queries)  BY SqlBounds
<1>2. Scanning \in SUBSET Queries /\ \A p : Admitted(p) \in SUBSET Queries  BY DEF Scanning, Admitted
<1> QED  BY <1>1, <1>2, FS_Subset

\* A thread inside stays inside, or what happens is not in its own pc.
Quietly ==
    /\ query' \in [Queries -> Threads] /\ UNCHANGED <<counted, slots>>
    /\ \A q \in Queries : /\ query'[q].by = query[q].by
                          /\ \/ query'[q].pc = query[q].pc
                             \/ query[q].pc \in Inside /\ query'[q].pc \in Inside

\* Such a step changes nothing that is counted, and keeps the invariant.
LEMMA QuietStep ==
    ASSUME SqlInv, Quietly
    PROVE  /\ SqlInv'
           /\ Scanning' = Scanning /\ Refused' = Refused
           /\ \A p : Admitted(p)' = Admitted(p)
<1>1. \A q \in Queries : /\ Running(q)' <=> Running(q)
                         /\ At(q, "waiting")' <=> At(q, "waiting")
                         /\ At(q, "done")' <=> At(q, "done")
  BY DEF Quietly, Running, At, Inside
<1>2. Scanning' = Scanning /\ Refused' = Refused /\ \A p : Admitted(p)' = Admitted(p)
  BY <1>1 DEF Quietly, Scanning, Refused, Admitted
<1>3. SqlTypeOK'
  BY DEF SqlInv, SqlTypeOK, Quietly, At, Inside
<1>4. CountersTellTheThreads'
  BY <1>2 DEF SqlInv, CountersTellTheThreads, Quietly, Scanning
<1> QED  BY <1>2, <1>3, <1>4 DEF SqlInv

\* What a session does between its permit and its end, what a client reads, and what a
\* cancel does at whatever moment are such steps.
LEMMA QuietActions ==
    ASSUME SqlTypeOK, NEW q \in Queries,
           \/ OpenSession(q) \/ Arm(q) \/ Execute(q) \/ Timer(q) \/ Executed(q) \/ Returned(q)
           \/ NextPage(q) \/ CancelFlag(q) \/ CancelInterrupt(q) \/ CancelPop(q)
    PROVE  Quietly
<1>1. query \in [Queries -> Threads] /\ query[q] \in Threads  BY DEF SqlTypeOK
<1>2. ASSUME NEW pc \in Inside, NEW says \in Answers, Moves(q, pc, says), query[q].pc \in Inside,
             UNCHANGED <<counted, slots>>
      PROVE  Quietly
  BY <1>1, <1>2 DEF Moves, Quietly, Threads, Pcs
<1>3. ASSUME UNCHANGED <<query, counted, slots>>  PROVE Quietly
  BY <1>1, <1>3 DEF Quietly
<1>4. CASE OpenSession(q)  BY <1>2, <1>4 DEF OpenSession, At, Inside, Answers
<1>5. CASE Arm(q)          BY <1>2, <1>5 DEF Arm, At, Inside, Answers
<1>6. CASE Execute(q)      BY <1>2, <1>6 DEF Execute, At, Inside, Answers
<1>7. CASE Executed(q)     BY <1>2, <1>7 DEF Executed, At, Inside, Answers
<1>8. CASE Returned(q)     BY <1>2, <1>8 DEF Returned, At, Inside, Answers
<1>9. CASE NextPage(q)     BY <1>3, <1>9 DEF NextPage
<1>10. CASE CancelPop(q)   BY <1>3, <1>10 DEF CancelPop
<1>11. CASE Timer(q)
  BY <1>1, <1>11 DEF Timer, Quietly, Threads
<1>12. CASE CancelInterrupt(q)
  <2>1. query[q].hit \/ At(q, "executing") \in BOOLEAN  BY <1>1 DEF Threads, At
  <2>2. query' = [query EXCEPT ![q].hit = @ \/ At(q, "executing")] /\ UNCHANGED <<counted, slots>>
    BY <1>12 DEF CancelInterrupt
  <2> QED  BY <1>1, <2>1, <2>2 DEF Quietly, Threads, At
<1>13. CASE CancelFlag(q)
  <2>1. CASE Connected(q)
    <3>1. query' = [query EXCEPT ![q].flag = TRUE] /\ UNCHANGED <<counted, slots>>
      BY <1>13, <2>1 DEF CancelFlag
    <3> QED  BY <1>1, <3>1 DEF Quietly, Threads
  <2>2. CASE ~Connected(q)  BY <1>3, <1>13, <2>2 DEF CancelFlag
  <2> QED  BY <2>1, <2>2
<1> QED  BY <1>4, <1>5, <1>6, <1>7, <1>8, <1>9, <1>10, <1>11, <1>12, <1>13

----------------------------------------------------------------------------
\* The four steps that count.

\* An execution is let in, or refused because its principal has enough.
LEMMA StartCounts ==
    ASSUME SqlInv, NEW q \in Queries, NEW p \in Principals, StartQuery(q, p)
    PROVE  /\ SqlInv' /\ Scanning' = Scanning
           /\ \/ /\ Cardinality(Admitted(p)) >= PerPrincipal
                 /\ Refused' = Refused \cup {q} /\ \A r : Admitted(r)' = Admitted(r)
              \/ /\ Cardinality(Admitted(p)) < PerPrincipal
                 /\ Refused' = Refused /\ Admitted(p)' = Admitted(p) \cup {q}
                 /\ \A r \in Principals \ {p} : Admitted(r)' = Admitted(r)
<1> USE DEF SqlInv
<1>1. /\ query \in [Queries -> Threads] /\ query[q].pc = "new" /\ query[q].by = "nobody"
      /\ counted \in [Principals -> Int] /\ slots' = slots /\ p # "nobody"
  BY SqlBounds DEF SqlTypeOK, StartQuery, At, Elsewhere
<1>2. counted[p] = Cardinality(Admitted(p)) /\ q \notin Admitted(p)
  BY <1>1 DEF CountersTellTheThreads, Admitted, Running, At
<1>3. CASE counted[p] >= PerPrincipal
  <2>1. query' = [query EXCEPT ![q].pc = "done", ![q].says = "budget"] /\ counted' = counted
    BY <1>3 DEF StartQuery, Moves
  <2>2. SqlTypeOK'
    <3>1. [query[q] EXCEPT !.pc = "done", !.says = "budget"] \in Threads
      BY <1>1 DEF Threads, Pcs, Inside, Answers
    <3>2. query' \in [Queries -> Threads]
      BY <1>1, <2>1, <3>1
    <3>3. ASSUME NEW x \in Queries
          PROVE  /\ At(x, "new")' => query'[x].by = "nobody"
                 /\ query'[x].pc \in Inside \cup {"waiting"} => query'[x].by \in Principals
      <4>1. CASE x = q
        <5>1. query'[x].pc = "done"  BY <1>1, <2>1, <4>1 DEF Threads
        <5> QED  BY <5>1 DEF At, Inside
      <4>2. CASE x # q
        <5>1. query'[x] = query[x]  BY <1>1, <2>1, <4>2
        <5> QED  BY <5>1 DEF SqlTypeOK, At
      <4> QED  BY <4>1, <4>2
    <3>4. slots' \in Int /\ counted' \in [Principals -> Int]  BY <1>1, <2>1 DEF SqlTypeOK
    <3> QED  BY <3>2, <3>3, <3>4 DEF SqlTypeOK
  <2>3. \A x \in Queries : /\ Running(x)' <=> Running(x)
                           /\ At(x, "waiting")' <=> At(x, "waiting")
                           /\ query'[x].by = query[x].by
    BY <1>1, <2>1 DEF Running, At, Threads
  <2>4. Scanning' = Scanning /\ \A r : Admitted(r)' = Admitted(r)
    BY <2>3 DEF Scanning, Admitted
  <2>5. Refused' = Refused \cup {q}
    BY <1>1, <2>1 DEF Refused, At, Threads
  <2>6. CountersTellTheThreads'
    BY <1>1, <2>1, <2>4 DEF CountersTellTheThreads, Scanning
  <2> QED  BY <1>2, <1>3, <2>2, <2>4, <2>5, <2>6
<1>4. CASE ~(counted[p] >= PerPrincipal)
  <2>1. /\ query' = [query EXCEPT ![q].pc = "waiting", ![q].by = p]
        /\ counted' = [counted EXCEPT ![p] = @ + 1]
    BY <1>4 DEF StartQuery
  <2>2. SqlTypeOK'
    BY <1>1, <2>1 DEF SqlTypeOK, Threads, Pcs, Inside, At
  <2>3. \A x \in Queries : x # q => query'[x] = query[x]
    BY <1>1, <2>1
  <2>4. query'[q].pc = "waiting" /\ query'[q].by = p
    BY <1>1, <2>1 DEF Threads
  <2>5. Scanning' = Scanning
    BY <1>1, <2>3, <2>4 DEF Scanning, Running
  <2>6. Refused' = Refused
    BY <1>1, <2>3, <2>4 DEF Refused, At
  <2>7. Admitted(p)' = Admitted(p) \cup {q} /\ \A r \in Principals \ {p} : Admitted(r)' = Admitted(r)
    BY <1>1, <2>3, <2>4 DEF Admitted, Running, At
  <2>8. Cardinality(Admitted(p)') = Cardinality(Admitted(p)) + 1
    BY <1>2, <2>7, Finite, FS_AddElement
  <2>9. \A r \in Principals : counted'[r] = Cardinality(Admitted(r)')
    BY <1>1, <1>2, <2>1, <2>7, <2>8 DEF CountersTellTheThreads
  <2>10. CountersTellTheThreads'
    BY <1>1, <2>5, <2>9 DEF CountersTellTheThreads, Scanning
  <2>11. Cardinality(Admitted(p)) < PerPrincipal
    BY <1>1, <1>2, <1>4, SqlBounds
  <2> QED  BY <2>2, <2>5, <2>6, <2>7, <2>10, <2>11
<1> QED  BY <1>3, <1>4

\* A waiting execution takes a slot that is free.
LEMMA PermitCounts ==
    ASSUME SqlInv, NEW q \in Queries, Permit(q)
    PROVE  /\ SqlInv' /\ q \notin Scanning /\ Scanning' = Scanning \cup {q}
           /\ query[q].by \in Principals /\ q \in Admitted(query[q].by)
           /\ Cardinality(Scanning) < ScanSlots
           /\ Refused' = Refused /\ \A r : Admitted(r)' = Admitted(r)
<1> USE DEF SqlInv
<1>1. /\ query \in [Queries -> Threads] /\ query[q].pc = "waiting" /\ query[q].by \in Principals
      /\ slots \in Int /\ slots > 0 /\ slots' = slots - 1 /\ counted' = counted
      /\ query' = [query EXCEPT ![q].pc = "opening", ![q].says = "nothing"]
  BY DEF SqlTypeOK, Permit, At, Moves
<1>2. query' \in [Queries -> Threads] /\ \A x \in Queries : x # q => query'[x] = query[x]
  BY <1>1, ZenonT(60) DEF Threads, Pcs, Inside, Answers
<1>3. query'[q].pc = "opening" /\ query'[q].by = query[q].by
  BY <1>1 DEF Threads
<1>4. SqlTypeOK'
  BY <1>1, <1>2, <1>3 DEF SqlTypeOK, At
<1>5. q \notin Scanning /\ Scanning' = Scanning \cup {q} /\ Refused' = Refused
  BY <1>1, <1>2, <1>3 DEF Scanning, Running, Refused, At
<1>6. q \in Admitted(query[q].by) /\ \A r : Admitted(r)' = Admitted(r)
  BY <1>1, <1>2, <1>3 DEF Admitted, Running, At
<1>7. slots + Cardinality(Scanning) = ScanSlots /\ Cardinality(Scanning) \in Nat
  BY Finite, FS_CardinalityType DEF CountersTellTheThreads, Scanning
<1>8. Cardinality(Scanning') = Cardinality(Scanning) + 1
  BY <1>5, Finite, FS_AddElement
<1>9. Cardinality(Scanning) < ScanSlots /\ slots' + Cardinality(Scanning') = ScanSlots
  BY <1>1, <1>7, <1>8
<1>10. CountersTellTheThreads'
  BY <1>1, <1>6, <1>9 DEF CountersTellTheThreads, Scanning
<1> QED  BY <1>1, <1>4, <1>5, <1>6, <1>9, <1>10

\* An execution leaves: with its slot at the end of its session, without one when its
\* wait ran out, and then there was none to be had.
LEMMA LeaveCounts ==
    ASSUME SqlInv, NEW q \in Queries, NEW p, p = query[q].by, GiveUpPermit(q) \/ Finish(q)
    PROVE  /\ SqlInv' /\ Refused' = Refused /\ Scanning' = Scanning \ {q}
           /\ p \in Principals /\ q \in Admitted(p)
           /\ q \in Scanning \/ Cardinality(Scanning) >= ScanSlots
           /\ Admitted(p)' = Admitted(p) \ {q}
           /\ \A r \in Principals \ {p} : Admitted(r)' = Admitted(r)
<1> USE DEF SqlInv
<1>1. /\ query \in [Queries -> Threads] /\ p \in Principals /\ p # "nobody"
      /\ counted \in [Principals -> Int] /\ counted' = [counted EXCEPT ![p] = @ - 1]
      /\ query[q].pc \in {"waiting", "closing"}
      /\ \E says \in Answers : query' = [query EXCEPT ![q].pc = "done", ![q].says = says]
  <2>1. query[q].says \in Answers /\ "budget" \in Answers  BY DEF SqlTypeOK, Threads, Answers
  <2> QED  BY <2>1, SqlBounds DEF SqlTypeOK, GiveUpPermit, Finish, At, Moves, Uncount, Inside
<1>2. \A x \in Queries : x # q => query'[x] = query[x]
  BY <1>1
<1>3. query'[q].pc = "done" /\ query'[q].by = p
  BY <1>1 DEF Threads
<1>4. Scanning' = Scanning \ {q} /\ Refused' = Refused
  BY <1>1, <1>2, <1>3 DEF Scanning, Running, Refused, At
<1>5. /\ q \in Admitted(p) /\ Admitted(p)' = Admitted(p) \ {q}
      /\ \A r \in Principals \ {p} : Admitted(r)' = Admitted(r)
  BY <1>1, <1>2, <1>3 DEF Admitted, Running, At
<1>6. Cardinality(Admitted(p)') = Cardinality(Admitted(p)) - 1
  BY <1>5, Finite, FS_RemoveElement
<1>7. \A r \in Principals : counted'[r] = Cardinality(Admitted(r)')
  BY <1>1, <1>5, <1>6 DEF CountersTellTheThreads
<1>8. slots \in Int /\ slots + Cardinality(Scanning) = ScanSlots /\ Cardinality(Scanning) \in Nat
  BY Finite, FS_CardinalityType DEF CountersTellTheThreads, Scanning, SqlTypeOK
<1>9. /\ q \in Scanning \/ Cardinality(Scanning) >= ScanSlots
      /\ slots' \in Int /\ slots' + Cardinality(Scanning') = ScanSlots
  <2>1. CASE GiveUpPermit(q)
    <3>1. q \notin Scanning /\ slots = 0 /\ slots' = slots
      BY <2>1 DEF GiveUpPermit, Scanning, Running, At
    <3>2. Scanning' = Scanning  BY <1>4, <3>1
    <3> QED  BY <1>8, <3>1, <3>2, SqlBounds
  <2>2. CASE Finish(q)
    <3>1. q \in Scanning /\ slots' = slots + 1
      BY <2>2 DEF Finish, Scanning, Running, At
    <3>2. Cardinality(Scanning') = Cardinality(Scanning) - 1
      BY <1>4, <3>1, Finite, FS_RemoveElement
    <3> QED  BY <1>8, <3>1, <3>2
  <2> QED  BY <2>1, <2>2
<1>10. SqlTypeOK'
  <2>1. query' \in [Queries -> Threads]
    <3>1. PICK says \in Answers : query' = [query EXCEPT ![q].pc = "done", ![q].says = says]
      BY <1>1
    <3>2. query[q] \in Threads /\ "done" \in Pcs  BY <1>1 DEF Pcs
    <3> QED  BY <1>1, <3>1, <3>2 DEF Threads
  <2>2. counted' \in [Principals -> Int]   BY <1>1
  <2> QED  BY <1>2, <1>3, <1>9, <2>1, <2>2 DEF SqlTypeOK, Inside, At
<1>11. CountersTellTheThreads'
  BY <1>7, <1>9 DEF CountersTellTheThreads, Scanning
<1> QED  BY <1>1, <1>4, <1>5, <1>9, <1>10, <1>11

----------------------------------------------------------------------------
\* The counters tell the threads, at every moment and after every way out.
LEMMA InitInv == SqlInit => SqlInv
<1> SUFFICES ASSUME SqlInit PROVE SqlInv  OBVIOUS
<1>1. SqlTypeOK
  BY SqlBounds DEF SqlInit, SqlTypeOK, New, Threads, Pcs, Inside, Answers, At
<1>2. Scanning = {} /\ \A p \in Principals : Admitted(p) = {}
  BY DEF SqlInit, New, Scanning, Admitted, Running, At
<1>3. CountersTellTheThreads
  BY <1>2, FS_EmptySet, SqlBounds DEF SqlInit, CountersTellTheThreads, Scanning
<1> QED  BY <1>1, <1>3 DEF SqlInv

LEMMA NextInv == SqlInv /\ [SqlNext]_sqlVars => SqlInv'
<1> SUFFICES ASSUME SqlInv, [SqlNext]_sqlVars PROVE SqlInv'  OBVIOUS
<1>1. CASE UNCHANGED sqlVars
  <2>1. Quietly  BY <1>1 DEF sqlVars, Quietly, SqlInv, SqlTypeOK
  <2> QED  BY <2>1, QuietStep
<1>2. CASE SqlNext
  <2>1. PICK q \in Queries :
            \/ \E p \in Principals : StartQuery(q, p)
            \/ Permit(q) \/ GiveUpPermit(q) \/ Finish(q)
            \/ OpenSession(q) \/ Arm(q) \/ Execute(q) \/ Timer(q) \/ Executed(q) \/ Returned(q)
            \/ NextPage(q) \/ CancelFlag(q) \/ CancelInterrupt(q) \/ CancelPop(q)
    BY <1>2 DEF SqlNext
  <2> QED  BY <2>1, StartCounts, PermitCounts, LeaveCounts, QuietActions, QuietStep DEF SqlInv
<1> QED  BY <1>1, <1>2

\* The budget's counters are what the threads hold, for any number of them
\* (executions.py 70-88, 134-142).
THEOREM CountersAreRight == SqlSpec => []CountersTellTheThreads
<1>1. SqlInv => CountersTellTheThreads  BY DEF SqlInv
<1> QED  BY <1>1, InitInv, NextInv, PTL DEF SqlSpec

----------------------------------------------------------------------------
\* Every step of the threads is one of the budget, or none.
LEMMA StepRefines == SqlInv /\ [SqlNext]_sqlVars => [Budget!BudgetNext]_Budget!budgetVars
<1> SUFFICES ASSUME SqlInv, [SqlNext]_sqlVars PROVE [Budget!BudgetNext]_Budget!budgetVars  OBVIOUS
<1> DEFINE In == [r \in Principals |-> Admitted(r)]
<1>1. ASSUME Quietly  PROVE UNCHANGED Budget!budgetVars
  BY <1>1, QuietStep DEF Budget!budgetVars, Scanning, Refused
<1>2. CASE UNCHANGED sqlVars
  <2>1. Quietly  BY <1>2 DEF sqlVars, Quietly, SqlInv, SqlTypeOK
  <2> QED  BY <1>1, <2>1
<1>3. ASSUME NEW q \in Queries, NEW p \in Principals, StartQuery(q, p)  PROVE Budget!BudgetNext
  <2>1. Budget!Outside(q)
    BY <1>3, SqlBounds DEF SqlInv, SqlTypeOK, StartQuery, Budget!Outside, Admitted, At, Running
  <2>2. CASE /\ Scanning' = Scanning /\ Refused' = Refused \cup {q}
             /\ Cardinality(Admitted(p)) >= PerPrincipal /\ \A r : Admitted(r)' = Admitted(r)
    <3>1. Budget!Refuse(p, q)
      BY <2>1, <2>2, SameCardinality DEF Budget!Refuse, Scanning, Refused
    <3> QED  BY <3>1 DEF Budget!BudgetNext
  <2>3. CASE /\ Scanning' = Scanning /\ Refused' = Refused
             /\ Cardinality(Admitted(p)) < PerPrincipal /\ Admitted(p)' = Admitted(p) \cup {q}
             /\ \A r \in Principals \ {p} : Admitted(r)' = Admitted(r)
    <3>1. In' = [In EXCEPT ![p] = @ \cup {q}]  BY <2>3
    <3>2. Budget!Admit(p, q)
      BY <2>1, <2>3, <3>1, SameCardinality DEF Budget!Admit, Scanning, Refused
    <3> QED  BY <3>2 DEF Budget!BudgetNext
  <2> QED  BY <1>3, <2>2, <2>3, StartCounts
<1>4. ASSUME NEW q \in Queries, Permit(q)  PROVE Budget!BudgetNext
  <2> DEFINE p == query[q].by
  <2>1. /\ q \notin Scanning /\ Scanning' = Scanning \cup {q}
        /\ p \in Principals /\ q \in In[p] /\ Cardinality(Scanning) < ScanSlots
        /\ In' = In /\ Refused' = Refused
    BY <1>4, PermitCounts
  <2>2. Budget!Scan(p, q)
    BY <2>1, SameCardinality DEF Budget!Scan, Scanning, Refused
  <2> QED  BY <2>1, <2>2 DEF Budget!BudgetNext
<1>5. ASSUME NEW q \in Queries, GiveUpPermit(q) \/ Finish(q)  PROVE Budget!BudgetNext
  <2>0. PICK p : p = query[q].by  OBVIOUS
  <2>1. /\ Scanning' = Scanning \ {q} /\ p \in Principals /\ q \in Admitted(p)
        /\ q \in Scanning \/ Cardinality(Scanning) >= ScanSlots
        /\ Admitted(p)' = Admitted(p) \ {q} /\ Refused' = Refused
        /\ \A r \in Principals \ {p} : Admitted(r)' = Admitted(r)
    BY <1>5, <2>0, LeaveCounts
  <2>2. q \in In[p] /\ In' = [In EXCEPT ![p] = @ \ {q}]
    BY <2>1
  <2>3. Budget!Leave(p, q)
    BY <2>1, <2>2, SameCardinality DEF Budget!Leave, Scanning, Refused
  <2> QED  BY <2>1, <2>3 DEF Budget!BudgetNext
<1>6. CASE SqlNext
  <2>1. PICK q \in Queries :
            \/ \E p \in Principals : StartQuery(q, p)
            \/ Permit(q) \/ GiveUpPermit(q) \/ Finish(q)
            \/ OpenSession(q) \/ Arm(q) \/ Execute(q) \/ Timer(q) \/ Executed(q) \/ Returned(q)
            \/ NextPage(q) \/ CancelFlag(q) \/ CancelInterrupt(q) \/ CancelPop(q)
    BY <1>6 DEF SqlNext
  <2> QED  BY <1>1, <1>3, <1>4, <1>5, <2>1, QuietActions DEF SqlInv
<1> QED  BY <1>2, <1>6

\* The threads, locks and counters implement the budget: a principal never has more than
\* its share, no more than ScanSlots scan, nobody is kept out while there is room
\* (executions.py 70-88, 134-142; the property BudgetIsKept).
THEOREM BudgetHolds == SqlSpec => BudgetIsKept
<1>1. SqlInit => Budget!BudgetInit
  BY SqlBounds DEF SqlInit, New, Budget!BudgetInit, Admitted, Running, At
<1> QED  BY <1>1, InitInv, NextInv, StepRefines, PTL DEF SqlSpec, BudgetIsKept, Budget!BudgetSpec

----------------------------------------------------------------------------
\* A cancel is kept by the flag alone: from the moment it is set nothing lowers it, and
\* every way to the end of the run looks at it after the last moment it can be set.
Noticing == {"listed", "armed", "executing", "returned"}
Kept     == {"nothing", "cancelled", "rejected", "memory"}

CancelInv ==
    /\ query \in [Queries -> Threads] /\ withdrawn \subseteq Queries
    /\ \A q \in Queries : query[q].pc \in Noticing => query[q].says = "nothing"
    /\ \A q \in withdrawn : /\ query[q].flag /\ query[q].says \in Kept
                            /\ query[q].pc \in Noticing \cup {"closing", "done"}

\* The thread's own steps: a step that keeps the flags, and of which the thread that moves
\* says nothing it may not say after a cancel.
LEMMA ThreadKeepsCancels ==
    ASSUME CancelInv, NEW q \in Queries, NEW pc \in Pcs, NEW says \in Answers, Moves(q, pc, says),
           withdrawn' = withdrawn, pc \in Noticing => says = "nothing",
           q \in withdrawn => says \in Kept /\ pc \in Noticing \cup {"closing", "done"}
    PROVE  CancelInv'
<1>1. query[q] \in Threads  BY DEF CancelInv
<1>2. /\ query' \in [Queries -> Threads] /\ \A x \in Queries : x # q => query'[x] = query[x]
      /\ query'[q].pc = pc /\ query'[q].says = says /\ query'[q].flag = query[q].flag
  BY <1>1 DEF CancelInv, Moves, Threads
<1> QED  BY <1>2 DEF CancelInv

LEMMA NextCancelInv == CancelInv /\ SqlTypeOK /\ [SqlNext]_sqlVars => CancelInv'
<1> SUFFICES ASSUME CancelInv, SqlTypeOK, [SqlNext]_sqlVars PROVE CancelInv'  OBVIOUS
<1> USE DEF Noticing, Kept, Pcs, Inside, Answers
<1>1. ASSUME UNCHANGED <<query, withdrawn>>  PROVE CancelInv'  BY <1>1 DEF CancelInv
<1>2. CASE UNCHANGED sqlVars  BY <1>1, <1>2 DEF sqlVars
<1>3. ASSUME NEW q \in Queries, NEW p \in Principals, StartQuery(q, p)  PROVE CancelInv'
  <2>1. query[q].pc = "new" /\ q \notin withdrawn /\ withdrawn' = withdrawn
    BY <1>3 DEF StartQuery, At, CancelInv, Elsewhere
  <2>2. CASE Moves(q, "done", "budget")  BY <2>1, <2>2, ThreadKeepsCancels
  <2>3. CASE query' = [query EXCEPT ![q].pc = "waiting", ![q].by = p]
    <3>1. query[q] \in Threads  BY DEF CancelInv
    <3>2. /\ query' \in [Queries -> Threads] /\ \A x \in Queries : x # q => query'[x] = query[x]
          /\ query'[q].pc = "waiting"
      BY <2>3, <3>1 DEF CancelInv, Threads
    <3> QED  BY <2>1, <3>2 DEF CancelInv
  <2> QED  BY <1>3, <2>2, <2>3 DEF StartQuery
<1>4. ASSUME NEW q \in Queries, Permit(q)  PROVE CancelInv'
  BY <1>4, ThreadKeepsCancels DEF Permit, At, CancelInv, Elsewhere
<1>5. ASSUME NEW q \in Queries, GiveUpPermit(q)  PROVE CancelInv'
  BY <1>5, ThreadKeepsCancels DEF GiveUpPermit, At, CancelInv, Elsewhere
<1>6. ASSUME NEW q \in Queries, OpenSession(q)  PROVE CancelInv'
  BY <1>6, ThreadKeepsCancels DEF OpenSession, At, CancelInv, Elsewhere
<1>7. ASSUME NEW q \in Queries, Arm(q)  PROVE CancelInv'
  BY <1>7, ThreadKeepsCancels DEF Arm, At, CancelInv, Elsewhere
<1>8. ASSUME NEW q \in Queries, Execute(q)  PROVE CancelInv'
  BY <1>8, ThreadKeepsCancels DEF Execute, At, CancelInv, Elsewhere
<1>9. ASSUME NEW q \in Queries, Executed(q)  PROVE CancelInv'
  <2>1. (q \in withdrawn => query[q].flag) /\ withdrawn' = withdrawn
    BY <1>9 DEF Executed, CancelInv, Elsewhere
  <2> QED  BY <1>9, <2>1, ThreadKeepsCancels DEF Executed
<1>10. ASSUME NEW q \in Queries, Returned(q)  PROVE CancelInv'
  <2>1. (q \in withdrawn => query[q].flag) /\ withdrawn' = withdrawn
    BY <1>10 DEF Returned, CancelInv, Elsewhere
  <2> QED  BY <1>10, <2>1, ThreadKeepsCancels DEF Returned
<1>11. ASSUME NEW q \in Queries, Finish(q)  PROVE CancelInv'
  <2>1. query[q].says \in Answers /\ (q \in withdrawn => query[q].says \in Kept)
    BY DEF CancelInv, Threads
  <2> QED  BY <1>11, <2>1, ThreadKeepsCancels DEF Finish, Elsewhere
<1>12. ASSUME NEW q \in Queries, Timer(q) \/ CancelInterrupt(q)  PROVE CancelInv'
  <2>1. PICK hit \in BOOLEAN : query' = [query EXCEPT ![q].hit = hit]
    <3>1. query[q].hit \in BOOLEAN  BY DEF CancelInv, Threads
    <3>2. query[q].hit \/ At(q, "executing") \in BOOLEAN  BY <3>1 DEF At
    <3> QED  BY <1>12, <3>2 DEF Timer, CancelInterrupt
  <2>2. query[q] \in Threads /\ withdrawn' = withdrawn  BY <1>12 DEF CancelInv, Timer, CancelInterrupt, Elsewhere
  <2>3. /\ query' \in [Queries -> Threads]
        /\ \A x \in Queries : /\ query'[x].pc = query[x].pc /\ query'[x].says = query[x].says
                              /\ query'[x].flag = query[x].flag
    BY <2>1, <2>2 DEF CancelInv, Threads
  <2> QED  BY <2>2, <2>3 DEF CancelInv
<1>13. ASSUME NEW q \in Queries, CancelFlag(q)  PROVE CancelInv'
  <2>1. CASE ~Connected(q)  BY <1>1, <1>13, <2>1 DEF CancelFlag
  <2>2. CASE Connected(q)
    <3>1. /\ query' = [query EXCEPT ![q].flag = TRUE]
          /\ withdrawn' = IF query[q].pc = "closing" THEN withdrawn ELSE withdrawn \cup {q}
      BY <1>13, <2>2 DEF CancelFlag, At
    <3>2. query[q] \in Threads  BY DEF CancelInv
    <3>3. /\ query' \in [Queries -> Threads] /\ query'[q].flag
          /\ \A x \in Queries : query'[x].pc = query[x].pc /\ query'[x].says = query[x].says
          /\ \A x \in Queries : x # q => query'[x].flag = query[x].flag
      BY <3>1, <3>2 DEF CancelInv, Threads
    <3>4. query[q].pc # "closing" => query[q].pc \in Noticing  BY <2>2 DEF Connected
    <3> QED  BY <3>1, <3>3, <3>4 DEF CancelInv
  <2> QED  BY <2>1, <2>2
<1>14. ASSUME NEW q \in Queries, NextPage(q) \/ CancelPop(q)  PROVE CancelInv'
  BY <1>1, <1>14 DEF NextPage, CancelPop, Elsewhere
<1>15. CASE SqlNext
  BY <1>3, <1>4, <1>5, <1>6, <1>7, <1>8, <1>9, <1>10, <1>11, <1>12, <1>13, <1>14, <1>15 DEF SqlNext
<1> QED  BY <1>2, <1>15

\* A cancel that landed while the session could still notice is never answered with rows,
\* nor with the timer's refusal (session.py 78-85, 97-105, 113-118).
THEOREM CancelsAreKept == SqlSpec => []CancelIsNotLost
<1>1. SqlInit => CancelInv
  BY DEF SqlInit, CancelInv, New, Threads, Pcs, Inside, Answers, Noticing
<1>2. CancelInv => CancelIsNotLost
  BY DEF CancelInv, CancelIsNotLost, Kept
<1>3. SqlInv => SqlTypeOK  BY DEF SqlInv
<1> QED  BY <1>1, <1>2, <1>3, InitInv, NextInv, NextCancelInv, PTL DEF SqlSpec

----------------------------------------------------------------------------
Rows == [id : Nat \X Days, day : Days, from : Nat, available : Nat, to : Nat]
Works == [pc : {"idle", "fetching", "superseding", "promoting"}, now : Nat,
          policy : {"missing_only", "refresh"}, span : SUBSET Int,
          rows : SUBSET Rows, closes : SUBSET Rows]
Busy(w) == job[w].pc # "idle"

StoreTypeOK ==
    /\ log \in Seq(SUBSET Rows) /\ clock \in Nat /\ job \in [Workers -> Works]

\* An assertion's id is the job that made it and its day; a job that has not committed has
\* a stamp of its own, that no assertion in the log has.
Stamps ==
    /\ \A r \in Version(Newest) : r.id[2] = r.day /\ r.id[1] <= clock
    /\ \A w \in Workers : Busy(w) =>
          /\ job[w].now <= clock
          /\ \A r \in Version(Newest) : r.id[1] # job[w].now
          /\ \A v \in Workers \ {w} : Busy(v) => job[v].now # job[w].now

\* What a job holds: new assertions of its own stamp, one a day, and closes of assertions in
\* the log, each of a day that it has a new assertion for.
Holdings ==
    \A w \in Workers :
        /\ \A r \in job[w].rows : /\ r.id = <<job[w].now, r.day>> /\ r.from = job[w].now
                                  /\ r.to = Open
        /\ \A r, s \in job[w].rows : r.id = s.id => r = s
        /\ \A c \in job[w].closes : /\ c.from = job[w].now
                                    /\ \E r \in Version(Newest) : r.id = c.id /\ r.day = c.day
                                    /\ c.day \in Held(job[w].rows)
        /\ job[w].closes # {} => job[w].pc = "promoting"

StoreInv == StoreTypeOK /\ Stamps /\ Holdings

----------------------------------------------------------------------------
\* What is committed stays, whatever is appended.
LEMMA PrefixStays ==
    ASSUME StoreTypeOK, NEW rows \in SUBSET Rows, log' = Append(log, rows)
    PROVE  /\ Newest' = Newest + 1 /\ Newest \in Nat
           /\ Version(Newest)' = Version(Newest) \cup rows
           /\ \A n \in 0..Newest : Version(n)' = Version(n)
<1>1. Newest' = Newest + 1 /\ Newest \in Nat  BY DEF StoreTypeOK, Newest
<1>2. \A i \in 1..Newest : log'[i] = log[i]  BY DEF StoreTypeOK, Newest
<1>3. log'[Newest + 1] = rows  BY DEF StoreTypeOK, Newest
<1>4. ASSUME NEW n \in 0..Newest  PROVE Version(n)' = Version(n)
  <2>1. \A i \in 1..n : log'[i] = log[i]
    <3>1. Newest \in Int /\ n \in Int /\ n <= Newest  BY <1>1
    <3>2. 1..n \subseteq 1..Newest  BY <3>1
    <3> QED  BY <1>2, <3>2
  <2>2. {log'[i] : i \in 1..n} = {log[i] : i \in 1..n}  BY <2>1
  <2> QED  BY <2>2 DEF Version
<1>5. 1..(Newest + 1) = 1..Newest \cup {Newest + 1}  BY <1>1
<1>6. Version(Newest)' = UNION {log'[i] : i \in 1..(Newest + 1)}  BY <1>1 DEF Version
<1>7. @ = Version(Newest) \cup rows  BY <1>2, <1>3, <1>5 DEF Version
<1> QED  BY <1>1, <1>4, <1>6, <1>7

LEMMA VersionType == ASSUME StoreTypeOK PROVE Version(Newest) \in SUBSET Rows
BY DEF StoreTypeOK, Version, Newest

\* Only a promotion changes the log, and it changes nothing else but its job.
LEMMA LogAlone ==
    ASSUME [StoreNext]_storeVars
    PROVE  log' = log \/ \E w \in Workers : Promote(w)
BY DEF StoreNext, storeVars, Begin, Fetched, Supersede, PinVersions, PinAgain, Read, Report,
       Forget

----------------------------------------------------------------------------
LEMMA StoreInitInv == StoreInit => StoreInv
<1> SUFFICES ASSUME StoreInit PROVE StoreInv  OBVIOUS
<1>1. NoJob \in Works  BY DEF NoJob, Works
<1>2. StoreTypeOK
  <2>1. log \in Seq(SUBSET Rows)  BY DEF StoreInit
  <2>2. job \in [Workers -> Works]  BY <1>1 DEF StoreInit
  <2> QED  BY <2>1, <2>2 DEF StoreInit, StoreTypeOK
<1>3. Version(Newest) = {}  BY DEF StoreInit, Version, Newest
<1>4. \A w \in Workers : job[w] = NoJob  BY DEF StoreInit
<1> QED  BY <1>2, <1>3, <1>4 DEF StoreInv, Stamps, Holdings, Busy, NoJob

LEMMA StoreTypeStep == ASSUME StoreTypeOK, [StoreNext]_storeVars PROVE StoreTypeOK'
<1> USE DEF StoreTypeOK
<1>1. ASSUME NEW w \in Workers, NEW policy \in {"missing_only", "refresh"}, NEW asked \in SUBSET Days,
             Begin(w, policy, asked)
      PROVE  StoreTypeOK'
  <2> DEFINE span == Planned(Held(Current(Version(Newest))), asked, policy)
  <2>1. span \in SUBSET Int  BY StoreBounds DEF Planned
  <2>2. [NoJob EXCEPT !.pc = "fetching", !.now = clock + 1, !.policy = policy, !.span = span] \in Works
    <3>1. clock + 1 \in Nat  OBVIOUS
    <3>2. NoJob \in Works  BY DEF NoJob, Works
    <3> HIDE DEF span
    <3>3. \A x \in Works :
             [x EXCEPT !.pc = "fetching", !.now = clock + 1, !.policy = policy, !.span = span] \in Works
      BY <2>1, <3>1 DEF Works
    <3> QED  BY <3>2, <3>3
  <2> QED  BY <1>1, <2>2 DEF Begin
<1>2. ASSUME NEW w \in Workers, NEW days \in SUBSET Days, Fetched(w, days)  PROVE StoreTypeOK'
  <2> DEFINE new == {[id |-> <<job[w].now, d>>, day |-> d, from |-> job[w].now,
                      available |-> job[w].now, to |-> Open] : d \in days}
  <2>1. new \in SUBSET Rows  BY DEF Rows, Works, Open
  <2>2. NoJob \in Works /\ [job[w] EXCEPT !.pc = "superseding", !.rows = new] \in Works
    <3> HIDE DEF new
    <3> QED  BY <2>1 DEF NoJob, Works
  <2>3. job' = [job EXCEPT ![w] = IF days = {} THEN NoJob
                                  ELSE [job[w] EXCEPT !.pc = "superseding", !.rows = new]]
    BY <1>2 DEF Fetched
  <2>4. log' = log /\ clock' = clock  BY <1>2 DEF Fetched
  <2> HIDE DEF new
  <2> QED  BY <2>2, <2>3, <2>4
<1>3. ASSUME NEW w \in Workers, Supersede(w)  PROVE StoreTypeOK'
  <2>1. PICK chosen \in SUBSET Current(Version(Newest)) :
            job' = [job EXCEPT ![w].pc = "promoting",
                       ![w].closes = {[r EXCEPT !.from = job[w].now, !.to = job[w].now] : r \in chosen}]
    BY <1>3 DEF Supersede
  <2>2. chosen \in SUBSET Rows  BY VersionType DEF Current, Latest
  <2>3. {[r EXCEPT !.from = job[w].now, !.to = job[w].now] : r \in chosen} \in SUBSET Rows
    <3>1. job[w].now \in Nat  BY DEF Works
    <3>2. \A r \in Rows : [r EXCEPT !.from = job[w].now, !.to = job[w].now] \in Rows
      BY <3>1 DEF Rows
    <3> QED  BY <2>2, <3>2
  <2>4. log' = log /\ clock' = clock  BY <1>3 DEF Supersede
  <2> QED  BY <2>1, <2>3, <2>4, ZenonT(60) DEF Works
<1>4. ASSUME NEW w \in Workers, Promote(w)  PROVE StoreTypeOK'
  <2>1. NoJob \in Works  BY DEF NoJob, Works
  <2>2. job[w].closes \cup job[w].rows \in SUBSET Rows  BY DEF Works
  <2> QED  BY <1>4, <2>1, <2>2 DEF Promote
<1>5. CASE UNCHANGED <<log, clock, job>>  BY <1>5
<1>6. CASE PinAgain \/ Read \/ Report \/ Forget \/ UNCHANGED storeVars
  BY <1>5, <1>6 DEF PinAgain, Read, Report, Forget, storeVars
<1>7. ASSUME NEW kind, NEW k, PinVersions(kind, k)  PROVE StoreTypeOK'
  BY <1>5, <1>7 DEF PinVersions
<1> QED  BY <1>1, <1>2, <1>3, <1>4, <1>6, <1>7 DEF StoreNext

----------------------------------------------------------------------------
\* A step that leaves the log alone, changes one job and keeps what it may hold.
LEMMA OneJob ==
    ASSUME StoreInv, NEW w \in Workers, log' = log, clock' >= clock, clock' \in Nat,
           \A v \in Workers \ {w} : job'[v] = job[v],
           Busy(w)' => /\ job'[w].now <= clock'
                       /\ \A r \in Version(Newest) : r.id[1] # job'[w].now
                       /\ \A v \in Workers \ {w} : Busy(v) => job[v].now # job'[w].now,
           /\ \A r \in job'[w].rows : /\ r.id = <<job'[w].now, r.day>> /\ r.from = job'[w].now
                                      /\ r.to = Open
           /\ \A r, s \in job'[w].rows : r.id = s.id => r = s
           /\ \A c \in job'[w].closes : /\ c.from = job'[w].now
                                        /\ \E r \in Version(Newest) : r.id = c.id /\ r.day = c.day
                                        /\ c.day \in Held(job'[w].rows)
           /\ job'[w].closes # {} => job'[w].pc = "promoting"
    PROVE  Stamps' /\ Holdings'
<1>1. Version(Newest)' = Version(Newest)  BY DEF Version, Newest
<1>2. \A v \in Workers \ {w} : Held(job'[v].rows) = Held(job[v].rows) /\ (Busy(v)' <=> Busy(v))
  BY DEF Busy
<1>3. clock \in Nat  BY DEF StoreInv, StoreTypeOK
<1>4. \A r \in Version(Newest) : r.id[1] \in Nat
  BY VersionType DEF StoreInv, Rows
<1>5. \A v \in Workers : job[v].now \in Nat  BY DEF StoreInv, StoreTypeOK, Works
<1>6. Stamps'
  <2>1. \A r \in Version(Newest) : r.id[2] = r.day /\ r.id[1] <= clock'
    BY <1>3, <1>4 DEF StoreInv, Stamps
  <2>2. \A v \in Workers \ {w} : Busy(v)' =>
          /\ job'[v].now <= clock'
          /\ \A r \in Version(Newest) : r.id[1] # job'[v].now
          /\ \A u \in Workers \ {v} : Busy(u)' => job'[u].now # job'[v].now
    BY <1>2, <1>3, <1>5 DEF StoreInv, Stamps
  <2>3. Busy(w)' =>
          /\ job'[w].now <= clock'
          /\ \A r \in Version(Newest) : r.id[1] # job'[w].now
          /\ \A u \in Workers \ {w} : Busy(u)' => job'[u].now # job'[w].now
    BY <1>2
  <2> QED  BY <1>1, <2>1, <2>2, <2>3 DEF Stamps
<1>7. Holdings'
  <2>1. \A v \in Workers \ {w} :
          /\ \A r \in job'[v].rows : /\ r.id = <<job'[v].now, r.day>> /\ r.from = job'[v].now
                                     /\ r.to = Open
          /\ \A r, s \in job'[v].rows : r.id = s.id => r = s
          /\ \A c \in job'[v].closes : /\ c.from = job'[v].now
                                       /\ \E r \in Version(Newest) : r.id = c.id /\ r.day = c.day
                                       /\ c.day \in Held(job'[v].rows)
          /\ job'[v].closes # {} => job'[v].pc = "promoting"
    BY <1>2 DEF StoreInv, Holdings
  <2>2. Held(job'[w].rows) = Held(job[w].rows)'  BY DEF Held
  <2> QED  BY <1>1, <2>1, <2>2 DEF Holdings, Held
<1> QED  BY <1>6, <1>7

\* A promotion: the new assertions have ids that the log has not, the closes ids that it has.
LEMMA Promoted ==
    ASSUME StoreInv, NEW w \in Workers, Promote(w)
    PROVE  /\ Version(Newest)' = Version(Newest) \cup job[w].closes \cup job[w].rows
           /\ \A n \in 0..Newest : Version(n)' = Version(n)
           /\ Busy(w) /\ Newest \in Nat /\ Newest' = Newest + 1
<1>1. job[w].closes \cup job[w].rows \in SUBSET Rows  BY DEF StoreInv, StoreTypeOK, Works
<1>2. log' = Append(log, job[w].closes \cup job[w].rows)  BY DEF Promote
<1>3. Busy(w)  BY DEF Promote, Busy
<1> QED  BY <1>1, <1>2, <1>3, PrefixStays DEF StoreInv

LEMMA BeginStep ==
    ASSUME StoreInv, NEW w \in Workers, NEW policy, NEW asked, Begin(w, policy, asked)
    PROVE  Stamps' /\ Holdings'
<1>1. clock \in Nat /\ w \in DOMAIN job  BY DEF StoreInv, StoreTypeOK
<1>2. log' = log /\ clock' = clock + 1 /\ \A v \in Workers \ {w} : job'[v] = job[v]
  BY DEF Begin, StoreInv, StoreTypeOK
<1>3. job'[w].now = clock + 1 /\ job'[w].rows = {} /\ job'[w].closes = {}
  <2>1. PICK span : job'[w] = [NoJob EXCEPT !.pc = "fetching", !.now = clock', !.policy = policy,
                                            !.span = span]
    BY <1>1 DEF Begin
  <2>2. job'[w].now = clock' /\ job'[w].rows = NoJob.rows /\ job'[w].closes = NoJob.closes
    BY <2>1 DEF NoJob
  <2> QED  BY <1>2, <2>2 DEF NoJob
<1>4. \A r \in Version(Newest) : r.id[1] # clock + 1
  <2>1. \A r \in Version(Newest) : r.id[1] \in Nat /\ r.id[1] <= clock
    BY VersionType DEF StoreInv, Rows, Stamps
  <2> QED  BY <1>1, <2>1
<1>5. \A v \in Workers \ {w} : Busy(v) => job[v].now # clock + 1
  <2>1. \A v \in Workers : Busy(v) => job[v].now \in Nat /\ job[v].now <= clock
    BY DEF StoreInv, StoreTypeOK, Stamps, Works
  <2> QED  BY <1>1, <2>1
<1>6. clock' >= clock /\ clock' \in Nat  BY <1>1, <1>2
<1> QED  BY <1>1, <1>2, <1>3, <1>4, <1>5, <1>6, OneJob

LEMMA FetchedStep ==
    ASSUME StoreInv, NEW w \in Workers, NEW days, Fetched(w, days)
    PROVE  Stamps' /\ Holdings'
<1> DEFINE new == {[id |-> <<job[w].now, d>>, day |-> d, from |-> job[w].now,
                    available |-> job[w].now, to |-> Open] : d \in days}
<1>1. job[w] \in Works /\ clock \in Nat /\ w \in DOMAIN job  BY DEF StoreInv, StoreTypeOK
<1>2. log' = log /\ clock' = clock /\ \A v \in Workers \ {w} : job'[v] = job[v]
  BY DEF Fetched, StoreInv, StoreTypeOK
<1>3. job[w].closes = {} /\ Busy(w)  BY DEF StoreInv, Holdings, Fetched, Busy
<1>4. CASE job'[w] = NoJob
  <2>1. ~Busy(w)' /\ job'[w].rows = {} /\ job'[w].closes = {}  BY <1>4 DEF Busy, NoJob
  <2> QED  BY <1>1, <1>2, <2>1, OneJob
<1>5. CASE job'[w] = [job[w] EXCEPT !.pc = "superseding", !.rows = new]
  <2>1. job'[w].now = job[w].now /\ job'[w].rows = new /\ job'[w].closes = {}
    <3> HIDE DEF new
    <3> QED  BY <1>1, <1>3, <1>5 DEF Works
  <2>2. /\ \A r \in new : /\ r.id = <<job[w].now, r.day>> /\ r.from = job[w].now /\ r.to = Open
        /\ \A r, s \in new : r.id = s.id => r = s
    OBVIOUS
  <2>3. /\ job[w].now <= clock
        /\ \A r \in Version(Newest) : r.id[1] # job[w].now
        /\ \A v \in Workers \ {w} : Busy(v) => job[v].now # job[w].now
    BY <1>3 DEF StoreInv, Stamps
  <2> HIDE DEF new
  <2> QED  BY <1>1, <1>2, <2>1, <2>2, <2>3, OneJob
<1>6. job'[w] = IF days = {} THEN NoJob ELSE [job[w] EXCEPT !.pc = "superseding", !.rows = new]
  BY <1>1 DEF Fetched
<1> HIDE DEF new
<1> QED  BY <1>4, <1>5, <1>6

LEMMA SupersedeStep ==
    ASSUME StoreInv, NEW w \in Workers, Supersede(w)
    PROVE  Stamps' /\ Holdings'
<1>1. job[w] \in Works /\ clock \in Nat /\ w \in DOMAIN job  BY DEF StoreInv, StoreTypeOK
<1>2. log' = log /\ clock' = clock /\ \A v \in Workers \ {w} : job'[v] = job[v]
  BY DEF Supersede, StoreInv, StoreTypeOK
<1>3. Busy(w)  BY DEF Supersede, Busy
<1> DEFINE closes(chosen) == {[r EXCEPT !.from = job[w].now, !.to = job[w].now] : r \in chosen}
<1>4. PICK chosen \in SUBSET Current(Version(Newest)) :
         /\ Held(chosen) \subseteq Held(job[w].rows)
         /\ job' = [job EXCEPT ![w].pc = "promoting", ![w].closes = closes(chosen)]
  <2>1. PICK chosen \in SUBSET Current(Version(Newest)) :
           /\ IF job[w].policy = "refresh"
              THEN Held(chosen) = Held(Current(Version(Newest))) \cap Held(job[w].rows)
              ELSE chosen = {}
           /\ job' = [job EXCEPT ![w].pc = "promoting", ![w].closes = closes(chosen)]
    BY DEF Supersede
  <2>2. Held(chosen) \subseteq Held(job[w].rows)  BY <2>1 DEF Held
  <2> QED  BY <2>1, <2>2
<1>5. /\ job'[w].now = job[w].now /\ job'[w].rows = job[w].rows
      /\ job'[w].closes = closes(chosen) /\ job'[w].pc = "promoting"
  <2> HIDE DEF closes
  <2> QED  BY <1>1, <1>4 DEF Works
<1>6. \A c \in closes(chosen) :
         /\ c.from = job[w].now
         /\ \E r \in Version(Newest) : r.id = c.id /\ r.day = c.day
         /\ c.day \in Held(job[w].rows)
  <2> SUFFICES ASSUME NEW r \in chosen
               PROVE  LET c == [r EXCEPT !.from = job[w].now, !.to = job[w].now] IN
                      /\ c.from = job[w].now /\ c.id = r.id /\ c.day = r.day
                      /\ r \in Version(Newest) /\ r.day \in Held(job[w].rows)
    BY Zenon
  <2>1. r \in Version(Newest)  BY DEF Current, Latest
  <2>2. r \in Rows  BY <2>1, VersionType DEF StoreInv
  <2>3. r.day \in Held(job[w].rows)  BY <1>4 DEF Held
  <2> QED  BY <2>1, <2>2, <2>3 DEF Rows
<1>7. /\ \A r \in job[w].rows : /\ r.id = <<job[w].now, r.day>> /\ r.from = job[w].now
                                /\ r.to = Open
      /\ \A r, s \in job[w].rows : r.id = s.id => r = s
  BY DEF StoreInv, Holdings
<1>8. /\ job[w].now <= clock
      /\ \A r \in Version(Newest) : r.id[1] # job[w].now
      /\ \A v \in Workers \ {w} : Busy(v) => job[v].now # job[w].now
  BY <1>3 DEF StoreInv, Stamps
<1> HIDE DEF closes
<1> QED  BY <1>1, <1>2, <1>5, <1>6, <1>7, <1>8, OneJob

LEMMA PromoteStep ==
    ASSUME StoreInv, NEW w \in Workers, Promote(w)
    PROVE  Stamps' /\ Holdings'
<1> DEFINE V == Version(Newest)
           R == job[w].rows
           C == job[w].closes
<1>1. Version(Newest)' = V \cup C \cup R /\ Busy(w)  BY Promoted
<1>2. /\ clock' = clock /\ \A v \in Workers \ {w} : job'[v] = job[v]
      /\ job'[w] = NoJob /\ ~Busy(w)'
  BY DEF Promote, StoreInv, StoreTypeOK, Busy, NoJob
<1>3. \A r \in R : r.id[1] = job[w].now /\ r.id[2] = r.day
  BY DEF StoreInv, Holdings
<1>4. \A c \in C : \E r \in V : r.id = c.id /\ r.day = c.day
  BY DEF StoreInv, Holdings
<1>5. job[w].now <= clock /\ \A v \in Workers \ {w} : Busy(v) => job[w].now # job[v].now
  BY <1>1 DEF StoreInv, Stamps
<1>6. \A r \in V : r.id[2] = r.day /\ r.id[1] <= clock  BY DEF StoreInv, Stamps
<1>7. \A r \in V \cup C \cup R : r.id[2] = r.day /\ r.id[1] <= clock
  BY <1>3, <1>4, <1>5, <1>6
<1>8. \A v \in Workers \ {w} : (Busy(v)' <=> Busy(v)) /\ Held(job[v].rows)' = Held(job[v].rows)
  BY <1>2 DEF Busy, Held
<1>9. Stamps'
  <2>1. ASSUME NEW v \in Workers \ {w}, Busy(v)
        PROVE  \A r \in V \cup C \cup R : r.id[1] # job[v].now
    <3>1. \A r \in V : r.id[1] # job[v].now  BY <2>1 DEF StoreInv, Stamps
    <3> QED  BY <1>3, <1>4, <1>5, <2>1, <3>1
  <2>2. ASSUME NEW v \in Workers \ {w}, Busy(v)
        PROVE  job[v].now <= clock /\ \A u \in Workers \ {v} : Busy(u) => job[u].now # job[v].now
    BY <2>2 DEF StoreInv, Stamps
  <2> HIDE DEF V, C, R
  <2> QED  BY <1>1, <1>2, <1>7, <1>8, <2>1, <2>2 DEF Stamps
<1>10. Holdings'
  <2>1. job'[w].rows = {} /\ job'[w].closes = {}  BY <1>2 DEF NoJob
  <2>2. \A v \in Workers \ {w} :
          /\ \A r \in job'[v].rows : /\ r.id = <<job'[v].now, r.day>> /\ r.from = job'[v].now
                                     /\ r.to = Open
          /\ \A r, s \in job'[v].rows : r.id = s.id => r = s
          /\ \A c \in job'[v].closes : /\ c.from = job'[v].now
                                       /\ \E r \in V : r.id = c.id /\ r.day = c.day
                                       /\ c.day \in Held(job[v].rows)
          /\ job'[v].closes # {} => job'[v].pc = "promoting"
    BY <1>2 DEF StoreInv, Holdings
  <2> HIDE DEF V, C, R
  <2> QED  BY <1>1, <1>8, <2>1, <2>2 DEF Holdings
<1> QED  BY <1>9, <1>10

LEMMA StoreStep == StoreInv /\ [StoreNext]_storeVars => StoreInv'
<1> SUFFICES ASSUME StoreInv, [StoreNext]_storeVars PROVE StoreInv'  OBVIOUS
<1>1. StoreTypeOK'  BY StoreTypeStep DEF StoreInv
<1>2. CASE UNCHANGED <<log, clock, job>>
  BY <1>1, <1>2 DEF StoreInv, Stamps, Holdings, Version, Newest, Busy
<1>3. ASSUME NEW w \in Workers, NEW policy, NEW asked, Begin(w, policy, asked)  PROVE StoreInv'
  BY <1>1, <1>3, BeginStep DEF StoreInv
<1>4. ASSUME NEW w \in Workers, NEW days, Fetched(w, days)  PROVE StoreInv'
  BY <1>1, <1>4, FetchedStep DEF StoreInv
<1>5. ASSUME NEW w \in Workers, Supersede(w) \/ Promote(w)  PROVE StoreInv'
  BY <1>1, <1>5, SupersedeStep, PromoteStep DEF StoreInv
<1>6. CASE PinAgain \/ Read \/ Report \/ Forget \/ UNCHANGED storeVars
  BY <1>2, <1>6 DEF PinAgain, Read, Report, Forget, storeVars
<1>7. ASSUME NEW kind, NEW k, PinVersions(kind, k)  PROVE StoreInv'
  BY <1>2, <1>7 DEF PinVersions
<1> QED  BY <1>3, <1>4, <1>5, <1>6, <1>7 DEF StoreNext

----------------------------------------------------------------------------
\* A day that a reader of the current state sees is still seen after a promotion: an
\* assertion it closes has its successor in the same commit.
LEMMA DayIsKept ==
    ASSUME StoreInv, NEW w \in Workers, Promote(w)
    PROVE  Held(Current(Version(Newest))) \subseteq Held(Current(Version(Newest)))'
<1> DEFINE V == Version(Newest)
           R == job[w].rows
           C == job[w].closes
<1>1. Version(Newest)' = V \cup C \cup R /\ Busy(w)  BY Promoted
<1>2. /\ \A r \in R : /\ r.id = <<job[w].now, r.day>> /\ r.from = job[w].now /\ r.to = Open
      /\ \A r, s \in R : r.id = s.id => r = s
      /\ \A c \in C : (\E r \in V : r.id = c.id /\ r.day = c.day) /\ c.day \in Held(R)
  BY DEF StoreInv, Holdings
<1>3. \A r \in V : r.id[1] # job[w].now /\ r.id[2] = r.day
  BY <1>1 DEF StoreInv, Stamps
<1>4. \A r \in V \cup C \cup R : r.from \in Nat
  <2>1. V \subseteq Rows /\ C \subseteq Rows /\ R \subseteq Rows
    BY VersionType DEF StoreInv, StoreTypeOK, Works
  <2> QED  BY <2>1 DEF Rows
<1>5. ASSUME NEW n \in R  PROVE n \in Current(V \cup C \cup R)
  <2>1. \A s \in V \cup C : s.id # n.id  BY <1>2, <1>3
  <2>2. \A s \in V \cup C \cup R : s.id = n.id => s = n  BY <1>2, <2>1
  <2>3. n.from <= n.from  BY <1>4
  <2> QED  BY <1>2, <2>2, <2>3 DEF Current, Latest
<1>6. ASSUME NEW r \in Current(V)  PROVE r.day \in Held(Current(V \cup C \cup R))
  <2>1. r \in V /\ r.to = Open /\ \A s \in V : s.id = r.id => s.from <= r.from
    BY DEF Current, Latest
  <2>2. CASE \E c \in C : c.id = r.id
    <3>1. PICK c \in C : c.id = r.id  BY <2>2
    <3>2. c.day = r.day  BY <1>2, <1>3, <2>1, <3>1
    <3>3. PICK n \in R : n.day = r.day  BY <1>2, <3>2 DEF Held
    <3> QED  BY <1>5, <3>3 DEF Held
  <2>3. CASE \A c \in C : c.id # r.id
    <3>1. \A s \in R : s.id # r.id  BY <1>2, <1>3, <2>1
    <3>2. r \in Current(V \cup C \cup R)  BY <2>1, <2>3, <3>1 DEF Current, Latest
    <3> QED  BY <3>2 DEF Held
  <2> QED  BY <2>2, <2>3
<1>7. Held(Current(Version(Newest)))' = Held(Current(V \cup C \cup R))
  <2> HIDE DEF V, C, R
  <2> QED  BY <1>1 DEF Held, Current, Latest
<1>8. Held(Current(V)) \subseteq Held(Current(V \cup C \cup R))  BY <1>6 DEF Held
<1> QED  BY <1>7, <1>8

\* What is known at k does not depend on rows that are stamped later.
LEMMA LaterRowsUnknown ==
    ASSUME NEW rows, NEW more, NEW k, \A r \in more : ~(r.from <= k)
    PROVE  KnownAt(rows \cup more, k) = KnownAt(rows, k)
<1>1. {s \in rows \cup more : s.from <= k} = {s \in rows : s.from <= k}  OBVIOUS
<1> QED  BY <1>1 DEF KnownAt

LEMMA KnownIsKept ==
    ASSUME StoreInv, NEW w \in Workers, Promote(w), NEW k \in 1..clock,
           \A v \in Workers : job[v].pc = "idle" \/ job[v].now > k
    PROVE  KnownAt(Version(Newest), k)' = KnownAt(Version(Newest), k)
<1>1. job[w].now > k /\ job[w].now \in Nat /\ k \in Int
  BY DEF Promote, StoreInv, StoreTypeOK, Works
<1>2. \A r \in job[w].closes \cup job[w].rows : r.from = job[w].now
  BY DEF StoreInv, Holdings
<1>3. \A r \in job[w].closes \cup job[w].rows : ~(r.from <= k)  BY <1>1, <1>2
<1>4. Version(Newest)' = Version(Newest) \cup (job[w].closes \cup job[w].rows)  BY Promoted
<1>5. KnownAt(Version(Newest), k)' =
        KnownAt(Version(Newest) \cup (job[w].closes \cup job[w].rows), k)
  BY <1>4 DEF KnownAt, Latest
<1>6. KnownAt(Version(Newest) \cup (job[w].closes \cup job[w].rows), k) = KnownAt(Version(Newest), k)
  BY <1>3, LaterRowsUnknown
<1> QED  BY <1>5, <1>6

----------------------------------------------------------------------------
\* What a reader pinned is still there, its answer is the one those versions give, and with
\* one manifest the receipt names them.
Readers == [pc : {"idle", "resolved", "pinned", "read", "answered"}, kind : Kinds, known : Nat,
            pin : Nat, answer : SUBSET Rows, receipt : Nat, settled : BOOLEAN]
ReaderInv ==
    /\ reader \in Readers /\ reader.pin <= Newest /\ reader.receipt <= Newest
    /\ reader.pc = "resolved" => reader.kind = "named"
    /\ reader.pc \in {"read", "answered"} => reader.answer = Answer(reader.pin, reader.known)
    /\ reader.kind = "project" => reader.receipt = reader.pin

\* What a reader of a past that is over pinned, and what its receipt names, is what the
\* newest version says of that past too.
Over(k) == k \in 1..clock /\ \A w \in Workers : job[w].pc = "idle" \/ job[w].now > k
SaysNow(n, k) == KnownAt(Version(n), k) = KnownAt(Version(Newest), k)
SettledInv ==
    reader.settled => /\ Over(reader.known) /\ SaysNow(reader.pin, reader.known)
                      /\ SaysNow(reader.receipt, reader.known)

LEMMA AnswerType ==
    ASSUME StoreTypeOK, NEW n \in 0..Newest, NEW k
    PROVE  Answer(n, k) \in SUBSET Rows
<1>1. Version(n) \subseteq Version(Newest)
  <2>1. 1..n \subseteq 1..Newest  BY DEF StoreTypeOK, Newest
  <2> QED  BY <2>1 DEF Version
<1>2. Answer(n, k) \subseteq Version(n)
  BY DEF Answer, Current, KnownAt, Latest
<1> QED  BY <1>1, <1>2, VersionType

LEMMA ReaderStep ==
    ASSUME StoreInv, ReaderInv, [StoreNext]_storeVars
    PROVE  ReaderInv'
<1>1. Newest \in Nat /\ reader \in Readers  BY DEF StoreInv, StoreTypeOK, Newest, ReaderInv
<1>2. CASE UNCHANGED <<log, reader>>
  BY <1>2 DEF ReaderInv, Answer, Version, Newest, Current, KnownAt, Latest
<1>3. ASSUME NEW w \in Workers, Promote(w)  PROVE ReaderInv'
  <2>1. reader' = reader /\ Newest' = Newest + 1 /\ reader.pin \in 0..Newest
    <3>1. Newest' = Newest + 1  BY <1>3, Promoted
    <3>2. reader' = reader  BY <1>3 DEF Promote
    <3>3. reader.pin \in 0..Newest  BY <1>1 DEF ReaderInv, Readers
    <3> QED  BY <3>1, <3>2, <3>3
  <2>2. Version(reader.pin)' = Version(reader.pin)  BY <1>3, <2>1, Promoted
  <2>3. Answer(reader.pin, reader.known)' = Answer(reader.pin, reader.known)
    BY <2>1, <2>2 DEF Answer, Current, KnownAt, Latest
  <2>4. reader.receipt \in Nat  BY <1>1 DEF Readers
  <2> QED  BY <1>1, <2>1, <2>3, <2>4 DEF ReaderInv
<1>4. ASSUME NEW kind \in Kinds, NEW k \in 0..MaxJobs, PinVersions(kind, k)
      PROVE  ReaderInv'
  <2>1. k \in Nat  BY StoreBounds
  <2>2. NoReader \in Readers  BY DEF NoReader, Readers, Kinds
  <2>3. Settled(k) \in BOOLEAN  BY DEF Settled
  <2>4. /\ reader' \in Readers /\ reader'.pc \in {"resolved", "pinned"} /\ reader'.pin = Newest
        /\ reader'.receipt = Newest /\ (reader'.pc = "resolved" => reader'.kind = "named")
    BY <1>1, <1>4, <2>1, <2>2, <2>3 DEF PinVersions, Readers
  <2>5. Newest' = Newest  BY <1>4 DEF PinVersions, Newest
  <2> QED  BY <1>1, <2>4, <2>5 DEF ReaderInv
<1>5. CASE PinAgain
  <2>1. /\ reader.pc = "resolved" /\ log' = log
        /\ reader' = [reader EXCEPT !.pc = "pinned", !.pin = Newest]
    BY <1>5 DEF PinAgain
  <2>2. /\ reader' \in Readers /\ reader'.pc = "pinned" /\ reader'.pin = Newest
        /\ reader'.receipt = reader.receipt /\ reader'.kind = reader.kind
    BY <1>1, <2>1 DEF Readers
  <2>3. reader.kind # "project"  BY <2>1 DEF ReaderInv
  <2>4. Newest' = Newest  BY <2>1 DEF Newest
  <2> QED  BY <1>1, <2>2, <2>3, <2>4 DEF ReaderInv
<1>6. CASE Read
  <2>1. /\ reader' = [reader EXCEPT !.pc = "read", !.answer = Answer(reader.pin, reader.known)]
        /\ log' = log
    BY <1>6 DEF Read
  <2>2. Answer(reader.pin, reader.known) \in SUBSET Rows
    BY <1>1, AnswerType DEF StoreInv, ReaderInv, Readers
  <2>3. /\ reader' \in Readers /\ reader'.pc = "read" /\ reader'.pin = reader.pin
        /\ reader'.answer = Answer(reader.pin, reader.known) /\ reader'.known = reader.known
        /\ reader'.receipt = reader.receipt /\ reader'.kind = reader.kind
    BY <1>1, <2>1, <2>2 DEF Readers
  <2>4. Newest' = Newest /\ Answer(reader.pin, reader.known)' = Answer(reader'.pin, reader'.known)
    BY <2>1 DEF Newest, Answer, Version, Current, KnownAt, Latest
  <2>5. Answer(reader.pin, reader.known)' = Answer(reader.pin, reader.known)
    BY <2>1, <2>3 DEF Answer, Version, Current, KnownAt, Latest
  <2> QED  BY <2>3, <2>4, <2>5 DEF ReaderInv
<1>7. CASE Report
  <2>1. /\ reader.pc = "read" /\ log' = log
        /\ reader' = [reader EXCEPT !.pc = "answered",
                         !.receipt = IF reader.kind = "compare" THEN Newest ELSE @]
    BY <1>7 DEF Report
  <2>2. /\ reader' \in Readers /\ reader'.pin = reader.pin /\ reader'.known = reader.known
        /\ reader'.answer = reader.answer /\ reader'.kind = reader.kind
        /\ reader'.pc = "answered"
        /\ (reader'.receipt = Newest \/ reader'.receipt = reader.receipt)
        /\ (reader.kind = "project" => reader'.receipt = reader.receipt)
    BY <1>1, <2>1 DEF Readers
  <2>3. Newest' = Newest  BY <2>1 DEF Newest
  <2>4. Answer(reader.pin, reader.known)' = Answer(reader.pin, reader.known)
    BY <2>1, <2>2 DEF Answer, Version, Current, KnownAt, Latest
  <2>5. Answer(reader'.pin, reader'.known) = Answer(reader.pin, reader.known)  BY <2>2
  <2>6. Answer(reader.pin, reader.known)' = Answer(reader'.pin, reader'.known)
    BY <2>4, <2>5
  <2> QED  BY <1>1, <2>1, <2>2, <2>3, <2>4, <2>6 DEF ReaderInv
<1>8. CASE Forget
  <2>1. reader' = NoReader /\ NoReader \in Readers /\ Newest' = Newest
    BY <1>8 DEF Forget, NoReader, Readers, Newest, Kinds
  <2> QED  BY <1>1, <2>1 DEF ReaderInv, NoReader
<1>9. ASSUME NEW w \in Workers, NEW policy, NEW asked, Begin(w, policy, asked)  PROVE ReaderInv'
  BY <1>2, <1>9 DEF Begin
<1>10. ASSUME NEW w \in Workers, NEW days, Fetched(w, days)  PROVE ReaderInv'
  BY <1>2, <1>10 DEF Fetched
<1>11. ASSUME NEW w \in Workers, Supersede(w)  PROVE ReaderInv'
  BY <1>2, <1>11 DEF Supersede
<1>12. CASE UNCHANGED storeVars  BY <1>2, <1>12 DEF storeVars
<1> QED  BY <1>3, <1>4, <1>5, <1>6, <1>7, <1>8, <1>9, <1>10, <1>11, <1>12 DEF StoreNext

\* A past that is over stays over, and every version that was one stays it.
LEMMA PastStaysOver ==
    ASSUME StoreInv, [StoreNext]_storeVars, NEW k, Over(k)
    PROVE  /\ Over(k)' /\ KnownAt(Version(Newest), k)' = KnownAt(Version(Newest), k)
           /\ \A n \in 0..Newest : KnownAt(Version(n), k)' = KnownAt(Version(n), k)
<1>1. k \in 1..clock /\ clock \in Nat  BY DEF Over, StoreInv, StoreTypeOK
<1>2. CASE UNCHANGED <<log, clock, job>>
  BY <1>2 DEF Over, KnownAt, Version, Newest, Latest
<1>3. ASSUME log' = log
      PROVE  /\ KnownAt(Version(Newest), k)' = KnownAt(Version(Newest), k)
             /\ \A n \in 0..Newest : KnownAt(Version(n), k)' = KnownAt(Version(n), k)
  BY <1>3 DEF KnownAt, Version, Newest, Latest
<1>4. ASSUME NEW w \in Workers, NEW policy, NEW asked, Begin(w, policy, asked)  PROVE Over(k)'
  <2>1. clock' = clock + 1 /\ job'[w].now = clock + 1 /\ \A v \in Workers \ {w} : job'[v] = job[v]
    BY <1>4 DEF Begin, StoreInv, StoreTypeOK, NoJob
  <2>2. \A v \in Workers \ {w} : job[v].pc = "idle" \/ job[v].now > k  BY DEF Over
  <2>3. clock + 1 > k /\ k \in 1..(clock + 1)  BY <1>1
  <2> QED  BY <2>1, <2>2, <2>3 DEF Over
<1>5. ASSUME NEW w \in Workers, NEW days, Fetched(w, days) \/ Supersede(w)  PROVE Over(k)'
  <2>1. clock' = clock /\ job[w].pc # "idle" /\ \A v \in Workers \ {w} : job'[v] = job[v]
    BY <1>5 DEF Fetched, Supersede, StoreInv, StoreTypeOK
  <2>2. job'[w].pc = "idle" \/ job'[w].now = job[w].now
    <3>1. CASE Fetched(w, days)
      <4>1. CASE days = {}
        BY <3>1, <4>1 DEF Fetched, StoreInv, StoreTypeOK, NoJob
      <4>2. CASE days # {}
        BY <3>1, <4>2 DEF Fetched, StoreInv, StoreTypeOK, Works
      <4> QED  BY <4>1, <4>2
    <3>2. CASE Supersede(w)  BY <3>2 DEF Supersede, StoreInv, StoreTypeOK, Works
    <3> QED  BY <1>5, <3>1, <3>2
  <2>3. \A v \in Workers : job[v].pc = "idle" \/ job[v].now > k  BY DEF Over
  <2> QED  BY <1>1, <2>1, <2>2, <2>3 DEF Over
<1>6. ASSUME NEW w \in Workers, Promote(w)
      PROVE  /\ Over(k)' /\ KnownAt(Version(Newest), k)' = KnownAt(Version(Newest), k)
             /\ \A n \in 0..Newest : KnownAt(Version(n), k)' = KnownAt(Version(n), k)
  <2>1. clock' = clock /\ job'[w].pc = "idle" /\ \A v \in Workers \ {w} : job'[v] = job[v]
    BY <1>6 DEF Promote, StoreInv, StoreTypeOK, NoJob
  <2>2. \A v \in Workers : job[v].pc = "idle" \/ job[v].now > k  BY DEF Over
  <2>3. Over(k)'  BY <1>1, <2>1, <2>2 DEF Over
  <2>4. KnownAt(Version(Newest), k)' = KnownAt(Version(Newest), k)
    BY <1>1, <1>6, <2>2, KnownIsKept
  <2>5. \A n \in 0..Newest : Version(n)' = Version(n)  BY <1>6, Promoted
  <2>6. \A n \in 0..Newest : KnownAt(Version(n), k)' = KnownAt(Version(n), k)
    BY <2>5 DEF KnownAt, Latest
  <2> QED  BY <2>3, <2>4, <2>6
<1>7. ASSUME NEW kind, NEW m, PinVersions(kind, m)  PROVE UNCHANGED <<log, clock, job>>
  BY <1>7 DEF PinVersions
<1>8. CASE PinAgain \/ Read \/ Report \/ Forget \/ UNCHANGED storeVars
  BY <1>2, <1>8 DEF PinAgain, Read, Report, Forget, storeVars
<1>9. ASSUME NEW w \in Workers, NEW policy, NEW asked, Begin(w, policy, asked)  PROVE log' = log
  BY <1>9 DEF Begin
<1>10. ASSUME NEW w \in Workers, NEW days, Fetched(w, days) \/ Supersede(w)  PROVE log' = log
  BY <1>10 DEF Fetched, Supersede
<1> QED  BY <1>2, <1>3, <1>4, <1>5, <1>6, <1>7, <1>8, <1>9, <1>10 DEF StoreNext

LEMMA SettledStep ==
    ASSUME StoreInv, ReaderInv, SettledInv, [StoreNext]_storeVars
    PROVE  SettledInv'
<1>1. Newest \in Nat /\ reader \in Readers  BY DEF StoreInv, StoreTypeOK, Newest, ReaderInv
<1>2. CASE reader' = reader
  <2> SUFFICES ASSUME reader.settled
               PROVE  /\ Over(reader.known)' /\ SaysNow(reader.pin, reader.known)'
                      /\ SaysNow(reader.receipt, reader.known)'
    BY <1>2 DEF SettledInv
  <2>1. PICK k : k = reader.known  OBVIOUS
  <2>2. PICK n : n = reader.pin  OBVIOUS
  <2>3. PICK m : m = reader.receipt  OBVIOUS
  <2>4. n \in 0..Newest /\ m \in 0..Newest  BY <1>1, <2>2, <2>3 DEF ReaderInv, Readers
  <2>5. Over(k) /\ SaysNow(n, k) /\ SaysNow(m, k)  BY <2>1, <2>2, <2>3 DEF SettledInv
  <2>6. /\ Over(k)' /\ KnownAt(Version(Newest), k)' = KnownAt(Version(Newest), k)
        /\ KnownAt(Version(n), k)' = KnownAt(Version(n), k)
        /\ KnownAt(Version(m), k)' = KnownAt(Version(m), k)
    BY <2>4, <2>5, PastStaysOver
  <2>7. Over(k)' /\ SaysNow(n, k)' /\ SaysNow(m, k)'  BY <2>5, <2>6 DEF SaysNow
  <2>8. k = reader'.known /\ n = reader'.pin /\ m = reader'.receipt
    BY <1>2, <2>1, <2>2, <2>3
  <2> QED  BY <2>7, <2>8 DEF Over, SaysNow, Version, Newest
<1>3. ASSUME NEW kind \in Kinds, NEW m \in 0..MaxJobs, PinVersions(kind, m)  PROVE SettledInv'
  <2>1. /\ reader'.settled = Settled(m) /\ reader'.known = m /\ reader'.pin = Newest
        /\ reader'.receipt = Newest /\ m \in 0..clock /\ UNCHANGED <<log, clock, job>>
    BY <1>3 DEF PinVersions, NoReader
  <2>2. Settled(m) => Over(m)  BY <2>1 DEF Settled, Over, StoreInv, StoreTypeOK
  <2>3. Over(reader'.known) => Over(reader.known)'  BY <2>1 DEF Over
  <2>4. Newest' = Newest  BY <2>1 DEF Newest
  <2> QED  BY <2>1, <2>2, <2>3, <2>4 DEF SettledInv, SaysNow
<1>4. ASSUME PinAgain \/ Read \/ Report  PROVE SettledInv'
  <2>1. /\ UNCHANGED <<log, clock, job>> /\ reader'.known = reader.known
        /\ reader'.settled = reader.settled
        /\ reader'.pin \in {reader.pin, Newest} /\ reader'.receipt \in {reader.receipt, Newest}
    BY <1>1, <1>4 DEF PinAgain, Read, Report, Readers
  <2>2. SaysNow(Newest, reader.known)  BY DEF SaysNow
  <2>3. reader.settled => /\ Over(reader.known) /\ SaysNow(reader'.pin, reader.known)
                          /\ SaysNow(reader'.receipt, reader.known)
    BY <2>1, <2>2 DEF SettledInv
  <2>4. Over(reader.known) => Over(reader.known)'  BY <2>1 DEF Over
  <2>5. SaysNow(reader'.pin, reader.known) => SaysNow(reader.pin, reader.known)'
    BY <2>1 DEF SaysNow, KnownAt, Version, Newest, Latest
  <2>6. SaysNow(reader'.receipt, reader.known) => SaysNow(reader.receipt, reader.known)'
    BY <2>1 DEF SaysNow, KnownAt, Version, Newest, Latest
  <2> QED  BY <2>1, <2>3, <2>4, <2>5, <2>6 DEF SettledInv
<1>5. CASE Forget  BY <1>5 DEF Forget, NoReader, SettledInv
<1>6. ASSUME NEW w \in Workers, NEW policy, NEW asked, Begin(w, policy, asked)  PROVE reader' = reader
  BY <1>6 DEF Begin
<1>7. ASSUME NEW w \in Workers, NEW days, Fetched(w, days) \/ Supersede(w) \/ Promote(w)
      PROVE  reader' = reader
  BY <1>7 DEF Fetched, Supersede, Promote
<1>8. CASE UNCHANGED storeVars  BY <1>2, <1>8 DEF storeVars
<1> QED  BY <1>2, <1>3, <1>4, <1>5, <1>6, <1>7, <1>8 DEF StoreNext

----------------------------------------------------------------------------
LEMMA StoreHolds == StoreSpec => []StoreInv
BY StoreInitInv, StoreStep, PTL DEF StoreSpec

\* What was known at an instant is the same for ever once no job with an earlier stamp is
\* under way (views.py 14-33; the property KnownAtIsStable).
THEOREM KnownStays == StoreSpec => KnownAtIsStable
<1> DEFINE Stable == \A k \in 1..clock :
                        (\A w \in Workers : job[w].pc = "idle" \/ job[w].now > k)
                           => KnownAt(Version(Newest), k)' = KnownAt(Version(Newest), k)
<1>1. ASSUME StoreInv, [StoreNext]_storeVars  PROVE Stable
  <2>1. CASE log' = log
    BY <2>1 DEF KnownAt, Version, Newest, Latest
  <2>2. ASSUME NEW w \in Workers, Promote(w)  PROVE Stable
    BY <1>1, <2>2, KnownIsKept
  <2> QED  BY <1>1, <2>1, <2>2, LogAlone
<1>2. StoreInv /\ [StoreNext]_storeVars => [Stable]_storeVars  BY <1>1
<1>3. StoreSpec => [][Stable]_storeVars  BY <1>2, StoreHolds, PTL DEF StoreSpec
<1> QED  BY <1>3 DEF KnownAtIsStable

\* No reader of the current state ever misses a day that had a price (worker.py 237-242; the
\* property NoDayIsLost).
THEOREM DaysAreKept == StoreSpec => NoDayIsLost
<1> DEFINE NoneLost == Held(Current(Version(Newest))) \subseteq Held(Current(Version(Newest)))'
<1>1. ASSUME StoreInv, [StoreNext]_storeVars  PROVE NoneLost
  <2>1. CASE log' = log
    BY <2>1 DEF Held, Current, Version, Newest, Latest
  <2>2. ASSUME NEW w \in Workers, Promote(w)  PROVE NoneLost
    BY <1>1, <2>2, DayIsKept
  <2> QED  BY <1>1, <2>1, <2>2, LogAlone
<1>2. StoreInv /\ [StoreNext]_storeVars => [NoneLost]_storeVars  BY <1>1
<1>3. StoreSpec => [][NoneLost]_storeVars  BY <1>2, StoreHolds, PTL DEF StoreSpec
<1> QED  BY <1>3 DEF NoDayIsLost

\* The versions a receipt names give the answer it came with (the property
\* ReceiptReproduces): of a request with one manifest, because it names what was read
\* (odp.py 240-249), and of one that resolves two (odp.py 248, compare.py 108, main.py 366),
\* about a past whose jobs are over, because every version from then on says the same of it.
THEOREM ReceiptsReproduce == StoreSpec => []ReceiptReproduces
<1>1. StoreInit => ReaderInv /\ SettledInv
  <2>1. NoReader \in Readers  BY DEF NoReader, Readers, Kinds
  <2>2. StoreInit => reader = NoReader /\ Newest = 0  BY DEF StoreInit, Newest
  <2>3. /\ NoReader.pin = 0 /\ NoReader.receipt = 0 /\ NoReader.pc = "idle" /\ ~NoReader.settled
    BY DEF NoReader
  <2>4. StoreInit => ReaderInv  BY <2>1, <2>2, <2>3 DEF ReaderInv
  <2>5. StoreInit => SettledInv  BY <2>2, <2>3 DEF SettledInv
  <2> QED  BY <2>4, <2>5
<1>2. StoreInv /\ ReaderInv /\ SettledInv /\ [StoreNext]_storeVars => (ReaderInv /\ SettledInv)'
  BY ReaderStep, SettledStep
<1>3. StoreInv /\ ReaderInv /\ SettledInv => ReceiptReproduces
  <2> SUFFICES ASSUME StoreInv, ReaderInv, SettledInv, reader.pc = "answered",
                      reader.kind = "project" \/ reader.settled
               PROVE  Answer(reader.receipt, reader.known) = reader.answer
    BY DEF ReceiptReproduces
  <2>1. reader.answer = Answer(reader.pin, reader.known)  BY DEF ReaderInv
  <2>2. CASE reader.kind = "project"  BY <2>1, <2>2 DEF ReaderInv
  <2>3. CASE reader.settled
    <3>1. /\ Over(reader.known) /\ SaysNow(reader.pin, reader.known)
          /\ SaysNow(reader.receipt, reader.known)
      BY <2>3 DEF SettledInv
    <3>2. reader.known # 0  BY <3>1 DEF Over, StoreInv, StoreTypeOK
    <3> QED  BY <2>1, <3>1, <3>2 DEF SaysNow, Answer
  <2> QED  BY <2>2, <2>3
<1> QED  BY <1>1, <1>2, <1>3, StoreHolds, PTL DEF StoreSpec

----------------------------------------------------------------------------
\* Rows of one identifier, with any moments; the model's Aliases are some of them.
AliasRows == [security : Securities, from : Int \cup {NoTime}, to : Int \cup {NoTime}]

LEMMA FoundCandidates == \A C : Found(C).code = "ok" /\ Found(C).candidates = C
  BY DEF Found

\* The candidates are the live rows, or closed ones when there is none; never nobody.
LEMMA FoundByIdentifier ==
    ASSUME NEW known, NEW at, ByIdentifier(known, at, TRUE).code = "ok"
    PROVE  \E from \in SUBSET known, reason \in {"active", "historical_alias"} :
               /\ from # {}
               /\ ByIdentifier(known, at, TRUE).candidates = As(from, reason)
               /\ (\E r \in known : Effective(r, at)) => \A r \in from : Effective(r, at)
<1> DEFINE live == {r \in known : Effective(r, at)}
           closed == {r \in known : r.to # NoTime}
<1>1. CASE live # {}
  <2>1. ByIdentifier(known, at, TRUE) = Found(As(live, "active"))  BY <1>1 DEF ByIdentifier
  <2>2. live \in SUBSET known /\ \A r \in live : Effective(r, at)  OBVIOUS
  <2> HIDE DEF live
  <2>3. ByIdentifier(known, at, TRUE).candidates = As(live, "active")  BY <2>1, FoundCandidates
  <2> QED  BY <1>1, <2>2, <2>3
<1>2. CASE live = {}
  <2>1. known # {} /\ closed # {}  BY <1>2 DEF ByIdentifier, Refusal
  <2>2. ByIdentifier(known, at, TRUE) = Found(As(closed, "historical_alias"))
    BY <1>2, <2>1 DEF ByIdentifier
  <2>3. closed \in SUBSET known /\ ~ \E r \in known : Effective(r, at)  BY <1>2
  <2> HIDE DEF closed
  <2>4. ByIdentifier(known, at, TRUE).candidates = As(closed, "historical_alias")
    BY <2>2, FoundCandidates
  <2> QED  BY <2>1, <2>3, <2>4
<1> QED  BY <1>1, <1>2

\* Of any identifiers, known then or today, an answer that is no refusal names one security,
\* and a live one if there is one (identity.py 53-62, 79-97, odp.py 189; the property
\* OneCandidateIsBound, which the run `parts` checks as BindsAreSafe).
THEOREM OneSecurityIsBound ==
    ASSUME NEW held \in SUBSET AliasRows, IsFiniteSet(held), NEW known \in SUBSET held,
           NEW at, NEW cutoff \in BOOLEAN
    PROVE  OneCandidateIsBound(known, held, at, cutoff)
<1> DEFINE by == ByIdentifier(known, at, TRUE)
           out == Binds(known, held, at, cutoff)
           first == Resolve(by, at)
           today == Resolve(ByIdentifier(held, NoTime, TRUE), NoTime)
           Named(x) == {c.security : c \in x.candidates}
<1>1. ASSUME out.code = "ok"
      PROVE  /\ Cardinality(Named(out)) = 1
             /\ (\E r \in known : Effective(r, at)) =>
                   \A c \in out.candidates :
                      \E r \in known : Effective(r, at) /\ r.security = c.security
  <2>1. /\ first.code = "ok" /\ ~(Cardinality(Named(first)) > 1)
        /\ out = Found(first.candidates)
    BY <1>1 DEF Binds, Refusal, RefusedAtCutoff
  <2>2. first = by /\ by.code = "ok"  BY <2>1 DEF Resolve, Refusal
  <2>3. PICK from \in SUBSET known, reason \in {"active", "historical_alias"} :
           /\ from # {} /\ by.candidates = As(from, reason)
           /\ (\E r \in known : Effective(r, at)) => \A r \in from : Effective(r, at)
    BY <2>2, FoundByIdentifier
  <2>4. out.candidates = As(from, reason) /\ first.candidates = As(from, reason)
    <3>1. out.candidates = first.candidates  BY <2>1 DEF Found
    <3> HIDE DEF out, first, by
    <3> QED  BY <2>2, <2>3, <3>1
  <2> HIDE DEF out, first, by
  <2> DEFINE names == {r.security : r \in from}
  <2>5. Named(out) = names /\ Named(first) = names
    <3>1. ASSUME NEW x  PROVE x \in {c.security : c \in As(from, reason)} <=> x \in names
      <4>1. \A c : c \in As(from, reason) <=>
                     \E r \in from : c = [security |-> r.security, reason |-> reason]
        BY DEF As
      <4>2. \A r : [security |-> r.security, reason |-> reason].security = r.security
        OBVIOUS
      <4> HIDE DEF names
      <4>3. x \in names <=> \E r \in from : x = r.security  BY DEF names
      <4>4. x \in {c.security : c \in As(from, reason)} <=> \E c \in As(from, reason) : x = c.security
        OBVIOUS
      <4>5. ASSUME NEW c \in As(from, reason), x = c.security  PROVE \E r \in from : x = r.security
        BY <4>1, <4>2, <4>5
      <4>6. ASSUME NEW r \in from, x = r.security  PROVE \E c \in As(from, reason) : x = c.security
        <5>1. [security |-> r.security, reason |-> reason] \in As(from, reason)  BY <4>1
        <5> QED  BY <4>2, <4>6, <5>1
      <4> QED  BY <4>3, <4>4, <4>5, <4>6
    <3> QED  BY <2>4, <3>1
  <2>6. IsFiniteSet(names)
    <3>1. IsFiniteSet(from)  BY <2>3, FS_Subset
    <3>2. [r \in from |-> r.security] \in Surjection(from, names)  BY DEF Surjection
    <3> HIDE DEF names
    <3> QED  BY <3>1, <3>2, FS_Surjection
  <2>7. names # {}  BY <2>3
  <2>8. Cardinality(Named(out)) = 1
    <3> HIDE DEF names, Named
    <3>1. Cardinality(names) \in Nat /\ Cardinality(names) # 0
      BY <2>6, <2>7, FS_CardinalityType, FS_EmptySet
    <3> QED  BY <2>1, <2>5, <3>1
  <2>9. \A c \in out.candidates : \E r \in from : c.security = r.security  BY <2>4 DEF As
  <2> QED  BY <2>3, <2>8, <2>9
<1>2. ASSUME NEW stable \in ByStableId(known, at, TRUE), known # {}
      PROVE  \E c \in stable.candidates :
                (c.reason = "active") <=> (\E r \in known : Effective(r, at))
  <2>1. PICK row \in Picks(known, at) :
           stable = Found(As({row}, IF Effective(row, at) THEN "active" ELSE "historical_alias"))
    BY <1>2 DEF ByStableId
  <2>2. row \in known /\ ((\E r \in known : Effective(r, at)) => Effective(row, at))
    BY <2>1 DEF Picks
  <2> DEFINE c == [security |-> row.security,
                   reason |-> IF Effective(row, at) THEN "active" ELSE "historical_alias"]
  <2>3. c \in stable.candidates  BY <2>1 DEF Found, As
  <2>4. (c.reason = "active") <=> Effective(row, at)  OBVIOUS
  <2> QED  BY <2>2, <2>3, <2>4
<1>3. ASSUME cutoff, out.code = "IDENTITY_UNRESOLVED"  PROVE today.code # "ok"
  BY <1>3 DEF Binds, Refusal, Found, RefusedAtCutoff
<1> HIDE DEF by, first
<1> QED  BY <1>1, <1>2, <1>3 DEF OneCandidateIsBound
=============================================================================
