-------------------------- MODULE KdbSessionProofs --------------------------
(***************************************************************************)
(* For any threads, deaths, closes and failed starts, the five invariants  *)
(* of KdbSession.  They hang together: which q a task may still reach      *)
(* depends on whose child listens on the port, and that on the handle.     *)
(***************************************************************************)
EXTENDS KdbSession, TLAPS

Chain == {"spawn", "attempt", "stop"}
Beyond == {"loopback", "host", "fail"}

\* The handle is the only child's, and a q on the port that has the handle's number runs.
Handle ==
    /\ OneSupervisedChild /\ proc <= born
    /\ port # 0 /\ port = proc => port \in children

\* A session that may not start q has no child; one that tries the other links has none left.
NoChildLeft ==
    /\ ~MaySpawn => children = {} /\ work.step \notin Chain
    /\ work.step \in Beyond => children = {}

\* _schema_conn is a q with the tables, and the one a query goes to.
SchemaMade ==
    /\ schemaConn # 0 => schemaConn \in schema
    /\ At("query") => conn = 0 \/ conn = schemaConn

\* The latch is closed no longer than an interval after the last failure.
Latched == retryAfter <= lastFail + RetryAfter

\* A close that runs on its own thread finds the worker at rest for good.
Quiet ==
    /\ closing \in {"open", "submit", "queued"} => ~closed
    /\ closing \in {"wait", "done", "inline"} => retired
    /\ closing \in {"done", "inline"} => queue = << >> /\ At("idle")

Reach == port # 0 \/ (HasHost /\ remote # 0)

\* What a task that is owed an answer still has in front of it.
Promise ==
    work.owed =>
        /\ work.step \in {"latch", "spawn", "attempt", "stop", "loopback", "host", "schema", "query"}
        /\ work.step = "latch" => now >= lastFail + RetryAfter
        /\ work.step \in {"latch", "spawn", "attempt", "loopback"} => Reach
        /\ work.step = "stop" => (port # 0 /\ port # proc) \/ (HasHost /\ remote # 0)
        /\ work.step = "host" => remote # 0
        /\ work.step \in {"schema", "query"} => Alive(conn)

\* A call that has not been taken is not owed anything yet.
Served ==
    /\ ReachableMeansServed
    /\ \A t \in Threads : call[t].pc = "submit" => ~call[t].owed

SessionInv ==
    TypeOK /\ Handle /\ NoChildLeft /\ SchemaMade /\ Latched /\ Quiet /\ Promise /\ Served
----------------------------------------------------------------------------
\* TypeOK in four parts; most steps change one or two of them.
SessionType ==
    /\ conn \in Ids /\ proc \in Ids /\ schemaConn \in Ids
    /\ endpoint \in {"none", "spawned", "loopback", "host"}
    /\ retryAfter \in 0..(MaxTime + RetryAfter) /\ lastFail \in -RetryAfter..MaxTime
    /\ now \in 0..MaxTime
PoolType ==
    /\ owner \in BOOLEAN /\ closed \in BOOLEAN /\ retired \in BOOLEAN
    /\ queue \in Seq(Threads \cup {Closer})
    /\ closing \in {"open", "submit", "queued", "inline", "mark", "retire", "wait", "done"}
Tasks == [step : Steps, by : Threads \cup {Closer}, owed : BOOLEAN]
Records == [pc : {"idle", "submit", "queued", "back"},
            res : {"none", "ok", "unavailable", "error"}, owed : BOOLEAN]
TaskType == work \in Tasks /\ call \in [Threads -> Records]
QType ==
    /\ born \in Ids /\ children \subseteq 1..born /\ schema \subseteq 1..born
    /\ port \in 0..born /\ remote \in 0..born

LEMMA TypeParts == TypeOK <=> SessionType /\ PoolType /\ TaskType /\ QType
BY DEF TypeOK, SessionType, PoolType, TaskType, QType, Tasks, Records

LEMMA TypeInit == Init => TypeOK
<1> SUFFICES ASSUME Init PROVE TypeOK  OBVIOUS
<1>1. SessionType
  <2>1. 0 \in Ids /\ 0 \in 0..(MaxTime + RetryAfter) /\ 0 \in 0..MaxTime
        /\ -RetryAfter \in -RetryAfter..MaxTime
    BY SessionBounds DEF Ids
  <2>2. /\ conn = 0 /\ proc = 0 /\ schemaConn = 0 /\ endpoint = "none" /\ retryAfter = 0
        /\ lastFail = -RetryAfter /\ now = 0
    BY DEF Init
  <2> QED  BY <2>1, <2>2 DEF SessionType
<1>2. PoolType
  <2>1. owner = FALSE /\ closed = FALSE /\ retired = FALSE /\ queue = << >> /\ closing = "open"
    BY DEF Init
  <2>2. << >> \in Seq(Threads \cup {Closer})  OBVIOUS
  <2> QED  BY <2>1, <2>2 DEF PoolType
<1>3. TaskType
  <2>1. [pc |-> "idle", res |-> "none", owed |-> FALSE] \in Records  BY DEF Records
  <2>2. Resting \in Tasks  BY DEF Resting, Tasks, Steps
  <2> QED  BY <2>1, <2>2 DEF Init, TaskType
<1>4. QType  BY SessionBounds DEF Init, QType, Ids
<1> QED  BY <1>1, <1>2, <1>3, <1>4, TypeParts

\* An answer ends the task; everything else a task does is its next step.
LEMMA ReturnType ==
    ASSUME TaskType, NEW res \in {"ok", "unavailable", "error"}, Return(res)
    PROVE  TaskType'
<1>1. Resting \in Tasks  BY DEF Resting, Tasks, Steps
<1>2. [pc |-> "back", res |-> res, owed |-> work.owed] \in Records
  BY DEF TaskType, Tasks, Records
<1> QED  BY <1>1, <1>2 DEF TaskType, Return

LEMMA GoType ==
    ASSUME TaskType, NEW step \in Steps, Go(step), UNCHANGED call
    PROVE  TaskType'
BY DEF TaskType, Tasks, Go

LEMMA StopType == ASSUME SessionType, QType, StopProc, UNCHANGED <<born, remote, schema>>
                  PROVE  proc' \in Ids /\ QType'
<1>1. proc' \in Ids  BY SessionBounds DEF StopProc, Ids
<1>2. QType'
  <2>1. children' \subseteq children /\ port' \in {0, port} /\ 0 \in 0..born
    BY SessionBounds DEF StopProc, QType, Ids
  <2> QED  BY <2>1 DEF QType
<1> QED  BY <1>1, <1>2

LEMMA TypeStep == ASSUME TypeOK, [Next]_vars PROVE TypeOK'
<1> SessionType /\ PoolType /\ TaskType /\ QType  BY TypeParts
<1> SUFFICES SessionType' /\ PoolType' /\ TaskType' /\ QType'
  <2>1. TypeOK' <=> (SessionType /\ PoolType /\ TaskType /\ QType)'
    BY DEF TypeOK, SessionType, PoolType, TaskType, QType, Tasks, Records
  <2> QED  BY <2>1
<1> DEFINE SameSession == UNCHANGED <<conn, proc, endpoint, retryAfter, schemaConn, lastFail, now>>
           SamePool == UNCHANGED pool
           SameTask == UNCHANGED <<work, call>>
           AllQs   == UNCHANGED qs
<1>a. SameSession => SessionType'  BY DEF SessionType
<1>b. SamePool => PoolType'  BY DEF PoolType, pool
<1>c. SameTask => TaskType'  BY DEF TaskType
<1>d. AllQs => QType'  BY DEF QType, qs
<1>1. ASSUME NEW t \in Threads, Call(t)
      PROVE  SessionType' /\ PoolType' /\ TaskType' /\ QType'
  <2>1. SameSession /\ SamePool /\ AllQs /\ work' = work  BY <1>1 DEF Call, session
  <2> DEFINE c == [pc |-> IF closed THEN "back" ELSE "submit",
                   res |-> IF closed THEN "unavailable" ELSE "none", owed |-> FALSE]
  <2>2. c \in Records  BY DEF Records
  <2>3. TaskType'
    <3>1. call' = [call EXCEPT ![t] = c]  BY <1>1 DEF Call
    <3> HIDE DEF c
    <3> QED  BY <2>1, <2>2, <3>1 DEF TaskType
  <2> QED  BY <1>a, <1>b, <1>d, <2>1, <2>3
<1>2. ASSUME NEW t \in Threads, Submit(t)
      PROVE  SessionType' /\ PoolType' /\ TaskType' /\ QType'
  <2>1. SameSession /\ AllQs /\ work' = work /\ UNCHANGED <<owner, closed, retired, closing>>
    BY <1>2 DEF Submit, session
  <2>2. queue' \in Seq(Threads \cup {Closer})  BY <1>2 DEF Submit, PoolType
  <2>3. PoolType'  BY <2>1, <2>2 DEF PoolType
  <2>4. TaskType'  BY <1>2, <2>1 DEF Submit, TaskType, Records
  <2> QED  BY <1>a, <1>d, <2>1, <2>3, <2>4
<1>3. CASE Take
  <2>1. SameSession /\ AllQs /\ call' = call /\ UNCHANGED <<closed, retired, closing>>
    BY <1>3 DEF Take, session
  <2>2. /\ queue' \in Seq(Threads \cup {Closer}) /\ owner' \in BOOLEAN
        /\ Head(queue) \in Threads \cup {Closer}
    BY <1>3 DEF Take, PoolType
  <2>3. PoolType'  BY <2>1, <2>2 DEF PoolType
  <2>4. TaskType'  BY <1>3, <2>1, <2>2 DEF Take, TaskType, Tasks, Steps
  <2> QED  BY <1>a, <1>d, <2>1, <2>3, <2>4
<1>4. CASE Nested
  <2>1. SameSession /\ SamePool /\ AllQs /\ call' = call  BY <1>4 DEF Nested, session
  <2>2. TaskType'  BY <1>4, <2>1 DEF Nested, TaskType, Tasks, Steps
  <2> QED  BY <1>a, <1>b, <1>d, <2>1, <2>2
<1>5. CASE Check
  <2>1. SamePool /\ AllQs /\ UNCHANGED <<proc, retryAfter, schemaConn, now, lastFail>>
    BY <1>5 DEF Check
  <2>2. SessionType'
    BY <1>5, <2>1, SessionBounds DEF Check, SessionType, Ids
  <2>3. CASE Return("unavailable")  BY <1>b, <1>d, <2>1, <2>2, <2>3, ReturnType
  <2>4. CASE Go("schema") /\ UNCHANGED call
    BY <1>b, <1>d, <2>1, <2>2, <2>4, GoType DEF Steps
  <2>5. CASE Go(IF MaySpawn THEN "spawn" ELSE "loopback") /\ UNCHANGED call
    BY <1>b, <1>d, <2>1, <2>2, <2>5, GoType DEF Steps
  <2> QED  BY <1>5, <2>3, <2>4, <2>5 DEF Check
<1>6. CASE Spawn
  <2>1. SamePool /\ UNCHANGED <<conn, endpoint, retryAfter, schemaConn, now, lastFail>>
    BY <1>6 DEF Spawn
  <2>2. TaskType'  BY <1>6, GoType DEF Spawn, Steps
  <2>3. CASE UNCHANGED <<born, proc, children>>
    BY <1>6, <1>a, <1>b, <1>d, <2>1, <2>2, <2>3 DEF Spawn, qs
  <2>4. CASE /\ born < MaxQ /\ born' = born + 1 /\ proc' = born' /\ children' = children \cup {proc'}
    <3>1. born' \in Ids /\ proc' \in Ids  BY <2>4, SessionBounds DEF QType, Ids
    <3>2. SessionType'  BY <2>1, <3>1 DEF SessionType
    <3>3. QType'  BY <1>6, <2>4, <3>1 DEF Spawn, QType, Ids
    <3> QED  BY <1>b, <2>1, <2>2, <3>2, <3>3
  <2> QED  BY <1>6, <2>3, <2>4 DEF Spawn
<1>7. CASE SpawnFails \/ GiveUp \/ Refused
  <2>1. SameSession /\ SamePool /\ AllQs /\ UNCHANGED call
    BY <1>7 DEF SpawnFails, GiveUp, Refused, session
  <2>2. PICK step \in Steps : Go(step)
    BY <1>7 DEF SpawnFails, GiveUp, Refused, Steps
  <2> QED  BY <1>a, <1>b, <1>d, <2>1, <2>2, GoType
<1>8. ASSUME NEW i \in 0..born, NEW name \in {"spawned", "loopback", "host"}, Connected(i, name)
      PROVE  SessionType' /\ PoolType' /\ TaskType' /\ QType'
  <2>1. SamePool /\ AllQs /\ UNCHANGED <<proc, schemaConn, call, now, lastFail>> /\ Go("schema")
    BY <1>8 DEF Connected
  <2>2. SessionType'
    BY <1>8, <2>1, SessionBounds DEF Connected, SessionType, QType, Ids
  <2> QED  BY <1>b, <1>d, <2>1, <2>2, GoType DEF Steps
<1>9. CASE ConnectChild \/ ConnectLoopback \/ ConnectHost
  BY <1>8, <1>9 DEF ConnectChild, ConnectLoopback, ConnectHost, QType
<1>10. CASE StopChild
  <2>1. /\ SamePool /\ Go("loopback") /\ StopProc /\ UNCHANGED <<born, remote, schema>>
        /\ UNCHANGED <<conn, endpoint, retryAfter, schemaConn, call, now, lastFail>>
    BY <1>10 DEF StopChild
  <2>2. SessionType' /\ QType'  BY <2>1, StopType DEF SessionType
  <2> QED  BY <1>b, <2>1, <2>2, GoType DEF Steps
<1>11. CASE Fail
  <2>1. /\ SamePool /\ AllQs /\ Return("unavailable")
        /\ retryAfter' = now + RetryAfter /\ lastFail' = now
        /\ UNCHANGED <<conn, proc, endpoint, schemaConn, now>>
    BY <1>11 DEF Fail
  <2>2. SessionType'  BY <2>1, SessionBounds DEF SessionType
  <2> QED  BY <1>b, <1>d, <2>1, <2>2, ReturnType
<1>12. CASE Schema
  <2>1. SamePool /\ UNCHANGED <<conn, proc, endpoint, retryAfter, now, lastFail>>
        /\ UNCHANGED <<born, children, port, remote>>
    BY <1>12 DEF Schema
  <2>2. TaskType'
    <3>1. CASE Go("query") /\ UNCHANGED call  BY <3>1, GoType DEF Steps
    <3>2. CASE Return("error")  BY <3>2, ReturnType
    <3> QED  BY <1>12, <3>1, <3>2 DEF Schema
  <2>3. CASE UNCHANGED <<schema, schemaConn>>
    BY <1>a, <1>b, <1>d, <2>1, <2>2, <2>3 DEF qs
  <2>4. CASE Alive(conn) /\ schema' = schema \cup {conn} /\ schemaConn' = conn
    <3>1. conn \in 1..born  BY <2>4, SessionBounds DEF Alive, QType, SessionType, Ids
    <3>2. SessionType' /\ QType'
      BY <2>1, <2>4, <3>1 DEF SessionType, QType
    <3> QED  BY <1>b, <2>1, <2>2, <3>2
  <2> QED  BY <1>12, <2>3, <2>4 DEF Schema
<1>13. CASE Query
  <2>1. SameSession /\ SamePool /\ AllQs  BY <1>13 DEF Query, session
  <2>2. PICK res \in {"ok", "error"} : Return(res)  BY <1>13 DEF Query
  <2> QED  BY <1>a, <1>b, <1>d, <2>1, <2>2, ReturnType
<1>14. CASE Shutdown \/ CloseInline
  <2>1. /\ StopProc /\ conn' = 0 /\ closing' = "mark" /\ (work' = Resting \/ work' = work)
        /\ UNCHANGED <<endpoint, retryAfter, schemaConn, now, lastFail>>
        /\ UNCHANGED <<owner, closed, retired, queue, call, born, remote, schema>>
    BY <1>14 DEF Shutdown, CloseInline
  <2>2. SessionType' /\ QType'
    BY <2>1, StopType, SessionBounds DEF SessionType, Ids
  <2>3. PoolType'  BY <2>1 DEF PoolType
  <2>4. Resting \in Tasks  BY DEF Resting, Tasks, Steps
  <2>5. TaskType'  BY <2>1, <2>4 DEF TaskType
  <2> QED  BY <2>2, <2>3, <2>5
<1>15. CASE CloseCall \/ CloseSubmit \/ CloseMark \/ CloseRetire \/ CloseDone
  <2>1. SameSession /\ SameTask /\ AllQs
    BY <1>15 DEF CloseCall, CloseSubmit, CloseMark, CloseRetire, CloseDone, session
  <2>2. PoolType'
    <3>1. queue' \in Seq(Threads \cup {Closer})
      BY <1>15 DEF CloseCall, CloseSubmit, CloseMark, CloseRetire, CloseDone, PoolType
    <3> QED  BY <1>15, <3>1 DEF CloseCall, CloseSubmit, CloseMark, CloseRetire, CloseDone, PoolType
  <2> QED  BY <1>a, <1>c, <1>d, <2>1, <2>2
<1>16. CASE Processes
  <2>1. SameSession /\ SamePool /\ call' = call /\ schema' = schema
    BY <1>16 DEF Processes, ChildListens, ChildDies, SiblingStarts, SiblingStops, RemoteStarts,
                 RemoteStops, Outside, session
  <2>2. TaskType'
    BY <1>16, <2>1 DEF Processes, ChildListens, ChildDies, SiblingStarts, SiblingStops,
                       RemoteStarts, RemoteStops, Shaken, TaskType, Tasks
  <2>3. QType'
    <3>1. born \in Nat /\ MaxQ \in Nat  BY SessionBounds DEF QType, Ids
    <3>2. CASE ChildListens  BY <2>1, <3>1, <3>2 DEF ChildListens, QType
    <3>3. CASE ChildDies  BY <2>1, <3>1, <3>3 DEF ChildDies, QType
    <3>4. CASE SiblingStarts \/ RemoteStarts
      <4>1. born' \in Ids /\ 1..born \subseteq 1..born' /\ 0..born \subseteq 0..born' /\ born' \in 0..born'
        BY <3>1, <3>4 DEF SiblingStarts, RemoteStarts, Ids
      <4>2. port' \in {port, born'} /\ remote' \in {remote, born'} /\ children' = children
        BY <3>4 DEF SiblingStarts, RemoteStarts
      <4> QED  BY <2>1, <4>1, <4>2 DEF QType
    <3>5. CASE SiblingStops \/ RemoteStops
      <4>1. port' \in {port, 0} /\ remote' \in {remote, 0} /\ 0 \in 0..born /\ UNCHANGED <<born, children>>
        BY <3>1, <3>5 DEF SiblingStops, RemoteStops
      <4> QED  BY <2>1, <4>1 DEF QType
    <3> QED  BY <1>16, <3>2, <3>3, <3>4, <3>5 DEF Processes
  <2> QED  BY <1>a, <1>b, <2>1, <2>2, <2>3
<1>17. CASE Tick
  <2>1. SamePool /\ SameTask /\ AllQs  BY <1>17 DEF Tick
  <2>2. SessionType'  BY <1>17, SessionBounds DEF Tick, session, SessionType
  <2> QED  BY <1>b, <1>c, <1>d, <2>1, <2>2
<1>18. CASE UNCHANGED vars
  BY <1>18, <1>a, <1>b, <1>c, <1>d DEF vars, session
<1> HIDE DEF SameSession, SamePool, SameTask, AllQs
<1> QED  BY <1>1, <1>2, <1>3, <1>4, <1>5, <1>6, <1>7, <1>9, <1>10, <1>11, <1>12, <1>13, <1>14,
            <1>15, <1>16, <1>17, <1>18 DEF Next, Worker, Closing

----------------------------------------------------------------------------
\* Most steps start, stop and lose no q.
SameQs == UNCHANGED <<proc, children, port, remote, born>>

LEMMA QsAlone ==
    ASSUME [Next]_vars
    PROVE  \/ SameQs \/ Spawn \/ StopChild \/ Shutdown \/ CloseInline \/ Processes
<1>1. ASSUME NEW t \in Threads, Call(t) \/ Submit(t)  PROVE SameQs
  BY <1>1 DEF Call, Submit, session, qs, SameQs
<1>2. CASE Take \/ Nested \/ Check \/ SpawnFails \/ GiveUp \/ Refused
  BY <1>2 DEF Take, Nested, Check, SpawnFails, GiveUp, Refused, session, qs, SameQs
<1>3. CASE ConnectChild \/ ConnectLoopback \/ ConnectHost
  BY <1>3 DEF ConnectChild, ConnectLoopback, ConnectHost, Connected, qs, SameQs
<1>4. CASE Fail \/ Schema \/ Query
  BY <1>4 DEF Fail, Schema, Query, session, qs, SameQs
<1>5. CASE CloseCall \/ CloseSubmit \/ CloseMark \/ CloseRetire \/ CloseDone \/ Tick
  BY <1>5 DEF CloseCall, CloseSubmit, CloseMark, CloseRetire, CloseDone, Tick, session, qs, SameQs
<1>6. CASE UNCHANGED vars  BY <1>6 DEF vars, session, qs, SameQs
<1> QED  BY <1>1, <1>2, <1>3, <1>4, <1>5, <1>6 DEF Next, Worker, Closing

\* Only the worker moves its task; a death may take the debt from it.
LEMMA WorkAlone ==
    ASSUME [Next]_vars
    PROVE  Worker \/ work' = work \/ Shaken
<1>1. ASSUME NEW t \in Threads, Call(t) \/ Submit(t)  PROVE work' = work
  BY <1>1 DEF Call, Submit
<1>2. CASE CloseCall \/ CloseSubmit \/ CloseInline \/ CloseMark \/ CloseRetire \/ CloseDone \/ Tick
  BY <1>2 DEF CloseCall, CloseSubmit, CloseInline, CloseMark, CloseRetire, CloseDone, Tick
<1>3. CASE Processes
  BY <1>3 DEF Processes, ChildListens, ChildDies, SiblingStarts, SiblingStops, RemoteStarts,
              RemoteStops
<1> QED  BY <1>1, <1>2, <1>3 DEF Next, Closing, vars

LEMMA Shaking ==
    ASSUME TypeOK, Shaken
    PROVE  work'.step = work.step /\ ~work'.owed
BY DEF TypeOK, Shaken

LEMMA Going ==
    ASSUME TypeOK, NEW step, Go(step)
    PROVE  work'.step = step /\ work'.owed = work.owed
BY DEF TypeOK, Go

----------------------------------------------------------------------------
LEMMA HandleStep == ASSUME TypeOK, Handle, [Next]_vars PROVE Handle'
<1>1. /\ born \in Nat /\ proc \in Nat /\ port \in Nat /\ port <= born /\ remote <= born /\ proc <= born
      /\ \A i \in children : i # 0 /\ i <= born
  BY SessionBounds DEF TypeOK, Handle, Ids
<1>2. CASE SameQs
  BY <1>2 DEF SameQs, Handle, OneSupervisedChild
<1>3. CASE Spawn
  <2>1. CASE UNCHANGED <<born, proc, children>>
    BY <1>3, <2>1 DEF Spawn, Handle, OneSupervisedChild
  <2>2. CASE /\ proc \notin children /\ born' = born + 1 /\ proc' = born'
             /\ children' = children \cup {proc'}
    <3>1. children = {} /\ port' = port  BY <1>3, <2>2 DEF Spawn, Handle, OneSupervisedChild
    <3>2. children' = {proc'} /\ proc' <= born'  BY <1>1, <2>2, <3>1
    <3> QED  BY <3>2 DEF Handle, OneSupervisedChild
  <2> QED  BY <1>3, <2>1, <2>2 DEF Spawn
<1>4. CASE StopChild \/ Shutdown \/ CloseInline
  <2>1. proc' = 0 /\ children' = children \ {proc} /\ born' = born
    BY <1>4 DEF StopChild, Shutdown, CloseInline, StopProc
  <2>2. children' = {}  BY <2>1 DEF Handle, OneSupervisedChild
  <2> QED  BY <1>1, <2>1, <2>2 DEF Handle, OneSupervisedChild
<1>5. CASE ChildListens \/ ChildDies
  <2>1. proc' = proc /\ born' = born  BY <1>5 DEF ChildListens, ChildDies, Outside, session
  <2>2. children' \subseteq {proc}
    BY <1>5 DEF ChildListens, ChildDies, Handle, OneSupervisedChild
  <2>3. port' # 0 /\ port' = proc => port' \in children'
    BY <1>5 DEF ChildListens, ChildDies, Handle, OneSupervisedChild
  <2> QED  BY <2>1, <2>2, <2>3 DEF Handle, OneSupervisedChild
<1>6. CASE SiblingStarts \/ SiblingStops \/ RemoteStarts \/ RemoteStops
  <2>1. proc' = proc /\ children' = children
    BY <1>6 DEF SiblingStarts, SiblingStops, RemoteStarts, RemoteStops, Outside, session
  <2>2. born' >= born /\ (port' = port \/ port' = 0 \/ port' = born + 1)
    BY <1>1, <1>6 DEF SiblingStarts, SiblingStops, RemoteStarts, RemoteStops
  <2>3. proc <= born' /\ proc # born + 1
    <3>1. born' \in Nat  BY <1>1, <1>6 DEF SiblingStarts, SiblingStops, RemoteStarts, RemoteStops
    <3> QED  BY <1>1, <2>2, <3>1
  <2> QED  BY <2>1, <2>2, <2>3 DEF Handle, OneSupervisedChild
<1> QED  BY <1>2, <1>3, <1>4, <1>5, <1>6, QsAlone DEF Processes

LEMMA NoChildStep == ASSUME TypeOK, Handle, NoChildLeft, [Next]_vars PROVE NoChildLeft'
<1>1. CASE Spawn
  <2>1. work'.step = "attempt" /\ MaySpawn
    BY <1>1, Going DEF Spawn, NoChildLeft, At, Chain
  <2> QED  BY <2>1 DEF NoChildLeft, Beyond
<1>2. CASE SpawnFails
  <2>1. work'.step = "loopback" /\ children' = {}
    BY <1>2, Going DEF SpawnFails, Handle, OneSupervisedChild, qs
  <2> QED  BY <2>1 DEF NoChildLeft, Chain
<1>3. CASE StopChild
  <2>1. work'.step = "loopback" /\ children' = {}
    BY <1>3, Going DEF StopChild, StopProc, Handle, OneSupervisedChild
  <2> QED  BY <2>1 DEF NoChildLeft, Chain
<1>4. CASE Check
  <2>1. children' = children  BY <1>4 DEF Check, qs
  <2>2. \/ work'.step \in {"idle", "schema"}
        \/ work'.step = IF MaySpawn THEN "spawn" ELSE "loopback"
    BY <1>4, Going DEF Check, Return, Resting
  <2> QED  BY <2>1, <2>2 DEF NoChildLeft, Chain, Beyond
<1>5. CASE GiveUp
  <2>1. work'.step = "stop" /\ work.step = "attempt" /\ children' = children
    BY <1>5, Going DEF GiveUp, At, qs
  <2> QED  BY <2>1 DEF NoChildLeft, Chain, Beyond
<1>6. CASE Refused
  <2>1. work'.step \in {"host", "fail"} /\ work.step \in {"loopback", "host"} /\ children' = children
    BY <1>6, Going DEF Refused, At, qs
  <2> QED  BY <2>1 DEF NoChildLeft, Chain, Beyond
<1>7. CASE Shutdown
  <2>1. work'.step = "idle" /\ children' = {}
    BY <1>7 DEF Shutdown, StopProc, Resting, Handle, OneSupervisedChild
  <2> QED  BY <2>1 DEF NoChildLeft, Chain, Beyond
<1>8. CASE Take \/ Nested \/ Fail \/ Schema \/ Query
  <2>1. children' = children
    BY <1>8 DEF Take, Nested, Fail, Schema, Query, qs
  <2>2. work'.step \in {"idle", "nested", "latch", "query", "shutdown"}
    <3>1. CASE Take  BY <3>1 DEF Take
    <3>2. CASE Nested  BY <3>2 DEF Nested, TypeOK
    <3>3. CASE Fail \/ Query  BY <3>3 DEF Fail, Query, Return, Resting
    <3>4. CASE Schema  BY <3>4, Going DEF Schema, Return, Resting
    <3> QED  BY <1>8, <3>1, <3>2, <3>3, <3>4
  <2> QED  BY <2>1, <2>2 DEF NoChildLeft, Chain, Beyond
<1>9. CASE ConnectChild \/ ConnectLoopback \/ ConnectHost
  <2>1. work'.step = "schema" /\ children' = children
    BY <1>9, Going DEF ConnectChild, ConnectLoopback, ConnectHost, Connected, qs
  <2> QED  BY <2>1 DEF NoChildLeft, Chain, Beyond
<1>10. CASE work' = work \/ Shaken
  <2>1. work'.step = work.step  BY <1>10, Shaking
  <2>2. children' \subseteq children \/ Spawn
    BY QsAlone DEF StopChild, Shutdown, CloseInline, StopProc, Processes, ChildListens, ChildDies,
                   SiblingStarts, SiblingStops, RemoteStarts, RemoteStops, SameQs
  <2> QED  BY <1>1, <2>1, <2>2 DEF NoChildLeft
<1> QED  BY <1>1, <1>2, <1>3, <1>4, <1>5, <1>6, <1>7, <1>8, <1>9, <1>10, WorkAlone DEF Worker

LEMMA SchemaStep == ASSUME TypeOK, SchemaMade, [Next]_vars PROVE SchemaMade'
<1>1. CASE Schema
  <2>1. conn' = conn  BY <1>1 DEF Schema
  <2>2. CASE conn = schemaConn /\ Go("query") /\ UNCHANGED <<schema, schemaConn>>
    BY <2>1, <2>2 DEF SchemaMade
  <2>3. CASE schema' = schema \cup {conn} /\ schemaConn' = conn
    BY <2>1, <2>3 DEF SchemaMade
  <2>4. CASE Return("error") /\ UNCHANGED <<schema, schemaConn>>
    BY <2>4 DEF SchemaMade, Return, Resting, At
  <2> QED  BY <1>1, <2>2, <2>3, <2>4 DEF Schema
<1>2. ASSUME ~Schema  PROVE SchemaMade'
  <2>1. UNCHANGED <<schema, schemaConn>>
    <3>1. ASSUME NEW t \in Threads, Call(t) \/ Submit(t)  PROVE UNCHANGED <<schema, schemaConn>>
      BY <3>1 DEF Call, Submit, session, qs
    <3>2. CASE Take \/ Nested \/ Check \/ Spawn \/ SpawnFails \/ GiveUp \/ Refused \/ StopChild
      BY <3>2 DEF Take, Nested, Check, Spawn, SpawnFails, GiveUp, Refused, StopChild, session, qs
    <3>3. CASE ConnectChild \/ ConnectLoopback \/ ConnectHost
      BY <3>3 DEF ConnectChild, ConnectLoopback, ConnectHost, Connected, qs
    <3>4. CASE Fail \/ Query \/ Shutdown \/ CloseInline
      BY <3>4 DEF Fail, Query, Shutdown, CloseInline, session, qs
    <3>5. CASE CloseCall \/ CloseSubmit \/ CloseMark \/ CloseRetire \/ CloseDone \/ Tick
      BY <3>5 DEF CloseCall, CloseSubmit, CloseMark, CloseRetire, CloseDone, Tick, session, qs
    <3>6. CASE Processes
      BY <3>6 DEF Processes, ChildListens, ChildDies, SiblingStarts, SiblingStops, RemoteStarts,
                  RemoteStops, Outside, session
    <3>7. CASE UNCHANGED vars  BY <3>7 DEF vars, session, qs
    <3> QED  BY <1>2, <3>1, <3>2, <3>3, <3>4, <3>5, <3>6, <3>7 DEF Next, Worker, Closing
  <2>2. At("query")' => work'.step = work.step /\ conn' \in {conn, 0}
    <3>1. CASE Worker
      <4>1. CASE Take \/ Nested
        <5>1. CASE Take  BY <5>1 DEF Take, At
        <5>2. CASE Nested  BY <5>2 DEF Nested, At, TypeOK
        <5> QED  BY <4>1, <5>1, <5>2
      <4>2. CASE Check  BY <4>2, Going DEF Check, Return, Resting, At
      <4>3. CASE Spawn \/ SpawnFails \/ GiveUp \/ Refused \/ StopChild
        BY <4>3, Going DEF Spawn, SpawnFails, GiveUp, Refused, StopChild, At
      <4>4. CASE ConnectChild \/ ConnectLoopback \/ ConnectHost
        BY <4>4, Going DEF ConnectChild, ConnectLoopback, ConnectHost, Connected, At
      <4>5. CASE Fail \/ Query \/ Shutdown
        BY <4>5 DEF Fail, Query, Shutdown, Return, Resting, At
      <4> QED  BY <1>2, <3>1, <4>1, <4>2, <4>3, <4>4, <4>5 DEF Worker
    <3>2. ASSUME NEW t \in Threads, Call(t) \/ Submit(t)  PROVE UNCHANGED <<conn, work>>
      BY <3>2 DEF Call, Submit, session
    <3>3. CASE CloseCall \/ CloseSubmit \/ CloseInline \/ CloseMark \/ CloseRetire \/ CloseDone \/ Tick
      BY <3>3 DEF CloseCall, CloseSubmit, CloseInline, CloseMark, CloseRetire, CloseDone, Tick, session
    <3>4. CASE Processes
      <4>1. conn' = conn /\ (work' = work \/ Shaken)
        BY <3>4 DEF Processes, ChildListens, ChildDies, SiblingStarts, SiblingStops, RemoteStarts,
                    RemoteStops, Outside, session
      <4> QED  BY <4>1, Shaking
    <3>5. CASE UNCHANGED vars  BY <3>5 DEF vars, session
    <3> QED  BY <3>1, <3>2, <3>3, <3>4, <3>5 DEF Next, Closing
  <2> QED  BY <2>1, <2>2 DEF SchemaMade, At
<1> QED  BY <1>1, <1>2

LEMMA LatchStep == ASSUME TypeOK, Latched, [Next]_vars PROVE Latched'
<1>1. RetryAfter \in Nat /\ lastFail \in Int /\ 0 <= lastFail + RetryAfter /\ now \in Nat
  BY SessionBounds DEF TypeOK
<1>2. CASE Fail  BY <1>1, <1>2 DEF Fail, Latched
<1>3. CASE ConnectChild \/ ConnectLoopback \/ ConnectHost
  BY <1>1, <1>3 DEF ConnectChild, ConnectLoopback, ConnectHost, Connected, Latched
<1>4. CASE UNCHANGED <<retryAfter, lastFail>>  BY <1>4 DEF Latched
<1>5. ASSUME NEW t \in Threads, Call(t) \/ Submit(t)  PROVE UNCHANGED <<retryAfter, lastFail>>
  BY <1>5 DEF Call, Submit, session
<1>6. CASE Take \/ Nested \/ Check \/ Spawn \/ SpawnFails \/ GiveUp \/ Refused \/ StopChild
  BY <1>4, <1>6 DEF Take, Nested, Check, Spawn, SpawnFails, GiveUp, Refused, StopChild, session
<1>7. CASE Schema \/ Query \/ Shutdown \/ CloseInline \/ Tick
  BY <1>4, <1>7 DEF Schema, Query, Shutdown, CloseInline, Tick, session
<1>8. CASE CloseCall \/ CloseSubmit \/ CloseMark \/ CloseRetire \/ CloseDone
  BY <1>4, <1>8 DEF CloseCall, CloseSubmit, CloseMark, CloseRetire, CloseDone, session
<1>9. CASE Processes
  BY <1>4, <1>9 DEF Processes, ChildListens, ChildDies, SiblingStarts, SiblingStops, RemoteStarts,
                    RemoteStops, Outside, session
<1>10. CASE UNCHANGED vars  BY <1>4, <1>10 DEF vars, session
<1> QED  BY <1>2, <1>3, <1>4, <1>5, <1>6, <1>7, <1>8, <1>9, <1>10 DEF Next, Worker, Closing

LEMMA QuietStep == ASSUME TypeOK, Quiet, [Next]_vars PROVE Quiet'
<1>1. ASSUME UNCHANGED <<closing, closed, retired>>, queue' = queue \/ ~retired \/ Take,
             At("idle") => At("idle")' \/ Take
      PROVE  Quiet'
  BY <1>1 DEF Quiet, Take
<1>2. ASSUME NEW t \in Threads, Call(t)  PROVE Quiet'
  BY <1>1, <1>2 DEF Call, pool, At
<1>3. ASSUME NEW t \in Threads, Submit(t)  PROVE Quiet'
  BY <1>1, <1>3 DEF Submit, At
<1>4. CASE Take  BY <1>1, <1>4 DEF Take
<1>5. CASE Nested \/ Check \/ Spawn \/ SpawnFails \/ GiveUp \/ Refused \/ StopChild \/ Fail \/ Schema \/ Query
  <2>1. ~At("idle")
    BY <1>5 DEF Nested, Check, Spawn, SpawnFails, GiveUp, Refused, StopChild, Fail, Schema, Query, At
  <2>2. UNCHANGED pool
    BY <1>5 DEF Nested, Check, Spawn, SpawnFails, GiveUp, Refused, StopChild, Fail, Schema, Query
  <2> QED  BY <1>1, <2>1, <2>2 DEF pool
<1>6. CASE ConnectChild \/ ConnectLoopback \/ ConnectHost
  <2>1. ~At("idle") /\ UNCHANGED pool
    BY <1>6 DEF ConnectChild, ConnectLoopback, ConnectHost, Connected, At
  <2> QED  BY <1>1, <2>1 DEF pool
<1>7. CASE Shutdown \/ CloseInline \/ CloseSubmit \/ CloseMark
  BY <1>7 DEF Shutdown, CloseInline, CloseSubmit, CloseMark, Quiet
<1>8. CASE CloseCall \/ CloseRetire \/ CloseDone
  BY <1>8 DEF CloseCall, CloseRetire, CloseDone, Quiet, At
<1>9. CASE Processes \/ Tick \/ UNCHANGED vars
  <2>1. UNCHANGED pool /\ (work' = work \/ Shaken)
    BY <1>9 DEF Processes, ChildListens, ChildDies, SiblingStarts, SiblingStops, RemoteStarts,
                RemoteStops, Outside, Tick, vars
  <2> QED  BY <1>1, <2>1, Shaking DEF pool, At
<1> QED  BY <1>2, <1>3, <1>4, <1>5, <1>6, <1>7, <1>8, <1>9 DEF Next, Worker, Closing

\* While nothing dies and nothing is stopped, a task keeps what it was promised.
LEMMA PromiseKept ==
    ASSUME TypeOK, Promise, work' = work, conn' = conn, proc' = proc,
           lastFail' = lastFail, now' \in Int, now' >= now,
           children \subseteq children',
           port' = port \/ (port = 0 /\ port' # proc), remote' = remote \/ remote = 0
    PROVE  Promise'
<1>1. Reach => Reach'  BY DEF Reach, TypeOK
<1>2. Alive(conn) => Alive(conn)'  BY DEF Alive
<1>3. now \in Int /\ lastFail \in Int /\ RetryAfter \in Int  BY SessionBounds DEF TypeOK
<1>4. ASSUME work.owed, work.step = "latch"  PROVE now' >= lastFail' + RetryAfter
  BY <1>3, <1>4 DEF Promise
<1>5. ASSUME work.owed, work.step = "stop"
      PROVE  (port' # 0 /\ port' # proc') \/ (HasHost /\ remote' # 0)
  BY <1>5 DEF Promise
<1>6. remote # 0 => remote' # 0  OBVIOUS
<1> QED  BY <1>1, <1>2, <1>4, <1>5, <1>6 DEF Promise

LEMMA PromiseStep ==
    ASSUME TypeOK, Handle, Latched, Quiet, Promise, [Next]_vars
    PROVE  Promise'
<1>1. ASSUME ~work'.owed  PROVE Promise'  BY <1>1 DEF Promise
<1>2. ASSUME NEW res, Return(res)  PROVE Promise'  BY <1>1, <1>2 DEF Return, Resting
<1>3. CASE Take \/ Shutdown  BY <1>1, <1>3 DEF Take, Shutdown, Resting
<1>4. CASE Nested
  <2>1. /\ work'.step = "latch"
        /\ work'.owed => now >= lastFail + RetryAfter /\ Reach
    BY <1>4 DEF Nested, Reach, TypeOK
  <2>2. UNCHANGED <<now, lastFail, port, remote>>  BY <1>4 DEF Nested, qs
  <2> QED  BY <2>1, <2>2 DEF Promise, Reach
<1>5. CASE Check
  <2>1. CASE Return("unavailable")  BY <1>2, <2>1
  <2>2. CASE Alive(conn) /\ Go("schema") /\ conn' = conn
    <3>1. work'.step = "schema" /\ Alive(conn)'
      BY <1>5, <2>2, Going DEF Check, Alive, qs
    <3> QED  BY <3>1 DEF Promise
  <2>3. CASE Go(IF MaySpawn THEN "spawn" ELSE "loopback")
    <3>1. /\ work'.step \in {"spawn", "loopback"} /\ work'.owed = work.owed /\ At("latch")
          /\ UNCHANGED <<port, remote>>
      BY <1>5, <2>3, Going DEF Check, qs
    <3> QED  BY <3>1 DEF Promise, Reach, At
  <2> QED  BY <1>5, <2>1, <2>2, <2>3 DEF Check
<1>6. CASE Spawn \/ SpawnFails
  <2>1. /\ work'.step \in {"attempt", "loopback"} /\ work'.owed = work.owed /\ At("spawn")
        /\ UNCHANGED <<port, remote>>
    BY <1>6, Going DEF Spawn, SpawnFails, qs
  <2> QED  BY <2>1 DEF Promise, Reach, At
<1>7. CASE ConnectChild \/ ConnectLoopback \/ ConnectHost
  <2>1. /\ work'.step = "schema" /\ UNCHANGED <<children, port, remote>>
        /\ conn' # 0 /\ conn' \in {port, remote}
    BY <1>7, Going DEF ConnectChild, ConnectLoopback, ConnectHost, Connected, qs
  <2> QED  BY <2>1 DEF Promise, Alive
<1>8. CASE GiveUp
  <2>1. /\ work'.step = "stop" /\ work'.owed = work.owed /\ At("attempt")
        /\ proc \notin children \/ port = 0
        /\ UNCHANGED <<proc, port, remote>>
    BY <1>8, Going DEF GiveUp, session, qs
  <2>2. port # 0 => port # proc  BY <2>1 DEF Handle
  <2> QED  BY <2>1, <2>2 DEF Promise, Reach, At
<1>9. CASE StopChild
  <2>1. /\ work'.step = "loopback" /\ work'.owed = work.owed /\ At("stop")
        /\ port' = (IF port = proc THEN 0 ELSE port) /\ remote' = remote
    BY <1>9, Going DEF StopChild, StopProc
  <2> QED  BY <2>1 DEF Promise, Reach, At
<1>10. CASE Refused
  <2>1. UNCHANGED <<port, remote>>  BY <1>10 DEF Refused, qs
  <2>2. CASE At("loopback") /\ port = 0 /\ Go(IF HasHost THEN "host" ELSE "fail")
    <3>1. work'.step = (IF HasHost THEN "host" ELSE "fail") /\ work'.owed = work.owed
      BY <2>2, Going
    <3> QED  BY <2>1, <2>2, <3>1, SessionBounds DEF Promise, Reach, At
  <2>3. CASE At("host") /\ remote = 0 /\ Go("fail")
    BY <1>1, <2>3, Going DEF Promise, At
  <2> QED  BY <1>10, <2>2, <2>3 DEF Refused
<1>11. CASE Fail \/ Query  BY <1>2, <1>11 DEF Fail, Query
<1>12. CASE Schema
  <2>1. CASE Return("error")  BY <1>2, <2>1
  <2>2. CASE Go("query")
    <3>1. /\ work'.step = "query" /\ work'.owed = work.owed /\ At("schema")
          /\ UNCHANGED <<conn, children, port, remote>>
      BY <1>12, <2>2, Going DEF Schema
    <3> QED  BY <3>1 DEF Promise, Alive, At
  <2> QED  BY <1>12, <2>1, <2>2 DEF Schema
<1>13. CASE CloseInline
  <2>1. At("idle") /\ work' = work  BY <1>13 DEF CloseInline, Quiet
  <2> QED  BY <1>1, <2>1 DEF Promise, At
<1>14. now \in Int /\ now' \in Int /\ now' >= now /\ proc <= born /\ born \in Int /\ proc \in Int
  <2>1. now \in Int /\ proc <= born /\ born \in Int /\ proc \in Int
    BY SessionBounds DEF TypeOK, Handle, Ids
  <2>2. TypeOK'  BY TypeStep
  <2>3. now' = now \/ now' = now + 1
    <3>1. ASSUME NEW t \in Threads, Call(t) \/ Submit(t)  PROVE now' = now
      BY <3>1 DEF Call, Submit
    <3>2. CASE Take \/ Nested \/ Check \/ Spawn \/ SpawnFails \/ GiveUp \/ Refused \/ StopChild
      BY <3>2 DEF Take, Nested, Check, Spawn, SpawnFails, GiveUp, Refused, StopChild
    <3>3. CASE ConnectChild \/ ConnectLoopback \/ ConnectHost
      BY <3>3 DEF ConnectChild, ConnectLoopback, ConnectHost, Connected
    <3>4. CASE Fail \/ Schema \/ Query \/ Shutdown \/ CloseInline
      BY <3>4 DEF Fail, Schema, Query, Shutdown, CloseInline
    <3>5. CASE CloseCall \/ CloseSubmit \/ CloseMark \/ CloseRetire \/ CloseDone \/ Tick
      BY <3>5 DEF CloseCall, CloseSubmit, CloseMark, CloseRetire, CloseDone, Tick
    <3>6. CASE Processes
      BY <3>6 DEF Processes, ChildListens, ChildDies, SiblingStarts, SiblingStops, RemoteStarts,
                  RemoteStops
    <3>7. CASE UNCHANGED vars  BY <3>7 DEF vars
    <3> QED  BY <3>1, <3>2, <3>3, <3>4, <3>5, <3>6, <3>7 DEF Next, Worker, Closing
  <2> QED  BY <2>1, <2>3
<1>15. CASE UNCHANGED <<work, conn, proc, lastFail, children, port, remote>>
  BY <1>14, <1>15, PromiseKept
<1>16. ASSUME NEW t \in Threads, Call(t) \/ Submit(t)  PROVE Promise'
  BY <1>15, <1>16 DEF Call, Submit, session, qs
<1>17. CASE CloseCall \/ CloseSubmit \/ CloseMark \/ CloseRetire \/ CloseDone \/ Tick \/ UNCHANGED vars
  BY <1>15, <1>17 DEF CloseCall, CloseSubmit, CloseMark, CloseRetire, CloseDone, Tick, vars, session, qs
<1>18. CASE ChildDies \/ SiblingStops \/ RemoteStops
  BY <1>1, <1>18, Shaking DEF ChildDies, SiblingStops, RemoteStops
<1>19. CASE ChildListens
  <2>1. UNCHANGED <<work, conn, proc, lastFail, children, remote, now>> /\ port = 0
    BY <1>19 DEF ChildListens, Outside, session
  \* It may be the very child whose stop has been decided: then the operator's q is promised.
  <2>2. Reach => Reach'
    BY <2>1 DEF Reach, ChildListens
  <2>3. Alive(conn) => Alive(conn)'  BY <2>1 DEF Alive
  <2> QED  BY <2>1, <2>2, <2>3 DEF Promise
<1>20. CASE SiblingStarts \/ RemoteStarts
  <2>1. /\ UNCHANGED <<work, conn, proc, lastFail, children>>
        /\ port' = port \/ (port = 0 /\ port' = born + 1)
        /\ remote' = remote \/ remote = 0
    BY <1>20 DEF SiblingStarts, RemoteStarts, Outside, session
  <2> QED  BY <1>14, <2>1, PromiseKept
<1> QED  BY <1>3, <1>4, <1>5, <1>6, <1>7, <1>8, <1>9, <1>10, <1>11, <1>12, <1>13, <1>16, <1>17,
            <1>18, <1>19, <1>20 DEF Next, Worker, Closing, Processes

LEMMA ServedStep ==
    ASSUME TypeOK, Latched, Promise, Served, [Next]_vars
    PROVE  Served'
<1>1. CASE call' = call  BY <1>1 DEF Served, ReachableMeansServed
<1>2. ASSUME NEW res, Return(res), work.owed => res = "ok"  PROVE Served'
  <2>1. \A t \in Threads : call'[t] = IF t = work.by
                                      THEN [pc |-> "back", res |-> res, owed |-> work.owed]
                                      ELSE call[t]
    BY <1>2 DEF Return, TypeOK
  <2> QED  BY <1>2, <2>1 DEF Served, ReachableMeansServed
<1>3. ASSUME NEW t \in Threads, Call(t)  PROVE Served'
  <2>1. \A u \in Threads : call'[u] = call[u] \/ ~call'[u].owed
    BY <1>3 DEF Call, TypeOK
  <2> QED  BY <2>1 DEF Served, ReachableMeansServed
<1>4. ASSUME NEW t \in Threads, Submit(t)  PROVE Served'
  <2>1. ~call[t].owed  BY <1>4 DEF Submit, Served
  <2>2. \A u \in Threads \ {t} : call'[u] = call[u]  BY <1>4 DEF Submit, TypeOK
  <2>3. ~call'[t].owed  BY <1>4, <2>1 DEF Submit, TypeOK
  <2> QED  BY <2>2, <2>3 DEF Served, ReachableMeansServed
<1>5. CASE Check
  <2>1. work.owed => ~(now < retryAfter)
    <3>1. /\ now \in Int /\ retryAfter \in Int /\ lastFail \in Int /\ RetryAfter \in Int
          /\ work.owed => now >= lastFail + RetryAfter
      BY <1>5, SessionBounds DEF TypeOK, Check, Promise, At
    <3> QED  BY <3>1 DEF Latched
  <2> QED  BY <1>1, <1>2, <1>5, <2>1 DEF Check
<1>6. CASE Fail
  <2>1. ~work.owed  BY <1>6 DEF Fail, Promise, At
  <2> QED  BY <1>2, <1>6, <2>1 DEF Fail
<1>7. CASE Schema
  <2>1. work.owed => Alive(conn)  BY <1>7 DEF Schema, Promise, At
  <2> QED  BY <1>1, <1>2, <1>7, <2>1 DEF Schema
<1>8. CASE Query
  <2>1. work.owed => Alive(conn)  BY <1>8 DEF Query, Promise, At
  <2> QED  BY <1>2, <1>8, <2>1 DEF Query
<1>9. CASE Take \/ Nested \/ Spawn \/ SpawnFails \/ GiveUp \/ Refused \/ StopChild \/ Shutdown
  BY <1>1, <1>9 DEF Take, Nested, Spawn, SpawnFails, GiveUp, Refused, StopChild, Shutdown
<1>10. CASE ConnectChild \/ ConnectLoopback \/ ConnectHost
  BY <1>1, <1>10 DEF ConnectChild, ConnectLoopback, ConnectHost, Connected
<1>11. CASE CloseCall \/ CloseSubmit \/ CloseInline \/ CloseMark \/ CloseRetire \/ CloseDone \/ Tick
  BY <1>1, <1>11 DEF CloseCall, CloseSubmit, CloseInline, CloseMark, CloseRetire, CloseDone, Tick
<1>12. CASE Processes
  BY <1>1, <1>12 DEF Processes, ChildListens, ChildDies, SiblingStarts, SiblingStops,
                     RemoteStarts, RemoteStops, Outside
<1>13. CASE UNCHANGED vars  BY <1>1, <1>13 DEF vars
<1> QED  BY <1>3, <1>4, <1>5, <1>6, <1>7, <1>8, <1>9, <1>10, <1>11, <1>12, <1>13
         DEF Next, Worker, Closing

----------------------------------------------------------------------------
LEMMA SessionInitInv == Init => SessionInv
<1> SUFFICES ASSUME Init PROVE SessionInv  OBVIOUS
<1>1. TypeOK  BY TypeInit
<1>2. Handle /\ NoChildLeft
  BY DEF Init, Handle, OneSupervisedChild, NoChildLeft, Resting, Chain, Beyond
<1>3. SchemaMade /\ Quiet  BY DEF Init, SchemaMade, Quiet, At, Resting
<1>4. Latched  BY SessionBounds DEF Init, Latched
<1>5. Promise  BY DEF Init, Promise, Resting
<1>6. Served  BY DEF Init, Served, ReachableMeansServed
<1> QED  BY <1>1, <1>2, <1>3, <1>4, <1>5, <1>6 DEF SessionInv

LEMMA SessionStep == SessionInv /\ [Next]_vars => SessionInv'
BY TypeStep, HandleStep, NoChildStep, SchemaStep, LatchStep, QuietStep, PromiseStep, ServedStep
DEF SessionInv

LEMMA SessionHolds == Spec => []SessionInv
BY SessionInitInv, SessionStep, PTL DEF Spec

\* Whatever fails on the way, a q that the session started and that runs is the one it holds a
\* handle on (session.py 197-233; the property OneSupervisedChild).
THEOREM OneChild == Spec => []OneSupervisedChild
<1>1. SessionInv => OneSupervisedChild  BY DEF SessionInv, Handle
<1> QED  BY <1>1, SessionHolds, PTL

\* An attempt that could not connect leaves no q behind (FailureLeavesNoChild).
THEOREM NoChildIsLeft == Spec => []FailureLeavesNoChild
<1>1. SessionInv => FailureLeavesNoChild
  BY DEF SessionInv, NoChildLeft, FailureLeavesNoChild, At, Beyond
<1> QED  BY <1>1, SessionHolds, PTL

\* However often q was replaced, a query finds the cache's tables (store.py _conn; the
\* property QueriesSeeSchema).
THEOREM TablesAreThere == Spec => []QueriesSeeSchema
<1>1. SessionInv => QueriesSeeSchema
  BY DEF SessionInv, SchemaMade, QueriesSeeSchema, Alive
<1> QED  BY <1>1, SessionHolds, PTL

\* The latch never refuses, and no link of the chain is lost for, a call that was owed an
\* answer (session.py 281-317; the property ReachableMeansServed).
THEOREM LatchExpires == Spec => []ReachableMeansServed
<1>1. SessionInv => ReachableMeansServed  BY DEF SessionInv, Served
<1> QED  BY <1>1, SessionHolds, PTL
=============================================================================
