----------------------------- MODULE KdbSession -----------------------------
(***************************************************************************)
(* KdbSession (kdb-store/kdb_store/session.py) with KdbStore's schema      *)
(* check (kdb-store/kdb_store/store.py).                                   *)
(*                                                                         *)
(* Threads hand their store calls to the one worker of an executor; the    *)
(* worker finds a live q (its own child, one on the loopback port, the     *)
(* operator's container), creates the schema on a connection it has not    *)
(* seen, and queries.  q processes are numbered in the order they start.   *)
(* Any of them can die between two steps, and close() can come at any time.*)
(***************************************************************************)
EXTENDS Integers, Sequences

CONSTANTS
    Threads,      \* caller threads, each making one store call after another
    Closer,       \* the thread that calls close()
    MaySpawn,     \* KdbConfig.may_spawn
    HasHost,      \* KdbConfig.host is set
    RetryAfter,   \* _RETRY_AFTER_S
    MaxTime,      \* bound: the monotonic clock stops here
    MaxQ          \* bound: q processes ever started

ASSUME SessionBounds ==
    /\ MaySpawn \in BOOLEAN /\ HasHost \in BOOLEAN
    /\ RetryAfter \in Nat /\ MaxTime \in Nat /\ MaxQ \in Nat
    /\ Closer \notin Threads

VARIABLES
    \* the session and its store
    conn,         \* _conn: the q it is connected to, 0 for None
    proc,         \* _proc: the child it has a handle on, 0 for None
    endpoint,
    retryAfter,   \* _retry_after, a deadline; 0 for never failed
    owner,        \* _owner_ident: the worker has stamped its identity
    closed,       \* _closed
    retired,      \* executor.shutdown was called
    schemaConn,   \* KdbStore._schema_conn
    queue,        \* the executor's queue of callers
    work,         \* the task on the worker: its next step and its caller
    call,         \* each thread's call
    closing,      \* where close() is
    \* the q processes
    born,         \* how many were started
    children,     \* the live ones this session started
    port,         \* the one listening on the loopback port, 0 for none
    remote,       \* the operator's own, 0 for none
    schema,       \* those on which the cache's tables were created
    now,
    \* ghost
    lastFail      \* when an attempt to connect last failed

session == <<conn, proc, endpoint, retryAfter, schemaConn>>
pool    == <<owner, closed, retired, queue, closing>>
qs      == <<born, children, port, remote, schema>>
vars    == <<session, pool, work, call, qs, now, lastFail>>

Ids    == 0..MaxQ
Alive(i)  == i # 0 /\ (i \in children \/ i = port \/ i = remote)
Resting == [step |-> "idle", by |-> Closer, owed |-> FALSE]

Init ==
    /\ conn = 0 /\ proc = 0 /\ endpoint = "none" /\ retryAfter = 0
    /\ schemaConn = 0
    /\ owner = FALSE /\ closed = FALSE /\ retired = FALSE
    /\ queue = << >> /\ work = Resting
    /\ call = [t \in Threads |-> [pc |-> "idle", res |-> "none", owed |-> FALSE]]
    /\ closing = "open"
    /\ born = 0 /\ children = {} /\ port = 0 /\ remote = 0 /\ schema = {}
    /\ now = 0 /\ lastFail = -RetryAfter

----------------------------------------------------------------------------
\* run: a closed session refuses; otherwise the task is on its way to the queue.
Call(t) ==
    /\ call[t].pc \in {"idle", "back"}
    /\ call' = [call EXCEPT ![t] =
                  [pc |-> IF closed THEN "back" ELSE "submit",
                   res |-> IF closed THEN "unavailable" ELSE "none", owed |-> FALSE]]
    /\ UNCHANGED <<session, pool, work, qs, now, lastFail>>

\* executor.submit raises once the executor is shut down.
Submit(t) ==
    /\ call[t].pc = "submit"
    /\ queue' = IF retired THEN queue ELSE Append(queue, t)
    /\ call' = [call EXCEPT ![t] = IF retired THEN [@ EXCEPT !.pc = "back", !.res = "error"]
                                   ELSE [@ EXCEPT !.pc = "queued"]]
    /\ UNCHANGED <<session, owner, closed, retired, closing, work, qs, now, lastFail>>

----------------------------------------------------------------------------
\* The worker.  A task's step names what it does next.
At(step)  == work.step = step
Go(step)  == work' = [work EXCEPT !.step = step]

TakeUnowned ==
    /\ At("idle") /\ queue # << >>
    /\ queue' = Tail(queue)
    /\ work' = [step |-> IF Head(queue) = Closer THEN "shutdown" ELSE "nested",
                by |-> Head(queue), owed |-> FALSE]
    /\ UNCHANGED <<session, owner, closed, retired, closing, call, qs, now, lastFail>>

\* _own: the worker stamps its identity before it does the work.
Take ==
    /\ At("idle") /\ queue # << >>
    /\ queue' = Tail(queue) /\ owner' = TRUE
    /\ work' = [step |-> IF Head(queue) = Closer THEN "shutdown" ELSE "nested",
                by |-> Head(queue), owed |-> FALSE]
    /\ UNCHANGED <<session, closed, retired, closing, call, qs, now, lastFail>>

Return(res) ==
    /\ call' = [call EXCEPT ![work.by] =
                  [pc |-> "back", res |-> res, owed |-> work.owed]]
    /\ work' = Resting

\* The store's task asks for the connection through run() again: on the owner
\* thread that runs inline (and is never refused); elsewhere it would wait for
\* the very worker it occupies.  The call is owed an answer when some q can be
\* reached and the last failure is an interval old.
Nested ==
    /\ At("nested") /\ owner
    /\ work' = [work EXCEPT !.step = "latch",
                            !.owed = /\ now >= lastFail + RetryAfter
                                     /\ port # 0 \/ (HasHost /\ remote # 0)]
    /\ UNCHANGED <<session, pool, call, qs, now, lastFail>>

\* _connection up to the first link of its chain.
Check ==
    /\ At("latch")
    /\ IF now < retryAfter
       THEN Return("unavailable") /\ UNCHANGED <<conn, endpoint>>
       ELSE IF Alive(conn)
            THEN Go("schema") /\ UNCHANGED <<conn, endpoint, call>>
            ELSE /\ conn' = 0 /\ endpoint' = "none"
                 /\ Go(IF MaySpawn THEN "spawn" ELSE "loopback")
                 /\ UNCHANGED call
    /\ UNCHANGED <<proc, retryAfter, schemaConn, pool, qs, now, lastFail>>

\* _spawn: a child that still runs is kept, otherwise a new one is started.
Spawn ==
    /\ At("spawn")
    /\ \/ proc \in children /\ UNCHANGED <<born, proc, children>>
       \/ /\ proc \notin children /\ born < MaxQ
          /\ born' = born + 1 /\ proc' = born' /\ children' = children \cup {proc'}
    /\ Go("attempt")
    /\ UNCHANGED <<conn, endpoint, retryAfter, schemaConn, pool, call, port, remote,
                   schema, now, lastFail>>

\* Popen raises: there is no process to stop, the next link is tried.
SpawnFails ==
    /\ At("spawn") /\ proc \notin children
    /\ Go("loopback")
    /\ UNCHANGED <<session, pool, call, qs, now, lastFail>>

\* A connection clears the latch.
Connected(i, name) ==
    /\ i # 0 /\ conn' = i /\ endpoint' = name /\ retryAfter' = 0
    /\ Go("schema")
    /\ UNCHANGED <<proc, schemaConn, pool, call, qs, now, lastFail>>

\* _connect_with_retry looks at the child, then knocks at the port: whichever q
\* listens there answers.
ConnectChild == At("attempt") /\ proc \in children /\ Connected(port, "spawned")

GiveUpUnstopped ==
    /\ At("attempt") /\ (proc \notin children \/ port = 0)
    /\ Go("loopback")
    /\ UNCHANGED <<session, pool, call, qs, now, lastFail>>

\* The budget is spent, or the child has exited.
GiveUp ==
    /\ At("attempt") /\ (proc \notin children \/ port = 0)
    /\ Go("stop")
    /\ UNCHANGED <<session, pool, call, qs, now, lastFail>>

\* _stop_proc: the handle is dropped and the child, if it runs, is killed.
StopProc ==
    /\ proc' = 0 /\ children' = children \ {proc}
    /\ port' = IF port = proc THEN 0 ELSE port

ForgetChild ==
    /\ At("stop") /\ proc' = 0
    /\ Go("loopback")
    /\ UNCHANGED <<conn, endpoint, retryAfter, schemaConn, pool, call, qs, now, lastFail>>

StopChild ==
    /\ At("stop") /\ StopProc
    /\ Go("loopback")
    /\ UNCHANGED <<conn, endpoint, retryAfter, schemaConn, pool, call, born, remote, schema,
                   now, lastFail>>

Refused ==
    /\ \/ At("loopback") /\ port = 0 /\ Go(IF HasHost THEN "host" ELSE "fail")
       \/ At("host") /\ remote = 0 /\ Go("fail")
    /\ UNCHANGED <<session, pool, call, qs, now, lastFail>>

ConnectLoopback == At("loopback") /\ Connected(port, "loopback")
ConnectHost     == At("host") /\ Connected(remote, "host")

FailForever ==
    /\ At("fail") /\ Return("unavailable")
    /\ retryAfter' = MaxTime + RetryAfter + 1 /\ lastFail' = now
    /\ UNCHANGED <<conn, proc, endpoint, schemaConn, pool, qs, now>>

\* Every link failed: the latch closes for one interval.
Fail ==
    /\ At("fail") /\ Return("unavailable")
    /\ retryAfter' = now + RetryAfter /\ lastFail' = now
    /\ UNCHANGED <<conn, proc, endpoint, schemaConn, pool, qs, now>>

SchemaByEndpoint ==
    /\ At("schema")
    /\ IF schemaConn # 0
       THEN Go("query") /\ UNCHANGED <<schema, schemaConn, call>>
       ELSE IF Alive(conn)
            THEN /\ schema' = schema \cup {conn} /\ schemaConn' = conn
                 /\ Go("query") /\ UNCHANGED call
            ELSE Return("error") /\ UNCHANGED <<schema, schemaConn>>
    /\ UNCHANGED <<conn, proc, endpoint, retryAfter, pool, born, children, port, remote,
                   now, lastFail>>

\* KdbStore._conn: the schema is created once per connection.
Schema ==
    /\ At("schema")
    /\ IF conn = schemaConn
       THEN Go("query") /\ UNCHANGED <<schema, schemaConn, call>>
       ELSE IF Alive(conn)
            THEN /\ schema' = schema \cup {conn} /\ schemaConn' = conn
                 /\ Go("query") /\ UNCHANGED call
            ELSE Return("error") /\ UNCHANGED <<schema, schemaConn>>
    /\ UNCHANGED <<conn, proc, endpoint, retryAfter, pool, born, children, port, remote,
                   now, lastFail>>

Query ==
    /\ At("query")
    /\ Return(IF Alive(conn) THEN "ok" ELSE "error")
    /\ UNCHANGED <<session, pool, qs, now, lastFail>>

\* _shutdown as a task.
Shutdown ==
    /\ At("shutdown") /\ StopProc /\ conn' = 0
    /\ closing' = "mark" /\ work' = Resting
    /\ UNCHANGED <<endpoint, retryAfter, schemaConn, owner, closed, retired, queue, call,
                   born, remote, schema, now, lastFail>>

----------------------------------------------------------------------------
\* close: run(_shutdown), then _closed, then the executor.  On a session that is
\* closed already run() refuses and _shutdown runs on the calling thread.
CloseCall ==
    /\ closing \in {"open", "done"}
    /\ closing' = IF closed THEN "inline" ELSE "submit"
    /\ UNCHANGED <<session, owner, closed, retired, queue, work, call, qs, now, lastFail>>

CloseSubmit ==
    /\ closing = "submit" /\ closing' = "queued"
    /\ queue' = Append(queue, Closer)
    /\ UNCHANGED <<session, owner, closed, retired, work, call, qs, now, lastFail>>

CloseInline ==
    /\ closing = "inline" /\ closing' = "mark"
    /\ StopProc /\ conn' = 0
    /\ UNCHANGED <<endpoint, retryAfter, schemaConn, owner, closed, retired, queue, work,
                   call, born, remote, schema, now, lastFail>>

CloseMark ==
    /\ closing = "mark" /\ closing' = "retire" /\ closed' = TRUE
    /\ UNCHANGED <<session, owner, retired, queue, work, call, qs, now, lastFail>>

\* executor.shutdown(wait=True) refuses new tasks and waits for the queued ones.
CloseRetire ==
    /\ closing = "retire" /\ closing' = "wait" /\ retired' = TRUE
    /\ UNCHANGED <<session, owner, closed, queue, work, call, qs, now, lastFail>>

CloseDone ==
    /\ closing = "wait" /\ queue = << >> /\ At("idle")
    /\ closing' = "done" /\ owner' = FALSE
    /\ UNCHANGED <<session, closed, retired, queue, work, call, qs, now, lastFail>>

----------------------------------------------------------------------------
\* The q processes.  A death under a task means nothing is owed to it any more.
Shaken == work' = [work EXCEPT !.owed = FALSE]
Outside == UNCHANGED <<session, pool, call, schema, lastFail>>

ChildListens ==
    /\ \E i \in children : port = 0 /\ port' = i
    /\ Outside /\ UNCHANGED <<work, born, children, remote, now>>

\* It crossed -w, or the port was taken.
ChildDies ==
    /\ \E i \in children : /\ children' = children \ {i}
                           /\ port' = IF port = i THEN 0 ELSE port
    /\ Shaken
    /\ Outside /\ UNCHANGED <<born, remote, now>>

\* Another service's q on the loopback port.
SiblingStarts ==
    /\ port = 0 /\ born < MaxQ /\ born' = born + 1 /\ port' = born'
    /\ Outside /\ UNCHANGED <<work, children, remote, now>>

SiblingStops ==
    /\ port # 0 /\ port \notin children /\ port' = 0
    /\ Shaken
    /\ Outside /\ UNCHANGED <<born, children, remote, now>>

RemoteStarts ==
    /\ remote = 0 /\ born < MaxQ /\ born' = born + 1 /\ remote' = born'
    /\ Outside /\ UNCHANGED <<work, children, port, now>>

RemoteStops ==
    /\ remote # 0 /\ remote' = 0
    /\ Shaken
    /\ Outside /\ UNCHANGED <<born, children, port, now>>

Tick ==
    /\ now < MaxTime /\ now' = now + 1
    /\ UNCHANGED <<session, pool, work, call, qs, lastFail>>

----------------------------------------------------------------------------
Worker ==
    \/ Take \/ Nested \/ Check \/ Spawn \/ SpawnFails \/ ConnectChild \/ GiveUp
    \/ StopChild \/ ConnectLoopback \/ ConnectHost \/ Refused \/ Fail \/ Schema
    \/ Query \/ Shutdown

Closing == CloseSubmit \/ CloseInline \/ CloseMark \/ CloseRetire \/ CloseDone

Processes ==
    \/ ChildListens \/ ChildDies \/ SiblingStarts \/ SiblingStops
    \/ RemoteStarts \/ RemoteStops

Next ==
    \/ \E t \in Threads : Call(t) \/ Submit(t)
    \/ Worker \/ CloseCall \/ Closing \/ Processes \/ Tick

\* Threads that were started run on: the worker, the one in close(), and a caller
\* between run()'s check and its submit.  Nobody has to call, and nothing outside
\* the process has to happen.
Fairness ==
    /\ WF_vars(Worker) /\ WF_vars(Closing)
    /\ \A t \in Threads : WF_vars(Submit(t))

Spec == Init /\ [][Next]_vars /\ Fairness

----------------------------------------------------------------------------
Steps == {"idle", "nested", "latch", "spawn", "attempt", "stop", "loopback", "host",
          "fail", "schema", "query", "shutdown"}

\* Every variable holds what its declaration says.
TypeOK ==
    /\ conn \in Ids /\ proc \in Ids /\ schemaConn \in Ids
    /\ endpoint \in {"none", "spawned", "loopback", "host"}
    /\ retryAfter \in 0..(MaxTime + RetryAfter) /\ lastFail \in -RetryAfter..MaxTime
    /\ owner \in BOOLEAN /\ closed \in BOOLEAN /\ retired \in BOOLEAN
    /\ queue \in Seq(Threads \cup {Closer})
    /\ work \in [step : Steps, by : Threads \cup {Closer}, owed : BOOLEAN]
    /\ call \in [Threads -> [pc : {"idle", "submit", "queued", "back"},
                             res : {"none", "ok", "unavailable", "error"},
                             owed : BOOLEAN]]
    /\ closing \in {"open", "submit", "queued", "inline", "mark", "retire", "wait", "done"}
    /\ born \in Ids /\ children \subseteq 1..born /\ schema \subseteq 1..born
    /\ port \in 0..born /\ remote \in 0..born /\ now \in 0..MaxTime

\* "Owns at most one q process": whatever fails on the way, a child that runs is
\* the one the session holds a handle on, so it can still be stopped.
OneSupervisedChild == children \subseteq {proc}

\* A q the session started is not left behind by an attempt that could not connect.
FailureLeavesNoChild == At("fail") => children = {}

\* No query reaches a q on which the cache's tables were never created, however
\* often q was replaced between two calls (store.py _conn).
QueriesSeeSchema == At("query") /\ Alive(conn) => conn \in schema

\* The latch expires: when a q can be reached all along and an interval has passed
\* since the last failure, the call is answered, whatever failed before.
ReachableMeansServed ==
    \A t \in Threads : call[t].pc = "back" /\ call[t].owed => call[t].res = "ok"

\* No call waits for ever on the one worker, and neither does close().
EveryCallReturns ==
    /\ \A t \in Threads : call[t].pc = "submit" ~> call[t].pc = "back"
    /\ closing = "submit" ~> closing = "done"

\* session.py 335-337: "the executor is shut down only afterwards, so no task can
\* outlive the process it drives".  A closed session then has no q of its own.
ClosedMeansStopped == closing = "done" => children = {}
============================================================================
