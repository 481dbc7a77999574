----------------------- MODULE AcquisitionJobsProofs -----------------------
(***************************************************************************)
(* For any workers, API threads, jobs, deaths and failed commits: the      *)
(* job log keeps each worker's own stages in order, a contested claim is   *)
(* never lost, a cancel stops all but the call under way, and the job's    *)
(* row names the log's last stage while one writer at a time is at work.   *)
(* Nothing is locked, so the invariants are about what is between two      *)
(* appends (LogInv), and between an event and the row (RowsInv).           *)
(* A refused job that was claimed once put nothing into Silver (EndsInv:   *)
(* who may still promote, and what the log tells it).                      *)
(***************************************************************************)
EXTENDS AcquisitionJobs, IntegerSets

Places == {"idle", "insert", "decide", "next", "get", "judge", "publish"} \cup Appending
Counts == 0..MaxCalls
Asked  == {"queued", "cancel_pending"}
Hands  == [pc : Places, job : Jobs \cup {NoJob}, stage : Stages, seq : Nat, at : Nat,
           calls : Counts, late : {0, 1}, got : BOOLEAN, held : BOOLEAN]
Row    == [seq : Nat, stage : Stages]

TablesOK ==
    /\ rows \in [Jobs -> SUBSET Row] /\ silver \in [Jobs -> Nat]
    /\ request \in [Jobs -> Requests \cup {NoRequest}]
    /\ faults \in 0..MaxFaults /\ hurt \subseteq Jobs /\ crowded \subseteq Jobs

\* Which stages an actor writes, what it may know of a cancel, and that what it carries into
\* the job's row is in the log.
Good(a, h) ==
    /\ h.pc # "idle" => h.job \in Jobs
    /\ a \in Clients => h.pc \in {"idle", "insert"} \cup Appending /\ h.stage \in Asked /\ h.held = FALSE
    /\ a \in Workers /\ h.pc # "idle" => h.pc # "insert" /\ h.stage \in Working \cup Ends
    /\ h.pc = "get" => h.calls > 0
    /\ h.late = 1 => \/ h.pc \in Appending /\ h.stage \in Ends
                     \/ h.pc = "next" /\ Has(h.job, "cancel_pending")
    /\ h.pc \in {"row", "carry"} => Has(h.job, h.stage)
HandsOK == hand \in [Actors -> Hands] /\ \A a \in Actors : Good(a, hand[a])

\* Events have stamps of their own and numbers below how many there are.
Numbered ==
    /\ log \in [Jobs -> SUBSET Event]
    /\ \A j \in Jobs :
          /\ IsFiniteSet(log[j])
          /\ \A e \in log[j] : /\ e.by \in Workers \/ e.stage \in Asked
                               /\ e.seq < Cardinality(log[j])
          /\ \A e, f \in log[j] : e.at = f.at => e = f

\* An event that was numbered and not committed: no other has its stamp, and the worker's own
\* events in the log are older and have smaller numbers.
Minted(a) ==
    LET h == hand[a] IN
    h.pc = "commit" =>
        /\ h.seq <= Cardinality(log[h.job])
        /\ \A e \in log[h.job] : /\ e.at # h.at
                                 /\ a \in Workers /\ e.by = a => e.at < h.at /\ e.seq < h.seq
        /\ \A b \in Actors \ {a} : hand[b].pc = "commit" /\ hand[b].job = h.job => hand[b].at # h.at
Uncommitted == \A a \in Actors : Minted(a)

\* Whoever the log names as the first to fetch is at work on the job, or the job has an end.
IsFirst(e, j) ==
    /\ e \in log[j] /\ e.stage = "fetching"
    /\ \A f \in log[j] : f.stage = "fetching" => e = f \/ Before(e, f)
Ended(j) == \E e \in log[j] : e.stage \in Ends
HeldByFirst ==
    \A j \in Jobs : j \notin hurt =>
        \A e \in log[j] : IsFirst(e, j) => On(e.by, j) \/ Ended(j)

LogInv  == HandsOK /\ Numbered /\ Uncommitted /\ HeldByFirst /\ OwnStagesInOrder
JobsInv == TablesOK /\ LogInv

----------------------------------------------------------------------------
\* datetime.now is later than every stamp of the job.
LEMMA NowIsLater ==
    ASSUME HandsOK, Numbered, NEW j \in Jobs
    PROVE  /\ Now(j) \in Nat
           /\ \A e \in log[j] : e.at < Now(j)
           /\ \A b \in Actors : On(b, j) => hand[b].at < Now(j)
<1> DEFINE A == {e.at : e \in log[j]}
           C == {c \in Actors : On(c, j)}
           B == {hand[b].at : b \in C}
           S == {0} \cup A \cup B
<1>1. A \in SUBSET Nat /\ B \in SUBSET Nat  BY DEF HandsOK, Numbered, Hands, Event
<1>2. IsFiniteSet(A)
  <2> DEFINE f == [e \in log[j] |-> e.at]
  <2>1. f \in [log[j] -> A] /\ \A t \in A : \E e \in log[j] : f[e] = t  OBVIOUS
  <2> HIDE DEF A, f
  <2>2. f \in Surjection(log[j], A)  BY <2>1 DEF Surjection
  <2>3. IsFiniteSet(log[j])  BY DEF Numbered
  <2> QED  BY <2>2, <2>3, FS_Surjection
<1>3. IsFiniteSet(B)
  <2> DEFINE f == [b \in C |-> hand[b].at]
  <2>1. f \in [C -> B] /\ \A t \in B : \E b \in C : f[b] = t
    <3> HIDE DEF C
    <3> QED  OBVIOUS
  <2> HIDE DEF B, C, f
  <2>2. f \in Surjection(C, B)  BY <2>1 DEF Surjection
  <2>3. IsFiniteSet(Actors) /\ C \in SUBSET Actors  BY JobsBounds DEF C
  <2>4. IsFiniteSet(C)  BY <2>3, FS_Subset
  <2> QED  BY <2>2, <2>4, FS_Surjection
<1>4. IsFiniteSet(S)
  <2>1. IsFiniteSet({0})  BY FS_Singleton
  <2> HIDE DEF A, B
  <2>2. IsFiniteSet({0} \cup A)  BY <1>2, <2>1, FS_Union
  <2> QED  BY <1>3, <2>2, FS_Union
<1>5. Max(S) \in S /\ \A y \in S : Max(S) >= y
  <2>1. S \in SUBSET Nat /\ S # {}  BY <1>1
  <2> HIDE DEF S
  <2> QED  BY <1>4, <2>1, MaxOfFinite
<1>6. Now(j) = 1 + Max(S)  BY DEF Now
<1>7. Max(S) \in Nat  BY <1>1, <1>5
<1>8. \A y \in S : y \in Nat /\ y < 1 + Max(S)
  <2> TAKE y \in S
  <2>1. y \in Nat /\ Max(S) >= y  BY <1>1, <1>5
  <2> QED  BY <1>7, <2>1
<1>9. \A e \in log[j] : e.at \in S  OBVIOUS
<1>10. \A b \in Actors : On(b, j) => hand[b].at \in S  OBVIOUS
<1> HIDE DEF S
<1> QED  BY <1>6, <1>7, <1>8, <1>9, <1>10

\* Claims are ordered, so one of them is the first, and FirstFetching is it.
LEMMA FirstExists ==
    ASSUME Numbered, NEW j \in Jobs, Has(j, "fetching")
    PROVE  /\ FirstFetching(j) \in log[j] /\ IsFirst(FirstFetching(j), j)
           /\ \A e \in log[j] : IsFirst(e, j) => e = FirstFetching(j)
<1> DEFINE F == {e \in log[j] : e.stage = "fetching"}
           Seqs == {e.seq : e \in F}
<1>1. F # {} /\ F \in SUBSET Event /\ \A e, f \in F : e.at = f.at => e = f
  BY DEF Has, Numbered
<1>2. \A e \in F : e.seq \in Nat /\ e.at \in Nat  BY <1>1 DEF Event
<1>3. PICK n \in Seqs : \A m \in Seqs : n <= m
  <2>1. Seqs \in SUBSET Nat /\ Seqs # {}  BY <1>1, <1>2
  <2> HIDE DEF Seqs
  <2> QED  BY <2>1, LeastNat
<1> DEFINE G == {e \in F : e.seq = n}
           Ats == {e.at : e \in G}
<1>4. PICK a \in Ats : \A b \in Ats : a <= b
  <2>1. Ats \in SUBSET Nat /\ Ats # {}  BY <1>2, <1>3
  <2> HIDE DEF Ats
  <2> QED  BY <2>1, LeastNat
<1>5. PICK e \in G : e.at = a  OBVIOUS
<1>6. \A f \in F : e = f \/ Before(e, f)
  <2> TAKE f \in F
  <2>1. n <= f.seq /\ e \in F /\ e.seq = n  BY <1>3, <1>5
  <2>2. f.seq = n => e.at <= f.at  BY <1>4, <1>5
  <2>3. e.at = f.at => e = f  BY <1>1, <2>1
  <2> QED  BY <1>2, <2>1, <2>2, <2>3 DEF Before
<1>7. IsFirst(e, j)  BY <1>5, <1>6 DEF IsFirst
<1>8. \A f \in log[j] : IsFirst(f, j) => f = e
  <2>1. SUFFICES ASSUME NEW f \in log[j], IsFirst(f, j), f # e  PROVE FALSE  OBVIOUS
  <2>2. Before(e, f) /\ Before(f, e) /\ e \in F /\ f \in F
    BY <1>5, <1>7, <2>1 DEF IsFirst
  <2> QED  BY <1>2, <2>2 DEF Before
<1>9. FirstFetching(j) = CHOOSE x \in log[j] : IsFirst(x, j)  BY DEF FirstFetching, IsFirst
<1>10. FirstFetching(j) \in log[j] /\ IsFirst(FirstFetching(j), j)
  BY <1>7, <1>9 DEF IsFirst
<1> QED  BY <1>8, <1>10

----------------------------------------------------------------------------
\* What an assignment to one actor's hand makes of the hands.
Alone(a) == \A b \in Actors \ {a} : hand'[b] = hand[b]
Goal(a) == hand' \in [Actors -> Hands] /\ Alone(a)

LEMMA FreeHand ==
    /\ Free \in Hands /\ \A a \in Actors : Good(a, Free)
    /\ Free.pc = "idle" /\ Free.stage = "queued" /\ Free.late = 0 /\ Free.held = FALSE
BY JobsBounds DEF Free, Counts, Hands, Places, Stages, Good, Asked, Appending

LEMMA Lets ==
    ASSUME HandsOK, NEW a \in Actors, NEW h \in Hands, hand' = [hand EXCEPT ![a] = h]
    PROVE  Goal(a) /\ hand'[a] = h
BY DEF HandsOK, Goal, Alone

LEMMA WritesHand ==
    ASSUME HandsOK, NEW a \in Actors, NEW stage \in Stages, Writes(a, stage)
    PROVE  /\ Goal(a) /\ hand'[a].pc = "mint" /\ hand'[a].stage = stage
           /\ hand'[a].job = hand[a].job /\ hand'[a].late = 0 /\ hand'[a].held = hand[a].held
<1>1. 0 \in Counts /\ "mint" \in Places /\ hand[a] \in Hands
  BY JobsBounds DEF Counts, Places, Appending, HandsOK
<1> DEFINE h == [hand[a] EXCEPT !.pc = "mint", !.stage = stage, !.calls = 0, !.late = 0]
<1>2. h \in Hands  BY <1>1 DEF Hands
<1>3. /\ h.pc = "mint" /\ h.stage = stage /\ h.job = hand[a].job /\ h.late = 0
      /\ h.held = hand[a].held
  BY <1>1 DEF Hands
<1>4. hand' = [hand EXCEPT ![a] = h]  BY DEF Writes
<1> HIDE DEF h
<1> QED  BY <1>2, <1>3, <1>4, Lets

\* A step that neither numbers nor commits an event, of an actor that stays with its job, or
\* leaves one that does not need it any more.
LEMMA Quiet ==
    ASSUME LogInv, NEW a \in Actors, Goal(a), log' = log, hurt \subseteq hurt',
           Good(a, hand'[a]), hand'[a].pc # "commit",
           hand[a].pc # "idle" =>
               LET j == hand[a].job IN
               \/ hand'[a].pc # "idle" /\ hand'[a].job = j
               \/ j \in hurt'
               \/ \A e \in log[j] : IsFirst(e, j) => e.by # a
               \/ Ended(j)
    PROVE  LogInv'
<1>1. HandsOK'
  <2>1. \A b \in Actors : Good(b, hand'[b])  BY DEF LogInv, HandsOK, Goal, Alone
  <2> QED  BY <2>1 DEF HandsOK, Goal, Good, Has
<1>2. Numbered'  BY DEF LogInv, Numbered
<1>3. Uncommitted'
  <2> SUFFICES ASSUME NEW b \in Actors, hand'[b].pc = "commit"  PROVE Minted(b)'
    BY DEF Uncommitted, Minted
  <2>1. b # a /\ hand'[b] = hand[b] /\ Minted(b)  BY DEF Goal, Alone, LogInv, Uncommitted
  <2>2. \A c \in Actors \ {b} : hand'[c].pc = "commit" => hand'[c] = hand[c]
    BY DEF Goal, Alone
  <2> QED  BY <2>1, <2>2 DEF Minted
<1>4. HeldByFirst'
  <2> SUFFICES ASSUME NEW j \in Jobs, j \notin hurt', NEW e \in log[j], IsFirst(e, j), ~Ended(j)
               PROVE  On(e.by, j)'
    BY DEF HeldByFirst, IsFirst, Ended
  <2>1. On(e.by, j) /\ j \notin hurt  BY DEF LogInv, HeldByFirst
  <2>2. e.by \in Actors  
    BY DEF LogInv, Numbered, IsFirst, Asked, Actors
  <2>3. CASE e.by # a  BY <2>1, <2>2, <2>3 DEF On, Goal, Alone
  <2>4. CASE e.by = a  BY <2>1, <2>4 DEF On
  <2> QED  BY <2>3, <2>4
<1>5. OwnStagesInOrder'  BY DEF LogInv, OwnStagesInOrder
<1> QED  BY <1>1, <1>2, <1>3, <1>4, <1>5 DEF LogInv

LEMMA JobsInitInv == Init => JobsInv
<1> SUFFICES ASSUME Init PROVE JobsInv  OBVIOUS
<1>1. TablesOK
  <2>1. /\ rows = [j \in Jobs |-> {}] /\ silver = [j \in Jobs |-> 0]
        /\ request = [j \in Jobs |-> NoRequest] /\ faults = 0 /\ hurt = {} /\ crowded = {}
    BY DEF Init
  <2> QED  BY <2>1, JobsBounds DEF TablesOK
<1>2. HandsOK
  <2>1. hand = [a \in Actors |-> Free]  BY DEF Init
  <2> QED  BY <2>1, FreeHand DEF HandsOK
<1>3. /\ \A j \in Jobs : log[j] = {} /\ log \in [Jobs -> SUBSET Event]
      /\ \A a \in Actors : hand[a] = Free
  BY DEF Init
<1>4. Numbered
  <2>1. log \in [Jobs -> SUBSET Event]  BY DEF Init
  <2>2. IsFiniteSet({})  BY FS_EmptySet
  <2> QED  BY <1>3, <2>1, <2>2 DEF Numbered
<1>5. Uncommitted  BY <1>3, FreeHand DEF Uncommitted, Minted
<1>6. HeldByFirst /\ OwnStagesInOrder  BY <1>3 DEF HeldByFirst, OwnStagesInOrder
<1> QED  BY <1>1, <1>2, <1>4, <1>5, <1>6 DEF JobsInv, LogInv

----------------------------------------------------------------------------
\* An actor that lets go of a job that is hurt or ended, or that it does not hold.
LEMMA LetsGo ==
    ASSUME LogInv, NEW a \in Actors, hand' = [hand EXCEPT ![a] = Free], log' = log,
           hurt \subseteq hurt',
           LET j == hand[a].job IN
               \/ hand[a].pc = "idle" \/ j \in hurt' \/ Ended(j)
               \/ \A e \in log[j] : IsFirst(e, j) => e.by # a
    PROVE  LogInv'
<1>1. HandsOK  BY DEF LogInv
<1>2. Goal(a) /\ hand'[a] = Free  BY <1>1, FreeHand, Lets
<1>3. Good(a, hand'[a]) /\ hand'[a].pc # "commit"  BY <1>2, FreeHand
<1> QED  BY <1>2, <1>3, Quiet

\* An actor that begins with a job: its first append, or the row of a new job.
LEMMA Begins ==
    ASSUME LogInv, NEW a \in Actors, NEW h \in Hands, hand' = [hand EXCEPT ![a] = h],
           hand[a].pc = "idle", log' = log, hurt' = hurt,
           h.pc \in {"mint", "insert"}, h.job \in Jobs, h.late = 0, h.held = FALSE,
           a \in Clients => h.stage \in Asked,
           a \in Workers => h.stage \in Working \cup Ends /\ h.pc = "mint"
    PROVE  LogInv'
<1>1. Goal(a) /\ hand'[a] = h  BY Lets DEF LogInv
<1>2. Good(a, h) /\ h.pc # "commit"  BY DEF Good, Appending
<1> QED  BY <1>1, <1>2, Quiet

\* The next append of an actor within its job.
LEMMA WritesOn ==
    ASSUME LogInv, NEW a \in Actors, NEW stage \in Stages, Writes(a, stage), hand[a].pc # "idle",
           log' = log, hurt' = hurt,
           a \in Clients => stage \in Asked,
           a \in Workers => stage \in Working \cup Ends
    PROVE  LogInv'
<1>1. HandsOK /\ Good(a, hand[a])  BY DEF LogInv, HandsOK
<1>2. /\ Goal(a) /\ hand'[a].pc = "mint" /\ hand'[a].stage = stage
      /\ hand'[a].job = hand[a].job /\ hand'[a].late = 0 /\ hand'[a].held = hand[a].held
  BY <1>1, WritesHand
<1>3. Good(a, hand'[a])  BY <1>1, <1>2 DEF Good, Appending
<1> QED  BY <1>2, <1>3, Quiet

LEMMA ApiInv ==
    ASSUME JobsInv, NEW c \in Clients, NEW j \in Jobs,
           Insert(c) \/ Cancel(c, j) \/ \E f \in Requests : Create(c, f, j)
    PROVE  LogInv'
<1>1. LogInv /\ c \in Actors /\ c \notin Workers /\ "queued" \in Stages /\ "cancel_pending" \in Stages
      /\ "queued" \in Asked /\ "cancel_pending" \in Asked /\ {"mint", "insert"} \subseteq Places
  BY JobsBounds DEF JobsInv, Actors, Stages, TERMINAL, Asked, Places, Appending
<1>2. CASE Insert(c)
  <2>1. Writes(c, "queued") /\ hand[c].pc # "idle" /\ log' = log /\ hurt' = hurt  BY <1>2 DEF Insert
  <2> QED  BY <1>1, <2>1, WritesOn
<1>3. CASE Cancel(c, j)
  <2> DEFINE h == [Free EXCEPT !.pc = "mint", !.job = j, !.stage = "cancel_pending"]
  <2>2. h \in Hands /\ h.pc = "mint" /\ h.job = j /\ h.stage = "cancel_pending" /\ h.late = 0 /\ h.held = FALSE
    BY <1>1, FreeHand DEF Hands
  <2>1. /\ hand[c].pc = "idle" /\ log' = log /\ hurt' = hurt
        /\ hand' = [hand EXCEPT ![c] = h]
    BY <1>3 DEF Cancel, tables
  <2> HIDE DEF h
  <2> QED  BY <1>1, <2>1, <2>2, Begins
<1>4. CASE \E f \in Requests : Create(c, f, j)
  <2> DEFINE h == [Free EXCEPT !.pc = "insert", !.job = j]
  <2>1. h \in Hands /\ h.pc = "insert" /\ h.job = j /\ h.stage = "queued" /\ h.late = 0 /\ h.held = FALSE
    BY <1>1, FreeHand DEF Hands
  <2>2. /\ hand[c].pc = "idle" /\ log' = log /\ hurt' = hurt
        /\ hand' = [hand EXCEPT ![c] = h]
    BY <1>4 DEF Create
  <2> HIDE DEF h
  <2> QED  BY <1>1, <2>1, <2>2, Begins
<1> QED  BY <1>2, <1>3, <1>4

LEMMA PollInv ==
    ASSUME JobsInv, NEW w \in Workers, NEW j \in Jobs, ClaimCheck(w, j) \/ CloseCancelled(w, j)
    PROVE  LogInv'
<1>1. LogInv /\ w \in Actors /\ w \notin Clients /\ "fetching" \in Stages /\ "cancelled" \in Stages
      /\ "fetching" \in Working /\ "cancelled" \in Ends /\ "mint" \in Places
  BY JobsBounds DEF JobsInv, Actors, Stages, TERMINAL, Working, Ends, Places, Appending
<1>2. CASE ClaimCheck(w, j)
  <2> DEFINE h == [Free EXCEPT !.pc = "mint", !.job = j, !.stage = "fetching"]
  <2>2. h \in Hands /\ h.pc = "mint" /\ h.job = j /\ h.stage = "fetching" /\ h.late = 0 /\ h.held = FALSE
    BY <1>1, FreeHand DEF Hands
  <2>1. /\ hand[w].pc = "idle" /\ log' = log /\ hurt' = hurt
        /\ hand' = [hand EXCEPT ![w] = h]
    BY <1>2 DEF ClaimCheck, tables
  <2> HIDE DEF h
  <2> QED  BY <1>1, <2>1, <2>2, Begins
<1>3. CASE CloseCancelled(w, j)
  <2> DEFINE h == [Free EXCEPT !.pc = "mint", !.job = j, !.stage = "cancelled"]
  <2>2. h \in Hands /\ h.pc = "mint" /\ h.job = j /\ h.stage = "cancelled" /\ h.late = 0 /\ h.held = FALSE
    BY <1>1, FreeHand DEF Hands
  <2>1. /\ hand[w].pc = "idle" /\ log' = log /\ hurt' = hurt
        /\ hand' = [hand EXCEPT ![w] = h]
    BY <1>3 DEF CloseCancelled, tables
  <2> HIDE DEF h
  <2> QED  BY <1>1, <2>1, <2>2, Begins
<1> QED  BY <1>2, <1>3

\* A step of an actor within its job.
LEMMA MovesOn ==
    ASSUME LogInv, NEW a \in Actors, NEW h \in Hands, hand' = [hand EXCEPT ![a] = h],
           log' = log, hurt \subseteq hurt', Good(a, h), h.job = hand[a].job,
           h.pc # "idle", h.pc # "commit"
    PROVE  LogInv'
<1>1. Goal(a) /\ hand'[a] = h  BY Lets DEF LogInv
<1> QED  BY <1>1, Quiet

LEMMA DecideInv == ASSUME LogInv, NEW w \in Workers, Decide(w) PROVE LogInv'
<1> DEFINE j == hand[w].job
           mine == FirstFetching(j).by = w
<1>1. /\ w \in Actors /\ w \notin Clients /\ hand[w] \in Hands /\ Good(w, hand[w]) /\ Numbered
      /\ hand[w].pc = "decide" /\ log' = log /\ hurt' = hurt
  BY JobsBounds DEF LogInv, HandsOK, Decide, tables, Actors
<1>2. j \in Jobs /\ hand[w].late = 0 /\ hand[w].stage \in Working \cup Ends
  BY <1>1 DEF Good, Appending, Hands
<1>3. CASE ~mine /\ hand' = [hand EXCEPT ![w] = Free]
  <2>1. \A e \in log[j] : IsFirst(e, j) => e.by # w
    <3> SUFFICES ASSUME NEW e \in log[j], IsFirst(e, j)  PROVE e.by # w  OBVIOUS
    <3>1. Has(j, "fetching")  BY DEF Has, IsFirst
    <3> QED  BY <1>1, <1>2, <1>3, <3>1, FirstExists
  <2> QED  BY <1>1, <1>3, <2>1, LetsGo
<1>4. ASSUME NEW n \in Counts, hand' = [hand EXCEPT ![w] = [@ EXCEPT !.pc = "next", !.held = TRUE, !.calls = n]]
      PROVE  LogInv'
  <2> DEFINE h == [hand[w] EXCEPT !.pc = "next", !.held = TRUE, !.calls = n]
  <2>1. "next" \in Places  BY DEF Places
  <2>2. h \in Hands  BY <1>1, <2>1 DEF Hands
  <2>3. h.pc = "next" /\ h.job = j /\ h.stage = hand[w].stage /\ h.late = 0  BY <1>1, <1>2 DEF Hands
  <2>4. hand' = [hand EXCEPT ![w] = h]  BY <1>4
  <2> HIDE DEF h
  <2>5. Good(w, h)  BY <1>1, <1>2, <2>3 DEF Good
  <2> QED  BY <1>1, <2>2, <2>3, <2>4, <2>5, MovesOn
<1>5. CASE hand' = [hand EXCEPT ![w] = [@ EXCEPT !.pc = "mint", !.held = TRUE, !.stage = "failed"]]
  <2> DEFINE h == [hand[w] EXCEPT !.pc = "mint", !.held = TRUE, !.stage = "failed"]
  <2>1. "mint" \in Places /\ "failed" \in Stages /\ "failed" \in Ends
    BY DEF Places, Appending, Stages, TERMINAL, Ends
  <2>2. h \in Hands  BY <1>1, <2>1 DEF Hands
  <2>3. h.pc = "mint" /\ h.job = j /\ h.stage = "failed" /\ h.late = 0  BY <1>1, <1>2 DEF Hands
  <2>4. hand' = [hand EXCEPT ![w] = h]  BY <1>5
  <2> HIDE DEF h
  <2>5. Good(w, h)  BY <1>1, <1>2, <2>1, <2>3 DEF Good
  <2> QED  BY <1>1, <2>2, <2>3, <2>4, <2>5, MovesOn
<1> QED  BY <1>3, <1>4, <1>5 DEF Decide, Counts

LEMMA CheckCancelInv == ASSUME LogInv, NEW w \in Workers, CheckCancel(w) PROVE LogInv'
<1>1. /\ w \in Actors /\ w \notin Clients /\ hand[w] \in Hands /\ Good(w, hand[w])
      /\ hand[w].pc = "next" /\ log' = log /\ hurt' = hurt
  BY JobsBounds DEF LogInv, HandsOK, CheckCancel, tables, Actors
<1>2. /\ "bronze_retained" \in Working /\ "cancelled" \in Ends
      /\ "bronze_retained" \in Stages /\ "cancelled" \in Stages
  BY DEF Working, Ends, Stages, TERMINAL
<1>3. CASE Writes(w, "bronze_retained")  BY <1>1, <1>2, <1>3, WritesOn
<1>4. CASE Writes(w, "cancelled")  BY <1>1, <1>2, <1>4, WritesOn
<1>5. CASE hand[w].calls # 0 /\ ~Has(hand[w].job, "cancel_pending") /\ Goes(w, "get")
  <2> DEFINE h == [hand[w] EXCEPT !.pc = "get"]
  <2>1. "get" \in Places  BY DEF Places
  <2>2. h \in Hands  BY <1>1, <2>1 DEF Hands
  <2>3. /\ h.pc = "get" /\ h.job = hand[w].job /\ h.stage = hand[w].stage
        /\ h.late = hand[w].late /\ h.calls = hand[w].calls
    BY <1>1 DEF Hands
  <2>4. hand' = [hand EXCEPT ![w] = h]  BY <1>5 DEF Goes
  <2> HIDE DEF h
  <2>5. hand[w].calls > 0  BY <1>1, <1>5, JobsBounds DEF Hands, Counts
  <2>6. h.late # 1  BY <1>1, <1>5, <2>3 DEF Good, Appending
  <2>7. Good(w, h)  BY <1>1, <2>3, <2>5, <2>6 DEF Good, Appending
  <2> QED  BY <1>1, <2>2, <2>3, <2>4, <2>7, MovesOn
<1> QED  BY <1>3, <1>4, <1>5 DEF CheckCancel

LEMMA GetInv == ASSUME LogInv, NEW w \in Workers, Get(w) PROVE LogInv'
<1> DEFINE j == hand[w].job
           late == IF Has(j, "cancel_pending") THEN hand[w].late + 1 ELSE hand[w].late
<1>1. /\ w \in Actors /\ w \notin Clients /\ hand[w] \in Hands /\ Good(w, hand[w])
      /\ hand[w].pc = "get" /\ log' = log /\ hurt' = hurt
  BY JobsBounds DEF LogInv, HandsOK, Get, tables, Actors
<1>2. /\ hand[w].late = 0 /\ hand[w].calls - 1 \in Counts /\ late \in {0, 1} /\ j \in Jobs
      /\ (late = 1 => Has(j, "cancel_pending"))
  <2>1. hand[w].late = 0 /\ hand[w].calls > 0 /\ j \in Jobs  BY <1>1 DEF Good, Hands, Appending
  <2>2. hand[w].calls \in 0..MaxCalls /\ MaxCalls \in Nat  BY <1>1, JobsBounds DEF Hands, Counts
  <2>3. hand[w].calls - 1 \in Counts  BY <2>1, <2>2 DEF Counts
  <2> QED  BY <2>1, <2>3
<1> HIDE DEF late
<1>4. CASE hand' = [hand EXCEPT ![w] = [@ EXCEPT !.pc = "next", !.calls = hand[w].calls - 1,
                                              !.late = late, !.got = TRUE]]
  <2> DEFINE h == [hand[w] EXCEPT !.pc = "next", !.calls = hand[w].calls - 1, !.late = late,
                              !.got = TRUE]
  <2>1. "next" \in Places /\ late \in {0, 1}  BY <1>2 DEF Places
  <2>2. h \in Hands  BY <1>1, <1>2, <2>1 DEF Hands
  <2>3. h.pc = "next" /\ h.job = j /\ h.stage = hand[w].stage /\ h.late = late  BY <1>1, <1>2 DEF Hands
  <2>4. hand' = [hand EXCEPT ![w] = h]  BY <1>4
  <2> HIDE DEF h
  <2>5. Good(w, h)  BY <1>1, <1>2, <2>3 DEF Good
  <2> QED  BY <1>1, <2>2, <2>3, <2>4, <2>5, MovesOn
<1>5. ASSUME NEW refusal \in {"rate_limited", "entitlement_denied", "failed"},
             hand' = [hand EXCEPT ![w] = [@ EXCEPT !.pc = "mint", !.stage = refusal, !.late = late]]
      PROVE  LogInv'
  <2> DEFINE h == [hand[w] EXCEPT !.pc = "mint", !.stage = refusal, !.late = late]
  <2>1. "mint" \in Places /\ late \in {0, 1}  BY <1>2 DEF Places, Appending
  <2>2. refusal \in Ends /\ refusal \in Stages  BY DEF Ends, Stages, TERMINAL
  <2>3. h \in Hands  BY <1>1, <2>1, <2>2 DEF Hands
  <2>4. h.pc = "mint" /\ h.job = j /\ h.stage = refusal  BY <1>1 DEF Hands
  <2>5. hand' = [hand EXCEPT ![w] = h]  BY <1>5
  <2> HIDE DEF h
  <2>6. Good(w, h)  BY <1>1, <1>2, <2>2, <2>4 DEF Good, Appending
  <2> QED  BY <1>1, <2>3, <2>4, <2>5, <2>6, MovesOn
<1> QED  BY <1>4, <1>5 DEF Get, late

LEMMA JudgeInv == ASSUME LogInv, NEW w \in Workers, Judge(w) \/ Publish(w) PROVE LogInv'
<1>1. /\ w \in Actors /\ w \notin Clients /\ hand[w].pc # "idle" /\ log' = log /\ hurt' = hurt
  BY JobsBounds DEF Judge, Publish, tables, Actors
<1>2. PICK stage \in {"validation_failed", "partial", "failed", "silver_ready", "gold_ready"} :
          Writes(w, stage)
  BY DEF Judge, Publish
<1>3. stage \in Working \cup Ends /\ stage \in Stages  BY DEF Working, Ends, Stages, TERMINAL
<1> QED  BY <1>1, <1>2, <1>3, WritesOn

----------------------------------------------------------------------------
\* The append.

LEMMA RowInv == ASSUME JobsInv, NEW a \in Actors, ReadRow(a) PROVE LogInv'
<1>1. /\ LogInv /\ hand[a] \in Hands /\ Good(a, hand[a]) /\ hand[a].pc = "row"
      /\ log' = log /\ hurt' = hurt /\ hand[a].job \in Jobs
  BY DEF JobsInv, LogInv, HandsOK, ReadRow, tables, Good
<1>2. PICK row \in rows[hand[a].job] : hand' = [hand EXCEPT ![a] = [@ EXCEPT !.pc = "carry", !.seq = row.seq]]
  BY DEF ReadRow
<1> DEFINE h == [hand[a] EXCEPT !.pc = "carry", !.seq = row.seq]
<1>3. row.seq \in Nat /\ "carry" \in Places
  BY <1>1, <1>2 DEF JobsInv, TablesOK, Row, Places, Appending
<1>4. h \in Hands  BY <1>1, <1>3 DEF Hands
<1>5. h.pc = "carry" /\ h.job = hand[a].job /\ h.stage = hand[a].stage /\ h.late = hand[a].late
      /\ h.held = hand[a].held
  BY <1>1 DEF Hands
<1>6. hand' = [hand EXCEPT ![a] = h]  BY <1>2
<1> HIDE DEF h
<1>7. Good(a, h)  BY <1>1, <1>5 DEF Good, Appending
<1> QED  BY <1>1, <1>4, <1>5, <1>6, <1>7, MovesOn

LEMMA CarryInv == ASSUME LogInv, NEW a \in Actors, CarryRow(a) PROVE LogInv'
<1> DEFINE x == [hand[a] EXCEPT !.seq = 0]
<1>1. /\ hand[a] \in Hands /\ Good(a, hand[a]) /\ hand[a].pc = "carry" /\ log' = log /\ hurt' = hurt
      /\ hand' = [hand EXCEPT ![a] = After(x)] /\ hand[a].job \in Jobs /\ Numbered
  BY DEF LogInv, HandsOK, CarryRow, Good
<1>2. /\ x \in Hands /\ x.job = hand[a].job /\ x.stage = hand[a].stage /\ x.late = hand[a].late
      /\ x.held = hand[a].held
  BY <1>1 DEF Hands
<1> HIDE DEF x
<1>3. CASE x.stage \in Working
  <2>1. a \in Workers /\ a \notin Clients /\ x.late = 0
    BY <1>1, <1>2, <1>3 DEF Good, Working, Ends, Asked, Actors, Hands
  <2>2. ASSUME NEW h \in Hands, hand' = [hand EXCEPT ![a] = h], h.job = x.job, h.late = x.late,
               h.stage \in Working, h.pc \in {"decide", "mint", "judge", "publish"}
        PROVE  LogInv'
    <3>1. Good(a, h)  BY <1>1, <1>2, <2>1, <2>2 DEF Good
    <3> QED  BY <1>1, <1>2, <2>2, <3>1, MovesOn
  <2>3. ASSUME NEW pc \in {"decide", "judge", "publish"}, After(x) = [x EXCEPT !.pc = pc]  PROVE LogInv'
    <3> DEFINE h == [x EXCEPT !.pc = pc]
    <3>1. pc \in Places  BY DEF Places
    <3>2. h \in Hands  BY <1>2, <3>1 DEF Hands
    <3>3. h.pc = pc /\ h.job = x.job /\ h.late = x.late /\ h.stage = x.stage  BY <1>2 DEF Hands
    <3>4. hand' = [hand EXCEPT ![a] = h]  BY <1>1, <2>3
    <3> HIDE DEF h
    <3> QED  BY <1>3, <2>2, <3>2, <3>3, <3>4
  <2>4. ASSUME NEW stage \in Working, After(x) = [x EXCEPT !.pc = "mint", !.stage = stage]  PROVE LogInv'
    <3> DEFINE h == [x EXCEPT !.pc = "mint", !.stage = stage]
    <3>1. "mint" \in Places /\ stage \in Stages  BY DEF Places, Appending, Stages
    <3>2. h \in Hands  BY <1>2, <3>1 DEF Hands
    <3>3. h.pc = "mint" /\ h.job = x.job /\ h.late = x.late /\ h.stage = stage  BY <1>2 DEF Hands
    <3>4. hand' = [hand EXCEPT ![a] = h]  BY <1>1, <2>4
    <3> HIDE DEF h
    <3> QED  BY <2>2, <3>2, <3>3, <3>4
  <2>5. \/ After(x) = [x EXCEPT !.pc = "decide"] \/ After(x) = [x EXCEPT !.pc = "judge"]
        \/ After(x) = [x EXCEPT !.pc = "publish"]
        \/ After(x) = [x EXCEPT !.pc = "mint", !.stage = "normalizing"]
        \/ After(x) = [x EXCEPT !.pc = "mint", !.stage = "validating"]
        \/ After(x) = [x EXCEPT !.pc = "mint", !.stage = "materializing"]
    BY <1>3 DEF After, Working
  <2>6. {"normalizing", "validating", "materializing"} \subseteq Working  BY DEF Working
  <2> QED  BY <2>3, <2>4, <2>5, <2>6
<1>4. CASE x.stage \notin Working
  <2>1. After(x) = Free  BY <1>4 DEF After, Working
  <2>2. hand' = [hand EXCEPT ![a] = Free]  BY <1>1, <2>1
  <2>3. Ended(x.job) \/ \A e \in log[x.job] : IsFirst(e, x.job) => e.by # a
    <3>1. CASE a \in Workers
      <4>1. x.stage \in Ends /\ Has(x.job, x.stage)  BY <1>1, <1>2, <1>4, <3>1 DEF Good
      <4> QED  BY <4>1 DEF Ended, Has
    <3>2. CASE a \notin Workers  BY <1>1, <1>2, <3>2 DEF Numbered, IsFirst, Asked
    <3> QED  BY <3>1, <3>2
  <2> QED  BY <1>1, <1>2, <2>2, <2>3, LetsGo
<1> QED  BY <1>3, <1>4

LEMMA FailsInv == ASSUME LogInv, NEW a \in Actors, CommitFails(a) PROVE LogInv'
<1>1. /\ hand[a] \in Hands /\ Good(a, hand[a]) /\ hand[a].pc \in {"commit", "carry"} /\ log' = log
      /\ hurt' = hurt \cup {hand[a].job}
  BY DEF LogInv, HandsOK, CommitFails, tables
<1>2. CASE hand' = [hand EXCEPT ![a] = Free]
  <2>1. hurt \subseteq hurt' /\ hand[a].job \in hurt'  BY <1>1
  <2> QED  BY <1>1, <1>2, <2>1, LetsGo
<1>3. CASE /\ hand[a].held
           /\ hand' = [hand EXCEPT ![a] = [@ EXCEPT !.pc = "mint", !.stage = "failed", !.seq = 0, !.at = 0]]
  <2> DEFINE h == [hand[a] EXCEPT !.pc = "mint", !.stage = "failed", !.seq = 0, !.at = 0]
  <2>1. "mint" \in Places /\ "failed" \in Stages /\ "failed" \in Ends
    BY DEF Places, Appending, Stages, TERMINAL, Ends
  <2>2. h \in Hands  BY <1>1, <2>1 DEF Hands
  <2>3. h.pc = "mint" /\ h.job = hand[a].job /\ h.stage = "failed"  BY <1>1 DEF Hands
  <2>4. hand' = [hand EXCEPT ![a] = h]  BY <1>3
  <2>5. a \notin Clients  BY <1>1, <1>3 DEF Good
  <2> HIDE DEF h
  <2>6. Good(a, h)  BY <1>1, <2>1, <2>3, <2>5 DEF Good, Appending
  <2> QED  BY <1>1, <2>2, <2>3, <2>4, <2>6, MovesOn
<1> QED  BY <1>2, <1>3 DEF CommitFails

LEMMA MintInv == ASSUME LogInv, NEW a \in Actors, Mint(a) PROVE LogInv'
<1> DEFINE j == hand[a].job
           h == [hand[a] EXCEPT !.pc = "commit", !.seq = Cardinality(log[j]), !.at = Now(j)]
<1>1. /\ hand[a] \in Hands /\ Good(a, hand[a]) /\ hand[a].pc = "mint" /\ log' = log
      /\ hurt' = hurt /\ j \in Jobs /\ HandsOK /\ Numbered /\ hand' = [hand EXCEPT ![a] = h]
  BY DEF LogInv, HandsOK, Mint, tables, Good
<1>2. Cardinality(log[j]) \in Nat
  <2>1. IsFiniteSet(log[j])  BY <1>1 DEF Numbered
  <2> QED  BY <2>1, FS_CardinalityType
<1>3. /\ Now(j) \in Nat /\ \A e \in log[j] : e.at < Now(j)
      /\ \A b \in Actors : On(b, j) => hand[b].at < Now(j)
  BY <1>1, NowIsLater
<1>4. h \in Hands
  <2>1. "commit" \in Places  BY DEF Places, Appending
  <2> QED  BY <1>1, <1>2, <1>3, <2>1 DEF Hands
<1>5. /\ h.pc = "commit" /\ h.job = j /\ h.stage = hand[a].stage /\ h.seq = Cardinality(log[j])
      /\ h.at = Now(j) /\ h.late = hand[a].late /\ h.held = hand[a].held
  BY <1>1 DEF Hands
<1> HIDE DEF h
<1>6. Goal(a) /\ hand'[a] = h  BY <1>1, <1>4, Lets
<1>7. Good(a, h)  BY <1>1, <1>5 DEF Good, Appending
<1>8. HandsOK'
  <2>1. \A b \in Actors : Good(b, hand'[b])  BY <1>1, <1>6, <1>7 DEF HandsOK, Goal, Alone
  <2> QED  BY <1>1, <1>6, <2>1 DEF HandsOK, Goal, Good, Has
<1>9. Numbered'  BY <1>1 DEF Numbered
<1>10. Minted(a)'
  <2>1. \A e \in log[j] : e.at \in Nat /\ e.at # Now(j) /\ e.at < Now(j) /\ e.seq < Cardinality(log[j])
    BY <1>1, <1>3 DEF Numbered, Event
  <2>2. \A b \in Actors \ {a} : hand'[b].pc = "commit" /\ hand'[b].job = j => hand'[b].at # Now(j)
    <3> SUFFICES ASSUME NEW b \in Actors \ {a}, hand'[b].pc = "commit", hand'[b].job = j
                 PROVE  hand'[b].at # Now(j)
      OBVIOUS
    <3>1. hand'[b] = hand[b]  BY <1>6 DEF Goal, Alone
    <3>2. On(b, j) /\ hand[b].at \in Nat  BY <1>1, <3>1 DEF On, HandsOK, Hands
    <3>3. hand[b].at < Now(j)  BY <1>3, <3>2
    <3> QED  BY <1>3, <3>1, <3>2, <3>3
  <2> QED  BY <1>1, <1>2, <1>5, <1>6, <2>1, <2>2 DEF Minted
<1>11. Uncommitted'
  <2> SUFFICES ASSUME NEW b \in Actors, hand'[b].pc = "commit"  PROVE Minted(b)'
    BY DEF Uncommitted, Minted
  <2>1. CASE b = a  BY <1>10, <2>1
  <2>2. CASE b # a
    <3>1. hand'[b] = hand[b] /\ Minted(b)  BY <1>6, <2>2 DEF Goal, Alone, LogInv, Uncommitted
    <3>2. \A c \in Actors \ {b} : c # a => hand'[c] = hand[c]  BY <1>6 DEF Goal, Alone
    <3>3. hand[b].job = j => hand[b].at # h.at
      <4> SUFFICES ASSUME hand[b].job = j PROVE hand[b].at # Now(j)  BY <1>5
      <4>1. On(b, j) /\ hand[b].at \in Nat  BY <1>1, <3>1 DEF On, HandsOK, Hands
      <4>2. hand[b].at < Now(j)  BY <1>3, <4>1
      <4> QED  BY <1>3, <4>1, <4>2
    <3> QED  BY <1>1, <1>5, <1>6, <3>1, <3>2, <3>3 DEF Minted
  <2> QED  BY <2>1, <2>2
<1>12. HeldByFirst'
  <2>1. \A b \in Actors, k \in Jobs : On(b, k) => On(b, k)'
    BY <1>1, <1>5, <1>6 DEF On, Goal, Alone
  <2> SUFFICES ASSUME NEW k \in Jobs, k \notin hurt, NEW e \in log[k], IsFirst(e, k), ~Ended(k)
               PROVE  On(e.by, k)'
    BY <1>1 DEF HeldByFirst, IsFirst, Ended
  <2>2. On(e.by, k)  BY DEF LogInv, HeldByFirst
  <2>3. e.by \in Actors  BY <1>1 DEF Numbered, IsFirst, Asked, Actors
  <2> QED  BY <2>1, <2>2, <2>3
<1>13. OwnStagesInOrder'  BY <1>1 DEF LogInv, OwnStagesInOrder
<1> QED  BY <1>8, <1>9, <1>11, <1>12, <1>13 DEF LogInv

\* The only step that changes the log.
LEMMA CommitInv == ASSUME LogInv, NEW a \in Actors, Commit(a) PROVE LogInv'
<1> DEFINE j == hand[a].job
           ev == [seq |-> hand[a].seq, at |-> hand[a].at, stage |-> hand[a].stage, by |-> Name(a)]
           h == [hand[a] EXCEPT !.pc = "row", !.seq = 0, !.at = 0]
<1>1. /\ hand[a] \in Hands /\ Good(a, hand[a]) /\ hand[a].pc = "commit" /\ hurt' = hurt /\ j \in Jobs
      /\ HandsOK /\ Numbered /\ Minted(a) /\ hand' = [hand EXCEPT ![a] = h]
      /\ log' = [log EXCEPT ![j] = @ \cup {ev}]
  BY DEF LogInv, HandsOK, Commit, Good, Uncommitted
<1>2. h \in Hands
  <2>1. "row" \in Places  BY DEF Places, Appending
  <2> QED  BY <1>1, <2>1 DEF Hands
<1>3. /\ h.pc = "row" /\ h.job = j /\ h.stage = hand[a].stage /\ h.late = hand[a].late
      /\ h.held = hand[a].held
  BY <1>1 DEF Hands
<1>4. /\ ev \in Event /\ ev.seq = hand[a].seq /\ ev.at = hand[a].at /\ ev.stage = hand[a].stage
      /\ ev.by = Name(a)
  BY <1>1, JobsBounds DEF Hands, Event, Name, Api
<1> HIDE DEF h, ev
<1>5. Goal(a) /\ hand'[a] = h  BY <1>1, <1>2, Lets
<1>6. /\ log[j] \in SUBSET Event /\ IsFiniteSet(log[j]) /\ ev \notin log[j]
      /\ Cardinality(log[j]) \in Nat
  <2>1. log[j] \in SUBSET Event /\ IsFiniteSet(log[j])  BY <1>1 DEF Numbered
  <2>2. ev \notin log[j]  BY <1>1, <1>4 DEF Minted
  <2> QED  BY <2>1, <2>2, FS_CardinalityType
<1>7. /\ log' \in [Jobs -> SUBSET Event] /\ log'[j] = log[j] \cup {ev}
      /\ \A k \in Jobs \ {j} : log'[k] = log[k]
  BY <1>1, <1>4 DEF Numbered
<1>8. IsFiniteSet(log'[j]) /\ Cardinality(log'[j]) = Cardinality(log[j]) + 1
  BY <1>6, <1>7, FS_AddElement
<1>9. \A k \in Jobs : log[k] \subseteq log'[k]  BY <1>7
<1>10. a \in Workers => ev.by = a  BY <1>4 DEF Name
<1>11. a \notin Workers => ev.by = Api /\ ev.stage \in Asked
  BY <1>1, <1>4 DEF Name, Good, Actors
<1>12. HandsOK'
  <2>1. \A k \in Jobs : \A stage : Has(k, stage) => Has(k, stage)'  BY <1>9 DEF Has
  <2>2. ASSUME NEW b \in Actors \ {a}  PROVE Good(b, hand[b])'
    <3>1. hand'[b] = hand[b] /\ Good(b, hand[b]) /\ hand[b] \in Hands
      BY <1>1, <1>5 DEF HandsOK, Goal, Alone
    <3>2. CASE hand[b].pc = "idle"  BY <3>1, <3>2 DEF Good, Appending
    <3>3. CASE hand[b].pc # "idle"
      <4>1. hand[b].job \in Jobs  BY <3>1, <3>3 DEF Good
      <4> QED  BY <2>1, <3>1, <4>1 DEF Good
    <3> QED  BY <3>2, <3>3
  <2>3. Good(a, hand[a])'
    <3>1. hand'[a] = h /\ h.job = j /\ h.stage = ev.stage  BY <1>3, <1>4, <1>5
    <3>2. \E e \in log'[hand'[a].job] : e.stage = hand'[a].stage  BY <1>7, <3>1
    <3>3. hand[a].late = 1 => hand[a].stage \in Ends  BY <1>1 DEF Good
    <3> QED  BY <1>1, <1>3, <3>1, <3>2, <3>3 DEF Good, Appending, Has
  <2> QED  BY <1>5, <2>2, <2>3 DEF HandsOK, Goal
<1>13. Numbered'
  <2>1. ASSUME NEW k \in Jobs \ {j}
        PROVE  /\ IsFiniteSet(log'[k])
               /\ \A e \in log'[k] : /\ e.by \in Workers \/ e.stage \in Asked
                                     /\ e.seq < Cardinality(log'[k])
               /\ \A e, f \in log'[k] : e.at = f.at => e = f
    BY <1>1, <1>7 DEF Numbered
  <2>2. \A e \in log'[j] : e.by \in Workers \/ e.stage \in Asked
    BY <1>1, <1>7, <1>10, <1>11 DEF Numbered
  <2>3. \A e \in log[j] : e.seq \in Nat /\ e.seq < Cardinality(log[j])
    BY <1>1, <1>6 DEF Numbered, Event
  <2>4. hand[a].seq \in Nat /\ hand[a].seq <= Cardinality(log[j])  BY <1>1 DEF Minted, Hands
  <2>5. \A e \in log'[j] : e.seq < Cardinality(log'[j])  BY <1>4, <1>6, <1>7, <1>8, <2>3, <2>4
  <2>6. \A e, f \in log'[j] : e.at = f.at => e = f
    BY <1>1, <1>4, <1>7 DEF Numbered, Minted
  <2> QED  BY <1>7, <1>8, <2>1, <2>2, <2>5, <2>6 DEF Numbered
<1>14. Uncommitted'
  <2> SUFFICES ASSUME NEW b \in Actors, hand'[b].pc = "commit"  PROVE Minted(b)'
    BY DEF Uncommitted, Minted
  <2>1. b # a /\ hand'[b] = hand[b] /\ Minted(b) /\ hand[b].pc = "commit"
    BY <1>3, <1>5 DEF Goal, Alone, LogInv, Uncommitted
  <2>2. hand[b].job \in Jobs /\ hand[b].seq \in Nat /\ Good(b, hand[b])
    BY <1>1, <2>1 DEF HandsOK, Good, Hands
  <2>3. \A c \in Actors \ {b} : hand'[c].pc = "commit" => hand'[c] = hand[c]
    BY <1>3, <1>5 DEF Goal, Alone
  <2>4. CASE hand[b].job # j
    <3>1. log'[hand[b].job] = log[hand[b].job]  BY <1>7, <2>2, <2>4
    <3> QED  BY <2>1, <2>3, <3>1 DEF Minted
  <2>5. CASE hand[b].job = j
    <3>1. ev.at # hand[b].at  BY <1>1, <1>4, <2>1, <2>5 DEF Minted
    <3>2. b \in Workers => ev.by # b  BY <1>10, <1>11, <2>1, JobsBounds
    <3>3. hand[b].seq <= Cardinality(log'[j])  BY <1>6, <1>8, <2>1, <2>2, <2>5 DEF Minted
    <3>4. \A e \in log'[j] : /\ e.at # hand[b].at
                             /\ b \in Workers /\ e.by = b => e.at < hand[b].at /\ e.seq < hand[b].seq
      BY <1>7, <2>1, <2>5, <3>1, <3>2 DEF Minted
    <3> QED  BY <2>1, <2>3, <2>5, <3>3, <3>4 DEF Minted
  <2> QED  BY <2>4, <2>5
<1>15. HeldByFirst'
  <2>1. \A b \in Actors, k \in Jobs : On(b, k) => On(b, k)'
    BY <1>1, <1>3, <1>5 DEF On, Goal, Alone
  <2> SUFFICES ASSUME NEW k \in Jobs, k \notin hurt, NEW e \in log'[k], IsFirst(e, k)'
               PROVE  On(e.by, k)' \/ Ended(k)'
    BY <1>1 DEF HeldByFirst
  <2>2. CASE e \in log[k]
    <3>1. IsFirst(e, k)  BY <1>9, <2>2 DEF IsFirst
    <3>2. On(e.by, k) \/ Ended(k)  BY <2>2, <3>1 DEF LogInv, HeldByFirst
    <3>3. Ended(k) => Ended(k)'  BY <1>9 DEF Ended
    <3>4. e.by \in Actors  BY <1>1, <3>1 DEF Numbered, IsFirst, Asked, Actors
    <3> QED  BY <2>1, <3>2, <3>3, <3>4
  <2>3. CASE e \notin log[k]
    <3>1. k = j /\ e = ev  BY <1>7, <2>3
    <3>2. ev.stage = "fetching"  BY <3>1 DEF IsFirst
    <3>3. a \in Workers /\ e.by = a  BY <1>10, <1>11, <3>1, <3>2 DEF Asked
    <3> QED  BY <1>3, <1>5, <3>1, <3>3 DEF On
  <2> QED  BY <2>2, <2>3
<1>16. OwnStagesInOrder'
  <2> SUFFICES ASSUME NEW k \in Jobs, NEW e \in log'[k], NEW f \in log'[k],
                      e.by = f.by, e.by # Api, e.at < f.at
               PROVE  e.seq < f.seq
    BY DEF OwnStagesInOrder
  <2>1. CASE e \in log[k] /\ f \in log[k]  BY <2>1 DEF LogInv, OwnStagesInOrder
  <2>2. CASE e \in log[k] /\ f \notin log[k]
    <3>1. k = j /\ f = ev  BY <1>7, <2>2
    <3>2. a \in Workers /\ e.by = a  BY <1>10, <1>11, <3>1
    <3> QED  BY <1>1, <1>4, <2>2, <3>1, <3>2 DEF Minted
  <2>3. CASE e \notin log[k] /\ f \in log[k]
    <3>1. k = j /\ e = ev  BY <1>7, <2>3
    <3>2. a \in Workers /\ f.by = a  BY <1>10, <1>11, <3>1
    <3>3. f.at < hand[a].at  BY <1>1, <2>3, <3>1, <3>2 DEF Minted
    <3>4. f.at \in Nat /\ hand[a].at \in Nat  BY <1>1, <1>6, <2>3, <3>1 DEF Event, Hands
    <3> QED  BY <1>4, <3>1, <3>3, <3>4
  <2>4. CASE e \notin log[k] /\ f \notin log[k]
    <3>1. e = ev /\ f = ev /\ ev.at \in Nat  BY <1>4, <1>7, <2>4 DEF Event
    <3> QED  BY <3>1
  <2> QED  BY <2>1, <2>2, <2>3, <2>4
<1> QED  BY <1>12, <1>13, <1>14, <1>15, <1>16 DEF LogInv

----------------------------------------------------------------------------
\* Deaths. A worker that dies and a run that could not be recorded let go of a hurt job.
LEMMA DiesInv == ASSUME LogInv, NEW w \in Workers, RunNotRecorded(w) \/ WorkerDies(w) PROVE LogInv'
<1>1. /\ w \in Actors /\ hand' = [hand EXCEPT ![w] = Free] /\ log' = log
      /\ hurt' = hurt \cup {hand[w].job}
  BY DEF RunNotRecorded, WorkerDies, tables, Actors
<1>2. hurt \subseteq hurt' /\ hand[w].job \in hurt'  BY <1>1
<1> QED  BY <1>1, <1>2, LetsGo

LEMMA ApiDiesInv == ASSUME LogInv, ApiDies PROVE LogInv'
<1>1. /\ hand' = [a \in Actors |-> IF a \in Clients THEN Free ELSE hand[a]] /\ log' = log
      /\ hurt \subseteq hurt' /\ HandsOK
  BY DEF ApiDies, tables, LogInv
<1>2. \A a \in Actors : hand'[a] = IF a \in Clients THEN Free ELSE hand[a]  BY <1>1
<1>3. HandsOK'
  <2>1. hand' \in [Actors -> Hands]  BY <1>1, FreeHand DEF HandsOK
  <2>2. \A a \in Actors : Good(a, hand'[a])  BY <1>1, <1>2, FreeHand DEF HandsOK
  <2> QED  BY <1>1, <2>1, <2>2 DEF HandsOK, Good, Has
<1>4. Numbered' /\ OwnStagesInOrder'  BY <1>1 DEF LogInv, Numbered, OwnStagesInOrder
<1>5. Uncommitted'
  <2> SUFFICES ASSUME NEW a \in Actors, hand'[a].pc = "commit"  PROVE Minted(a)'
    BY DEF Uncommitted, Minted
  <2>1. \A b \in Actors : hand'[b].pc = "commit" => hand'[b] = hand[b]  BY <1>2, FreeHand
  <2>2. Minted(a)  BY DEF LogInv, Uncommitted
  <2> QED  BY <1>1, <2>1, <2>2 DEF Minted
<1>6. HeldByFirst'
  <2> SUFFICES ASSUME NEW j \in Jobs, j \notin hurt', NEW e \in log[j], IsFirst(e, j), ~Ended(j)
               PROVE  On(e.by, j)'
    BY <1>1 DEF HeldByFirst, IsFirst, Ended
  <2>1. On(e.by, j)  BY <1>1 DEF LogInv, HeldByFirst
  <2>2. e.by \in Workers  BY DEF LogInv, Numbered, IsFirst, Asked
  <2>3. hand'[e.by] = hand[e.by]  BY <1>2, <2>2, JobsBounds DEF Actors
  <2> QED  BY <2>1, <2>3 DEF On
<1> QED  BY <1>3, <1>4, <1>5, <1>6 DEF LogInv

----------------------------------------------------------------------------
LEMMA TablesStep == ASSUME JobsInv, [Next]_vars PROVE TablesOK'
<1>1. TablesOK /\ \A a \in Actors : /\ hand[a] \in Hands
                                    /\ hand[a].pc # "idle" => hand[a].job \in Jobs
  BY DEF JobsInv, LogInv, HandsOK, Good
<1>2. ASSUME UNCHANGED <<rows, request, silver, faults, hurt, crowded>>  PROVE TablesOK'
  BY <1>1, <1>2 DEF TablesOK
<1>3. ASSUME UNCHANGED <<rows, request, silver, faults, hurt>>, NEW j \in Jobs,
             crowded' \in {crowded, crowded \cup {j}}
      PROVE  TablesOK'
  BY <1>1, <1>3 DEF TablesOK
<1>4. ASSUME UNCHANGED <<rows, request, silver, crowded>>, NEW S \in SUBSET Jobs,
             faults < MaxFaults, faults' = faults + 1, hurt' = hurt \cup S
      PROVE  TablesOK'
  <2>1. faults' \in 0..MaxFaults  BY <1>1, <1>4, JobsBounds DEF TablesOK
  <2> QED  BY <1>1, <1>4, <2>1 DEF TablesOK
<1>5. ASSUME UNCHANGED <<request, silver, faults, hurt, crowded>>, NEW j \in Jobs,
             NEW S \in SUBSET Row, rows' = [rows EXCEPT ![j] = S]
      PROVE  TablesOK'
  BY <1>1, <1>5 DEF TablesOK
<1>6. ASSUME NEW a \in Actors, Mint(a)  PROVE TablesOK'
  <2>1. hand[a].job \in Jobs /\ crowded' \in {crowded, crowded \cup {hand[a].job}}
    BY <1>1, <1>6 DEF Mint
  <2> QED  BY <1>3, <1>6, <2>1 DEF Mint, tables
<1>7. ASSUME NEW a \in Actors, Commit(a) \/ ReadRow(a)  PROVE TablesOK'
  BY <1>2, <1>7 DEF Commit, ReadRow, tables
<1>8. ASSUME NEW a \in Actors, CarryRow(a)  PROVE TablesOK'
  <2> DEFINE row == [seq |-> hand[a].seq + 1, stage |-> hand[a].stage]
             S   == Newest(rows[hand[a].job] \cup {row})
  <2>1. hand[a].job \in Jobs  BY <1>1, <1>8 DEF CarryRow
  <2>2. row \in Row  BY <1>1 DEF Hands, Row
  <2>3. rows[hand[a].job] \in SUBSET Row  BY <1>1, <2>1 DEF TablesOK
  <2> HIDE DEF row
  <2>4. S \in SUBSET Row  BY <2>2, <2>3 DEF Newest
  <2>5. rows' = [rows EXCEPT ![hand[a].job] = S]  BY <1>8 DEF CarryRow, row
  <2> HIDE DEF S
  <2> QED  BY <1>5, <1>8, <2>1, <2>4, <2>5 DEF CarryRow
<1>9. ASSUME NEW a \in Actors, CommitFails(a)  PROVE TablesOK'
  <2>1. {hand[a].job} \in SUBSET Jobs  BY <1>1, <1>9 DEF CommitFails
  <2> QED  BY <1>4, <1>9, <2>1 DEF CommitFails, tables
<1>10. ASSUME NEW w \in Workers, RunNotRecorded(w) \/ WorkerDies(w)  PROVE TablesOK'
  <2>1. {hand[w].job} \in SUBSET Jobs  BY <1>1, <1>10 DEF RunNotRecorded, WorkerDies, Actors
  <2> QED  BY <1>4, <1>10, <2>1 DEF RunNotRecorded, WorkerDies, tables
<1>11. CASE ApiDies
  <2>1. {hand[c].job : c \in {d \in Clients : hand[d].pc # "idle"}} \in SUBSET Jobs
    BY <1>1 DEF Actors
  <2> QED  BY <1>4, <1>11, <2>1 DEF ApiDies, tables
<1>12. ASSUME NEW w \in Workers, Decide(w) \/ CheckCancel(w) \/ Get(w) \/ Publish(w)
       PROVE  TablesOK'
  BY <1>2, <1>12 DEF Decide, CheckCancel, Get, Publish, tables
<1>13. ASSUME NEW w \in Workers, NEW j \in Jobs, ClaimCheck(w, j) \/ CloseCancelled(w, j)
       PROVE  TablesOK'
  BY <1>2, <1>13 DEF ClaimCheck, CloseCancelled, tables
<1>14. ASSUME NEW w \in Workers, Judge(w)  PROVE TablesOK'
  <2>1. silver' \in [Jobs -> Nat]  BY <1>1, <1>14 DEF Judge, TablesOK
  <2> QED  BY <1>1, <1>14, <2>1 DEF Judge, TablesOK
<1>15. ASSUME NEW c \in Clients, Insert(c)  PROVE TablesOK'
  <2>1. hand[c].job \in Jobs  BY <1>1, <1>15 DEF Insert, Actors
  <2>2. {[seq |-> 0, stage |-> "queued"]} \in SUBSET Row  BY DEF Row, Stages
  <2> QED  BY <1>5, <1>15, <2>1, <2>2 DEF Insert
<1>16. ASSUME NEW c \in Clients, NEW j \in Jobs, Cancel(c, j)  PROVE TablesOK'
  BY <1>2, <1>16 DEF Cancel, tables
<1>17. ASSUME NEW c \in Clients, NEW j \in Jobs, NEW f \in Requests, Create(c, f, j)  PROVE TablesOK'
  BY <1>1, <1>17 DEF Create, TablesOK
<1>18. CASE UNCHANGED vars  BY <1>2, <1>18 DEF vars, tables
<1> QED
  BY <1>6, <1>7, <1>8, <1>9, <1>10, <1>11, <1>12, <1>13, <1>14, <1>15, <1>16, <1>17, <1>18
  DEF Next, Append, Poll, Run, Actors

LEMMA JobsNextInv == JobsInv /\ [Next]_vars => JobsInv'
<1> SUFFICES ASSUME JobsInv, [Next]_vars PROVE JobsInv'  OBVIOUS
<1>1. TablesOK' /\ LogInv  BY TablesStep DEF JobsInv
<1> SUFFICES LogInv'  BY <1>1 DEF JobsInv
<1>2. ASSUME NEW a \in Actors, Append(a) \/ CommitFails(a)  PROVE LogInv'
  BY <1>1, <1>2, MintInv, CommitInv, RowInv, CarryInv, FailsInv DEF Append
<1>3. ASSUME NEW w \in Workers, Poll(w) \/ Run(w) \/ RunNotRecorded(w) \/ WorkerDies(w)
      PROVE  LogInv'
  <2>1. w \in Actors  BY DEF Actors
  <2> QED
    BY <1>1, <1>2, <1>3, <2>1, PollInv, DecideInv, CheckCancelInv, GetInv, JudgeInv, DiesInv
    DEF Poll, Run
<1>4. ASSUME NEW c \in Clients, NEW j \in Jobs, Insert(c) \/ Cancel(c, j) \/ \E f \in Requests : Create(c, f, j)
      PROVE  LogInv'
  BY <1>4, ApiInv
<1>5. ASSUME NEW c \in Clients, Insert(c)  PROVE LogInv'
  <2>1. hand[c].job \in Jobs
    BY <1>1, <1>5 DEF LogInv, HandsOK, Good, Insert, Actors
  <2> QED  BY <1>4, <1>5, <2>1
<1>6. CASE ApiDies  BY <1>1, <1>6, ApiDiesInv
<1>7. CASE UNCHANGED vars
  BY <1>1, <1>7 DEF vars, tables, LogInv, HandsOK, Good, Has, Numbered, Uncommitted, Minted,
                    HeldByFirst, IsFirst, Ended, On, OwnStagesInOrder
<1> QED  BY <1>2, <1>3, <1>4, <1>5, <1>6, <1>7 DEF Next

LEMMA JobsAlways == Spec => []JobsInv
BY JobsInitInv, JobsNextInv, PTL DEF Spec

\* Every variable keeps its type, whatever is claimed, cancelled or lost.
THEOREM JobsTypes == Spec => []TypeOK
<1>1. JobsInv => TypeOK
  <2> SUFFICES ASSUME JobsInv PROVE TypeOK  OBVIOUS
  <2>1. hand \in [Actors ->
          [pc : {"idle", "insert", "decide", "next", "get", "judge", "publish"} \cup Appending,
           job : Jobs \cup {NoJob}, stage : Stages, seq : Nat, at : Nat,
           calls : 0..MaxCalls, late : Nat, got : BOOLEAN, held : BOOLEAN]]
    BY DEF JobsInv, LogInv, HandsOK, Hands, Places, Counts
  <2>2. \A a \in Actors : hand[a].pc # "idle" => hand[a].job \in Jobs
    BY DEF JobsInv, LogInv, HandsOK, Good
  <2>3. \A j \in Jobs : rows[j] \subseteq [seq : Nat, stage : Stages]
    BY DEF JobsInv, TablesOK, Row
  <2> QED  BY <2>1, <2>2, <2>3 DEF JobsInv, TablesOK, LogInv, Numbered, TypeOK
<1> QED  BY <1>1, JobsAlways, PTL

\* A worker's own stages are in order by their number alone, however many writers mint the
\* same number meanwhile (append_event, jobs.py 124-135; the property OwnStagesInOrder).
THEOREM StagesInOrder == Spec => []OwnStagesInOrder
<1>1. JobsInv => OwnStagesInOrder  BY DEF JobsInv, LogInv
<1> QED  BY <1>1, JobsAlways, PTL

\* Workers that claim a job at once never all stand back (claim, jobs.py 150-167; the
\* property ClaimIsNeverLost).
THEOREM ClaimsAreKept == Spec => []ClaimIsNeverLost
<1>1. JobsInv => ClaimIsNeverLost
  <2> SUFFICES ASSUME JobsInv, NEW j \in Jobs, Has(j, "fetching"), j \notin hurt
               PROVE  \/ \E w \in Workers : On(w, j)
                      \/ \E e \in log[j] : e.stage \in Ends
    BY DEF ClaimIsNeverLost
  <2>1. PICK e \in log[j] : IsFirst(e, j)  BY FirstExists DEF JobsInv, LogInv
  <2>2. On(e.by, j) \/ Ended(j)  BY <2>1 DEF JobsInv, LogInv, HeldByFirst
  <2>3. e.by \in Workers  BY <2>1 DEF JobsInv, LogInv, Numbered, IsFirst, Asked
  <2> QED  BY <2>2, <2>3 DEF Ended
<1> QED  BY <1>1, JobsAlways, PTL

\* After a cancel is in the log only the call under way is still made (process,
\* worker.py 181-187; the property CancelStopsCalls).
THEOREM CancelStops == Spec => []CancelStopsCalls
<1>1. JobsInv => CancelStopsCalls
  BY DEF JobsInv, LogInv, HandsOK, Hands, CancelStopsCalls, Actors
<1> QED  BY <1>1, JobsAlways, PTL

----------------------------------------------------------------------------
\* The job's row. A writer at work has numbered its event and not yet carried the row forward.
Busy == {"commit", "row", "carry"}
At(a, j, pcs) == hand[a].pc \in pcs /\ hand[a].job = j
Latest(e, j) == \A f \in log[j] : e = f \/ Before(f, e)

\* Nothing is known of a job before its creator has an id for it, and nobody else is on it
\* before the row is there.
Fresh(j) ==
    /\ request[j] = NoRequest => rows[j] = {} /\ log[j] = {} /\ \A a \in Actors : ~On(a, j)
    /\ \A a \in Actors : At(a, j, {"insert"}) =>
          rows[j] = {} /\ log[j] = {} /\ \A b \in Actors : On(b, j) => b = a

\* While one writer at a time is at work there is one row, and it names the stage of the last
\* event, or the writer that committed the event is about to.
Told(j, row) ==
    /\ \A e \in log[j] : Latest(e, j) =>
          \/ row.stage = e.stage /\ \A a \in Actors : ~At(a, j, {"row", "carry"})
          \/ \E a \in Actors : At(a, j, {"row", "carry"}) /\ hand[a].stage = e.stage
    /\ \A a \in Actors : At(a, j, {"carry"}) => hand[a].seq = row.seq
Kept(j) ==
    /\ \A a, b \in Actors : At(a, j, Busy) /\ At(b, j, Busy) => a = b
    /\ \A a \in Actors : At(a, j, {"commit"}) => hand[a].seq = Cardinality(log[j])
    /\ rows[j] = {} => log[j] = {} /\ \A a \in Actors : On(a, j) => hand[a].pc = "insert"
    /\ rows[j] # {} => \E row \in rows[j] : rows[j] = {row} /\ Told(j, row)

RowsOf(j) == Fresh(j) /\ (j \notin hurt \cup crowded => Kept(j))
RowsInv == \A j \in Jobs : RowsOf(j)

\* Nothing that is said of a job changes where nobody begins with it or leaves its row behind.
LEMMA FreshAside ==
    ASSUME NEW j \in Jobs, Fresh(j), rows'[j] = rows[j], log'[j] = log[j], request'[j] = request[j],
           \A b \in Actors : \/ hand'[b] = hand[b] \/ ~On(b, j)'
                             \/ /\ hand'[b].pc # "insert"
                                /\ On(b, j) \/ rows[j] # {} \/ log[j] # {}
    PROVE  Fresh(j)'
<1>1. request[j] = NoRequest => \A a \in Actors : ~On(a, j)'
  BY DEF Fresh, On
<1>2. ASSUME NEW a \in Actors, At(a, j, {"insert"})', NEW b \in Actors, On(b, j)'
      PROVE  rows[j] = {} /\ log[j] = {} /\ b = a
  <2>1. hand'[a] = hand[a] /\ At(a, j, {"insert"})
    BY <1>2 DEF At, On
  <2>2. rows[j] = {} /\ log[j] = {} /\ \A c \in Actors : On(c, j) => c = a
    BY <2>1 DEF Fresh
  <2>3. On(b, j)
    BY <1>2, <2>2 DEF On
  <2> QED  BY <2>2, <2>3
<1>3. \A a \in Actors : At(a, j, {"insert"})' => On(a, j)'
  BY DEF At, On
<1> QED  BY <1>1, <1>2, <1>3 DEF Fresh

LEMMA KeptAside ==
    ASSUME NEW j \in Jobs, Kept(j), rows'[j] = rows[j], log'[j] = log[j],
           \A b \in Actors : \/ hand'[b] = hand[b]
                             \/ /\ ~At(b, j, Busy) /\ ~At(b, j, Busy)'
                                /\ On(b, j)' => \/ On(b, j) /\ hand[b].pc # "insert"
                                                \/ rows[j] # {} \/ log[j] # {}
    PROVE  Kept(j)'
<1>1. \A b \in Actors : At(b, j, Busy)' => hand'[b] = hand[b] /\ At(b, j, Busy)
  BY DEF At
<1>2. \A b \in Actors : At(b, j, Busy) => hand'[b] = hand[b] /\ At(b, j, Busy)'
  BY DEF At
<1>3. \A b \in Actors, pcs \in SUBSET Busy :
          At(b, j, pcs)' <=> At(b, j, pcs)
  BY <1>1, <1>2 DEF At
<1>4. {"commit"} \in SUBSET Busy /\ {"carry"} \in SUBSET Busy /\ {"row", "carry"} \in SUBSET Busy
  BY DEF Busy
<1>5. \A b \in Actors : At(b, j, {"commit"}) \/ At(b, j, {"row", "carry"}) \/ At(b, j, {"carry"})
          => hand'[b] = hand[b]
  BY <1>2 DEF At, Busy
<1>6. rows[j] = {} => \A a \in Actors : On(a, j)' => hand'[a].pc = "insert"
  <2> SUFFICES ASSUME rows[j] = {}, NEW a \in Actors, On(a, j)' PROVE hand'[a].pc = "insert"
    OBVIOUS
  <2>1. log[j] = {} /\ (On(a, j) => hand[a].pc = "insert")  BY DEF Kept
  <2> QED  BY <2>1 DEF On
<1>7. ASSUME NEW row, Told(j, row)  PROVE Told(j, row)'
  <2>1. \A e : Latest(e, j)' <=> Latest(e, j)  BY DEF Latest
  <2>2. ASSUME NEW e \in log[j], Latest(e, j)
        PROVE  \/ row.stage = e.stage /\ \A a \in Actors : ~At(a, j, {"row", "carry"})'
               \/ \E a \in Actors : At(a, j, {"row", "carry"})' /\ hand'[a].stage = e.stage
    BY <1>3, <1>4, <1>5, <1>7, <2>2 DEF Told
  <2>3. \A a \in Actors : At(a, j, {"carry"})' => hand'[a].seq = row.seq
    BY <1>3, <1>4, <1>5, <1>7 DEF Told
  <2> QED  BY <2>1, <2>2, <2>3 DEF Told
<1>8. \A a, b \in Actors : At(a, j, Busy)' /\ At(b, j, Busy)' => a = b  BY <1>1 DEF Kept
<1>9. \A a \in Actors : At(a, j, {"commit"})' => hand'[a].seq = Cardinality(log'[j])
  BY <1>3, <1>4, <1>5 DEF Kept
<1>10. rows[j] # {} => \E row \in rows[j] : rows[j] = {row} /\ Told(j, row)'
  BY <1>7 DEF Kept
<1>11. rows[j] = {} => log[j] = {}  BY DEF Kept
<1> QED  BY <1>6, <1>8, <1>9, <1>10, <1>11 DEF Kept

\* A step of one actor that writes no row, between two appends or away from them.
LEMMA RowsAside ==
    ASSUME RowsInv, NEW a \in Actors, Alone(a), NEW j \in Jobs,
           rows'[j] = rows[j], log'[j] = log[j], request'[j] = request[j],
           hurt \subseteq hurt', crowded \subseteq crowded',
           On(a, j)' => hand'[a].pc # "insert" /\ (On(a, j) \/ rows[j] # {} \/ log[j] # {}),
           \/ j \in hurt' \cup crowded'
           \/ hand[a].pc = "idle"
           \/ ~On(a, j) /\ ~On(a, j)'
           \/ hand[a].pc \notin Busy \cup {"insert"} /\ ~At(a, j, Busy)',
           hand[a].pc = "idle" => ~At(a, j, Busy)'
    PROVE  RowsOf(j)'
<1>1. RowsOf(j) /\ \A b \in Actors : b # a => hand'[b] = hand[b]
  BY DEF RowsInv, Alone
<1>2. Fresh(j)'  BY <1>1, FreshAside DEF RowsOf
<1>3. ASSUME j \notin hurt' \cup crowded'  PROVE Kept(j)'
  <2>1. Kept(j)  BY <1>1, <1>3 DEF RowsOf
  <2>2. ~At(a, j, Busy) /\ ~At(a, j, Busy)'
    BY <1>3 DEF At, On, Busy
  <2>3. On(a, j)' => \/ On(a, j) /\ hand[a].pc # "insert"
                     \/ rows[j] # {}
                     \/ log[j] # {}
    BY <1>3 DEF On
  <2> QED  BY <1>1, <2>1, <2>2, <2>3, KeptAside
<1> QED  BY <1>2, <1>3 DEF RowsOf

----------------------------------------------------------------------------
\* The append, on its own job.

\* The stamp and the number of what was committed last make it the last event.
LEMMA LastIs ==
    ASSUME Numbered, NEW j \in Jobs, log[j] # {}
    PROVE  Last(j) \in log[j] /\ Latest(Last(j), j)
<1> DEFINE Seqs == {e.seq : e \in log[j]}
<1>0. log[j] \in SUBSET Event /\ IsFiniteSet(log[j])  BY DEF Numbered
<1>1. \A e \in log[j] : e.seq \in Nat /\ e.at \in Nat /\ e.seq < Cardinality(log[j])
  BY <1>0 DEF Event, Numbered
<1>2. Cardinality(log[j]) \in Nat  BY <1>0, FS_CardinalityType
<1> DEFINE n == Cardinality(log[j])
           Gaps == {n - e.seq : e \in log[j]}
<1>3. PICK e0 \in log[j] : \A f \in log[j] : f.seq <= e0.seq
  <2>1. Gaps \in SUBSET Nat /\ Gaps # {}  BY <1>1, <1>2
  <2> HIDE DEF Gaps, n
  <2>2. PICK g \in Gaps : \A h \in Gaps : g <= h  BY <2>1, LeastNat
  <2>3. PICK e \in log[j] : g = n - e.seq  BY <2>2 DEF Gaps
  <2>4. \A f \in log[j] : n - e.seq <= n - f.seq  BY <2>2, <2>3 DEF Gaps
  <2>5. \A f \in log[j] : f.seq <= e.seq  BY <1>1, <1>2, <2>4 DEF n
  <2> QED  BY <2>5
<1> DEFINE Top == {e \in log[j] : e.seq = e0.seq}
           Ats == {e.at : e \in Top}
<1>4. Top # {} /\ IsFiniteSet(Top) /\ Ats # {} /\ Ats \in SUBSET Nat
  <2>1. Top \in SUBSET log[j]  OBVIOUS
  <2>2. IsFiniteSet(Top)  BY <1>0, <2>1, FS_Subset
  <2> QED  BY <1>1, <1>3, <2>2
<1>5. IsFiniteSet(Ats)
  <2> DEFINE f == [e \in Top |-> e.at]
  <2>1. f \in [Top -> Ats] /\ \A t \in Ats : \E e \in Top : f[e] = t
    <3> HIDE DEF Top
    <3> QED  OBVIOUS
  <2> HIDE DEF Ats, f
  <2>2. f \in Surjection(Top, Ats)  BY <2>1 DEF Surjection
  <2> QED  BY <1>4, <2>2, FS_Surjection
<1>6. Max(Ats) \in Ats /\ \A t \in Ats : Max(Ats) >= t
  <2> HIDE DEF Ats
  <2> QED  BY <1>4, <1>5, MaxOfFinite
<1>7. PICK e \in Top : e.at = Max(Ats)  BY <1>6
<1>8. \A f \in log[j] : e = f \/ Before(f, e)
  <2> TAKE f \in log[j]
  <2>1. f.seq <= e.seq /\ e \in log[j]  BY <1>3, <1>7
  <2>2. f.seq = e.seq => f \in Top  BY <1>7
  <2>3. f.seq = e.seq => f.at <= e.at  BY <1>1, <1>6, <1>7, <2>2
  <2>4. f.at = e.at => e = f  BY <2>1 DEF Numbered
  <2> QED  BY <1>1, <2>1, <2>3, <2>4 DEF Before
<1>9. e \in log[j] /\ Latest(e, j)  BY <1>7, <1>8 DEF Latest
<1>10. Last(j) = CHOOSE x \in log[j] : Latest(x, j)  BY DEF Last, Latest
<1> QED  BY <1>9, <1>10

LEMMA MintRows == ASSUME JobsInv, RowsInv, NEW a \in Actors, Mint(a) PROVE RowsInv'
<1>0. PICK j \in Jobs : j = hand[a].job
  BY DEF JobsInv, LogInv, HandsOK, Good, Mint, Actors
<1> DEFINE h == [hand[a] EXCEPT !.pc = "commit", !.seq = Cardinality(log[j]), !.at = Now(j)]
<1>1. /\ hand[a].job = j /\ hand[a] \in Hands /\ hand[a].pc = "mint" /\ j \in Jobs /\ HandsOK
      /\ log' = log /\ rows' = rows /\ request' = request /\ hurt' = hurt
      /\ hand' = [hand EXCEPT ![a] = h]
      /\ crowded \subseteq crowded'
      /\ j \notin crowded' => \A b \in Actors \ {a} : ~(On(b, j) /\ hand[b].pc \in Appending)
  BY <1>0 DEF JobsInv, LogInv, HandsOK, Good, Mint, tables
<1>2. h.pc = "commit" /\ h.job = j /\ h.seq = Cardinality(log[j])
  BY <1>1 DEF Hands
<1>3. hand'[a] = h /\ Alone(a)
  BY <1>1 DEF HandsOK, Alone
<1> HIDE DEF h
<1>4. ASSUME NEW k \in Jobs, k # j  PROVE RowsOf(k)'
  <2>1. ~On(a, k) /\ ~On(a, k)'  BY <1>1, <1>2, <1>3, <1>4 DEF On
  <2> QED  BY <1>1, <1>3, <2>1, RowsAside DEF At
<1>5. RowsOf(j) /\ On(a, j) /\ On(a, j)'
  BY <1>1, <1>2, <1>3 DEF RowsInv, On
<1>6. Fresh(j)'
  BY <1>1, <1>2, <1>3, <1>5, FreshAside DEF RowsOf, Alone
<1>7. ASSUME j \notin hurt' \cup crowded'  PROVE Kept(j)'
  <2>1. Kept(j)  BY <1>1, <1>5, <1>7 DEF RowsOf
  <2>2. \A b \in Actors : ~At(b, j, Busy)
    BY <1>1, <1>7 DEF At, On, Busy, Appending
  <2>3. \A b \in Actors \ {a} : ~At(b, j, Busy)'
    BY <1>3, <2>2 DEF At, Alone
  <2>4. \A b \in Actors : ~At(b, j, {"row", "carry"})' /\ ~At(b, j, {"carry"})'
                           /\ ~At(b, j, {"row", "carry"})
    BY <1>2, <1>3, <2>2, <2>3 DEF At, Busy
  <2>5. rows[j] # {}  BY <1>1, <1>5, <2>1 DEF Kept
  <2>6. PICK row \in rows[j] : rows[j] = {row} /\ Told(j, row)  BY <2>1, <2>5 DEF Kept
  <2>7. \A e \in log[j] : Latest(e, j)' <=> Latest(e, j)  BY <1>1 DEF Latest
  <2>8. Told(j, row)'  BY <1>1, <2>4, <2>6, <2>7 DEF Told
  <2>9. \A b \in Actors : At(b, j, {"commit"})' => b = a  BY <2>3 DEF At, Busy
  <2>10. \A b \in Actors : At(b, j, {"commit"})' => hand'[b].seq = Cardinality(log'[j])
    BY <1>1, <1>2, <1>3, <2>9
  <2> QED  BY <1>1, <2>3, <2>5, <2>6, <2>8, <2>10 DEF Kept
<1> QED  BY <1>4, <1>6, <1>7 DEF RowsInv, RowsOf

LEMMA CommitRows == ASSUME JobsInv, RowsInv, NEW a \in Actors, Commit(a) PROVE RowsInv'
<1>0. PICK j \in Jobs : j = hand[a].job
  BY DEF JobsInv, LogInv, HandsOK, Good, Commit, Actors
<1> DEFINE ev == [seq |-> hand[a].seq, at |-> hand[a].at, stage |-> hand[a].stage, by |-> Name(a)]
           h == [hand[a] EXCEPT !.pc = "row", !.seq = 0, !.at = 0]
<1>1. /\ hand[a].job = j /\ hand[a] \in Hands /\ hand[a].pc = "commit" /\ j \in Jobs /\ HandsOK /\ Numbered
      /\ rows' = rows /\ request' = request /\ hurt' = hurt /\ crowded' = crowded
      /\ hand' = [hand EXCEPT ![a] = h]
      /\ log' = [log EXCEPT ![j] = @ \cup {ev}]
  BY <1>0 DEF JobsInv, LogInv, HandsOK, Good, Commit
<1>2. h.pc = "row" /\ h.job = j /\ h.stage = hand[a].stage
  BY <1>1 DEF Hands
<1>3. ev.seq = hand[a].seq /\ ev.stage = hand[a].stage
  OBVIOUS
<1>4. hand'[a] = h /\ Alone(a)
  BY <1>1 DEF HandsOK, Alone
<1>5. log'[j] = log[j] \cup {ev} /\ \A k \in Jobs \ {j} : log'[k] = log[k]
  BY <1>1 DEF Numbered
<1> HIDE DEF h, ev
<1>6. ASSUME NEW k \in Jobs, k # j  PROVE RowsOf(k)'
  <2>1. ~On(a, k) /\ ~On(a, k)'  BY <1>1, <1>2, <1>4, <1>6 DEF On
  <2>2. log'[k] = log[k]  BY <1>5, <1>6
  <2> QED  BY <1>1, <1>4, <2>1, <2>2, RowsAside DEF At
<1>7. RowsOf(j) /\ On(a, j) /\ On(a, j)'
  BY <1>1, <1>2, <1>4 DEF RowsInv, On
<1>8. Fresh(j)'
  <2>1. \A b \in Actors : ~At(b, j, {"insert"}) \/ b = a
    BY <1>7 DEF RowsOf, Fresh
  <2>2. request[j] # NoRequest  BY <1>7 DEF RowsOf, Fresh
  <2>3. \A b \in Actors : ~At(b, j, {"insert"})'
    BY <1>2, <1>4, <2>1 DEF At, Alone
  <2> QED  BY <1>1, <2>2, <2>3 DEF Fresh
<1>9. ASSUME j \notin hurt' \cup crowded'  PROVE Kept(j)'
  <2>1. Kept(j) /\ At(a, j, Busy) /\ At(a, j, {"commit"})
    BY <1>1, <1>7, <1>9 DEF RowsOf, At, Busy
  <2>2. hand[a].seq = Cardinality(log[j]) /\ \A b \in Actors \ {a} : ~At(b, j, Busy)
    BY <2>1 DEF Kept
  <2>3. \A b \in Actors \ {a} : ~At(b, j, Busy)'
    BY <1>4, <2>2 DEF At, Alone
  <2>4. At(a, j, {"row", "carry"})' /\ \A b \in Actors : ~At(b, j, {"commit"})' /\ ~At(b, j, {"carry"})'
    BY <1>2, <1>4, <2>3 DEF At, Busy
  <2>5. rows[j] # {}  BY <1>1, <1>7, <2>1 DEF Kept
  <2>6. PICK row \in rows[j] : rows[j] = {row} /\ Told(j, row)  BY <2>1, <2>5 DEF Kept
  <2>7. ASSUME NEW e \in log'[j], Latest(e, j)'  PROVE e.stage = hand'[a].stage
    <3>1. \A f \in log[j] : f.seq \in Nat /\ f.seq < Cardinality(log[j])
      BY <1>1 DEF Numbered, Event
    <3>2. Cardinality(log[j]) \in Nat  BY <1>1, FS_CardinalityType DEF Numbered
    <3>3. e = ev \/ Before(ev, e)  BY <1>5, <2>7 DEF Latest
    <3>4. e \in log[j] => ~Before(ev, e)
      BY <1>3, <2>2, <3>1, <3>2 DEF Before
    <3>5. e = ev  BY <1>5, <3>3, <3>4
    <3> QED  BY <1>2, <1>3, <1>4, <3>5
  <2>8. Told(j, row)'  BY <2>4, <2>7 DEF Told
  <2> QED  BY <1>1, <2>3, <2>4, <2>5, <2>6, <2>8 DEF Kept
<1> QED  BY <1>6, <1>8, <1>9 DEF RowsInv, RowsOf

LEMMA ReadRowRows == ASSUME JobsInv, RowsInv, NEW a \in Actors, ReadRow(a) PROVE RowsInv'
<1>0. PICK j \in Jobs : j = hand[a].job
  BY DEF JobsInv, LogInv, HandsOK, Good, ReadRow, Actors
<1>1. /\ hand[a].job = j /\ hand[a] \in Hands /\ hand[a].pc = "row" /\ j \in Jobs /\ HandsOK
      /\ log' = log /\ rows' = rows /\ request' = request /\ hurt' = hurt /\ crowded' = crowded
  BY <1>0 DEF JobsInv, LogInv, HandsOK, Good, ReadRow, tables
<1>2. PICK read \in rows[j] : hand' = [hand EXCEPT ![a] = [@ EXCEPT !.pc = "carry", !.seq = read.seq]]
  BY <1>1 DEF ReadRow
<1>3. /\ hand'[a].pc = "carry" /\ hand'[a].job = j /\ hand'[a].stage = hand[a].stage
      /\ hand'[a].seq = read.seq /\ Alone(a)
  BY <1>1, <1>2 DEF HandsOK, Hands, Alone
<1>4. ASSUME NEW k \in Jobs, k # j  PROVE RowsOf(k)'
  <2>1. ~On(a, k) /\ ~On(a, k)'  BY <1>1, <1>3, <1>4 DEF On
  <2> QED  BY <1>1, <1>3, <2>1, RowsAside DEF At
<1>5. RowsOf(j) /\ On(a, j) /\ On(a, j)'
  BY <1>1, <1>3 DEF RowsInv, On
<1>6. Fresh(j)'
  BY <1>1, <1>3, <1>5, FreshAside DEF RowsOf, Alone
<1>7. ASSUME j \notin hurt' \cup crowded'  PROVE Kept(j)'
  <2>1. Kept(j) /\ At(a, j, Busy) /\ At(a, j, {"row", "carry"})
    BY <1>1, <1>5, <1>7 DEF RowsOf, At, Busy
  <2>2. \A b \in Actors \ {a} : ~At(b, j, Busy)  BY <2>1 DEF Kept
  <2>3. \A b \in Actors \ {a} : ~At(b, j, Busy)'
    BY <1>3, <2>2 DEF At, Alone
  <2>4. /\ At(a, j, {"row", "carry"})'
        /\ \A b \in Actors : ~At(b, j, {"commit"})' /\ (At(b, j, {"carry"})' => b = a)
        /\ \A b \in Actors : At(b, j, {"row", "carry"}) => b = a
    BY <1>3, <2>2, <2>3 DEF At, Busy
  <2>5. rows[j] # {}  BY <1>2
  <2>6. PICK row \in rows[j] : rows[j] = {row} /\ Told(j, row)  BY <2>1, <2>5 DEF Kept
  <2>7. \A e \in log[j] : Latest(e, j)' <=> Latest(e, j)  BY <1>1 DEF Latest
  <2>8. read = row  BY <2>6
  <2>9. Told(j, row)'  BY <1>1, <1>3, <2>1, <2>4, <2>6, <2>7, <2>8 DEF Told
  <2> QED  BY <1>1, <2>3, <2>4, <2>5, <2>6, <2>9 DEF Kept
<1> QED  BY <1>4, <1>6, <1>7 DEF RowsInv, RowsOf

LEMMA AfterHand ==
    ASSUME NEW x \in Hands
    PROVE  /\ After(x).pc \in {"idle", "decide", "mint", "judge", "publish"}
           /\ After(x).pc # "idle" => After(x).job = x.job
<1>1. \/ After(x) = Free
      \/ \E pc \in {"decide", "judge", "publish"} : After(x) = [x EXCEPT !.pc = pc]
      \/ \E stage \in Stages : After(x) = [x EXCEPT !.pc = "mint", !.stage = stage]
  BY DEF After, Stages, Working
<1> QED  BY <1>1, FreeHand DEF Hands

LEMMA CarryRows == ASSUME JobsInv, RowsInv, NEW a \in Actors, CarryRow(a) PROVE RowsInv'
<1>0. PICK j \in Jobs : j = hand[a].job
  BY DEF JobsInv, LogInv, HandsOK, Good, CarryRow, Actors
<1> DEFINE x == [hand[a] EXCEPT !.seq = 0]
<1>10. PICK new : new = [seq |-> hand[a].seq + 1, stage |-> hand[a].stage]
  OBVIOUS
<1>1. /\ hand[a].job = j /\ hand[a] \in Hands /\ hand[a].pc = "carry" /\ j \in Jobs /\ HandsOK /\ TablesOK
      /\ log' = log /\ request' = request /\ hurt' = hurt /\ crowded' = crowded
      /\ hand' = [hand EXCEPT ![a] = After(x)]
      /\ rows' = [rows EXCEPT ![j] = Newest(@ \cup {new})]
  BY <1>0, <1>10 DEF JobsInv, LogInv, HandsOK, Good, CarryRow
<1>2. x \in Hands /\ x.job = j  BY <1>1 DEF Hands
<1>3. new.seq = hand[a].seq + 1 /\ new.stage = hand[a].stage /\ hand[a].seq \in Nat
  BY <1>1, <1>10 DEF Hands
<1>4. /\ hand'[a] = After(x) /\ Alone(a)
      /\ rows'[j] = Newest(rows[j] \cup {new}) /\ \A k \in Jobs \ {j} : rows'[k] = rows[k]
  BY <1>1 DEF HandsOK, TablesOK, Alone
<1> HIDE DEF x
<1>5. /\ hand'[a].pc \in {"idle", "decide", "mint", "judge", "publish"}
      /\ hand'[a].pc # "idle" => hand'[a].job = j
  BY <1>2, <1>4, AfterHand
<1>6. ASSUME NEW k \in Jobs, k # j  PROVE RowsOf(k)'
  <2>1. ~On(a, k) /\ ~On(a, k)'  BY <1>1, <1>5, <1>6 DEF On
  <2>2. rows'[k] = rows[k]  BY <1>4, <1>6
  <2> QED  BY <1>1, <1>4, <2>1, <2>2, RowsAside DEF At
<1>7. RowsOf(j) /\ On(a, j)
  BY <1>1 DEF RowsInv, On
<1>8. Fresh(j)'
  <2>1. \A b \in Actors : ~At(b, j, {"insert"}) \/ b = a
    BY <1>7 DEF RowsOf, Fresh
  <2>2. request[j] # NoRequest  BY <1>7 DEF RowsOf, Fresh
  <2>3. \A b \in Actors : ~At(b, j, {"insert"})'
    BY <1>4, <1>5, <2>1 DEF At, Alone
  <2> QED  BY <1>1, <2>2, <2>3 DEF Fresh
<1>9. ASSUME j \notin hurt' \cup crowded'  PROVE Kept(j)'
  <2>1. Kept(j) /\ At(a, j, Busy) /\ At(a, j, {"row", "carry"}) /\ At(a, j, {"carry"})
    BY <1>1, <1>7, <1>9 DEF RowsOf, At, Busy
  <2>2. \A b \in Actors \ {a} : ~At(b, j, Busy)  BY <2>1 DEF Kept
  <2>3. \A b \in Actors : ~At(b, j, Busy)'
    BY <1>4, <1>5, <2>2 DEF At, Alone, Busy
  <2>4. /\ \A b \in Actors : ~At(b, j, {"commit"})' /\ ~At(b, j, {"carry"})' /\ ~At(b, j, {"row", "carry"})'
        /\ \A b \in Actors : At(b, j, {"row", "carry"}) => b = a
    BY <2>2, <2>3 DEF At, Busy
  <2>5. rows[j] # {}  BY <1>1, <1>7, <2>1 DEF Kept
  <2>6. PICK row \in rows[j] : rows[j] = {row} /\ Told(j, row)  BY <2>1, <2>5 DEF Kept
  <2>7. \A e \in log[j] : Latest(e, j)' <=> Latest(e, j)  BY <1>1 DEF Latest
  <2>8. new.seq = row.seq + 1 /\ row.seq \in Nat
    BY <1>1, <1>3, <2>1, <2>6 DEF Told
  <2>9. rows'[j] = {new}
    <3>1. rows'[j] = Newest({row, new})  BY <1>4, <2>6
    <3> QED  BY <2>8, <3>1 DEF Newest
  <2>10. Told(j, new)'  BY <1>1, <1>3, <2>1, <2>4, <2>6, <2>7 DEF Told
  <2> QED  BY <1>1, <2>3, <2>4, <2>9, <2>10 DEF Kept
<1> QED  BY <1>6, <1>8, <1>9 DEF RowsInv, RowsOf

----------------------------------------------------------------------------
\* Every other step.

\* One that ends an append by a fault leaves its job to `hurt`.
LEMMA FaultRows ==
    ASSUME JobsInv, RowsInv, NEW a \in Actors,
           CommitFails(a) \/ (a \in Workers /\ (RunNotRecorded(a) \/ WorkerDies(a)))
    PROVE  RowsInv'
<1> DEFINE j == hand[a].job
<1>1. /\ hand[a] \in Hands /\ hand[a].pc # "idle" /\ j \in Jobs /\ HandsOK
      /\ log' = log /\ rows' = rows /\ request' = request /\ crowded' = crowded
      /\ hurt' = hurt \cup {j}
  BY DEF JobsInv, LogInv, HandsOK, Good, CommitFails, RunNotRecorded, WorkerDies, tables
<1>2. PICK h : h \in {Free, [hand[a] EXCEPT !.pc = "mint", !.stage = "failed", !.seq = 0, !.at = 0]}
               /\ hand' = [hand EXCEPT ![a] = h]
  BY DEF CommitFails, RunNotRecorded, WorkerDies
<1>3. hand'[a] = h /\ Alone(a) /\ h.pc \in {"idle", "mint"} /\ (h.pc = "mint" => h.job = j)
  BY <1>1, <1>2, FreeHand DEF HandsOK, Hands, Alone
<1> SUFFICES ASSUME NEW k \in Jobs PROVE RowsOf(k)'  BY DEF RowsInv
<1>4. On(a, k)' => On(a, k) /\ k = j /\ hand'[a].pc # "insert"
  BY <1>1, <1>3 DEF On
<1>5. k # j => ~On(a, k)  BY <1>1 DEF On
<1>6. k = j => k \in hurt'  BY <1>1
<1> QED  BY <1>1, <1>3, <1>4, <1>5, <1>6, RowsAside DEF At

LEMMA WorkRows ==
    ASSUME JobsInv, RowsInv, NEW w \in Workers,
           Decide(w) \/ CheckCancel(w) \/ Get(w) \/ Judge(w) \/ Publish(w)
    PROVE  RowsInv'
<1> DEFINE j == hand[w].job
<1>1. /\ w \in Actors /\ hand[w] \in Hands /\ hand[w].pc \in {"decide", "next", "get", "judge", "publish"}
      /\ HandsOK /\ log' = log /\ rows' = rows /\ request' = request /\ hurt' = hurt
      /\ crowded' = crowded
  BY DEF JobsInv, LogInv, HandsOK, Decide, CheckCancel, Get, Judge, Publish, tables, Actors
<1>2. /\ Alone(w) /\ hand'[w].pc \in {"idle", "next", "get", "mint"}
      /\ hand'[w].pc # "idle" => hand'[w].job = j
  <2>1. ASSUME NEW stage, Writes(w, stage)
        PROVE  Alone(w) /\ hand'[w].pc = "mint" /\ hand'[w].job = j
    BY <1>1, <2>1 DEF Writes, HandsOK, Hands, Alone
  <2>2. CASE Decide(w)
    <3>1. PICK h \in {Free} \cup [pc : {"next", "mint"}, job : {j}, stage : Stages, seq : Nat, at : Nat,
                                 calls : Counts, late : {0, 1}, got : BOOLEAN, held : BOOLEAN] :
              hand' = [hand EXCEPT ![w] = h]
      <4>1. "failed" \in Stages  BY DEF Stages, TERMINAL, Ends
      <4> QED  BY <1>1, <2>2, <4>1 DEF Decide, Hands, Counts
    <3> QED  BY <1>1, <3>1, FreeHand DEF HandsOK, Alone
  <2>3. CASE CheckCancel(w)
    <3>1. Goes(w, "get") => Alone(w) /\ hand'[w].pc = "get" /\ hand'[w].job = j
      BY <1>1 DEF Goes, HandsOK, Hands, Alone
    <3> QED  BY <2>1, <2>3, <3>1 DEF CheckCancel
  <2>4. CASE Get(w)
    <3> DEFINE late == IF Has(j, "cancel_pending") THEN hand[w].late + 1 ELSE hand[w].late
    <3>1. ASSUME NEW calls, NEW count,
                 hand' = [hand EXCEPT ![w] = [@ EXCEPT !.pc = "next", !.calls = calls,
                                                       !.late = count, !.got = TRUE]]
          PROVE  Alone(w) /\ hand'[w].pc = "next" /\ hand'[w].job = j
      BY <1>1, <3>1 DEF HandsOK, Hands, Alone
    <3>2. ASSUME NEW stage, NEW count,
                 hand' = [hand EXCEPT ![w] = [@ EXCEPT !.pc = "mint", !.stage = stage, !.late = count]]
          PROVE  Alone(w) /\ hand'[w].pc = "mint" /\ hand'[w].job = j
      BY <1>1, <3>2 DEF HandsOK, Hands, Alone
    <3>3. \/ hand' = [hand EXCEPT ![w] = [@ EXCEPT !.pc = "next", !.calls = hand[w].calls - 1,
                                              !.late = late, !.got = TRUE]]
          \/ \E stage \in {"rate_limited", "entitlement_denied", "failed"} :
                hand' = [hand EXCEPT ![w] = [@ EXCEPT !.pc = "mint", !.stage = stage, !.late = late]]
      BY <2>4 DEF Get
    <3> HIDE DEF late
    <3> QED  BY <3>1, <3>2, <3>3
  <2>5. CASE Judge(w) \/ Publish(w)
    BY <2>1, <2>5 DEF Judge, Publish
  <2> QED  BY <2>2, <2>3, <2>4, <2>5
<1> SUFFICES ASSUME NEW k \in Jobs PROVE RowsOf(k)'  BY DEF RowsInv
<1>3. /\ On(w, k)' => On(w, k) /\ hand'[w].pc # "insert"
      /\ hand[w].pc \notin Busy \cup {"insert"} /\ hand[w].pc # "idle" /\ ~At(w, k, Busy)'
  BY <1>1, <1>2 DEF On, At, Busy
<1> QED  BY <1>1, <1>2, <1>3, RowsAside

\* Whoever begins with a job that is there.
LEMMA PollRows ==
    ASSUME JobsInv, RowsInv, NEW a \in Actors, NEW j \in Jobs,
           \/ a \in Workers /\ (ClaimCheck(a, j) \/ CloseCancelled(a, j))
           \/ a \in Clients /\ Cancel(a, j)
    PROVE  RowsInv'
<1>1. /\ HandsOK /\ hand[a].pc = "idle" /\ log' = log /\ rows' = rows /\ request' = request
      /\ hurt' = hurt /\ crowded' = crowded
      /\ rows[j] # {} \/ log[j] # {}
      /\ \E stage \in Stages : hand' = [hand EXCEPT ![a] = [Free EXCEPT !.pc = "mint", !.job = j, !.stage = stage]]
  BY DEF JobsInv, LogInv, ClaimCheck, CloseCancelled, Cancel, tables, Created, Stages, Working, TERMINAL, Ends
<1>2. Alone(a) /\ hand'[a].pc = "mint" /\ hand'[a].job = j
  BY <1>1, FreeHand DEF HandsOK, Hands, Alone
<1> SUFFICES ASSUME NEW k \in Jobs PROVE RowsOf(k)'  BY DEF RowsInv
<1>3. /\ On(a, k)' => k = j /\ hand'[a].pc # "insert"
      /\ ~At(a, k, Busy)'
  BY <1>2 DEF On, At, Busy
<1> QED  BY <1>1, <1>2, <1>3, RowsAside

LEMMA CreateRows ==
    ASSUME JobsInv, RowsInv, NEW c \in Clients, NEW j \in Jobs, NEW f \in Requests, Create(c, f, j)
    PROVE  RowsInv'
<1>1. /\ c \in Actors /\ HandsOK /\ TablesOK /\ hand[c].pc = "idle" /\ log' = log /\ rows' = rows
      /\ hurt' = hurt /\ crowded' = crowded /\ request[j] = NoRequest /\ f # NoRequest
      /\ request' = [request EXCEPT ![j] = f]
      /\ hand' = [hand EXCEPT ![c] = [Free EXCEPT !.pc = "insert", !.job = j]]
  BY JobsBounds DEF JobsInv, LogInv, Create, Actors
<1>2. Alone(c) /\ hand'[c].pc = "insert" /\ hand'[c].job = j
  BY <1>1, FreeHand DEF HandsOK, Hands, Alone
<1>3. request'[j] = f /\ \A k \in Jobs \ {j} : request'[k] = request[k]
  BY <1>1 DEF TablesOK
<1>4. ASSUME NEW k \in Jobs, k # j  PROVE RowsOf(k)'
  <2>1. ~On(c, k) /\ ~On(c, k)'  BY <1>1, <1>2, <1>4 DEF On
  <2>2. request'[k] = request[k]  BY <1>3, <1>4
  <2> QED  BY <1>1, <1>2, <2>1, <2>2, RowsAside DEF At, On
<1>5. rows[j] = {} /\ log[j] = {} /\ \A b \in Actors : ~On(b, j)
  BY <1>1 DEF RowsInv, RowsOf, Fresh
<1>6. \A b \in Actors : On(b, j)' => b = c
  BY <1>2, <1>5 DEF On, Alone
<1>7. Fresh(j)'
  BY <1>1, <1>3, <1>5, <1>6 DEF Fresh, At, On
<1>8. Kept(j)'
  <2>1. \A b \in Actors : ~At(b, j, Busy)' /\ ~At(b, j, {"commit"})'
    BY <1>2, <1>6 DEF At, On, Busy
  <2> QED  BY <1>1, <1>2, <1>5, <1>6, <2>1 DEF Kept
<1> QED  BY <1>4, <1>7, <1>8 DEF RowsInv, RowsOf

LEMMA InsertRows == ASSUME JobsInv, RowsInv, NEW c \in Clients, Insert(c) PROVE RowsInv'
<1>0. PICK j \in Jobs : j = hand[c].job
  BY DEF JobsInv, LogInv, HandsOK, Good, Insert, Actors
<1> DEFINE first == [seq |-> 0, stage |-> "queued"]
<1>1. /\ hand[c].job = j /\ c \in Actors /\ HandsOK /\ TablesOK /\ hand[c] \in Hands
      /\ hand[c].pc = "insert" /\ j \in Jobs
      /\ log' = log /\ hurt' = hurt /\ crowded' = crowded /\ request' = request
      /\ rows' = [rows EXCEPT ![j] = {first}] /\ Writes(c, "queued")
  BY <1>0 DEF JobsInv, LogInv, HandsOK, Good, Insert, Actors
<1>2. Alone(c) /\ hand'[c].pc = "mint" /\ hand'[c].job = j
  BY <1>1 DEF Writes, HandsOK, Hands, Alone
<1>3. rows'[j] = {first} /\ \A k \in Jobs \ {j} : rows'[k] = rows[k]
  BY <1>1 DEF TablesOK
<1> HIDE DEF first
<1>4. ASSUME NEW k \in Jobs, k # j  PROVE RowsOf(k)'
  <2>1. ~On(c, k) /\ ~On(c, k)'  BY <1>1, <1>2, <1>4 DEF On
  <2>2. rows'[k] = rows[k]  BY <1>3, <1>4
  <2> QED  BY <1>1, <1>2, <2>1, <2>2, RowsAside DEF At, On
<1>5. On(c, j) /\ At(c, j, {"insert"}) /\ RowsOf(j)
  BY <1>1 DEF On, At, RowsInv
<1>6. rows[j] = {} /\ log[j] = {} /\ request[j] # NoRequest /\ \A b \in Actors : On(b, j) => b = c
  BY <1>1, <1>5 DEF RowsOf, Fresh
<1>7. \A b \in Actors : On(b, j)' => b = c
  BY <1>2, <1>6 DEF On, Alone
<1>8. Fresh(j)'
  <2>1. \A b \in Actors : ~At(b, j, {"insert"})'
    BY <1>2, <1>7 DEF At, On
  <2> QED  BY <1>1, <1>6, <2>1 DEF Fresh
<1>9. Kept(j)'
  <2>1. \A b \in Actors : /\ ~At(b, j, Busy)' /\ ~At(b, j, {"commit"})' /\ ~At(b, j, {"carry"})'
    BY <1>2, <1>7 DEF At, On, Busy
  <2>2. Told(j, first)'  BY <1>1, <1>6, <2>1 DEF Told
  <2> QED  BY <1>3, <2>1, <2>2 DEF Kept
<1> QED  BY <1>4, <1>8, <1>9 DEF RowsInv, RowsOf

LEMMA ApiDiesRows == ASSUME JobsInv, RowsInv, ApiDies PROVE RowsInv'
<1>1. /\ hand' = [a \in Actors |-> IF a \in Clients THEN Free ELSE hand[a]]
      /\ log' = log /\ rows' = rows /\ request' = request /\ crowded' = crowded
      /\ hurt' = hurt \cup {hand[c].job : c \in {d \in Clients : hand[d].pc # "idle"}}
  BY DEF ApiDies, tables
<1>2. \A a \in Actors : hand'[a] = IF a \in Clients THEN Free ELSE hand[a]
  BY <1>1
<1> SUFFICES ASSUME NEW j \in Jobs PROVE RowsOf(j)'  BY DEF RowsInv
<1>3. \A a \in Actors : hand'[a] = hand[a] \/ ~On(a, j)'
  BY <1>2, FreeHand DEF On
<1>4. Fresh(j)'
  BY <1>1, <1>3, FreshAside DEF RowsInv, RowsOf
<1>5. ASSUME j \notin hurt' \cup crowded'  PROVE Kept(j)'
  <2>1. \A c \in Clients : ~On(c, j)
    BY <1>1, <1>5 DEF On
  <2>2. \A a \in Actors : hand'[a] = hand[a] \/ (~At(a, j, Busy) /\ ~At(a, j, Busy)' /\ ~On(a, j)')
    BY <1>2, <1>3, <2>1, FreeHand DEF At, On, Busy
  <2>3. Kept(j)  BY <1>1, <1>5 DEF RowsInv, RowsOf
  <2> QED  BY <1>1, <2>2, <2>3, KeptAside
<1> QED  BY <1>4, <1>5 DEF RowsOf

----------------------------------------------------------------------------
LEMMA InitRows == Init => RowsInv
<1> SUFFICES ASSUME Init, NEW j \in Jobs PROVE RowsOf(j)  BY DEF RowsInv
<1>1. rows[j] = {} /\ log[j] = {} /\ \A a \in Actors : hand[a].pc = "idle"
  BY FreeHand DEF Init
<1>2. \A a \in Actors : ~On(a, j) /\ ~At(a, j, Busy) /\ ~At(a, j, {"commit"}) /\ ~At(a, j, {"insert"})
  BY <1>1 DEF On, At, Busy
<1> QED  BY <1>1, <1>2 DEF RowsOf, Fresh, Kept

LEMMA NextRows == JobsInv /\ RowsInv /\ [Next]_vars => RowsInv'
<1> SUFFICES ASSUME JobsInv, RowsInv, [Next]_vars PROVE RowsInv'  OBVIOUS
<1>1. ASSUME NEW a \in Actors, Append(a) \/ CommitFails(a)  PROVE RowsInv'
  BY <1>1, MintRows, CommitRows, ReadRowRows, CarryRows, FaultRows DEF Append
<1>2. ASSUME NEW w \in Workers, Poll(w) \/ Run(w) \/ RunNotRecorded(w) \/ WorkerDies(w)
      PROVE  RowsInv'
  <2>1. w \in Actors  BY DEF Actors
  <2> QED  BY <1>1, <1>2, <2>1, PollRows, WorkRows, FaultRows DEF Poll, Run
<1>3. ASSUME NEW c \in Clients,
             \/ Insert(c)
             \/ \E j \in Jobs : Cancel(c, j) \/ \E f \in Requests : Create(c, f, j)
      PROVE  RowsInv'
  <2>1. c \in Actors  BY DEF Actors
  <2> QED  BY <1>3, <2>1, InsertRows, PollRows, CreateRows
<1>4. CASE ApiDies  BY <1>4, ApiDiesRows
<1>5. CASE UNCHANGED vars
  BY <1>5 DEF vars, tables, RowsInv, RowsOf, Fresh, Kept, Told, Latest, At, On
<1> QED  BY <1>1, <1>2, <1>3, <1>4, <1>5 DEF Next

\* While one writer at a time appends to a job and none of them stops half way, the job's row
\* names the stage of its last event (_record, jobs.py 138-148; the property RowTellsTheLog).
\* Event and row are two commits: what lies between them is the writer's to carry over.
THEOREM RowsTellTheLog == Spec => []RowTellsTheLog
<1>1. JobsInv /\ RowsInv => RowTellsTheLog
  <2> SUFFICES ASSUME JobsInv, RowsInv, NEW j \in Jobs, log[j] # {}, j \notin hurt \cup crowded,
                      \A a \in Actors : ~(On(a, j) /\ hand[a].pc \in {"row", "carry"}),
                      NEW row \in rows[j]
               PROVE  row.stage = Last(j).stage
    BY DEF RowTellsTheLog
  <2>1. Last(j) \in log[j] /\ Latest(Last(j), j)  BY LastIs DEF JobsInv, LogInv
  <2>2. Kept(j)  BY DEF RowsInv, RowsOf
  <2>3. Told(j, row)  BY <2>2 DEF Kept
  <2>4. \A a \in Actors : ~At(a, j, {"row", "carry"})  BY DEF At, On
  <2> QED  BY <2>1, <2>3, <2>4 DEF Told
<1>2. JobsInv /\ RowsInv /\ [Next]_vars => RowsInv'  BY NextRows
<1> QED  BY <1>1, <1>2, InitRows, JobsAlways, PTL DEF Spec
----------------------------------------------------------------------------
\* How a job ends and what it put into Silver.  A worker that may still promote has its claim in
\* the log; who closes a job without one has a cancel in the log first, and the cancel is read
\* between the claim and the provider's first answer, without which nothing is promoted.
Early == {"fetching", "bronze_retained", "normalizing", "validating"}
Clean(j) == \A e \in log[j] : e.stage \notin Refused
Known(j) == Has(j, "cancel_pending")
Mine(w, j) == \E e \in log[j] : e.stage = "fetching" /\ e.by = w

Closes(w, j) == On(w, j) /\ ~hand[w].held /\ hand[w].stage = "cancelled"

\* What a worker is doing on the job, and what is in the log by then.
Placed(w, j) ==
    LET h == hand[w] IN
    /\ ~h.held => ~h.got /\ h.stage \in {"fetching", "cancelled"}
    /\ ~h.held /\ h.stage = "cancelled" => h.pc \in Appending /\ Known(j)
    /\ h.held \/ (h.stage = "fetching" /\ h.pc \notin {"mint", "commit"}) => Mine(w, j)
    /\ h.pc \in {"next", "get", "judge", "publish"} => h.held
    /\ h.pc \in {"decide", "next", "get"} => h.stage = "fetching"
    /\ h.pc = "judge" => h.stage = "validating"

\* Who may still promote the job: after an answer nobody has ended it or is about to close it.
Promotes(w, j) ==
    /\ silver[j] = 0 /\ (Clean(j) \/ Known(j))
    /\ hand[w].pc = "get" \/ hand[w].got => Clean(j) /\ \A b \in Workers : ~Closes(b, j)
Refuses(w, j) == On(w, j) /\ hand[w].pc \in {"mint", "commit"} /\ hand[w].stage \in Refused

Once(j) ==
    /\ \A w \in Workers : On(w, j) /\ Mine(w, j) /\ hand[w].stage \in Early => Promotes(w, j)
    /\ \A w \in Workers : Refuses(w, j) => silver[j] = 0
    /\ silver[j] > 0 => Has(j, "fetching") /\ Clean(j)

EndsOf(j) ==
    /\ \A w \in Workers : On(w, j) => Placed(w, j)
    /\ Clean(j) \/ Known(j) \/ Has(j, "fetching")
    /\ ClaimedTwice(j) \/ Once(j)
EndsInv == \A j \in Jobs : EndsOf(j)

\* What stages are which.
LEMMA StageKinds ==
    /\ Refused \cap (Asked \cup Early) = {} /\ Refused \cap {"gold_ready", "failed"} = {}
    /\ Early \cap Asked = {} /\ Early \cap {"gold_ready", "failed"} = {}
    /\ "cancelled" \in Refused /\ "cancelled" \notin Early
    /\ "silver_ready" \notin Early \cup Refused /\ "materializing" \notin Early \cup Refused
    /\ Early = {"fetching", "bronze_retained", "normalizing", "validating"}
    /\ Appending = {"mint", "commit", "row", "carry"}
BY DEF Refused, Early, Asked, Ends, Appending

\* What the log alone says.
LEMMA SameLog ==
    ASSUME NEW j, log'[j] = log[j]
    PROVE  /\ (Clean(j)' <=> Clean(j)) /\ (Known(j)' <=> Known(j))
           /\ (Has(j, "fetching")' <=> Has(j, "fetching"))
           /\ (ClaimedTwice(j)' <=> ClaimedTwice(j))
           /\ \A w : Mine(w, j)' <=> Mine(w, j)
BY DEF Clean, Known, Has, ClaimedTwice, Mine

\* One claim in the log is one worker's.
LEMMA OneClaim ==
    ASSUME NEW j, ~ClaimedTwice(j), NEW v, NEW w, Mine(v, j), Mine(w, j)
    PROVE  v = w
BY DEF ClaimedTwice, Mine

LEMMA MineHas == ASSUME NEW j, NEW w, Mine(w, j) PROVE Has(j, "fetching")
BY DEF Mine, Has

\* A step of one actor that leaves log and Silver alone, seen from one job.
LEMMA EndsSeen ==
    ASSUME NEW j \in Jobs, EndsOf(j), NEW a \in Actors, Alone(a),
           log'[j] = log[j], silver'[j] = silver[j],
           a \in Workers /\ On(a, j)' =>
               /\ Placed(a, j)'
               /\ ~ClaimedTwice(j) =>
                     /\ Mine(a, j) /\ hand'[a].stage \in Early => Promotes(a, j)'
                     /\ Refuses(a, j)' => silver[j] = 0
                     /\ Closes(a, j)' => Closes(a, j) \/ ~Has(j, "fetching")
    PROVE  EndsOf(j)'
<1>1. EndsOf(j) /\ log'[j] = log[j] /\ silver'[j] = silver[j]  OBVIOUS
<1>2. /\ (Clean(j)' <=> Clean(j)) /\ (Known(j)' <=> Known(j))
      /\ (Has(j, "fetching")' <=> Has(j, "fetching")) /\ (ClaimedTwice(j)' <=> ClaimedTwice(j))
      /\ \A w : Mine(w, j)' <=> Mine(w, j)
  BY <1>1, SameLog
<1>3. ASSUME NEW w \in Workers, w # a, On(w, j)' PROVE hand'[w] = hand[w] /\ On(w, j)
  <2>1. w \in Actors \ {a}  BY <1>3 DEF Actors
  <2>2. hand'[w] = hand[w]  BY <2>1 DEF Alone
  <2> QED  BY <1>3, <2>2 DEF On
<1>4. ASSUME NEW w \in Workers, On(w, j)' PROVE Placed(w, j)'
  <2>1. CASE w = a  BY <1>4, <2>1
  <2>2. CASE w # a
    <3>1. hand'[w] = hand[w] /\ Placed(w, j)  BY <1>1, <1>3, <1>4, <2>2 DEF EndsOf
    <3> QED  BY <1>2, <3>1 DEF Placed
  <2> QED  BY <2>1, <2>2
<1>5. ASSUME ~ClaimedTwice(j) PROVE Once(j)'
  <2>0. Once(j)  BY <1>1, <1>5 DEF EndsOf
  <2>1. ASSUME NEW w \in Workers, On(w, j)', Mine(w, j)', hand'[w].stage \in Early PROVE Promotes(w, j)'
    <3>1. CASE w = a  BY <1>2, <1>5, <2>1, <3>1
    <3>2. CASE w # a
      <4>1. hand'[w] = hand[w] /\ On(w, j)  BY <1>3, <2>1, <3>2
      <4>2. Promotes(w, j) /\ Mine(w, j)  BY <1>2, <2>0, <2>1, <4>1 DEF Once
      <4>3. ASSUME NEW b \in Workers, Closes(b, j)' PROVE Closes(b, j)
        <5>1. CASE b = a
          <6>1. On(a, j)'  BY <4>3, <5>1 DEF Closes
          <6>2. Has(j, "fetching")  BY <4>2, MineHas
          <6> QED  BY <1>5, <4>3, <5>1, <6>1, <6>2
        <5>2. CASE b # a  BY <1>3, <4>3, <5>2 DEF Closes
        <5> QED  BY <5>1, <5>2
      <4> QED  BY <1>1, <1>2, <4>1, <4>2, <4>3 DEF Promotes
    <3> QED  BY <3>1, <3>2
  <2>2. ASSUME NEW w \in Workers, Refuses(w, j)' PROVE silver'[j] = 0
    <3>1. CASE w = a  BY <1>1, <1>5, <2>2, <3>1 DEF Refuses
    <3>2. CASE w # a
      <4>1. hand'[w] = hand[w] /\ On(w, j)  BY <1>3, <2>2, <3>2 DEF Refuses
      <4>2. Refuses(w, j)  BY <2>2, <4>1 DEF Refuses
      <4> QED  BY <1>1, <2>0, <4>2 DEF Once
    <3> QED  BY <3>1, <3>2
  <2>3. silver'[j] > 0 => Has(j, "fetching")' /\ Clean(j)'  BY <1>1, <1>2, <2>0 DEF Once
  <2> QED  BY <2>1, <2>2, <2>3 DEF Once
<1>6. (Clean(j) \/ Known(j) \/ Has(j, "fetching"))' /\ (ClaimedTwice(j) \/ Once(j))'
  BY <1>1, <1>2, <1>5 DEF EndsOf
<1> QED  BY <1>4, <1>6 DEF EndsOf

LEMMA EndsAside ==
    ASSUME EndsInv, NEW a \in Actors, Alone(a), log' = log, silver' = silver,
           \A j \in Jobs : a \in Workers /\ On(a, j)' =>
               /\ Placed(a, j)'
               /\ ~ClaimedTwice(j) =>
                     /\ Mine(a, j) /\ hand'[a].stage \in Early => Promotes(a, j)'
                     /\ Refuses(a, j)' => silver[j] = 0
                     /\ Closes(a, j)' => Closes(a, j) \/ ~Has(j, "fetching")
    PROVE  EndsInv'
<1> SUFFICES ASSUME NEW j \in Jobs PROVE EndsOf(j)'  BY DEF EndsInv
<1>1. EndsOf(j) /\ log'[j] = log[j] /\ silver'[j] = silver[j]  BY DEF EndsInv
<1> QED  BY <1>1, EndsSeen

\* An actor that lets go of its job, and a client: neither promotes nor refuses.
LEMMA EndsLeft ==
    ASSUME EndsInv, NEW a \in Actors, Alone(a), log' = log, silver' = silver,
           a \in Clients \/ hand'[a].pc = "idle"
    PROVE  EndsInv'
BY EndsAside, JobsBounds DEF On

LEMMA EndsFree ==
    ASSUME JobsInv, EndsInv, NEW a \in Actors, hand' = [hand EXCEPT ![a] = Free],
           log' = log, silver' = silver
    PROVE  EndsInv'
<1>1. Alone(a) /\ hand'[a].pc = "idle"  BY FreeHand DEF JobsInv, LogInv, HandsOK, Alone
<1> QED  BY <1>1, EndsLeft

\* A step of a worker within its job that leaves log and Silver alone.
LEMMA EndsWithin ==
    ASSUME EndsInv, NEW w \in Workers, NEW j \in Jobs, On(w, j), Alone(w), log' = log, silver' = silver,
           hand'[w].job = j, Placed(w, j)',
           Placed(w, j) /\ ~ClaimedTwice(j) =>
               /\ Mine(w, j) /\ hand'[w].stage \in Early => Promotes(w, j)'
               /\ Refuses(w, j)' => silver[j] = 0
               /\ Closes(w, j)' => Closes(w, j)
    PROVE  EndsInv'
<1>1. w \in Actors /\ Placed(w, j)  BY DEF EndsInv, EndsOf, Actors
<1>2. ASSUME NEW k \in Jobs, On(w, k)' PROVE k = j  BY <1>2 DEF On
<1> QED  BY <1>1, <1>2, EndsAside

\* A worker goes on with its append.
LEMMA AppendsOn ==
    ASSUME EndsInv, HandsOK, NEW a \in Actors, NEW j \in Jobs, On(a, j), NEW h,
           hand' = [hand EXCEPT ![a] = h], log' = log, silver' = silver,
           h.job = j, h.stage = hand[a].stage, h.held = hand[a].held, h.got = hand[a].got,
           \/ hand[a].pc = "mint" /\ h.pc = "commit"
           \/ hand[a].pc = "row" /\ h.pc = "carry"
    PROVE  EndsInv'
<1>1. hand'[a] = h /\ Alone(a)  BY DEF HandsOK, Alone
<1>2. CASE a \in Clients  BY <1>1, <1>2, EndsLeft
<1>3. CASE a \in Workers
  <2>1. Placed(a, j)  BY <1>3 DEF EndsInv, EndsOf
  <2>2. /\ (Known(j)' <=> Known(j)) /\ (Mine(a, j)' <=> Mine(a, j)) /\ (Clean(j)' <=> Clean(j))
        /\ log'[j] = log[j]
    BY SameLog
  <2>3. Placed(a, j)'  BY <1>1, <2>1, <2>2 DEF Placed, Appending
  <2>4. \A b \in Workers : Closes(b, j)' => Closes(b, j)
    <3> SUFFICES ASSUME NEW b \in Workers, Closes(b, j)' PROVE Closes(b, j)  OBVIOUS
    <3>1. CASE b = a  BY <1>1, <3>1 DEF Closes, On
    <3>2. CASE b # a
      <4>1. hand'[b] = hand[b]  BY <1>1, <3>2 DEF Alone, Actors
      <4> QED  BY <4>1 DEF Closes, On
    <3> QED  BY <3>1, <3>2
  <2>5. ASSUME ~ClaimedTwice(j), Mine(a, j), h.stage \in Early PROVE Promotes(a, j)'
    <3>1. Promotes(a, j)  BY <1>3, <2>5 DEF EndsInv, EndsOf, Once
    <3> QED  BY <1>1, <2>2, <2>4, <3>1 DEF Promotes
  <2>6. ASSUME ~ClaimedTwice(j), Refuses(a, j)' PROVE silver[j] = 0
    <3>1. Refuses(a, j)  BY <1>1, <2>6 DEF Refuses
    <3> QED  BY <1>3, <2>6, <3>1 DEF EndsInv, EndsOf, Once
  <2> QED  BY <1>1, <1>3, <2>3, <2>4, <2>5, <2>6, EndsWithin
<1> QED  BY <1>2, <1>3 DEF Actors

\* A worker that holds the job goes on with it.
LEMMA HoldsOn ==
    ASSUME EndsInv, HandsOK, NEW w \in Workers, NEW j \in Jobs, On(w, j), Mine(w, j), NEW h \in Hands,
           hand' = [hand EXCEPT ![w] = h], log' = log, silver' = silver, h.job = j, h.held,
           h.pc \in {"decide", "next", "get"} => h.stage = "fetching",
           h.pc = "judge" => h.stage = "validating",
           h.stage \in Early \cup Refused => hand[w].stage \in Early,
           (h.pc = "get" \/ h.got) /\ h.stage \in Early =>
               hand[w].pc = "get" \/ hand[w].got \/ ~Known(j)
    PROVE  EndsInv'
<1>1. hand'[w] = h /\ Alone(w)  BY DEF HandsOK, Alone, Actors
<1>2. /\ (Known(j)' <=> Known(j)) /\ (Mine(w, j)' <=> Mine(w, j)) /\ (Clean(j)' <=> Clean(j))
  BY SameLog
<1>3. Placed(w, j)'  BY <1>1, <1>2 DEF Placed
<1>4. \A b \in Workers : Closes(b, j)' => Closes(b, j) /\ b # w
  <2> SUFFICES ASSUME NEW b \in Workers, Closes(b, j)' PROVE Closes(b, j) /\ b # w  OBVIOUS
  <2>1. b # w  BY <1>1 DEF Closes
  <2>2. hand'[b] = hand[b]  BY <1>1, <2>1 DEF Alone, Actors
  <2> QED  BY <2>1, <2>2 DEF Closes, On
<1>5. ASSUME ~ClaimedTwice(j), h.stage \in Early \cup Refused PROVE Promotes(w, j)
  BY <1>5 DEF EndsInv, EndsOf, Once
<1>6. ASSUME ~ClaimedTwice(j), h.stage \in Early PROVE Promotes(w, j)'
  <2>1. Promotes(w, j)  BY <1>5, <1>6
  <2>2. ~Known(j) => \A b \in Workers : ~Closes(b, j)  BY DEF EndsInv, EndsOf, Closes, Placed
  <2>3. h.pc = "get" \/ h.got => Clean(j) /\ \A b \in Workers : ~Closes(b, j)
    BY <1>6, <2>1, <2>2 DEF Promotes
  <2> QED  BY <1>1, <1>2, <1>4, <2>1, <2>3 DEF Promotes
<1>7. ASSUME ~ClaimedTwice(j), Refuses(w, j)' PROVE silver[j] = 0
  <2>1. h.stage \in Refused  BY <1>1, <1>7 DEF Refuses
  <2> QED  BY <1>5, <1>7, <2>1 DEF Promotes
<1> QED  BY <1>1, <1>3, <1>4, <1>6, <1>7, EndsWithin

\* Whoever polls finds no claim in the log: nothing was promoted, nobody may promote.
LEMMA PollEnds ==
    ASSUME JobsInv, EndsInv, NEW w \in Workers, NEW j \in Jobs, ClaimCheck(w, j) \/ CloseCancelled(w, j)
    PROVE  EndsInv'
<1>1. /\ w \in Actors /\ HandsOK /\ Numbered /\ silver[j] \in Nat
      /\ log[j] # {} /\ ~Has(j, "fetching") /\ log' = log /\ silver' = silver
  BY DEF JobsInv, LogInv, TablesOK, ClaimCheck, CloseCancelled, tables, Actors
<1>2. ~ClaimedTwice(j) /\ ~Mine(w, j)  BY <1>1 DEF ClaimedTwice, Mine, Has
<1>3. silver[j] = 0  BY <1>1, <1>2 DEF EndsInv, EndsOf, Once
<1>4. (Known(j)' <=> Known(j)) /\ (Mine(w, j)' <=> Mine(w, j))  BY <1>1, SameLog
<1>5. ASSUME NEW stage, hand' = [hand EXCEPT ![w] = [Free EXCEPT !.pc = "mint", !.job = j, !.stage = stage]],
             stage = "fetching" \/ (stage = "cancelled" /\ Known(j))
      PROVE  EndsInv'
  <2>1. /\ Alone(w) /\ hand'[w].pc = "mint" /\ hand'[w].job = j /\ hand'[w].stage = stage
        /\ ~hand'[w].held /\ ~hand'[w].got
    BY <1>1, <1>5 DEF HandsOK, Alone, Free
  <2>2. Placed(w, j)'  BY <1>4, <1>5, <2>1, StageKinds DEF Placed
  <2>3. \A k \in Jobs : On(w, k)' => k = j  BY <2>1 DEF On
  <2> QED  BY <1>1, <1>2, <1>3, <2>1, <2>2, <2>3, EndsAside
<1>6. CASE ClaimCheck(w, j)  BY <1>5, <1>6 DEF ClaimCheck
<1>7. CASE CloseCancelled(w, j)
  <2>1. Last(j).stage = "cancel_pending" /\ Last(j) \in log[j]
    BY <1>1, <1>7, LastIs DEF CloseCancelled
  <2>2. Known(j)  BY <2>1 DEF Known, Has
  <2> QED  BY <1>5, <1>7, <2>2 DEF CloseCancelled
<1> QED  BY <1>6, <1>7

LEMMA ApiEnds ==
    ASSUME JobsInv, EndsInv, NEW c \in Clients, NEW j \in Jobs,
           Insert(c) \/ Cancel(c, j) \/ \E f \in Requests : Create(c, f, j)
    PROVE  EndsInv'
<1>1. c \in Actors /\ HandsOK /\ log' = log /\ silver' = silver
  BY DEF JobsInv, LogInv, Insert, Cancel, Create, tables, Actors
<1>2. Alone(c)  BY <1>1 DEF Insert, Cancel, Create, Writes, HandsOK, Alone
<1> QED  BY <1>1, <1>2, EndsLeft

LEMMA ApiDiesEnds == ASSUME EndsInv, ApiDies PROVE EndsInv'
<1> SUFFICES ASSUME NEW j \in Jobs PROVE EndsOf(j)'  BY DEF EndsInv
<1>1. /\ \A a \in Actors : hand'[a] = IF a \in Clients THEN Free ELSE hand[a]
      /\ log' = log /\ silver' = silver
  BY DEF ApiDies, tables
<1>2. /\ (Clean(j)' <=> Clean(j)) /\ (Known(j)' <=> Known(j))
      /\ (Has(j, "fetching")' <=> Has(j, "fetching")) /\ (ClaimedTwice(j)' <=> ClaimedTwice(j))
      /\ \A w : Mine(w, j)' <=> Mine(w, j)
  BY <1>1, SameLog
<1>3. \A w \in Workers : hand'[w] = hand[w]  BY <1>1, JobsBounds DEF Actors
<1>4. \A w \in Workers : /\ (On(w, j)' <=> On(w, j)) /\ (Placed(w, j)' <=> Placed(w, j))
                         /\ (Closes(w, j)' <=> Closes(w, j)) /\ (Refuses(w, j)' <=> Refuses(w, j))
  BY <1>2, <1>3 DEF On, Placed, Closes, Refuses
<1>5. \A w \in Workers : Promotes(w, j)' <=> Promotes(w, j)
  BY <1>1, <1>2, <1>3, <1>4 DEF Promotes
<1> QED  BY <1>1, <1>2, <1>3, <1>4, <1>5 DEF EndsInv, EndsOf, Once

LEMMA CarryEnds == ASSUME JobsInv, EndsInv, NEW a \in Actors, CarryRow(a) PROVE EndsInv'
<1>0. PICK j \in Jobs : j = hand[a].job
  BY DEF JobsInv, LogInv, HandsOK, Good, CarryRow
<1> DEFINE x == [hand[a] EXCEPT !.seq = 0]
<1>1. /\ HandsOK /\ hand[a] \in Hands /\ hand[a].pc = "carry" /\ hand[a].job = j /\ log' = log
      /\ silver' = silver /\ hand' = [hand EXCEPT ![a] = After(x)] /\ Good(a, hand[a])
  BY <1>0 DEF JobsInv, LogInv, HandsOK, CarryRow
<1>2. /\ x \in Hands /\ x.job = j /\ x.stage = hand[a].stage /\ x.held = hand[a].held
      /\ x.got = hand[a].got /\ On(a, j)
  BY <1>1 DEF Hands, On
<1>3. Alone(a) /\ hand'[a] = After(x)  BY <1>1 DEF HandsOK, Alone
<1> HIDE DEF x
<1>5. \/ After(x) = Free
      \/ /\ After(x).job = j /\ After(x).held = x.held /\ After(x).got = x.got /\ After(x) \in Hands
         /\ \/ x.stage = "fetching" /\ After(x).pc = "decide" /\ After(x).stage = "fetching"
            \/ x.stage = "bronze_retained" /\ After(x).pc = "mint" /\ After(x).stage = "normalizing"
            \/ x.stage = "normalizing" /\ After(x).pc = "mint" /\ After(x).stage = "validating"
            \/ x.stage = "validating" /\ After(x).pc = "judge" /\ After(x).stage = "validating"
            \/ x.stage = "silver_ready" /\ After(x).pc = "mint" /\ After(x).stage = "materializing"
            \/ x.stage = "materializing" /\ After(x).pc = "publish" /\ After(x).stage = "materializing"
  <2>1. CASE x.stage = "fetching"
    <3>1. After(x) = [x EXCEPT !.pc = "decide"]  BY <2>1 DEF After
    <3> QED  BY <1>2, <2>1, <3>1 DEF Hands, Places, Stages, Working, Appending
  <2>2. CASE x.stage = "bronze_retained"
    <3>1. After(x) = [x EXCEPT !.pc = "mint", !.stage = "normalizing"]  BY <2>2 DEF After
    <3> QED  BY <1>2, <2>2, <3>1 DEF Hands, Places, Stages, Working, Appending
  <2>3. CASE x.stage = "normalizing"
    <3>1. After(x) = [x EXCEPT !.pc = "mint", !.stage = "validating"]  BY <2>3 DEF After
    <3> QED  BY <1>2, <2>3, <3>1 DEF Hands, Places, Stages, Working, Appending
  <2>4. CASE x.stage = "validating"
    <3>1. After(x) = [x EXCEPT !.pc = "judge"]  BY <2>4 DEF After
    <3> QED  BY <1>2, <2>4, <3>1 DEF Hands, Places, Stages, Working, Appending
  <2>5. CASE x.stage = "silver_ready"
    <3>1. After(x) = [x EXCEPT !.pc = "mint", !.stage = "materializing"]  BY <2>5 DEF After
    <3> QED  BY <1>2, <2>5, <3>1 DEF Hands, Places, Stages, Working, Appending
  <2>6. CASE x.stage = "materializing"
    <3>1. After(x) = [x EXCEPT !.pc = "publish"]  BY <2>6 DEF After
    <3> QED  BY <1>2, <2>6, <3>1 DEF Hands, Places, Stages, Working, Appending
  <2>7. CASE x.stage \notin {"fetching", "bronze_retained", "normalizing", "validating",
                             "silver_ready", "materializing"}
    <3>1. After(x) = Free  BY <2>7 DEF After
    <3> QED  BY <3>1
  <2> QED  BY <2>1, <2>2, <2>3, <2>4, <2>5, <2>6, <2>7
<1>6. CASE After(x) = Free  BY <1>1, <1>6, EndsFree
<1>7. CASE After(x) # Free
  <2>1. a \in Workers
    <3>1. x.stage \notin Asked  BY <1>5, <1>7 DEF Asked
    <3> QED  BY <1>1, <1>2, <3>1 DEF Good, Actors
  <2>2. Placed(a, j)  BY <1>2, <2>1 DEF EndsInv, EndsOf
  <2>3. hand[a].stage \notin {"fetching", "cancelled"} => hand[a].held  BY <2>2 DEF Placed
  <2>4. Mine(a, j)
    <3>1. CASE hand[a].held  BY <2>2, <3>1 DEF Placed
    <3>2. CASE hand[a].stage = "fetching"  BY <1>1, <2>2, <3>2 DEF Placed
    <3> QED  BY <1>2, <1>5, <1>7, <2>3, <3>1, <3>2
  <2>5. CASE hand[a].held
    <3>1. After(x).stage \in Early \cup Refused => hand[a].stage \in Early
      BY <1>2, <1>5, <1>7, StageKinds
    <3>2. After(x).pc # "get"  BY <1>5, <1>7
    <3> QED  BY <1>1, <1>2, <1>5, <1>7, <2>1, <2>4, <2>5, <3>1, <3>2, HoldsOn
  <2>6. CASE ~hand[a].held
    <3>1. x.stage = "fetching" /\ After(x).pc = "decide" /\ After(x).stage = "fetching"
      BY <1>2, <1>5, <1>7, <2>3, <2>6
    <3>2. /\ (Known(j)' <=> Known(j)) /\ (Mine(a, j)' <=> Mine(a, j)) /\ (Clean(j)' <=> Clean(j))
      BY <1>1, SameLog
    <3>3. Placed(a, j)'  BY <1>2, <1>3, <1>5, <1>7, <2>2, <2>4, <2>6, <3>1, <3>2 DEF Placed
    <3>4. ~Refuses(a, j)' /\ ~Closes(a, j)'  BY <1>3, <3>1 DEF Refuses, Closes
    <3>5. ~hand'[a].got  BY <1>2, <1>3, <1>5, <1>7, <2>2, <2>6 DEF Placed
    <3>6. ASSUME ~ClaimedTwice(j) PROVE Promotes(a, j)'
      <4>1. hand[a].stage \in Early  BY <1>2, <3>1, StageKinds
      <4>2. Promotes(a, j)  BY <1>2, <2>1, <2>4, <3>6, <4>1 DEF EndsInv, EndsOf, Once
      <4> QED  BY <1>1, <1>3, <3>1, <3>2, <3>5, <4>2 DEF Promotes
    <3>7. hand'[a].job = j  BY <1>3, <1>5, <1>7
    <3> QED  BY <1>1, <1>2, <1>3, <2>1, <3>3, <3>4, <3>6, <3>7, EndsWithin
  <2> QED  BY <2>5, <2>6
<1> QED  BY <1>6, <1>7

LEMMA FailsEnds == ASSUME JobsInv, EndsInv, NEW a \in Actors, CommitFails(a) PROVE EndsInv'
<1>0. PICK j \in Jobs : j = hand[a].job
  BY DEF JobsInv, LogInv, HandsOK, Good, CommitFails
<1> DEFINE h == [hand[a] EXCEPT !.pc = "mint", !.stage = "failed", !.seq = 0, !.at = 0]
<1>1. /\ HandsOK /\ hand[a] \in Hands /\ hand[a].pc # "idle" /\ hand[a].job = j
      /\ silver' = silver /\ log' = log /\ Good(a, hand[a]) /\ On(a, j)
  BY <1>0 DEF JobsInv, LogInv, HandsOK, CommitFails, tables, On
<1>2. CASE hand' = [hand EXCEPT ![a] = Free]  BY <1>1, <1>2, EndsFree
<1>3. CASE hand[a].held /\ hand' = [hand EXCEPT ![a] = h]
  <2>1. "mint" \in Places /\ "failed" \in Stages
    BY DEF Places, Appending, Stages, TERMINAL, Ends
  <2>2. h \in Hands /\ h.pc = "mint" /\ h.job = j /\ h.stage = "failed" /\ h.held
    BY <1>1, <1>3, <2>1 DEF Hands
  <2> HIDE DEF h
  <2>3. a \in Workers /\ Placed(a, j)
    BY <1>1, <1>3 DEF Good, Actors, EndsInv, EndsOf
  <2>4. Mine(a, j)  BY <1>3, <2>3 DEF Placed
  <2> QED  BY <1>1, <1>3, <2>2, <2>3, <2>4, StageKinds, HoldsOn
<1> QED  BY <1>2, <1>3 DEF CommitFails

LEMMA WorkEnds ==
    ASSUME JobsInv, EndsInv, NEW w \in Workers, Decide(w) \/ CheckCancel(w) \/ Get(w) \/ Publish(w)
    PROVE  EndsInv'
<1> DEFINE j == hand[w].job
<1>1. /\ w \in Actors /\ w \notin Clients /\ HandsOK /\ hand[w] \in Hands /\ Good(w, hand[w])
      /\ hand[w].pc \in {"decide", "next", "get", "publish"} /\ hand[w].pc # "idle" /\ j \in Jobs
      /\ log' = log /\ silver' = silver
  BY JobsBounds DEF JobsInv, LogInv, HandsOK, Good, Decide, CheckCancel, Get, Publish, tables, Actors
<1>2. Placed(w, j) /\ On(w, j) /\ Mine(w, j)
  <2>1. Placed(w, j) /\ On(w, j)  BY <1>1 DEF EndsInv, EndsOf, On
  <2> QED  BY <1>1, <2>1 DEF Placed
<1>3. /\ hand[w].pc \in {"decide", "next", "get"} =>
            hand[w].stage = "fetching" /\ hand[w].stage \in Early
      /\ hand[w].pc \in {"next", "get", "publish"} => hand[w].held
  BY <1>2, StageKinds DEF Placed
<1>4. ASSUME NEW stage \in Stages, Writes(w, stage), hand[w].held,
             stage \in {"bronze_retained", "cancelled"} => hand[w].pc = "next",
             stage \in {"bronze_retained", "cancelled", "gold_ready", "failed"}
      PROVE  EndsInv'
  <2> DEFINE h == [hand[w] EXCEPT !.pc = "mint", !.stage = stage, !.calls = 0, !.late = 0]
  <2>1. 0 \in Counts /\ "mint" \in Places  BY JobsBounds DEF Counts, Places, Appending
  <2>2. /\ h \in Hands /\ h.pc = "mint" /\ h.job = j /\ h.stage = stage
        /\ h.held /\ h.got = hand[w].got
    BY <1>1, <1>4, <2>1 DEF Hands
  <2>3. hand' = [hand EXCEPT ![w] = h]  BY <1>4 DEF Writes
  <2> HIDE DEF h
  <2>4. stage \in Early \cup Refused => stage \in {"bronze_retained", "cancelled"}
    BY <1>4, StageKinds
  <2>5. stage \in Early \cup Refused => hand[w].stage \in Early
    BY <1>3, <1>4, <2>4
  <2> QED  BY <1>1, <1>2, <2>2, <2>3, <2>5, HoldsOn
<1>5. CASE Decide(w)
  <2>1. hand[w].pc = "decide"  BY <1>5 DEF Decide
  <2>2. CASE hand' = [hand EXCEPT ![w] = Free]  BY <1>1, <2>2, EndsFree
  <2>3. ASSUME NEW n \in Counts,
               hand' = [hand EXCEPT ![w] = [@ EXCEPT !.pc = "next", !.held = TRUE, !.calls = n]]
        PROVE  EndsInv'
    <3> DEFINE h == [hand[w] EXCEPT !.pc = "next", !.held = TRUE, !.calls = n]
    <3>1. "next" \in Places  BY DEF Places
    <3>2. /\ h \in Hands /\ h.pc = "next" /\ h.job = j /\ h.stage = hand[w].stage
          /\ h.held /\ h.got = hand[w].got
      BY <1>1, <3>1 DEF Hands
    <3>3. hand' = [hand EXCEPT ![w] = h]  BY <2>3
    <3> HIDE DEF h
    <3> QED  BY <1>1, <1>2, <1>3, <2>1, <3>2, <3>3, StageKinds, HoldsOn
  <2>4. CASE hand' = [hand EXCEPT ![w] = [@ EXCEPT !.pc = "mint", !.held = TRUE, !.stage = "failed"]]
    <3> DEFINE h == [hand[w] EXCEPT !.pc = "mint", !.held = TRUE, !.stage = "failed"]
    <3>1. "mint" \in Places /\ "failed" \in Stages
      BY DEF Places, Appending, Stages, TERMINAL, Ends
    <3>2. h \in Hands /\ h.pc = "mint" /\ h.job = j /\ h.stage = "failed" /\ h.held
      BY <1>1, <3>1 DEF Hands
    <3>3. hand' = [hand EXCEPT ![w] = h]  BY <2>4
    <3> HIDE DEF h
    <3> QED  BY <1>1, <1>2, <1>3, <2>1, <3>2, <3>3, StageKinds, HoldsOn
  <2> QED  BY <1>5, <2>2, <2>3, <2>4 DEF Decide, Counts
<1>6. CASE CheckCancel(w)
  <2>1. hand[w].pc = "next" /\ "bronze_retained" \in Stages /\ "cancelled" \in Stages
    BY <1>6 DEF CheckCancel, Stages, TERMINAL, Ends, Working
  <2>2. CASE Goes(w, "get") /\ ~Known(j)
    <3> DEFINE h == [hand[w] EXCEPT !.pc = "get"]
    <3>1. "get" \in Places  BY DEF Places
    <3>2. /\ h \in Hands /\ h.pc = "get" /\ h.job = j /\ h.stage = hand[w].stage
          /\ h.held /\ h.got = hand[w].got
      BY <1>1, <1>3, <2>1, <3>1 DEF Hands
    <3>3. hand' = [hand EXCEPT ![w] = h]  BY <2>2 DEF Goes
    <3> HIDE DEF h
    <3> QED  BY <1>1, <1>2, <1>3, <2>1, <2>2, <3>2, <3>3, StageKinds, HoldsOn
  <2>3. Writes(w, "bronze_retained") \/ Writes(w, "cancelled") \/ (Goes(w, "get") /\ ~Known(j))
    BY <1>6 DEF CheckCancel, Known
  <2> QED  BY <1>3, <1>4, <2>1, <2>2, <2>3
<1>7. CASE Get(w)
  <2> DEFINE late == IF Has(j, "cancel_pending") THEN hand[w].late + 1 ELSE hand[w].late
  <2>1. /\ hand[w].pc = "get" /\ late \in {0, 1} /\ hand[w].calls - 1 \in Counts
        /\ {"next", "mint"} \subseteq Places
    <3>1. hand[w].pc = "get"  BY <1>7 DEF Get
    <3>2. hand[w].late = 0 /\ hand[w].calls > 0  BY <1>1, <3>1 DEF Good, Hands, Appending
    <3>3. hand[w].calls \in 0..MaxCalls /\ MaxCalls \in Nat  BY <1>1, JobsBounds DEF Hands, Counts
    <3>4. hand[w].calls - 1 \in Counts  BY <3>2, <3>3 DEF Counts
    <3> QED  BY <3>1, <3>2, <3>4 DEF Places, Appending
  <2>2. \/ hand' = [hand EXCEPT ![w] = [@ EXCEPT !.pc = "next", !.calls = hand[w].calls - 1,
                                              !.late = late, !.got = TRUE]]
        \/ \E stage \in {"rate_limited", "entitlement_denied", "failed"} :
              hand' = [hand EXCEPT ![w] = [@ EXCEPT !.pc = "mint", !.stage = stage, !.late = late]]
    BY <1>7 DEF Get
  <2> HIDE DEF late
  <2>3. CASE hand' = [hand EXCEPT ![w] = [@ EXCEPT !.pc = "next", !.calls = hand[w].calls - 1,
                                              !.late = late, !.got = TRUE]]
    <3> DEFINE h == [hand[w] EXCEPT !.pc = "next", !.calls = hand[w].calls - 1, !.late = late,
                              !.got = TRUE]
    <3>1. /\ h \in Hands /\ h.pc = "next" /\ h.job = j /\ h.stage = hand[w].stage
          /\ h.held
      BY <1>1, <1>3, <2>1 DEF Hands
    <3>2. hand' = [hand EXCEPT ![w] = h]  BY <2>3
    <3> HIDE DEF h
    <3> QED  BY <1>1, <1>2, <1>3, <2>1, <3>1, <3>2, StageKinds, HoldsOn
  <2>4. ASSUME NEW stage \in {"rate_limited", "entitlement_denied", "failed"},
               hand' = [hand EXCEPT ![w] = [@ EXCEPT !.pc = "mint", !.stage = stage, !.late = late]]
        PROVE  EndsInv'
    <3> DEFINE h == [hand[w] EXCEPT !.pc = "mint", !.stage = stage, !.late = late]
    <3>1. stage \in Stages  BY <2>4 DEF Stages, TERMINAL, Ends
    <3>2. h \in Hands /\ h.pc = "mint" /\ h.job = j /\ h.stage = stage /\ h.held
      BY <1>1, <1>3, <2>1, <3>1 DEF Hands
    <3>3. hand' = [hand EXCEPT ![w] = h]  BY <2>4
    <3> HIDE DEF h
    <3> QED  BY <1>1, <1>2, <1>3, <2>1, <3>2, <3>3, StageKinds, HoldsOn
  <2> QED  BY <2>2, <2>3, <2>4
<1>8. CASE Publish(w)
  <2>1. "gold_ready" \in Stages /\ "failed" \in Stages  BY DEF Stages, TERMINAL, Ends
  <2>2. hand[w].held  BY <1>3, <1>8 DEF Publish
  <2> QED  BY <1>4, <1>8, <2>1, <2>2 DEF Publish
<1> QED  BY <1>5, <1>6, <1>7, <1>8

LEMMA MintEnds == ASSUME JobsInv, EndsInv, NEW a \in Actors, Mint(a) PROVE EndsInv'
<1>0. PICK j \in Jobs : j = hand[a].job
  BY DEF JobsInv, LogInv, HandsOK, Good, Mint
<1> DEFINE h == [hand[a] EXCEPT !.pc = "commit", !.seq = Cardinality(log[j]), !.at = Now(j)]
<1>1. /\ HandsOK /\ hand[a] \in Hands /\ hand[a].pc = "mint" /\ hand[a].job = j /\ log' = log
      /\ silver' = silver /\ hand' = [hand EXCEPT ![a] = h]
  BY <1>0 DEF JobsInv, LogInv, HandsOK, Mint, tables
<1>2. /\ h.pc = "commit" /\ h.job = j /\ h.stage = hand[a].stage /\ h.held = hand[a].held
      /\ h.got = hand[a].got
  BY <1>1 DEF Hands
<1> HIDE DEF h
<1>3. On(a, j)  BY <1>1 DEF On
<1> QED  BY <1>1, <1>2, <1>3, AppendsOn

LEMMA ReadRowEnds == ASSUME JobsInv, EndsInv, NEW a \in Actors, ReadRow(a) PROVE EndsInv'
<1>0. PICK j \in Jobs : j = hand[a].job
  BY DEF JobsInv, LogInv, HandsOK, Good, ReadRow
<1>1. PICK seq : hand' = [hand EXCEPT ![a] = [@ EXCEPT !.pc = "carry", !.seq = seq]]
  BY DEF ReadRow
<1> DEFINE h == [hand[a] EXCEPT !.pc = "carry", !.seq = seq]
<1>2. /\ HandsOK /\ hand[a] \in Hands /\ hand[a].pc = "row" /\ hand[a].job = j /\ log' = log
      /\ silver' = silver /\ hand' = [hand EXCEPT ![a] = h]
  BY <1>0, <1>1 DEF JobsInv, LogInv, HandsOK, ReadRow, tables
<1>3. /\ h.pc = "carry" /\ h.job = j /\ h.stage = hand[a].stage /\ h.held = hand[a].held
      /\ h.got = hand[a].got
  BY <1>2 DEF Hands
<1> HIDE DEF h
<1>4. On(a, j)  BY <1>2 DEF On
<1> QED  BY <1>2, <1>3, <1>4, AppendsOn

\* A client's event neither refuses nor claims.
LEMMA AskedEnds ==
    ASSUME NEW j \in Jobs, EndsOf(j), NEW c \in Clients, Alone(c), NEW new, new.stage \in Asked,
           log'[j] = log[j] \cup {new}, silver'[j] = silver[j]
    PROVE  EndsOf(j)'
<1>1. c \in Actors /\ c \notin Workers  BY JobsBounds DEF Actors
<1>2. \A w \in Workers : hand'[w] = hand[w]  BY <1>1 DEF Alone, Actors
<1>3. new.stage \notin Refused /\ new.stage # "fetching"  BY StageKinds
<1>4. (Clean(j)' <=> Clean(j)) /\ (Known(j) => Known(j)')  BY <1>3 DEF Clean, Known, Has
<1>5. (Has(j, "fetching")' <=> Has(j, "fetching")) /\ (\A w : Mine(w, j)' <=> Mine(w, j))
  BY <1>3 DEF Has, Mine
<1>6. ClaimedTwice(j)' <=> ClaimedTwice(j)  BY <1>3 DEF ClaimedTwice
<1>7. \A w \in Workers : /\ (On(w, j)' <=> On(w, j)) /\ (Closes(w, j)' <=> Closes(w, j))
                         /\ (Refuses(w, j)' <=> Refuses(w, j))
  BY <1>2 DEF On, Closes, Refuses
<1>8. \A w \in Workers : Placed(w, j) => Placed(w, j)'  BY <1>2, <1>4, <1>5 DEF Placed
<1>9. \A w \in Workers : Promotes(w, j) => Promotes(w, j)'  BY <1>2, <1>4, <1>7 DEF Promotes
<1>10. Once(j) => Once(j)'  BY <1>2, <1>4, <1>5, <1>7, <1>9 DEF Once
<1> QED  BY <1>4, <1>5, <1>6, <1>7, <1>8, <1>10 DEF EndsOf

\* A worker's event.  The second claim of a job is told by the log; what refuses a job comes
\* from its holder, or from who closes it after the cancel.
LEMMA WorkedEnds ==
    ASSUME NEW j \in Jobs, EndsOf(j), silver[j] \in Nat, NEW w \in Workers, Alone(w), On(w, j), On(w, j)',
           hand[w].pc = "commit", hand'[w].pc = "row", hand'[w].stage = hand[w].stage,
           hand'[w].held = hand[w].held, hand'[w].got = hand[w].got,
           NEW new, new \notin log[j], new.stage = hand[w].stage, new.by = w,
           log'[j] = log[j] \cup {new}, silver'[j] = silver[j]
    PROVE  EndsOf(j)'
<1>1. w \in Actors /\ Placed(w, j) /\ hand[w].pc \in Appending  BY StageKinds DEF EndsOf, Actors
<1>2. /\ Known(j) => Known(j)'
      /\ Has(j, "fetching") => Has(j, "fetching")'
      /\ ClaimedTwice(j) => ClaimedTwice(j)'
      /\ \A b : Mine(b, j) => Mine(b, j)'
  BY DEF Known, Has, ClaimedTwice, Mine
<1>3. new.stage \notin Refused => (Clean(j)' <=> Clean(j))  BY DEF Clean
<1>4. \A b \in Workers : b # w => hand'[b] = hand[b]  BY DEF Alone, Actors
<1>5. \A b \in Workers : /\ On(b, j)' <=> On(b, j)
                         /\ hand'[b].stage = hand[b].stage /\ hand'[b].held = hand[b].held
                         /\ hand'[b].got = hand[b].got
                         /\ hand'[b].pc = "get" => hand[b].pc = "get"
                         /\ Closes(b, j)' <=> Closes(b, j)
                         /\ Refuses(b, j)' => Refuses(b, j)
  <2> TAKE b \in Workers
  <2>1. CASE b = w  BY <2>1 DEF Closes, Refuses
  <2>2. CASE b # w  BY <1>4, <2>2 DEF On, Closes, Refuses
  <2> QED  BY <2>1, <2>2
<1>6. \A b \in Workers : On(b, j)' => Placed(b, j)'
  <2> SUFFICES ASSUME NEW b \in Workers, On(b, j)' PROVE Placed(b, j)'  OBVIOUS
  <2>1. Placed(b, j)  BY <1>5 DEF EndsOf
  <2>2. CASE b = w
    <3>1. new.stage = "fetching" => Mine(w, j)'  BY DEF Mine
    <3>2. "row" \in Appending  BY StageKinds
    <3> QED  BY <1>2, <2>1, <2>2, <3>1, <3>2 DEF Placed
  <2>3. CASE b # w  BY <1>2, <1>4, <2>1, <2>3 DEF Placed
  <2> QED  BY <2>2, <2>3
\* Who refuses the job holds it or closes it.
<1>7. new.stage \in Refused => (Mine(w, j) /\ hand[w].held) \/ (Known(j) /\ Closes(w, j))
  BY <1>1, StageKinds DEF Placed, Closes
<1>8. (Clean(j) \/ Known(j) \/ Has(j, "fetching"))'
  <2>1. CASE new.stage \notin Refused  BY <1>2, <1>3, <2>1 DEF EndsOf
  <2>2. CASE new.stage \in Refused  BY <1>2, <1>7, <2>2, MineHas
  <2> QED  BY <2>1, <2>2
<1>9. ASSUME ~ClaimedTwice(j)' PROVE Once(j)'
  <2>0. ~ClaimedTwice(j) /\ Once(j)  BY <1>2, <1>9 DEF EndsOf
  <2>1. CASE new.stage = "fetching"
    <3>1. ~Has(j, "fetching")  BY <1>9, <2>1 DEF Has, ClaimedTwice
    <3>2. silver[j] = 0  BY <2>0, <3>1 DEF Once
    <3>3. \A b : ~Mine(b, j)  BY <3>1, MineHas
    <3>4. ASSUME NEW b \in Workers, Mine(b, j)' PROVE b = w  BY <3>3, <3>4 DEF Mine
    <3>5. Promotes(w, j)'
      <4>1. ~hand[w].held /\ ~hand[w].got  BY <1>1, <3>3 DEF Placed
      <4>2. Clean(j)' \/ Known(j)'  BY <1>2, <1>3, <2>1, <3>1, StageKinds DEF EndsOf
      <4> QED  BY <3>2, <4>1, <4>2 DEF Promotes
    <3> QED  BY <3>2, <3>4, <3>5 DEF Once
  <2>2. CASE new.stage # "fetching"
    <3>1. (Has(j, "fetching")' <=> Has(j, "fetching")) /\ (\A b : Mine(b, j)' <=> Mine(b, j))
      BY <2>2 DEF Has, Mine
    <3>2. ASSUME NEW b \in Workers, On(b, j)', Mine(b, j)', hand'[b].stage \in Early
          PROVE  Promotes(b, j)'
      <4>1. Promotes(b, j) /\ Mine(b, j) /\ hand[b].stage \in Early
        BY <1>5, <2>0, <3>1, <3>2 DEF Once
      <4>2. new.stage \in Refused => Known(j) /\ Closes(w, j)
        <5>1. ASSUME Mine(w, j), new.stage \in Refused PROVE FALSE
          <6>1. b = w  BY <2>0, <4>1, <5>1, OneClaim
          <6> QED  BY <4>1, <5>1, <6>1, StageKinds
        <5> QED  BY <1>7, <5>1
      <4>3. Clean(j)' \/ Known(j)'  BY <1>2, <1>3, <4>1, <4>2 DEF Promotes
      <4>4. ASSUME hand'[b].pc = "get" \/ hand'[b].got
            PROVE  Clean(j)' /\ \A c \in Workers : ~Closes(c, j)'
        <5>1. Clean(j) /\ \A c \in Workers : ~Closes(c, j)  BY <1>5, <4>1, <4>4 DEF Promotes
        <5> QED  BY <1>3, <1>5, <4>2, <5>1
      <4> QED  BY <4>1, <4>3, <4>4 DEF Promotes
    <3>3. \A b \in Workers : Refuses(b, j)' => silver'[j] = 0  BY <1>5, <2>0 DEF Once
    <3>4. silver'[j] > 0 => Has(j, "fetching")' /\ Clean(j)'
      <4>1. new.stage \in Refused => silver[j] = 0  BY <2>0 DEF Once, Refuses
      <4> QED  BY <1>3, <2>0, <3>1, <4>1 DEF Once
    <3> QED  BY <3>2, <3>3, <3>4 DEF Once
  <2> QED  BY <2>1, <2>2
<1> QED  BY <1>6, <1>8, <1>9 DEF EndsOf

LEMMA CommitEnds == ASSUME JobsInv, EndsInv, NEW a \in Actors, Commit(a) PROVE EndsInv'
<1>0. PICK j \in Jobs : j = hand[a].job
  BY DEF JobsInv, LogInv, HandsOK, Good, Commit
<1> DEFINE h == [hand[a] EXCEPT !.pc = "row", !.seq = 0, !.at = 0]
           new == [seq |-> hand[a].seq, at |-> hand[a].at, stage |-> hand[a].stage, by |-> Name(a)]
<1>1. /\ HandsOK /\ hand[a] \in Hands /\ hand[a].pc = "commit" /\ hand[a].job = j
      /\ silver' = silver /\ log' = [log EXCEPT ![j] = @ \cup {new}] /\ hand' = [hand EXCEPT ![a] = h]
      /\ Good(a, hand[a]) /\ silver \in [Jobs -> Nat] /\ log \in [Jobs -> SUBSET Event]
  BY <1>0 DEF JobsInv, LogInv, HandsOK, Commit, TablesOK, Numbered
<1>2. /\ h.pc = "row" /\ h.job = j /\ h.stage = hand[a].stage /\ h.held = hand[a].held
      /\ h.got = hand[a].got
  BY <1>1 DEF Hands
<1>3. hand'[a] = h /\ Alone(a) /\ On(a, j)  BY <1>1 DEF HandsOK, Alone, On
<1>4. new \notin log[j]
  <2>1. \A e \in log[j] : e.at # hand[a].at  BY <1>1 DEF JobsInv, LogInv, Uncommitted, Minted
  <2>2. new.at = hand[a].at  OBVIOUS
  <2> HIDE DEF new
  <2> QED  BY <2>1, <2>2
<1>5. new.stage = hand[a].stage /\ (a \in Workers => new.by = a)  BY DEF Name
<1> HIDE DEF h, new
<1>6. log'[j] = log[j] \cup {new} /\ \A k \in Jobs \ {j} : log'[k] = log[k]  BY <1>1
<1>7. EndsOf(j)'
  <2>1. CASE a \in Clients
    <3>1. new.stage \in Asked  BY <1>1, <1>5, <2>1 DEF Good
    <3> QED  BY <1>1, <1>3, <1>6, <2>1, <3>1, AskedEnds DEF EndsInv
  <2>2. CASE a \in Workers
    <3>1. On(a, j)'  BY <1>2, <1>3 DEF On
    <3> QED  BY <1>1, <1>2, <1>3, <1>4, <1>5, <1>6, <2>2, <3>1, WorkedEnds DEF EndsInv
  <2> QED  BY <2>1, <2>2 DEF Actors
<1>8. ASSUME NEW k \in Jobs, k # j PROVE EndsOf(k)'
  <2>1. log'[k] = log[k] /\ silver'[k] = silver[k] /\ ~On(a, k)'
    BY <1>1, <1>2, <1>3, <1>6, <1>8 DEF On
  <2> QED  BY <1>3, <2>1, EndsSeen DEF EndsInv
<1> QED  BY <1>7, <1>8 DEF EndsInv

\* Rows are promoted after an answer: the job is not refused, and nobody else is about to.
LEMMA JudgeEnds ==
    ASSUME JobsInv, EndsInv, NEW w \in Workers, Judge(w)
    PROVE  EndsInv'
<1>0. PICK j \in Jobs : j = hand[w].job
  BY DEF JobsInv, LogInv, HandsOK, Good, Judge, Actors
<1>1. /\ w \in Actors /\ HandsOK /\ hand[w] \in Hands /\ hand[w].job = j /\ On(w, j)
      /\ hand[w].pc = "judge" /\ log' = log /\ silver \in [Jobs -> Nat]
  BY <1>0 DEF JobsInv, LogInv, HandsOK, Judge, Actors, TablesOK, On
<1>2. /\ Placed(w, j) /\ EndsOf(j) /\ Mine(w, j) /\ hand[w].held
      /\ hand[w].stage = "validating" /\ hand[w].stage \in Early
  <2>1. Placed(w, j) /\ EndsOf(j)  BY <1>1 DEF EndsInv, EndsOf
  <2> QED  BY <1>1, <2>1, StageKinds DEF Placed
<1>3. PICK stage \in {"validation_failed", "partial", "failed", "silver_ready"} : Writes(w, stage)
  BY DEF Judge
<1> DEFINE h == [hand[w] EXCEPT !.pc = "mint", !.stage = stage, !.calls = 0, !.late = 0]
<1>4. 0 \in Counts /\ "mint" \in Places /\ stage \in Stages /\ stage \notin Early
  BY JobsBounds, <1>3 DEF Counts, Places, Appending, Stages, TERMINAL, Ends, Working, Early
<1>5. h \in Hands /\ h.pc = "mint" /\ h.job = j /\ h.stage = stage /\ h.held
  BY <1>1, <1>2, <1>4 DEF Hands
<1>6. hand' = [hand EXCEPT ![w] = h] /\ hand'[w] = h /\ Alone(w)
  BY <1>1, <1>3 DEF Writes, HandsOK, Alone
<1> HIDE DEF h
<1>7. CASE silver' = silver
  BY <1>1, <1>2, <1>4, <1>5, <1>6, <1>7, HoldsOn
<1>8. CASE /\ hand[w].got /\ silver' = [silver EXCEPT ![j] = @ + 1] /\ Writes(w, "silver_ready")
  <2>1. silver'[j] > 0 /\ \A k \in Jobs \ {j} : silver'[k] = silver[k]  BY <1>1, <1>8
  <2>2. hand'[w].stage = "silver_ready" /\ hand'[w].pc = "mint" /\ hand'[w].job = j /\ hand'[w].held
    BY <1>1, <1>2, <1>8 DEF Writes, HandsOK, Hands
  <2>3. /\ (Clean(j)' <=> Clean(j)) /\ (Known(j)' <=> Known(j))
        /\ (Has(j, "fetching")' <=> Has(j, "fetching")) /\ (ClaimedTwice(j)' <=> ClaimedTwice(j))
        /\ \A b : Mine(b, j)' <=> Mine(b, j)
    BY <1>1, SameLog
  <2>4. \A b \in Workers : b # w => hand'[b] = hand[b] /\ (On(b, j)' <=> On(b, j))
    BY <1>6 DEF Alone, Actors, On
  <2>5. \A b \in Workers : On(b, j)' => Placed(b, j)'
    <3> SUFFICES ASSUME NEW b \in Workers, On(b, j)' PROVE Placed(b, j)'  OBVIOUS
    <3>1. CASE b = w  BY <1>2, <2>2, <2>3, <3>1 DEF Placed
    <3>2. CASE b # w
      <4>1. Placed(b, j) /\ hand'[b] = hand[b]  BY <1>2, <2>4, <3>2 DEF EndsOf
      <4> QED  BY <2>3, <4>1 DEF Placed
    <3> QED  BY <3>1, <3>2
  <2>6. ASSUME ~ClaimedTwice(j) PROVE Once(j)'
    <3>1. Clean(j) /\ \A b \in Workers : ~Closes(b, j)
      BY <1>1, <1>2, <1>8, <2>6 DEF EndsOf, Once, Promotes
    <3>2. ASSUME NEW b \in Workers, On(b, j)', Mine(b, j)', hand'[b].stage \in Early PROVE FALSE
      <4>1. b = w  BY <1>2, <2>3, <2>6, <3>2, OneClaim
      <4> QED  BY <2>2, <3>2, <4>1, StageKinds
    <3>3. ASSUME NEW b \in Workers, Refuses(b, j)' PROVE FALSE
      <4>1. b # w  BY <2>2, <3>3, StageKinds DEF Refuses
      <4>2. hand'[b] = hand[b] /\ On(b, j) /\ hand[b].stage \in Refused
        BY <2>4, <3>3, <4>1 DEF Refuses
      <4>3. Placed(b, j)  BY <1>2, <4>2 DEF EndsOf
      <4>4. hand[b].held
        <5>1. ~hand[b].held => Closes(b, j)  BY <4>2, <4>3, StageKinds DEF Placed, Closes
        <5> QED  BY <3>1, <5>1
      <4>5. Mine(b, j)  BY <4>3, <4>4 DEF Placed
      <4> QED  BY <1>2, <2>6, <4>1, <4>5, OneClaim
    <3>4. Has(j, "fetching")' /\ Clean(j)'  BY <1>2, <2>3, <3>1, MineHas
    <3> QED  BY <3>2, <3>3, <3>4 DEF Once
  <2>7. EndsOf(j)'  BY <1>2, <2>3, <2>5, <2>6 DEF EndsOf
  <2>8. ASSUME NEW k \in Jobs, k # j PROVE EndsOf(k)'
    <3>1. log'[k] = log[k] /\ silver'[k] = silver[k] /\ ~On(w, k)'
      BY <1>1, <2>1, <2>2, <2>8 DEF On
    <3> QED  BY <1>1, <1>6, <3>1, EndsSeen DEF EndsInv
  <2> QED  BY <2>7, <2>8 DEF EndsInv
<1> QED  BY <1>0, <1>7, <1>8 DEF Judge

LEMMA InitEnds == Init => EndsInv
<1> SUFFICES ASSUME Init, NEW j \in Jobs PROVE EndsOf(j)  BY DEF EndsInv
<1>1. silver[j] = 0 /\ log[j] = {} /\ \A w \in Workers : ~On(w, j)
  BY FreeHand DEF Init, Actors, On
<1> QED  BY <1>1 DEF EndsOf, Once, Clean, Refuses

LEMMA NextEnds == JobsInv /\ EndsInv /\ [Next]_vars => EndsInv'
<1> SUFFICES ASSUME JobsInv, EndsInv, [Next]_vars PROVE EndsInv'  OBVIOUS
<1>1. ASSUME NEW a \in Actors, Append(a) \/ CommitFails(a)  PROVE EndsInv'
  BY <1>1, MintEnds, CommitEnds, ReadRowEnds, CarryEnds, FailsEnds DEF Append
<1>2. ASSUME NEW w \in Workers, Poll(w) \/ Run(w) \/ RunNotRecorded(w) \/ WorkerDies(w)
      PROVE  EndsInv'
  <2>1. w \in Actors  BY DEF Actors
  <2>2. CASE RunNotRecorded(w) \/ WorkerDies(w)
    <3>1. hand' = [hand EXCEPT ![w] = Free] /\ log' = log /\ silver' = silver
      BY <2>2 DEF RunNotRecorded, WorkerDies, tables
    <3> QED  BY <2>1, <3>1, EndsFree
  <2> QED  BY <1>1, <1>2, <2>1, <2>2, PollEnds, WorkEnds, JudgeEnds DEF Poll, Run
<1>3. ASSUME NEW c \in Clients,
             \/ Insert(c)
             \/ \E j \in Jobs : Cancel(c, j) \/ \E f \in Requests : Create(c, f, j)
      PROVE  EndsInv'
  <2>1. CASE Insert(c)
    <3>1. hand[c].job \in Jobs
      BY <2>1 DEF Insert, JobsInv, LogInv, HandsOK, Good, Actors
    <3> QED  BY <2>1, <3>1, ApiEnds
  <2> QED  BY <1>3, <2>1, ApiEnds
<1>4. CASE ApiDies  BY <1>4, ApiDiesEnds
<1>5. CASE UNCHANGED vars
  <2>1. log' = log /\ silver' = silver /\ hand' = hand  BY <1>5 DEF vars, tables
  <2> SUFFICES ASSUME NEW j \in Jobs PROVE EndsOf(j)'  BY DEF EndsInv
  <2>2. /\ (Clean(j)' <=> Clean(j)) /\ (Known(j)' <=> Known(j))
        /\ (Has(j, "fetching")' <=> Has(j, "fetching")) /\ (ClaimedTwice(j)' <=> ClaimedTwice(j))
        /\ \A w : Mine(w, j)' <=> Mine(w, j)
    BY <2>1, SameLog
  <2>3. EndsOf(j)  BY DEF EndsInv
  <2> QED  BY <2>1, <2>2, <2>3 DEF EndsOf, Once, Placed, Promotes, Refuses, Closes, On
<1> QED  BY <1>1, <1>2, <1>3, <1>4, <1>5 DEF Next

\* However many workers and API threads there are and whatever dies or fails to commit, a job
\* that was claimed once and ended as refused, short or cancelled put nothing into Silver
\* (worker.py 182-242, 267-276; the property EndedWithoutSilver).  When two claims are in the
\* log both workers may believe they hold the job: that is what the run jobs_claim shows.
THEOREM RefusedLeavesNothing == Spec => []EndedWithoutSilver
<1>1. JobsInv /\ EndsInv => EndedWithoutSilver
  BY DEF EndsInv, EndsOf, Once, Clean, EndedWithoutSilver
<1>2. JobsInv /\ EndsInv /\ [Next]_vars => EndsInv'  BY NextEnds
<1> QED  BY <1>1, <1>2, InitEnds, JobsAlways, PTL DEF Spec
=============================================================================
