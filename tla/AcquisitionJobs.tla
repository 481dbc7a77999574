-------------------------- MODULE AcquisitionJobs --------------------------
(***************************************************************************)
(* Acquisition jobs of the security-master API: the append-only job log    *)
(* (store/jobs.py), the worker that claims and runs jobs                   *)
(* (acquire/worker.py), and the two routes that create and cancel them     *)
(* (app/main.py).                                                          *)
(*                                                                         *)
(* Nothing is locked and nothing is a transaction: an actor reads a        *)
(* snapshot, decides, and appends.  Every read and every commit is a step  *)
(* of its own.                                                             *)
(***************************************************************************)
EXTENDS Integers, FiniteSets, FiniteSetsExt

CONSTANTS
    Workers,      \* worker processes, each known by its worker_id
    Clients,      \* threads of the API, all of them "api" in the log
    Jobs,         \* job ids that can be minted
    Requests,     \* fingerprints of acquisition requests
    MaxCalls,     \* HTTP calls one job may take
    MaxEvents,    \* bound: events of one job (it stops writers; large enough for
                  \* a whole job wherever liveness is checked)
    MaxRivals,    \* the same bound for a job that several workers claim
    MaxFaults,    \* bound: processes that die and Delta commits that fail for good
    NoJob, NoRequest

Actors == Workers \cup Clients
Api == "api"

ASSUME JobsBounds ==
    /\ MaxCalls \in Nat /\ MaxEvents \in Nat /\ MaxRivals \in Nat /\ MaxFaults \in Nat
    /\ Workers \cap Clients = {} /\ Api \notin Workers
    /\ NoJob \notin Jobs /\ NoRequest \notin Requests
    /\ IsFiniteSet(Actors)

Working == {"fetching", "bronze_retained", "normalizing", "validating", "silver_ready",
            "materializing"}
\* How the worker, or nobody, ends a job; TERMINAL also has cancel_pending.
Ends == {"partial", "rate_limited", "entitlement_denied", "validation_failed",
         "cancelled", "failed", "gold_ready"}
TERMINAL == Ends \cup {"cancel_pending"}
Stages == {"queued"} \cup Working \cup TERMINAL
\* The ends that say nothing was promoted; `failed` may also come after the promotion.
Refused == Ends \ {"gold_ready", "failed"}

VARIABLES
    rows,         \* ops.jobs: the newest row of each job, or rows that tie for it
    log,          \* ops.job_events of each job
    request,      \* the fingerprint in the job's row
    silver,       \* how often the job's rows were appended to Silver
    hand,         \* what each actor is doing
    faults,
    hurt,         \* ghost: jobs an actor died on, or lost a commit on
    crowded       \* ghost: jobs two actors were appending to at once

tables == <<rows, log, request, silver>>
vars == <<rows, log, request, silver, hand, faults, hurt, crowded>>

\* seq, then time: the order of every read of the log.
Before(e, f) == e.seq < f.seq \/ (e.seq = f.seq /\ e.at < f.at)
Has(j, stage) == \E e \in log[j] : e.stage = stage
Last(j) == CHOOSE e \in log[j] : \A f \in log[j] : e = f \/ Before(f, e)
FirstFetching(j) ==
    CHOOSE e \in log[j] : /\ e.stage = "fetching"
                          /\ \A f \in log[j] : f.stage = "fetching" => e = f \/ Before(e, f)

Created(j) == rows[j] # {}
\* job: the log decides; the row is the state of record until an event exists.
Shows(j, stage) == IF log[j] = {} THEN \E row \in rows[j] : row.stage = stage
                   ELSE Last(j).stage = stage

Free == [pc |-> "idle", job |-> NoJob, stage |-> "queued", seq |-> 0, at |-> 0,
         calls |-> 0, late |-> 0, got |-> FALSE, held |-> FALSE]

Name(a) == IF a \in Workers THEN a ELSE Api
Appending == {"mint", "commit", "row", "carry"}
On(a, j) == hand[a].pc # "idle" /\ hand[a].job = j

Init ==
    /\ rows = [j \in Jobs |-> {}] /\ log = [j \in Jobs |-> {}]
    /\ request = [j \in Jobs |-> NoRequest] /\ silver = [j \in Jobs |-> 0]
    /\ hand = [a \in Actors |-> Free]
    /\ faults = 0 /\ hurt = {} /\ crowded = {}

----------------------------------------------------------------------------
\* append_event, in four steps: number and stamp it, commit it, read the job's
\* newest row, carry the row forward (_record).

Goes(a, pc) == hand' = [hand EXCEPT ![a] = [@ EXCEPT !.pc = pc]]
Writes(a, stage) == hand' = [hand EXCEPT ![a] = [@ EXCEPT !.pc = "mint", !.stage = stage,
                                                          !.calls = 0, !.late = 0]]

\* Where an actor goes once the stage is in the log and in the row.
After(h) ==
    CASE h.stage = "fetching"        -> [h EXCEPT !.pc = "decide"]
      [] h.stage = "bronze_retained" -> [h EXCEPT !.pc = "mint", !.stage = "normalizing"]
      [] h.stage = "normalizing"     -> [h EXCEPT !.pc = "mint", !.stage = "validating"]
      [] h.stage = "validating"      -> [h EXCEPT !.pc = "judge"]
      [] h.stage = "silver_ready"    -> [h EXCEPT !.pc = "mint", !.stage = "materializing"]
      [] h.stage = "materializing"   -> [h EXCEPT !.pc = "publish"]
      [] OTHER                       -> Free

\* Who has claimed the job, or is about to.
Claimants(j) ==
    {w \in Workers : \/ On(w, j) /\ hand[w].stage = "fetching"
                     \/ \E e \in log[j] : e.stage = "fetching" /\ e.by = w}
Room(j) == IF Cardinality(Claimants(j)) > 1 THEN MaxRivals ELSE MaxEvents

\* datetime.now: later than every stamp given so far.
Now(j) == 1 + Max({0} \cup {e.at : e \in log[j]} \cup {hand[b].at : b \in {c \in Actors : On(c, j)}})

\* Mutant: the last event's number instead of the next one.
MintLast(a) ==
    LET j == hand[a].job IN
    /\ hand[a].pc = "mint" /\ Cardinality(log[j]) < Room(j)
    /\ hand' = [hand EXCEPT ![a] = [@ EXCEPT !.pc = "commit", !.at = Now(j),
                                             !.seq = IF log[j] = {} THEN 0 ELSE Last(j).seq]]
    /\ crowded' = IF \E b \in Actors \ {a} : On(b, j) /\ hand[b].pc \in Appending
                  THEN crowded \cup {j} ELSE crowded
    /\ UNCHANGED <<tables, faults, hurt>>

Mint(a) ==
    LET j == hand[a].job IN
    /\ hand[a].pc = "mint" /\ Cardinality(log[j]) < Room(j)
    /\ hand' = [hand EXCEPT ![a] = [@ EXCEPT !.pc = "commit", !.seq = Cardinality(log[j]),
                                             !.at = Now(j)]]
    /\ crowded' = IF \E b \in Actors \ {a} : On(b, j) /\ hand[b].pc \in Appending
                  THEN crowded \cup {j} ELSE crowded
    /\ UNCHANGED <<tables, faults, hurt>>

Commit(a) ==
    LET h == hand[a] IN
    /\ h.pc = "commit"
    /\ log' = [log EXCEPT ![h.job] = @ \cup
                 {[seq |-> h.seq, at |-> h.at, stage |-> h.stage, by |-> Name(a)]}]
    /\ hand' = [hand EXCEPT ![a] = [@ EXCEPT !.pc = "row", !.seq = 0, !.at = 0]]
    /\ UNCHANGED <<rows, request, silver, faults, hurt, crowded>>

\* A job without a row has nothing to carry forward.
ReadRow(a) ==
    /\ hand[a].pc = "row"
    /\ \E row \in rows[hand[a].job] :
          hand' = [hand EXCEPT ![a] = [@ EXCEPT !.pc = "carry", !.seq = row.seq]]
    /\ UNCHANGED <<tables, faults, hurt, crowded>>

\* A row is the newest one by its seq; rows that read the same one tie.
Newest(S) == {row \in S : \A other \in S : other.seq <= row.seq}

\* Mutant: the row carried forward keeps the number of the row it replaces.
CarrySame(a) ==
    LET h == hand[a] IN
    /\ h.pc = "carry"
    /\ rows' = [rows EXCEPT ![h.job] = Newest(@ \cup {[seq |-> h.seq, stage |-> h.stage]})]
    /\ hand' = [hand EXCEPT ![a] = After([h EXCEPT !.seq = 0])]
    /\ UNCHANGED <<log, request, silver, faults, hurt, crowded>>

CarryRow(a) ==
    LET h == hand[a] IN
    /\ h.pc = "carry"
    /\ rows' = [rows EXCEPT ![h.job] =
                  Newest(@ \cup {[seq |-> h.seq + 1, stage |-> h.stage]})]
    /\ hand' = [hand EXCEPT ![a] = After([h EXCEPT !.seq = 0])]
    /\ UNCHANGED <<log, request, silver, faults, hurt, crowded>>

\* A commit that fails raises.  process turns that into a `failed` event, unless
\* that is the event that could not be written; claim turns it into "not mine".
CommitFails(a) ==
    /\ hand[a].pc \in {"commit", "carry"}
    /\ faults < MaxFaults /\ faults' = faults + 1
    /\ hurt' = hurt \cup {hand[a].job}
    /\ IF hand[a].held /\ hand[a].stage # "failed"
       THEN hand' = [hand EXCEPT ![a] = [@ EXCEPT !.pc = "mint", !.stage = "failed",
                                                  !.seq = 0, !.at = 0]]
       ELSE hand' = [hand EXCEPT ![a] = Free]
    /\ UNCHANGED <<tables, crowded>>

----------------------------------------------------------------------------
\* The API.

\* create_job finds no live job for the request and mints a new id.
Create(c, f, j) ==
    /\ hand[c].pc = "idle" /\ ~Created(j) /\ request[j] = NoRequest
    /\ \A k \in Jobs : Created(k) /\ request[k] = f
                          => \E stage \in TERMINAL : Shows(k, stage)
    /\ request' = [request EXCEPT ![j] = f]
    /\ hand' = [hand EXCEPT ![c] = [Free EXCEPT !.pc = "insert", !.job = j]]
    /\ UNCHANGED <<rows, log, silver, faults, hurt, crowded>>

Insert(c) ==
    /\ hand[c].pc = "insert"
    /\ rows' = [rows EXCEPT ![hand[c].job] = {[seq |-> 0, stage |-> "queued"]}]
    /\ Writes(c, "queued")
    /\ UNCHANGED <<log, request, silver, faults, hurt, crowded>>

\* Bound: one cancel per job.
Cancel(c, j) ==
    /\ hand[c].pc = "idle" /\ Created(j) /\ ~Has(j, "cancel_pending")
    /\ \A d \in Clients : ~(On(d, j) /\ hand[d].stage = "cancel_pending")
    /\ ~\E stage \in TERMINAL : Shows(j, stage)
    /\ hand' = [hand EXCEPT ![c] = [Free EXCEPT !.pc = "mint", !.job = j,
                                                !.stage = "cancel_pending"]]
    /\ UNCHANGED <<tables, faults, hurt, crowded>>

----------------------------------------------------------------------------
\* The worker.

\* Mutant: a job is claimed by what its row says was recorded.
ClaimRecorded(w, j) ==
    /\ hand[w].pc = "idle" /\ log[j] # {} /\ Last(j).stage = "queued"
    /\ ~Has(j, "fetching") /\ \E row \in rows[j] : row.seq = Cardinality(log[j])
    /\ hand' = [hand EXCEPT ![w] = [Free EXCEPT !.pc = "mint", !.job = j,
                                                !.stage = "fetching"]]
    /\ UNCHANGED <<tables, faults, hurt, crowded>>

\* claim reads the log of a queued job, then appends `fetching`.
ClaimCheck(w, j) ==
    /\ hand[w].pc = "idle" /\ log[j] # {} /\ Last(j).stage = "queued"
    /\ ~Has(j, "fetching")
    /\ hand' = [hand EXCEPT ![w] = [Free EXCEPT !.pc = "mint", !.job = j,
                                                !.stage = "fetching"]]
    /\ UNCHANGED <<tables, faults, hurt, crowded>>

\* Mutant: who is not alone with its fetching event stands back.
DecideAlone(w) ==
    LET mine == \A e \in log[hand[w].job] : e.stage = "fetching" => e.by = w IN
    /\ hand[w].pc = "decide"
    /\ \/ ~mine /\ hand' = [hand EXCEPT ![w] = Free]
       \/ mine /\ \E n \in 0..MaxCalls :
             hand' = [hand EXCEPT ![w] = [@ EXCEPT !.pc = "next", !.held = TRUE, !.calls = n]]
    /\ UNCHANGED <<tables, faults, hurt, crowded>>

\* Mutant: a call per missing range, one more than preflight priced.
DecidePerRange(w) ==
    LET mine == FirstFetching(hand[w].job).by = w IN
    /\ hand[w].pc = "decide"
    /\ \/ ~mine /\ hand' = [hand EXCEPT ![w] = Free]
       \/ mine /\ \E n \in 0..MaxCalls + 1 :
             hand' = [hand EXCEPT ![w] = [@ EXCEPT !.pc = "next", !.held = TRUE, !.calls = n]]
    /\ UNCHANGED <<tables, faults, hurt, crowded>>

\* The first fetching event names the winner, who plans its calls: as many as
\* preflight counts, none when nothing is missing; or preflight refuses.
Decide(w) ==
    LET mine == FirstFetching(hand[w].job).by = w IN
    /\ hand[w].pc = "decide"
    /\ \/ ~mine /\ hand' = [hand EXCEPT ![w] = Free]
       \/ mine /\ \E n \in 0..MaxCalls :
             hand' = [hand EXCEPT ![w] = [@ EXCEPT !.pc = "next", !.held = TRUE, !.calls = n]]
       \/ mine /\ hand' = [hand EXCEPT ![w] = [@ EXCEPT !.pc = "mint", !.held = TRUE,
                                                        !.stage = "failed"]]
    /\ UNCHANGED <<tables, faults, hurt, crowded>>

\* process records the run outside its try: when that raises the poll loop goes on
\* and the job stays claimed.
RunNotRecorded(w) ==
    /\ hand[w].pc = "decide" /\ FirstFetching(hand[w].job).by = w
    /\ faults < MaxFaults /\ faults' = faults + 1
    /\ hurt' = hurt \cup {hand[w].job}
    /\ hand' = [hand EXCEPT ![w] = Free]
    /\ UNCHANGED <<tables, crowded>>

\* Mutant: the cancel is looked for once, before the first call.
CheckCancelOnce(w) ==
    LET h == hand[w] IN
    /\ h.pc = "next"
    /\ IF h.calls = 0 THEN Writes(w, "bronze_retained")
       ELSE IF h.calls = MaxCalls /\ Has(h.job, "cancel_pending") THEN Writes(w, "cancelled")
       ELSE Goes(w, "get")
    /\ UNCHANGED <<tables, faults, hurt, crowded>>

\* Mutant: a cancelled job is dropped without its last event.
CheckCancelQuietly(w) ==
    LET h == hand[w] IN
    /\ h.pc = "next"
    /\ IF h.calls = 0 THEN Writes(w, "bronze_retained")
       ELSE IF Has(h.job, "cancel_pending") THEN hand' = [hand EXCEPT ![w] = Free]
       ELSE Goes(w, "get")
    /\ UNCHANGED <<tables, faults, hurt, crowded>>

\* Before each call: is there a cancel_pending in the log?
CheckCancel(w) ==
    LET h == hand[w] IN
    /\ h.pc = "next"
    /\ IF h.calls = 0 THEN Writes(w, "bronze_retained")
       ELSE IF Has(h.job, "cancel_pending") THEN Writes(w, "cancelled")
       ELSE Goes(w, "get")
    /\ UNCHANGED <<tables, faults, hurt, crowded>>

\* The provider's answer is retained, then classified; `got` is: there is one to promote.
Get(w) ==
    LET h    == hand[w]
        late == IF Has(h.job, "cancel_pending") THEN h.late + 1 ELSE h.late
    IN  /\ h.pc = "get"
        /\ \/ hand' = [hand EXCEPT ![w] = [@ EXCEPT !.pc = "next", !.calls = h.calls - 1,
                                                    !.late = late, !.got = TRUE]]
           \/ \E refusal \in {"rate_limited", "entitlement_denied", "failed"} :
                 hand' = [hand EXCEPT ![w] = [@ EXCEPT !.pc = "mint", !.stage = refusal,
                                                       !.late = late]]
        /\ UNCHANGED <<tables, faults, hurt, crowded>>

\* Validation decides; good rows and the closes of what they supersede go to
\* Silver in one commit.  A job without an answer has "nothing to promote".
Judge(w) ==
    /\ hand[w].pc = "judge"
    /\ \/ /\ \E verdict \in {"validation_failed", "partial", "failed"} : Writes(w, verdict)
          /\ UNCHANGED silver
       \/ /\ hand[w].got
          /\ silver' = [silver EXCEPT ![hand[w].job] = @ + 1]
          /\ Writes(w, "silver_ready")
    /\ UNCHANGED <<rows, log, request, faults, hurt, crowded>>

\* The receipt is recorded, or resolving the manifest raises.
Publish(w) ==
    /\ hand[w].pc = "publish"
    /\ \E end \in {"gold_ready", "failed"} : Writes(w, end)
    /\ UNCHANGED <<tables, faults, hurt, crowded>>

\* Mutant: the poll loop closes a job that is claimed, too.
CloseClaimed(w, j) ==
    /\ hand[w].pc = "idle" /\ log[j] # {} /\ Last(j).stage = "cancel_pending"
    /\ hand' = [hand EXCEPT ![w] = [Free EXCEPT !.pc = "mint", !.job = j,
                                                !.stage = "cancelled"]]
    /\ UNCHANGED <<tables, faults, hurt, crowded>>

\* run_once closes a cancelled job that no worker had claimed when it looked.
CloseCancelled(w, j) ==
    /\ hand[w].pc = "idle" /\ log[j] # {} /\ Last(j).stage = "cancel_pending"
    /\ ~Has(j, "fetching")
    /\ hand' = [hand EXCEPT ![w] = [Free EXCEPT !.pc = "mint", !.job = j,
                                                !.stage = "cancelled"]]
    /\ UNCHANGED <<tables, faults, hurt, crowded>>

----------------------------------------------------------------------------
\* A worker dies and is started again; the API process dies with its threads.
WorkerDies(w) ==
    /\ hand[w].pc # "idle" /\ faults < MaxFaults /\ faults' = faults + 1
    /\ hurt' = hurt \cup {hand[w].job}
    /\ hand' = [hand EXCEPT ![w] = Free]
    /\ UNCHANGED <<tables, crowded>>

ApiDies ==
    /\ \E c \in Clients : hand[c].pc # "idle"
    /\ faults < MaxFaults /\ faults' = faults + 1
    /\ hurt' = hurt \cup {hand[c].job : c \in {d \in Clients : hand[d].pc # "idle"}}
    /\ hand' = [a \in Actors |-> IF a \in Clients THEN Free ELSE hand[a]]
    /\ UNCHANGED <<tables, crowded>>

----------------------------------------------------------------------------
Append(a) == Mint(a) \/ Commit(a) \/ ReadRow(a) \/ CarryRow(a)

Run(w) ==
    \/ Append(w) \/ Decide(w) \/ CheckCancel(w) \/ Get(w) \/ Judge(w) \/ Publish(w)

Poll(w) == \E j \in Jobs : ClaimCheck(w, j) \/ CloseCancelled(w, j)

Next ==
    \/ \E a \in Actors : Append(a) \/ CommitFails(a)
    \/ \E w \in Workers : Poll(w) \/ Run(w) \/ RunNotRecorded(w) \/ WorkerDies(w)
    \/ \E c \in Clients :
          \/ Insert(c)
          \/ \E j \in Jobs : Cancel(c, j) \/ \E f \in Requests : Create(c, f, j)
    \/ ApiDies

\* A worker polls for ever and goes on with what it began; so does a request the
\* API has taken.  Nobody has to create or to cancel anything, or to die.
Fairness ==
    /\ \A w \in Workers : WF_vars(Run(w)) /\ WF_vars(Poll(w))
    /\ \A c \in Clients : WF_vars(Append(c) \/ Insert(c))

Spec == Init /\ [][Next]_vars /\ Fairness

----------------------------------------------------------------------------
Event == [seq : Nat, at : Nat, stage : Stages, by : Workers \cup {Api}]

\* Every variable holds what its declaration says, and `crowded`, `hurt` name jobs.
TypeOK ==
    /\ \A j \in Jobs : rows[j] \subseteq [seq : Nat, stage : Stages]
    /\ log \in [Jobs -> SUBSET Event]
    /\ silver \in [Jobs -> Nat]
    /\ request \in [Jobs -> Requests \cup {NoRequest}]
    /\ hand \in [Actors ->
          [pc : {"idle", "insert", "decide", "next", "get", "judge", "publish"} \cup Appending,
           job : Jobs \cup {NoJob}, stage : Stages, seq : Nat, at : Nat,
           calls : 0..MaxCalls, late : Nat, got : BOOLEAN, held : BOOLEAN]]
    /\ \A a \in Actors : hand[a].pc # "idle" => hand[a].job \in Jobs
    /\ faults \in 0..MaxFaults
    /\ hurt \subseteq Jobs /\ crowded \subseteq Jobs

\* A worker's own stages are in order by their seq alone, whatever its clock does
\* and however many writers mint the same seq meanwhile (append_event, jobs.py 124-135).
OwnStagesInOrder ==
    \A j \in Jobs : \A e, f \in log[j] :
        e.by = f.by /\ e.by # Api /\ e.at < f.at => e.seq < f.seq

\* Two workers that both append `fetching` never both stand back: once the claims
\* are over somebody holds the job or has ended it (claim, jobs.py 150-167).
ClaimIsNeverLost ==
    \A j \in Jobs : Has(j, "fetching") /\ j \notin hurt =>
        \/ \E w \in Workers : On(w, j)
        \/ \E e \in log[j] : e.stage \in Ends

\* While one actor at a time writes to a job, its row tells how it ended to a
\* reader that never replays the log (_record, jobs.py 138-148).
RowTellsTheLog ==
    \A j \in Jobs :
        /\ log[j] # {} /\ j \notin hurt \cup crowded
        /\ \A a \in Actors : ~(On(a, j) /\ hand[a].pc \in {"row", "carry"})
        => \A row \in rows[j] : row.stage = Last(j).stage

\* Two workers' claims are both in the log: what may follow from that is OneHolder's.
ClaimedTwice(j) == \E e, f \in log[j] : e # f /\ e.stage = "fetching" /\ f.stage = "fetching"

\* A job that ended as refused, short or cancelled put nothing into Silver, however many
\* workers and API threads there are: also when the poll loop closed a cancelled job while
\* another worker's claim was under way, and when the cancel was logged before the creator's
\* `queued`, which then hides the close (worker.py 182-242, 267-276).
EndedWithoutSilver ==
    \A j \in Jobs : silver[j] > 0 /\ ~ClaimedTwice(j) =>
        \A e \in log[j] : e.stage \notin Refused

\* A cancel is honoured between calls: one that the provider was already being
\* asked is the only one still made (process, worker.py 181-187).
CancelStopsCalls == \A w \in Workers : hand[w].late <= 1

\* A queued job does not stay queued, whoever dies (run_once, worker.py 259-263).
\* Only one whose creator died before the first event is beyond every worker.
QueuedIsTakenUp ==
    \A j \in Jobs : (log[j] # {} /\ Shows(j, "queued")) ~> ~Shows(j, "queued")

\* "a job must end in a durable state": one that was claimed has an end in its log
\* at last, unless its worker died or could not commit.
ClaimedJobEnds ==
    \A j \in Jobs : Has(j, "fetching")
        ~> (j \in hurt \/ \E e \in log[j] : e.stage \in Ends)

\* jobs.py 34-38 sorts by `at` so that two workers do not "BOTH read themselves as
\* the first `fetching` event and both believe they hold the claim".
OneHolder ==
    \A v, w \in Workers : hand[v].held /\ hand[w].held /\ hand[v].job = hand[w].job => v = w
============================================================================
