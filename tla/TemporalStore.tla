--------------------------- MODULE TemporalStore ---------------------------
(***************************************************************************)
(* One Silver relation of the security master through time: acquisition    *)
(* jobs that promote rows into it (acquire/preflight, worker, normalize,   *)
(* store/tables), the temporal contexts that read it (resolver/context,    *)
(* views, manifest), and the receipts of what was read (odp, compare).     *)
(*                                                                         *)
(* A row is an assertion about a day; a close row repeats the assertion    *)
(* with an end.  Rows are appended and never changed: a Delta version is   *)
(* a prefix of the log of commits.                                         *)
(***************************************************************************)
EXTENDS Integers, FiniteSets, Sequences, SequencesExt, FiniteSetsExt

CONSTANTS
    Workers,     \* acquisition workers
    Days,        \* days of one listing, a set of consecutive integers
    Weekend,     \* those without a session
    MaxJobs      \* bound: jobs

ASSUME StoreBounds == Days \subseteq Int /\ MaxJobs \in Nat

VARIABLES
    log,      \* commits of the relation, each a set of rows
    clock,    \* of the workers, ticks once a job
    job,      \* per worker: where it is, its stamp, request, rows and closes
    reader    \* one request that reads: where it is, versions pinned and reported, answer;
              \* ghost `settled`: it asks about a past of which no job is under way any more

storeVars == <<log, clock, job, reader>>

Open == 0          \* system_to of a row nobody has closed
NoJob == [pc |-> "idle", now |-> 0, policy |-> "refresh", span |-> {}, rows |-> {}, closes |-> {}]
NoReader == [pc |-> "idle", kind |-> "project", known |-> 0, pin |-> 0, answer |-> {}, receipt |-> 0,
             settled |-> FALSE]
\* Requests by the manifests they resolve: `project` one (SQL, a preview, most models);
\* `named` an earlier one to resolve a name, which the receipt keeps where both name a
\* relation; `compare` (and the lineage of an assertion) another one for the receipt.
Kinds == {"project", "named", "compare"}

StoreInit ==
    /\ log = << >> /\ clock = 0 /\ job = [w \in Workers |-> NoJob] /\ reader = NoReader

----------------------------------------------------------------------------
\* A table at a version, and its latest one.
Version(n) == UNION {log[i] : i \in 1..n}
Newest == Len(log)

\* LATEST_PER_ASSERTION
Latest(rows) == {r \in rows : \A s \in rows : s.id = r.id => s.from <= r.from}

\* Mutant of KnownAt: the rows of after the cutoff are dropped last.
KnownAtLate(rows, k) ==
    {r \in Latest(rows) : r.from <= k /\ r.available <= k /\ (r.to = Open \/ r.to > k)}

\* knowledge_filters, mode known_at: dropped before the latest is taken.
KnownAt(rows, k) ==
    {r \in Latest({s \in rows : s.from <= k}) : r.available <= k /\ (r.to = Open \/ r.to > k)}

\* Modes current_corrected and effective_on; for a row that is an event the day is the
\* effective axis, and no interval is filtered.
Current(rows) == {r \in Latest(rows) : r.to = Open}

\* What a context asks: k = 0 is current_corrected.
Answer(n, k) == IF k = 0 THEN Current(Version(n)) ELSE KnownAt(Version(n), k)
Held(rows) == {r.day : r \in rows}

----------------------------------------------------------------------------
\* _missing_ranges: from a missing weekday to the next day that is held.
Gaps(have, asked) ==
    LET last == Max(asked)
        Starts(s) == /\ s \notin have \cup Weekend
                     /\ \A d \in asked : d < s => d \in have \cup Weekend \/ \E h \in have : d < h /\ h < s
        End(s) == IF \E h \in have : s < h /\ h <= last
                  THEN Min({h \in have : s < h}) - 1 ELSE last
    IN  {s..End(s) : s \in {d \in asked : Starts(d)}}

\* _requests_for: one call a listing, so the ranges collapse to their outer bounds.
Planned(have, asked, policy) ==
    IF policy = "refresh" THEN asked
    ELSE LET gaps == UNION Gaps(have, asked) IN
         IF gaps = {} THEN {} ELSE Min(gaps)..Max(gaps)

\* process: `now` is taken before anything is asked.
Begin(w, policy, asked) ==
    /\ job[w].pc = "idle" /\ clock < MaxJobs /\ clock' = clock + 1
    /\ job' = [job EXCEPT ![w] = [NoJob EXCEPT !.pc = "fetching", !.now = clock', !.policy = policy,
                   !.span = Planned(Held(Current(Version(Newest))), asked, policy)]]
    /\ UNCHANGED <<log, reader>>

\* normalize: an assertion for every day the provider has; nothing to promote ends the job.
Fetched(w, days) ==
    /\ job[w].pc = "fetching" /\ days \subseteq job[w].span \ Weekend
    /\ job' = [job EXCEPT ![w] =
          IF days = {} THEN NoJob
          ELSE [@ EXCEPT !.pc = "superseding",
                         !.rows = {[id |-> <<job[w].now, d>>, day |-> d, from |-> job[w].now,
                                    available |-> job[w].now, to |-> Open] : d \in days}]]
    /\ UNCHANGED <<log, clock, reader>>

\* _supersede: under refresh and force one current row of each day is closed.
Supersede(w) ==
    LET current == Current(Version(Newest)) IN
    /\ job[w].pc = "superseding"
    /\ \E chosen \in SUBSET current :
          /\ IF job[w].policy = "refresh"
             THEN /\ Held(chosen) = Held(current) \cap Held(job[w].rows)
                  /\ Cardinality(chosen) = Cardinality(Held(chosen))
             ELSE chosen = {}
          /\ job' = [job EXCEPT ![w].pc = "promoting",
                        ![w].closes = {[r EXCEPT !.from = job[w].now, !.to = job[w].now] : r \in chosen}]
    /\ UNCHANGED <<log, clock, reader>>

\* Mutant of Promote: the old assertions are closed by a commit of their own.
PromoteInTwo(w) ==
    /\ job[w].pc = "promoting"
    /\ IF job[w].closes # {}
       THEN /\ log' = Append(log, job[w].closes) /\ job' = [job EXCEPT ![w].closes = {}]
       ELSE /\ log' = Append(log, job[w].rows) /\ job' = [job EXCEPT ![w] = NoJob]
    /\ UNCHANGED <<clock, reader>>

\* One commit: closes and rows.
Promote(w) ==
    /\ job[w].pc = "promoting"
    /\ log' = Append(log, job[w].closes \cup job[w].rows)
    /\ job' = [job EXCEPT ![w] = NoJob]
    /\ UNCHANGED <<clock, reader>>

----------------------------------------------------------------------------
\* Jobs that may still stamp rows at k or before are over.
Settled(k) == k > 0 /\ \A w \in Workers : job[w].pc = "idle" \/ job[w].now > k

\* A request's first session: resolve_manifest pins the versions ...
PinVersions(kind, k) ==
    /\ reader.pc = "idle" /\ Newest > 0 /\ k \in 0..clock
    /\ reader' = [NoReader EXCEPT !.pc = IF kind = "named" THEN "resolved" ELSE "pinned",
                                  !.kind = kind, !.known = k, !.pin = Newest, !.receipt = Newest,
                                  !.settled = Settled(k)]
    /\ UNCHANGED <<log, clock, job>>

\* ... again after the session that resolved a name ...
PinAgain ==
    /\ reader.pc = "resolved" /\ reader' = [reader EXCEPT !.pc = "pinned", !.pin = Newest]
    /\ UNCHANGED <<log, clock, job>>

\* Mutant of Read: the views are made over the tables as they are.
ReadNewest ==
    /\ reader.pc = "pinned"
    /\ reader' = [reader EXCEPT !.pc = "read", !.answer = Answer(Newest, reader.known)]
    /\ UNCHANGED <<log, clock, job>>

\* ... the views read the pinned datasets ...
Read ==
    /\ reader.pc = "pinned"
    /\ reader' = [reader EXCEPT !.pc = "read", !.answer = Answer(reader.pin, reader.known)]
    /\ UNCHANGED <<log, clock, job>>

\* ... and the receipt has the first manifest (odp.project: the manifest of the name goes
\* over the session's), or one that is resolved after the session (compare).
Report ==
    /\ reader.pc = "read"
    /\ reader' = [reader EXCEPT !.pc = "answered",
                     !.receipt = IF reader.kind = "compare" THEN Newest ELSE @]
    /\ UNCHANGED <<log, clock, job>>

Forget == reader.pc = "answered" /\ reader' = NoReader /\ UNCHANGED <<log, clock, job>>

StoreNext ==
    \/ \E w \in Workers :
          \/ \E policy \in {"missing_only", "refresh"}, asked \in SUBSET Days :
                /\ asked # {} /\ asked = Min(asked)..Max(asked) /\ Begin(w, policy, asked)
          \/ \E days \in SUBSET Days : Fetched(w, days)
          \/ Supersede(w) \/ Promote(w)
    \/ \E kind \in Kinds, k \in 0..MaxJobs : PinVersions(kind, k)
    \/ PinAgain \/ Read \/ Report \/ Forget

StoreSpec == StoreInit /\ [][StoreNext]_storeVars

----------------------------------------------------------------------------
\* What was known at an instant is the same for ever once no job with an earlier stamp
\* is under way: corrections close rows, and the close is not seen from before it
\* (views.py 14-33).  A job stamps its rows when it begins and commits them when it
\* ends, so until then an answer about that time can still change.
KnownAtIsStable ==
    [][\A k \in 1..clock :
          (\A w \in Workers : job[w].pc = "idle" \/ job[w].now > k)
             => KnownAt(Version(Newest), k)' = KnownAt(Version(Newest), k)]_storeVars

\* No reader of the current state ever misses a day that had a price, while jobs
\* supersede each other's assertions (worker.py 237-242).
NoDayIsLost ==
    [][Held(Current(Version(Newest))) \subseteq Held(Current(Version(Newest)))']_storeVars

\* The versions a receipt names give the answer it came with, whatever was promoted while
\* the request ran (README.md 40-43 of the service, odp.py 240-249): of a request with one
\* manifest always; of one that resolves two (odp.py 248, compare.py 108, main.py 366), and so
\* may name other versions than it read, when it asks about a past whose jobs are over.
ReceiptReproduces ==
    reader.pc = "answered" /\ (reader.kind = "project" \/ reader.settled)
        => Answer(reader.receipt, reader.known) = reader.answer
============================================================================
