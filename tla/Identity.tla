------------------------------ MODULE Identity ------------------------------
(***************************************************************************)
(* Identifiers of the security master (resolver/identity.py, and the       *)
(* callers of resolve in odp.py and acquire/preflight.py).  Times are      *)
(* small integers, NoTime is no time.                                        *)
(***************************************************************************)
EXTENDS Integers, FiniteSets

CONSTANTS Securities, NoTime

\* A row of silver.identifiers for the one identifier that is asked for.
Moments == (0..2) \cup {NoTime}
Aliases == {a \in [security : Securities, from : Moments, to : Moments] :
               a.from = NoTime \/ a.to = NoTime \/ a.from < a.to}

----------------------------------------------------------------------------
\* _effective
Effective(row, at) ==
    IF at = NoTime THEN row.to = NoTime
    ELSE (row.from = NoTime \/ row.from <= at) /\ (row.to = NoTime \/ row.to > at)

\* _pick: the row in force, else the one that began last, else the first.
Picks(rows, at) ==
    LET inForce == {r \in rows : Effective(r, at)}
        dated   == {r \in rows : r.from # NoTime}
    IN  IF inForce # {} THEN inForce
        ELSE IF dated # {} THEN {r \in dated : \A s \in dated : s.from <= r.from}
        ELSE rows

Refusal(code) == [code |-> code, candidates |-> {}]
Found(candidates) == [code |-> "ok", candidates |-> candidates]
As(rows, reason) == {[security |-> r.security, reason |-> reason] : r \in rows}

\* Mutant of ByIdentifier: known, but not in force yet, is an empty answer.
ByIdentifierSilent(rows, at, historical) ==
    LET live == {r \in rows : Effective(r, at)}
        closed == {r \in rows : r.to # NoTime}
    IN  IF rows = {} THEN Refusal("IDENTITY_UNRESOLVED")
        ELSE IF live # {} THEN Found(As(live, "active"))
        ELSE IF historical THEN Found(As(closed, "historical_alias")) ELSE Found({})

\* _by_identifier: a live row is the answer, a closed one answers when nothing is live.
ByIdentifier(rows, at, historical) ==
    LET live == {r \in rows : Effective(r, at)}
        closed == {r \in rows : r.to # NoTime}
    IN  IF rows = {} THEN Refusal("IDENTITY_UNRESOLVED")
        ELSE IF live # {} THEN Found(As(live, "active"))
        ELSE IF ~historical THEN Found({})
        ELSE IF closed # {} THEN Found(As(closed, "historical_alias"))
        ELSE Refusal("IDENTITY_UNRESOLVED")

\* _by_stable_id, for the rows of one listing.
ByStableId(rows, at, historical) ==
    IF rows = {} THEN {Refusal("IDENTITY_UNRESOLVED")}
    ELSE {LET reason == IF Effective(row, at) THEN "active" ELSE "historical_alias" IN
          Found(IF reason = "active" \/ historical THEN As({row}, reason) ELSE {}) :
             row \in Picks(rows, at)}

\* resolve: several securities and no date to tell them apart is ambiguous.
Resolve(out, at) ==
    IF Cardinality({c.security : c \in out.candidates}) > 1 /\ at = NoTime
    THEN Refusal("IDENTITY_AMBIGUOUS") ELSE out

\* _unresolved: of an identifier that was not known at the cutoff but is today, there is
\* no local evidence then.
RefusedAtCutoff(then, today) ==
    IF then = "IDENTITY_UNRESOLVED" /\ today = "ok" THEN "NO_LOCAL_EVIDENCE" ELSE then

\* _identity_binds of a model, which takes the first of the candidates.  `known` are the
\* rows the context sees, `held` those of today.
Binds(known, held, at, cutoff) ==
    LET out == Resolve(ByIdentifier(known, at, TRUE), at)
        today == Resolve(ByIdentifier(held, NoTime, TRUE), NoTime)
        several == Cardinality({c.security : c \in out.candidates}) > 1
    IN  IF out.code # "ok"
        THEN Refusal(IF cutoff THEN RefusedAtCutoff(out.code, today.code) ELSE out.code)
        ELSE IF several THEN Refusal("IDENTITY_AMBIGUOUS") ELSE Found(out.candidates)

----------------------------------------------------------------------------
\* An answer that is not a refusal has a candidate to bind, which odp.py 189 takes
\* without looking (preflight.py 141 looks); it is one security, and a closed alias is
\* never bound while a live row claims the identifier, by name or by stable id
\* (identity.py 53-62, 79-97).  Nobody is told an identifier is unknown that today's
\* store resolves, because his cutoff was early (odp.py 193-212).
OneCandidateIsBound(known, held, at, cutoff) ==
    LET out == Binds(known, held, at, cutoff)
        Live(row) == Effective(row, at)
        today == Resolve(ByIdentifier(held, NoTime, TRUE), NoTime)
    IN  /\ out.code = "ok" =>
              /\ Cardinality({c.security : c \in out.candidates}) = 1
              /\ (\E r \in known : Live(r)) =>
                    \A c \in out.candidates : \E r \in known : Live(r) /\ r.security = c.security
        /\ known # {} => \A stable \in ByStableId(known, at, TRUE) :
              \E c \in stable.candidates : (c.reason = "active") <=> (\E r \in known : Live(r))
        /\ cutoff /\ out.code = "IDENTITY_UNRESOLVED" => today.code # "ok"
============================================================================
