---------------------------- MODULE EodhdBundle ----------------------------
(***************************************************************************)
(* The shared /fundamentals payload of the EODHD provider                  *)
(* (openbb_eodhd/models/_fundamentals.py) for one symbol: an in-process    *)
(* cache with a lock per symbol over a Delta table every process shares.   *)
(***************************************************************************)
EXTENDS Integers, FiniteSets

CONSTANTS
    Calls,         \* coroutines in get_bundle
    Process,       \* the process each of them runs in
    MaxExpiries    \* bound: entries that grow old

VARIABLES
    call,          \* per call: where it is
    l1,            \* processes whose entry is fresh
    lock,          \* processes whose lock of the symbol is held
    l2,            \* the table of the symbol: "none", "fresh" or "old"
    bought,        \* ghost: payloads a process fetched since its entry expired
    expiries       \* spent bound

bundleVars == <<call, l1, lock, l2, bought, expiries>>

Processes == {Process[c] : c \in Calls}

BundleInit ==
    /\ call = [c \in Calls |-> "idle"] /\ l1 = {} /\ lock = {} /\ l2 \in {"none", "old"}
    /\ bought = [p \in Processes |-> 0] /\ expiries = 0

To(c, pc) == call' = [call EXCEPT ![c] = pc]
Is(c, pc) == call[c] = pc

\* _cached, the first look.
LookUp(c) ==
    /\ Is(c, "idle") /\ To(c, IF Process[c] \in l1 THEN "done" ELSE "queued")
    /\ UNCHANGED <<l1, lock, l2, bought, expiries>>

\* Mutant of Enter: what was cached while waiting is not looked at.
EnterBlind(c) ==
    /\ Is(c, "queued") /\ Process[c] \notin lock
    /\ To(c, "reading") /\ lock' = lock \cup {Process[c]}
    /\ UNCHANGED <<l1, l2, bought, expiries>>

\* The lock is had, and the cache looked at again.
Enter(c) ==
    /\ Is(c, "queued") /\ Process[c] \notin lock
    /\ IF Process[c] \in l1 THEN To(c, "done") /\ UNCHANGED lock
       ELSE To(c, "reading") /\ lock' = lock \cup {Process[c]}
    /\ UNCHANGED <<l1, l2, bought, expiries>>

Leave(c, cached) ==
    /\ To(c, IF cached THEN "done" ELSE "failed") /\ lock' = lock \ {Process[c]}
    /\ l1' = IF cached THEN l1 \cup {Process[c]} ELSE l1

\* _l2_get: a fresh payload is the answer; an old one, none or an unreadable one is a miss.
ReadShared(c) ==
    /\ Is(c, "reading")
    /\ \/ l2 = "fresh" /\ Leave(c, TRUE)
       \/ To(c, "fetching") /\ UNCHANGED <<l1, lock>>
    /\ UNCHANGED <<l2, bought, expiries>>

\* _fetch_sync.  A failure caches nothing, so whoever waits asks again.
Fetch(c) ==
    /\ Is(c, "fetching")
    /\ \/ To(c, "dropping") /\ bought' = [bought EXCEPT ![Process[c]] = @ + 1] /\ UNCHANGED <<l1, lock>>
       \/ Leave(c, FALSE) /\ UNCHANGED bought
    /\ UNCHANGED <<l2, expiries>>

\* _l2_put: the table is dropped, then written; what fails on the way is forgotten.
Drop(c) ==
    /\ Is(c, "dropping")
    /\ \/ l2' = "none" /\ To(c, "writing") /\ UNCHANGED <<l1, lock>>
       \/ Leave(c, TRUE) /\ UNCHANGED l2
    /\ UNCHANGED <<bought, expiries>>

Write(c) ==
    /\ Is(c, "writing") /\ l2' \in {"fresh", l2} /\ Leave(c, TRUE)
    /\ UNCHANGED <<bought, expiries>>

Again(c) == call[c] \in {"done", "failed"} /\ To(c, "idle") /\ UNCHANGED <<l1, lock, l2, bought, expiries>>

\* _TTL_SECONDS pass, and EODHD_FUNDAMENTALS_TTL_HOURS.
Expire(p) ==
    /\ p \in l1 /\ expiries < MaxExpiries /\ expiries' = expiries + 1
    /\ l1' = l1 \ {p} /\ bought' = [bought EXCEPT ![p] = 0] /\ UNCHANGED <<call, lock, l2>>

Age ==
    /\ l2 = "fresh" /\ expiries < MaxExpiries /\ expiries' = expiries + 1
    /\ l2' = "old" /\ UNCHANGED <<call, l1, lock, bought>>

BundleNext ==
    \/ \E c \in Calls : LookUp(c) \/ Enter(c) \/ ReadShared(c) \/ Fetch(c) \/ Drop(c) \/ Write(c) \/ Again(c)
    \/ \E p \in Processes : Expire(p)
    \/ Age

BundleSpec == BundleInit /\ [][BundleNext]_bundleVars

----------------------------------------------------------------------------
\* A dashboard's widgets buy one payload of a symbol a process and TTL, however their
\* calls interleave and whatever the shared table does (_fundamentals.py 6-11, 159-175).
BundleIsShared == \A p \in Processes : bought[p] <= 1
============================================================================
