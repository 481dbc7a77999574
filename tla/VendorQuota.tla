---------------------------- MODULE VendorQuota ----------------------------
(***************************************************************************)
(* The vendor's indicators (live-grid/app/ta/sources.py): five billed      *)
(* calls a request, shared by every socket, cached for one closed bar.     *)
(***************************************************************************)
EXTENDS Integers

CONSTANTS
    Sockets,
    Floor,       \* TA_EODHD_MIN_REFETCH_S
    Timeout      \* of one request to the vendor

ASSUME QuotaBounds == Floor \in Nat /\ Timeout \in Nat /\ Timeout < Floor

VARIABLES
    cached,      \* the key's rows are in _cache
    age,         \* since _fetched_at, Floor when it is long ago
    asking,      \* per socket: how long its request is under way, -1 for none
    billed       \* requests the vendor answered

vendorVars == <<cached, age, asking, billed>>

\* EodhdSource.series, for one key: symbol, indicator and last closed bar.
VendorInit == cached = FALSE /\ age = Floor /\ asking = [s \in Sockets |-> -1] /\ billed = 0

\* Mutant of Ask: only a success is stamped.
AskUnstamped(s) ==
    /\ asking[s] = -1 /\ ~cached /\ age >= Floor
    /\ asking' = [asking EXCEPT ![s] = 0] /\ UNCHANGED <<cached, age, billed>>

\* Cached rows are served, a recent attempt is left alone; else stamp, then fetch.
Ask(s) ==
    /\ asking[s] = -1 /\ ~cached /\ age >= Floor
    /\ age' = 0 /\ asking' = [asking EXCEPT ![s] = 0]
    /\ UNCHANGED <<cached, billed>>

Supplied(s) ==
    /\ asking[s] >= 0 /\ asking' = [asking EXCEPT ![s] = -1]
    /\ cached' = TRUE /\ billed' = billed + 1 /\ UNCHANGED age

Refused(s) ==
    /\ asking[s] >= 0 /\ asking' = [asking EXCEPT ![s] = -1]
    /\ UNCHANGED <<cached, age, billed>>

Elapse ==
    /\ \A s \in Sockets : asking[s] < Timeout
    /\ age' = IF age < Floor THEN age + 1 ELSE age
    /\ asking' = [s \in Sockets |-> IF asking[s] < 0 THEN -1 ELSE asking[s] + 1]
    /\ UNCHANGED <<cached, billed>>

VendorNext == Elapse \/ \E s \in Sockets : Ask(s) \/ Supplied(s) \/ Refused(s)

VendorSpec == VendorInit /\ [][VendorNext]_vendorVars

\* However many sockets want a vendor indicator, one request for a closed bar is
\* billed (sources.py 188-199).
BilledOnce == billed <= 1
============================================================================
