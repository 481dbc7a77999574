---------------------------- MODULE VendorProofs ----------------------------
(***************************************************************************)
(* What is bought from the vendor is bought once, and all of it arrives.   *)
(*                                                                         *)
(* Two places share what one caller pays for:                              *)
(*   - the values of a closed bar, for any number of sockets and any floor *)
(*     longer than a request may take.  The cache and the stamp have no    *)
(*     lock: the stamp of the request under way is younger than the floor, *)
(*     and that keeps a second one away;                                   *)
(*   - the bundle of fundamentals, for any number of calls and processes   *)
(*     and whatever becomes of the table they share.  The purchase and the *)
(*     entry are awaits apart: between them only the lock does.            *)
(*                                                                         *)
(* The tick backfill drops no member of a week, and settles no week with   *)
(* holes it does not admit, for any members, weeks and faults.  The first  *)
(* needs to know whom a running load has left, the second what a running   *)
(* settle pass has not come to yet.                                        *)
(*                                                                         *)
(* The walk over a full calendar joins without a gap or a repeat where no  *)
(* day fills a page: what it has and what lies before its next page are    *)
(* the calendar, whatever the vendor was asked so far.                     *)
(***************************************************************************)
EXTENDS VendorQuota, EodhdCalendar, EodhdBundle, SipBackfill, IntegerSets

VendorTypeOK ==
    /\ cached \in BOOLEAN /\ age \in 0..Floor /\ billed \in Nat
    /\ asking \in [Sockets -> -1..Timeout]

\* A request under way is as old as the stamp, so it is the only one; none is under way
\* once the rows are cached, and none was billed before.
QuotaInv ==
    /\ VendorTypeOK
    /\ billed <= 1 /\ (~cached => billed = 0)
    /\ \A s \in Sockets : asking[s] >= 0 => ~cached /\ age = asking[s]
    /\ \A s, t \in Sockets : asking[s] >= 0 /\ asking[t] >= 0 => s = t

LEMMA QuotaInit == VendorInit => QuotaInv
<1> SUFFICES ASSUME VendorInit PROVE QuotaInv  OBVIOUS
<1>1. asking \in [Sockets -> -1..Timeout] /\ \A s \in Sockets : asking[s] = -1
  <2>1. -1 \in -1..Timeout  BY QuotaBounds
  <2> QED  BY <2>1 DEF VendorInit
<1>2. VendorTypeOK
  <2>1. cached \in BOOLEAN  BY Zenon DEF VendorInit
  <2>2. age \in 0..Floor /\ billed \in Nat  BY QuotaBounds DEF VendorInit
  <2> QED  BY <1>1, <2>1, <2>2 DEF VendorTypeOK
<1>3. billed = 0 /\ \A s \in Sockets : ~(asking[s] >= 0)  BY <1>1 DEF VendorInit
<1> QED  BY <1>2, <1>3 DEF QuotaInv

LEMMA QuotaNext == QuotaInv /\ [VendorNext]_vendorVars => QuotaInv'
<1> SUFFICES ASSUME QuotaInv, [VendorNext]_vendorVars PROVE QuotaInv'  OBVIOUS
<1> USE QuotaBounds DEF QuotaInv, VendorTypeOK
<1>1. CASE UNCHANGED vendorVars  BY <1>1 DEF vendorVars
<1>2. CASE Elapse
  <2>1. \A s \in Sockets : asking'[s] = IF asking[s] < 0 THEN -1 ELSE asking[s] + 1
    BY <1>2 DEF Elapse
  <2>2. asking' \in [Sockets -> -1..Timeout]
    BY <1>2 DEF Elapse
  <2>3. ASSUME NEW s \in Sockets, asking'[s] >= 0
        PROVE  asking[s] >= 0 /\ ~cached' /\ age' = asking'[s]
    BY <1>2, <2>1, <2>3 DEF Elapse
  <2> QED  BY <1>2, <2>2, <2>3 DEF Elapse
<1>3. ASSUME NEW s \in Sockets, Ask(s)  PROVE QuotaInv'
  <2>1. \A t \in Sockets : asking[t] = -1
    \* A request under way would be younger than the floor that has passed.
    BY <1>3 DEF Ask
  <2> QED  BY <1>3, <2>1 DEF Ask
<1>4. ASSUME NEW s \in Sockets, Supplied(s)  PROVE QuotaInv'
  <2>1. \A t \in Sockets : asking'[t] = -1
    BY <1>4 DEF Supplied
  <2> QED  BY <1>4, <2>1 DEF Supplied
<1>5. ASSUME NEW s \in Sockets, Refused(s)  PROVE QuotaInv'
  BY <1>5 DEF Refused
<1> QED  BY <1>1, <1>2, <1>3, <1>4, <1>5 DEF VendorNext

\* However many sockets draw a vendor indicator, a closed bar's values are billed once
\* (sources.py 173-199; the property BilledOnce).
THEOREM OneRequestIsBilled == VendorSpec => []BilledOnce
<1>1. QuotaInv => BilledOnce  BY DEF QuotaInv, BilledOnce
<1> QED  BY <1>1, QuotaInit, QuotaNext, PTL DEF VendorSpec

----------------------------------------------------------------------------
Paid   == {"dropping", "writing"}
Within == {"reading", "fetching"} \cup Paid

BundleTypeOK ==
    /\ call \in [Calls -> Within \cup {"idle", "queued", "done", "failed"}]
    /\ l1 \subseteq Processes /\ lock \subseteq Processes
    /\ bought \in [Processes -> Nat]

\* Who is within has the lock alone and found no entry; a purchase is in the entry, or
\* still in the hands of the call that made it.
BundleInv ==
    /\ BundleTypeOK
    /\ \A c \in Calls : call[c] \in Within => Process[c] \in lock \ l1
    /\ \A c, d \in Calls :
          call[c] \in Within /\ call[d] \in Within /\ Process[c] = Process[d] => c = d
    /\ \A p \in Processes :
          /\ bought[p] <= 1
          /\ bought[p] = 1 => p \in l1 \/ \E c \in Calls : Process[c] = p /\ call[c] \in Paid

LEMMA BundleInitInv == BundleInit => BundleInv
  BY DEF BundleInit, BundleInv, BundleTypeOK, Within, Paid

\* A call moves outside, or from one place within to a later one, and nothing is bought.
LEMMA Moved ==
    ASSUME BundleInv, NEW c \in Calls,
           NEW pc \in Within \cup {"idle", "queued", "done", "failed"}, To(c, pc),
           pc \in Within => call[c] \in Within, call[c] \in Within => pc \in Within,
           call[c] \in Paid => pc \in Paid, UNCHANGED <<l1, lock, bought>>
    PROVE  BundleInv'
<1>1. /\ call'[c] = pc /\ \A d \in Calls : d # c => call'[d] = call[d]
      /\ call' \in [Calls -> Within \cup {"idle", "queued", "done", "failed"}]
  BY DEF BundleInv, BundleTypeOK, To
<1>2. \A d \in Calls : call'[d] \in Within <=> call[d] \in Within
  BY <1>1
<1>3. \A d \in Calls : call[d] \in Paid => call'[d] \in Paid
  BY <1>1
<1> QED  BY <1>1, <1>2, <1>3 DEF BundleInv, BundleTypeOK

\* A call leaves with an entry, or without one before it has bought.
LEMMA Left ==
    ASSUME BundleInv, NEW c \in Calls, NEW made \in BOOLEAN, Leave(c, made),
           call[c] \in Within, ~made => call[c] \notin Paid, bought' = bought
    PROVE  BundleInv'
<1>1. /\ call'[c] \in {"done", "failed"} /\ \A d \in Calls : d # c => call'[d] = call[d]
      /\ call' \in [Calls -> Within \cup {"idle", "queued", "done", "failed"}]
  BY DEF BundleInv, BundleTypeOK, Leave, To
<1>2. Process[c] \in Processes /\ call'[c] \notin Within
  BY <1>1 DEF Processes, Within, Paid
<1>3. \A d \in Calls : call'[d] \in Within => d # c /\ call[d] \in Within /\ Process[d] # Process[c]
  BY <1>1, <1>2 DEF BundleInv
<1>4. \A d \in Calls : call'[d] \in Within => Process[d] \in lock' \ l1'
  BY <1>3 DEF Leave, BundleInv
<1>5. ASSUME NEW p \in Processes, bought[p] = 1
      PROVE  p \in l1' \/ \E d \in Calls : Process[d] = p /\ call'[d] \in Paid
  <2>1. CASE p \in l1  BY <2>1 DEF Leave
  <2>2. CASE \E d \in Calls : Process[d] = p /\ call[d] \in Paid
    <3>1. PICK d \in Calls : Process[d] = p /\ call[d] \in Paid  BY <2>2
    <3>2. CASE d = c  BY <3>1, <3>2 DEF Leave
    <3>3. CASE d # c  BY <1>1, <3>1, <3>3
    <3> QED  BY <3>2, <3>3
  <2> QED  BY <1>5, <2>1, <2>2 DEF BundleInv
<1> QED  BY <1>1, <1>2, <1>3, <1>4, <1>5 DEF BundleInv, BundleTypeOK, Leave

LEMMA BundleNextInv == BundleInv /\ [BundleNext]_bundleVars => BundleInv'
<1> SUFFICES ASSUME BundleInv, [BundleNext]_bundleVars PROVE BundleInv'  OBVIOUS
<1>1. CASE UNCHANGED bundleVars
  BY <1>1 DEF bundleVars, BundleInv, BundleTypeOK
<1>2. ASSUME NEW c \in Calls, LookUp(c) \/ Again(c)  PROVE BundleInv'
  BY <1>2, Moved DEF LookUp, Again, Is, Within, Paid
<1>3. ASSUME NEW c \in Calls, Enter(c)  PROVE BundleInv'
  <2>1. CASE Process[c] \in l1  BY <1>3, <2>1, Moved DEF Enter, Is, Within, Paid
  <2>2. CASE Process[c] \notin l1
    <3>1. /\ call'[c] = "reading" /\ \A d \in Calls : d # c => call'[d] = call[d]
          /\ call' \in [Calls -> Within \cup {"idle", "queued", "done", "failed"}]
          /\ lock' = lock \cup {Process[c]} /\ l1' = l1 /\ bought' = bought
          /\ Process[c] \notin lock /\ Process[c] \in Processes /\ call[c] = "queued"
      BY <1>3, <2>2 DEF Enter, To, Is, BundleInv, BundleTypeOK, Within, Processes
    <3>2. \A d \in Calls : call[d] \in Within => Process[d] # Process[c]
      BY <3>1 DEF BundleInv
    <3>3. \A d \in Calls : call[d] \in Paid => call'[d] \in Paid
      BY <3>1 DEF Paid
    <3> QED  BY <2>2, <3>1, <3>2, <3>3 DEF BundleInv, BundleTypeOK
  <2> QED  BY <2>1, <2>2
<1>4. ASSUME NEW c \in Calls, ReadShared(c)  PROVE BundleInv'
  <2>1. CASE Leave(c, TRUE)  BY <1>4, <2>1, Left DEF ReadShared, Is, Within
  <2>2. CASE To(c, "fetching") /\ UNCHANGED <<l1, lock>>
    BY <1>4, <2>2, Moved DEF ReadShared, Is, Within, Paid
  <2> QED  BY <1>4, <2>1, <2>2 DEF ReadShared
<1>5. ASSUME NEW c \in Calls, Fetch(c)  PROVE BundleInv'
  <2>1. CASE Leave(c, FALSE) /\ UNCHANGED bought
    BY <1>5, <2>1, Left DEF Fetch, Is, Within, Paid
  <2>2. CASE To(c, "dropping") /\ bought' = [bought EXCEPT ![Process[c]] = @ + 1] /\ UNCHANGED <<l1, lock>>
    <3>1. /\ call'[c] = "dropping" /\ \A d \in Calls : d # c => call'[d] = call[d]
          /\ call' \in [Calls -> Within \cup {"idle", "queued", "done", "failed"}]
          /\ Process[c] \in Processes /\ call[c] = "fetching"
      BY <1>5, <2>2 DEF Fetch, To, Is, BundleInv, BundleTypeOK, Within, Paid, Processes
    <3>2. bought[Process[c]] = 0
      \* Else the entry has it, or another call within: the lock excludes both.
      <4>1. bought[Process[c]] # 1
        BY <3>1 DEF BundleInv, Within, Paid
      <4> QED  BY <3>1, <4>1 DEF BundleInv, BundleTypeOK
    <3>3. bought' \in [Processes -> Nat] /\ bought'[Process[c]] = 1
      BY <2>2, <3>1, <3>2 DEF BundleInv, BundleTypeOK
    <3>4. \A p \in Processes : p # Process[c] => bought'[p] = bought[p]
      BY <2>2 DEF BundleInv, BundleTypeOK
    <3>5. /\ \A d \in Calls : call'[d] \in Within <=> call[d] \in Within
          /\ \A d \in Calls : call[d] \in Paid => call'[d] \in Paid
          /\ call'[c] \in Paid
      BY <3>1 DEF Within, Paid
    <3> QED  BY <2>2, <3>1, <3>3, <3>4, <3>5 DEF BundleInv, BundleTypeOK
  <2> QED  BY <1>5, <2>1, <2>2 DEF Fetch
<1>6. ASSUME NEW c \in Calls, Drop(c)  PROVE BundleInv'
  <2>1. CASE Leave(c, TRUE)  BY <1>6, <2>1, Left DEF Drop, Is, Within, Paid
  <2>2. CASE To(c, "writing") /\ UNCHANGED <<l1, lock>>
    BY <1>6, <2>2, Moved DEF Drop, Is, Within, Paid
  <2> QED  BY <1>6, <2>1, <2>2 DEF Drop
<1>7. ASSUME NEW c \in Calls, Write(c)  PROVE BundleInv'
  BY <1>7, Left DEF Write, Is, Within, Paid
<1>8. ASSUME NEW p \in Processes, Expire(p)  PROVE BundleInv'
  <2>1. /\ bought' = [bought EXCEPT ![p] = 0] /\ l1' = l1 \ {p} /\ UNCHANGED <<call, lock>>
    BY <1>8 DEF Expire
  <2> QED  BY <2>1 DEF BundleInv, BundleTypeOK
<1>9. CASE Age
  BY <1>9 DEF Age, BundleInv, BundleTypeOK
<1> QED  BY <1>1, <1>2, <1>3, <1>4, <1>5, <1>6, <1>7, <1>8, <1>9 DEF BundleNext

\* A process buys a symbol's bundle at most once while an entry lives, however its calls
\* interleave and whatever fails (_fundamentals.py 166-186; the property BundleIsShared).
THEOREM OneBundleIsBought == BundleSpec => []BundleIsShared
<1>1. BundleInv => BundleIsShared  BY DEF BundleInv, BundleIsShared
<1> QED  BY <1>1, BundleInitInv, BundleNextInv, PTL DEF BundleSpec

----------------------------------------------------------------------------
\* The tick backfill, on its own.
SipSpec == SipInit /\ [][SipNext]_sipVars

OfAWeek == {"load", "settle", "retry"}
Passes  == [kind : OfAWeek \cup {"idle", "daily", "finalize"}, at : Int, todo : SUBSET Members]

\* Shapes, and what a pass may have left to do.
PassOK ==
    /\ slot \in FirstSlot..FinalSlot /\ servedTo \in Int
    /\ prog \in [Weeks -> Progress]
    /\ table \in [Members -> SUBSET Int] /\ skipped \in [Members -> SUBSET Int]
    /\ blacklist \in [Members -> SUBSET Int] /\ \A s \in Members : IsFiniteSet(blacklist[s])
    /\ work \in Passes
    /\ work.kind \in OfAWeek => work.todo \subseteq ForWeek(work.at)
    /\ work.kind \notin OfAWeek \cup {"daily"} => work.todo = {}

Listed(p) == p.done \cup p.empty \cup p.added \cup Failed(p)

\* A member of a week that is being loaded waits for its turn, had it, or is kept out.
ListsInv ==
    /\ PassOK
    /\ \A w \in Weeks : prog[w].finished \/ (work.kind = "load" /\ work.at = w) =>
          \A s \in ForWeek(w) :
             \/ s \in Listed(prog[w]) \/ s \in BlockedFor(w)
             \/ ~prog[w].finished /\ s \in work.todo

\* The holes no settle pass passed over, and what a settle pass is to find without any.
Holes(s, w) == Missing(s, w) \ skipped[s]
Whole(s, w) == prog[w].failed[s] # "none" \/ Holes(s, w) = {}
Settling(w) == work.kind = "settle" /\ work.at = w

\* A settle pass begins when the vendor has the week.  A symbol that is only on `added`
\* came with a settle pass, and all of it that was not passed over.
SettleInv ==
    /\ PassOK
    /\ servedTo >= slot \div 4 - 1 - MaxLate
    /\ \A w \in Weeks :
          /\ prog[w].done \cup prog[w].added \subseteq ForWeek(w)
          /\ \A s \in prog[w].added : Holes(s, w) = {}
          /\ Settling(w) =>
                /\ Monday(w) + 4 <= servedTo
                /\ \A s \in prog[w].done \ (prog[w].empty \cup BlockedFor(w)) :
                      s \in work.todo \/ Whole(s, w)

----------------------------------------------------------------------------
\* record keeps a progress file's shape, and puts the symbol on one of its lists.
Results == {"rows", "empty", "added", "error", "unservable"}
PutOn(r, p, s, got) ==
    /\ r \in Progress
    /\ r.done  = IF got = "rows" THEN p.done \cup {s} ELSE p.done
    /\ r.empty = IF got = "empty" THEN p.empty \cup {s} ELSE p.empty
    /\ r.added = IF got = "added" THEN p.added \cup {s} ELSE p.added
    /\ r.failed[s] = IF got \in {"error", "unservable"} THEN got ELSE "none"
    /\ \A t \in Members \ {s} : r.failed[t] = p.failed[t]
    /\ r.finished = p.finished /\ r.settled = p.settled
LEMMA Recorded ==
    ASSUME NEW p \in Progress, NEW s \in Members, NEW got \in Results
    PROVE  PutOn(RecordResult(p, s, got), p, s, got)
<1> DEFINE r == RecordResult(p, s, got)
<1> SUFFICES PutOn(r, p, s, got)  OBVIOUS
<1> DEFINE q == [p EXCEPT !.failed[s] = "none"]
<1>1. /\ q \in Progress
      /\ q.done = p.done /\ q.empty = p.empty /\ q.added = p.added /\ q.finished = p.finished
      /\ q.settled = p.settled /\ q.failed = [p.failed EXCEPT ![s] = "none"]
  BY DEF Progress, Verdicts
<1> HIDE DEF q
<1>2. q.failed[s] = "none" /\ \A t \in Members \ {s} : q.failed[t] = p.failed[t]
  BY <1>1 DEF Progress
<1>3. CASE got \in {"error", "unservable"}
  <2> DEFINE x == [q EXCEPT !.failed[s] = got,
                            !.retries[s] = IF @ < RetryMax THEN @ + 1 ELSE @]
  <2>1. r = x  BY <1>3 DEF RecordResult, q
  <2>2. q.retries \in [Members -> 0..RetryMax] /\ RetryMax \in Nat  BY <1>1, SipBounds DEF Progress
  <2>3. (IF q.retries[s] < RetryMax THEN q.retries[s] + 1 ELSE q.retries[s]) \in 0..RetryMax
    BY <2>2
  <2>4. /\ x \in Progress /\ x.done = q.done /\ x.empty = q.empty /\ x.added = q.added
        /\ x.finished = q.finished /\ x.settled = q.settled
        /\ x.failed = [q.failed EXCEPT ![s] = got]
    BY <1>1, <1>3, <2>3 DEF Progress, Verdicts
  <2> HIDE DEF x
  <2>5. r.failed[s] = got /\ \A t \in Members \ {s} : r.failed[t] = q.failed[t]
    BY <1>1, <2>1, <2>4 DEF Progress
  <2> HIDE DEF r
  <2> QED  BY <1>1, <1>2, <1>3, <2>1, <2>4, <2>5 DEF PutOn
<1>4. CASE got = "added"
  <2>1. r = [q EXCEPT !.added = @ \cup {s}]  BY <1>4 DEF RecordResult, q
  <2> HIDE DEF r
  <2> QED  BY <1>1, <1>2, <1>4, <2>1 DEF Progress, PutOn
<1>5. CASE got = "empty"
  <2>1. r = [q EXCEPT !.empty = @ \cup {s}]  BY <1>5 DEF RecordResult, q
  <2> HIDE DEF r
  <2> QED  BY <1>1, <1>2, <1>5, <2>1 DEF Progress, PutOn
<1>6. CASE got = "rows"
  <2>1. r = [q EXCEPT !.done = @ \cup {s}]  BY <1>6 DEF RecordResult, q
  <2> HIDE DEF r
  <2> QED  BY <1>1, <1>2, <1>6, <2>1 DEF Progress, PutOn
<1> QED  BY <1>3, <1>4, <1>5, <1>6 DEF Results

\* Whom the blacklist keeps out it keeps out while it grows.
LEMMA BlockedGrows ==
    ASSUME PassOK, NEW x \in Int, NEW w \in Int,
           \A s \in Members : \/ blacklist'[s] = blacklist[s]
                              \/ blacklist'[s] = blacklist[s] \cup {x}
    PROVE  BlockedFor(w) \subseteq BlockedFor(w)'
<1> SUFFICES ASSUME NEW s \in BlockedFor(w)  PROVE s \in BlockedFor(w)'  OBVIOUS
<1> DEFINE B == blacklist[s]
           C == blacklist'[s]
<1>1. s \in Members /\ Cardinality(B) >= BlacklistWeeks /\ w <= Max(B)
  BY DEF BlockedFor, Unserved
<1>2. B \in SUBSET Int /\ IsFiniteSet(B)  BY <1>1 DEF PassOK
<1>3. C \in SUBSET Int /\ IsFiniteSet(C) /\ B \subseteq C
  BY <1>1, <1>2, FS_AddElement
<1>4. Cardinality(B) <= Cardinality(C) /\ Cardinality(B) \in Nat /\ Cardinality(C) \in Nat
  BY <1>2, <1>3, FS_Subset, FS_CardinalityType
<1>5. BlacklistWeeks \in Nat \ {0}  BY SipBounds
<1>6. B # {}  BY <1>1, <1>5, FS_EmptySet
<1>7. Max(B) \in B  BY <1>2, <1>6, MaxOfFinite
<1>8. Max(C) \in C /\ \A y \in C : Max(C) >= y  BY <1>3, <1>6, MaxOfFinite
<1> HIDE DEF B, C
<1>9. Cardinality(C) >= BlacklistWeeks  BY <1>1, <1>4, <1>5
<1>10. w <= Max(C)
  <2>1. Max(B) \in Int /\ Max(C) \in Int /\ Max(C) >= Max(B)  BY <1>2, <1>3, <1>7, <1>8
  <2> QED  BY <1>1, <2>1
<1> QED  BY <1>1, <1>9, <1>10 DEF BlockedFor, Unserved, B, C

\* The weeks a pass is over are numbers, those that are due are of the backfill.
LEMMA WeekOfMax == ASSUME NEW S \in SUBSET Weeks, S # {} PROVE Max(S) \in S
<1>1. IsFiniteSet(Weeks) /\ Weeks \in SUBSET Int  BY SipBounds
<1>2. IsFiniteSet(S)  BY <1>1, FS_Subset
<1>3. S \in SUBSET Int  BY <1>1
<1> QED  BY <1>2, <1>3, MaxOfFinite

LEMMA NewestIsNumber == ASSUME slot \in Int PROVE NewestWeek \in Int
  BY DEF NewestWeek, UtcDay, Today

LEMMA BegunIs == ASSUME PassOK, NEW w \in Weeks PROVE Begun(prog[w], w) \in {"no", "young", "old"}
  BY DEF PassOK, Progress, Begun

----------------------------------------------------------------------------
\* What a step leaves of a week's file, and what both invariants need to know of it.
SameLists(w) ==
    /\ prog'[w].done = prog[w].done /\ prog'[w].empty = prog[w].empty
    /\ prog'[w].added = prog[w].added /\ prog'[w].failed = prog[w].failed
    /\ prog'[w].finished = prog[w].finished /\ prog'[w].settled = prog[w].settled

\* A symbol of the running pass gets its result.
Records(s, got) ==
    /\ s \in work.todo /\ work' = [work EXCEPT !.todo = @ \ {s}]
    /\ prog' = [prog EXCEPT ![work.at] = RecordResult(@, s, got)]

\* Steps that move no list, and leave the pass alone or end it.
LEMMA QuietPass ==
    ASSUME PassOK, PassOK', \A w \in Weeks : SameLists(w), UNCHANGED <<blacklist, skipped>>,
           \A t \in Members : table[t] \subseteq table'[t],
           work' = work \/ work'.kind \notin OfAWeek, servedTo' >= servedTo, servedTo \in Int
    PROVE  /\ ListsInv => ListsInv'
           /\ SettleInv /\ servedTo' >= slot' \div 4 - 1 - MaxLate => SettleInv'
<1>1. \A w \in Weeks : /\ BlockedFor(w)' = BlockedFor(w) /\ Listed(prog[w])' = Listed(prog[w])
                       /\ \A s \in Members : /\ Holes(s, w)' \subseteq Holes(s, w)
                                             /\ Whole(s, w) => Whole(s, w)'
  BY DEF BlockedFor, Unserved, SameLists, Listed, Failed, Missing, Holes, Whole
<1>4. \A w \in Weeks : prog[w].done \subseteq Members /\ prog[w].added \subseteq Members
  BY DEF PassOK, Progress
<1>2. ASSUME ListsInv  PROVE ListsInv'
  <2> SUFFICES ASSUME NEW w \in Weeks, NEW s \in ForWeek(w),
                      (prog[w].finished \/ (work.kind = "load" /\ work.at = w))'
               PROVE  (\/ s \in Listed(prog[w]) \/ s \in BlockedFor(w)
                       \/ ~prog[w].finished /\ s \in work.todo)'
    BY DEF ListsInv
  <2> QED  BY <1>1, <1>2 DEF ListsInv, SameLists, OfAWeek
<1>3. ASSUME SettleInv, servedTo' >= slot' \div 4 - 1 - MaxLate  PROVE SettleInv'
  <2> SUFFICES ASSUME NEW w \in Weeks
               PROVE  /\ (prog[w].done \cup prog[w].added \subseteq ForWeek(w))'
                      /\ (\A s \in prog[w].added : Holes(s, w) = {})'
                      /\ Settling(w)' =>
                           /\ Monday(w) + 4 <= servedTo'
                           /\ (\A s \in prog[w].done \ (prog[w].empty \cup BlockedFor(w)) :
                                  s \in work.todo \/ Whole(s, w))'
    BY <1>3 DEF SettleInv
  <2>1. Settling(w)' => Settling(w) /\ work' = work  BY DEF Settling, OfAWeek
  <2>2. Settling(w) => Monday(w) + 4 <= servedTo  BY <1>3 DEF SettleInv
  <2>3. Settling(w)' => Monday(w) + 4 <= servedTo'
    <3>1. Monday(w) \in Int /\ servedTo' \in Int  BY SipBounds DEF Monday, PassOK
    <3> QED  BY <2>1, <2>2, <3>1
  <2>4. (prog[w].done \cup prog[w].added \subseteq ForWeek(w))'
    BY <1>3 DEF SettleInv, SameLists
  <2>5. (\A s \in prog[w].added : Holes(s, w) = {})'  BY <1>1, <1>3, <1>4 DEF SettleInv, SameLists
  <2>6. Settling(w)' => (\A s \in prog[w].done \ (prog[w].empty \cup BlockedFor(w)) :
                            s \in work.todo \/ Whole(s, w))'
    BY <1>1, <1>3, <1>4, <2>1 DEF SettleInv, SameLists
  <2> QED  BY <2>3, <2>4, <2>5, <2>6
<1> QED  BY <1>2, <1>3

LEMMA BeginPass ==
    ASSUME PassOK, NEW w \in Int, NEW mode \in OfAWeek, BeginWeek(w, mode)
    PROVE  /\ PassOK' /\ \A v \in Weeks : SameLists(v)
           /\ work' = [kind |-> mode, at |-> w, todo |-> Todo(w, mode)]
           /\ UNCHANGED <<slot, servedTo, table, daily, blacklist, skipped>>
<1>1. work' = [kind |-> mode, at |-> w, todo |-> Todo(w, mode)]  BY DEF BeginWeek
<1>2. Todo(w, mode) \subseteq ForWeek(w) /\ ForWeek(w) \subseteq Members
  BY DEF Todo, Pending, ForWeek, ForRange, OfAWeek
<1>3. prog' \in [Weeks -> Progress] /\ \A v \in Weeks : SameLists(v)
  <2> DEFINE p == [prog[w] EXCEPT !.started = Begun(prog[w], w),
                                  !.retried = IF mode = "retry" THEN slot ELSE @]
  <2>1. prog' = [prog EXCEPT ![w] = p]  BY DEF BeginWeek
  <2>2. CASE w \notin Weeks
    <3>1. prog' = prog  BY <2>1, <2>2 DEF PassOK
    <3> QED  BY <3>1 DEF PassOK, SameLists
  <2>3. CASE w \in Weeks
    <3>1. prog[w] \in Progress /\ slot \in FirstSlot..FinalSlot  BY <2>3 DEF PassOK
    <3>2. Begun(prog[w], w) \in {"no", "young", "old"}  BY <2>3, BegunIs
    <3>3. /\ p \in Progress /\ p.done = prog[w].done /\ p.empty = prog[w].empty
          /\ p.added = prog[w].added /\ p.failed = prog[w].failed
          /\ p.finished = prog[w].finished /\ p.settled = prog[w].settled
      BY <3>1, <3>2 DEF Progress
    <3> HIDE DEF p
    <3>4. \A v \in Weeks : prog'[v] = IF v = w THEN p ELSE prog[v]  BY <2>1 DEF PassOK
    <3>5. prog' \in [Weeks -> Progress]  BY <2>1, <3>3 DEF PassOK
    <3> QED  BY <3>3, <3>4, <3>5 DEF SameLists
  <2> QED  BY <2>2, <2>3
<1>4. UNCHANGED <<slot, servedTo, table, daily, blacklist, skipped>>  BY DEF BeginWeek
<1>5. PassOK'
  <2>1. work' \in Passes /\ work'.kind = mode /\ work'.at = w /\ work'.todo = Todo(w, mode)
    BY <1>1, <1>2 DEF Passes
  <2> QED  BY <1>2, <1>3, <1>4, <2>1 DEF PassOK
<1> QED  BY <1>1, <1>3, <1>4, <1>5

\* One decision of the loop: a daily pass, or a pass over a week; to settle, only one due.
LEMMA CycleIs ==
    ASSUME PassOK, Cycle \/ Deferred
    PROVE  \/ BeginDaily
           \/ \E w \in Int : BeginWeek(w, "load") \/ BeginWeek(w, "retry")
           \/ \E w \in Weeks : DueForSettle(w) /\ BeginWeek(w, "settle")
<1>1. slot \in Int  BY SipBounds DEF PassOK
<1>2. NewestWeek \in Int  BY <1>1, NewestIsNumber
<1>3. /\ SettleDue \in SUBSET Weeks /\ RetryDue \in SUBSET Weeks /\ Backlog \in SUBSET Weeks
      /\ \A w \in SettleDue : DueForSettle(w)
  BY DEF SettleDue, RetryDue, Backlog, Known
<1>4. \A w \in Weeks : w \in Int  BY SipBounds
<1> QED  BY <1>2, <1>3, <1>4, WeekOfMax DEF Cycle, Deferred, Decide

LEMMA CycleStep ==
    ASSUME PassOK, Cycle \/ Deferred
    PROVE  /\ PassOK' /\ \A v \in Weeks : SameLists(v)
           /\ ListsInv => ListsInv'
           /\ SettleInv /\ MaxLate + 2 <= SettleLag => SettleInv'
<1>0. slot \in Int /\ servedTo \in Int /\ MaxLate \in Int /\ SettleLag \in Int /\ Weeks \subseteq Int
  BY SipBounds DEF PassOK
<1>1. CASE BeginDaily
  <2>1. /\ UNCHANGED <<slot, servedTo, table, prog, blacklist, skipped>>
        /\ work'.kind = "daily" /\ work' \in Passes
    BY <1>0, <1>1 DEF BeginDaily, Passes, ForRange, Today
  <2>2. PassOK'  BY <2>1 DEF PassOK, OfAWeek
  <2>3. \A v \in Weeks : SameLists(v)  BY <2>1 DEF SameLists
  <2>4. SettleInv => servedTo' >= slot' \div 4 - 1 - MaxLate  BY <2>1 DEF SettleInv
  <2> QED  BY <1>0, <2>1, <2>2, <2>3, <2>4, QuietPass DEF OfAWeek
<1>2. ASSUME NEW w \in Int, NEW mode \in OfAWeek, BeginWeek(w, mode),
             mode = "settle" => w \in Weeks /\ DueForSettle(w)
      PROVE  /\ PassOK' /\ \A v \in Weeks : SameLists(v)
             /\ ListsInv => ListsInv'
             /\ SettleInv /\ MaxLate + 2 <= SettleLag => SettleInv'
  <2>1. /\ PassOK' /\ \A v \in Weeks : SameLists(v)
        /\ work' = [kind |-> mode, at |-> w, todo |-> Todo(w, mode)]
        /\ UNCHANGED <<slot, servedTo, table, blacklist, skipped>>
    BY <1>2, BeginPass
  <2>2. \A v \in Weeks : /\ BlockedFor(v)' = BlockedFor(v) /\ Listed(prog[v])' = Listed(prog[v])
                         /\ \A s : Holes(s, v)' = Holes(s, v) /\ Whole(s, v)' = Whole(s, v)
    BY <2>1 DEF BlockedFor, Unserved, SameLists, Listed, Failed, Missing, Holes, Whole
  <2>3. ASSUME ListsInv  PROVE ListsInv'
    <3> SUFFICES ASSUME NEW v \in Weeks, NEW s \in ForWeek(v),
                        (prog[v].finished \/ (work.kind = "load" /\ work.at = v))'
                 PROVE  (\/ s \in Listed(prog[v]) \/ s \in BlockedFor(v)
                         \/ ~prog[v].finished /\ s \in work.todo)'
      BY <2>1 DEF ListsInv
    <3>1. CASE prog[v].finished  BY <2>1, <2>2, <2>3, <3>1 DEF ListsInv, SameLists
    <3>2. CASE ~prog[v].finished
      <4>1. mode = "load" /\ v = w /\ ~prog'[v].finished  BY <2>1, <3>2 DEF SameLists
      <4>2. work'.todo = (ForWeek(w) \ BlockedFor(w)) \ (prog[w].done \cup prog[w].empty)
        BY <2>1, <4>1 DEF Todo, Pending
      <4> QED  BY <2>2, <4>1, <4>2 DEF Listed
    <3> QED  BY <3>1, <3>2
  <2>4. ASSUME SettleInv, MaxLate + 2 <= SettleLag  PROVE SettleInv'
    <3>1. \A v \in Weeks : /\ (prog[v].done \cup prog[v].added \subseteq ForWeek(v))'
                           /\ (\A s \in prog[v].added : Holes(s, v) = {})'
      BY <2>1, <2>2, <2>4 DEF SettleInv, SameLists
    <3>2. servedTo' >= slot' \div 4 - 1 - MaxLate  BY <2>1, <2>4 DEF SettleInv
    <3>3. ASSUME NEW v \in Weeks, Settling(v)'
          PROVE  /\ Monday(v) + 4 <= servedTo'
                 /\ (\A s \in prog[v].done \ (prog[v].empty \cup BlockedFor(v)) :
                        s \in work.todo \/ Whole(s, v))'
      <4>1. mode = "settle" /\ v = w /\ DueForSettle(w)  BY <1>2, <2>1, <3>3 DEF Settling
      <4>2. Monday(w) + 4 <= servedTo
        <5>1. 4 * (Monday(w) + 4 + SettleLag - 1) + 3 <= slot  BY <4>1 DEF DueForSettle, SettleAt
        <5>2. servedTo >= slot \div 4 - 1 - MaxLate  BY <2>4 DEF SettleInv
        <5>3. Monday(w) \in Int  BY DEF Monday
        <5>4. Monday(w) + 4 + SettleLag - 1 <= slot \div 4  BY <1>0, <5>1, <5>3
        <5> QED  BY <1>0, <2>4, <5>2, <5>3, <5>4
      <4>3. ASSUME NEW s \in prog[v].done \ (prog[v].empty \cup BlockedFor(v))
            PROVE  s \in work'.todo
        <5>1. s \in ForWeek(w)  BY <2>4, <4>1, <4>3 DEF SettleInv
        <5>2. work'.todo = {t \in ForWeek(w) \ BlockedFor(w) :
                               t \in prog[w].done \cup Retryable(prog[w])}
          BY <2>1, <4>1 DEF Todo
        <5> QED  BY <4>1, <4>3, <5>1, <5>2
      <4> QED  BY <2>1, <2>2, <4>1, <4>2, <4>3 DEF SameLists
    <3> QED  BY <2>1, <3>1, <3>2, <3>3 DEF SettleInv
  <2> QED  BY <2>1, <2>3, <2>4
<1> QED  BY <1>0, <1>1, <1>2, CycleIs DEF OfAWeek

----------------------------------------------------------------------------
\* One symbol of a pass: it is off the list, its result is on the week's, and what the vendor
\* served is in its table, or a settle pass passed over it.
Loads(s) ==
    \/ \E days \in SUBSET VendorServes(s) : LoadRows(s, days)
    \/ LoadEmpty(s) \/ \E got \in {"error", "unservable"} : LoadFails(s, got)
Served(s, got) == /\ work.kind = "settle" /\ got \in {"rows", "added"} =>
                        VendorServes(s) \subseteq table'[s] \cup skipped'[s]
                  /\ got = "added" => work.kind = "settle"
Grown(before, after) == /\ after \in [Members -> SUBSET Int]
                        /\ \A t \in Members : before[t] \subseteq after[t]
LEMMA SymbolIs ==
    ASSUME PassOK, NEW s \in Members, Loads(s)
    PROVE  /\ UNCHANGED <<slot, servedTo, blacklist>>
           /\ Grown(table, table') /\ Grown(skipped, skipped')
           /\ s \in work.todo /\ work' = [work EXCEPT !.todo = @ \ {s}]
           /\ \/ work.kind = "daily" /\ prog' = prog
              \/ work.kind \in OfAWeek /\ \E got \in Results : Records(s, got) /\ Served(s, got)
<1>0. work.kind \in OfAWeek \cup {"idle", "daily", "finalize"} /\ work.at \in Int  BY DEF PassOK, Passes
<1>1. s \in work.todo => work.kind \in OfAWeek \cup {"daily"}  BY <1>0 DEF PassOK
<1>2. VendorServes(s) \in SUBSET Int  BY <1>0 DEF VendorServes, PassWindow, WeekDays, Monday
<1>3. ASSUME NEW f \in [Members -> SUBSET Int], NEW g, NEW days \in SUBSET VendorServes(s),
             g = [f EXCEPT ![s] = @ \cup days]
      PROVE  Grown(f, g) /\ g[s] = f[s] \cup days
  <2>1. f[s] \cup days \in SUBSET Int  BY <1>2
  <2>2. g \in [Members -> SUBSET Int]  BY <1>3, <2>1
  <2>3. \A t \in Members : g[t] = IF t = s THEN f[s] \cup days ELSE f[t]  BY <1>3
  <2> QED  BY <2>2, <2>3 DEF Grown
<1>7. Grown(table, table) /\ Grown(skipped, skipped)  BY DEF PassOK, Grown
<1>4. ASSUME NEW days \in SUBSET VendorServes(s), LoadRows(s, days)
      PROVE  /\ UNCHANGED <<slot, servedTo, blacklist>>
             /\ Grown(table, table') /\ Grown(skipped, skipped')
             /\ s \in work.todo /\ work' = [work EXCEPT !.todo = @ \ {s}]
             /\ \/ work.kind = "daily" /\ prog' = prog
                \/ work.kind \in OfAWeek /\ \E got \in Results : Records(s, got) /\ Served(s, got)
  <2>1. /\ s \in work.todo /\ Stores(s, days) /\ Gone(s) /\ Skips(s, VendorServes(s) \ days)
        /\ UNCHANGED <<slot, servedTo, blacklist>>
    BY <1>4 DEF LoadRows
  <2>5. Grown(table, table') /\ table'[s] = table[s] \cup days
    BY <1>3, <2>1 DEF Stores, PassOK
  <2>6. /\ Grown(skipped, skipped')
        /\ work.kind = "settle" => skipped'[s] = skipped[s] \cup (VendorServes(s) \ days)
    <3>1. CASE work.kind = "settle"
      <4>1. skipped' = [skipped EXCEPT ![s] = @ \cup (VendorServes(s) \ days)]
        BY <2>1, <3>1 DEF Skips
      <4> QED  BY <1>3, <4>1 DEF PassOK
    <3>2. CASE work.kind # "settle"  BY <1>7, <2>1, <3>2 DEF Skips
    <3> QED  BY <3>1, <3>2
  <2>7. work.kind = "settle" => VendorServes(s) \subseteq table'[s] \cup skipped'[s]
    BY <2>5, <2>6
  <2>2. CASE work.kind = "daily"
    <3>1. prog' = prog  BY <1>4, <2>2 DEF LoadRows, RecordDaily
    <3> QED  BY <2>1, <2>2, <2>5, <2>6, <3>1 DEF Gone
  <2>3. CASE work.kind = "settle" /\ table[s] # {}
    <3>1. RecordWeek(s, "added")  BY <1>4, <2>3 DEF LoadRows
    <3>2. Records(s, "added") /\ Served(s, "added")
      BY <2>1, <2>3, <2>7, <3>1 DEF Records, RecordWeek, Gone, Served
    <3> QED  BY <2>1, <2>3, <2>5, <2>6, <3>2 DEF Gone, Results, OfAWeek
  <2>4. CASE work.kind \in {"load", "retry"} \/ (work.kind = "settle" /\ table[s] = {})
    <3>1. RecordWeek(s, "rows")  BY <1>4, <2>4 DEF LoadRows
    <3>2. Records(s, "rows") /\ Served(s, "rows")
      BY <2>1, <2>7, <3>1 DEF Records, RecordWeek, Gone, Served
    <3> QED  BY <2>1, <2>4, <2>5, <2>6, <3>2 DEF Gone, Results, OfAWeek
  <2> QED  BY <1>1, <2>1, <2>2, <2>3, <2>4 DEF OfAWeek
<1>5. CASE LoadEmpty(s)
  <2>1. /\ s \in work.todo /\ Gone(s) /\ UNCHANGED <<slot, servedTo, table, blacklist, skipped>>
        /\ IF work.kind = "daily" THEN RecordDaily(s, {}) ELSE RecordWeek(s, "empty")
    BY <1>5 DEF LoadEmpty
  <2>2. work.kind = "daily" => prog' = prog  BY <2>1 DEF RecordDaily
  <2>3. work.kind # "daily" => Records(s, "empty") /\ Served(s, "empty")
    BY <2>1 DEF RecordWeek, Records, Gone, Served
  <2> QED  BY <1>1, <1>7, <2>1, <2>2, <2>3 DEF Gone, Results
<1>6. ASSUME NEW got \in {"error", "unservable"}, LoadFails(s, got)
      PROVE  /\ UNCHANGED <<slot, servedTo, blacklist>>
             /\ Grown(table, table') /\ Grown(skipped, skipped')
             /\ s \in work.todo /\ work' = [work EXCEPT !.todo = @ \ {s}]
             /\ \/ work.kind = "daily" /\ prog' = prog
                \/ work.kind \in OfAWeek /\ \E g \in Results : Records(s, g) /\ Served(s, g)
  <2>1. /\ s \in work.todo /\ Gone(s) /\ UNCHANGED <<slot, servedTo, blacklist, skipped>>
        /\ Stores(s, VendorServes(s)) \/ UNCHANGED table
    BY <1>6 DEF LoadFails
  <2>2. work.kind = "daily" => prog' = prog  BY <1>6 DEF LoadFails
  <2>3. work.kind # "daily" => Records(s, got) /\ Served(s, got)
    BY <1>6, <2>1 DEF LoadFails, RecordWeek, Records, Gone, Served
  <2>4. Grown(table, table')
    <3>1. CASE Stores(s, VendorServes(s))
      <4>1. table' = [table EXCEPT ![s] = @ \cup VendorServes(s)]  BY <3>1 DEF Stores
      <4> QED  BY <1>3, <4>1 DEF PassOK
    <3> QED  BY <1>7, <2>1, <3>1
  <2> QED  BY <1>1, <1>7, <2>1, <2>2, <2>3, <2>4 DEF Gone, Results
<1> QED  BY <1>4, <1>5, <1>6 DEF Loads

\* A week the vendor has and gave has no holes left.
LEMMA ServedWhole ==
    ASSUME PassOK, NEW w \in Weeks, NEW s \in Members, work.kind \in OfAWeek, work.at = w,
           Monday(w) + 4 <= servedTo, VendorServes(s) \subseteq table'[s] \cup skipped'[s]
    PROVE  Holes(s, w)' = {}
<1>1. \A d \in WeekDays(w) : d \in Int /\ d <= servedTo
  <2>1. Monday(w) \in Int /\ servedTo \in Int  BY SipBounds DEF Monday, PassOK
  <2> QED  BY <2>1 DEF WeekDays
<1>2. PassWindow = WeekDays(w)  BY DEF PassWindow, OfAWeek
<1>3. \A d \in WeekDays(w) : Exists(s, d) => d \in table'[s] \cup skipped'[s]
  BY <1>1, <1>2 DEF VendorServes
<1> QED  BY <1>3 DEF Missing, Holes

LEMMA SymbolStep ==
    ASSUME PassOK, NEW s \in Members, Loads(s)
    PROVE  /\ PassOK' /\ \A w \in Weeks : prog'[w].settled = prog[w].settled
           /\ ListsInv => ListsInv'
           /\ SettleInv => SettleInv'
<1>0. /\ UNCHANGED <<slot, servedTo, blacklist>>
      /\ table' \in [Members -> SUBSET Int] /\ \A t \in Members : table[t] \subseteq table'[t]
      /\ skipped' \in [Members -> SUBSET Int] /\ \A t \in Members : skipped[t] \subseteq skipped'[t]
      /\ s \in work.todo /\ work' = [work EXCEPT !.todo = @ \ {s}]
  BY SymbolIs DEF Grown
<1>1. /\ work' \in Passes /\ work'.kind = work.kind /\ work'.at = work.at
      /\ work'.todo = work.todo \ {s}
  BY <1>0 DEF PassOK, Passes
<1>2. prog' \in [Weeks -> Progress] => PassOK'  BY <1>0, <1>1 DEF PassOK
<1>3. \A w : /\ BlockedFor(w)' = BlockedFor(w)
             /\ \A t \in Members : Holes(t, w)' \subseteq Holes(t, w)
  BY <1>0 DEF BlockedFor, Unserved, Missing, Holes
<1>4. \A w : ForWeek(w) \subseteq Members  BY DEF ForWeek, ForRange
<1>5. CASE work.kind = "daily" /\ prog' = prog
  <2>1. PassOK'  BY <1>2, <1>5 DEF PassOK
  <2>2. ListsInv => ListsInv'
    BY <1>1, <1>3, <1>5, <2>1 DEF ListsInv, Listed, Failed
  <2>3. SettleInv => SettleInv'
    <3>1. \A w : ~Settling(w)'  BY <1>1, <1>5 DEF Settling
    <3>2. \A w \in Weeks : prog[w].added \subseteq Members  BY DEF PassOK, Progress
    <3> QED  BY <1>0, <1>3, <1>5, <2>1, <3>1, <3>2 DEF SettleInv
  <2> QED  BY <1>5, <2>1, <2>2, <2>3
<1>6. ASSUME work.kind \in OfAWeek, NEW got \in Results, Records(s, got), Served(s, got)
      PROVE  /\ PassOK' /\ \A w \in Weeks : prog'[w].settled = prog[w].settled
             /\ ListsInv => ListsInv'
             /\ SettleInv => SettleInv'
  <2>0. PICK at \in Int : at = work.at  BY <1>1 DEF PassOK, Passes
  <2>10. PICK r : r = RecordResult(prog[at], s, got)  OBVIOUS
  <2>1. ASSUME at \in Weeks
        PROVE  /\ r \in Progress
               /\ r.done  = IF got = "rows" THEN prog[at].done \cup {s} ELSE prog[at].done
               /\ r.empty = IF got = "empty" THEN prog[at].empty \cup {s} ELSE prog[at].empty
               /\ r.added = IF got = "added" THEN prog[at].added \cup {s} ELSE prog[at].added
               /\ r.failed[s] = IF got \in {"error", "unservable"} THEN got ELSE "none"
               /\ \A t \in Members \ {s} : r.failed[t] = prog[at].failed[t]
               /\ r.finished = prog[at].finished /\ r.settled = prog[at].settled
    <3>1. prog[at] \in Progress  BY <2>1 DEF PassOK
    <3>2. PutOn(r, prog[at], s, got)  BY <1>6, <2>10, <3>1, Recorded
    <3> QED  BY <3>2 DEF PutOn
  <2>2. prog' = [prog EXCEPT ![at] = r]  BY <1>6, <2>0, <2>10 DEF Records
  <2>3. prog' \in [Weeks -> Progress] /\ \A w \in Weeks : prog'[w] = IF w = at THEN r ELSE prog[w]
    BY <2>1, <2>2 DEF PassOK
  <2>4. PassOK' /\ \A w \in Weeks : prog'[w].settled = prog[w].settled /\ prog'[w].finished = prog[w].finished
    BY <1>2, <2>1, <2>3
  <2>5. s \in ForWeek(at)  BY <1>0, <1>6, <2>0 DEF PassOK
  <2>6. ASSUME NEW w \in Weeks
        PROVE  /\ Listed(prog[w]) \subseteq Listed(prog[w])'
               /\ w = at => s \in Listed(prog[w])'
    <3>1. CASE w # at  BY <2>3, <3>1 DEF Listed, Failed
    <3>2. CASE w = at
      <4>1. prog'[w] = r  BY <2>3, <3>2
      <4>2. s \in Listed(r)
        BY <2>1, <3>2 DEF Listed, Failed, Results
      <4>3. \A t \in Listed(prog[w]) : t # s => t \in Listed(r)
        BY <2>1, <3>2 DEF Listed, Failed
      <4> QED  BY <4>1, <4>2, <4>3, <3>2
    <3> QED  BY <3>1, <3>2
  <2>7. ASSUME ListsInv  PROVE ListsInv'
    <3> SUFFICES ASSUME NEW w \in Weeks, NEW t \in ForWeek(w),
                        (prog[w].finished \/ (work.kind = "load" /\ work.at = w))'
                 PROVE  (\/ t \in Listed(prog[w]) \/ t \in BlockedFor(w)
                         \/ ~prog[w].finished /\ t \in work.todo)'
      BY <2>4 DEF ListsInv
    <3>1. \/ t \in Listed(prog[w]) \/ t \in BlockedFor(w)
          \/ ~prog[w].finished /\ t \in work.todo /\ w = at
      BY <1>1, <2>0, <2>4, <2>7 DEF ListsInv
    <3> QED  BY <1>1, <1>3, <2>4, <2>6, <3>1
  <2>8. ASSUME SettleInv  PROVE SettleInv'
    <3>1. servedTo' >= slot' \div 4 - 1 - MaxLate  BY <1>0, <2>8 DEF SettleInv
    <3>2. ASSUME NEW w \in Weeks, w # at
          PROVE  /\ (prog[w].done \cup prog[w].added \subseteq ForWeek(w))'
                 /\ (\A t \in prog[w].added : Holes(t, w) = {})' /\ ~Settling(w)'
      <4>1. prog[w].added \subseteq Members  BY DEF PassOK, Progress
      <4> QED  BY <1>1, <1>3, <2>0, <2>3, <2>8, <3>2, <4>1 DEF SettleInv, Settling
    <3>3. ASSUME at \in Weeks
          PROVE  /\ (prog[at].done \cup prog[at].added \subseteq ForWeek(at))'
                 /\ (\A t \in prog[at].added : Holes(t, at) = {})'
                 /\ Settling(at)' =>
                      /\ Monday(at) + 4 <= servedTo'
                      /\ (\A t \in prog[at].done \ (prog[at].empty \cup BlockedFor(at)) :
                             t \in work.todo \/ Whole(t, at))'
      <4>1. prog'[at] = r  BY <2>3, <3>3
      <4>2. r.done \cup r.added \subseteq ForWeek(at)  BY <2>1, <2>5, <2>8, <3>3 DEF SettleInv
      <4>3. Settling(at) => Monday(at) + 4 <= servedTo  BY <2>8, <3>3 DEF SettleInv
      <4>4. Settling(at) /\ got \in {"rows", "added"} => Holes(s, at)' = {}
        BY <1>6, <2>0, <3>3, <4>3, ServedWhole DEF Served, Settling
      <4>5. ASSUME NEW t \in r.added  PROVE Holes(t, at)' = {}
        <5>1. CASE t \in prog[at].added
          <6>1. t \in Members /\ Holes(t, at) = {}  BY <2>8, <3>3, <5>1 DEF SettleInv, PassOK, Progress
          <6> QED  BY <1>3, <4>1, <6>1
        <5>2. CASE t \notin prog[at].added
          <6>1. t = s /\ got = "added" /\ Settling(at)
            BY <1>6, <2>0, <2>1, <3>3, <4>5, <5>2 DEF Served, Settling
          <6> QED  BY <4>4, <6>1
        <5> QED  BY <5>1, <5>2
      <4>6. ASSUME Settling(at), NEW t \in r.done \ (r.empty \cup BlockedFor(at))
            PROVE  t \in work'.todo \/ r.failed[t] # "none" \/ Holes(t, at)' = {}
        <5>1. CASE t = s
          <6>1. got \in {"rows", "added"} \/ r.failed[s] # "none"
            BY <2>1, <3>3, <4>6, <5>1 DEF Results
          <6> QED  BY <4>4, <4>6, <5>1, <6>1
        <5>2. CASE t # s
          <6>1. t \in prog[at].done \ (prog[at].empty \cup BlockedFor(at))
            BY <2>1, <3>3, <4>6, <5>2
          <6>2. t \in work.todo \/ Whole(t, at)  BY <2>8, <3>3, <4>6, <6>1 DEF SettleInv
          <6>3. t \in Members  BY <3>3, <6>1 DEF PassOK, Progress
          <6> QED  BY <1>1, <1>3, <2>1, <3>3, <5>2, <6>2, <6>3 DEF Whole
        <5> QED  BY <5>1, <5>2
      <4>7. Settling(at)' <=> Settling(at)  BY <1>1 DEF Settling
      <4>8. servedTo' = servedTo /\ BlockedFor(at)' = BlockedFor(at)  BY <1>0, <1>1, <1>3
      <4> QED  BY <4>1, <4>2, <4>3, <4>5, <4>6, <4>7, <4>8 DEF Whole
    <3> QED  BY <2>4, <3>1, <3>2, <3>3 DEF SettleInv
  <2> QED  BY <2>4, <2>7, <2>8
<1> QED  BY <1>5, <1>6, SymbolIs

----------------------------------------------------------------------------
\* The end of a pass over a week.  The first one finishes the week, a settle pass settles it:
\* then nothing it was to find whole is left.
LEMMA FinishStep ==
    ASSUME PassOK, FinishWeek
    PROVE  /\ PassOK'
           /\ ListsInv => ListsInv'
           /\ SettleInv => SettleInv'
           /\ SettleInv => \A w \in Weeks : prog[w].settled = "no" /\ prog'[w].settled = "pass" =>
                 \A s \in (prog[w].done \cup prog[w].added) \ (prog[w].empty \cup BlockedFor(w)) :
                     Whole(s, w)
<1>0. PICK at \in Int : at = work.at  BY DEF PassOK, Passes
<1>1. /\ work.kind \in OfAWeek /\ work.todo = {} /\ work' = Idle
      /\ UNCHANGED <<slot, servedTo, table, skipped>>
  BY DEF FinishWeek, OfAWeek
<1>2. /\ prog' \in [Weeks -> Progress]
      /\ \A w \in Weeks :
            /\ prog'[w].done = prog[w].done /\ prog'[w].empty = prog[w].empty
            /\ prog'[w].added = prog[w].added /\ prog'[w].failed = prog[w].failed
            /\ prog'[w].finished = (prog[w].finished \/ (work.kind = "load" /\ at = w))
            /\ prog'[w].settled = IF work.kind = "settle" /\ at = w THEN "pass" ELSE prog[w].settled
  <2> DEFINE p == [prog[at] EXCEPT !.settled = IF work.kind = "settle" THEN "pass" ELSE @,
                                   !.finished = @ \/ work.kind = "load"]
  <2>1. prog' = [prog EXCEPT ![at] = p]  BY <1>0 DEF FinishWeek
  <2>2. ASSUME at \in Weeks
        PROVE  /\ p \in Progress /\ p.done = prog[at].done /\ p.empty = prog[at].empty
               /\ p.added = prog[at].added /\ p.failed = prog[at].failed
               /\ p.finished = (prog[at].finished \/ work.kind = "load")
               /\ p.settled = IF work.kind = "settle" THEN "pass" ELSE prog[at].settled
    <3>1. prog[at] \in Progress  BY <2>2 DEF PassOK
    <3> QED  BY <3>1 DEF Progress
  <2> HIDE DEF p
  <2>3. \A w \in Weeks : prog'[w] = IF w = at THEN p ELSE prog[w]  BY <2>1 DEF PassOK
  <2>4. prog' \in [Weeks -> Progress]  BY <2>1, <2>2 DEF PassOK
  <2>5. \A w \in Weeks : prog[w].finished \in BOOLEAN  BY DEF PassOK, Progress
  <2> QED  BY <2>2, <2>3, <2>4, <2>5
<1>3. \A s \in Members : blacklist'[s] = blacklist[s] \/ blacklist'[s] = blacklist[s] \cup {at}
  BY <1>0 DEF FinishWeek, NoteWeek
<1>4. blacklist' \in [Members -> SUBSET Int] /\ \A s \in Members : IsFiniteSet(blacklist'[s])
  <2>1. blacklist' \in [Members -> SUBSET Int]
    BY <1>0 DEF FinishWeek, NoteWeek, PassOK
  <2>2. ASSUME NEW s \in Members  PROVE IsFiniteSet(blacklist'[s])
    <3>1. IsFiniteSet(blacklist[s])  BY <2>2 DEF PassOK
    <3>2. IsFiniteSet(blacklist[s] \cup {at})  BY <3>1, FS_AddElement
    <3> QED  BY <1>3, <2>2, <3>1, <3>2
  <2> QED  BY <2>1, <2>2
<1>5. PassOK'
  <2>1. Idle \in Passes /\ Idle.kind = "idle" /\ Idle.todo = {}  BY DEF Idle, Passes, OfAWeek
  <2> QED  BY <1>1, <1>2, <1>4, <2>1 DEF PassOK, OfAWeek
<1>6. \A w \in Weeks : /\ BlockedFor(w) \subseteq BlockedFor(w)' /\ Listed(prog[w])' = Listed(prog[w])
                       /\ \A s : Holes(s, w)' = Holes(s, w) /\ ~Settling(w)'
  <2>1. \A w \in Weeks : w \in Int  BY SipBounds
  <2>2. \A w \in Weeks : BlockedFor(w) \subseteq BlockedFor(w)'  BY <1>3, <2>1, BlockedGrows
  <2> QED  BY <1>1, <1>2, <2>2 DEF Listed, Failed, Missing, Holes, Settling, Idle
<1>7. ASSUME ListsInv  PROVE ListsInv'
  <2> SUFFICES ASSUME NEW w \in Weeks, NEW s \in ForWeek(w),
                      (prog[w].finished \/ (work.kind = "load" /\ work.at = w))'
               PROVE  (s \in Listed(prog[w]) \/ s \in BlockedFor(w))'
    BY <1>5 DEF ListsInv
  <2>1. prog[w].finished \/ (work.kind = "load" /\ work.at = w)
    BY <1>0, <1>1, <1>2 DEF Idle
  <2> QED  BY <1>1, <1>6, <1>7, <2>1 DEF ListsInv
<1>8. ASSUME SettleInv  PROVE SettleInv'
  BY <1>1, <1>2, <1>5, <1>6, <1>8 DEF SettleInv
<1>9. ASSUME SettleInv, NEW w \in Weeks, prog[w].settled = "no", prog'[w].settled = "pass",
             NEW s \in (prog[w].done \cup prog[w].added) \ (prog[w].empty \cup BlockedFor(w))
      PROVE  Whole(s, w)
  <2>1. Settling(w)  BY <1>0, <1>2, <1>9 DEF Settling
  <2> QED  BY <1>1, <1>9, <2>1 DEF SettleInv, Whole
<1> QED  BY <1>5, <1>7, <1>8, <1>9

\* Merging the daily records puts every member of a week on a list.
LEMMA FinalizeStep ==
    ASSUME PassOK, FinalizeWeeks
    PROVE  /\ PassOK' /\ \A w \in Weeks : prog[w].settled = "no" => prog'[w].settled # "pass"
           /\ ListsInv => ListsInv'
           /\ SettleInv => SettleInv'
<1> DEFINE today == work.at
<1>1. UNCHANGED <<slot, servedTo, table, blacklist, skipped>> /\ work' = Idle  BY DEF FinalizeWeeks
<1>2. \A w \in Weeks : prog'[w] = prog[w] \/ prog'[w] = Finalized(w, today)
  BY DEF FinalizeWeeks
<1>3. ASSUME NEW w \in Weeks
      PROVE  /\ Finalized(w, today) \in Progress
             /\ ForWeek(w) \subseteq Listed(Finalized(w, today))
             /\ Finalized(w, today).added = prog[w].added
             /\ Finalized(w, today).done \subseteq prog[w].done \cup ForWeek(w)
             /\ prog[w].settled = "no" => Finalized(w, today).settled # "pass"
  <2> DEFINE p == prog[w]
             have == {s \in ForWeek(w) : Has(s, w, today)}
             lost == ForWeek(w) \ (have \cup p.done \cup p.empty)
             failed == [s \in Members |-> IF s \in have THEN "none"
                                          ELSE IF s \in lost /\ p.failed[s] = "none" THEN "error"
                                          ELSE p.failed[s]]
             x == Finalized(w, today)
  <2>1. p \in Progress  BY DEF PassOK
  <2>2. ForWeek(w) \subseteq Members /\ have \subseteq ForWeek(w)  BY DEF ForWeek, ForRange
  <2>3. Begun(p, w) \in {"no", "young", "old"}  BY BegunIs
  <2>4. failed \in [Members -> Verdicts]  BY <2>1 DEF Progress, Verdicts
  <2>5. x = [p EXCEPT !.done = @ \cup have, !.failed = failed, !.started = Begun(p, w),
                      !.finished = TRUE,
                      !.settled = IF @ = "no" /\ Monday(w) + 11 <= today THEN "daily" ELSE @]
    <3>1. p.failed = p.failed  OBVIOUS
    <3> QED  BY <2>1 DEF Finalized, Progress
  <2> HIDE DEF failed, have, x, p
  <2>6. /\ x \in Progress /\ x.done = p.done \cup have /\ x.failed = failed
        /\ x.empty = p.empty /\ x.added = p.added
        /\ p.settled = "no" => x.settled # "pass"
    BY <2>1, <2>2, <2>3, <2>4, <2>5 DEF Progress
  <2>7. ForWeek(w) \subseteq Listed(x)
    <3> SUFFICES ASSUME NEW s \in ForWeek(w), s \notin x.done \cup x.empty  PROVE s \in Failed(x)
      BY DEF Listed
    <3>1. s \in Members /\ s \notin have /\ s \in lost  BY <2>2, <2>6
    <3>2. failed[s] # "none"  BY <3>1 DEF failed
    <3> QED  BY <2>6, <3>1, <3>2 DEF Failed
  <2> QED  BY <2>2, <2>6, <2>7 DEF x, p
<1> HIDE DEF today
<1>4. prog' \in [Weeks -> Progress]
  <2>1. \A w \in Weeks : prog'[w] \in Progress  BY <1>2, <1>3 DEF PassOK
  <2>2. prog' = [w \in Weeks |-> prog'[w]]  BY DEF FinalizeWeeks
  <2> QED  BY <2>1, <2>2
<1>5. PassOK'
  <2>1. Idle \in Passes /\ Idle.kind = "idle" /\ Idle.todo = {}  BY DEF Idle, Passes, OfAWeek
  <2> QED  BY <1>1, <1>4, <2>1 DEF PassOK, OfAWeek
<1>6. \A w : /\ BlockedFor(w)' = BlockedFor(w) /\ ~Settling(w)'
             /\ \A s : Holes(s, w)' = Holes(s, w)
  BY <1>1 DEF BlockedFor, Unserved, Settling, Missing, Holes, Idle
<1>7. ASSUME ListsInv  PROVE ListsInv'
  <2> SUFFICES ASSUME NEW w \in Weeks, NEW s \in ForWeek(w), prog'[w].finished
               PROVE  (s \in Listed(prog[w]) \/ s \in BlockedFor(w))'
    BY <1>1, <1>5 DEF ListsInv, Idle
  <2>1. CASE prog'[w] = prog[w]
    BY <1>6, <1>7, <2>1 DEF ListsInv, Listed, Failed
  <2>2. CASE prog'[w] = Finalized(w, today)  BY <1>3, <2>2
  <2> QED  BY <1>2, <2>1, <2>2
<1>8. ASSUME SettleInv  PROVE SettleInv'
  <2>1. servedTo' >= slot' \div 4 - 1 - MaxLate  BY <1>1, <1>8 DEF SettleInv
  <2>2. ASSUME NEW w \in Weeks
        PROVE  /\ (prog[w].done \cup prog[w].added \subseteq ForWeek(w))'
               /\ (\A s \in prog[w].added : Holes(s, w) = {})'
    BY <1>2, <1>3, <1>6, <1>8 DEF SettleInv
  <2> QED  BY <1>5, <1>6, <2>1, <2>2 DEF SettleInv
<1>9. \A w \in Weeks : prog[w].settled = "no" => prog'[w].settled # "pass"  BY <1>2, <1>3
<1> QED  BY <1>5, <1>7, <1>8, <1>9

\* A pass cut short, the end of a daily pass, the vendor, the clock.
LEMMA OutsideStep ==
    ASSUME PassOK, CutShort \/ FinishDaily \/ VendorLoads \/ Tick \/ Late \/ UNCHANGED sipVars
    PROVE  /\ PassOK' /\ \A w \in Weeks : SameLists(w)
           /\ ListsInv => ListsInv'
           /\ SettleInv => SettleInv'
<1>0. slot \in Int /\ servedTo \in Int /\ MaxLate \in Int /\ work \in Passes
      /\ slot \in FirstSlot..FinalSlot
  BY SipBounds DEF PassOK
<1>1. UNCHANGED <<blacklist, prog, skipped>>
  BY DEF CutShort, FinishDaily, VendorLoads, Tick, Late, Later, sipVars, files
<1>7. table' \in [Members -> SUBSET Int] /\ \A t \in Members : table[t] \subseteq table'[t]
  <2>1. CASE CutShort
    <3>1. PICK symbols \in SUBSET work.todo : StillWrite(symbols)  BY <2>1 DEF CutShort
    <3>2. work.at \in Int  BY <1>0 DEF Passes
    <3>3. \A t : VendorServes(t) \in SUBSET Int
      BY <3>2 DEF VendorServes, PassWindow, WeekDays, Monday
    <3> QED  BY <3>1, <3>3 DEF StillWrite, PassOK
  <2>2. CASE ~CutShort
    <3>1. table' = table  BY <2>2 DEF FinishDaily, VendorLoads, Tick, Late, Later, sipVars
    <3> QED  BY <3>1 DEF PassOK
  <2> QED  BY <2>1, <2>2
<1>2. \/ work' = work
      \/ work' \in Passes /\ work'.kind \notin OfAWeek \cup {"daily"} /\ work'.todo = {}
  <2>1. Idle \in Passes /\ Idle.kind = "idle" /\ Idle.todo = {}  BY DEF Idle, Passes, OfAWeek
  <2>2. FinishDaily => /\ work' \in Passes /\ work'.kind = "finalize" /\ work'.todo = {}
    BY <1>0 DEF FinishDaily, Passes
  <2> QED  BY <2>1, <2>2 DEF CutShort, VendorLoads, Tick, Late, Later, sipVars, OfAWeek
<1>3. /\ servedTo' \in Int /\ servedTo' >= servedTo
      /\ slot' \in FirstSlot..FinalSlot
      /\ slot' = slot \/ servedTo' >= slot' \div 4 - 1 - MaxLate
  BY <1>0, SipBounds DEF CutShort, FinishDaily, VendorLoads, Tick, Late, Later, sipVars, files
<1>4. PassOK'  BY <1>0, <1>1, <1>2, <1>3, <1>7 DEF PassOK
<1>5. \A w \in Weeks : SameLists(w)  BY <1>1 DEF SameLists
<1>6. SettleInv => servedTo' >= slot' \div 4 - 1 - MaxLate
  <2> DEFINE day == slot \div 4
  <2>1. day \in Int /\ (slot' = slot => slot' \div 4 = day)  BY <1>0
  <2>2. SettleInv => servedTo >= day - 1 - MaxLate  BY DEF SettleInv
  <2> HIDE DEF day
  <2>3. CASE slot' = slot
    <3>1. SettleInv => servedTo' >= day - 1 - MaxLate  BY <1>0, <1>3, <2>1, <2>2
    <3> QED  BY <2>1, <2>3, <3>1
  <2>4. CASE servedTo' >= slot' \div 4 - 1 - MaxLate  BY <2>4
  <2> QED  BY <1>3, <2>3, <2>4
<1> QED  BY <1>0, <1>1, <1>2, <1>3, <1>4, <1>5, <1>6, <1>7, QuietPass

----------------------------------------------------------------------------
LEMMA SipStep ==
    ASSUME PassOK, [SipNext]_sipVars
    PROVE  /\ PassOK'
           /\ ListsInv => ListsInv'
           /\ MaxLate + 2 <= SettleLag /\ SettleInv => SettleInv'
           /\ SettleInv => \A w \in Weeks : prog[w].settled = "no" /\ prog'[w].settled = "pass" =>
                 \A s \in (prog[w].done \cup prog[w].added) \ (prog[w].empty \cup BlockedFor(w)) :
                     Whole(s, w)
<1>1. CASE Cycle \/ Deferred  BY <1>1, CycleStep DEF SameLists
<1>2. ASSUME NEW s \in Members, Loads(s)
      PROVE  /\ PassOK' /\ \A w \in Weeks : prog'[w].settled = prog[w].settled
             /\ ListsInv => ListsInv'
             /\ SettleInv => SettleInv'
  BY <1>2, SymbolStep
<1>3. CASE FinishWeek  BY <1>3, FinishStep
<1>4. CASE FinalizeWeeks  BY <1>4, FinalizeStep
<1>5. CASE CutShort \/ FinishDaily \/ VendorLoads \/ Tick \/ Late \/ UNCHANGED sipVars
  BY <1>5, OutsideStep DEF SameLists
<1>6. CASE \E s \in Members : Loads(s)  BY <1>2, <1>6
<1>7. Pass => FinishWeek \/ FinishDaily \/ FinalizeWeeks \/ \E s \in Members : Loads(s)
  <2>1. \A s : \A days \in SUBSET (VendorServes(s) \cap Overlooked) :
           VendorServes(s) \ days \in SUBSET VendorServes(s)
    OBVIOUS
  <2> QED  BY <2>1 DEF Pass, Loads
<1> QED  BY <1>1, <1>3, <1>4, <1>5, <1>6, <1>7 DEF SipNext

LEMMA SipStart == SipInit => ListsInv /\ SettleInv
<1> SUFFICES ASSUME SipInit PROVE ListsInv /\ SettleInv  OBVIOUS
<1>1. /\ slot = FirstSlot /\ servedTo = (FirstSlot \div 4) - 1 /\ work = Idle
      /\ table = [s \in Members |-> {}] /\ skipped = [s \in Members |-> {}]
      /\ blacklist = [s \in Members |-> {}]
      /\ prog = [w \in Weeks |-> Fresh]
  BY DEF SipInit
<1>2. /\ Fresh \in Progress /\ Fresh.done = {} /\ Fresh.added = {} /\ Fresh.finished = FALSE
  BY SipBounds DEF Fresh, Progress, Verdicts, Never
<1>3. Idle \in Passes /\ Idle.kind = "idle" /\ Idle.todo = {}  BY DEF Idle, Passes, OfAWeek
<1>4. PassOK
  <2>1. \A s \in Members : IsFiniteSet(blacklist[s])  BY <1>1, FS_EmptySet
  <2>2. /\ table \in [Members -> SUBSET Int] /\ blacklist \in [Members -> SUBSET Int]
        /\ skipped \in [Members -> SUBSET Int]
    BY <1>1
  <2>3. prog \in [Weeks -> Progress]  BY <1>1, <1>2
  <2>4. slot \in FirstSlot..FinalSlot /\ servedTo \in Int  BY <1>1, SipBounds
  <2> QED  BY <1>1, <1>3, <2>1, <2>2, <2>3, <2>4 DEF PassOK, OfAWeek
<1>5. \A w \in Weeks : prog[w] = Fresh  BY <1>1
<1>6. servedTo >= slot \div 4 - 1 - MaxLate  BY <1>1, SipBounds
<1>7. ListsInv  BY <1>1, <1>2, <1>3, <1>4, <1>5 DEF ListsInv
<1>8. SettleInv  BY <1>1, <1>2, <1>3, <1>4, <1>5, <1>6 DEF SettleInv, Settling
<1> QED  BY <1>7, <1>8

\* After the first pass over a week every member is on one of its lists or kept out, for
\* any tenures, holidays, delays of the vendor, faults and passes cut short (Progress.record
\* 299-312, finalize_weeks 696-702; the property AccountedFor).
THEOREM NobodyIsDropped == SipSpec => []AccountedFor
<1>1. SipInit => ListsInv  BY SipStart
<1>2. ListsInv /\ [SipNext]_sipVars => ListsInv'  BY SipStep DEF ListsInv
<1>3. ListsInv => AccountedFor  BY DEF ListsInv, AccountedFor, Listed
<1> QED  BY <1>1, <1>2, <1>3, PTL DEF SipSpec

\* A settle pass leaves no holes but those its lists admit and the days that a settle pass
\* itself passed over, if the vendor is never so late that a week falls due before its
\* Friday was loaded.  What earlier passes lost or passed over is there again (load_week
\* 511-512, 548-549, fetch_span 356-374, due_for_settle 327-335; the property
\* SettlePassMakesWhole).
THEOREM SettledIsWhole == ASSUME MaxLate + 2 <= SettleLag PROVE SipSpec => SettlePassMakesWhole
<1> DEFINE Settles ==
             \A w \in Weeks : prog[w].settled = "no" /\ prog'[w].settled = "pass" =>
                 \A s \in (prog[w].done \cup prog[w].added) \ (prog[w].empty \cup BlockedFor(w)) :
                     prog[w].failed[s] # "none" \/ Missing(s, w) \subseteq skipped[s]
<1>1. SipInit => SettleInv  BY SipStart
<1>2. SettleInv /\ [SipNext]_sipVars => SettleInv'  BY SipStep DEF SettleInv
<1>3. SettleInv /\ [SipNext]_sipVars => [Settles]_sipVars  BY SipStep DEF SettleInv, Whole, Holes
<1>4. SipSpec => [][Settles]_sipVars  BY <1>1, <1>2, <1>3, PTL DEF SipSpec
<1> QED  BY <1>4 DEF SettlePassMakesWhole

----------------------------------------------------------------------------
\* The walk through the economic calendar.
\* While no day fills a page, a walk never pages a day; what is newer than the day it has
\* come to is collected, once, and nothing else is.
Sparse == \A d \in 1..LastDay : events[d] < Page
Walked ==
    /\ walk.paging = 0 /\ walk.offset = 0 /\ walk.to \in 0..LastDay
    /\ \A r \in Rows : walk.got[r] = IF r[1] > walk.to /\ r[2] <= events[r[1]] THEN 1 ELSE 0
WalkType ==
    [to : Int, offset : Nat, paging : Int, requests : Nat, pc : {"walking", "done", "warned"},
     got : [Rows -> Nat]]
CalInv ==
    /\ events \in Calendar
    /\ Sparse => /\ walk \in WalkType
                 /\ walk.pc = "walking" => Walked
                 /\ walk.pc = "done" => Once

----------------------------------------------------------------------------
\* The events up to a day, and the order the vendor gives them in.
Order(to) == {p \in UpTo(to) \X UpTo(to) : Sooner(p[1], p[2])}
Place(to, r) == Cardinality({x \in UpTo(to) : Sooner(x, r)})

LEMMA RowsAre ==
    /\ IsFiniteSet(Rows)
    /\ \A r \in Rows : r[1] \in 1..LastDay /\ r[2] \in 1..PerDay /\ r[1] \in Int /\ r[2] \in Int
                       /\ r = <<r[1], r[2]>>
<1>1. IsFiniteSet(1..LastDay) /\ IsFiniteSet(1..PerDay)
  <2>1. LastDay \in Int /\ PerDay \in Int  BY CalendarBounds
  <2> QED  BY <2>1, FS_Interval
<1>2. IsFiniteSet((1..LastDay) \X (1..PerDay))  BY <1>1, FS_Product
<1> QED  BY <1>2, CalendarBounds DEF Rows

LEMMA PlacesOfEvents ==
    ASSUME NEW to
    PROVE  LET S == UpTo(to) n == Cardinality(UpTo(to)) IN
           /\ IsFiniteSet(S) /\ n \in Nat
           /\ \A r \in S : Place(to, r) \in 0 .. n - 1
           /\ \A x, r \in S : Sooner(x, r) => Place(to, x) < Place(to, r)
           /\ \A k \in 0 .. n - 1 : \E r \in S : Place(to, r) = k
<1> DEFINE S == UpTo(to)
           order == Order(to)
<1>1. S \in SUBSET Rows /\ IsFiniteSet(S)
  <2>1. S \in SUBSET Rows  BY DEF UpTo
  <2> HIDE DEF S
  <2>2. IsFiniteSet(S)  BY <2>1, RowsAre, FS_Subset
  <2> QED  BY <2>1, <2>2
<1>2. \A x, y \in S : <<x, y>> \in order <=> Sooner(x, y)  BY DEF Order
<1>3. \A t \in S : Cardinality(AheadOf(S, order, t)) = Place(to, t)
  <2> TAKE t \in S
  <2>1. AheadOf(S, order, t) = {x \in S : Sooner(x, t)}  BY <1>2 DEF AheadOf
  <2> QED  BY <2>1 DEF Place
<1> HIDE DEF S, order
<1>4. \A x \in S : <<x, x>> \notin order
  <2> TAKE x \in S
  <2>1. x[1] \in Int /\ x[2] \in Int  BY <1>1, RowsAre
  <2> QED  BY <1>2, <2>1 DEF Sooner
<1>5. \A x, y \in S : x # y => <<x, y>> \in order \/ <<y, x>> \in order
  <2> SUFFICES ASSUME NEW x \in S, NEW y \in S, x # y PROVE Sooner(x, y) \/ Sooner(y, x)
    BY <1>2
  <2>1. /\ x[1] \in Int /\ x[2] \in Int /\ y[1] \in Int /\ y[2] \in Int
        /\ x = <<x[1], x[2]>> /\ y = <<y[1], y[2]>>
    BY <1>1, RowsAre
  <2>2. x[1] # y[1] \/ x[2] # y[2]  BY <2>1
  <2> QED  BY <2>1, <2>2 DEF Sooner
<1>6. \A x, y, z \in S : <<x, y>> \in order /\ <<y, z>> \in order => <<x, z>> \in order
  <2> SUFFICES ASSUME NEW x \in S, NEW y \in S, NEW z \in S, Sooner(x, y), Sooner(y, z)
               PROVE  Sooner(x, z)
    BY <1>2
  <2>1. /\ x[1] \in Int /\ x[2] \in Int /\ y[1] \in Int /\ y[2] \in Int
        /\ z[1] \in Int /\ z[2] \in Int
    BY <1>1, RowsAre
  <2> QED  BY <2>1 DEF Sooner
<1>7. /\ Cardinality(S) \in Nat
      /\ \A t \in S : Cardinality(AheadOf(S, order, t)) \in 0 .. Cardinality(S) - 1
      /\ \A t, u \in S : <<t, u>> \in order =>
             Cardinality(AheadOf(S, order, t)) < Cardinality(AheadOf(S, order, u))
      /\ \A k \in 0 .. Cardinality(S) - 1 :
             \E t \in S : Cardinality(AheadOf(S, order, t)) = k
  BY <1>1, <1>4, <1>5, <1>6, PlacesInOrder
<1>8. /\ IsFiniteSet(S) /\ Cardinality(S) \in Nat
      /\ \A r \in S : Place(to, r) \in 0 .. Cardinality(S) - 1
      /\ \A x, r \in S : Sooner(x, r) => Place(to, x) < Place(to, r)
      /\ \A k \in 0 .. Cardinality(S) - 1 : \E r \in S : Place(to, r) = k
  BY <1>1, <1>2, <1>3, <1>7
<1> QED  BY <1>8 DEF S

\* A page is the first events up to the day, and with less than `Page` of them all there are.
LEMMA PageIs ==
    ASSUME NEW to
    PROVE  /\ Reply(to, 0) = {r \in UpTo(to) : Place(to, r) < Page}
           /\ Reply(to, 0) \in SUBSET Rows /\ IsFiniteSet(Reply(to, 0))
           /\ Cardinality(Reply(to, 0)) < Page => Reply(to, 0) = UpTo(to)
           /\ Cardinality(Reply(to, 0)) \in Nat
<1> DEFINE S == UpTo(to)
           n == Cardinality(S)
           page == Reply(to, 0)
<1>1. /\ IsFiniteSet(S) /\ n \in Nat
      /\ \A r \in S : Place(to, r) \in 0 .. n - 1
      /\ \A k \in 0 .. n - 1 : \E r \in S : Place(to, r) = k
  BY PlacesOfEvents
<1>2. Page \in Nat \ {0}  BY CalendarBounds
<1>3. page = {r \in S : Place(to, r) < Page}
  <2>1. page = {r \in S : Place(to, r) \in 0 .. 0 + Page - 1}  BY DEF Reply, Place
  <2>2. \A r \in S : Place(to, r) \in 0 .. 0 + Page - 1 <=> Place(to, r) < Page
    <3> HIDE DEF S, n
    <3> QED  BY <1>1, <1>2
  <2> HIDE DEF S, page
  <2> QED  BY <2>1, <2>2
<1>4. S \in SUBSET Rows  BY DEF UpTo
<1> HIDE DEF S, page
<1>5. page \in SUBSET S  BY <1>3
<1>6. IsFiniteSet(page) /\ Cardinality(page) \in Nat
  <2>1. IsFiniteSet(page)  BY <1>1, <1>5, FS_Subset
  <2> QED  BY <2>1, FS_CardinalityType
<1>7. ASSUME Cardinality(page) < Page PROVE page = S
  <2>1. CASE n <= Page
    <3> HIDE DEF n
    <3> QED  BY <1>1, <1>2, <1>3, <2>1
  <2>2. CASE n > Page
    <3> DEFINE K == 0 .. Page - 1
               f == [k \in K |-> CHOOSE r \in S : Place(to, r) = k]
    <3>1. \A k \in K : f[k] \in S /\ Place(to, f[k]) = k
      <4> TAKE k \in K
      <4>1. \E r \in S : Place(to, r) = k
        <5> HIDE DEF n
        <5> QED  BY <1>1, <1>2, <2>2
      <4> QED  BY <4>1
    <3>2. f \in [K -> page]
      <4>1. \A k \in K : f[k] \in page
        <5> HIDE DEF f
        <5> QED  BY <1>2, <1>3, <3>1
      <4> QED  BY <4>1
    <3>3. f \in Injection(K, page)
      <4> HIDE DEF f, K
      <4> QED  BY <3>1, <3>2 DEF Injection, IsInjective
    <3>4. Cardinality(K) = Page /\ Cardinality(K) \in Nat
      <4>1. 0 \in Int /\ Page - 1 \in Int  BY <1>2
      <4>2. Cardinality(K) = IF 0 > Page - 1 THEN 0 ELSE Page - 1 - 0 + 1  BY <4>1, FS_Interval
      <4> QED  BY <1>2, <4>2
    <3>5. Cardinality(K) <= Cardinality(page)
      <4> HIDE DEF f, K
      <4> QED  BY <1>6, <3>3, FS_Injection
    <3> QED  BY <1>2, <1>6, <1>7, <3>4, <3>5
  <2> QED  BY <1>1, <1>2, <2>1, <2>2
<1> QED  BY <1>3, <1>4, <1>5, <1>6, <1>7 DEF page, S

\* The days of a page.
LEMMA DaysOfPage ==
    ASSUME NEW page \in SUBSET Rows, page # {}, IsFiniteSet(page)
    PROVE  /\ \E r \in page : r[1] = OldestDay(page)
           /\ \A r \in page : OldestDay(page) <= r[1] /\ r[1] <= NewestDay(page)
           /\ OldestDay(page) \in 1..LastDay
<1> DEFINE days == {r[1] : r \in page}
<1>1. days \in SUBSET (1..LastDay) /\ days # {} /\ 1..LastDay \subseteq Nat  BY RowsAre, CalendarBounds
<1>2. days \in SUBSET Int /\ days \in SUBSET Nat  BY <1>1
<1>3. IsFiniteSet(days)
  <2>1. IsFiniteSet(1..LastDay)  BY CalendarBounds, FS_Interval
  <2> HIDE DEF days
  <2> QED  BY <1>1, <2>1, FS_Subset
<1>4. Max(days) \in days /\ \A y \in days : Max(days) >= y
  <2> HIDE DEF days
  <2> QED  BY <1>1, <1>2, <1>3, MaxOfFinite
<1>5. Min(days) \in days /\ \A y \in days : Min(days) <= y
  <2> HIDE DEF days
  <2>1. \E d \in days : \A y \in days : d <= y  BY <1>1, <1>2, LeastNat
  <2> QED  BY <2>1 DEF Min
<1>6. NewestDay(page) = Max(days) /\ OldestDay(page) = Min(days)  BY DEF NewestDay, OldestDay
<1>7. \A r \in page : Min(days) <= r[1] /\ r[1] <= Max(days)
  <2> TAKE r \in page
  <2>1. r[1] \in days  OBVIOUS
  <2>2. r[1] \in Int /\ Max(days) \in Int  BY <1>2, <1>4, <2>1
  <2>3. Min(days) <= r[1] /\ Max(days) >= r[1]  BY <1>4, <1>5, <2>1
  <2> HIDE DEF days
  <2> QED  BY <2>2, <2>3
<1>8. \E r \in page : r[1] = Min(days)  BY <1>5
<1> HIDE DEF days
<1> QED  BY <1>1, <1>5, <1>6, <1>7, <1>8

\* A page of one day holds no more than the day's events.
LEMMA OneDayIsShort ==
    ASSUME Sparse, events \in Calendar, NEW to, NEW page \in SUBSET UpTo(to), page # {},
           OldestDay(page) = NewestDay(page)
    PROVE  Cardinality(page) < Page
<1> DEFINE d == OldestDay(page)
           day == 1..events[d]
           f == [r \in page |-> r[2]]
<1>1. page \in SUBSET Rows /\ IsFiniteSet(page)
  <2>1. page \in SUBSET Rows  BY DEF UpTo
  <2> QED  BY <2>1, RowsAre, FS_Subset
<1>2. /\ d \in 1..LastDay /\ \A r \in page : d <= r[1] /\ r[1] <= d
  BY <1>1, DaysOfPage
<1>3. \A r \in page : r[1] = d /\ r[2] \in day /\ r = <<d, r[2]>>
  <2> TAKE r \in page
  <2>1. /\ r[1] \in Int /\ r[2] \in 1..PerDay /\ r[2] <= events[r[1]] /\ r = <<r[1], r[2]>>
        /\ d \in Int
    BY <1>1, <1>2, RowsAre DEF UpTo
  <2>2. r[1] = d  BY <1>2, <2>1
  <2> QED  BY <2>1, <2>2, CalendarBounds
<1>4. events[d] \in Nat /\ events[d] < Page  BY <1>2, CalendarBounds DEF Sparse, Calendar
<1> HIDE DEF d
<1>5. f \in Injection(page, day)
  <2>1. f \in [page -> day] /\ \A x, y \in page : f[x] = f[y] => x = y  BY <1>3
  <2> HIDE DEF f, day
  <2> QED  BY <2>1 DEF Injection, IsInjective
<1>6. IsFiniteSet(day) /\ Cardinality(day) = events[d]
  <2>1. /\ IsFiniteSet(day)
        /\ Cardinality(day) = IF 1 > events[d] THEN 0 ELSE events[d] - 1 + 1
    BY <1>4, FS_Interval
  <2> QED  BY <1>4, <2>1
<1>7. Cardinality(page) <= events[d]
  <2> HIDE DEF f, day
  <2> QED  BY <1>5, <1>6, FS_Injection
<1>8. Cardinality(page) \in Nat  BY <1>1, FS_CardinalityType
<1> QED  BY <1>4, <1>7, <1>8, CalendarBounds

----------------------------------------------------------------------------
LEMMA CalInitInv == CalInit => CalInv
<1> SUFFICES ASSUME CalInit PROVE CalInv  OBVIOUS
<1>1. walk = [to |-> LastDay, offset |-> 0, paging |-> 0, requests |-> 0,
              pc |-> "walking", got |-> [r \in Rows |-> 0]] /\ events \in Calendar
  BY DEF CalInit
<1>2. walk \in WalkType /\ walk.pc = "walking"  BY <1>1, CalendarBounds DEF WalkType
<1>3. walk.to = LastDay /\ walk.offset = 0 /\ walk.paging = 0 /\ \A r \in Rows : walk.got[r] = 0
  BY <1>1
<1>4. Walked
  <2>1. \A r \in Rows : ~(r[1] > LastDay)  BY RowsAre, CalendarBounds
  <2> QED  BY <1>3, <2>1, CalendarBounds DEF Walked
<1> QED  BY <1>1, <1>2, <1>4 DEF CalInv

LEMMA TurnKeeps == ASSUME CalInv, Turn PROVE CalInv'
<1> DEFINE page == Reply(walk.to, 0)
<1>1. events' = events /\ walk.pc = "walking"  BY DEF Turn
<1>2. SUFFICES ASSUME Sparse
               PROVE  /\ walk' \in WalkType
                      /\ walk'.pc = "walking" => Walked'
                      /\ walk'.pc = "done" => Once'
  BY <1>1 DEF CalInv, Sparse
<1>3. walk \in WalkType /\ Walked /\ events \in Calendar  BY <1>1, <1>2 DEF CalInv
<1>4. EmptyPage(page) \/ ShortPage(page) \/ DayPage(page) \/ FullPage(page)
  <2>1. walk.offset = 0  BY <1>3 DEF Walked
  <2> QED  BY <2>1 DEF Turn
<1>5. /\ page = {r \in UpTo(walk.to) : Place(walk.to, r) < Page}
      /\ page \in SUBSET Rows /\ IsFiniteSet(page)
      /\ Cardinality(page) < Page => page = UpTo(walk.to)
      /\ Cardinality(page) \in Nat
  BY PageIs
<1>6. \A r \in Rows : /\ walk.got[r] = IF r[1] > walk.to /\ r[2] <= events[r[1]] THEN 1 ELSE 0
                      /\ r \in UpTo(walk.to) <=> r[1] <= walk.to /\ r[2] <= events[r[1]]
                      /\ r[1] \in Int /\ walk.to \in Int /\ walk.to >= 0
                      /\ walk.got[r] \in Nat
  BY <1>3, RowsAre, CalendarBounds DEF Walked, UpTo
<1>7. \A S : Collect(S) \in [Rows -> Nat]
  BY <1>6 DEF Collect
<1> HIDE DEF page
<1>8. walk.requests + 1 \in Nat /\ walk.paging = 0 /\ walk.offset = 0  BY <1>3 DEF WalkType, Walked
<1>9. CASE EmptyPage(page)
  <2>1. page = {} /\ walk' = [walk EXCEPT !.pc = "done", !.requests = @ + 1]
    BY <1>9 DEF EmptyPage
  <2>2. walk' \in WalkType /\ walk'.pc = "done" /\ walk'.got = walk.got
    BY <1>3, <1>8, <2>1 DEF WalkType
  <2>3. UpTo(walk.to) = {}
    <3>1. Cardinality(page) = 0  BY <2>1, FS_EmptySet
    <3> QED  BY <1>5, <2>1, <3>1, CalendarBounds
  <2>4. Once  BY <1>6, <2>3 DEF Once
  <2> QED  BY <1>1, <2>2, <2>4 DEF Once
<1>10. CASE ShortPage(page)
  <2>1. Cardinality(page) < Page /\
        walk' = [walk EXCEPT !.got = Collect(page), !.requests = @ + 1, !.offset = 0,
                    !.paging = 0, !.to = walk.to, !.pc = "done"]
    BY <1>8, <1>10 DEF ShortPage
  <2>2. walk' \in WalkType /\ walk'.pc = "done" /\ walk'.got = Collect(page)
    <3>1. Collect(page) \in [Rows -> Nat]  BY <1>7
    <3> HIDE DEF Collect
    <3> QED  BY <1>3, <1>8, <2>1, <3>1 DEF WalkType
  <2>3. \A r \in Rows : Collect(page)[r] = IF r[2] <= events[r[1]] THEN 1 ELSE 0
    <3> TAKE r \in Rows
    <3>1. Collect(page)[r] = walk.got[r] + (IF r \in UpTo(walk.to) THEN 1 ELSE 0)
      BY <1>5, <2>1 DEF Collect
    <3> QED  BY <1>6, <3>1
  <2> QED  BY <1>1, <2>2, <2>3 DEF Once
<1>11. CASE DayPage(page)
  <2>1. Cardinality(page) = Page /\ OldestDay(page) = NewestDay(page)  BY <1>11 DEF DayPage
  <2>2. page # {}
    <3>1. page = {} => Cardinality(page) = 0  BY FS_EmptySet
    <3> QED  BY <2>1, <3>1, CalendarBounds
  <2>3. Cardinality(page) < Page
    <3>1. page \in SUBSET UpTo(walk.to)  BY <1>5
    <3> QED  BY <1>2, <1>3, <2>1, <2>2, <3>1, OneDayIsShort
  <2> QED  BY <2>1, <2>3, CalendarBounds
<1>12. CASE FullPage(page)
  <2> DEFINE d == OldestDay(page)
             newer == {r \in page : r[1] > d}
  <2>1. /\ Cardinality(page) = Page
        /\ walk' = [walk EXCEPT !.got = Collect(newer), !.requests = @ + 1, !.offset = 0,
                       !.to = d, !.paging = 0]
    BY <1>12 DEF FullPage
  <2>2. page # {}
    <3>1. page = {} => Cardinality(page) = 0  BY FS_EmptySet
    <3> QED  BY <2>1, <3>1, CalendarBounds
  <2>3. d \in 1..LastDay /\ \E r \in page : r[1] = d  BY <1>5, <2>2, DaysOfPage
  <2>4. PICK last \in page : last[1] = d  BY <2>3
  <2> HIDE DEF d
  <2>5. d \in Int /\ d >= 1 /\ d <= LastDay /\ d <= walk.to
    <3>1. last \in Rows /\ last \in UpTo(walk.to)  BY <1>5, <2>4
    <3> QED  BY <1>6, <2>3, <2>4, <3>1, CalendarBounds
  <2>6. \A r \in Rows : r \in newer <=> r[1] > d /\ r[1] <= walk.to /\ r[2] <= events[r[1]]
    <3> TAKE r \in Rows
    <3>1. r \in newer => r[1] > d /\ r[1] <= walk.to /\ r[2] <= events[r[1]]
      BY <1>5, <1>6
    <3>2. ASSUME r[1] > d, r[1] <= walk.to, r[2] <= events[r[1]] PROVE r \in newer
      <4>1. r \in UpTo(walk.to) /\ last \in UpTo(walk.to) /\ Place(walk.to, last) < Page
        BY <1>5, <1>6, <2>4, <3>2
      <4>2. Sooner(r, last)  BY <2>4, <3>2 DEF Sooner
      <4>3. /\ Place(walk.to, r) < Place(walk.to, last)
            /\ Place(walk.to, r) \in Int /\ Place(walk.to, last) \in Int
        <5> DEFINE n == Cardinality(UpTo(walk.to))
        <5>1. /\ n \in Nat /\ \A x \in UpTo(walk.to) : Place(walk.to, x) \in 0 .. n - 1
              /\ \A x, y \in UpTo(walk.to) : Sooner(x, y) => Place(walk.to, x) < Place(walk.to, y)
          BY PlacesOfEvents
        <5> QED  BY <4>1, <4>2, <5>1
      <4>4. Place(walk.to, r) < Page  BY <4>1, <4>3, CalendarBounds
      <4> QED  BY <1>5, <3>2, <4>1, <4>4
    <3> QED  BY <3>1, <3>2
  <2> HIDE DEF newer
  <2>7. Collect(newer) \in [Rows -> Nat]  BY <1>7
  <2>8. \A r \in Rows : Collect(newer)[r] = IF r[1] > d /\ r[2] <= events[r[1]] THEN 1 ELSE 0
    <3> TAKE r \in Rows
    <3>1. Collect(newer)[r] = walk.got[r] + (IF r \in newer THEN 1 ELSE 0)  BY DEF Collect
    <3> QED  BY <1>6, <2>5, <2>6, <3>1
  <2> HIDE DEF Collect
  <2>9. /\ walk' \in WalkType /\ walk'.pc = "walking" /\ walk'.got = Collect(newer)
        /\ walk'.to = d /\ walk'.offset = 0 /\ walk'.paging = 0
    BY <1>1, <1>3, <1>8, <2>1, <2>5, <2>7 DEF WalkType
  <2>10. d \in 0..LastDay  BY <2>5, CalendarBounds
  <2> QED  BY <1>1, <2>8, <2>9, <2>10 DEF Walked
<1> QED  BY <1>4, <1>9, <1>10, <1>11, <1>12

LEMMA CalNextInv == CalInv /\ [CalNext]_calVars => CalInv'
<1> SUFFICES ASSUME CalInv, [CalNext]_calVars PROVE CalInv'  OBVIOUS
<1>1. CASE Turn  BY <1>1, TurnKeeps
<1>2. CASE Ceiling
  <2>1. events' = events /\ walk' = [walk EXCEPT !.pc = "warned"]  BY <1>2 DEF Ceiling
  <2>2. walk \in WalkType => walk' \in WalkType /\ walk'.pc = "warned"  BY <2>1 DEF WalkType
  <2> QED  BY <2>1, <2>2 DEF CalInv, Sparse
<1>3. CASE UNCHANGED calVars
  BY <1>3 DEF CalInv, Sparse, Walked, Once, calVars
<1> QED  BY <1>1, <1>2, <1>3 DEF CalNext

\* Whatever the calendar of the vendor, as long as none of its days fills a page: a walk that
\* ends has every event of the range, and has it once (calendar.py 398-405, 469-474).
THEOREM WalksJoinExactly == CalSpec => []JoinIsExact
<1>1. CalInv => JoinIsExact  BY DEF CalInv, JoinIsExact, Sparse
<1> QED  BY <1>1, CalInitInv, CalNextInv, PTL DEF CalSpec
=============================================================================
