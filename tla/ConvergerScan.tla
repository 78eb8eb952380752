--------------------------- MODULE ConvergerScan ---------------------------
(***************************************************************************)
(* How one converger goes over the generations' keys                       *)
(* (service/platform_generation_converger.go).  Redis scans bucket by      *)
(* bucket and finishes the bucket in which it reaches the number asked     *)
(* for, so a page may hold more than that.  What is done for one record is *)
(* SingleGeneration's.  The keys stay the same: they live a day, a round   *)
(* takes seconds.                                                          *)
(***************************************************************************)
EXTENDS Naturals, FiniteSetsExt

CONSTANTS KeysIn,   \* the number of keys in each bucket, from 1 on
          MaxKeys   \* keys a pass looks at

ASSUME ScanAssumption == MaxKeys \in Nat \ {0} /\ \A b \in DOMAIN KeysIn : KeysIn[b] \in Nat

VARIABLES cursor,     \* the last bucket scanned, 0 between two rounds
          worker, closing,
          page,       \* records of the page not looked at yet
          processed,
          looked,     \* the record the last step looked at, 0 if none
          cut         \* the records a pass left when it was cut short, until the next one

scanVars == <<cursor, worker, closing, page, processed, looked, cut>>

Buckets == DOMAIN KeysIn
Total(S) == MapThenSumSet(LAMBDA b : KeysIn[b], S)

\* Records have numbers in the order in which a scan finds them.
Records == 1 .. Total(Buckets)
RecordsOf(b) == (Total(1 .. (b - 1)) + 1) .. Total(1 .. b)

ScanInit ==
    /\ cursor = 0 /\ worker = "new" /\ closing = FALSE /\ page = {} /\ processed = 0
    /\ looked = 0 /\ cut = {}

Starts ==
    /\ worker = "new" /\ ~closing /\ worker' = "waits"
    /\ UNCHANGED <<cursor, closing, page, processed, looked, cut>>

\* The first pass starts at once, others with the ticker.
PassStarts ==
    /\ worker = "waits" /\ ~closing
    /\ worker' = "scans" /\ processed' = 0 /\ looked' = 0 /\ cut' = {}
    /\ UNCHANGED <<cursor, closing, page>>

\* The bucket with which a scan for n keys ends.
ScanEnd(n) == Min({b \in Buckets : b > cursor /\ (Total((cursor + 1)..b) >= n \/ b = Max(Buckets))})

\* ScanGenerationKeys; the new cursor is kept before the page is looked at.
ScansPage ==
    LET end == ScanEnd(MaxKeys - processed) IN
    /\ worker = "scans" /\ ~closing
    /\ page' = UNION {RecordsOf(b) : b \in (cursor + 1)..end}
    /\ cursor' = IF end = Max(Buckets) THEN 0 ELSE end
    /\ worker' = "page" /\ looked' = 0
    /\ UNCHANGED <<closing, processed, cut>>

\* Mutant: after a benign error or a record in another's hands the pass returns instead of going on.
LooksAt_Returns ==
    /\ worker = "page" /\ page # {} /\ processed < MaxKeys /\ ~closing
    /\ looked' = Min(page) /\ page' = {} /\ processed' = processed + 1 /\ worker' = "waits"
    /\ UNCHANGED <<cursor, closing, cut>>

\* The next record is converged, fails benignly, or is in another's hands: the pass goes on to the next.
LooksAt ==
    /\ worker = "page" /\ page # {} /\ processed < MaxKeys /\ ~closing
    /\ looked' = Min(page) /\ page' = page \ {looked'} /\ processed' = processed + 1
    /\ UNCHANGED <<cursor, worker, closing, cut>>

\* The round or the limit ends the pass; what is left of the page waits for the next round.
PageEnds ==
    /\ worker = "page" /\ (page = {} \/ processed >= MaxKeys)
    /\ worker' = IF cursor = 0 \/ processed >= MaxKeys THEN "waits" ELSE "scans"
    /\ page' = {} /\ looked' = 0
    /\ UNCHANGED <<cursor, closing, processed, cut>>

\* The time budget is spent, Redis fails, or a record's error is not benign.
PassCut ==
    /\ worker \in {"scans", "page"}
    /\ worker' = "waits" /\ page' = {} /\ cut' = page /\ looked' = 0
    /\ UNCHANGED <<cursor, closing, processed>>

Closes == ~closing /\ closing' = TRUE /\ UNCHANGED <<cursor, worker, page, processed, looked, cut>>

WorkerStops ==
    /\ closing /\ worker # "stopped" /\ worker' = "stopped"
    /\ UNCHANGED <<cursor, closing, page, processed, looked, cut>>

ScanNext == Starts \/ PassStarts \/ ScansPage \/ LooksAt \/ PageEnds \/ PassCut \/ Closes \/ WorkerStops

\* A goroutine that can go on does; Redis answers in time again and again.
FairScanSpec ==
    /\ ScanInit /\ [][ScanNext]_scanVars
    /\ WF_scanVars(PassStarts) /\ WF_scanVars(LooksAt \/ PageEnds) /\ WF_scanVars(WorkerStops)
    /\ SF_scanVars(ScansPage)

----------------------------------------------------------------------------
(* Property *)

\* No scan returns more keys than it was asked for; what is over the limit is dropped in every round.
PagesFit == \A b \in Buckets : KeysIn[b] <= 1

\* As long as no page is longer than the limit, every record is looked at again and again until the worker is
\* closed, whatever the others do, except in rounds that cut a pass short with that very record still in the
\* page: a record that is slow or fails for good delays only those behind it in its own page, and one that
\* fails benignly or is in another's hands delays none (platform_generation_converger.go:164-208).
EveryRecordReached ==
    PagesFit => \A r \in Records : worker # "new" ~> looked = r \/ r \in cut \/ worker = "stopped"
=============================================================================
