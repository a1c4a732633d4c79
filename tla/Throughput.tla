----------------------------- MODULE Throughput -----------------------------
(***************************************************************************)
(* The throughput chart (AnalyticsService.GetThroughput): MySQL counts the *)
(* completions of the last Window seconds by bucket, on its own clock, and *)
(* afterwards Go lays out the last bucketCount buckets, on its clock, and  *)
(* fills the gaps with zeros.  Buckets are keyed by Unix seconds.          *)
(*                                                                         *)
(* Time is counted in whole seconds, as NOW() and Unix() do.  A task gets  *)
(* its completed_at from the clock of its backend (CompleteTask writes     *)
(* time.Now()) before its UPDATE is committed.  All backends read the      *)
(* same clock, and MySQL's session has the time zone of the backends.      *)
(*                                                                         *)
(* Abstractions.  The averages are left out; the rows of other statuses    *)
(* and clients do not take part.                                           *)
(***************************************************************************)
EXTENDS Integers, FiniteSets

CONSTANTS
    bucketSeconds,  \* 10 in the code
    bucketCount,    \* 30 in the code
    Window,         \* seconds, the INTERVAL of the WHERE: 300 in the code
    Skew,           \* assumption: seconds by which MySQL's clock may differ
    MaxTime,        \* bound: the last second of a behaviour
    Finished        \* the tasks that complete

ASSUME ThroughputAssumption ==
    /\ bucketSeconds \in Nat \ {0}
    /\ bucketCount \in Nat \ {0}
    /\ Window \in Nat /\ Skew \in Nat /\ MaxTime \in Nat
    /\ bucketCount * bucketSeconds + Skew <= Window + 1

VARIABLES
    clock,   \* time.Now().Unix()
    stamp,   \* completed task -> its completed_at
    rows,    \* the tasks whose UPDATE is committed
    chart    \* the request for the chart

chartVars == <<clock, stamp, rows, chart>>

BucketOf(second) == (second \div bucketSeconds) * bucketSeconds

ThroughputInit ==
    /\ clock = 0
    /\ stamp = [t \in {} |-> 0]
    /\ rows = {}
    /\ chart = [pc |-> "idle"]

-----------------------------------------------------------------------------
Clock ==
    /\ clock < MaxTime
    /\ clock' = clock + 1
    /\ UNCHANGED <<stamp, rows, chart>>

(* CompleteTask: now := time.Now() ... *)
TakeTime(t) ==
    /\ t \notin DOMAIN stamp
    /\ stamp' = [u \in DOMAIN stamp \cup {t} |-> IF u = t THEN clock ELSE stamp[u]]
    /\ UNCHANGED <<clock, rows, chart>>

(* ... and the UPDATE that writes it. *)
Write(t) ==
    /\ t \in DOMAIN stamp \ rows
    /\ rows' = rows \cup {t}
    /\ UNCHANGED <<clock, stamp, chart>>

(* WHERE completed_at >= NOW() - INTERVAL 300 SECOND *)
Recent(now) == {t \in rows : stamp[t] >= now - Window}

CountIn(ts, b) == Cardinality({t \in ts : BucketOf(stamp[t]) = b})

(* The SELECT ... GROUP BY bucket_unix.  before is history: the rows that  *)
(* were committed at that moment.                                          *)
SelectBuckets ==
    /\ chart.pc = "idle"
    /\ \E now \in (clock - Skew)..(clock + Skew) :
         chart' = [pc       |-> "selected",
                   byBucket |-> [b \in {BucketOf(stamp[t]) : t \in Recent(now)} |->
                                   CountIn(Recent(now), b)],
                   before   |-> rows]
    /\ UNCHANGED <<clock, stamp, rows>>

\* mutant: for i := bucketCount; i >= 0; i--
LastBucketsAndOne(now) == {BucketOf(now) - i * bucketSeconds : i \in 0..bucketCount}

LastBuckets(now) == {BucketOf(now) - i * bucketSeconds : i \in 0..(bucketCount - 1)}

(* The zero-filled timeline that ends at "now". *)
FillBuckets ==
    /\ chart.pc = "selected"
    /\ chart' = [pc     |-> "drawn",
                 points |-> [b \in LastBuckets(clock) |->
                               IF b \in DOMAIN chart.byBucket THEN chart.byBucket[b] ELSE 0],
                 before |-> chart.before]
    /\ UNCHANGED <<clock, stamp, rows>>

ThroughputNext ==
    \/ Clock
    \/ \E t \in Finished : TakeTime(t) \/ Write(t)
    \/ SelectBuckets
    \/ FillBuckets

ThroughputSpec == ThroughputInit /\ [][ThroughputNext]_chartVars

-----------------------------------------------------------------------------
(* Every variable has its type. *)
ThroughputTypeOK ==
    /\ clock \in 0..MaxTime
    /\ DOMAIN stamp \subseteq Finished
    /\ \A t \in DOMAIN stamp : stamp[t] \in 0..clock
    /\ rows \subseteq DOMAIN stamp
    /\ chart.pc \in {"idle", "selected", "drawn"}
    /\ chart.pc # "idle" => chart.before \subseteq rows

(* "completions-over-time for the last 5 minutes" (GetThroughput): no      *)
(* bucket of the chart is cut.  Each shows all the tasks that completed in *)
(* it and were committed when the SELECT ran, although the rows are chosen *)
(* by MySQL's clock, to the second, and the buckets by Go's, later and     *)
(* rounded down, and although MySQL's clock may be Skew ahead or behind.   *)
(* Window and bucketCount leave room for a Skew of one second, which is    *)
(* what the last conjunct of ThroughputAssumption asks for.                *)
ChartIsComplete ==
    chart.pc = "drawn" =>
      \A b \in DOMAIN chart.points : chart.points[b] = CountIn(chart.before, b)
=============================================================================
