------------------------------- MODULE Latency -------------------------------
(***************************************************************************)
(* The latency of an operation from the timed call to the CI gate: the     *)
(* log2x8 histogram (vayunx_profiler_sdk/histogram.py), its way to the     *)
(* service as the SDK's JSON or as an OTLP explicit-bucket histogram, the  *)
(* rows it is stored in, and the rules of profiler_service/gate.py.        *)
(*                                                                         *)
(* A histogram is the record of its exact figures and the bag of its       *)
(* buckets; the durations that went into it are kept beside it, as a       *)
(* history.  Times are whole nanoseconds, a percentage is a whole number.  *)
(* The copies in a bag are told apart, so that they can be counted.        *)
(***************************************************************************)
EXTENDS Integers, Sequences, FiniteSets, Bags, SequencesExt, FiniteSetsExt

CONSTANTS Durations,   \* the durations a call may take
          MaxRecords,  \* bound on the calls
          MaxRows,     \* bound on the rows one operation gets
          MinCalls     \* min_calls of the gate

ASSUME LatencyAssumption ==
  Durations \subseteq Nat /\ MaxRecords \in Nat /\ MaxRows \in Nat /\ MinCalls \in Nat \ {0}

VARIABLES hist,      \* the histogram of the operation in the program
          opStats,   \* the histograms of its OpStat rows
          held,      \* history: the bag of the durations in hist
          stored,    \* history: stored[k] is the bag of those behind the first k rows
          converted  \* history: some row came as OTLP

latencyVars == <<hist, opStats, held, stored, converted>>

Empty == [count |-> 0, sum |-> 0, min |-> 0, max |-> 0, buckets |-> EmptyBag]

One(x) == SetToBag({x})

Copies(bag) == UNION {{x} \X (1..bag[x]) : x \in BagToSet(bag)}
Size(bag) == Cardinality(Copies(bag))

-----------------------------------------------------------------------------
(* The buckets *)

BitLength(ns) == CHOOSE b \in 0..ns : ns < 2^b /\ (b = 0 \/ 2^(b - 1) <= ns)

BucketIndex(ns) ==
  IF ns < 8 THEN Max({0, ns})
  ELSE LET b == BitLength(ns) IN 8 + 8 * (b - 4) + ((ns \div 2^(b - 4)) % 8)

\* [lo, hi)
BucketBounds(i) ==
  IF i < 8 THEN <<i, i + 1>>
  ELSE LET k == (i - 8) \div 8   sub == (i - 8) % 8
       IN <<(8 + sub) * 2^k, (9 + sub) * 2^k>>

Recording(h, ns) ==
  [count |-> h.count + 1, sum |-> h.sum + ns,
   min |-> IF h.count = 0 THEN ns ELSE Min({h.min, ns}),
   max |-> IF h.count = 0 THEN ns ELSE Max({h.max, ns}),
   buckets |-> h.buckets (+) One(BucketIndex(ns))]

Merged(h, other) ==
  IF other.count = 0 THEN h
  ELSE [count |-> h.count + other.count, sum |-> h.sum + other.sum,
        min |-> IF h.count = 0 THEN other.min ELSE Min({h.min, other.min}),
        max |-> IF h.count = 0 THEN other.max ELSE Max({h.max, other.max}),
        buckets |-> h.buckets (+) other.buckets]

\* How many of a bag of numbers are at most i.
UpTo(bag, i) == Cardinality({c \in Copies(bag) : c[1] <= i})

Rank(q, n) == Max({1, (q * n + 99) \div 100})

\* The least element of a bag up to which there are that many.
AtRank(bag, rank) == Min({i \in BagToSet(bag) : UpTo(bag, i) >= rank})

WrongPercentile(h, q) ==   \* the lower edge of the bucket
  Min({h.max, Max({h.min, BucketBounds(AtRank(h.buckets, Rank(q, h.count)))[1]})})

Percentile(h, q) ==
  LET b == BucketBounds(AtRank(h.buckets, Rank(q, h.count)))
  IN Min({h.max, Max({h.min, (b[1] + b[2] - 1) \div 2})})

-----------------------------------------------------------------------------
(* The wire: (lo - 1, hi - 1] for each bucket, gaps filled with empty ones   *)

WithBucket(h, pairs, i) ==
  LET b == BucketBounds(i)
      gap == IF pairs = <<>> \/ Last(pairs).bound < b[1] - 1
             THEN <<[bound |-> b[1] - 1, n |-> 0]>> ELSE <<>>
  IN pairs \o gap \o <<[bound |-> b[2] - 1, n |-> h.buckets[i]]>>

\* sorted()
Ordered(S) ==
  [k \in 1..Cardinality(S) |-> CHOOSE i \in S : Cardinality({j \in S : j < i}) = k - 1]

ExplicitBuckets(h) ==
  LET order == Ordered(BagToSet(h.buckets))
      pairs[k \in 0..Len(order)] ==
        IF k = 0 THEN <<>> ELSE WithBucket(h, pairs[k - 1], order[k])
  IN pairs[Len(order)]

\* round(n / 2) of Python: halves go to the even neighbour.
HalfEven(n) == LET d == n \div 2 IN IF n % 2 = 1 /\ d % 2 = 1 THEN d + 1 ELSE d

\* _explicit_to_hist: each bucket goes where its midpoint is.
Landing(pairs, k) ==
  IF pairs[k].n = 0 THEN EmptyBag
  ELSE [i \in {BucketIndex(HalfEven(pairs[k - 1].bound + pairs[k].bound))} |-> pairs[k].n]

Received(pairs) ==
  LET bag[k \in 0..Len(pairs)] == IF k = 0 THEN EmptyBag ELSE bag[k - 1] (+) Landing(pairs, k)
  IN bag[Len(pairs)]

\* _store_histogram: sum, min and max come with the data point.
OverOTLP(h) ==
  LET bag == Received(ExplicitBuckets(h))
  IN [count |-> Size(bag), sum |-> h.sum, min |-> h.min, max |-> h.max, buckets |-> bag]

-----------------------------------------------------------------------------
(* The operation *)

LatencyInit ==
  hist = Empty /\ opStats = <<>> /\ held = EmptyBag /\ stored = <<>> /\ converted = FALSE

Stored == IF stored = <<>> THEN EmptyBag ELSE stored[Len(stored)]

RecordCall(ns) ==
  /\ Size(held) + Size(Stored) < MaxRecords
  /\ hist' = Recording(hist, ns)
  /\ held' = held (+) One(ns)
  /\ UNCHANGED <<opStats, stored, converted>>

\* An interval is over; an empty histogram is not sent.
Ship(row) ==
  /\ hist.count > 0 /\ Len(opStats) < MaxRows
  /\ opStats' = Append(opStats, row)
  /\ stored' = Append(stored, Stored (+) held)
  /\ hist' = Empty /\ held' = EmptyBag

\* The SDK's own format carries the buckets as they are.
ShipJSON == Ship(hist) /\ UNCHANGED converted
ShipOTLP == Ship(OverOTLP(hist)) /\ converted' = TRUE

LatencyNext == (\E ns \in Durations : RecordCall(ns)) \/ ShipJSON \/ ShipOTLP

LatencySpec == LatencyInit /\ [][LatencyNext]_latencyVars

-----------------------------------------------------------------------------
(* The gate *)

Quantiles == {50, 95, 99}
Operators == {"<", "<=", ">", ">="}
QuantileOf(stat) == CASE stat = "p50" -> 50 [] stat = "p95" -> 95 [] stat = "p99" -> 99

\* _histograms: the rows of the operation, one merged after the other.
Merging[k \in 0..Len(opStats)] == IF k = 0 THEN Empty ELSE Merged(Merging[k - 1], opStats[k])
Judged == Merging[Len(opStats)]

\* A measured figure is a fraction.
Figure(h, stat) ==
  CASE stat = "calls" -> <<h.count, 1>>
    [] stat = "mean"  -> <<h.sum, h.count>>
    [] stat = "max"   -> <<h.max, 1>>
    [] OTHER          -> <<Percentile(h, QuantileOf(stat)), 1>>

Holds(f, op, limit) ==
  CASE op = "<"  -> f[1] < limit * f[2]
    [] op = "<=" -> f[1] <= limit * f[2]
    [] op = ">"  -> f[1] > limit * f[2]
    [] op = ">=" -> f[1] >= limit * f[2]

TooFew(h, stat) == h.count = 0 \/ (stat # "calls" /\ h.count < MinCalls)

Check(h, rule) ==
  IF TooFew(h, rule.stat) THEN "no_data"
  ELSE IF Holds(Figure(h, rule.stat), rule.op, rule.limit) THEN "pass" ELSE "fail"

AbsDiff(a, b) == IF a < b THEN b - a ELSE a - b

\* abs(v - limit) / limit <= 0.0625, percentiles only
NearLimit(h, rule) ==
  /\ rule.stat \in {"p50", "p95", "p99"} /\ rule.limit > 0
  /\ 16 * AbsDiff(Figure(h, rule.stat)[1], rule.limit) <= rule.limit

-----------------------------------------------------------------------------
(* Properties *)

\* The nearest-rank percentile of the durations themselves.
Exact(bag, q) == AtRank(bag, Rank(q, Size(bag)))

\* So many copies of each number as its copies add up to.
Weighted(bag) == [ns \in BagToSet(bag) |-> ns * bag[ns]]
SumOf(bag) == Size(Weighted(bag))

\* The exact figures are exact, whatever was recorded, merged and sent.
FiguresExact(h, bag) ==
  /\ h.count = Size(bag) /\ h.count = Size(h.buckets) /\ h.sum = SumOf(bag)
  /\ h.count > 0 => h.min = Min(BagToSet(bag)) /\ h.max = Max(BagToSet(bag))

LatencyTypeOK == FiguresExact(hist, held) /\ FiguresExact(Judged, Stored)

Error(h, bag, q) == AbsDiff(Percentile(h, q), Exact(bag, q))

\* The precision the documentation gives (src/profiler_service/gate.py:11).
Precise(h, bag) == \A q \in Quantiles : 16 * Error(h, bag, q) <= Exact(bag, q)

\* A percentile is that of the calls themselves to within 6.25%, that of a
\* histogram as that of rows merged; after OTLP, to within a nanosecond if that
\* is more.
PercentilePrecise ==
  /\ hist.count > 0 => Precise(hist, held)
  /\ opStats # <<>> /\ ~converted => Precise(Judged, Stored)
ConvertedPrecise ==
  opStats # <<>> =>
    \A q \in Quantiles : 16 * Error(Judged, Stored, q) <= Exact(Stored, q) \/ Error(Judged, Stored, q) <= 1

\* The rule holds of the calls themselves, but not of the histogram, or the
\* other way round.
Turned(rule) ==
  Holds(<<Exact(Stored, QuantileOf(rule.stat)), 1>>, rule.op, rule.limit)
    # Holds(Figure(Judged, rule.stat), rule.op, rule.limit)

PercentileRules == [stat : {"p50", "p95", "p99"}, op : Operators, limit : Durations]

\* A verdict that is not that of the calls is no verdict, or it is marked, or
\* some row came as OTLP and the limit is within a nanosecond of the figure.
GateIsHonest ==
  opStats # <<>> =>
    \A rule \in PercentileRules :
      Turned(rule) => \/ Check(Judged, rule) = "no_data"
                      \/ NearLimit(Judged, rule)
                      \/ converted /\ AbsDiff(Figure(Judged, rule.stat)[1], rule.limit) <= 1

LatencyFaithful == PercentilePrecise /\ ConvertedPrecise /\ GateIsHonest

\* What is exact stays exact, percentiles and gate verdicts stay within the
\* documented precision from the call to the verdict; after OTLP, within a
\* nanosecond where that is more (below 16 ns).
LatencyExact == LatencyTypeOK /\ LatencyFaithful

\* "an OTLP explicit-bucket histogram whose bounds match those buckets exactly,
\* so the receiver reconstructs them without loss" (src/vayunx/_ship.py:6).
ReceivedWithoutLoss == hist.count > 0 => OverOTLP(hist) = hist

\* Not so after OTLP: "a measurement within that precision of the limit is
\* marked `near_limit`, so a pass by a hair is visible" (gate.py:12).
EveryHairMarked ==
  opStats # <<>> =>
    \A rule \in PercentileRules :
      Turned(rule) => Check(Judged, rule) = "no_data" \/ NearLimit(Judged, rule)
=============================================================================
