------------------------------ MODULE Metrics -------------------------------
(* What the monitor makes of the samples of its last window: the aggregate,   *)
(* and the evidence written from it (packages/monitoring/src/index.ts,        *)
(* apps/worker/src/monitor.ts). A metric no sample tells of is Unknown.       *)
EXTENDS Rates, SequencesExt

CONSTANTS
  Million,    \* parts per million
  MaxLatency, \* the largest p95_latency_ms and block_lag that evidence may state
  MaxLag

ASSUME MetricsAssumption == Million \in Nat \ {0} /\ MaxLatency \in Nat /\ MaxLag \in Nat

Of(samples, metric) == {samples[i][metric] : i \in DOMAIN samples} \ {Unknown}
Highest(values) == IF values = {} THEN Unknown ELSE Max(values)
Succeeded(samples) == Cardinality({i \in DOMAIN samples : samples[i].success})

ppm(numerator, denominator) == (numerator * Million) \div denominator

\* The value of rank ceil(percent / 100 * n) in sorted order: the least that so many of
\* the values do not exceed.
nearestRank(values, percent) ==
  LET rank == (percent * Cardinality(DOMAIN values) + 99) \div 100
      AtMost(v) == Cardinality({i \in DOMAIN values : values[i] <= v})
  IN  IF DOMAIN values = {} THEN Unknown ELSE Min({v \in Range(values) : AtMost(v) >= rank})

\* aggregateSamples; a failed probe has a latency too, but no blocks.
Latencies(samples) ==
  [i \in {j \in DOMAIN samples : samples[j].latency # Unknown} |-> samples[i].latency]
Aggregate(samples) ==
  [availability |-> ppm(Succeeded(samples), Len(samples)),
   errorRate |-> ppm(Len(samples) - Succeeded(samples), Len(samples)),
   p95 |-> nearestRank(Latencies(samples), 95),
   latestBlock |-> Highest(Of(samples, "target")),
   referenceBlock |-> Highest(Of(samples, "reference")),
   lagKnown |-> \E i \in DOMAIN samples : samples[i].reference # Unknown]

\* storeEvidenceArtifact: never a verdict, and the lag of the newest blocks seen.
Evidence(a) ==
  [AVAILABILITY |-> a.availability, P95_LATENCY |-> a.p95, ERROR_RATE |-> a.errorRate,
   BLOCK_LAG |-> IF a.lagKnown /\ a.latestBlock # Unknown /\ a.referenceBlock # Unknown
                 THEN (IF a.referenceBlock > a.latestBlock THEN a.referenceBlock - a.latestBlock ELSE 0)
                 ELSE Unknown]

\* The bounds of validateProbeEvidence, which throws beyond them and ends the cycle.
ValidEvidence(e) ==
  /\ e.AVAILABILITY \in 0..Million /\ e.ERROR_RATE \in 0..Million
  /\ e.P95_LATENCY \in (0..MaxLatency) \cup {Unknown}
  /\ e.BLOCK_LAG \in (0..MaxLag) \cup {Unknown}
=============================================================================
