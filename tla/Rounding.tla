------------------------------ MODULE Rounding ------------------------------
(* For whom the arithmetic rounds: premiums, fees and payouts of the contract *)
(* (Rates), the estimate of the purchase form (apps/web/components/           *)
(* purchase.tsx) and the measurements of the monitor (Metrics), over amounts, *)
(* durations, rates and windows of samples that grow by one at each step.     *)
EXTENDS Metrics

CONSTANTS
  Sample,    \* the kinds of samples there are, a sequence
  MaxAmount, MaxDuration, MaxRate, MaxSamples, \* bounds
  MaxBlock   \* bound on the block numbers of samples

\* A sample that has a reference has a block of its own, and is within what
\* evidence may state; the minimum of a premium is what the form takes it for.
ASSUME RoundingAssumption ==
  /\ MinPremium <= 1
  /\ Unknown \notin Int
  /\ MaxAmount \in Nat /\ MaxDuration \in Nat /\ MaxRate \in Nat
  /\ MaxSamples \in Nat /\ MaxBlock \in Nat
  /\ Sample \in Seq([success : BOOLEAN, latency : 0..MaxLatency,
                     target : (0..MaxBlock) \cup {Unknown},
                     reference : (0..MaxBlock) \cup {Unknown}])
  /\ \A s \in Range(Sample) :
       s.reference # Unknown =>
         s.target # Unknown /\ s.reference - s.target <= MaxLag

\* The most the purchase offers to pay; 1 is what the contract's minimum is.
OfferedPremium(limit, duration, bps) ==
  LET unit == BpsDenom * YearSeconds
      premium == (limit * bps * duration + unit - 1) \div unit
  IN  IF limit = 0 \/ duration = 0 THEN 0 ELSE IF premium = 0 THEN 1 ELSE premium

VARIABLES
  amount, duration, rate, \* of a purchase or a payout
  cut,                    \* the fee or the deductible, in parts of BpsDenom
  samples                 \* of a window, the kind of each

gridVars == <<amount, duration, rate, cut>>
roundingVars == <<gridVars, samples>>

\* Terms whose only clause, availability, the facts violate.
GridTerms ==
  [threshold |-> [k \in Clauses |-> IF k = "AVAILABILITY" THEN 1 ELSE 0],
   scope |-> "global", minIncident |-> 0, claimWindow |-> 1, minDuration |-> 1,
   maxDuration |-> 1, minAmount |-> 1, maxAmount |-> 1,
   premiumBps |-> 0, deductibleBps |-> cut,
   maxPayoutBps |-> IF rate > BpsDenom THEN BpsDenom ELSE rate]

GridFacts(fault) ==
  [status |-> "INCIDENT_CONFIRMED", fault |-> fault, scope |-> "eu", start |-> 0, end |-> 1,
   observed |-> [k \in Clauses |-> IF k = "AVAILABILITY" THEN 0 ELSE Unknown],
   chainFailure |-> FALSE, sufficiency |-> "SUFFICIENT"]

Paid(remaining, fault) == Payout(0, 1, remaining, remaining, GridTerms, GridFacts(fault))
Quote == Premium(amount, duration, rate)

Window == [i \in DOMAIN samples |-> Sample[samples[i]]]

GridOrigin == amount = 0 /\ duration = 1 /\ rate = 0 /\ cut = 0
RoundingInit == GridOrigin /\ samples = <<>>

GridStep ==
  /\ \/ amount < MaxAmount /\ amount' = amount + 1 /\ UNCHANGED <<duration, rate, cut>>
     \/ duration < MaxDuration /\ duration' = duration + 1 /\ UNCHANGED <<amount, rate, cut>>
     \/ rate < MaxRate /\ rate' = rate + 1 /\ UNCHANGED <<amount, duration, cut>>
     \/ cut < BpsDenom /\ cut' = cut + 1 /\ UNCHANGED <<amount, duration, rate>>
  /\ samples = <<>> /\ UNCHANGED samples
\* Only how many there are of each sample matters.
SampleStep ==
  /\ GridOrigin /\ UNCHANGED gridVars
  /\ Len(samples) < MaxSamples
  /\ \E n \in DOMAIN Sample :
       (\A i \in DOMAIN samples : samples[i] <= n) /\ samples' = Append(samples, n)

RoundingStep == GridStep \/ SampleStep
RoundingSpec == RoundingInit /\ [][RoundingStep]_roundingVars
-----------------------------------------------------------------------------

\* The premium is the least amount that is not below limit * rate * duration per
\* year, or the minimum; the fee is the least that is not below its share of the
\* premium, never more than all of it: no sequence of small purchases costs the
\* provider or the protocol its part by rounding.
PremiumRoundsUp ==
  /\ LET exact == amount * rate * duration
         unit == BpsDenom * YearSeconds
         least == CHOOSE n \in 0 .. exact : n * unit >= exact /\ (n = 0 \/ (n - 1) * unit < exact)
     IN  Quote = IF rate > 0 /\ least < MinPremium THEN MinPremium ELSE least
  /\ LET fee == FeeOf(amount, cut) IN
     /\ fee \in 0 .. amount
     /\ fee * BpsDenom >= amount * cut
     /\ fee > 0 => (fee - 1) * BpsDenom < amount * cut

\* A payout is never more than the pact's fraction of what remains, less the
\* whole deductible, and misses that by less than two units; a shared fault pays
\* half of what the provider's fault pays, rounded down.
PayoutRoundsDown ==
  LET paid == Paid(amount, "PROVIDER")
      \* What is exactly due, in units of 1 / BpsDenom^2.
      exact == amount * GridTerms.maxPayoutBps * (BpsDenom - cut)
      unit == BpsDenom * BpsDenom
  IN  /\ paid * unit <= exact
      /\ (paid + 2) * unit > exact
      /\ paid <= amount
      /\ 2 * Paid(amount, "SHARED") \in {paid - 1, paid}

\* What the purchase form offers to pay always covers the contract's premium, so
\* that no purchase fails for a rounding of the estimate.
OfferCovers == amount > 0 => OfferedPremium(amount, duration, rate) >= Quote

\* A clause violated by the monitor's evidence is violated by its samples: the
\* exact rate is beyond the threshold, more than 5 % of the answers were slower,
\* and some answer did lag as much. Within the bounds, the evidence is valid.
MeasuresNeverAccuse ==
  samples # <<>> =>
    LET evidence == Evidence(Aggregate(Window))
        Violated(k, limit) == MatchedClauses(
          [threshold |-> [c \in Clauses |-> IF c = k THEN limit ELSE 0]], [observed |-> evidence]) # {}
        good == Succeeded(Window)
        bad == Len(samples) - good
        Slower(limit) == Cardinality({i \in DOMAIN samples : Window[i].latency > limit})
    IN  /\ \A limit \in 1..Million :
             /\ Violated("AVAILABILITY", limit) <=> good * Million < limit * Len(samples)
             /\ Violated("ERROR_RATE", limit) => bad * Million > limit * Len(samples)
        /\ \A limit \in 1..MaxLatency :
             Violated("P95_LATENCY", limit) <=> 20 * Slower(limit) > Len(samples)
        /\ \A limit \in 1..MaxLag : Violated("BLOCK_LAG", limit) =>
             \E i \in DOMAIN samples : Window[i].reference # Unknown /\ Window[i].reference - Window[i].target > limit
        /\ ValidEvidence(evidence)

\* Premiums, payouts and measurements round for the provider, and the buyer's offer
\* for the contract: no series of small purchases or claims takes more out of a vault
\* than was paid and promised, and no rounding accuses.
RoundedForTheProvider ==
  PremiumRoundsUp /\ PayoutRoundsDown /\ OfferCovers /\ MeasuresNeverAccuse
=============================================================================
