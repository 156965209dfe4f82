------------------------------- MODULE Rates -------------------------------
(***************************************************************************)
(* The deterministic arithmetic of FaultPact: premiums and protocol fees   *)
(* (rounded up), payouts (rounded down), and the comparison of the facts   *)
(* of an incident with the terms of a pact (src/contracts/FaultPact.py,    *)
(* _safe_mul_div, _calculate_premium, _split_premium, _quote_internal,     *)
(* _windows_overlap, _scope_covered, _matched_clauses, _payout_from_parts).*)
(***************************************************************************)
EXTENDS Integers, FiniteSets

CONSTANTS
  BpsDenom,      \* basis points of a whole (BPS_DENOM)
  YearSeconds,   \* YEAR_SECONDS
  MinPremium,    \* config.min_premium, set by __init__ and never changed
  Unknown        \* the value of a metric that was not established

ASSUME RatesAssumption ==
  /\ BpsDenom \in Nat \ {0}
  /\ YearSeconds \in Nat \ {0}
  /\ MinPremium \in Nat

Clauses == {"AVAILABILITY", "P95_LATENCY", "ERROR_RATE", "BLOCK_LAG"}
FactStatuses == {"INCIDENT_CONFIRMED", "NO_INCIDENT", "INCONCLUSIVE"}
FaultDomains == {"PROVIDER", "CUSTOMER", "CHAIN", "THIRD_PARTY", "SHARED", "UNKNOWN"}
Sufficiencies == {"SUFFICIENT", "PARTIAL", "INSUFFICIENT"}

\* A threshold of 0 disables its clause.
TermsType ==
  [threshold : [Clauses -> Nat], scope : STRING, minIncident : Nat, claimWindow : Nat,
   minDuration : Nat, maxDuration : Nat, minAmount : Nat, maxAmount : Nat,
   premiumBps : Nat, deductibleBps : Nat, maxPayoutBps : Nat]

\* The decision fields of a Resolution; an unknown metric has no value, so two
\* facts are the same decision (_decision_fields_match) when they are equal.
FactsType ==
  [status : FactStatuses, fault : FaultDomains, scope : STRING, start : Nat, end : Nat,
   observed : [Clauses -> Nat \cup {Unknown}], chainFailure : BOOLEAN,
   sufficiency : Sufficiencies]

\* _safe_mul_div, rounding down and rounding up.
\* (Mutant: the quotes round down.)
RoundedDown(a, b, d) == (a * b) \div d
MulDiv(a, b, d) == (a * b) \div d
MulDivUp(a, b, d) == (a * b + d - 1) \div d

\* _calculate_premium, with the floor _quote_internal puts under a pact that is
\* not free of charge.
Premium(limit, duration, premiumBps) ==
  LET gross == MulDivUp(limit * premiumBps, duration, BpsDenom * YearSeconds)
  IN  IF gross < MinPremium /\ premiumBps > 0 THEN MinPremium ELSE gross

\* _split_premium: the protocol's part of a premium, at most all of it.
FeeOf(gross, feeBps) ==
  LET fee == MulDivUp(gross, feeBps, BpsDenom)
  IN  IF fee > gross THEN gross ELSE fee

\* _windows_overlap: half-open intervals share an instant.
WindowsOverlap(a0, a1, b0, b1) == a0 < b1 /\ b0 < a1

\* _scope_covered: a global pact covers every scope that was established.
ScopeCovered(pactScope, factScope) ==
  /\ factScope # ""
  /\ pactScope \in {"global", factScope}

\* _matched_clauses: the enabled clauses whose metric is known and violates the
\* threshold (availability is violated from below, the others from above).
MatchedClauses(terms, facts) ==
  {k \in Clauses :
     /\ terms.threshold[k] > 0
     /\ facts.observed[k] # Unknown
     /\ IF k = "AVAILABILITY" THEN facts.observed[k] < terms.threshold[k]
                              ELSE facts.observed[k] > terms.threshold[k]}

\* The facts entitle a coverage of [start, end) under these terms to a payout.
Entitled(start, end, terms, facts) ==
  /\ WindowsOverlap(start, end, facts.start, facts.end)
  /\ ScopeCovered(terms.scope, facts.scope)
  /\ facts.end - facts.start >= terms.minIncident
  /\ facts.status = "INCIDENT_CONFIRMED"
  /\ ~facts.chainFailure
  /\ facts.fault \in {"PROVIDER", "SHARED"}
  /\ MatchedClauses(terms, facts) # {}

\* The amount _payout_from_parts computes for an entitled coverage.
Amount(remaining, reserved, terms, fault) ==
  LET capped == MulDiv(remaining, terms.maxPayoutBps, BpsDenom)
      deductible == MulDivUp(capped, terms.deductibleBps, BpsDenom)
      net == IF capped > deductible THEN capped - deductible ELSE 0
      due == IF fault = "SHARED" THEN net \div 2 ELSE net
      backed == IF due > remaining THEN remaining ELSE due
  IN  IF backed > reserved THEN reserved ELSE backed

\* _payout_from_parts; 0 stands for every reason not to pay.
Payout(start, end, remaining, reserved, terms, facts) ==
  IF Entitled(start, end, terms, facts) /\ remaining > 0
  THEN Amount(remaining, reserved, terms, facts.fault)
  ELSE 0
=============================================================================
