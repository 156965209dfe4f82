----------------------------- MODULE MCFaultPact -----------------------------
(* The whole contract on small instances: constants for Claims_*.cfg.       *)
EXTENDS FaultPact

CONSTANTS alice, bob, carol, none, Capital, MaxLoad

MCServiceProvider == [s \in Services |-> 1]
MCPactService == [d \in Pacts |-> 1]

\* One unit of premium for every unit of limit and second; a payout is the
\* remaining limit, less a deductible of a half, rounded up.
MCTerms ==
  [threshold |-> [k \in Clauses |-> IF k = "AVAILABILITY" THEN 2 ELSE 0],
   scope |-> "global", minIncident |-> 1, claimWindow |-> 1,
   minDuration |-> 1, maxDuration |-> 2, minAmount |-> 1, maxAmount |-> 3,
   premiumBps |-> 1, deductibleBps |-> 1, maxPayoutBps |-> 2]
MCTermsInputs == {MCTerms}
\* The second terms are not violated by what the findings observe.
MCTwoTerms ==
  {MCTerms, [MCTerms EXCEPT !.threshold = [k \in Clauses |-> IF k = "AVAILABILITY" THEN 1 ELSE 0]]}

Finding(status, fault) ==
  [status |-> status, fault |-> fault, scope |-> "eu", start |-> 0, end |-> 0,
   observed |-> [k \in Clauses |-> IF k = "AVAILABILITY" THEN 1 ELSE Unknown],
   chainFailure |-> FALSE, sufficiency |-> "SUFFICIENT"]

MCFindingInputs ==
  {Finding("INCIDENT_CONFIRMED", "PROVIDER"), Finding("NO_INCIDENT", "UNKNOWN")}

MCConfirmed == {Finding("INCIDENT_CONFIRMED", "PROVIDER")}

\* alice has published every pact and allocated her Capital to pact 1.
Selling ==
  /\ now = 0
  /\ balance = Capital
  /\ credits = [a \in Accounts |-> 0]
  /\ GovernanceInit
  /\ owner = [p \in Providers |-> alice]
  /\ pendingOwner = [p \in Providers |-> NoAccount]
  /\ service = [s \in Services |-> "ACTIVE"]
  /\ pact = [d \in Pacts |->
               [status |-> "ACTIVE", terms |-> MCTerms, frozen |-> TRUE,
                revision |-> 1, parent |-> 0]]
  /\ vault = [p \in Providers |->
                [total |-> Capital, allocated |-> Capital, reserved |-> 0,
                 pending |-> 0, unlock |-> 0]]
  /\ pactAllocated = [d \in Pacts |-> IF d = 1 THEN Capital ELSE 0]
  /\ pactReserved = [d \in Pacts |-> 0]
  /\ cov = [c \in Coverages |-> NoCoverage]
  /\ salesStats = [p \in Providers |-> [coverages |-> 0, volume |-> 0, deposited |-> Capital]]
  /\ IncidentsInit /\ ClaimsInit

One(b) == IF b THEN 1 ELSE 0

\* The settings that are not as usual: every window is 1 and the bonds are what is paid.
Unusual ==
  {w \in {"evidenceWindow", "challengeWindow", "challengeEvidenceWindow", "timeout",
          "reportBond", "challengeBond"} : config[w] # 1}

\* Bound on what goes on at once: the coverages, the incidents, what is disputed of
\* any but the first, and in how many respects the provider, its capital and the
\* listing are not as they were at first.  A setting that is not as usual leaves
\* room for one incident without coverage, and for every finding about it.
Load ==
  Cardinality({c \in Coverages : cov[c].status # "NONE"}) + Cardinality(UsedIncidents)
    + Cardinality({i \in IncidentIds : i > 1 /\ (challenge[i].exists \/ incident[i].acknowledged)})
    + One(owner[1] # alice \/ pendingOwner[1] # NoAccount)
    + One(config.salesPaused) + One(service[1] # "ACTIVE") + One(pact[1].status # "ACTIVE")
    + One(vault[1].total + cov[1].paid + cov[2].paid # Capital \/ vault[1].pending > 0)
    + One(pactAllocated[1] + cov[1].paid + cov[2].paid # Capital)
    + 2 * Cardinality(Unusual)
    + One(Unusual = {} /\ \E i \in IncidentIds : resolution[i].facts.status = "NO_INCIDENT")

WithinBound ==
  /\ Load <= MaxLoad
  /\ UsedIncidents # {} => cov[1].status # "NONE" \/ Unusual # {}

MarketSpec == Selling /\ [][Next]_vars

\* The registries and the settings stay as they are.
QuietLiveSpec == Selling /\ [][MarketStep]_vars /\ Fairness
=============================================================================
