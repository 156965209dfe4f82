----------------------------- MODULE MCEvidence -----------------------------
(* Evidence on small instances: constants for Hearing.cfg.                  *)
EXTENDS Evidence

CONSTANTS alice, bob, carol, none

MCServiceProvider == [s \in Services |-> 1]
MCPactService == [d \in Pacts |-> 1]
MCTermsInputs ==
  {[threshold |-> [k \in Clauses |-> 1], scope |-> "global",
    minIncident |-> 0, claimWindow |-> 1, minDuration |-> 1, maxDuration |-> 1,
    minAmount |-> 1, maxAmount |-> 1,
    premiumBps |-> 1, deductibleBps |-> 0, maxPayoutBps |-> 1]}

Metrics(value) == [k \in Clauses |-> IF k = "AVAILABILITY" THEN value ELSE Unknown]

\* Two reports that disagree about everything but the chain.
MCReportInputs ==
  {[confirmed |-> TRUE, fault |-> "PROVIDER", scope |-> "eu", start |-> 0, end |-> 0,
    observed |-> Metrics(1), chainFailure |-> FALSE],
   [confirmed |-> FALSE, fault |-> "UNKNOWN", scope |-> "us", start |-> 0, end |-> 0,
    observed |-> Metrics(Unknown), chainFailure |-> FALSE]}

\* Whatever the models may make of them: the first report, a mixture of the two,
\* what neither says, nothing concluded.
Answer(status, fault, scope, value) ==
  [status |-> status, fault |-> fault, scope |-> scope, start |-> 0, end |-> 0,
   observed |-> Metrics(value), chainFailure |-> FALSE, sufficiency |-> "SUFFICIENT"]
MCFindingInputs ==
  {Answer("INCIDENT_CONFIRMED", "PROVIDER", "eu", 1),
   Answer("NO_INCIDENT", "PROVIDER", "us", Unknown),
   Answer("INCIDENT_CONFIRMED", "SHARED", "", 1),
   TimeoutFacts}

\* The provider alice has one active service; bob and carol report, and bob may
\* be revoked and authorized again.
Hearing ==
  /\ LedgerInit /\ IncidentsInit /\ EvidenceInit
  /\ GovernanceSettings
  /\ authorized = {bob, carol}
  /\ owner = [p \in Providers |-> alice]
  /\ pendingOwner = [p \in Providers |-> NoAccount]
  /\ service = [s \in Services |-> "ACTIVE"]
  /\ pact = [d \in Pacts |->
               [status |-> "NONE", terms |-> CHOOSE t \in TermsInputs : TRUE,
                frozen |-> FALSE, revision |-> 0, parent |-> 0]]

HearSpec == Hearing /\ [][HearingNext]_hearingVars

\* Bound on the items of an incident; a challenge takes the place of one.
CONSTANT MaxItems
FewItems ==
  \A i \in IncidentIds :
    Len(evidence[i]) <= IF challenge[i].exists THEN MaxItems - 1 ELSE MaxItems

\* Only a text that no schema bounds is long, and there is one such item, or one that
\* reports nothing valid.
OneOther ==
  \A i \in IncidentIds :
    LET other(e) == e.report = NoReport
        long(e) == e.size # StatusSize
    IN  /\ Cardinality(Positions(i, other)) <= 1
        /\ Positions(i, long) \subseteq Positions(i, other)

\* The incident is the first there can be, for a later one is no different; who opened
\* and who challenged it, and whether the provider acknowledged it, tells hearings
\* nothing.
Plain ==
  \A i \in IncidentIds :
    /\ incident[i].status # "NONE" =>
         incident[i].start = 0 /\ incident[i].opener = bob /\ ~incident[i].acknowledged
    /\ challenge[i].exists => challenge[i].challenger = carol
=============================================================================
