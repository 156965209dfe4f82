------------------------------ MODULE FaultPact ------------------------------
(***************************************************************************)
(* The whole contract: the market of Underwriting and the disputes of      *)
(* Incidents, joined by the claims that buyers file for a coverage and an  *)
(* incident and that are settled from the provider's capital without any   *)
(* further judgement (src/contracts/FaultPact.py, "Claims" and             *)
(* _settle_pending_claims_inconclusive).                                   *)
(***************************************************************************)
EXTENDS Underwriting, Incidents

CONSTANTS
  Claims,               \* claim ids
  MaxClaimsPerIncident  \* MAX_CLAIMS_PER_INCIDENT

ASSUME ClaimsAssumption ==
  /\ Claims \subseteq Nat /\ IsFiniteSet(Claims)
  /\ MaxClaimsPerIncident \in Nat

VARIABLES
  claim,        \* claim[k]: the Claim record
  claimStats    \* claimStats[p]: the claims part of ProviderStats

claimVars == <<claim, claimStats>>

vars == <<ledgerVars, governanceVars, registryVars, underwritingVars, incidentVars, claimVars>>

ClaimStatus == {"NONE", "PENDING_RESOLUTION", "SETTLED", "INELIGIBLE"}

ClaimType ==
  [status : ClaimStatus, coverage : Coverages \cup {0}, incident : IncidentIds \cup {0},
   claimant : Accounts \cup {NoAccount}, payout : Nat]

TypeOK ==
  /\ LedgerTypeOK /\ GovernanceTypeOK /\ RegistryTypeOK
  /\ UnderwritingTypeOK /\ IncidentsTypeOK
  /\ claim \in [Claims -> ClaimType]
  /\ claimStats \in [Providers -> [successful : Nat, payouts : Nat]]

ClaimsInit ==
  /\ claim = [k \in Claims |-> [status |-> "NONE", coverage |-> 0, incident |-> 0,
                                claimant |-> NoAccount, payout |-> 0]]
  /\ claimStats = [p \in Providers |-> [successful |-> 0, payouts |-> 0]]

Init ==
  /\ LedgerInit /\ GovernanceInit /\ RegistryInit
  /\ UnderwritingInit /\ IncidentsInit /\ ClaimsInit

UsedClaims == {k \in Claims : claim[k].status # "NONE"}
Pending(k) == claim[k].status = "PENDING_RESOLUTION"
ClaimsAbout(i) == {k \in UsedClaims : claim[k].incident = i}

-----------------------------------------------------------------------------

\* file_claim, with _validate_claim_filing: by the buyer, up to and including
\* the deadline, for an incident of the same service whose observed interval
\* overlaps the coverage, whatever its stage; once per coverage and incident.
FileClaim(filer, k, c, i) ==
  /\ IsNext(k, Claims, UsedClaims)
  /\ cov[c].status \notin {"NONE", "RELEASED"}
  /\ incident[i].status # "NONE"
  /\ filer = cov[c].buyer
  /\ now <= cov[c].deadline
  /\ PactService[cov[c].pact] = incident[i].service
  /\ WindowsOverlap(cov[c].start, cov[c].end, incident[i].start, incident[i].end)
  /\ \A j \in ClaimsAbout(i) : claim[j].coverage # c
  /\ Cardinality(ClaimsAbout(i)) < MaxClaimsPerIncident
  /\ claim' = [claim EXCEPT ![k] =
                 [status |-> "PENDING_RESOLUTION", coverage |-> c, incident |-> i,
                  claimant |-> filer, payout |-> 0]]
  /\ cov' = [cov EXCEPT ![c].open = @ + 1]
  /\ UNCHANGED <<vault, pactAllocated, pactReserved, salesStats, claimStats, credits, balance>>

\* _calc_existing_claim of a pending claim about a final incident.
Due(k) ==
  LET cv == cov[claim[k].coverage] IN
  Payout(cv.start, cv.end, cv.remaining, cv.reserved, pact[cv.pact].terms,
         resolution[claim[k].incident].facts)

\* The common guard of settle_claim: by anyone.
\* (Mutant: on a decision that is not final.)
DecidableEarly(k) == Pending(k) /\ resolution[claim[k].incident].exists
Decidable(k) == Pending(k) /\ Final(claim[k].incident)

\* settle_claim when nothing is due.
SettleIneligible(k) ==
  /\ Decidable(k)
  /\ Due(k) = 0
  /\ claim' = [claim EXCEPT ![k].status = "INELIGIBLE"]
  /\ cov' = [cov EXCEPT ![claim[k].coverage].open = IF @ > 0 THEN @ - 1 ELSE @]
  /\ UNCHANGED <<vault, pactAllocated, pactReserved, salesStats, claimStats, credits, balance>>

\* settle_claim when a payout is due: it leaves the provider's capital and the
\* coverage's limit and reserve, and is credited to the claimant.
SettlePaid(k) ==
  LET c == claim[k].coverage
      d == cov[c].pact
      payout == Due(k)
  IN
  /\ Decidable(k)
  /\ payout > 0
  /\ cov[c].remaining >= payout
  /\ DebitProviderCapital(d, payout)
  /\ cov' = [cov EXCEPT ![c].remaining = @ - payout, ![c].paid = @ + payout,
                        ![c].reserved = IF @ >= payout THEN @ - payout ELSE 0,
                        ![c].open = @ - 1]
  /\ claim' = [claim EXCEPT ![k].status = "SETTLED", ![k].payout = payout]
  /\ credits' = Credit(credits, claim[k].claimant, payout)
  /\ claimStats' = [claimStats EXCEPT ![PactProvider(d)].successful = @ + 1,
                                      ![PactProvider(d)].payouts = @ + payout]
  /\ UNCHANGED <<salesStats, balance>>

\* _settle_pending_claims_inconclusive: the timeout of an incident turns down
\* all the claims that wait for it.
\* (Mutant: no coverage loses a claim.)
SettleUncounted(i) ==
  /\ claim' = [k \in Claims |-> IF Pending(k) /\ claim[k].incident = i
                               THEN [claim[k] EXCEPT !.status = "INELIGIBLE"] ELSE claim[k]]
  /\ UNCHANGED <<vault, pactAllocated, pactReserved, cov, salesStats, claimStats>>
SettleInconclusive(i) ==
  LET pending == {k \in ClaimsAbout(i) : Pending(k)}
      closed(c) == Cardinality({k \in pending : claim[k].coverage = c})
  IN
  /\ \A c \in Coverages : closed(c) <= cov[c].open
  /\ claim' = [k \in Claims |->
                 IF k \in pending THEN [claim[k] EXCEPT !.status = "INELIGIBLE"] ELSE claim[k]]
  /\ cov' = [c \in Coverages |-> [cov[c] EXCEPT !.open = @ - closed(c)]]
  /\ UNCHANGED <<vault, pactAllocated, pactReserved, salesStats, claimStats>>

SettleClaim(k) == SettleIneligible(k) \/ SettlePaid(k)

ClaimStep ==
  /\ \E k \in Claims :
       \/ \E filer \in Accounts, c \in Coverages, i \in IncidentIds : FileClaim(filer, k, c, i)
       \/ SettleClaim(k)
  /\ UNCHANGED now

-----------------------------------------------------------------------------
(* The contract *)

setupVars == <<governanceVars, registryVars>>

TimeStep == Tick /\ UNCHANGED <<setupVars, underwritingVars, incidentVars, claimVars>>

WithdrawStep ==
  /\ \E a \in Accounts : \E amount \in 1 .. credits[a] : WithdrawCredit(a, amount)
  /\ UNCHANGED <<setupVars, underwritingVars, incidentVars, claimVars>>

\* finalize_inconclusive_timeout
FinalizeInconclusiveTimeout(i) == TimeoutStep(i) /\ SettleInconclusive(i) /\ UNCHANGED setupVars

\* Everything but the registries and the governance.
MarketStep ==
  \/ TimeStep
  \/ WithdrawStep
  \/ UnderwritingStep /\ UNCHANGED <<setupVars, incidentVars, claimVars>>
  \/ HandlingStep /\ UNCHANGED <<setupVars, underwritingVars, claimVars>>
  \/ \E i \in IncidentIds : FinalizeInconclusiveTimeout(i)
  \/ ClaimStep /\ UNCHANGED <<setupVars, incidentVars>>

Next ==
  \/ MarketStep
  \/ /\ GovernanceStep
     /\ UNCHANGED <<ledgerVars, registryVars, underwritingVars, incidentVars, claimVars>>
  \/ /\ RegistryStep
     /\ UNCHANGED <<ledgerVars, governanceVars, underwritingVars, incidentVars, claimVars>>

Spec == Init /\ [][Next]_vars

\* Blocks keep coming, and somebody makes the calls that are open to everyone:
\* finalize_incident, finalize_inconclusive_timeout, settle_claim and
\* release_earned_premium.  Nobody has to adjudicate anything.
Fairness ==
  /\ WF_vars(TimeStep)
  /\ \A i \in IncidentIds :
       /\ WF_vars(/\ FinalizeIncident(i)
                  /\ UNCHANGED <<now, setupVars, underwritingVars, claimVars>>)
       /\ WF_vars(FinalizeInconclusiveTimeout(i))
  /\ \A k \in Claims : WF_vars(SettleClaim(k) /\ UNCHANGED <<now, setupVars, incidentVars>>)
  /\ \A c \in Coverages :
       WF_vars(ReleaseEarnedPremium(c) /\ UNCHANGED <<now, setupVars, incidentVars, claimVars>>)

-----------------------------------------------------------------------------
(* Properties *)

ClaimsOn(c) == {k \in UsedClaims : claim[k].coverage = c}

\* open_claims counts the undecided claims of a coverage, whether they end one
\* by one or with a timeout; a coverage with an undecided claim keeps its
\* reserve.
OpenClaimsMatch ==
  \A c \in Coverages :
    LET undecided == {k \in ClaimsOn(c) : Pending(k)} IN
    /\ cov[c].open = Cardinality(undecided)
    /\ undecided # {} => ~cov[c].reserveReleased

\* What settle_claim and _debit_provider_capital require for a payout; less is
\* reserved for no claim than it is due.
Payable(k) ==
  LET c == claim[k].coverage
      d == cov[c].pact
      v == vault[PactProvider(d)]
      due == Due(k)
  IN  /\ cov[c].remaining >= due /\ cov[c].reserved >= due /\ cov[c].open > 0
      /\ pactReserved[d] >= due /\ pactAllocated[d] >= due
      /\ v.total >= due /\ v.allocated >= due /\ v.reserved >= due
      /\ VaultSound([v EXCEPT !.total = @ - due, !.allocated = @ - due, !.reserved = @ - due])

\* What _release_reserve requires for the end of a coverage.
Freeable(c) ==
  LET d == cov[c].pact
      v == vault[PactProvider(d)]
      left == ReserveLeft(c)
  IN  /\ pactReserved[d] >= left /\ v.reserved >= left
      /\ VaultSound([v EXCEPT !.reserved = @ - left])

\* Once time and decisions allow a call that is open to anyone, nothing in the books
\* refuses it: a decided claim can be settled, a coverage that no claim can reach any
\* more released, an incident timed out with all the claims that wait for it, and a
\* credit withdrawn, whatever was paid, deallocated or withdrawn before.
NobodyRefused ==
  /\ \A k \in Claims : Decidable(k) => Payable(k)
  /\ \A c \in UsedCoverages : Releasable(c) => Freeable(c)
  /\ \A i \in IncidentIds, c \in Coverages :
       Cardinality({k \in ClaimsAbout(i) : Pending(k) /\ claim[k].coverage = c}) <= cov[c].open
  /\ \A a \in Accounts : credits[a] <= balance

\* A claim is paid only for an incident that is final and whose final facts, and
\* the terms the pact still has, entitle the coverage to it; and nobody buys
\* cover for an incident that is over.
PaidOnlyIfEntitled ==
  \A k \in UsedClaims :
    LET cv == cov[claim[k].coverage]
        i == claim[k].incident
    IN  /\ claim[k].status = "SETTLED" =>
             /\ Final(i)
             /\ Entitled(cv.start, cv.end, pact[cv.pact].terms, resolution[i].facts)
        /\ cv.start < incident[i].openedAt

\* Every token the contract holds is owed to exactly one party: a provider's
\* vault, an account's credit, the premium held for a coverage, or a bond.  So
\* every bond is paid out exactly once, whichever of decision, challenge and
\* timeout ends the incident, and whatever set_bonds does meanwhile.
Conservation ==
  balance = Total(VaultTotals) + Total(credits) + Total(HeldPremiums)
              + Total(ReportBondsHeld) + Total(ChallengeBondsHeld)

\* What a coverage and a claim are to the buyer.
CoverSeen(cv) ==
  [stage |-> CASE cv.status = "NONE" -> "unsold"
               [] cv.status \in {"ACTIVE", "EXPIRED"} -> "running"
               [] cv.status = "RELEASED" -> "closed",
   limit |-> cv.limit, held |-> cv.reserved, paid |-> cv.paid, deadline |-> cv.deadline]
ClaimSeen(cl) ==
  [stage |-> CASE cl.status = "NONE" -> "none"
               [] cl.status = "PENDING_RESOLUTION" -> "open"
               [] cl.status = "SETTLED" -> "paid"
               [] cl.status = "INELIGIBLE" -> "refused",
   on |-> cl.coverage, amount |-> cl.payout]
CoverOf == [c \in Coverages |-> CoverSeen(cov[c])]
ClaimOf == [k \in Claims |-> ClaimSeen(claim[k])]

\* The contract keeps what a coverage promises: whatever providers, governance,
\* reporters and other buyers do meanwhile, the limit is held until the deadline and
\* until every claim is decided, leaves only into claims, and no claim is decided twice.
Buyer == INSTANCE Promise WITH cover <- CoverOf, filed <- ClaimOf
ImplementsPromise == Buyer!PromiseSpec

\* No reserve stays locked: every coverage is released in the end.
EveryReserveFreed ==
  \A c \in Coverages : cov[c].status # "NONE" ~> cov[c].status = "RELEASED"
=============================================================================
