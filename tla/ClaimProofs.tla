----------------------------- MODULE ClaimProofs -----------------------------
(***************************************************************************)
(* Disputes and payouts of the whole contract, for any number of           *)
(* coverages, incidents and claims: every window runs its whole length, a  *)
(* decision that was made stands, and what is paid is due.  Nothing here   *)
(* depends on the amounts, so they are only known to be integers.          *)
(*                                                                         *)
(* Then its money, for any number of accounts, providers and pacts: the    *)
(* books of the capital agree, a due payout is backed, open claims are      *)
(* counted right, and every token is owed to exactly one party.  The four   *)
(* hold together or not at all: a payout is debited from three books at     *)
(* once, the counter of open claims keeps the reserve they are paid from,   *)
(* and a withdrawal or a payout that would underflow is excluded only       *)
(* because the totals match.                                               *)
(*                                                                         *)
(* And what a buyer may count on: the contract implements Promise, step by  *)
(* step, and so a coverage and its claims add up.                           *)
(***************************************************************************)
EXTENDS FaultPact, UnderwritingProofs

-----------------------------------------------------------------------------
(* Disputes *)

\* A step either handles one incident or leaves the disputes alone.
LEMMA StepSplits ==
  ASSUME DisputeInv, [Next]_vars
  PROVE  Elsewhere \/ (UNCHANGED now /\ \E i \in IncidentIds : Handled(i))
<1>1. CASE HandlingStep
  BY <1>1, HandlingIsHandled DEF HandlingStep
<1>2. CASE \E i \in IncidentIds : FinalizeInconclusiveTimeout(i)
  BY <1>2, TimeoutIsHandled DEF FinalizeInconclusiveTimeout, TimeoutStep
<1>3. CASE TimeStep
  BY <1>3 DEF TimeStep, Tick, Elsewhere, incidentVars
<1>4. CASE UNCHANGED <<now, incidentVars>>
  BY <1>4 DEF Elsewhere, incidentVars
<1>5. \/ HandlingStep
      \/ \E i \in IncidentIds : FinalizeInconclusiveTimeout(i)
      \/ TimeStep
      \/ UNCHANGED <<now, incidentVars>>
  BY Zenon DEF Next, MarketStep, WithdrawStep, WithdrawCredit, UnderwritingStep, ClaimStep,
               vars, ledgerVars
<1> QED
  BY <1>1, <1>2, <1>3, <1>4, <1>5

LEMMA BasicsKept ==
  ASSUME Basics, [Next]_vars
  PROVE  Basics'
<1>1. now' \in Nat
  <2>1. TimeStep \/ UNCHANGED now
    BY Zenon DEF Next, MarketStep, WithdrawStep, WithdrawCredit, UnderwritingStep, ClaimStep,
                 HandlingStep, FinalizeInconclusiveTimeout, TimeoutStep, vars, ledgerVars
  <2> QED
    BY <2>1 DEF Basics, TimeStep, Tick
<1>2. GovernanceTypeOK'
  <2>1. GovernanceStep \/ UNCHANGED governanceVars
    BY Zenon DEF Next, MarketStep, TimeStep, WithdrawStep, FinalizeInconclusiveTimeout,
                 setupVars, vars
  <2> QED
    BY <2>1, GovernanceTypes DEF Basics, GovernanceTypeOK, governanceVars
<1>3. RegistryTypeOK'
  <2>1. RegistryStep \/ UNCHANGED registryVars
    BY Zenon DEF Next, MarketStep, TimeStep, WithdrawStep, FinalizeInconclusiveTimeout,
                 setupVars, vars
  <2> QED
    BY <2>1, RegistryTypes DEF Basics, RegistryTypeOK, registryVars
<1> QED
  BY <1>1, <1>2, <1>3 DEF Basics

LEMMA DisputeInvariant == Spec => []DisputeInv
<1>1. DisputeInv /\ [Next]_vars => DisputeInv'
  <2> SUFFICES ASSUME DisputeInv, [Next]_vars PROVE DisputeInv'
    OBVIOUS
  <2>1. Basics'
    BY BasicsKept DEF DisputeInv
  <2> QED
    BY <2>1, StepSplits, HandledKeeps, ElsewhereKeeps
<1> QED
  BY <1>1, DisputeInvStarts, PTL DEF Spec, Init, DisputeInit

\* No window is cut short, for any settings of the windows and any order of
\* reports, decisions, challenges, timeouts and changes of the settings.
THEOREM WindowsRun == Spec => []WindowsHonoured
<1>1. DisputeInv => WindowsHonoured
  BY DEF DisputeInv, WindowsOf, WindowsHonoured
<1> QED
  BY <1>1, DisputeInvariant, PTL

\* A decision changes only where a challenge ends, and nothing reopens a final
\* incident.
THEOREM DecisionsAreFinal == Spec => DecisionsStand
<1> DEFINE Stand(i) ==
      /\ resolution[i].exists /\ resolution'[i].facts # resolution[i].facts =>
           incident[i].status = "CHALLENGED" /\ incident'[i].status # "CHALLENGED"
      /\ Final(i) => UNCHANGED <<incident[i], resolution[i], challenge[i]>>
<1>1. DisputeInv /\ [Next]_vars => [\A i \in IncidentIds : Stand(i)]_incidentVars
  <2> SUFFICES ASSUME DisputeInv, [Next]_vars, NEW i \in IncidentIds
               PROVE  Stand(i)
    OBVIOUS
  <2>1. CASE Elsewhere
    BY <2>1 DEF Elsewhere
  <2>2. CASE \E j \in IncidentIds : Handled(j)
    BY <2>2 DEF Handled, OthersKept
  <2> QED
    BY <2>1, <2>2, StepSplits
<1> QED
  BY <1>1, DisputeInvariant, PTL DEF Spec, DecisionsStand

-----------------------------------------------------------------------------
(* Claims *)

CoverageShape ==
  [status : CoverageStatus, pact : Pacts \cup {0}, buyer : Accounts \cup {NoAccount},
   limit : Int, remaining : Int, start : Nat, end : Nat, deadline : Nat,
   share : Int, reserved : Int, open : Int, paid : Int,
   premiumReleased : BOOLEAN, reserveReleased : BOOLEAN]

ClaimShape ==
  [status : ClaimStatus, coverage : Coverages \cup {0}, incident : IncidentIds \cup {0},
   claimant : Accounts \cup {NoAccount}, payout : Int]

Shapes ==
  /\ cov \in [Coverages -> CoverageShape]
  /\ claim \in [Claims -> ClaimShape]

\* What is on sale, or may be again, is frozen, and so is what a coverage was sold for.
OnSaleFrozen == \A d \in Pacts : pact[d].status \in {"ACTIVE", "PAUSED"} => pact[d].frozen

SoldFrozen ==
  \A c \in Coverages :
    cov[c].status # "NONE" => cov[c].pact \in Pacts /\ pact[cov[c].pact].frozen

\* A claim is about a coverage and an incident that exist, and what
\* PaidOnlyIfEntitled says of it.
Filed(k) ==
  LET cv == cov[claim[k].coverage]
      i == claim[k].incident
  IN
  /\ claim[k].coverage \in Coverages /\ i \in IncidentIds
  /\ cv.status # "NONE" /\ incident[i].status # "NONE"
  /\ cv.start < incident[i].openedAt
  /\ claim[k].status = "SETTLED" =>
       Final(i) /\ Entitled(cv.start, cv.end, pact[cv.pact].terms, resolution[i].facts)

ClaimInv ==
  /\ DisputeInv
  /\ FrozenPublished /\ OnSaleFrozen
  /\ Shapes /\ SoldFrozen
  /\ \A k \in UsedClaims : Filed(k)

-----------------------------------------------------------------------------
(* What every step keeps of what claims refer to *)

CoversKept ==
  \A c \in Coverages :
    cov[c].status # "NONE" =>
      /\ cov'[c].status # "NONE" /\ cov'[c].pact = cov[c].pact
      /\ cov'[c].start = cov[c].start /\ cov'[c].end = cov[c].end

IncidentsKept ==
  \A i \in IncidentIds :
    incident[i].status # "NONE" =>
      /\ incident'[i].status # "NONE" /\ incident'[i].openedAt = incident[i].openedAt
      /\ Final(i) => Final(i)' /\ resolution'[i] = resolution[i]

\* A claim that no step decides in its favour keeps what it is about.
LEMMA FiledStays ==
  ASSUME ClaimInv, CoversKept, IncidentsKept, TermsKept,
         NEW k \in UsedClaims,
         claim'[k].coverage = claim[k].coverage, claim'[k].incident = claim[k].incident,
         claim'[k].status = "SETTLED" => claim[k].status = "SETTLED"
  PROVE  Filed(k)'
<1> PICK c \in Coverages : c = claim[k].coverage
  BY DEF ClaimInv, Filed
<1> PICK i \in IncidentIds : i = claim[k].incident
  BY DEF ClaimInv, Filed
<1>1. /\ cov[c].status # "NONE" /\ incident[i].status # "NONE"
      /\ cov[c].start < incident[i].openedAt
      /\ claim[k].status = "SETTLED" =>
           /\ Final(i)
           /\ Entitled(cov[c].start, cov[c].end, pact[cov[c].pact].terms, resolution[i].facts)
  BY DEF ClaimInv, Filed
<1>2. /\ cov'[c].status # "NONE" /\ cov'[c].pact = cov[c].pact
      /\ cov'[c].start = cov[c].start /\ cov'[c].end = cov[c].end
      /\ incident'[i].status # "NONE" /\ incident'[i].openedAt = incident[i].openedAt
      /\ Final(i) => Final(i)' /\ resolution'[i] = resolution[i]
  BY <1>1 DEF CoversKept, IncidentsKept
<1>3. pact'[cov[c].pact].terms = pact[cov[c].pact].terms
  BY <1>1 DEF ClaimInv, SoldFrozen, TermsKept
<1>4. claim'[k].status = "SETTLED" =>
        /\ Final(i)'
        /\ Entitled(cov'[c].start, cov'[c].end, pact'[cov'[c].pact].terms, resolution'[i].facts)
  BY <1>1, <1>2, <1>3
<1> QED
  BY <1>1, <1>2, <1>4 DEF Filed, Final

LEMMA StepKeepsIncidents ==
  ASSUME DisputeInv, [Next]_vars
  PROVE  IncidentsKept
BY StepSplits DEF Elsewhere, Handled, OthersKept, IncidentsKept, Final

LEMMA RegistryKeepsOnSale ==
  ASSUME RegistryTypeOK, OnSaleFrozen, RegistryStep
  PROVE  OnSaleFrozen'
<1> USE DEF OnSaleFrozen, RegistryTypeOK, PactType
<1> PICK caller \in Accounts : RegistryStep!(caller)
  BY DEF RegistryStep
<1>1. CASE UNCHANGED pact
  BY <1>1
<1>2. CASE \E d \in Pacts, terms \in TermsInputs,
             revision \in Nat, parent \in Pacts \cup {0} :
             DraftPact(caller, d, terms, revision, parent)
  BY <1>2 DEF DraftPact
<1>3. CASE \E d \in Pacts, terms \in TermsInputs : UpdatePactDraft(caller, d, terms)
  BY <1>3 DEF UpdatePactDraft
<1>4. CASE \E d \in Pacts : PublishPact(caller, d)
  BY <1>4 DEF PublishPact
<1>5. CASE \E d \in Pacts : PausePactSales(caller, d) \/ RetirePact(caller, d)
  BY <1>5 DEF PausePactSales, RetirePact, ChangePact
<1>6. CASE \E d \in Pacts : ResumePactSales(caller, d)
  BY <1>6 DEF ResumePactSales, ChangePact
<1> QED
  BY <1>1, <1>2, <1>3, <1>4, <1>5, <1>6
  DEF RegisterProvider, TransferProviderControl, AcceptProviderControl, CreateService,
      PauseService, ResumeService, RetireService, ChangeService, CreatePactDraft,
      CreatePactRevision

-----------------------------------------------------------------------------
(* The coverages *)

\* What a step that leaves the claims alone does to the coverages.
CoverageEffect ==
  /\ cov' \in [Coverages -> CoverageShape]
  /\ CoversKept
  /\ \A c \in Coverages :
       cov'[c].status # "NONE" =>
         cov'[c].pact \in Pacts /\ pact[cov'[c].pact].frozen

LEMMA BuyEffect ==
  ASSUME ClaimInv, NEW buyer \in Accounts, NEW c \in Coverages, NEW d \in Pacts,
         NEW limit \in LimitInputs, NEW duration \in DurationInputs,
         NEW maxPremium \in MaxPremiumInputs, NEW payment \in PaymentInputs,
         BuyCoverage(buyer, c, d, limit, duration, maxPremium, payment)
  PROVE  CoverageEffect
<1> DEFINE premium == Premium(limit, duration, pact[d].terms.premiumBps)
           fee == FeeOf(premium, config.feeBps)
           deadline == now + duration + pact[d].terms.claimWindow
           sold == [status |-> "ACTIVE", pact |-> d, buyer |-> buyer,
                    limit |-> limit, remaining |-> limit,
                    start |-> now, end |-> now + duration, deadline |-> deadline,
                    share |-> premium - fee, reserved |-> limit, open |-> 0, paid |-> 0,
                    premiumReleased |-> FALSE, reserveReleased |-> FALSE]
<1>1. cov' = [cov EXCEPT ![c] = sold] /\ pact[d].status = "ACTIVE" /\ cov[c].status = "NONE"
  BY DEF BuyCoverage, Sellable, IsNext, UsedCoverages
<1>2. limit \in Nat /\ duration \in Nat /\ now \in Nat
  BY UnderwritingAssumption DEF ClaimInv, DisputeInv, Basics
<1>3. now + duration \in Nat /\ deadline \in Nat /\ premium - fee \in Int
  <2>1. pact[d].terms.premiumBps \in Nat /\ pact[d].terms.claimWindow \in Nat
    BY TermsAreNat DEF ClaimInv, DisputeInv, Basics
  <2>2. premium \in Nat
    BY <1>2, <2>1, PremiumType
  <2>3. config.feeBps \in Nat
    BY DEF ClaimInv, DisputeInv, Basics, GovernanceTypeOK, ConfigType
  <2> HIDE DEF premium
  <2>4. fee \in 0 .. premium
    BY <2>2, <2>3, FeeType
  <2> HIDE DEF fee
  <2> QED
    BY <1>2, <2>1, <2>2, <2>4
<1> HIDE DEF premium, fee, deadline
<1>4. sold \in CoverageShape /\ sold.status # "NONE" /\ sold.pact = d
  BY <1>2, <1>3 DEF CoverageShape, CoverageStatus
<1> HIDE DEF sold
<1>5. pact[d].frozen
  BY <1>1 DEF ClaimInv, OnSaleFrozen
<1> QED
  BY <1>1, <1>4, <1>5 DEF CoverageEffect, CoversKept, ClaimInv, Shapes, SoldFrozen

\* A coverage whose record is replaced by one that claims cannot tell apart.
LEMMA ReplacedEffect ==
  ASSUME ClaimInv, NEW c \in Coverages, NEW r \in CoverageShape, cov' = [cov EXCEPT ![c] = r],
         cov[c].status # "NONE", r.status # "NONE", r.pact = cov[c].pact,
         r.start = cov[c].start, r.end = cov[c].end
  PROVE  CoverageEffect
BY DEF CoverageEffect, CoversKept, ClaimInv, Shapes, SoldFrozen

LEMMA ReleasedShape ==
  ASSUME NEW old \in CoverageShape
  PROVE  LET r == [old EXCEPT !.status = "RELEASED", !.premiumReleased = TRUE,
                              !.reserveReleased = TRUE, !.reserved = 0]
         IN  /\ r \in CoverageShape /\ r.status # "NONE" /\ r.pact = old.pact
             /\ r.start = old.start /\ r.end = old.end
<1> DEFINE done == [old EXCEPT !.status = "RELEASED", !.premiumReleased = TRUE]
           freed == [done EXCEPT !.reserveReleased = TRUE]
           r == [freed EXCEPT !.reserved = 0]
<1>1. /\ done \in CoverageShape /\ done.status # "NONE" /\ done.pact = old.pact
      /\ done.start = old.start /\ done.end = old.end
  BY DEF CoverageShape, CoverageStatus
<1> HIDE DEF done
<1>2. /\ freed \in CoverageShape /\ freed.status = done.status /\ freed.pact = done.pact
      /\ freed.start = done.start /\ freed.end = done.end
  BY <1>1 DEF CoverageShape
<1> HIDE DEF freed
<1>3. /\ r \in CoverageShape /\ r.status = freed.status /\ r.pact = freed.pact
      /\ r.start = freed.start /\ r.end = freed.end
  BY <1>2 DEF CoverageShape
<1> HIDE DEF r
<1>4. /\ r \in CoverageShape /\ r.status # "NONE" /\ r.pact = old.pact
      /\ r.start = old.start /\ r.end = old.end
  BY <1>1, <1>2, <1>3
<1> QED
  BY <1>4 DEF r, freed, done

LEMMA UnderwritingEffect ==
  ASSUME ClaimInv, UnderwritingStep
  PROVE  CoverageEffect
<1>1. CASE CapitalStep
  <2>1. UNCHANGED cov
    BY <1>1, CapitalKeepsCoverages
  <2> QED
    BY <2>1 DEF CoverageEffect, CoversKept, ClaimInv, Shapes, SoldFrozen
<1>2. CASE CoverageStep
  <2> PICK c \in Coverages : CoverageStep!(c)
    BY <1>2 DEF CoverageStep
  <2>1. CASE \E buyer \in Accounts, d \in Pacts, limit \in LimitInputs,
                duration \in DurationInputs, maxPremium \in MaxPremiumInputs,
                payment \in PaymentInputs :
               BuyCoverage(buyer, c, d, limit, duration, maxPremium, payment)
    BY <2>1, BuyEffect
  <2>2. cov[c] \in CoverageShape
    BY DEF ClaimInv, Shapes
  <2>3. CASE ExpireCoverage(c)
    <3> DEFINE r == [cov[c] EXCEPT !.status = "EXPIRED"]
    <3>1. cov' = [cov EXCEPT ![c] = r] /\ cov[c].status = "ACTIVE"
      BY <2>3 DEF ExpireCoverage
    <3>2. /\ r \in CoverageShape /\ r.status # "NONE" /\ r.pact = cov[c].pact
          /\ r.start = cov[c].start /\ r.end = cov[c].end
      BY <2>2 DEF CoverageShape, CoverageStatus
    <3> HIDE DEF r
    <3> QED
      BY <3>1, <3>2, ReplacedEffect
  <2>4. CASE ReleaseEarnedPremium(c)
    <3> DEFINE r == [cov[c] EXCEPT !.status = "RELEASED", !.premiumReleased = TRUE,
                                   !.reserveReleased = TRUE, !.reserved = 0]
    <3>1. cov' = [cov EXCEPT ![c] = r]
      BY <2>4 DEF ReleaseEarnedPremium
    <3>2. cov[c].status # "NONE"
      BY <2>4 DEF ReleaseEarnedPremium
    <3>3. /\ r \in CoverageShape /\ r.status # "NONE" /\ r.pact = cov[c].pact
          /\ r.start = cov[c].start /\ r.end = cov[c].end
      BY <2>2, ReleasedShape
    <3> HIDE DEF r
    <3> QED
      BY <3>1, <3>2, <3>3, ReplacedEffect
  <2> QED
    BY <2>1, <2>3, <2>4
<1> QED
  BY <1>1, <1>2 DEF UnderwritingStep

-----------------------------------------------------------------------------
(* The claims *)

\* The amount of a claim is an integer, and nothing is due without entitlement.
LEMMA DueIs ==
  ASSUME ClaimInv, NEW k \in UsedClaims
  PROVE  LET cv == cov[claim[k].coverage] IN
         /\ Due(k) \in Int
         /\ Due(k) > 0 => Entitled(cv.start, cv.end, pact[cv.pact].terms,
                                   resolution[claim[k].incident].facts)
<1> PICK c \in Coverages : c = claim[k].coverage
  BY DEF ClaimInv, Filed
<1> DEFINE terms == pact[cov[c].pact].terms
           facts == resolution[claim[k].incident].facts
           capped == MulDiv(cov[c].remaining, terms.maxPayoutBps, BpsDenom)
           deductible == MulDivUp(capped, terms.deductibleBps, BpsDenom)
<1>1. cov[c].remaining \in Int /\ cov[c].reserved \in Int
  BY DEF ClaimInv, Shapes, CoverageShape
<1>2. terms.maxPayoutBps \in Nat /\ terms.deductibleBps \in Nat
  <2>1. cov[c].pact \in Pacts
    BY DEF ClaimInv, Filed, SoldFrozen
  <2>2. terms \in TermsInputs
    BY <2>1 DEF ClaimInv, DisputeInv, Basics, RegistryTypeOK, PactType
  <2> HIDE DEF terms
  <2> QED
    BY <2>2, RegistryAssumption DEF TermsType
<1> HIDE DEF terms, facts
<1>3. capped \in Int
  <2>1. cov[c].remaining * terms.maxPayoutBps \in Int
    BY <1>1, <1>2
  <2> QED
    BY <2>1, RatesAssumption DEF MulDiv
<1> HIDE DEF capped
<1>4. deductible \in Int
  <2>1. capped * terms.deductibleBps \in Int
    BY <1>2, <1>3
  <2> QED
    BY <2>1, RatesAssumption DEF MulDivUp
<1> HIDE DEF deductible
<1>5. Amount(cov[c].remaining, cov[c].reserved, terms, facts.fault) \in Int
  BY <1>1, <1>3, <1>4 DEF Amount, capped, deductible
<1>6. Due(k) = Payout(cov[c].start, cov[c].end, cov[c].remaining, cov[c].reserved, terms, facts)
  BY DEF Due, terms, facts
<1> QED
  BY <1>5, <1>6 DEF Payout, terms, facts

\* What a step does to the claims.
ClaimEffect ==
  /\ claim' \in [Claims -> ClaimShape]
  /\ \A k \in Claims : claim'[k].status # "NONE" => Filed(k)'

\* A step that files nothing and pays nothing.
LEMMA QuietEffect ==
  ASSUME ClaimInv, CoversKept, IncidentsKept, TermsKept,
         claim' \in [Claims -> ClaimShape],
         \A k \in Claims :
           claim'[k] = claim[k] \/
           (k \in UsedClaims /\ claim'[k] = [claim[k] EXCEPT !.status = "INELIGIBLE"])
  PROVE  ClaimEffect
<1> SUFFICES ASSUME NEW k \in Claims, claim'[k].status # "NONE" PROVE Filed(k)'
  BY DEF ClaimEffect
<1>1. claim[k] \in ClaimShape
  BY DEF ClaimInv, Shapes
<1>2. /\ k \in UsedClaims
      /\ claim'[k].coverage = claim[k].coverage /\ claim'[k].incident = claim[k].incident
      /\ claim'[k].status = "SETTLED" => claim[k].status = "SETTLED"
  BY <1>1 DEF UsedClaims, ClaimShape
<1> QED
  BY <1>2, FiledStays

\* A claim is filed for an incident whose interval was over when it was reported:
\* the coverage was bought before that.
LEMMA FileEffect ==
  ASSUME ClaimInv, IncidentsKept, UNCHANGED <<pact, incident, resolution>>,
         NEW filer \in Accounts, NEW k \in Claims, NEW c \in Coverages, NEW i \in IncidentIds,
         FileClaim(filer, k, c, i)
  PROVE  CoverageEffect /\ ClaimEffect
<1> DEFINE r == [cov[c] EXCEPT !.open = @ + 1]
           new == [status |-> "PENDING_RESOLUTION", coverage |-> c, incident |-> i,
                   claimant |-> filer, payout |-> 0]
<1>1. /\ cov' = [cov EXCEPT ![c] = r] /\ claim' = [claim EXCEPT ![k] = new]
      /\ cov[c].status # "NONE" /\ incident[i].status # "NONE"
      /\ cov[c].start < incident[i].end
  BY DEF FileClaim, WindowsOverlap
<1>2. cov[c] \in CoverageShape /\ cov[c].start \in Nat
  BY DEF ClaimInv, Shapes, CoverageShape
<1>3. /\ r \in CoverageShape /\ r.status = cov[c].status /\ r.pact = cov[c].pact
      /\ r.start = cov[c].start /\ r.end = cov[c].end
  BY <1>2 DEF CoverageShape
<1>4. new \in ClaimShape
  BY DEF ClaimShape, ClaimStatus
<1> HIDE DEF r
<1>5. CoverageEffect
  BY <1>1, <1>3, ReplacedEffect
<1>6. claim' \in [Claims -> ClaimShape]
  BY <1>1, <1>4 DEF ClaimInv, Shapes
<1>7. Filed(k)'
  <2>1. claim'[k] = new
    BY <1>1 DEF ClaimInv, Shapes
  <2>2. /\ cov'[c].status # "NONE" /\ cov'[c].start = cov[c].start
        /\ incident'[i] = incident[i]
    BY <1>1, <1>5 DEF CoverageEffect, CoversKept
  <2>3. incident[i].end <= incident[i].openedAt
        /\ incident[i].end \in Nat /\ incident[i].openedAt \in Nat
    BY DEF ClaimInv, DisputeInv, DisputeTypes, StageTells, IncidentType
  <2>4. cov[c].start < incident[i].openedAt
    BY <1>1, <1>2, <2>3
  <2> QED
    BY <1>1, <2>1, <2>2, <2>4 DEF Filed
<1>8. ASSUME NEW j \in Claims \ {k}, claim'[j].status # "NONE" PROVE Filed(j)'
  <2>1. claim'[j] = claim[j] /\ TermsKept
    BY <1>1 DEF ClaimInv, Shapes, TermsKept
  <2> QED
    BY <1>5, <1>8, <2>1, FiledStays DEF CoverageEffect, UsedClaims
<1> QED
  BY <1>5, <1>6, <1>7, <1>8 DEF ClaimEffect

LEMMA IneligibleEffect ==
  ASSUME ClaimInv, IncidentsKept, UNCHANGED pact, NEW k \in Claims, SettleIneligible(k)
  PROVE  CoverageEffect /\ ClaimEffect
<1> DEFINE turned == [claim[k] EXCEPT !.status = "INELIGIBLE"]
<1>1. k \in UsedClaims /\ claim' = [claim EXCEPT ![k] = turned]
  BY DEF SettleIneligible, Decidable, Pending, UsedClaims
<1> PICK c \in Coverages : c = claim[k].coverage /\ cov[c].status # "NONE"
  BY <1>1 DEF ClaimInv, Filed
<1> PICK n : n = IF cov[c].open > 0 THEN cov[c].open - 1 ELSE cov[c].open
  OBVIOUS
<1> DEFINE r == [cov[c] EXCEPT !.open = n]
<1>2. cov[c] \in CoverageShape /\ n \in Int
  BY DEF ClaimInv, Shapes, CoverageShape
<1>3. cov' = [cov EXCEPT ![c] = r]
  BY DEF SettleIneligible, ClaimInv, Shapes
<1>4. /\ r \in CoverageShape /\ r.status = cov[c].status /\ r.pact = cov[c].pact
      /\ r.start = cov[c].start /\ r.end = cov[c].end
  BY <1>2 DEF CoverageShape
<1> HIDE DEF r
<1>5. CoverageEffect
  BY <1>3, <1>4, ReplacedEffect
<1>6. turned \in ClaimShape
  BY DEF ClaimInv, Shapes, ClaimShape, ClaimStatus
<1>7. claim' \in [Claims -> ClaimShape] /\ claim'[k] = turned
      /\ \A j \in Claims \ {k} : claim'[j] = claim[j]
  BY <1>1, <1>6 DEF ClaimInv, Shapes
<1> QED
  BY <1>1, <1>5, <1>7, QuietEffect DEF CoverageEffect, TermsKept

\* Paid only by the final facts, and with the terms the coverage was sold with.
LEMMA PaidEffect ==
  ASSUME ClaimInv, IncidentsKept, UNCHANGED <<pact, incident, resolution>>,
         NEW k \in Claims, SettlePaid(k)
  PROVE  CoverageEffect /\ ClaimEffect
<1> PICK payout : payout = Due(k)
  OBVIOUS
<1>1. /\ k \in UsedClaims /\ Final(claim[k].incident) /\ payout > 0
      /\ claim' = [claim EXCEPT ![k].status = "SETTLED", ![k].payout = payout]
  BY DEF SettlePaid, Decidable, Pending, UsedClaims
<1> PICK c \in Coverages : c = claim[k].coverage /\ cov[c].status # "NONE"
  BY <1>1 DEF ClaimInv, Filed
<1>2. payout \in Int
      /\ Entitled(cov[c].start, cov[c].end, pact[cov[c].pact].terms,
                  resolution[claim[k].incident].facts)
  BY <1>1, DueIs
<1>3. CoverageEffect
  <2> PICK n : n = IF cov[c].reserved >= payout THEN cov[c].reserved - payout ELSE 0
    OBVIOUS
  <2> DEFINE less == [cov[c] EXCEPT !.remaining = cov[c].remaining - payout,
                                    !.paid = cov[c].paid + payout]
             r == [less EXCEPT !.reserved = n, !.open = cov[c].open - 1]
  <2>1. cov[c] \in CoverageShape
    BY DEF ClaimInv, Shapes
  <2>2. /\ cov[c].remaining - payout \in Int /\ cov[c].paid + payout \in Int
        /\ cov[c].open - 1 \in Int /\ n \in Int
    BY <1>2, <2>1 DEF CoverageShape
  <2>3. cov' = [cov EXCEPT ![c] = r]
    BY <2>1 DEF SettlePaid, ClaimInv, Shapes, CoverageShape
  <2>4. /\ less \in CoverageShape /\ less.status = cov[c].status /\ less.pact = cov[c].pact
        /\ less.start = cov[c].start /\ less.end = cov[c].end
    BY <2>1, <2>2 DEF CoverageShape
  <2> HIDE DEF less
  <2>5. /\ r \in CoverageShape /\ r.status = cov[c].status /\ r.pact = cov[c].pact
        /\ r.start = cov[c].start /\ r.end = cov[c].end
    BY <2>2, <2>4 DEF CoverageShape
  <2> HIDE DEF r
  <2> QED
    BY <2>3, <2>5, ReplacedEffect
<1> DEFINE settled == [claim[k] EXCEPT !.status = "SETTLED", !.payout = payout]
<1>4. settled \in ClaimShape /\ settled.coverage = c /\ settled.incident = claim[k].incident
  BY <1>2 DEF ClaimInv, Shapes, ClaimShape, ClaimStatus
<1>5. /\ claim' \in [Claims -> ClaimShape] /\ claim'[k] = settled
      /\ \A j \in Claims \ {k} : claim'[j] = claim[j]
  <2>1. claim' = [claim EXCEPT ![k] = settled]
    BY <1>1 DEF ClaimInv, Shapes
  <2> HIDE DEF settled
  <2> QED
    BY <1>4, <2>1 DEF ClaimInv, Shapes
<1> HIDE DEF settled
<1>6. Filed(k)'
  <2>1. /\ cov'[c].status # "NONE" /\ cov'[c].pact = cov[c].pact
        /\ cov'[c].start = cov[c].start /\ cov'[c].end = cov[c].end
    BY <1>3 DEF CoverageEffect, CoversKept
  <2>2. /\ claim[k].incident \in IncidentIds /\ incident[claim[k].incident].status # "NONE"
        /\ cov[c].start < incident[claim[k].incident].openedAt
    BY <1>1 DEF ClaimInv, Filed
  <2> QED
    BY <1>1, <1>2, <1>4, <1>5, <2>1, <2>2 DEF Filed, Final
<1>7. ASSUME NEW j \in Claims \ {k}, claim'[j].status # "NONE" PROVE Filed(j)'
  BY <1>3, <1>5, <1>7, FiledStays DEF CoverageEffect, UsedClaims, TermsKept
<1> QED
  BY <1>3, <1>5, <1>6, <1>7 DEF ClaimEffect

\* The timeout turns the undecided claims of its incident down.
LEMMA InconclusiveEffect ==
  ASSUME ClaimInv, IncidentsKept, UNCHANGED pact, NEW i \in IncidentIds, SettleInconclusive(i)
  PROVE  CoverageEffect /\ ClaimEffect
<1> DEFINE pending == {k \in ClaimsAbout(i) : Pending(k)}
           closed(c) == Cardinality({k \in pending : claim[k].coverage = c})
<1>1. /\ claim' = [k \in Claims |->
                     IF k \in pending THEN [claim[k] EXCEPT !.status = "INELIGIBLE"] ELSE claim[k]]
      /\ cov' = [c \in Coverages |-> [cov[c] EXCEPT !.open = @ - closed(c)]]
  BY Zenon DEF SettleInconclusive
<1>2. pending \subseteq UsedClaims
  BY DEF ClaimsAbout
<1>3. ASSUME NEW c \in Coverages PROVE closed(c) \in Nat
  <2> DEFINE those == {k \in pending : claim[k].coverage = c}
  <2>1. those \subseteq Claims
    BY <1>2 DEF UsedClaims
  <2>2. IsFiniteSet(those)
    BY <2>1, ClaimsAssumption, FS_Subset
  <2> QED
    BY <2>2, FS_CardinalityType
<1> HIDE DEF pending, closed
<1>4. ASSUME NEW c \in Coverages
      PROVE  /\ cov'[c] \in CoverageShape /\ cov'[c].status = cov[c].status
             /\ cov'[c].pact = cov[c].pact
             /\ cov'[c].start = cov[c].start /\ cov'[c].end = cov[c].end
  <2>1. cov[c] \in CoverageShape /\ closed(c) \in Nat
    BY <1>3 DEF ClaimInv, Shapes
  <2>2. cov'[c] = [cov[c] EXCEPT !.open = @ - closed(c)]
    BY <1>1
  <2> QED
    BY <2>1, <2>2 DEF CoverageShape
<1>5. CoverageEffect
  <2>1. cov' \in [Coverages -> CoverageShape]
    <3>1. cov' = [c \in Coverages |-> cov'[c]]
      BY <1>1
    <3> QED
      BY <1>4, <3>1
  <2> QED
    BY <1>4, <2>1 DEF CoverageEffect, CoversKept, ClaimInv, SoldFrozen
<1>6. claim' \in [Claims -> ClaimShape]
  <2>1. ASSUME NEW k \in Claims PROVE [claim[k] EXCEPT !.status = "INELIGIBLE"] \in ClaimShape
    BY DEF ClaimInv, Shapes, ClaimShape, ClaimStatus
  <2>2. \A k \in Claims : claim[k] \in ClaimShape
    BY DEF ClaimInv, Shapes
  <2> QED
    BY <1>1, <2>1, <2>2
<1>7. \A k \in Claims :
        claim'[k] = claim[k] \/
        (k \in UsedClaims /\ claim'[k] = [claim[k] EXCEPT !.status = "INELIGIBLE"])
  BY <1>1, <1>2
<1> QED
  BY <1>5, <1>6, <1>7, QuietEffect DEF CoverageEffect, TermsKept

-----------------------------------------------------------------------------

\* The invariant survives a step with these effects.
LEMMA EffectsKeep ==
  ASSUME ClaimInv, DisputeInv', UNCHANGED pact, CoverageEffect, ClaimEffect
  PROVE  ClaimInv'
<1>1. FrozenPublished' /\ OnSaleFrozen' /\ SoldFrozen'
  BY DEF ClaimInv, FrozenPublished, OnSaleFrozen, CoverageEffect, SoldFrozen
<1>2. Shapes'
  BY DEF CoverageEffect, ClaimEffect, Shapes
<1>3. \A k \in UsedClaims' : Filed(k)'
  BY DEF ClaimEffect, UsedClaims
<1> QED
  BY <1>1, <1>2, <1>3 DEF ClaimInv

\* So does one that leaves coverages and claims alone.
LEMMA CoversUnchanged ==
  ASSUME ClaimInv, UNCHANGED cov
  PROVE  CoverageEffect
BY DEF CoverageEffect, CoversKept, ClaimInv, Shapes, SoldFrozen

LEMMA ClaimsUnchanged ==
  ASSUME ClaimInv, CoversKept, IncidentsKept, TermsKept, UNCHANGED claim
  PROVE  ClaimEffect
BY QuietEffect DEF ClaimInv, Shapes

LEMMA ClaimInvKept ==
  ASSUME ClaimInv, [Next]_vars
  PROVE  ClaimInv'
<1>1. IncidentsKept
  BY StepKeepsIncidents DEF ClaimInv
<1>2. DisputeInv'
  <2>1. Basics'
    BY BasicsKept DEF ClaimInv, DisputeInv
  <2> QED
    BY <2>1, StepSplits, HandledKeeps, ElsewhereKeeps DEF ClaimInv
<1>3. CASE RegistryStep /\ UNCHANGED <<cov, claim>>
  <2>1. FrozenPublished' /\ TermsKept
    BY <1>3, RegistryKeepsTerms DEF ClaimInv, DisputeInv, Basics
  <2>2. OnSaleFrozen'
    BY <1>3, RegistryKeepsOnSale DEF ClaimInv, DisputeInv, Basics
  <2>3. CoversKept /\ Shapes' /\ SoldFrozen'
    BY <1>3, <2>1 DEF CoversKept, ClaimInv, Shapes, SoldFrozen, TermsKept
  <2>4. ClaimEffect
    BY <1>1, <1>3, <2>1, <2>3, ClaimsUnchanged
  <2> QED
    BY <1>2, <2>1, <2>2, <2>3, <2>4 DEF ClaimInv, ClaimEffect, UsedClaims
<1>4. CASE UnderwritingStep /\ UNCHANGED <<pact, claim>>
  BY <1>1, <1>2, <1>4, UnderwritingEffect, ClaimsUnchanged, EffectsKeep
  DEF CoverageEffect, TermsKept
<1>5. CASE UNCHANGED <<pact, cov, claim>>
  BY <1>1, <1>2, <1>5, CoversUnchanged, ClaimsUnchanged, EffectsKeep
  DEF CoverageEffect, TermsKept
<1>6. CASE \E i \in IncidentIds : SettleInconclusive(i) /\ UNCHANGED pact
  BY <1>1, <1>2, <1>6, InconclusiveEffect, EffectsKeep
<1>7. CASE ClaimStep /\ UNCHANGED <<pact, incident, resolution>>
  BY <1>1, <1>2, <1>7, FileEffect, IneligibleEffect, PaidEffect, EffectsKeep
  DEF ClaimStep, SettleClaim
<1>8. \/ RegistryStep /\ UNCHANGED <<cov, claim>>
      \/ UnderwritingStep /\ UNCHANGED <<pact, claim>>
      \/ UNCHANGED <<pact, cov, claim>>
      \/ \E i \in IncidentIds : SettleInconclusive(i) /\ UNCHANGED pact
      \/ ClaimStep /\ UNCHANGED <<pact, incident, resolution>>
  BY Zenon DEF Next, MarketStep, TimeStep, WithdrawStep, FinalizeInconclusiveTimeout,
               setupVars, registryVars, underwritingVars, incidentVars, claimVars, vars
<1> QED
  BY <1>3, <1>4, <1>5, <1>6, <1>7, <1>8

LEMMA ClaimInvStarts ==
  ASSUME Init
  PROVE  ClaimInv
<1>1. NoCoverage \in CoverageShape
  BY DEF NoCoverage, CoverageShape, CoverageStatus
<1>2. Shapes
  BY <1>1 DEF Init, UnderwritingInit, ClaimsInit, Shapes, ClaimShape, ClaimStatus
<1>3. SoldFrozen /\ UsedClaims = {}
  BY DEF Init, UnderwritingInit, ClaimsInit, NoCoverage, SoldFrozen, UsedClaims
<1>4. FrozenPublished /\ OnSaleFrozen
  BY DEF Init, RegistryInit, FrozenPublished, OnSaleFrozen
<1> QED
  BY <1>2, <1>3, <1>4, DisputeInvStarts DEF ClaimInv, Init, DisputeInit

LEMMA ClaimInvariant == Spec => []ClaimInv
<1>1. ClaimInv /\ [Next]_vars => ClaimInv'
  BY ClaimInvKept
<1> QED
  BY <1>1, ClaimInvStarts, PTL DEF Spec

\* Only a claim that the final facts and the terms it was sold with entitle is
\* ever paid, and nobody buys cover for an incident that is over.
THEOREM OnlyEntitledArePaid == Spec => []PaidOnlyIfEntitled
<1>1. ClaimInv => PaidOnlyIfEntitled
  BY DEF ClaimInv, Filed, PaidOnlyIfEntitled
<1> QED
  BY <1>1, ClaimInvariant, PTL
-----------------------------------------------------------------------------
(* The money *)


\* What is held for one report and for one challenge.
ReportHeld(inc) == IF inc.status \in {"NONE", "FINALIZED"} THEN 0 ELSE inc.reportBond
ChallengeHeld(ch) == IF ch.exists /\ ~ch.resolved THEN ch.bond ELSE 0

\* Who put up the bonds of an incident is known, and a bond that was paid back is
\* no longer held.
BondedAt(i) ==
  /\ incident[i].status # "NONE" =>
       incident[i].opener \in Accounts /\ incident[i].service \in Services
  /\ incident[i].bondRefunded => Final(i)
  /\ challenge[i].exists => challenge[i].challenger \in Accounts
  /\ challenge[i].bondRefunded => challenge[i].resolved

Bonded == \A i \in IncidentIds : BondedAt(i)

\* The amounts a step about a bond starts from.
Funds == balance \in Nat /\ credits \in [Accounts -> Nat]

-----------------------------------------------------------------------------
(* Bonds *)

LEMMA BondTypes ==
  ASSUME DisputeTypes
  PROVE  /\ ReportBondsHeld \in [IncidentIds -> Nat]
         /\ ChallengeBondsHeld \in [IncidentIds -> Nat]
         /\ Total(ReportBondsHeld) \in Nat /\ Total(ChallengeBondsHeld) \in Nat
         /\ \A i \in IncidentIds : /\ ReportBondsHeld[i] = ReportHeld(incident[i])
                                   /\ ChallengeBondsHeld[i] = ChallengeHeld(challenge[i])
<1>1. /\ ReportBondsHeld \in [IncidentIds -> Nat]
      /\ ChallengeBondsHeld \in [IncidentIds -> Nat]
  BY DEF DisputeTypes, IncidentType, DisputeType, ReportBondsHeld, ChallengeBondsHeld
<1>2. \A i \in IncidentIds : /\ ReportBondsHeld[i] = ReportHeld(incident[i])
                             /\ ChallengeBondsHeld[i] = ChallengeHeld(challenge[i])
  BY DEF ReportBondsHeld, ChallengeBondsHeld, ReportHeld, ChallengeHeld
<1> QED
  BY <1>1, <1>2, TotalType, IncidentsAssumption

\* When one incident changes, the totals change by what changes about it.
LEMMA BondsChange ==
  ASSUME DisputeTypes, DisputeTypes', NEW i \in IncidentIds, OthersKept(i)
  PROVE  /\ Total(ReportBondsHeld)' =
              Total(ReportBondsHeld) - ReportHeld(incident[i]) + ReportHeld(incident'[i])
         /\ Total(ChallengeBondsHeld)' =
              Total(ChallengeBondsHeld) - ChallengeHeld(challenge[i])
                + ChallengeHeld(challenge'[i])
<1> PICK reports : reports = ReportBondsHeld'
  OBVIOUS
<1> PICK challenges : challenges = ChallengeBondsHeld'
  OBVIOUS
<1>1. /\ reports \in [IncidentIds -> Nat] /\ challenges \in [IncidentIds -> Nat]
      /\ \A j \in IncidentIds : /\ reports[j] = ReportHeld(incident'[j])
                                /\ challenges[j] = ChallengeHeld(challenge'[j])
  BY DEF DisputeTypes, IncidentType, DisputeType, ReportBondsHeld, ChallengeBondsHeld,
         ReportHeld, ChallengeHeld
<1>2. \A j \in IncidentIds \ {i} : /\ ReportBondsHeld[j] = reports[j]
                                   /\ ChallengeBondsHeld[j] = challenges[j]
  BY <1>1, BondTypes DEF OthersKept
<1>3. ReportBondsHeld \in [IncidentIds -> Nat] /\ ChallengeBondsHeld \in [IncidentIds -> Nat]
  BY BondTypes
<1>4. Total(reports) = Total(ReportBondsHeld) - ReportBondsHeld[i] + reports[i]
  <2>1. \A j \in IncidentIds \ {i} : ReportBondsHeld[j] = reports[j]
    BY <1>2
  <2>2. reports \in [IncidentIds -> Nat] /\ IsFiniteSet(IncidentIds)
    BY <1>1, IncidentsAssumption
  <2> QED
    BY <1>3, <2>1, <2>2, TotalChange
<1>5. Total(challenges) = Total(ChallengeBondsHeld) - ChallengeBondsHeld[i] + challenges[i]
  <2>1. \A j \in IncidentIds \ {i} : ChallengeBondsHeld[j] = challenges[j]
    BY <1>2
  <2>2. challenges \in [IncidentIds -> Nat] /\ IsFiniteSet(IncidentIds)
    BY <1>1, IncidentsAssumption
  <2> QED
    BY <1>3, <2>1, <2>2, TotalChange
<1>6. Total(ReportBondsHeld)' = Total(reports) /\ Total(ChallengeBondsHeld)' = Total(challenges)
  OBVIOUS
<1> QED
  BY <1>1, <1>4, <1>5, <1>6, BondTypes

\* A credit adds up.
LEMMA CreditAdds ==
  ASSUME NEW cr \in [Accounts -> Nat], NEW who \in Accounts, NEW amount \in Nat
  PROVE  /\ Credit(cr, who, amount) \in [Accounts -> Nat] /\ Total(cr) \in Nat
         /\ Total(Credit(cr, who, amount)) = Total(cr) + amount
BY CreditType, CreditTotal, TotalType, LedgerAssumption

\* What an operation on incident i does to the tokens: what it takes in and pays
\* out is what the bonds held for i change by.
BondMoves(i) ==
  /\ balance' \in Nat /\ credits' \in [Accounts -> Nat]
  /\ BondedAt(i)'
  /\ balance' - Total(credits') - ReportHeld(incident'[i]) - ChallengeHeld(challenge'[i])
       = balance - Total(credits) - ReportHeld(incident[i]) - ChallengeHeld(challenge[i])

LEMMA OpenMoves ==
  ASSUME DisputeInv, Funds, NEW opener \in Accounts, NEW i \in IncidentIds, BondedAt(i),
         NEW s \in Services, NEW start, NEW end, NEW payment \in BondPayments, end \in Nat,
         OpenIncident(opener, i, s, start, end, payment), UNCHANGED now
  PROVE  BondMoves(i)
<1>1. incident[i].status = "NONE"
  BY DEF OpenIncident, IsNext, UsedIncidents
<1> PICK bond : bond = config.reportBond
  OBVIOUS
<1>2. bond \in Nat /\ payment \in Nat /\ payment - bond \in Nat
  BY IncidentsAssumption DEF OpenIncident, DisputeInv, Basics, GovernanceTypeOK, ConfigType
<1>3. /\ incident'[i].status = "OPEN" /\ incident'[i].opener = opener
      /\ incident'[i].service = s /\ incident'[i].reportBond = bond
      /\ ~incident'[i].bondRefunded
  <2> DEFINE about == [NoIncident EXCEPT !.status = "OPEN", !.service = s, !.opener = opener,
                         !.start = start, !.end = end, !.openedAt = now]
             timed == [about EXCEPT
                         !.evidenceDeadline = now + config.evidenceWindow,
                         !.resolutionDeadline = now + config.evidenceWindow + config.timeout,
                         !.challengeWindow = config.challengeWindow,
                         !.challengeEvidenceWindow = config.challengeEvidenceWindow]
             new == [timed EXCEPT
                       !.timeout = config.timeout, !.quorum = config.quorum,
                       !.reportBond = config.reportBond, !.challengeBond = config.challengeBond]
  <2>1. incident' = [incident EXCEPT ![i] = new]
    BY DEF OpenIncident
  <2>2. incident'[i] = new
    BY <2>1 DEF DisputeInv, DisputeTypes
  <2>3. /\ about.status = "OPEN" /\ about.service = s /\ about.opener = opener
        /\ about.bondRefunded = FALSE /\ DOMAIN about = DOMAIN NoIncident
    BY DEF NoIncident
  <2> HIDE DEF about
  <2>4. /\ timed.status = "OPEN" /\ timed.service = s /\ timed.opener = opener
        /\ timed.bondRefunded = FALSE /\ DOMAIN timed = DOMAIN NoIncident
    BY <2>3 DEF NoIncident
  <2> HIDE DEF timed
  <2>5. /\ new.status = "OPEN" /\ new.service = s /\ new.opener = opener
        /\ new.bondRefunded = FALSE /\ new.reportBond = bond
    BY <2>4 DEF NoIncident
  <2> HIDE DEF new
  <2> QED
    BY <2>2, <2>5
<1>4. ~challenge[i].exists /\ ~challenge[i].resolved /\ UNCHANGED challenge
  BY <1>1 DEF OpenIncident, DisputeInv, StageTells, Undecided
<1>5. ~challenge[i].bondRefunded
  BY <1>4 DEF BondedAt
<1>6. credits' = Credit(credits, opener, payment - bond) /\ balance' = balance + payment
  BY DEF OpenIncident
<1>7. /\ credits' \in [Accounts -> Nat] /\ Total(credits) \in Nat
      /\ Total(credits') = Total(credits) + (payment - bond)
  BY <1>2, <1>6, CreditAdds DEF Funds
<1> QED
  BY <1>1, <1>2, <1>3, <1>4, <1>5, <1>6, <1>7
  DEF BondMoves, BondedAt, ReportHeld, ChallengeHeld, Funds, Final

\* A step to another stage of an undecided incident holds what was held.
LEMMA StageMoves ==
  ASSUME Funds, NEW i \in IncidentIds, BondedAt(i),
         UNCHANGED <<balance, credits, challenge>>,
         incident[i].status \notin {"NONE", "FINALIZED"},
         incident'[i].status \notin {"NONE", "FINALIZED"},
         incident'[i].opener = incident[i].opener,
         incident'[i].service = incident[i].service,
         incident'[i].reportBond = incident[i].reportBond,
         incident'[i].bondRefunded = incident[i].bondRefunded
  PROVE  BondMoves(i)
<1>1. ReportHeld(incident'[i]) = ReportHeld(incident[i])
  BY DEF ReportHeld
<1> QED
  BY <1>1 DEF BondMoves, BondedAt, Funds, Final

LEMMA AcknowledgeMoves ==
  ASSUME DisputeInv, Funds, NEW caller, NEW i \in IncidentIds, BondedAt(i),
         AcknowledgeIncident(caller, i)
  PROVE  BondMoves(i)
<1>1. incident[i] \in IncidentType
  BY DEF DisputeInv, DisputeTypes
<1>2. incident'[i] = [incident[i] EXCEPT !.acknowledged = TRUE]
      /\ incident[i].status = "OPEN" /\ UNCHANGED <<balance, credits, challenge>>
  BY DEF AcknowledgeIncident, DisputeInv, DisputeTypes
<1> QED
  BY <1>1, <1>2, StageMoves DEF IncidentType

LEMMA SealMoves ==
  ASSUME DisputeInv, Funds, NEW i \in IncidentIds, BondedAt(i), SealEvidenceWindow(i)
  PROVE  BondMoves(i)
<1>1. incident[i] \in IncidentType
  BY DEF DisputeInv, DisputeTypes
<1>2. incident'[i] = [incident[i] EXCEPT !.status = "EVIDENCE_SEALED"]
      /\ incident[i].status = "OPEN" /\ UNCHANGED <<balance, credits, challenge>>
  BY DEF SealEvidenceWindow, DisputeInv, DisputeTypes
<1> QED
  BY <1>1, <1>2, StageMoves DEF IncidentType

LEMMA ResolveMoves ==
  ASSUME DisputeInv, Funds, NEW i \in IncidentIds, BondedAt(i), NEW facts,
         ResolveIncident(i, facts)
  PROVE  BondMoves(i)
<1> PICK deadline : deadline = now + incident[i].challengeWindow
  OBVIOUS
<1> DEFINE decided == [incident[i] EXCEPT !.status = "PRELIMINARY"]
           timed == [decided EXCEPT !.resolvedAt = now]
           new == [timed EXCEPT !.challengeDeadline = deadline]
<1>1. incident[i] \in IncidentType
  BY DEF DisputeInv, DisputeTypes
<1>2. /\ incident[i].status \in {"OPEN", "EVIDENCE_SEALED"}
      /\ incident' = [incident EXCEPT ![i] = new]
      /\ UNCHANGED <<balance, credits, challenge>>
  BY <1>1 DEF ResolveIncident, DisputeInv, DisputeTypes
<1>3. /\ decided.status = "PRELIMINARY" /\ decided.opener = incident[i].opener
      /\ decided.service = incident[i].service /\ decided.reportBond = incident[i].reportBond
      /\ decided.bondRefunded = incident[i].bondRefunded
      /\ DOMAIN decided = DOMAIN incident[i]
  BY <1>1 DEF IncidentType
<1> HIDE DEF decided
<1>4. /\ new.status = "PRELIMINARY" /\ new.opener = incident[i].opener
      /\ new.service = incident[i].service /\ new.reportBond = incident[i].reportBond
      /\ new.bondRefunded = incident[i].bondRefunded
  BY <1>1, <1>3 DEF IncidentType
<1> HIDE DEF new
<1>5. incident'[i] = new
  BY <1>2 DEF DisputeInv, DisputeTypes
<1> QED
  BY <1>2, <1>4, <1>5, StageMoves

LEMMA ChallengeMoves ==
  ASSUME DisputeInv, Funds, NEW challenger \in Accounts, NEW i \in IncidentIds, BondedAt(i),
         NEW payment \in BondPayments, ChallengeIncident(challenger, i, payment)
  PROVE  BondMoves(i)
<1> PICK bond : bond = incident[i].challengeBond
  OBVIOUS
<1> PICK deadline : deadline = now + incident[i].challengeEvidenceWindow
  OBVIOUS
<1> PICK last : last = deadline + incident[i].timeout
  OBVIOUS
<1> DEFINE moved == [incident[i] EXCEPT !.status = "CHALLENGED", !.rounds = incident[i].rounds + 1]
           new == [moved EXCEPT !.challengeEvidenceDeadline = deadline,
                                !.resolutionDeadline = last]
           raised == [exists |-> TRUE, challenger |-> challenger, bond |-> bond,
                      resolved |-> FALSE, changed |-> FALSE, bondRefunded |-> FALSE,
                      original |-> resolution[i].facts]
<1>1. incident[i] \in IncidentType
  BY DEF DisputeInv, DisputeTypes
<1>2. bond \in Nat /\ payment \in Nat /\ payment - bond \in Nat
  BY <1>1, IncidentsAssumption DEF ChallengeIncident, IncidentType
<1>3. /\ incident[i].status = "PRELIMINARY"
      /\ incident' = [incident EXCEPT ![i] = new]
      /\ challenge' = [challenge EXCEPT ![i] = raised]
      /\ credits' = Credit(credits, challenger, payment - bond)
      /\ balance' = balance + payment
  BY <1>1 DEF ChallengeIncident, DisputeInv, DisputeTypes
<1>4. /\ moved.status = "CHALLENGED" /\ moved.opener = incident[i].opener
      /\ moved.service = incident[i].service /\ moved.reportBond = incident[i].reportBond
      /\ moved.bondRefunded = incident[i].bondRefunded
      /\ DOMAIN moved = DOMAIN incident[i]
  BY <1>1 DEF IncidentType
<1> HIDE DEF moved
<1>5. /\ new.status = "CHALLENGED" /\ new.opener = incident[i].opener
      /\ new.service = incident[i].service /\ new.reportBond = incident[i].reportBond
      /\ new.bondRefunded = incident[i].bondRefunded
  BY <1>1, <1>4 DEF IncidentType
<1> HIDE DEF new
<1>6. incident'[i] = new /\ challenge'[i] = raised
  BY <1>3 DEF DisputeInv, DisputeTypes
<1>7. /\ credits' \in [Accounts -> Nat] /\ Total(credits) \in Nat
      /\ Total(credits') = Total(credits) + (payment - bond)
  BY <1>2, <1>3, CreditAdds DEF Funds
<1>8. /\ ReportHeld(incident'[i]) = ReportHeld(incident[i]) /\ ReportHeld(incident[i]) \in Nat
      /\ ChallengeHeld(challenge'[i]) = bond /\ ChallengeHeld(challenge[i]) = 0
  <2>1. ~challenge[i].exists
    BY <1>3 DEF DisputeInv, StageTells
  <2> QED
    BY <1>1, <1>3, <1>5, <1>6, <2>1 DEF ReportHeld, ChallengeHeld, IncidentType
<1>9. BondedAt(i)'
  BY <1>3, <1>5, <1>6 DEF BondedAt, Final
<1>10. balance' \in Nat
  BY <1>2, <1>3 DEF Funds
<1> QED
  BY <1>2, <1>3, <1>7, <1>8, <1>9, <1>10 DEF BondMoves, Funds

\* A challenge that is settled no longer holds its bond, which is due in full.
LEMMA SettledPays ==
  ASSUME NEW ch \in DisputeType, NEW changed \in BOOLEAN, ch.exists, ~ch.resolved,
         ch.bondRefunded => ch.resolved
  PROVE  /\ BondDue(ch) = ch.bond /\ ch.bond \in Nat
         /\ ChallengeHeld(ch) = ch.bond /\ ChallengeHeld(Settled(ch, changed)) = 0
         /\ Settled(ch, changed).resolved /\ Settled(ch, changed).challenger = ch.challenger
BY DEF BondDue, ChallengeHeld, Settled, DisputeType

\* Whoever the bond of a challenge goes to, it is paid once.
LEMMA ResolveChallengeMoves ==
  ASSUME DisputeInv, Funds, NEW i \in IncidentIds, BondedAt(i), NEW facts,
         ResolveChallenge(i, facts)
  PROVE  BondMoves(i)
<1> PICK ch : ch = challenge[i]
  OBVIOUS
<1> PICK changed \in BOOLEAN : changed = (facts # ch.original)
  OBVIOUS
<1> PICK settled : settled = Settled(ch, changed)
  OBVIOUS
<1> PICK who : who = IF changed THEN ch.challenger ELSE config.role["treasury"]
  OBVIOUS
<1>1. incident[i] \in IncidentType /\ ch \in DisputeType
  BY DEF DisputeInv, DisputeTypes
<1>2. /\ incident[i].status = "CHALLENGED" /\ ch.exists /\ ~ch.resolved
      /\ challenge' = [challenge EXCEPT ![i] = settled]
      /\ credits' = Credit(credits, who, BondDue(ch))
      /\ incident' = [incident EXCEPT ![i] = [incident[i] EXCEPT !.status = "CHALLENGE_RESOLVED"]]
      /\ UNCHANGED balance
  BY DEF ResolveChallenge
<1>3. incident'[i] = [incident[i] EXCEPT !.status = "CHALLENGE_RESOLVED"]
      /\ challenge'[i] = settled
  BY <1>2 DEF DisputeInv, DisputeTypes
<1>4. /\ incident'[i].status = "CHALLENGE_RESOLVED" /\ incident'[i].opener = incident[i].opener
      /\ incident'[i].service = incident[i].service
      /\ incident'[i].reportBond = incident[i].reportBond
      /\ incident'[i].bondRefunded = incident[i].bondRefunded
  BY <1>1, <1>3 DEF IncidentType
<1>5. /\ BondDue(ch) = ch.bond /\ ch.bond \in Nat
      /\ ChallengeHeld(ch) = ch.bond /\ ChallengeHeld(settled) = 0
      /\ settled.resolved /\ settled.challenger = ch.challenger
  BY <1>1, <1>2, SettledPays DEF BondedAt
<1>6. who \in Accounts
  <2>1. ch.challenger \in Accounts
    BY <1>2 DEF BondedAt
  <2>2. config.role["treasury"] \in Accounts
    BY DEF DisputeInv, Basics, GovernanceTypeOK, ConfigType, Roles
  <2> QED
    BY <2>1, <2>2
<1>7. /\ credits' \in [Accounts -> Nat] /\ Total(credits) \in Nat
      /\ Total(credits') = Total(credits) + ch.bond
  <2>1. credits' = Credit(credits, who, ch.bond) /\ ch.bond \in Nat
    BY <1>2, <1>5
  <2>2. credits \in [Accounts -> Nat]
    BY DEF Funds
  <2> QED
    BY ONLY <1>6, <2>1, <2>2, CreditAdds
<1>8. ReportHeld(incident'[i]) = ReportHeld(incident[i]) /\ ReportHeld(incident[i]) \in Nat
  BY <1>1, <1>2, <1>4 DEF ReportHeld, IncidentType
<1>9. BondedAt(i)'
  BY <1>2, <1>3, <1>4, <1>5 DEF BondedAt, Final
<1> QED
  BY <1>2, <1>3, <1>5, <1>7, <1>8, <1>9 DEF BondMoves, Funds

\* A final incident has paid its report bond back, from whatever credits it found.
LEMMA FinalMoves ==
  ASSUME DisputeInv, NEW i \in IncidentIds, BondedAt(i), NEW res, NEW cr \in [Accounts -> Nat],
         incident[i].status \notin {"NONE", "FINALIZED"},
         FinalizeStored(i, incident[i], res, cr)
  PROVE  /\ credits' \in [Accounts -> Nat] /\ Total(cr) \in Nat
         /\ Total(credits') = Total(cr) + ReportHeld(incident[i])
         /\ ReportHeld(incident[i]) \in Nat /\ ReportHeld(incident'[i]) = 0
         /\ incident'[i].status = "FINALIZED"
         /\ incident'[i].opener = incident[i].opener
         /\ incident'[i].service = incident[i].service
<1> PICK refunded : refunded = (incident[i].bondRefunded \/ incident[i].reportBond > 0)
  OBVIOUS
<1> DEFINE new == [incident[i] EXCEPT !.status = "FINALIZED", !.finalizedAt = now,
                                      !.bondRefunded = refunded]
<1>1. incident[i] \in IncidentType
  BY DEF DisputeInv, DisputeTypes
<1>2. /\ incident' = [incident EXCEPT ![i] = new]
      /\ credits' = Credit(cr, incident[i].opener, ReportBondDue(incident[i]))
  BY DEF FinalizeStored
<1>3. /\ new.status = "FINALIZED" /\ new.opener = incident[i].opener
      /\ new.service = incident[i].service
  BY <1>1 DEF IncidentType
<1> HIDE DEF new
<1>4. incident'[i] = new
  BY <1>2 DEF DisputeInv, DisputeTypes
<1>5. /\ ReportBondDue(incident[i]) = incident[i].reportBond
      /\ ReportHeld(incident[i]) = incident[i].reportBond /\ incident[i].reportBond \in Nat
      /\ incident[i].opener \in Accounts
  BY <1>1 DEF ReportBondDue, ReportHeld, BondedAt, Final, IncidentType
<1>6. /\ credits' \in [Accounts -> Nat] /\ Total(cr) \in Nat
      /\ Total(credits') = Total(cr) + incident[i].reportBond
  BY <1>2, <1>5, CreditAdds
<1> QED
  BY <1>3, <1>4, <1>5, <1>6 DEF ReportHeld

LEMMA FinalizeMoves ==
  ASSUME DisputeInv, Funds, NEW i \in IncidentIds, BondedAt(i),
         FinalizeIncident(i) \/ TimeoutUndecided(i)
  PROVE  BondMoves(i)
<1>1. /\ \E res : FinalizeStored(i, incident[i], res, credits)
      /\ UNCHANGED <<challenge, balance>>
      /\ incident[i].status \notin {"NONE", "FINALIZED"}
  BY DEF FinalizeIncident, CanFinalize, TimeoutUndecided, TimedOut
<1>2. /\ credits' \in [Accounts -> Nat] /\ Total(credits) \in Nat
      /\ Total(credits') = Total(credits) + ReportHeld(incident[i])
      /\ ReportHeld(incident[i]) \in Nat /\ ReportHeld(incident'[i]) = 0
      /\ incident'[i].status = "FINALIZED"
      /\ incident'[i].opener = incident[i].opener
      /\ incident'[i].service = incident[i].service
  BY <1>1, FinalMoves DEF Funds
<1>3. BondedAt(i)'
  BY <1>1, <1>2 DEF BondedAt, Final
<1>4. ChallengeHeld(challenge[i]) \in Nat
  BY DEF ChallengeHeld, DisputeInv, DisputeTypes, DisputeType
<1> QED
  BY <1>1, <1>2, <1>3, <1>4 DEF BondMoves, Funds

LEMMA TimeoutChallengeMoves ==
  ASSUME DisputeInv, Funds, NEW i \in IncidentIds, BondedAt(i), TimeoutChallenge(i)
  PROVE  BondMoves(i)
<1> PICK ch : ch = challenge[i]
  OBVIOUS
<1> PICK settled : settled = Settled(ch, FALSE)
  OBVIOUS
<1> PICK cr : cr = Credit(credits, config.role["treasury"], BondDue(ch))
  OBVIOUS
<1>1. /\ incident[i].status = "CHALLENGED" /\ ch.exists /\ ~ch.resolved
      /\ challenge' = [challenge EXCEPT ![i] = settled]
      /\ \E res : FinalizeStored(i, incident[i], res, cr)
      /\ UNCHANGED balance
  BY DEF TimeoutChallenge
<1>2. ch \in DisputeType /\ challenge'[i] = settled
  BY <1>1 DEF DisputeInv, DisputeTypes
<1>3. /\ BondDue(ch) = ch.bond /\ ch.bond \in Nat
      /\ ChallengeHeld(ch) = ch.bond /\ ChallengeHeld(settled) = 0
      /\ settled.resolved /\ settled.challenger = ch.challenger
  BY <1>1, <1>2, SettledPays DEF BondedAt
<1>4. config.role["treasury"] \in Accounts
  BY DEF DisputeInv, Basics, GovernanceTypeOK, ConfigType, Roles
<1>5. /\ cr \in [Accounts -> Nat] /\ Total(credits) \in Nat
      /\ Total(cr) = Total(credits) + ch.bond
  BY <1>3, <1>4, CreditAdds DEF Funds
<1>6. /\ credits' \in [Accounts -> Nat]
      /\ Total(credits') = Total(cr) + ReportHeld(incident[i])
      /\ ReportHeld(incident[i]) \in Nat /\ ReportHeld(incident'[i]) = 0
      /\ incident'[i].status = "FINALIZED"
      /\ incident'[i].opener = incident[i].opener
      /\ incident'[i].service = incident[i].service
  BY <1>1, <1>5, FinalMoves
<1>7. BondedAt(i)'
  BY <1>1, <1>2, <1>3, <1>6 DEF BondedAt, Final
<1>8. ChallengeHeld(challenge[i]) = ch.bond /\ ChallengeHeld(challenge'[i]) = 0
  BY <1>2, <1>3
<1>9. Total(credits') = Total(credits) + ch.bond + ReportHeld(incident[i])
  BY <1>3, <1>5, <1>6
<1>10. balance' = balance /\ balance \in Nat
  BY <1>1 DEF Funds
<1>11. balance' - Total(credits') - ReportHeld(incident'[i]) - ChallengeHeld(challenge'[i])
         = balance - Total(credits) - ReportHeld(incident[i]) - ChallengeHeld(challenge[i])
  BY <1>3, <1>5, <1>6, <1>8, <1>9, <1>10
<1> QED
  BY <1>6, <1>7, <1>10, <1>11 DEF BondMoves

\* Every operation on incidents moves the tokens so.
LEMMA HandlingMoves ==
  ASSUME DisputeInv, Funds, Bonded, HandlingStep
  PROVE  \E i \in IncidentIds : Handled(i) /\ BondMoves(i)
<1>1. UNCHANGED now
  BY DEF HandlingStep
<1> PICK i \in IncidentIds :
       \/ \E opener \in Accounts, s \in Services, lag \in ObservedLags,
             span \in ObservedSpans, payment \in BondPayments :
            OpenIncident(opener, i, s, now - lag - span, now - lag, payment)
       \/ \E caller \in Accounts : AcknowledgeIncident(caller, i)
       \/ SealEvidenceWindow(i)
       \/ \E facts \in Findings(i) : ResolveIncident(i, facts) \/ ResolveChallenge(i, facts)
       \/ \E challenger \in Accounts, payment \in BondPayments :
            ChallengeIncident(challenger, i, payment)
       \/ FinalizeIncident(i)
  BY Zenon DEF HandlingStep
<1>2. BondedAt(i)
  BY DEF Bonded
<1>3. CASE \E opener \in Accounts, s \in Services, lag \in ObservedLags,
              span \in ObservedSpans, payment \in BondPayments :
             OpenIncident(opener, i, s, now - lag - span, now - lag, payment)
  <2> PICK opener \in Accounts, s \in Services, lag \in ObservedLags,
           span \in ObservedSpans, payment \in BondPayments :
         OpenIncident(opener, i, s, now - lag - span, now - lag, payment)
    BY <1>3, Zenon
  <2>1. now - lag \in Nat
    <3>1. now \in Nat /\ lag \in Nat /\ span \in Nat
      BY IncidentsAssumption DEF DisputeInv, Basics
    <3>2. now - lag - span \in Nat /\ now - lag - span < now - lag
      BY DEF OpenIncident
    <3> QED
      BY <3>1, <3>2
  <2>2. Handled(i)
    BY <1>1, <2>1, OpenHandles
  <2>3. BondMoves(i)
    BY <1>1, <1>2, <2>1, OpenMoves
  <2> QED
    BY <2>2, <2>3
<1>4. CASE \E caller \in Accounts : AcknowledgeIncident(caller, i)
  BY <1>1, <1>2, <1>4, AcknowledgeHandles, AcknowledgeMoves
<1>5. CASE \E facts \in Findings(i) : ResolveIncident(i, facts) \/ ResolveChallenge(i, facts)
  BY <1>1, <1>2, <1>5, ResolveHandles, ResolveChallengeHandles, ResolveMoves,
     ResolveChallengeMoves
<1>6. CASE \E challenger \in Accounts, payment \in BondPayments :
             ChallengeIncident(challenger, i, payment)
  BY <1>1, <1>2, <1>6, ChallengeHandles, ChallengeMoves
<1>7. CASE SealEvidenceWindow(i) \/ FinalizeIncident(i)
  BY <1>1, <1>2, <1>7, SealHandles, SealMoves, FinalizeHandles, FinalizeMoves
<1> QED
  BY <1>3, <1>4, <1>5, <1>6, <1>7

LEMMA TimeoutMoves ==
  ASSUME DisputeInv, Funds, Bonded, NEW i \in IncidentIds, TimeoutStep(i)
  PROVE  Handled(i) /\ BondMoves(i)
BY TimeoutIsHandled, FinalizeMoves, TimeoutChallengeMoves DEF TimeoutStep, Bonded

\* What is owed besides the bonds follows the vaults, the credits and the premiums;
\* a step about an incident touches the credits alone.
LEMMA MovesConserve ==
  ASSUME DisputeInv, DisputeTypes', UnderwritingTypeOK, Funds, Bonded, Conservation,
         NEW i \in IncidentIds, Handled(i), BondMoves(i),
         Total(VaultTotals)' = Total(VaultTotals), Total(HeldPremiums)' = Total(HeldPremiums)
  PROVE  Conservation' /\ Bonded' /\ Funds'
<1>1. Bonded' /\ Funds'
  BY DEF Bonded, BondedAt, BondMoves, Funds, Handled, OthersKept, Final
<1>2. /\ Total(VaultTotals) \in Nat /\ Total(credits) \in Nat /\ Total(HeldPremiums) \in Nat
      /\ Total(credits') \in Nat
  BY OwedType, TotalType, LedgerAssumption DEF Funds, BondMoves
<1>3. /\ Total(ReportBondsHeld) \in Nat /\ Total(ChallengeBondsHeld) \in Nat
      /\ ReportHeld(incident[i]) \in Nat /\ ChallengeHeld(challenge[i]) \in Nat
      /\ ReportHeld(incident'[i]) \in Nat /\ ChallengeHeld(challenge'[i]) \in Nat
  <2>1. Total(ReportBondsHeld) \in Nat /\ Total(ChallengeBondsHeld) \in Nat
    BY BondTypes DEF DisputeInv
  <2> QED
    BY <2>1 DEF DisputeInv, DisputeTypes, IncidentType, DisputeType, ReportHeld, ChallengeHeld
<1>4. /\ Total(ReportBondsHeld)' =
           Total(ReportBondsHeld) - ReportHeld(incident[i]) + ReportHeld(incident'[i])
      /\ Total(ChallengeBondsHeld)' =
           Total(ChallengeBondsHeld) - ChallengeHeld(challenge[i]) + ChallengeHeld(challenge'[i])
  BY BondsChange DEF DisputeInv, Handled
<1>5. /\ balance \in Nat /\ balance' \in Nat
      /\ balance = Total(VaultTotals) + Total(credits) + Total(HeldPremiums)
                     + Total(ReportBondsHeld) + Total(ChallengeBondsHeld)
      /\ balance' - Total(credits') - ReportHeld(incident'[i]) - ChallengeHeld(challenge'[i])
           = balance - Total(credits) - ReportHeld(incident[i]) - ChallengeHeld(challenge[i])
  BY DEF Funds, Conservation, BondMoves
<1>6. balance' = Total(VaultTotals) + Total(credits') + Total(HeldPremiums)
                   + (Total(ReportBondsHeld) - ReportHeld(incident[i]) + ReportHeld(incident'[i]))
                   + (Total(ChallengeBondsHeld) - ChallengeHeld(challenge[i])
                        + ChallengeHeld(challenge'[i]))
  BY <1>2, <1>3, <1>5
<1>7. Conservation' = (balance' = Total(VaultTotals)' + Total(credits') + Total(HeldPremiums)'
                                    + Total(ReportBondsHeld)' + Total(ChallengeBondsHeld)')
  BY DEF Conservation
<1> QED
  BY <1>1, <1>4, <1>6, <1>7

-----------------------------------------------------------------------------
(* Open claims *)

\* The claims a coverage still has to wait for.
Waiting(c) == {k \in ClaimsOn(c) : Pending(k)}

\* Whoever filed a claim may be paid.
Claimants == \A k \in UsedClaims : claim[k].claimant \in Accounts

LEMMA WaitingFinite ==
  ASSUME NEW c
  PROVE  IsFiniteSet(Waiting(c)) /\ Cardinality(Waiting(c)) \in Nat
<1>1. Waiting(c) \subseteq Claims
  BY DEF Waiting, ClaimsOn, UsedClaims
<1> QED
  BY <1>1, ClaimsAssumption, FS_Subset, FS_CardinalityType

LEMMA OpenClaimsAre ==
  OpenClaimsMatch <=>
    \A c \in Coverages :
      /\ cov[c].open = Cardinality(Waiting(c))
      /\ Waiting(c) # {} => ~cov[c].reserveReleased
BY DEF OpenClaimsMatch, Waiting

\* A claim that is pending is counted.
LEMMA PendingIsOpen ==
  ASSUME OpenClaimsMatch, ClaimInv, NEW k \in Claims, Pending(k)
  PROVE  /\ k \in UsedClaims /\ claim[k].coverage \in Coverages
         /\ k \in Waiting(claim[k].coverage)
         /\ cov[claim[k].coverage].open \in Nat /\ cov[claim[k].coverage].open >= 1
<1>1. k \in UsedClaims
  BY DEF Pending, UsedClaims
<1> PICK c \in Coverages : c = claim[k].coverage
  BY <1>1 DEF ClaimInv, Filed
<1>2. k \in Waiting(c)
  BY <1>1 DEF Waiting, ClaimsOn
<1>3. Cardinality(Waiting(c)) \in Nat /\ Cardinality(Waiting(c)) # 0
  BY <1>2, WaitingFinite, FS_EmptySet
<1> QED
  BY <1>1, <1>2, <1>3, OpenClaimsAre

LEMMA FileCounts ==
  ASSUME ClaimInv, UnderwritingTypeOK, ReleasedEmpty, OpenClaimsMatch, Claimants,
         NEW filer \in Accounts, NEW k \in Claims, NEW c \in Coverages, NEW i \in IncidentIds,
         FileClaim(filer, k, c, i)
  PROVE  OpenClaimsMatch' /\ Claimants'
<1>1. /\ k \notin UsedClaims
      /\ claim'[k].status = "PENDING_RESOLUTION" /\ claim'[k].coverage = c
      /\ claim'[k].claimant = filer
      /\ \A j \in Claims \ {k} : claim'[j] = claim[j]
  BY DEF FileClaim, IsNext, ClaimInv, Shapes
<1>2. /\ cov'[c].open = cov[c].open + 1 /\ cov'[c].reserveReleased = cov[c].reserveReleased
      /\ cov[c].status # "RELEASED"
      /\ \A b \in Coverages \ {c} : cov'[b] = cov[b]
  BY DEF FileClaim, UnderwritingTypeOK, CoverageType
<1>3. ~cov[c].reserveReleased
  BY <1>2 DEF ReleasedEmpty
<1>4. Waiting(c)' = Waiting(c) \cup {k} /\ k \notin Waiting(c)
  BY <1>1 DEF Waiting, ClaimsOn, UsedClaims, Pending
<1>5. \A b \in Coverages \ {c} : Waiting(b)' = Waiting(b)
  BY <1>1 DEF Waiting, ClaimsOn, UsedClaims, Pending
<1>6. Cardinality(Waiting(c)') = cov[c].open + 1
  <2>1. cov[c].open = Cardinality(Waiting(c))
    BY OpenClaimsAre
  <2> QED
    BY <1>4, <2>1, WaitingFinite, FS_AddElement
<1>7. \A b \in Coverages : /\ cov'[b].open = Cardinality(Waiting(b)')
                           /\ Waiting(b)' # {} => ~cov'[b].reserveReleased
  BY <1>2, <1>3, <1>5, <1>6, OpenClaimsAre
<1>8. OpenClaimsMatch'
  BY <1>7 DEF OpenClaimsMatch, Waiting
<1>9. Claimants'
  BY <1>1 DEF Claimants, UsedClaims
<1> QED
  BY <1>8, <1>9

\* Deciding one claim takes it off the counter.
LEMMA SettleCounts ==
  ASSUME ClaimInv, OpenClaimsMatch, Claimants, NEW k \in Claims, Pending(k),
         NEW c \in Coverages, c = claim[k].coverage,
         claim'[k].status \in {"SETTLED", "INELIGIBLE"}, claim'[k].coverage = c,
         claim'[k].claimant = claim[k].claimant,
         \A j \in Claims \ {k} : claim'[j] = claim[j],
         cov'[c].open = cov[c].open - 1,
         \A b \in Coverages \ {c} : cov'[b] = cov[b],
         cov'[c].reserveReleased = cov[c].reserveReleased
  PROVE  OpenClaimsMatch' /\ Claimants'
<1>1. k \in UsedClaims /\ k \in Waiting(c)
  BY PendingIsOpen
<1>2. Waiting(c)' = Waiting(c) \ {k}
  BY <1>1 DEF Waiting, ClaimsOn, UsedClaims, Pending
<1>3. \A b \in Coverages \ {c} : Waiting(b)' = Waiting(b)
  BY <1>1 DEF Waiting, ClaimsOn, UsedClaims, Pending
<1>4. Cardinality(Waiting(c)') = cov[c].open - 1
  <2>1. cov[c].open = Cardinality(Waiting(c))
    BY OpenClaimsAre
  <2> QED
    BY <1>1, <1>2, <2>1, WaitingFinite, FS_RemoveElement
<1>5. ~cov[c].reserveReleased
  BY <1>1, OpenClaimsAre
<1>6. \A b \in Coverages : /\ cov'[b].open = Cardinality(Waiting(b)')
                           /\ Waiting(b)' # {} => ~cov'[b].reserveReleased
  BY <1>3, <1>4, <1>5, OpenClaimsAre
<1>7. OpenClaimsMatch'
  BY <1>6 DEF OpenClaimsMatch, Waiting
<1>8. Claimants'
  BY <1>1 DEF Claimants, UsedClaims
<1> QED
  BY <1>7, <1>8

\* The timeout takes as many claims off each counter as it turns down.
LEMMA InconclusiveCounts ==
  ASSUME ClaimInv, UnderwritingTypeOK, OpenClaimsMatch, Claimants, NEW i \in IncidentIds,
         SettleInconclusive(i)
  PROVE  /\ OpenClaimsMatch' /\ Claimants'
         /\ \A c \in Coverages :
              \E n \in Nat : cov'[c] = [cov[c] EXCEPT !.open = n]
                             /\ (cov[c].status = "NONE" => n = cov[c].open)
<1> DEFINE pending == {k \in ClaimsAbout(i) : Pending(k)}
           these(c) == {k \in pending : claim[k].coverage = c}
<1>1. /\ \A c \in Coverages : Cardinality(these(c)) <= cov[c].open
      /\ claim' = [k \in Claims |->
                     IF k \in pending THEN [claim[k] EXCEPT !.status = "INELIGIBLE"] ELSE claim[k]]
      /\ cov' = [c \in Coverages |-> [cov[c] EXCEPT !.open = @ - Cardinality(these(c))]]
  BY Zenon DEF SettleInconclusive
<1>2. pending \subseteq UsedClaims /\ \A k \in pending : Pending(k)
  BY DEF ClaimsAbout
<1>3. \A k \in Claims :
        /\ claim'[k].coverage = claim[k].coverage /\ claim'[k].claimant = claim[k].claimant
        /\ claim'[k].status = IF k \in pending THEN "INELIGIBLE" ELSE claim[k].status
  <2>1. \A k \in Claims : claim[k] \in ClaimShape
    BY DEF ClaimInv, Shapes
  <2> HIDE DEF pending
  <2> QED
    BY <1>1, <2>1 DEF ClaimShape
<1>4. ASSUME NEW c \in Coverages
      PROVE  /\ these(c) \subseteq Waiting(c) /\ Waiting(c)' = Waiting(c) \ these(c)
             /\ Cardinality(these(c)) \in Nat
  <2>1. these(c) \subseteq Waiting(c)
    BY <1>2 DEF Waiting, ClaimsOn
  <2>2. Waiting(c)' = Waiting(c) \ these(c)
    <3> HIDE DEF pending
    <3> QED
      BY <1>2, <1>3 DEF Waiting, ClaimsOn, UsedClaims, Pending
  <2> HIDE DEF these
  <2> QED
    BY <2>1, <2>2, WaitingFinite, FS_Subset, FS_CardinalityType
<1> HIDE DEF pending, these
<1>5. ASSUME NEW c \in Coverages
      PROVE  Cardinality(Waiting(c)') = Cardinality(Waiting(c)) - Cardinality(these(c))
  <2>1. Waiting(c) \cap these(c) = these(c)
    BY <1>4
  <2> QED
    BY <1>4, <2>1, WaitingFinite, FS_Difference
<1>6. ASSUME NEW c \in Coverages
      PROVE  /\ cov'[c] = [cov[c] EXCEPT !.open = cov[c].open - Cardinality(these(c))]
             /\ cov'[c].open = cov[c].open - Cardinality(these(c))
             /\ cov'[c].reserveReleased = cov[c].reserveReleased
             /\ cov[c].open - Cardinality(these(c)) \in Nat
  <2>1. cov[c] \in CoverageType
    BY DEF UnderwritingTypeOK
  <2>2. cov'[c] = [cov[c] EXCEPT !.open = cov[c].open - Cardinality(these(c))]
    BY <1>1
  <2>3. cov[c].open - Cardinality(these(c)) \in Nat
    BY <1>1, <1>4, <2>1 DEF CoverageType
  <2> QED
    BY <2>1, <2>2, <2>3 DEF CoverageType
<1>7. \A c \in Coverages : /\ cov'[c].open = Cardinality(Waiting(c)')
                           /\ Waiting(c)' # {} => ~cov'[c].reserveReleased
  <2> SUFFICES ASSUME NEW c \in Coverages
               PROVE  /\ cov'[c].open = Cardinality(Waiting(c)')
                      /\ Waiting(c)' # {} => ~cov'[c].reserveReleased
    OBVIOUS
  <2>1. /\ cov[c].open = Cardinality(Waiting(c))
        /\ Waiting(c) # {} => ~cov[c].reserveReleased
    BY OpenClaimsAre
  <2>2. Waiting(c)' # {} => Waiting(c) # {}
    BY <1>4
  <2> QED
    BY <1>5, <1>6, <2>1, <2>2
<1>8. OpenClaimsMatch'
  BY <1>7 DEF OpenClaimsMatch, Waiting
<1>9. Claimants'
  BY <1>2, <1>3 DEF Claimants, UsedClaims
<1>10. ASSUME NEW c \in Coverages, cov[c].status = "NONE"
       PROVE  cov[c].open - Cardinality(these(c)) = cov[c].open
  <2>1. Waiting(c) = {}
    BY <1>10 DEF Waiting, ClaimsOn, ClaimInv, Filed
  <2>2. these(c) = {}
    BY <1>4, <2>1
  <2>3. cov[c].open \in Nat /\ Cardinality(these(c)) = 0
    BY <2>2, FS_EmptySet DEF UnderwritingTypeOK, CoverageType
  <2> QED
    BY <2>3
<1> QED
  BY <1>6, <1>8, <1>9, <1>10

\* Sales and capital moves change no counter: a coverage is sold without claims and
\* released once none is open.
LEMMA UnderwritingCounts ==
  ASSUME Typed, ClaimInv, OpenClaimsMatch, UnderwritingStep, UNCHANGED claim
  PROVE  OpenClaimsMatch'
<1>1. \A c \in Coverages : Waiting(c)' = Waiting(c)
  BY DEF Waiting, ClaimsOn, UsedClaims, Pending
<1>2. CASE CapitalStep
  <2>1. UNCHANGED cov
    BY <1>2, CapitalKeepsCoverages
  <2>2. \A c \in Coverages : /\ cov'[c].open = Cardinality(Waiting(c)')
                             /\ Waiting(c)' # {} => ~cov'[c].reserveReleased
    BY <1>1, <2>1, OpenClaimsAre
  <2> QED
    BY <2>2 DEF OpenClaimsMatch, Waiting
<1>3. CASE CoverageStep
  <2> PICK c \in Coverages : CoverageStep!(c)
    BY <1>3 DEF CoverageStep
  <2>1. cov[c] \in CoverageType /\ cov \in [Coverages -> CoverageType]
    BY DEF Typed, UnderwritingTypeOK
  <2>2. /\ cov[c].open = Cardinality(Waiting(c))
        /\ Waiting(c) # {} => ~cov[c].reserveReleased
    BY OpenClaimsAre
  <2>3. /\ cov'[c].open = cov[c].open
        /\ Waiting(c) # {} => ~cov'[c].reserveReleased
        /\ \A b \in Coverages \ {c} : cov'[b] = cov[b]
    <3>1. CASE \E buyer \in Accounts, d \in Pacts, limit \in LimitInputs,
                  duration \in DurationInputs, maxPremium \in MaxPremiumInputs,
                  payment \in PaymentInputs :
                 BuyCoverage(buyer, c, d, limit, duration, maxPremium, payment)
      <4>1. /\ cov'[c].open = 0 /\ cov[c].status = "NONE"
            /\ \A b \in Coverages \ {c} : cov'[b] = cov[b]
        BY <2>1, <3>1 DEF BuyCoverage, IsNext, UsedCoverages
      <4>2. Waiting(c) = {} /\ cov[c].open = 0
        BY <4>1 DEF Waiting, ClaimsOn, ClaimInv, Filed, Typed, Unsold, NoCoverage
      <4> QED
        BY <4>1, <4>2
    <3>2. CASE ExpireCoverage(c)
      BY <2>1, <2>2, <3>2 DEF ExpireCoverage, CoverageType
    <3>3. CASE ReleaseEarnedPremium(c)
      <4>1. /\ cov'[c].open = cov[c].open /\ cov[c].open = 0
            /\ \A b \in Coverages \ {c} : cov'[b] = cov[b]
        BY <2>1, <3>3 DEF ReleaseEarnedPremium, Releasable, CoverageType
      <4>2. Waiting(c) = {}
        BY <2>2, <4>1, WaitingFinite, FS_EmptySet
      <4> QED
        BY <4>1, <4>2
    <3> QED
      BY <3>1, <3>2, <3>3
  <2>4. \A b \in Coverages : /\ cov'[b].open = Cardinality(Waiting(b)')
                             /\ Waiting(b)' # {} => ~cov'[b].reserveReleased
    BY <1>1, <2>2, <2>3, OpenClaimsAre
  <2> QED
    BY <2>4 DEF OpenClaimsMatch, Waiting
<1> QED
  BY <1>2, <1>3 DEF UnderwritingStep

-----------------------------------------------------------------------------
(* Claims and the capital *)

\* What the counters of open claims may do without touching money.
OnlyOpenMoves ==
  /\ cov' = [c \in Coverages |-> cov'[c]]
  /\ \A c \in Coverages :
       \E n \in Nat : cov'[c] = [cov[c] EXCEPT !.open = n]
                      /\ (cov[c].status = "NONE" => n = cov[c].open)
  /\ UNCHANGED <<vault, pactAllocated, pactReserved, salesStats, registryVars>>

LEMMA OpenMovesNoMoney ==
  ASSUME Typed, Books, FullyBacked, OnlyOpenMoves
  PROVE  /\ UnderwritingTypeOK' /\ Attached' /\ Unsold' /\ Books' /\ FullyBacked'
         /\ VaultTotals' = VaultTotals /\ HeldPremiums' = HeldPremiums
<1>1. ASSUME NEW c \in Coverages
      PROVE  /\ cov'[c] \in CoverageType /\ cov'[c].status = cov[c].status
             /\ cov'[c].pact = cov[c].pact /\ cov'[c].reserved = cov[c].reserved
             /\ cov'[c].share = cov[c].share
             /\ cov'[c].premiumReleased = cov[c].premiumReleased
             /\ cov'[c].reserveReleased = cov[c].reserveReleased
             /\ cov[c].status = "NONE" => cov'[c] = cov[c]
  <2>1. cov[c] \in CoverageType
    BY DEF Typed, UnderwritingTypeOK
  <2> PICK n \in Nat : cov'[c] = [cov[c] EXCEPT !.open = n]
                       /\ (cov[c].status = "NONE" => n = cov[c].open)
    BY DEF OnlyOpenMoves
  <2> QED
    BY <2>1 DEF CoverageType
<1>2. UNCHANGED <<vault, pactAllocated, pactReserved, salesStats, owner>>
  BY DEF OnlyOpenMoves, registryVars
<1>3. UnderwritingTypeOK'
  <2>1. cov' \in [Coverages -> CoverageType]
    BY <1>1 DEF OnlyOpenMoves
  <2> QED
    BY <1>2, <2>1 DEF Typed, UnderwritingTypeOK
<1>4. Attached' /\ Unsold'
  BY <1>1, <1>2 DEF Typed, Attached, Unsold, CoverageProvider
<1>5. \A d \in Pacts : ReservedFor(d)' = ReservedFor(d)
  BY <1>1 DEF ReservedFor
<1>6. Books'
  <2>1. ReservesMatch'
    BY <1>2, <1>5 DEF Books, BooksAgree, ReservesMatch
  <2>2. VaultsMatch'
    BY <1>2 DEF Books, BooksAgree, VaultsMatch, PactsReserved, PactsAllocated
  <2>3. ReleasedEmpty'
    BY <1>1 DEF Books, ReleasedEmpty
  <2> QED
    BY <2>1, <2>2, <2>3 DEF Books, BooksAgree
<1>7. FullyBacked'
  BY <1>2 DEF FullyBacked, VaultSound
<1>8. VaultTotals' = VaultTotals /\ HeldPremiums' = HeldPremiums
  BY <1>1, <1>2 DEF VaultTotals, HeldPremiums
<1> QED
  BY <1>3, <1>4, <1>6, <1>7, <1>8

\* A claim is never due more than its coverage has reserved.
LEMMA DueWithin ==
  ASSUME ClaimInv, UnderwritingTypeOK, NEW k \in UsedClaims
  PROVE  Due(k) <= cov[claim[k].coverage].reserved
<1> PICK c \in Coverages : c = claim[k].coverage
  BY DEF ClaimInv, Filed
<1> DEFINE terms == pact[cov[c].pact].terms
           facts == resolution[claim[k].incident].facts
<1>1. cov[c].reserved \in Nat
  BY DEF UnderwritingTypeOK, CoverageType
<1>2. Due(k) = Payout(cov[c].start, cov[c].end, cov[c].remaining, cov[c].reserved, terms, facts)
  BY DEF Due
<1> HIDE DEF terms, facts
<1>3. Due(k) \in Int
  BY DueIs
<1>4. CASE Due(k) = 0
  BY <1>1, <1>4
<1>5. CASE Due(k) = Amount(cov[c].remaining, cov[c].reserved, terms, facts.fault)
  <2> PICK backed : Due(k) = IF backed > cov[c].reserved THEN cov[c].reserved ELSE backed
    BY <1>5 DEF Amount
  <2>1. CASE backed > cov[c].reserved
    BY <1>1, <2>1
  <2>2. CASE ~(backed > cov[c].reserved)
    BY <1>1, <1>3, <2>2
  <2> QED
    BY <2>1, <2>2
<1> QED
  BY <1>2, <1>4, <1>5 DEF Payout

\* Nor more than is left of its limit.
LEMMA DueWithinLimit ==
  ASSUME ClaimInv, UnderwritingTypeOK, NEW k \in UsedClaims
  PROVE  Due(k) <= cov[claim[k].coverage].remaining
<1> PICK c \in Coverages : c = claim[k].coverage
  BY DEF ClaimInv, Filed
<1> PICK remaining : remaining = cov[c].remaining
  OBVIOUS
<1> PICK reserved : reserved = cov[c].reserved
  OBVIOUS
<1> DEFINE terms == pact[cov[c].pact].terms
           facts == resolution[claim[k].incident].facts
           capped == MulDiv(remaining, terms.maxPayoutBps, BpsDenom)
           deductible == MulDivUp(capped, terms.deductibleBps, BpsDenom)
<1>1. reserved \in Nat /\ remaining \in Nat
  BY DEF UnderwritingTypeOK, CoverageType
<1>2. terms.maxPayoutBps \in Nat /\ terms.deductibleBps \in Nat
  <2>1. cov[c].pact \in Pacts
    BY DEF ClaimInv, Filed, SoldFrozen
  <2>2. terms \in TermsInputs
    BY <2>1 DEF ClaimInv, DisputeInv, Basics, RegistryTypeOK, PactType
  <2> HIDE DEF terms
  <2> QED
    BY <2>2, RegistryAssumption DEF TermsType
<1>3. Due(k) = Payout(cov[c].start, cov[c].end, remaining, reserved, terms, facts)
  BY DEF Due
<1> HIDE DEF terms, facts
<1>4. capped \in Int
  <2>1. remaining * terms.maxPayoutBps \in Int
    BY <1>1, <1>2
  <2> QED
    BY <2>1, RatesAssumption DEF MulDiv
<1> HIDE DEF capped
<1>5. deductible \in Int
  <2>1. capped * terms.deductibleBps \in Int
    BY <1>2, <1>4
  <2> QED
    BY <2>1, RatesAssumption DEF MulDivUp
<1> HIDE DEF deductible
<1>6. Amount(remaining, reserved, terms, facts.fault) <= remaining
  BY <1>1, <1>4, <1>5 DEF Amount, capped, deductible
<1> QED
  BY <1>1, <1>3, <1>6 DEF Payout

\* A payout leaves the coverage, its pact and the vault by the same amount, and
\* what the vault loses is credited.
LEMMA PaidMoney ==
  ASSUME Typed, ClaimInv, Books, FullyBacked, OpenClaimsMatch, Claimants,
         NEW k \in Claims, SettlePaid(k), UNCHANGED registryVars
  PROVE  /\ UnderwritingTypeOK' /\ Attached' /\ Unsold' /\ Books' /\ FullyBacked'
         /\ OpenClaimsMatch' /\ Claimants'
         /\ credits' \in [Accounts -> Nat] /\ UNCHANGED balance
         /\ Total(VaultTotals)' + Total(credits') = Total(VaultTotals) + Total(credits)
         /\ Total(HeldPremiums)' = Total(HeldPremiums)
<1> PICK payout : payout = Due(k)
  OBVIOUS
<1>1. Pending(k)
  BY DEF SettlePaid, Decidable
<1> PICK c \in Coverages : c = claim[k].coverage
  BY <1>1, PendingIsOpen
<1>2. /\ k \in UsedClaims /\ cov[c].open \in Nat /\ cov[c].open >= 1
      /\ k \in Waiting(c)
  BY <1>1, PendingIsOpen
<1>3. cov[c].status # "NONE"
  BY <1>2 DEF ClaimInv, Filed
<1> PICK d \in Pacts : d = cov[c].pact
  BY <1>3 DEF Typed, Attached
<1> PICK p \in Providers : p = PactProvider(d)
  BY PactProviderType
<1>4. cov[c] \in CoverageType /\ UnderwritingTypeOK
  BY DEF Typed, UnderwritingTypeOK
<1>5. payout \in Nat /\ payout > 0 /\ payout <= cov[c].reserved
  <2>1. payout > 0 /\ payout \in Int
    BY <1>2, DueIs DEF SettlePaid
  <2> QED
    BY <1>2, <1>4, <2>1, DueWithin
<1> HIDE DEF Due
<1>6. /\ cov[c].remaining >= payout
      /\ vault[p].total >= payout /\ vault[p].allocated >= payout
      /\ vault[p].reserved >= payout
      /\ pactAllocated[d] >= payout /\ pactReserved[d] >= payout
      /\ vault' = [vault EXCEPT ![p].total = @ - payout, ![p].allocated = @ - payout,
                                ![p].reserved = @ - payout]
      /\ pactAllocated' = [pactAllocated EXCEPT ![d] = @ - payout]
      /\ pactReserved' = [pactReserved EXCEPT ![d] = @ - payout]
      /\ VaultSound(vault'[p])
      /\ UNCHANGED <<salesStats, balance>>
      /\ credits' = Credit(credits, claim[k].claimant, payout)
  BY DEF SettlePaid, DebitProviderCapital
<1>7. /\ vault[p] \in VaultType
      /\ pactAllocated[d] \in Nat /\ pactReserved[d] \in Nat
      /\ pactAllocated[d] - payout \in Nat /\ pactReserved[d] - payout \in Nat
      /\ vault[p].total - payout \in Nat /\ vault[p].allocated - payout \in Nat
      /\ vault[p].reserved - payout \in Nat
  <2>1. /\ vault[p].total >= payout /\ vault[p].allocated >= payout
        /\ vault[p].reserved >= payout
        /\ pactAllocated[d] >= payout /\ pactReserved[d] >= payout
    BY <1>6
  <2>2. /\ vault[p] \in VaultType
        /\ vault[p].total \in Nat /\ vault[p].allocated \in Nat /\ vault[p].reserved \in Nat
        /\ pactAllocated[d] \in Nat /\ pactReserved[d] \in Nat
    BY <1>4 DEF UnderwritingTypeOK, VaultType
  <2> QED
    BY <1>5, <2>1, <2>2
<1>8. /\ vault' \in [Providers -> VaultType]
      /\ vault'[p].total = vault[p].total - payout
      /\ vault'[p].allocated = vault[p].allocated - payout
      /\ vault'[p].reserved = vault[p].reserved - payout
      /\ \A q \in Providers \ {p} : vault'[q] = vault[q]
  <2> PICK total : total = vault[p].total - payout
    OBVIOUS
  <2> PICK allocated : allocated = vault[p].allocated - payout
    OBVIOUS
  <2> PICK reserved : reserved = vault[p].reserved - payout
    OBVIOUS
  <2> DEFINE low == [vault[p] EXCEPT !.total = total]
             new == [low EXCEPT !.allocated = allocated, !.reserved = reserved]
  <2>1. vault' = [vault EXCEPT ![p] = new]
    BY <1>4, <1>6, <1>7 DEF UnderwritingTypeOK, VaultType
  <2>2. low \in VaultType /\ low.total = total
    BY <1>7 DEF VaultType
  <2> HIDE DEF low
  <2>3. /\ new \in VaultType /\ new.total = total
        /\ new.allocated = allocated /\ new.reserved = reserved
    BY <1>7, <2>2 DEF VaultType
  <2> HIDE DEF new
  <2> QED
    BY <1>4, <2>1, <2>3 DEF UnderwritingTypeOK
<1>9. /\ pactAllocated' \in [Pacts -> Nat] /\ pactReserved' \in [Pacts -> Nat]
      /\ pactAllocated'[d] = pactAllocated[d] - payout
      /\ pactReserved'[d] = pactReserved[d] - payout
      /\ \A e \in Pacts \ {d} : /\ pactAllocated'[e] = pactAllocated[e]
                                /\ pactReserved'[e] = pactReserved[e]
  BY <1>4, <1>6, <1>7 DEF UnderwritingTypeOK
<1>10. /\ cov' \in [Coverages -> CoverageType]
       /\ cov'[c].status = cov[c].status /\ cov'[c].pact = d
       /\ cov'[c].reserved = cov[c].reserved - payout /\ cov'[c].open = cov[c].open - 1
       /\ cov'[c].share = cov[c].share
       /\ cov'[c].premiumReleased = cov[c].premiumReleased
       /\ cov'[c].reserveReleased = cov[c].reserveReleased
       /\ \A b \in Coverages \ {c} : cov'[b] = cov[b]
  <2> PICK remaining : remaining = cov[c].remaining - payout
    OBVIOUS
  <2> PICK paid : paid = cov[c].paid + payout
    OBVIOUS
  <2> PICK reserved : reserved = cov[c].reserved - payout
    OBVIOUS
  <2> PICK open : open = cov[c].open - 1
    OBVIOUS
  <2>1. remaining \in Nat /\ paid \in Nat /\ reserved \in Nat /\ open \in Nat
    <3>1. /\ cov[c].remaining \in Nat /\ cov[c].paid \in Nat /\ cov[c].reserved \in Nat
          /\ cov[c].remaining >= payout
      BY <1>4, <1>6 DEF CoverageType
    <3> QED
      BY <1>2, <1>5, <3>1
  <2> DEFINE less == [cov[c] EXCEPT !.remaining = remaining, !.paid = paid]
             r == [less EXCEPT !.reserved = reserved, !.open = open]
  <2>2. cov' = [cov EXCEPT ![c] = r]
    <3>1. cov[c].reserved >= payout
      BY <1>4, <1>5 DEF CoverageType
    <3>2. cov' = [cov EXCEPT ![c].remaining = remaining, ![c].paid = paid,
                             ![c].reserved = reserved, ![c].open = open]
      BY <1>4, <3>1 DEF SettlePaid, UnderwritingTypeOK, CoverageType
    <3> QED
      BY <1>4, <3>2 DEF UnderwritingTypeOK
  <2>3. /\ less \in CoverageType /\ less.status = cov[c].status /\ less.pact = cov[c].pact
        /\ less.share = cov[c].share /\ less.premiumReleased = cov[c].premiumReleased
        /\ less.reserveReleased = cov[c].reserveReleased
    BY <1>4, <2>1 DEF CoverageType
  <2> HIDE DEF less
  <2>4. /\ r \in CoverageType /\ r.status = less.status /\ r.pact = less.pact
        /\ r.reserved = reserved /\ r.open = open
        /\ r.share = less.share /\ r.premiumReleased = less.premiumReleased
        /\ r.reserveReleased = less.reserveReleased
    BY <2>1, <2>3 DEF CoverageType
  <2> HIDE DEF r
  <2> QED
    BY <1>4, <2>2, <2>3, <2>4 DEF UnderwritingTypeOK
<1>11. UnderwritingTypeOK'
  BY <1>4, <1>6, <1>8, <1>9, <1>10 DEF UnderwritingTypeOK
<1>12. Attached' /\ Unsold'
  BY <1>3, <1>10 DEF Typed, Attached, Unsold, CoverageProvider, registryVars
<1>13. ReservesMatch'
  <2>1. \A e \in Pacts : Against(cov'[c], e) = IF e = d THEN cov[c].reserved - payout ELSE 0
    BY <1>10 DEF Against
  <2>2. \A e \in Pacts : Against(cov[c], e) = IF e = d THEN cov[c].reserved ELSE 0
    BY DEF Against
  <2>3. cov[c].reserved \in Nat /\ pactReserved \in [Pacts -> Nat]
    BY <1>4 DEF UnderwritingTypeOK, CoverageType
  <2>4. \A e \in Pacts :
          pactReserved'[e] = pactReserved[e] - Against(cov[c], e) + Against(cov'[c], e)
    BY <1>5, <1>7, <1>9, <2>1, <2>2, <2>3
  <2> QED
    BY <1>4, <1>10, <1>11, <2>4, ReservesFollow DEF Books, BooksAgree
<1>14. VaultsMatch'
  <2>1. /\ vault[p].reserved \in Nat /\ vault[p].allocated \in Nat
        /\ pactAllocated[d] \in Nat /\ pactReserved[d] \in Nat /\ payout \in Nat
    BY <1>5, <1>7 DEF VaultType
  <2>2. /\ vault'[p].reserved = vault[p].reserved - payout
        /\ vault'[p].allocated = vault[p].allocated - payout
        /\ pactAllocated'[d] = pactAllocated[d] - payout
        /\ pactReserved'[d] = pactReserved[d] - payout
    BY <1>8, <1>9
  <2>3. vault'[p].reserved = vault[p].reserved - pactReserved[d] + pactReserved'[d]
    BY <2>1, <2>2
  <2>4. vault'[p].allocated = vault[p].allocated - pactAllocated[d] + pactAllocated'[d]
    BY <2>1, <2>2
  <2>5. \A q \in Providers \ {p} : vault'[q].reserved = vault[q].reserved
                                   /\ vault'[q].allocated = vault[q].allocated
    BY <1>8
  <2>6. \A e \in Pacts \ {d} : pactReserved'[e] = pactReserved[e]
                               /\ pactAllocated'[e] = pactAllocated[e]
    BY <1>9
  <2>7. VaultsMatch
    BY DEF Books, BooksAgree
  <2> QED
    BY <1>4, <1>11, <2>3, <2>4, <2>5, <2>6, <2>7, VaultsFollow
<1>15. ReleasedEmpty'
  <2>1. ~cov[c].reserveReleased
    BY <1>2, OpenClaimsAre
  <2> QED
    BY <1>10, <2>1 DEF Books, ReleasedEmpty
<1>16. FullyBacked'
  <2>1. \A q \in Providers : VaultSound(vault'[q])
    BY <1>6, <1>8 DEF FullyBacked
  <2>2. \A e \in Pacts : pactReserved'[e] <= pactAllocated'[e]
    <3>1. pactReserved[d] - payout <= pactAllocated[d] - payout
      BY <1>5, <1>7 DEF FullyBacked
    <3> QED
      BY <1>9, <3>1 DEF FullyBacked
  <2> QED
    BY <2>1, <2>2 DEF FullyBacked
<1>17. OpenClaimsMatch' /\ Claimants'
  <2> DEFINE settled == [claim[k] EXCEPT !.status = "SETTLED", !.payout = payout]
  <2>1. claim' = [claim EXCEPT ![k] = settled]
    BY DEF SettlePaid, ClaimInv, Shapes
  <2>2. /\ settled.status = "SETTLED" /\ settled.coverage = c
        /\ settled.claimant = claim[k].claimant
    BY DEF ClaimInv, Shapes, ClaimShape
  <2> HIDE DEF settled
  <2>3. claim'[k] = settled /\ \A j \in Claims \ {k} : claim'[j] = claim[j]
    BY <2>1 DEF ClaimInv, Shapes
  <2> QED
    BY <1>1, <1>10, <2>2, <2>3, SettleCounts
<1>18. /\ credits' \in [Accounts -> Nat] /\ Total(credits) \in Nat
       /\ Total(credits') = Total(credits) + payout
  <2>1. claim[k].claimant \in Accounts
    BY <1>2 DEF Claimants
  <2> QED
    BY <1>5, <1>6, <2>1, CreditAdds DEF Typed, LedgerTypeOK
<1>19. Total(VaultTotals)' = Total(VaultTotals) - payout
  <2>1. Total(VaultTotals)' = Total(VaultTotals) - vault[p].total + vault'[p].total
    BY <1>4, <1>8, <1>11, VaultChange
  <2>2. Total(VaultTotals) \in Nat /\ vault[p].total \in Nat
    BY <1>4, <1>7, OwedType DEF VaultType, Typed, LedgerTypeOK
  <2> QED
    BY <1>5, <1>8, <2>1, <2>2
<1>20. Total(HeldPremiums)' = Total(HeldPremiums)
  <2>1. HeldPremiums' = HeldPremiums
    BY <1>10 DEF HeldPremiums
  <2> QED
    BY <2>1
<1>21. Total(VaultTotals) \in Nat
  BY <1>4, OwedType DEF Typed, LedgerTypeOK
<1>22. Total(VaultTotals)' + Total(credits') = Total(VaultTotals) + Total(credits)
  BY <1>5, <1>18, <1>19, <1>21
<1>23. Books'
  BY <1>13, <1>14, <1>15 DEF Books, BooksAgree
<1>24. UNCHANGED balance
  BY <1>6
<1> QED
  BY <1>11, <1>12, <1>16, <1>17, <1>18, <1>20, <1>22, <1>23, <1>24

-----------------------------------------------------------------------------
(* The invariant *)

\* What a vault, a pact or a coverage tells of the capital.
Accounted ==
  /\ UnderwritingTypeOK /\ Attached /\ Unsold
  /\ Books /\ FullyBacked

\* The books, the counters and the balance, each of which the others rest on.
MoneyInv ==
  /\ ClaimInv
  /\ LedgerTypeOK /\ Registered /\ Accounted
  /\ OpenClaimsMatch /\ Claimants
  /\ Bonded /\ Conservation

LEMMA MoneyGives ==
  ASSUME MoneyInv
  PROVE  Typed /\ Funds /\ DisputeInv /\ Books /\ FullyBacked
BY DEF MoneyInv, Accounted, Typed, Funds, LedgerTypeOK, ClaimInv, DisputeInv, Basics

\* What a step leaves alone stays as it was.
LEMMA AccountedStays ==
  ASSUME MoneyInv, UNCHANGED underwritingVars,
         \A p \in Providers : owner[p] \in Accounts => owner'[p] \in Accounts
  PROVE  Accounted' /\ VaultTotals' = VaultTotals /\ HeldPremiums' = HeldPremiums
<1> USE DEF MoneyInv, Accounted, underwritingVars
<1>1. UnderwritingTypeOK'
  BY DEF UnderwritingTypeOK
<1>2. Attached' /\ Unsold'
  BY PactProviderType DEF Attached, Unsold, CoverageProvider
<1>3. Books' /\ FullyBacked'
  BY BooksUnchanged DEF FullyBacked, VaultSound
<1>4. VaultTotals' = VaultTotals /\ HeldPremiums' = HeldPremiums
  BY OwedUnchanged
<1> QED
  BY <1>1, <1>2, <1>3, <1>4

LEMMA CountsStay ==
  ASSUME MoneyInv, UNCHANGED <<cov, claim>>
  PROVE  OpenClaimsMatch' /\ Claimants'
BY DEF MoneyInv, OpenClaimsMatch, ClaimsOn, UsedClaims, Pending, Claimants

LEMMA BondsStay ==
  ASSUME MoneyInv, UNCHANGED incidentVars
  PROVE  /\ Bonded'
         /\ ReportBondsHeld' = ReportBondsHeld /\ ChallengeBondsHeld' = ChallengeBondsHeld
BY DEF MoneyInv, Bonded, BondedAt, Final, incidentVars, ReportBondsHeld, ChallengeBondsHeld

\* Money that only changes hands between what is owed keeps the balance right.
LEMMA BalanceStays ==
  ASSUME MoneyInv, UNCHANGED incidentVars, balance' \in Nat,
         Total(VaultTotals)' \in Nat, Total(credits') \in Nat, Total(HeldPremiums)' \in Nat,
         balance' - (Total(VaultTotals)' + Total(credits') + Total(HeldPremiums)')
           = balance - (Total(VaultTotals) + Total(credits) + Total(HeldPremiums))
  PROVE  Conservation'
<1> PICK owed : owed = Total(VaultTotals) + Total(credits) + Total(HeldPremiums)
  OBVIOUS
<1> PICK owedNext : owedNext = Total(VaultTotals)' + Total(credits') + Total(HeldPremiums)'
  OBVIOUS
<1> PICK bonds : bonds = Total(ReportBondsHeld) + Total(ChallengeBondsHeld)
  OBVIOUS
<1>1. owed \in Nat /\ bonds \in Nat /\ balance \in Nat /\ owedNext \in Nat
  <2>1. /\ Total(VaultTotals) \in Nat /\ Total(credits) \in Nat /\ Total(HeldPremiums) \in Nat
        /\ balance \in Nat
    BY MoneyGives, OwedType DEF Funds, MoneyInv, Accounted
  <2>2. Total(ReportBondsHeld) \in Nat /\ Total(ChallengeBondsHeld) \in Nat
    BY MoneyGives, BondTypes DEF DisputeInv
  <2> QED
    BY <2>1, <2>2
<1>2. balance = owed + bonds
  <2>1. /\ Total(VaultTotals) \in Nat /\ Total(credits) \in Nat /\ Total(HeldPremiums) \in Nat
    BY MoneyGives, OwedType DEF Funds, MoneyInv, Accounted
  <2>2. Total(ReportBondsHeld) \in Nat /\ Total(ChallengeBondsHeld) \in Nat
    BY MoneyGives, BondTypes DEF DisputeInv
  <2> QED
    BY <2>1, <2>2 DEF MoneyInv, Conservation
<1>3. balance' = owedNext + bonds
  BY <1>1, <1>2
<1>4. /\ Total(ReportBondsHeld)' = Total(ReportBondsHeld)
      /\ Total(ChallengeBondsHeld)' = Total(ChallengeBondsHeld)
  BY BondsStay
<1>5. Total(ReportBondsHeld) \in Nat /\ Total(ChallengeBondsHeld) \in Nat
  BY MoneyGives, BondTypes DEF DisputeInv
<1>6. balance' = Total(VaultTotals)' + Total(credits') + Total(HeldPremiums)'
                   + Total(ReportBondsHeld)' + Total(ChallengeBondsHeld)'
  BY <1>3, <1>4, <1>5
<1> QED
  BY <1>6 DEF Conservation

-----------------------------------------------------------------------------
(* Step by step *)

\* What a step shows besides the invariant of the claims and the clock.
MoneyKept ==
  /\ Accounted' /\ OpenClaimsMatch' /\ Claimants' /\ Bonded'
  /\ Funds' /\ Conservation'

LEMMA StillKeeps ==
  ASSUME MoneyInv, UNCHANGED <<balance, credits, underwritingVars, incidentVars, claimVars>>,
         \A p \in Providers : owner[p] \in Accounts => owner'[p] \in Accounts
  PROVE  MoneyKept
<1>1. Accounted' /\ VaultTotals' = VaultTotals /\ HeldPremiums' = HeldPremiums
  BY AccountedStays
<1>2. OpenClaimsMatch' /\ Claimants'
  BY CountsStay DEF underwritingVars, claimVars
<1>3. /\ Bonded'
      /\ ReportBondsHeld' = ReportBondsHeld /\ ChallengeBondsHeld' = ChallengeBondsHeld
  BY BondsStay
<1>4. Funds'
  BY MoneyGives DEF Funds
<1>5. Conservation'
  BY <1>1, <1>3 DEF MoneyInv, Conservation
<1> QED
  BY <1>1, <1>2, <1>3, <1>4, <1>5 DEF MoneyKept

\* The balance covers every credit, so a withdrawal is paid.
LEMMA WithdrawKeeps ==
  ASSUME MoneyInv, WithdrawStep
  PROVE  MoneyKept
<1> PICK a \in Accounts : \E amount \in 1 .. credits[a] : WithdrawCredit(a, amount)
  BY DEF WithdrawStep
<1> PICK amount \in 1 .. credits[a] : WithdrawCredit(a, amount)
  OBVIOUS
<1>1. /\ credits \in [Accounts -> Nat] /\ balance \in Nat
      /\ amount \in Nat /\ amount <= credits[a]
  BY MoneyGives DEF Funds
<1>2. credits' = [credits EXCEPT ![a] = @ - amount] /\ balance' = balance - amount
  BY DEF WithdrawCredit
<1>3. /\ credits' \in [Accounts -> Nat] /\ Total(credits') = Total(credits) - amount
      /\ amount <= Total(credits)
  BY <1>1, <1>2, DebitTotal
<1>4. UNCHANGED <<underwritingVars, incidentVars, claimVars, owner>>
  BY DEF WithdrawStep, setupVars, registryVars
<1>5. Accounted' /\ VaultTotals' = VaultTotals /\ HeldPremiums' = HeldPremiums
  BY <1>4, AccountedStays
<1>6. OpenClaimsMatch' /\ Claimants' /\ Bonded'
  BY <1>4, CountsStay, BondsStay DEF underwritingVars, claimVars
<1>7. /\ Total(VaultTotals) \in Nat /\ Total(credits) \in Nat /\ Total(HeldPremiums) \in Nat
      /\ Total(ReportBondsHeld) \in Nat /\ Total(ChallengeBondsHeld) \in Nat
  BY MoneyGives, OwedType, BondTypes DEF Funds, MoneyInv, Accounted, DisputeInv
<1>8. balance' \in Nat
  BY <1>1, <1>2, <1>3, <1>7 DEF MoneyInv, Conservation
<1>9. /\ Total(VaultTotals)' = Total(VaultTotals)
      /\ Total(HeldPremiums)' = Total(HeldPremiums)
      /\ Total(credits') \in Nat
  BY <1>3, <1>5, TotalType, LedgerAssumption
<1>10. Conservation'
  BY <1>1, <1>2, <1>3, <1>4, <1>7, <1>8, <1>9, BalanceStays
<1> QED
  BY <1>3, <1>5, <1>6, <1>8, <1>10 DEF MoneyKept, Funds

\* Sales and capital moves keep the balance equal to what is owed.
LEMMA UnderwritingKept ==
  ASSUME MoneyInv, UnderwritingStep, UNCHANGED <<registryVars, incidentVars, claimVars>>
  PROVE  MoneyKept
<1>1. Typed /\ Funds /\ Books /\ FullyBacked /\ ClaimInv
  BY MoneyGives DEF MoneyInv
<1>2. MoneyTypeOK'
  BY <1>1, CapitalTypes, CoverageTypes DEF UnderwritingStep
<1>3. Attached' /\ Unsold'
  BY <1>1, UnderwritingKeepsAttached
<1>4. Books' /\ FullyBacked'
  BY <1>1, CapitalKeepsBooks, CoverageKeepsBooks, CapitalBacked, CoverageKeepsBacked
  DEF UnderwritingStep
<1>5. OpenClaimsMatch'
  BY <1>1, UnderwritingCounts DEF MoneyInv, claimVars
<1>6. Claimants' /\ Bonded'
  BY BondsStay DEF MoneyInv, Claimants, UsedClaims, claimVars
<1>7. balance' - Owed' = balance - Owed
  BY <1>1, CapitalBalance, CoverageBalance DEF UnderwritingStep
<1>8. /\ Total(VaultTotals)' \in Nat /\ Total(credits') \in Nat /\ Total(HeldPremiums)' \in Nat
  <2>1. VaultTotals' \in [Providers -> Nat] /\ HeldPremiums' \in [Coverages -> Nat]
    BY <1>2 DEF MoneyTypeOK, VaultTotals, HeldPremiums, UnderwritingTypeOK, VaultType,
                CoverageType
  <2> QED
    BY <1>2, <2>1, TotalType, RegistryAssumption, UnderwritingAssumption, LedgerAssumption
    DEF MoneyTypeOK
<1>9. Conservation'
  BY <1>2, <1>7, <1>8, BalanceStays DEF Owed, MoneyTypeOK
<1> QED
  BY <1>2, <1>3, <1>4, <1>5, <1>6, <1>9 DEF MoneyKept, Accounted, MoneyTypeOK, Funds

\* A step about an incident moves its bonds.
LEMMA HandlingKeeps ==
  ASSUME MoneyInv, HandlingStep, UNCHANGED <<setupVars, underwritingVars, claimVars>>
  PROVE  MoneyKept
<1>1. Accounted' /\ VaultTotals' = VaultTotals /\ HeldPremiums' = HeldPremiums
  BY AccountedStays DEF setupVars, registryVars
<1>2. OpenClaimsMatch' /\ Claimants'
  BY CountsStay DEF underwritingVars, claimVars
<1>3. DisputeInv /\ Funds /\ Bonded /\ Conservation /\ UnderwritingTypeOK
  BY MoneyGives DEF MoneyInv, Accounted
<1> PICK i \in IncidentIds : Handled(i) /\ BondMoves(i)
  BY <1>3, HandlingMoves
<1>4. /\ Total(VaultTotals)' = Total(VaultTotals)
      /\ Total(HeldPremiums)' = Total(HeldPremiums)
  BY <1>1
<1>5. Conservation' /\ Bonded' /\ Funds'
  BY <1>3, <1>4, MovesConserve DEF Handled
<1> QED
  BY <1>1, <1>2, <1>5 DEF MoneyKept

\* The timeout moves the bonds and turns down claims, which owe nothing.
LEMMA InconclusiveKeeps ==
  ASSUME MoneyInv, NEW i \in IncidentIds, FinalizeInconclusiveTimeout(i)
  PROVE  MoneyKept
<1>1. /\ Typed /\ Funds /\ Bonded /\ Conservation /\ UnderwritingTypeOK
      /\ DisputeInv /\ Books /\ FullyBacked /\ OpenClaimsMatch /\ Claimants /\ ClaimInv
  BY MoneyGives DEF MoneyInv, Accounted
<1>2. TimeoutStep(i) /\ SettleInconclusive(i) /\ UNCHANGED setupVars
  BY DEF FinalizeInconclusiveTimeout
<1>3. /\ OpenClaimsMatch' /\ Claimants'
      /\ \A c \in Coverages :
           \E n \in Nat : cov'[c] = [cov[c] EXCEPT !.open = n]
                          /\ (cov[c].status = "NONE" => n = cov[c].open)
  BY <1>1, <1>2, InconclusiveCounts
<1>4. OnlyOpenMoves
  <2>1. cov' = [c \in Coverages |-> cov'[c]]
        /\ UNCHANGED <<vault, pactAllocated, pactReserved, salesStats>>
    BY <1>2 DEF SettleInconclusive
  <2> QED
    BY <1>2, <1>3, <2>1 DEF OnlyOpenMoves, setupVars
<1>5. /\ UnderwritingTypeOK' /\ Attached' /\ Unsold' /\ Books' /\ FullyBacked'
      /\ VaultTotals' = VaultTotals /\ HeldPremiums' = HeldPremiums
  BY <1>1, <1>4, OpenMovesNoMoney
<1>6. Handled(i) /\ BondMoves(i)
  BY <1>1, <1>2, TimeoutMoves
<1>7. /\ Total(VaultTotals)' = Total(VaultTotals)
      /\ Total(HeldPremiums)' = Total(HeldPremiums)
  BY <1>5
<1>8. Conservation' /\ Bonded' /\ Funds'
  BY <1>1, <1>6, <1>7, MovesConserve DEF Handled
<1> QED
  BY <1>3, <1>5, <1>8 DEF MoneyKept, Accounted

\* A step about the counters of open claims moves no money.
LEMMA CountersKeep ==
  ASSUME MoneyInv, OnlyOpenMoves, OpenClaimsMatch', Claimants',
         UNCHANGED <<balance, credits, incidentVars>>
  PROVE  MoneyKept
<1>1. /\ UnderwritingTypeOK' /\ Attached' /\ Unsold' /\ Books' /\ FullyBacked'
      /\ VaultTotals' = VaultTotals /\ HeldPremiums' = HeldPremiums
  BY MoneyGives, OpenMovesNoMoney
<1>2. /\ Bonded'
      /\ ReportBondsHeld' = ReportBondsHeld /\ ChallengeBondsHeld' = ChallengeBondsHeld
  BY BondsStay
<1>3. Conservation' /\ Funds'
  BY <1>1, <1>2, MoneyGives DEF MoneyInv, Conservation, Funds
<1> QED
  BY <1>1, <1>2, <1>3 DEF MoneyKept, Accounted
\* Filing a claim counts it.
LEMMA FileKeeps ==
  ASSUME MoneyInv, NEW filer \in Accounts, NEW k \in Claims, NEW c \in Coverages,
         NEW i \in IncidentIds, FileClaim(filer, k, c, i), UNCHANGED <<setupVars, incidentVars>>
  PROVE  MoneyKept
<1>1. OpenClaimsMatch' /\ Claimants'
  BY FileCounts DEF MoneyInv, Accounted, Books
<1>2. cov[c].open \in Nat /\ cov[c].status # "NONE"
  BY DEF MoneyInv, Accounted, UnderwritingTypeOK, CoverageType, FileClaim
<1>3. cov' = [cov EXCEPT ![c].open = @ + 1] /\ cov \in [Coverages -> CoverageType]
  BY DEF FileClaim, MoneyInv, Accounted, UnderwritingTypeOK
<1>4. ASSUME NEW b \in Coverages
      PROVE  \E n \in Nat : cov'[b] = [cov[b] EXCEPT !.open = n]
                            /\ (cov[b].status = "NONE" => n = cov[b].open)
  <2>1. CASE b = c
    <3>1. cov'[b] = [cov[b] EXCEPT !.open = cov[c].open + 1]
      BY <1>3, <2>1
    <3> QED
      BY <1>2, <2>1, <3>1
  <2>2. CASE b # c
    <3>1. cov'[b] = cov[b] /\ cov[b] \in CoverageType
      BY <1>3, <2>2
    <3>2. cov'[b] = [cov[b] EXCEPT !.open = cov[b].open] /\ cov[b].open \in Nat
      BY <3>1 DEF CoverageType
    <3> QED
      BY <3>2
  <2> QED
    BY <2>1, <2>2
<1>5. OnlyOpenMoves
  BY <1>3, <1>4 DEF OnlyOpenMoves, FileClaim, setupVars
<1> QED
  BY <1>1, <1>5, CountersKeep DEF FileClaim

\* Turning a claim down takes it off the counter and pays nothing.
LEMMA IneligibleKeeps ==
  ASSUME MoneyInv, NEW k \in Claims, SettleIneligible(k), UNCHANGED <<setupVars, incidentVars>>
  PROVE  MoneyKept
<1> PICK c : c = claim[k].coverage
  OBVIOUS
<1>1. Pending(k) /\ k \in UsedClaims
  BY DEF SettleIneligible, Decidable, UsedClaims, Pending
<1>2. c \in Coverages /\ cov[c].open \in Nat /\ cov[c].open >= 1 /\ Filed(k)
  BY <1>1, PendingIsOpen DEF MoneyInv, ClaimInv
<1>3. /\ cov' = [cov EXCEPT ![c].open = IF @ > 0 THEN @ - 1 ELSE @]
      /\ cov \in [Coverages -> CoverageType]
  BY DEF SettleIneligible, MoneyInv, Accounted, UnderwritingTypeOK
<1>4. cov'[c] = [cov[c] EXCEPT !.open = cov[c].open - 1] /\ cov[c] \in CoverageType
  <2>1. cov[c].open > 0
    BY <1>2
  <2> QED
    BY <1>2, <1>3, <2>1
<1>5. /\ cov'[c].open = cov[c].open - 1
      /\ cov'[c].reserveReleased = cov[c].reserveReleased
      /\ \A b \in Coverages \ {c} : cov'[b] = cov[b]
  BY <1>2, <1>3, <1>4 DEF CoverageType
<1>6. /\ claim'[k].status = "INELIGIBLE" /\ claim'[k].coverage = claim[k].coverage
      /\ claim'[k].claimant = claim[k].claimant
      /\ \A j \in Claims \ {k} : claim'[j] = claim[j]
  BY DEF SettleIneligible, MoneyInv, ClaimInv, Shapes, ClaimShape
<1>7. OpenClaimsMatch' /\ Claimants'
  BY <1>1, <1>2, <1>5, <1>6, SettleCounts DEF MoneyInv
<1>8. cov[c].status # "NONE"
  BY <1>1, <1>2 DEF MoneyInv, Accounted, Unsold, NoCoverage
<1>9. ASSUME NEW b \in Coverages
      PROVE  \E n \in Nat : cov'[b] = [cov[b] EXCEPT !.open = n]
                            /\ (cov[b].status = "NONE" => n = cov[b].open)
  <2>1. CASE b = c
    <3>1. cov[c].open - 1 \in Nat
      BY <1>2
    <3> QED
      BY <1>4, <1>8, <2>1, <3>1
  <2>2. CASE b # c
    <3>1. cov'[b] = cov[b] /\ cov[b] \in CoverageType
      BY <1>3, <2>2
    <3>2. cov'[b] = [cov[b] EXCEPT !.open = cov[b].open] /\ cov[b].open \in Nat
      BY <3>1 DEF CoverageType
    <3> QED
      BY <3>2
  <2> QED
    BY <2>1, <2>2
<1>10. OnlyOpenMoves
  BY <1>3, <1>9 DEF OnlyOpenMoves, SettleIneligible, setupVars
<1> QED
  BY <1>7, <1>10, CountersKeep DEF SettleIneligible

\* A payout only changes hands.
LEMMA PaidKeeps ==
  ASSUME MoneyInv, NEW k \in Claims, SettlePaid(k), UNCHANGED <<setupVars, incidentVars>>
  PROVE  MoneyKept
<1>1. /\ Typed /\ Funds /\ Books /\ FullyBacked /\ ClaimInv /\ OpenClaimsMatch /\ Claimants
      /\ UnderwritingTypeOK
  BY MoneyGives DEF MoneyInv, Accounted
<1>2. /\ UnderwritingTypeOK' /\ Attached' /\ Unsold' /\ Books' /\ FullyBacked'
      /\ OpenClaimsMatch' /\ Claimants'
      /\ credits' \in [Accounts -> Nat] /\ UNCHANGED balance
      /\ Total(VaultTotals)' + Total(credits') = Total(VaultTotals) + Total(credits)
      /\ Total(HeldPremiums)' = Total(HeldPremiums)
  BY <1>1, PaidMoney DEF setupVars
<1>3. Bonded'
  BY BondsStay
<1>4. /\ Total(VaultTotals)' \in Nat /\ Total(credits') \in Nat /\ Total(HeldPremiums)' \in Nat
  <2>1. VaultTotals' \in [Providers -> Nat] /\ HeldPremiums' \in [Coverages -> Nat]
    BY <1>2 DEF VaultTotals, HeldPremiums, UnderwritingTypeOK, VaultType, CoverageType
  <2> QED
    BY <1>2, <2>1, TotalType, RegistryAssumption, UnderwritingAssumption, LedgerAssumption
<1>5. Conservation'
  <2>1. balance' \in Nat
    BY <1>1, <1>2 DEF Funds
  <2>2. Total(VaultTotals)' + Total(credits') + Total(HeldPremiums)'
          = Total(VaultTotals) + Total(credits) + Total(HeldPremiums)
    BY <1>2
  <2>3. balance' - (Total(VaultTotals)' + Total(credits') + Total(HeldPremiums)')
          = balance - (Total(VaultTotals) + Total(credits) + Total(HeldPremiums))
    BY <1>2, <2>2
  <2> QED
    BY <1>4, <2>1, <2>3, BalanceStays
<1> QED
  BY <1>1, <1>2, <1>3, <1>5 DEF MoneyKept, Accounted, Funds
-----------------------------------------------------------------------------
(* The invariant holds *)

\* Every step of the contract keeps the money right.
LEMMA StepKeeps ==
  ASSUME MoneyInv, [Next]_vars
  PROVE  MoneyKept
<1>1. CASE \/ TimeStep
           \/ GovernanceStep /\ UNCHANGED <<registryVars, ledgerVars>>
              /\ UNCHANGED <<underwritingVars, incidentVars, claimVars>>
           \/ UNCHANGED vars
  BY <1>1, StillKeeps
  DEF TimeStep, Tick, setupVars, registryVars, ledgerVars, vars
<1>2. CASE RegistryStep /\ UNCHANGED <<ledgerVars, underwritingVars, incidentVars, claimVars>>
  <2>1. RegistryTypeOK
    BY DEF MoneyInv, ClaimInv, DisputeInv, Basics
  <2>2. \A p \in Providers : owner[p] \in Accounts => owner'[p] \in Accounts
    BY <1>2, <2>1, OwnersStay
  <2> QED
    BY <1>2, <2>2, StillKeeps DEF ledgerVars
<1>3. CASE WithdrawStep
  BY <1>3, WithdrawKeeps
<1>4. CASE UnderwritingStep /\ UNCHANGED <<setupVars, incidentVars, claimVars>>
  BY <1>4, UnderwritingKept DEF setupVars
<1>5. CASE HandlingStep /\ UNCHANGED <<setupVars, underwritingVars, claimVars>>
  BY <1>5, HandlingKeeps
<1>6. CASE \E i \in IncidentIds : FinalizeInconclusiveTimeout(i)
  BY <1>6, InconclusiveKeeps
<1>7. CASE ClaimStep /\ UNCHANGED <<setupVars, incidentVars>>
  BY <1>7, FileKeeps, IneligibleKeeps, PaidKeeps DEF ClaimStep, SettleClaim
<1> QED
  BY <1>1, <1>2, <1>3, <1>4, <1>5, <1>6, <1>7, Zenon DEF Next, MarketStep

LEMMA MoneyInvKept ==
  ASSUME MoneyInv, [Next]_vars
  PROVE  MoneyInv'
<1>1. MoneyKept
  BY StepKeeps
<1>2. ClaimInv'
  BY ClaimInvKept DEF MoneyInv
<1>3. now' \in 0 .. MaxTime
  <2>1. TimeStep \/ UNCHANGED now
    BY Zenon DEF Next, MarketStep, WithdrawStep, WithdrawCredit, UnderwritingStep, ClaimStep,
                 HandlingStep, FinalizeInconclusiveTimeout, TimeoutStep, vars, ledgerVars
  <2> QED
    BY <2>1, LedgerAssumption DEF MoneyInv, LedgerTypeOK, TimeStep, Tick
<1>4. LedgerTypeOK'
  BY <1>1, <1>3 DEF MoneyKept, Funds, LedgerTypeOK
<1>5. Registered'
  <2>1. RegistryStep \/ UNCHANGED registryVars
    BY Zenon DEF Next, MarketStep, TimeStep, WithdrawStep, FinalizeInconclusiveTimeout,
                 setupVars, vars
  <2> QED
    BY <2>1, RegistryKeepsRegistered
    DEF MoneyInv, ClaimInv, DisputeInv, Basics, Registered, registryVars
<1> QED
  BY <1>1, <1>2, <1>4, <1>5 DEF MoneyInv, MoneyKept

LEMMA MoneyInvStarts ==
  ASSUME Init
  PROVE  MoneyInv
<1> USE DEF Init, LedgerInit, UnderwritingInit, IncidentsInit, ClaimsInit
<1>1. ClaimInv
  BY ClaimInvStarts
<1>2. LedgerTypeOK
  BY LedgerAssumption DEF LedgerTypeOK
<1>3. Registered
  BY DEF Registered, RegistryInit
<1>4. UnderwritingTypeOK /\ Attached /\ Unsold
  BY DEF UnderwritingTypeOK, VaultType, CoverageType, CoverageStatus, NoCoverage,
         Attached, Unsold
<1>5. Books /\ FullyBacked
  BY BooksStart DEF FullyBacked, VaultSound
<1>6. UsedClaims = {}
  BY DEF UsedClaims
<1>7. OpenClaimsMatch /\ Claimants
  <2>1. \A c \in Coverages : {k \in ClaimsOn(c) : Pending(k)} = {}
    BY <1>6 DEF ClaimsOn
  <2>2. \A c \in Coverages : cov[c].open = 0
    BY DEF NoCoverage
  <2> QED
    BY <1>6, <2>1, <2>2, FS_EmptySet DEF OpenClaimsMatch, Claimants
<1>8. Bonded
  BY DEF Bonded, BondedAt, NoIncident, NoChallenge
<1>9. Conservation
  <2>1. /\ VaultTotals = [p \in Providers |-> 0]
        /\ HeldPremiums = [c \in Coverages |-> 0]
        /\ ReportBondsHeld = [i \in IncidentIds |-> 0]
        /\ ChallengeBondsHeld = [i \in IncidentIds |-> 0]
    BY DEF VaultTotals, HeldPremiums, ReportBondsHeld, ChallengeBondsHeld, NoCoverage,
           NoIncident, NoChallenge
  <2>2. /\ Total(VaultTotals) = 0 /\ Total(credits) = 0 /\ Total(HeldPremiums) = 0
        /\ Total(ReportBondsHeld) = 0 /\ Total(ChallengeBondsHeld) = 0
    BY <2>1, TotalZero
  <2> QED
    BY <2>2 DEF Conservation
<1> QED
  BY <1>1, <1>2, <1>3, <1>4, <1>5, <1>7, <1>8, <1>9 DEF MoneyInv, Accounted

LEMMA MoneyInvariant == Spec => []MoneyInv
<1>1. MoneyInv /\ [Next]_vars => MoneyInv'
  BY MoneyInvKept
<1> QED
  BY <1>1, MoneyInvStarts, PTL DEF Spec
-----------------------------------------------------------------------------
(* The theorems *)

\* The three books of the capital - a coverage's reserve, its pact's counter and
\* the provider's vault - agree after every deposit, sale, claim, payout and
\* release, in any order, for any number of pacts and coverages.
THEOREM BooksNeverDrift == Spec => []BooksAgree
<1>1. MoneyInv => BooksAgree
  BY DEF MoneyInv, Accounted, Books
<1> QED
  BY <1>1, MoneyInvariant, PTL

\* No provider sells more cover than it allocated, and no allocated or promised
\* capital is missing from its vault, payouts included.
THEOREM CapitalStaysBacked == Spec => []FullyBacked
<1>1. MoneyInv => FullyBacked
  BY DEF MoneyInv, Accounted
<1> QED
  BY <1>1, MoneyInvariant, PTL

\* A coverage counts exactly the claims that wait for a decision on it, and keeps
\* its reserve until none does: filing, deciding one, and the timeout that turns
\* many down at once all move the counter by what they change.
THEOREM OpenClaimsAreCounted == Spec => []OpenClaimsMatch
<1>1. MoneyInv => OpenClaimsMatch
  BY DEF MoneyInv
<1> QED
  BY <1>1, MoneyInvariant, PTL

\* A summand that the books count is within its sum.
LEMMA CountedWithin ==
  ASSUME UnderwritingTypeOK, Books, NEW c \in Coverages, cov[c].pact \in Pacts
  PROVE  /\ cov[c].reserved <= pactReserved[cov[c].pact]
         /\ pactReserved[cov[c].pact] <= vault[CoverageProvider(c)].reserved
<1> PICK d : d = cov[c].pact
  OBVIOUS
<1> PICK p : p = PactProvider(d)
  OBVIOUS
<1>1. d \in Pacts /\ p \in Providers
  BY PactProviderType
<1>2. cov[c].reserved <= pactReserved[d]
  <2>1. ReservedFor(d) \in [Coverages -> Nat]
    BY DEF ReservedFor, UnderwritingTypeOK, CoverageType
  <2>2. ReservedFor(d)[c] = cov[c].reserved
    BY DEF ReservedFor
  <2> QED
    BY <1>1, <2>1, <2>2, TotalBound, UnderwritingAssumption
    DEF Books, BooksAgree, ReservesMatch
<1>3. pactReserved[d] <= vault[p].reserved
  <2>1. PactsReserved(p) \in [Pacts -> Nat]
    BY DEF PactsReserved, UnderwritingTypeOK
  <2>2. PactsReserved(p)[d] = pactReserved[d]
    BY <1>1 DEF PactsReserved
  <2> QED
    BY <1>1, <2>1, <2>2, TotalBound, RegistryAssumption DEF Books, BooksAgree, VaultsMatch
<1> QED
  BY <1>2, <1>3 DEF CoverageProvider

\* The capital that a payout is debited from holds it.
LEMMA ClaimPayable ==
  ASSUME MoneyInv, NEW k \in Claims, Decidable(k)
  PROVE  Payable(k)
<1> PICK c : c = claim[k].coverage
  OBVIOUS
<1> PICK due : due = Due(k)
  OBVIOUS
<1>1. /\ ClaimInv /\ UnderwritingTypeOK /\ Books /\ FullyBacked /\ Attached /\ Unsold
      /\ OpenClaimsMatch
  BY DEF MoneyInv, Accounted
<1>2. k \in UsedClaims /\ Pending(k) /\ Filed(k)
  BY <1>1 DEF Decidable, Pending, UsedClaims, ClaimInv
<1>3. c \in Coverages /\ cov[c].open >= 1 /\ cov[c].open \in Nat
  BY <1>1, <1>2, PendingIsOpen
<1>4. cov[c].status # "NONE"
  BY <1>1, <1>3 DEF Unsold, NoCoverage
<1>5. cov[c].pact \in Pacts /\ CoverageProvider(c) \in Providers
  BY <1>1, <1>3, <1>4, PactProviderType DEF Attached, CoverageProvider
<1>6. due \in Int /\ due <= cov[c].reserved
  BY <1>1, <1>2, DueIs, DueWithin
<1>7. due <= cov[c].remaining
  BY <1>1, <1>2, DueWithinLimit
<1>8. /\ cov[c].remaining \in Nat /\ cov[c].reserved \in Nat
      /\ pactReserved[cov[c].pact] \in Nat /\ pactAllocated[cov[c].pact] \in Nat
      /\ vault[CoverageProvider(c)] \in VaultType
  BY <1>1, <1>3, <1>5 DEF UnderwritingTypeOK, CoverageType
<1>9. /\ cov[c].reserved <= pactReserved[cov[c].pact]
      /\ pactReserved[cov[c].pact] <= vault[CoverageProvider(c)].reserved
      /\ pactReserved[cov[c].pact] <= pactAllocated[cov[c].pact]
      /\ VaultSound(vault[CoverageProvider(c)])
  BY <1>1, <1>3, <1>5, CountedWithin DEF FullyBacked
<1> PICK v \in VaultType : v = vault[CoverageProvider(c)]
  BY <1>8
<1> PICK reserve : reserve = pactReserved[cov[c].pact]
  OBVIOUS
<1> PICK allocation : allocation = pactAllocated[cov[c].pact]
  OBVIOUS
<1>10. v.total \in Nat /\ v.allocated \in Nat /\ v.reserved \in Nat /\ v.pending \in Nat
  BY DEF VaultType
<1>11. v.reserved <= v.allocated /\ v.allocated <= v.total /\ v.allocated + v.pending <= v.total
  BY <1>9 DEF VaultSound
<1>12. /\ reserve >= due /\ allocation >= due
       /\ v.reserved >= due /\ v.allocated >= due /\ v.total >= due
  BY <1>6, <1>8, <1>9, <1>10, <1>11
<1> DEFINE less == [v EXCEPT !.total = @ - due, !.allocated = @ - due, !.reserved = @ - due]
<1>13. /\ less.total = v.total - due /\ less.allocated = v.allocated - due
       /\ less.reserved = v.reserved - due /\ less.pending = v.pending
  BY DEF VaultType
<1>14. VaultSound(less)
  <2> HIDE DEF less
  <2> QED
    BY <1>6, <1>10, <1>11, <1>13 DEF VaultSound
<1>15. /\ cov[c].remaining >= due /\ cov[c].reserved >= due /\ cov[c].open > 0
  <2>1. cov[c].open > 0
    BY <1>3
  <2>2. cov[c].remaining >= due /\ cov[c].reserved >= due
    BY <1>6, <1>7, <1>8
  <2> QED
    BY <2>1, <2>2
<1> HIDE DEF less
<1>16. /\ c = claim[k].coverage /\ due = Due(k) /\ v = vault[PactProvider(cov[c].pact)]
      /\ reserve = pactReserved[cov[c].pact] /\ allocation = pactAllocated[cov[c].pact]
  BY DEF CoverageProvider
<1> QED
  BY ONLY <1>12, <1>14, <1>15, <1>16, Zenon DEF Payable, less

\* What is left of a coverage's reserve is still in the books.
LEMMA ReserveFreeable ==
  ASSUME MoneyInv, NEW c \in UsedCoverages
  PROVE  Freeable(c)
<1>1. UnderwritingTypeOK /\ Books /\ FullyBacked /\ Attached
  BY DEF MoneyInv, Accounted
<1>2. cov[c].pact \in Pacts /\ CoverageProvider(c) \in Providers
  BY <1>1, PactProviderType DEF Attached, CoverageProvider, UsedCoverages
<1>3. /\ cov[c].reserved <= pactReserved[cov[c].pact]
      /\ pactReserved[cov[c].pact] <= vault[CoverageProvider(c)].reserved
      /\ VaultSound(vault[CoverageProvider(c)])
  BY <1>1, <1>2, CountedWithin DEF FullyBacked, UsedCoverages
<1>4. /\ cov[c].reserved \in Nat /\ pactReserved[cov[c].pact] \in Nat
      /\ vault[CoverageProvider(c)] \in VaultType
  BY <1>1, <1>2 DEF UnderwritingTypeOK, CoverageType, UsedCoverages
<1> PICK v \in VaultType : v = vault[CoverageProvider(c)]
  BY <1>4
<1> PICK left : left = ReserveLeft(c)
  OBVIOUS
<1>5. left \in Nat /\ left <= cov[c].reserved
  BY <1>4 DEF ReserveLeft
<1>6. v.total \in Nat /\ v.allocated \in Nat /\ v.reserved \in Nat /\ v.pending \in Nat
  BY DEF VaultType
<1> DEFINE less == [v EXCEPT !.reserved = @ - left]
<1>7. /\ less.total = v.total /\ less.allocated = v.allocated
      /\ less.reserved = v.reserved - left /\ less.pending = v.pending
  BY DEF VaultType
<1>8. VaultSound(less)
  <2> HIDE DEF less
  <2> QED
    BY <1>3, <1>5, <1>6, <1>7 DEF VaultSound
<1>9. pactReserved[cov[c].pact] >= left /\ v.reserved >= left
  BY <1>3, <1>4, <1>5, <1>6
<1> QED
  BY <1>8, <1>9 DEF Freeable, CoverageProvider

\* A credit is within the balance, which holds all of them and more.
LEMMA CreditIsHeld ==
  ASSUME MoneyInv, NEW a \in Accounts
  PROVE  credits[a] <= balance
<1>1. credits \in [Accounts -> Nat] /\ balance \in Nat
  BY MoneyGives DEF Funds
<1>2. credits[a] <= Total(credits)
  BY <1>1, TotalBound, LedgerAssumption
<1>3. /\ Total(VaultTotals) \in Nat /\ Total(credits) \in Nat /\ Total(HeldPremiums) \in Nat
      /\ Total(ReportBondsHeld) \in Nat /\ Total(ChallengeBondsHeld) \in Nat
  BY MoneyGives, OwedType, BondTypes DEF Funds, MoneyInv, Accounted, DisputeInv
<1> QED
  BY <1>1, <1>2, <1>3 DEF MoneyInv, Conservation

\* No call open to anyone is refused by the books once time and decisions allow it:
\* settle_claim, release_earned_premium, finalize_inconclusive_timeout, withdraw_credit.
THEOREM NobodyIsRefused == Spec => []NobodyRefused
<1>1. MoneyInv => NobodyRefused
  <2> SUFFICES ASSUME MoneyInv PROVE NobodyRefused
    OBVIOUS
  <2>1. ASSUME NEW i \in IncidentIds, NEW c \in Coverages
        PROVE  Cardinality({k \in ClaimsAbout(i) : Pending(k) /\ claim[k].coverage = c}) <= cov[c].open
    <3> DEFINE about == {k \in ClaimsAbout(i) : Pending(k) /\ claim[k].coverage = c}
    <3>1. about \in SUBSET Waiting(c)
      BY DEF ClaimsAbout, Waiting, ClaimsOn, UsedClaims
    <3>2. Cardinality(about) <= Cardinality(Waiting(c))
      <4> HIDE DEF about
      <4> QED
        BY <3>1, WaitingFinite, FS_Subset
    <3> QED
      BY <3>2, OpenClaimsAre DEF MoneyInv
  <2> QED
    BY <2>1, ClaimPayable, ReserveFreeable, CreditIsHeld DEF NobodyRefused
<1> QED
  BY <1>1, MoneyInvariant, PTL

\* Every token the contract holds is owed to exactly one party: a vault, a
\* credit, a held premium or a bond, through every call of the whole contract.
THEOREM EveryTokenIsOwed == Spec => []Conservation
<1>1. MoneyInv => Conservation
  BY DEF MoneyInv
<1> QED
  BY <1>1, MoneyInvariant, PTL
\* Of the methods of the whole contract, disputes and claims included, only an
\* acceptance by the account proposed last hands over a role or a provider.
THEOREM ControlNeedsConsent == Spec => ControlByConsent
<1>1. DisputeInv /\ [Next]_vars => [RolesByConsent /\ OwnersByConsent]_listingVars
  <2> SUFFICES ASSUME DisputeInv, [Next]_vars, ~UNCHANGED listingVars
               PROVE  RolesByConsent /\ OwnersByConsent
    OBVIOUS
  <2>1. GovernanceStep \/ UNCHANGED governanceVars
    BY Zenon DEF Next, MarketStep, TimeStep, WithdrawStep, FinalizeInconclusiveTimeout,
                 setupVars, vars
  <2>2. RegistryStep \/ UNCHANGED registryVars
    BY Zenon DEF Next, MarketStep, TimeStep, WithdrawStep, FinalizeInconclusiveTimeout,
                 setupVars, vars
  <2> QED
    BY <2>1, <2>2, HandedOver DEF DisputeInv, Basics, governanceVars, registryVars
<1> QED
  BY <1>1, DisputeInvariant, PTL
  DEF Spec, ControlByConsent, RolesByConsent, OwnersByConsent
-----------------------------------------------------------------------------
(* What a coverage promises its buyer: every step of the contract is one that *)
(* the promise allows, or the buyer sees nothing of it.                       *)

\* A released coverage holds nothing, and nobody waits for it.
Closed ==
  \A c \in Coverages :
    cov[c].status = "RELEASED" => cov[c].reserved = 0 /\ cov[c].open = 0

PromiseInv == MoneyInv /\ Closed

LEMMA SeenTypes ==
  ASSUME PromiseInv
  PROVE  /\ CoverOf = [c \in Coverages |-> CoverSeen(cov[c])]
         /\ ClaimOf = [k \in Claims |-> ClaimSeen(claim[k])]
         /\ now \in Nat
         /\ \A c \in Coverages : cov[c] \in CoverageType
         /\ \A k \in Claims : claim[k] \in ClaimShape
BY LedgerAssumption DEF PromiseInv, CoverOf, ClaimOf, MoneyInv, LedgerTypeOK, Accounted,
   UnderwritingTypeOK, ClaimInv, Shapes

\* What the buyer sees of one coverage or claim whose record is replaced.
LEMMA CoverReplaced ==
  ASSUME PromiseInv, NEW c \in Coverages, NEW r, cov' = [cov EXCEPT ![c] = r]
  PROVE  CoverOf' = [CoverOf EXCEPT ![c] = CoverSeen(r)]
<1>1. cov = [b \in Coverages |-> cov[b]]
  BY DEF PromiseInv, MoneyInv, Accounted, UnderwritingTypeOK
<1> QED
  BY <1>1 DEF CoverOf

LEMMA ClaimReplaced ==
  ASSUME PromiseInv, NEW k \in Claims, NEW r, claim' = [claim EXCEPT ![k] = r]
  PROVE  ClaimOf' = [ClaimOf EXCEPT ![k] = ClaimSeen(r)]
<1>1. claim = [j \in Claims |-> claim[j]]
  BY DEF PromiseInv, MoneyInv, ClaimInv, Shapes
<1> QED
  BY <1>1 DEF ClaimOf

\* A record that changes in what the buyer does not see.
LEMMA CoverKept ==
  ASSUME PromiseInv, NEW c \in Coverages, NEW r, cov' = [cov EXCEPT ![c] = r],
         CoverSeen(r) = CoverSeen(cov[c])
  PROVE  CoverOf' = CoverOf
BY CoverReplaced DEF CoverOf

LEMMA SeenUnchanged ==
  /\ UNCHANGED cov => UNCHANGED CoverOf
  /\ UNCHANGED claim => UNCHANGED ClaimOf
BY DEF CoverOf, ClaimOf

\* A claim that is seen open is pending, and holds its coverage open.
LEMMA OpenIsPending ==
  ASSUME PromiseInv, NEW k \in Claims
  PROVE  /\ Buyer!Open(k) <=> Pending(k)
         /\ Pending(k) => /\ claim[k].coverage \in Coverages
                          /\ cov[claim[k].coverage].open >= 1
                          /\ CoverOf[claim[k].coverage].stage = "running"
         /\ ClaimOf[k].on = claim[k].coverage
<1>1. claim[k].status \in ClaimStatus
  BY SeenTypes DEF ClaimShape
<1>2. ClaimOf[k] = ClaimSeen(claim[k])
  BY DEF ClaimOf
<1>3. Buyer!Open(k) <=> Pending(k)
  BY <1>1, <1>2 DEF Buyer!Open, Pending, ClaimSeen, ClaimStatus
<1>4. ASSUME Pending(k), NEW c, c = claim[k].coverage
      PROVE  /\ c \in Coverages /\ cov[c].open >= 1
             /\ CoverOf[c].stage = "running"
  <2>1. k \in UsedClaims /\ Filed(k)
    BY <1>4 DEF Pending, UsedClaims, PromiseInv, MoneyInv, ClaimInv
  <2>2. c \in Coverages /\ cov[c].open >= 1
    BY <1>4, <2>1, PendingIsOpen DEF PromiseInv, MoneyInv
  <2>3. cov[c].status \notin {"NONE", "RELEASED"} /\ cov[c].status \in CoverageStatus
    BY <1>4, <2>1, <2>2, SeenTypes DEF Filed, PromiseInv, Closed, CoverageType
  <2> QED
    BY <2>2, <2>3 DEF CoverOf, CoverSeen, CoverageStatus
<1> QED
  BY <1>2, <1>3, <1>4 DEF ClaimSeen

\* Coverages and claims that are left alone.
LEMMA ClosedStays ==
  ASSUME PromiseInv, UNCHANGED cov
  PROVE  Closed'
BY DEF PromiseInv, Closed

\* A step on one coverage.
LEMMA ClosedReplaced ==
  ASSUME PromiseInv, NEW c \in Coverages, NEW r, cov' = [cov EXCEPT ![c] = r],
         r.status = "RELEASED" => r.reserved = 0 /\ r.open = 0
  PROVE  Closed'
<1>1. cov'[c] = r /\ \A b \in Coverages \ {c} : cov'[b] = cov[b]
  BY SeenTypes DEF PromiseInv, MoneyInv, ClaimInv, Shapes
<1> QED
  BY <1>1 DEF PromiseInv, Closed

-----------------------------------------------------------------------------
(* The steps, each with what the buyer sees of it *)

LEMMA BuySells ==
  ASSUME PromiseInv, NEW buyer \in Accounts, NEW c \in Coverages, NEW d \in Pacts,
         NEW limit \in LimitInputs, NEW duration \in DurationInputs,
         NEW maxPremium \in MaxPremiumInputs, NEW payment \in PaymentInputs,
         BuyCoverage(buyer, c, d, limit, duration, maxPremium, payment),
         UNCHANGED <<now, claim>>
  PROVE  Buyer!Sells(c) /\ Closed'
<1> PICK share : share = Premium(limit, duration, pact[d].terms.premiumBps)
                         - FeeOf(Premium(limit, duration, pact[d].terms.premiumBps), config.feeBps)
  OBVIOUS
<1> PICK deadline : deadline = now + duration + pact[d].terms.claimWindow
  OBVIOUS
<1> DEFINE sold == [status |-> "ACTIVE", pact |-> d, buyer |-> buyer,
                    limit |-> limit, remaining |-> limit,
                    start |-> now, end |-> now + duration, deadline |-> deadline,
                    share |-> share, reserved |-> limit, open |-> 0, paid |-> 0,
                    premiumReleased |-> FALSE, reserveReleased |-> FALSE]
<1>1. cov' = [cov EXCEPT ![c] = sold] /\ cov[c].status = "NONE"
  BY DEF BuyCoverage, IsNext, UsedCoverages
<1>2. limit \in Nat /\ deadline >= now
  <2>1. duration \in Nat /\ now \in Nat
    BY SeenTypes, UnderwritingAssumption
  <2>2. pact[d].terms.claimWindow \in Nat
    BY TermsAreNat DEF PromiseInv, MoneyInv, ClaimInv, DisputeInv, Basics
  <2>3. limit \in Nat
    BY UnderwritingAssumption
  <2> QED
    BY <2>1, <2>2, <2>3
<1>3. CoverSeen(sold) = [stage |-> "running", limit |-> limit, held |-> limit, paid |-> 0,
                         deadline |-> deadline]
  BY DEF CoverSeen
<1>4. sold.status # "RELEASED"
  OBVIOUS
<1> HIDE DEF sold
<1>5. Closed'
  BY <1>1, <1>4, ClosedReplaced
<1>6. CoverOf' = [CoverOf EXCEPT ![c] = CoverSeen(sold)]
  BY <1>1, CoverReplaced
<1>7. CoverOf[c].stage = "unsold" /\ CoverOf'[c] = CoverSeen(sold)
  BY <1>1, <1>6 DEF CoverOf, CoverSeen
<1>8. UNCHANGED ClaimOf
  BY SeenUnchanged
<1>9. CoverOf'[c].limit = limit /\ CoverOf'[c].deadline = deadline
  BY <1>3, <1>7
<1>10. Buyer!Sells(c)
  BY <1>2, <1>3, <1>6, <1>7, <1>8, <1>9 DEF Buyer!Sells
<1> QED
  BY <1>5, <1>10

\* An expired coverage still holds its limit.
LEMMA ExpireUnseen ==
  ASSUME PromiseInv, NEW c \in Coverages, ExpireCoverage(c)
  PROVE  UNCHANGED CoverOf /\ Closed'
<1> DEFINE r == [cov[c] EXCEPT !.status = "EXPIRED"]
<1>1. cov' = [cov EXCEPT ![c] = r] /\ cov[c].status = "ACTIVE"
  BY SeenTypes DEF ExpireCoverage, PromiseInv, MoneyInv, ClaimInv, Shapes
<1>2. CoverSeen(r) = CoverSeen(cov[c]) /\ r.status # "RELEASED"
  BY <1>1, SeenTypes DEF CoverSeen, CoverageType
<1> HIDE DEF r
<1> QED
  BY <1>1, <1>2, CoverKept, ClosedReplaced

\* A second release changes nothing the buyer sees.
LEMMA ReleaseFrees ==
  ASSUME PromiseInv, NEW c \in Coverages, ReleaseEarnedPremium(c), UNCHANGED <<now, claim>>
  PROVE  (Buyer!Frees(c) \/ UNCHANGED <<now, CoverOf, ClaimOf>>) /\ Closed'
<1> PICK old : old = cov[c]
  OBVIOUS
<1> DEFINE r == [old EXCEPT !.status = "RELEASED", !.premiumReleased = TRUE,
                            !.reserveReleased = TRUE, !.reserved = 0]
<1>1. /\ cov' = [cov EXCEPT ![c] = r]
      /\ old.status # "NONE" /\ old.open = 0 /\ now >= old.deadline
  BY DEF ReleaseEarnedPremium, Releasable
<1>2. old \in CoverageType
  BY SeenTypes
<1>3. /\ r.status = "RELEASED" /\ r.limit = old.limit /\ r.reserved = 0 /\ r.paid = old.paid
      /\ r.deadline = old.deadline /\ r.open = old.open
  BY <1>2 DEF CoverageType
<1> HIDE DEF r
<1>4. Closed'
  BY <1>1, <1>3, ClosedReplaced
<1>5. CoverSeen(r) = [stage |-> "closed", limit |-> old.limit, held |-> 0, paid |-> old.paid,
                      deadline |-> old.deadline]
  BY <1>3 DEF CoverSeen
<1>6. CoverOf' = [CoverOf EXCEPT ![c] = CoverSeen(r)] /\ UNCHANGED ClaimOf
  BY <1>1, CoverReplaced, SeenUnchanged
<1>7. CASE old.status = "RELEASED"
  <2>1. CoverSeen(old) = CoverSeen(r)
    BY <1>5, <1>7 DEF CoverSeen, PromiseInv, Closed
  <2> QED
    BY <1>1, <1>4, <1>6, <2>1, CoverKept
<1>8. CASE old.status \in {"ACTIVE", "EXPIRED"}
  <2>1. CoverOf[c] = [stage |-> "running", limit |-> old.limit, held |-> old.reserved,
                      paid |-> old.paid, deadline |-> old.deadline]
    BY <1>8 DEF CoverOf, CoverSeen
  <2> DEFINE shut == [CoverOf[c] EXCEPT !.stage = "closed"]
  <2>2. CoverSeen(r) = [CoverOf[c] EXCEPT !.stage = "closed", !.held = 0]
    <3>1. shut = [stage |-> "closed", limit |-> old.limit, held |-> old.reserved,
                  paid |-> old.paid, deadline |-> old.deadline]
      BY <2>1
    <3> HIDE DEF shut
    <3>2. CoverSeen(r) = [shut EXCEPT !.held = 0]
      BY <1>5, <3>1
    <3> QED
      BY <3>2 DEF shut
  <2>3. \A k \in Claims : Buyer!Open(k) => ClaimOf[k].on # c
    <3> SUFFICES ASSUME NEW k \in Claims, Buyer!Open(k), ClaimOf[k].on = c PROVE FALSE
      OBVIOUS
    <3>1. cov[c].open >= 1
      BY OpenIsPending
    <3> QED
      BY <1>1, <3>1
  <2>4. CoverOf' = [CoverOf EXCEPT ![c].stage = "closed", ![c].held = 0]
    BY <1>6, <2>1, <2>2 DEF CoverOf
  <2>5. CoverOf[c].stage = "running" /\ now >= CoverOf[c].deadline
    BY <1>1, <2>1
  <2>6. Buyer!Frees(c)
    BY <1>6, <2>3, <2>4, <2>5 DEF Buyer!Frees
  <2> QED
    BY <1>4, <2>6
<1> QED
  BY <1>1, <1>2, <1>7, <1>8 DEF CoverageType, CoverageStatus

LEMMA FileFiles ==
  ASSUME PromiseInv, NEW filer \in Accounts, NEW k \in Claims, NEW c \in Coverages,
         NEW i \in IncidentIds, FileClaim(filer, k, c, i), UNCHANGED now
  PROVE  Buyer!Files(k, c) /\ Closed'
<1> DEFINE r == [cov[c] EXCEPT !.open = @ + 1]
           new == [status |-> "PENDING_RESOLUTION", coverage |-> c, incident |-> i,
                   claimant |-> filer, payout |-> 0]
<1>1. /\ cov' = [cov EXCEPT ![c] = r] /\ claim' = [claim EXCEPT ![k] = new]
      /\ cov[c].status \notin {"NONE", "RELEASED"} /\ claim[k].status = "NONE"
      /\ now <= cov[c].deadline
  BY DEF FileClaim, IsNext, UsedClaims
<1>2. CoverSeen(r) = CoverSeen(cov[c]) /\ r.status = cov[c].status
  BY SeenTypes DEF CoverSeen, CoverageType
<1> HIDE DEF r
<1>3. UNCHANGED CoverOf /\ Closed'
  BY <1>1, <1>2, CoverKept, ClosedReplaced
<1>4. ClaimSeen(new) = [stage |-> "open", on |-> c, amount |-> 0]
  BY DEF ClaimSeen
<1> HIDE DEF new
<1>5. ClaimOf' = [ClaimOf EXCEPT ![k] = ClaimSeen(new)]
  BY <1>1, ClaimReplaced
<1>6. ClaimOf[k].stage = "none"
  BY <1>1 DEF ClaimOf, ClaimSeen
<1>7. CoverOf[c].stage = "running" /\ CoverOf[c].deadline = cov[c].deadline
  BY <1>1, SeenTypes DEF CoverOf, CoverSeen, CoverageType, CoverageStatus
<1>8. Buyer!Files(k, c)
  BY <1>1, <1>3, <1>4, <1>5, <1>6, <1>7 DEF Buyer!Files
<1> QED
  BY <1>3, <1>8

\* Whatever pending claims are turned down, the buyer sees no more than that.
LEMMA TurnedDown ==
  ASSUME PromiseInv, NEW some \in SUBSET Claims, \A k \in some : Pending(k),
         claim' = [k \in Claims |-> IF k \in some THEN [claim[k] EXCEPT !.status = "INELIGIBLE"]
                                    ELSE claim[k]],
         UNCHANGED <<now, CoverOf>>
  PROVE  Buyer!PromiseNext
<1>1. ASSUME NEW k \in some
      PROVE  ClaimSeen(claim'[k]) = [ClaimOf[k] EXCEPT !.stage = "refused"]
  <2>1. claim[k] \in ClaimShape /\ claim[k].status = "PENDING_RESOLUTION"
    BY SeenTypes DEF Pending
  <2>2. /\ claim'[k].status = "INELIGIBLE" /\ claim'[k].coverage = claim[k].coverage
        /\ claim'[k].payout = claim[k].payout
    BY <2>1 DEF ClaimShape
  <2>3. ClaimSeen(claim'[k]) = [stage |-> "refused", on |-> claim[k].coverage,
                                amount |-> claim[k].payout]
    BY <2>2 DEF ClaimSeen
  <2>4. ClaimOf[k] = [stage |-> "open", on |-> claim[k].coverage, amount |-> claim[k].payout]
    BY <2>1 DEF ClaimOf, ClaimSeen
  <2> QED
    BY <2>3, <2>4
<1>2. ASSUME NEW k \in Claims \ some
      PROVE  ClaimSeen(claim'[k]) = ClaimOf[k]
  BY DEF ClaimOf
<1>3. ClaimOf' = [k \in Claims |-> IF k \in some THEN [ClaimOf[k] EXCEPT !.stage = "refused"]
                                   ELSE ClaimOf[k]]
  <2>1. ClaimOf' = [k \in Claims |-> ClaimSeen(claim'[k])]
    BY DEF ClaimOf
  <2> QED
    BY <1>1, <1>2, <2>1
<1>4. some \in SUBSET {k \in Claims : Buyer!Open(k)}
  BY OpenIsPending
<1>5. Buyer!Refuses(some)
  BY <1>3 DEF Buyer!Refuses
<1> QED
  BY <1>4, <1>5 DEF Buyer!PromiseNext

LEMMA IneligibleRefuses ==
  ASSUME PromiseInv, NEW k \in Claims, SettleIneligible(k), UNCHANGED now
  PROVE  Buyer!PromiseNext /\ Closed'
<1>1. Pending(k) /\ claim' = [claim EXCEPT ![k].status = "INELIGIBLE"]
  BY DEF SettleIneligible, Decidable
<1> PICK c \in Coverages : c = claim[k].coverage /\ cov[c].open >= 1
  BY <1>1, OpenIsPending
<1> PICK n : n = IF cov[c].open > 0 THEN cov[c].open - 1 ELSE cov[c].open
  OBVIOUS
<1> DEFINE r == [cov[c] EXCEPT !.open = n]
<1>2. cov[c] \in CoverageType
  BY SeenTypes
<1>3. cov' = [cov EXCEPT ![c] = r]
  BY DEF SettleIneligible, PromiseInv, MoneyInv, ClaimInv, Shapes
<1>4. cov[c].status # "RELEASED"
  BY DEF PromiseInv, Closed
<1>5. CoverSeen(r) = CoverSeen(cov[c]) /\ r.status = cov[c].status
  BY <1>2 DEF CoverSeen, CoverageType
<1> HIDE DEF r
<1>6. UNCHANGED CoverOf /\ Closed'
  BY <1>3, <1>4, <1>5, CoverKept, ClosedReplaced
<1>7. claim' = [j \in Claims |-> IF j \in {k} THEN [claim[j] EXCEPT !.status = "INELIGIBLE"]
                                 ELSE claim[j]]
  BY <1>1 DEF PromiseInv, MoneyInv, ClaimInv, Shapes
<1>8. Buyer!PromiseNext
  BY <1>1, <1>6, <1>7, TurnedDown
<1> QED
  BY <1>6, <1>8

\* A payout is no more than the coverage still holds.
LEMMA PaidPays ==
  ASSUME PromiseInv, NEW k \in Claims, SettlePaid(k), UNCHANGED now
  PROVE  Buyer!Pays(k) /\ Closed'
<1> PICK payout : payout = Due(k)
  OBVIOUS
<1>1. Pending(k) /\ claim' = [claim EXCEPT ![k].status = "SETTLED", ![k].payout = payout]
  BY DEF SettlePaid, Decidable
<1>2. k \in UsedClaims
  BY <1>1 DEF Pending, UsedClaims
<1> PICK c \in Coverages : c = claim[k].coverage /\ cov[c].open >= 1
  BY <1>1, OpenIsPending
<1>3. cov[c] \in CoverageType /\ claim[k] \in ClaimShape /\ claim \in [Claims -> ClaimShape]
  BY SeenTypes DEF PromiseInv, MoneyInv, ClaimInv, Shapes
<1>4. payout \in 1 .. cov[c].reserved
  <2>1. payout \in Int /\ payout > 0
    BY <1>2, DueIs DEF SettlePaid, PromiseInv, MoneyInv
  <2>2. payout <= cov[c].reserved
    BY <1>2, DueWithin DEF PromiseInv, MoneyInv, Accounted
  <2>3. cov[c].reserved \in Nat
    BY <1>3 DEF CoverageType
  <2> QED
    BY <2>1, <2>2, <2>3
<1> DEFINE left == [cov[c] EXCEPT !.remaining = @ - payout, !.paid = @ + payout]
           r == [left EXCEPT !.reserved = cov[c].reserved - payout, !.open = @ - 1]
           seen == [CoverOf[c] EXCEPT !.held = @ - payout]
<1>5. cov' = [cov EXCEPT ![c] = r]
  <2>1. cov[c].reserved >= payout
    BY <1>3, <1>4 DEF CoverageType
  <2> QED
    BY <1>3, <2>1 DEF SettlePaid, CoverageType, PromiseInv, MoneyInv, ClaimInv, Shapes
<1>6. /\ r.status = cov[c].status /\ r.limit = cov[c].limit /\ r.deadline = cov[c].deadline
      /\ r.reserved = cov[c].reserved - payout /\ r.paid = cov[c].paid + payout
  <2>1. /\ left.status = cov[c].status /\ left.limit = cov[c].limit
        /\ left.deadline = cov[c].deadline /\ left.paid = cov[c].paid + payout
        /\ left \in [DOMAIN cov[c] -> UNION {{left[f]} : f \in DOMAIN cov[c]}]
    BY <1>3 DEF CoverageType
  <2> HIDE DEF left
  <2> QED
    BY <1>3, <2>1 DEF CoverageType
<1> HIDE DEF r
<1>7. cov[c].status \in {"ACTIVE", "EXPIRED"}
  <2>1. CoverOf[c].stage = "running" /\ cov[c].status \in CoverageStatus
    BY <1>1, <1>3, OpenIsPending DEF CoverageType
  <2> QED
    BY <2>1 DEF CoverOf, CoverSeen, CoverageStatus
<1>8. Closed'
  BY <1>5, <1>6, <1>7, ClosedReplaced
<1>9. CoverOf' = [CoverOf EXCEPT ![c].held = @ - payout, ![c].paid = @ + payout]
  <2>1. CoverSeen(r) = [stage |-> "running", limit |-> cov[c].limit,
                        held |-> cov[c].reserved - payout, paid |-> cov[c].paid + payout,
                        deadline |-> cov[c].deadline]
    BY <1>6, <1>7 DEF CoverSeen
  <2>2. CoverOf[c] = [stage |-> "running", limit |-> cov[c].limit, held |-> cov[c].reserved,
                      paid |-> cov[c].paid, deadline |-> cov[c].deadline]
    BY <1>7 DEF CoverOf, CoverSeen
  <2>3. seen = [stage |-> "running", limit |-> cov[c].limit, held |-> cov[c].reserved - payout,
                paid |-> cov[c].paid, deadline |-> cov[c].deadline]
    BY <2>2
  <2> HIDE DEF seen
  <2>4. CoverSeen(r) = [seen EXCEPT !.paid = @ + payout]
    BY <2>1, <2>3
  <2>5. CoverOf' = [CoverOf EXCEPT ![c] = [seen EXCEPT !.paid = @ + payout]]
    BY <1>5, <2>4, CoverReplaced
  <2>6. seen.paid = CoverOf[c].paid /\ CoverOf = [b \in Coverages |-> CoverOf[b]]
    BY <2>2, <2>3 DEF CoverOf
  <2>7. seen = [CoverOf[c] EXCEPT !.held = @ - payout]
    BY DEF seen
  <2> QED
    BY <2>5, <2>6, <2>7
<1>10. ClaimOf' = [ClaimOf EXCEPT ![k].stage = "paid", ![k].amount = payout]
  <2> DEFINE settled == [claim[k] EXCEPT !.status = "SETTLED", !.payout = payout]
             marked == [ClaimOf[k] EXCEPT !.stage = "paid"]
  <2>1. claim' = [claim EXCEPT ![k] = settled]
    BY <1>1, <1>3
  <2>2. settled.status = "SETTLED" /\ settled.coverage = c /\ settled.payout = payout
    BY <1>3 DEF ClaimShape
  <2> HIDE DEF settled
  <2>3. ClaimSeen(settled) = [stage |-> "paid", on |-> c, amount |-> payout]
    BY <2>2 DEF ClaimSeen
  <2>4. ClaimOf[k] = [stage |-> "open", on |-> c, amount |-> claim[k].payout]
    BY <1>1 DEF ClaimOf, ClaimSeen, Pending
  <2>5. marked = [stage |-> "paid", on |-> c, amount |-> claim[k].payout]
    BY <2>4
  <2> HIDE DEF marked
  <2>6. ClaimSeen(settled) = [marked EXCEPT !.amount = payout]
    BY <2>3, <2>5
  <2>7. ClaimOf' = [ClaimOf EXCEPT ![k] = [marked EXCEPT !.amount = payout]]
    BY <2>1, <2>6, ClaimReplaced
  <2> QED
    BY <2>7 DEF marked, ClaimOf
<1>11. CoverOf[c].held = cov[c].reserved /\ ClaimOf[k].on = c /\ Buyer!Open(k)
  BY <1>1, OpenIsPending DEF CoverOf, CoverSeen
<1> HIDE DEF seen
<1>12. Buyer!Pays(k)
  BY <1>4, <1>9, <1>10, <1>11 DEF Buyer!Pays
<1> QED
  BY <1>8, <1>12

LEMMA InconclusiveRefuses ==
  ASSUME PromiseInv, NEW i \in IncidentIds, SettleInconclusive(i), UNCHANGED now
  PROVE  Buyer!PromiseNext /\ Closed'
<1> DEFINE pending == {k \in ClaimsAbout(i) : Pending(k)}
           closed(c) == Cardinality({k \in pending : claim[k].coverage = c})
<1>1. /\ claim' = [k \in Claims |->
                     IF k \in pending THEN [claim[k] EXCEPT !.status = "INELIGIBLE"] ELSE claim[k]]
      /\ cov' = [c \in Coverages |-> [cov[c] EXCEPT !.open = @ - closed(c)]]
  BY Zenon DEF SettleInconclusive
<1>2. pending \in SUBSET Claims /\ \A k \in pending : Pending(k)
  BY DEF ClaimsAbout, UsedClaims
<1>3. ASSUME NEW c \in Coverages, cov[c].open = 0
      PROVE  closed(c) = 0
  <2>1. {k \in pending : claim[k].coverage = c} = {}
    BY <1>2, <1>3, OpenIsPending
  <2> QED
    BY <2>1, FS_EmptySet
<1> HIDE DEF pending, closed
<1>4. ASSUME NEW c \in Coverages
      PROVE  /\ CoverSeen(cov'[c]) = CoverSeen(cov[c]) /\ cov'[c].status = cov[c].status
             /\ cov'[c].reserved = cov[c].reserved
             /\ cov'[c].open = cov[c].open - closed(c)
  <2>1. cov[c] \in CoverageType /\ cov'[c] = [cov[c] EXCEPT !.open = @ - closed(c)]
    BY <1>1, SeenTypes
  <2> QED
    BY <2>1 DEF CoverSeen, CoverageType
<1>5. UNCHANGED CoverOf
  BY <1>4 DEF CoverOf
<1>6. Closed'
  BY <1>3, <1>4 DEF PromiseInv, Closed
<1>7. Buyer!PromiseNext
  BY <1>1, <1>2, <1>5, TurnedDown
<1> QED
  BY <1>6, <1>7

-----------------------------------------------------------------------------
(* The promise *)

\* What the buyer may see of a step.
Allowed == Buyer!PromiseNext \/ UNCHANGED Buyer!promiseVars

LEMMA UnseenAllowed ==
  ASSUME PromiseInv, UNCHANGED <<now, cov, claim>>
  PROVE  Allowed /\ Closed'
BY SeenUnchanged, ClosedStays DEF Allowed, Buyer!promiseVars

LEMMA UnderwritingAllowed ==
  ASSUME PromiseInv, UnderwritingStep, UNCHANGED claim
  PROVE  Allowed /\ Closed'
<1>1. UNCHANGED now
  BY DEF UnderwritingStep
<1>2. CASE CapitalStep
  BY <1>1, <1>2, CapitalKeepsCoverages, UnseenAllowed
<1>3. CASE CoverageStep
  <2> PICK c \in Coverages : CoverageStep!(c)
    BY <1>3 DEF CoverageStep
  <2>1. CASE \E buyer \in Accounts, d \in Pacts, limit \in LimitInputs,
                duration \in DurationInputs, maxPremium \in MaxPremiumInputs,
                payment \in PaymentInputs :
               BuyCoverage(buyer, c, d, limit, duration, maxPremium, payment)
    BY <1>1, <2>1, BuySells DEF Allowed, Buyer!PromiseNext
  <2>2. CASE ExpireCoverage(c)
    BY <1>1, <2>2, ExpireUnseen, SeenUnchanged DEF Allowed, Buyer!promiseVars
  <2>3. CASE ReleaseEarnedPremium(c)
    BY <1>1, <2>3, ReleaseFrees DEF Allowed, Buyer!PromiseNext, Buyer!promiseVars
  <2> QED
    BY <2>1, <2>2, <2>3
<1> QED
  BY <1>2, <1>3 DEF UnderwritingStep

LEMMA ClaimAllowed ==
  ASSUME PromiseInv, ClaimStep
  PROVE  Allowed /\ Closed'
<1> PICK k \in Claims :
         \/ \E filer \in Accounts, c \in Coverages, i \in IncidentIds : FileClaim(filer, k, c, i)
         \/ SettleClaim(k)
  BY DEF ClaimStep
<1>1. UNCHANGED now
  BY DEF ClaimStep
<1>2. CASE \E filer \in Accounts, c \in Coverages, i \in IncidentIds : FileClaim(filer, k, c, i)
  BY <1>1, <1>2, FileFiles DEF Allowed, Buyer!PromiseNext
<1>3. CASE SettleIneligible(k)
  BY <1>1, <1>3, IneligibleRefuses DEF Allowed
<1>4. CASE SettlePaid(k)
  BY <1>1, <1>4, PaidPays DEF Allowed, Buyer!PromiseNext
<1> QED
  BY <1>2, <1>3, <1>4 DEF SettleClaim

LEMMA EveryStepAllowed ==
  ASSUME PromiseInv, [Next]_vars
  PROVE  Allowed /\ Closed'
<1>1. CASE TimeStep
  <2>1. now' > now /\ UNCHANGED <<cov, claim>>
    BY <1>1, SeenTypes DEF TimeStep, Tick, underwritingVars, claimVars
  <2>2. UNCHANGED <<CoverOf, ClaimOf>>
    BY <2>1, SeenUnchanged
  <2> QED
    BY <2>1, <2>2, ClosedStays DEF Allowed, Buyer!PromiseNext, Buyer!Passes
<1>2. CASE UnderwritingStep /\ UNCHANGED claim
  BY <1>2, UnderwritingAllowed
<1>3. CASE \E i \in IncidentIds : FinalizeInconclusiveTimeout(i)
  BY <1>3, InconclusiveRefuses DEF FinalizeInconclusiveTimeout, TimeoutStep, Allowed
<1>4. CASE ClaimStep
  BY <1>4, ClaimAllowed
<1>5. CASE WithdrawStep
  BY <1>5, UnseenAllowed DEF WithdrawStep, WithdrawCredit, underwritingVars, claimVars
<1>6. CASE HandlingStep /\ UNCHANGED <<underwritingVars, claimVars>>
  BY <1>6, UnseenAllowed DEF HandlingStep, underwritingVars, claimVars
<1>7. CASE UNCHANGED <<ledgerVars, underwritingVars, claimVars>>
  BY <1>7, UnseenAllowed DEF ledgerVars, underwritingVars, claimVars
<1>8. \/ TimeStep
      \/ UnderwritingStep /\ UNCHANGED claim
      \/ \E i \in IncidentIds : FinalizeInconclusiveTimeout(i)
      \/ ClaimStep
      \/ WithdrawStep
      \/ HandlingStep /\ UNCHANGED <<underwritingVars, claimVars>>
      \/ UNCHANGED <<ledgerVars, underwritingVars, claimVars>>
  BY Zenon DEF Next, MarketStep, claimVars, vars
<1> QED
  BY <1>1, <1>2, <1>3, <1>4, <1>5, <1>6, <1>7, <1>8

LEMMA PromiseInvariant == Spec => []PromiseInv
<1>1. Init => PromiseInv
  <2> SUFFICES ASSUME Init PROVE Closed
    BY MoneyInvStarts DEF PromiseInv
  <2> QED
    BY DEF Init, UnderwritingInit, NoCoverage, Closed
<1>2. PromiseInv /\ [Next]_vars => PromiseInv'
  BY MoneyInvKept, EveryStepAllowed DEF PromiseInv
<1> QED
  BY <1>1, <1>2, PTL DEF Spec

\* Every behaviour of the contract keeps its promise to a buyer: through any sales,
\* payouts, disputes, pauses, withdrawals of capital and new settings, the limit of a
\* coverage is held until the deadline and until every claim is decided, is paid out
\* only to claims filed in time, each decided once, and freed only when none waits.
THEOREM PromiseIsKept == Spec => ImplementsPromise
<1>1. Init => Buyer!PromiseInit
  <2> SUFFICES ASSUME Init PROVE Buyer!PromiseInit
    OBVIOUS
  <2>1. \A c \in Coverages : CoverOf[c].stage = "unsold" /\ CoverOf[c].paid = 0
    BY DEF Init, UnderwritingInit, NoCoverage, CoverOf, CoverSeen
  <2>2. \A k \in Claims : ClaimOf[k].stage = "none" /\ ClaimOf[k].amount = 0
    BY DEF Init, ClaimsInit, ClaimOf, ClaimSeen
  <2> QED
    BY <2>1, <2>2 DEF Buyer!PromiseInit
<1>2. PromiseInv /\ [Next]_vars => [Buyer!PromiseNext]_(Buyer!promiseVars)
  BY EveryStepAllowed DEF Allowed
<1> QED
  BY <1>1, <1>2, PromiseInvariant, PTL DEF Spec, ImplementsPromise, Buyer!PromiseSpec

-----------------------------------------------------------------------------
(* What the promise comes to *)

PaidOn(c) == [k \in Claims |-> IF ClaimOf[k].on = c THEN ClaimOf[k].amount ELSE 0]

\* Only a claim that was paid has an amount.
KeptInv ==
  /\ Buyer!Kept
  /\ \A k \in Claims :
       ClaimOf[k].amount \in Nat /\ (ClaimOf[k].stage # "paid" => ClaimOf[k].amount = 0)

LEMMA SeenCovers ==
  ASSUME PromiseInv, NEW c \in Coverages
  PROVE  /\ CoverOf[c] = [stage |-> CoverOf[c].stage, limit |-> CoverOf[c].limit,
                          held |-> CoverOf[c].held, paid |-> CoverOf[c].paid,
                          deadline |-> CoverOf[c].deadline]
         /\ CoverOf[c].limit \in Nat /\ CoverOf[c].held \in Nat /\ CoverOf[c].paid \in Nat
         /\ CoverOf[c].stage = "unsold" => CoverOf[c].paid = 0
<1> PICK stage : stage = CoverSeen(cov[c]).stage
  OBVIOUS
<1>1. cov[c] \in CoverageType
  BY SeenTypes
<1>2. cov[c].status = "NONE" => cov[c].paid = 0
  <2>1. Unsold
    BY DEF PromiseInv, MoneyInv, Accounted
  <2> QED
    BY <2>1 DEF Unsold, NoCoverage
<1>3. CoverOf[c] = [stage |-> stage, limit |-> cov[c].limit, held |-> cov[c].reserved,
                    paid |-> cov[c].paid, deadline |-> cov[c].deadline]
  BY DEF CoverOf, CoverSeen
<1>4. stage = "unsold" => cov[c].status = "NONE"
  BY <1>1 DEF CoverSeen, CoverageType, CoverageStatus
<1>5. cov[c].limit \in Nat /\ cov[c].reserved \in Nat /\ cov[c].paid \in Nat
  BY <1>1 DEF CoverageType
<1>6. /\ CoverOf[c].stage = stage /\ CoverOf[c].limit = cov[c].limit
      /\ CoverOf[c].held = cov[c].reserved /\ CoverOf[c].paid = cov[c].paid
      /\ CoverOf[c].deadline = cov[c].deadline
  BY <1>3
<1> HIDE DEF CoverOf
<1> QED
  BY <1>2, <1>3, <1>4, <1>5, <1>6

LEMMA PaidOnType ==
  ASSUME KeptInv, NEW c
  PROVE  PaidOn(c) \in [Claims -> Nat] /\ Total(PaidOn(c)) \in Nat
<1>1. PaidOn(c) \in [Claims -> Nat]
  BY DEF PaidOn, KeptInv
<1> QED
  BY <1>1, TotalType, ClaimsAssumption

KeptAt(c) ==
  /\ CoverOf[c].paid = Total(PaidOn(c))
  /\ CoverOf[c].stage = "running" => CoverOf[c].held + CoverOf[c].paid = CoverOf[c].limit
  /\ CoverOf[c].stage # "running" =>
       \A k \in Claims : ClaimOf[k].stage = "open" => ClaimOf[k].on # c

LEMMA TotalsAgree ==
  ASSUME NEW f
  PROVE  Buyer!Total(f) = Total(f)
<1> PICK U : U = Units(f)
  OBVIOUS
<1>1. Buyer!Units(f) = U
  BY DEF Buyer!Units, Buyer!UnitsAt, Units, UnitsAt
<1>2. Buyer!Cardinality(U) = Cardinality(U)
  BY Zenon DEF Buyer!Cardinality, Cardinality
<1> QED
  BY <1>1, <1>2 DEF Buyer!Total, Total

LEMMA KeptSays ==
  ASSUME Buyer!Kept, NEW c \in Coverages
  PROVE  KeptAt(c)
<1>1. CoverOf[c].paid = Buyer!Total(PaidOn(c))
  BY Zenon DEF Buyer!Kept, PaidOn
<1> QED
  BY <1>1, TotalsAgree DEF Buyer!Kept, Buyer!Open, KeptAt

LEMMA KeptSaysNext ==
  ASSUME \A c \in Coverages : KeptAt(c)'
  PROVE  Buyer!Kept'
<1> SUFFICES ASSUME NEW c \in Coverages
             PROVE  /\ CoverOf'[c].paid = Buyer!Total(PaidOn(c)')
                    /\ CoverOf'[c].stage = "running" =>
                         CoverOf'[c].held + CoverOf'[c].paid = CoverOf'[c].limit
                    /\ CoverOf'[c].stage # "running" =>
                         \A k \in Claims : ClaimOf'[k].stage = "open" => ClaimOf'[k].on # c
  BY Zenon DEF Buyer!Kept, Buyer!Open, PaidOn
<1> QED
  BY TotalsAgree DEF KeptAt

\* Claims of which none is paid or moves.
LEMMA ClaimsStill ==
  ASSUME KeptInv,
         \A k \in Claims : /\ ClaimOf'[k].on = ClaimOf[k].on
                           /\ ClaimOf'[k].amount = ClaimOf[k].amount
                           /\ ClaimOf'[k].stage = "paid" <=> ClaimOf[k].stage = "paid"
  PROVE  /\ \A k \in Claims : ClaimOf'[k].amount \in Nat
                              /\ (ClaimOf'[k].stage # "paid" => ClaimOf'[k].amount = 0)
         /\ \A c \in Coverages : Total(PaidOn(c))' = Total(PaidOn(c))
<1>1. \A c \in Coverages : PaidOn(c)' = PaidOn(c)
  BY DEF PaidOn
<1> QED
  BY <1>1 DEF KeptInv

LEMMA SellsKeeps ==
  ASSUME PromiseInv, KeptInv, NEW c \in Coverages, Buyer!Sells(c)
  PROVE  KeptInv'
<1>1. UNCHANGED ClaimOf /\ CoverOf[c].stage = "unsold"
  BY DEF Buyer!Sells
<1>2. \A b \in Coverages \ {c} : CoverOf'[b] = CoverOf[b]
  BY DEF Buyer!Sells, CoverOf
<1>3. /\ CoverOf'[c].paid = 0 /\ CoverOf'[c].held = CoverOf'[c].limit
      /\ CoverOf'[c].stage = "running" /\ CoverOf'[c].limit \in Nat
  <2>1. CoverOf'[c] = [stage |-> "running", limit |-> CoverOf'[c].limit,
                       held |-> CoverOf'[c].limit, paid |-> 0, deadline |-> CoverOf'[c].deadline]
    BY DEF Buyer!Sells, CoverOf
  <2> QED
    BY <2>1 DEF Buyer!Sells
<1>4. Total(PaidOn(c)) = 0
  BY <1>1, SeenCovers, KeptSays DEF KeptInv, KeptAt
<1>5. \A b \in Coverages : Total(PaidOn(b))' = Total(PaidOn(b))
  BY <1>1, ClaimsStill
<1>6. ASSUME NEW b \in Coverages PROVE KeptAt(b)'
  <2>1. KeptAt(b)
    BY KeptSays DEF KeptInv
  <2> QED
    BY <1>1, <1>2, <1>3, <1>4, <1>5, <2>1 DEF KeptAt
<1> QED
  BY <1>1, <1>5, <1>6, ClaimsStill, KeptSaysNext DEF KeptInv

LEMMA FilesKeeps ==
  ASSUME PromiseInv, KeptInv, NEW k \in Claims, NEW c \in Coverages, Buyer!Files(k, c)
  PROVE  KeptInv'
<1>1. UNCHANGED CoverOf /\ CoverOf[c].stage = "running" /\ ClaimOf[k].stage = "none"
  BY DEF Buyer!Files
<1>2. /\ ClaimOf'[k] = [stage |-> "open", on |-> c, amount |-> 0]
      /\ \A j \in Claims \ {k} : ClaimOf'[j] = ClaimOf[j]
  BY DEF Buyer!Files, ClaimOf
<1>3. ClaimOf'[k].stage = "open" /\ ClaimOf'[k].on = c /\ ClaimOf'[k].amount = 0
  BY <1>2
<1>4. ClaimOf[k].amount = 0
  BY <1>1 DEF KeptInv
<1>5. ASSUME NEW b \in Coverages PROVE KeptAt(b)'
  <2>1. KeptAt(b)
    BY KeptSays DEF KeptInv
  <2>2. PaidOn(b)' = PaidOn(b)
    BY <1>2, <1>3, <1>4 DEF PaidOn
  <2>3. CoverOf'[b].stage # "running" =>
          \A j \in Claims : ClaimOf'[j].stage = "open" => ClaimOf'[j].on # b
    BY <1>1, <1>2, <1>3, <2>1 DEF KeptAt
  <2> QED
    BY <1>1, <2>1, <2>2, <2>3 DEF KeptAt
<1> QED
  BY <1>2, <1>3, <1>5, KeptSaysNext DEF KeptInv

\* What leaves the coverage is what its claim got.
LEMMA PaysKeeps ==
  ASSUME PromiseInv, KeptInv, NEW k \in Claims, Buyer!Pays(k)
  PROVE  KeptInv'
<1> PICK c : c = ClaimOf[k].on
  OBVIOUS
<1>1. PICK amount \in 1 .. CoverOf[c].held :
        /\ CoverOf' = [CoverOf EXCEPT ![c].held = @ - amount, ![c].paid = @ + amount]
        /\ ClaimOf' = [ClaimOf EXCEPT ![k].stage = "paid", ![k].amount = amount]
  BY DEF Buyer!Pays
<1>2. ClaimOf[k].stage = "open" /\ ClaimOf[k].amount = 0
  BY DEF Buyer!Pays, Buyer!Open, KeptInv
<1>3. c \in Coverages /\ CoverOf[c].stage = "running"
  <2>1. Pending(k) /\ c = claim[k].coverage
    BY OpenIsPending DEF Buyer!Pays
  <2> QED
    BY <2>1, OpenIsPending
<1>4. /\ CoverOf'[c].stage = "running" /\ CoverOf'[c].limit = CoverOf[c].limit
      /\ CoverOf'[c].held = CoverOf[c].held - amount
      /\ CoverOf'[c].paid = CoverOf[c].paid + amount
      /\ \A b \in Coverages \ {c} : CoverOf'[b] = CoverOf[b]
  <2> PICK old : old = CoverOf[c]
    OBVIOUS
  <2>1. old = [stage |-> "running", limit |-> old.limit, held |-> old.held, paid |-> old.paid,
               deadline |-> old.deadline]
    BY <1>3, SeenCovers
  <2> DEFINE less == [old EXCEPT !.held = @ - amount]
  <2>2. less = [stage |-> "running", limit |-> old.limit, held |-> old.held - amount,
                paid |-> old.paid, deadline |-> old.deadline]
    BY <2>1
  <2>3. CoverOf = [b \in Coverages |-> CoverOf[b]]
    BY DEF CoverOf
  <2>4. CoverOf' = [[CoverOf EXCEPT ![c] = less] EXCEPT ![c].paid = old.paid + amount]
    BY <1>1
  <2> HIDE DEF less
  <2>5. CoverOf'[c] = [less EXCEPT !.paid = old.paid + amount]
        /\ \A b \in Coverages \ {c} : CoverOf'[b] = CoverOf[b]
    BY ONLY <1>3, <2>3, <2>4, SMT
  <2>6. CoverOf'[c] = [stage |-> "running", limit |-> old.limit, held |-> old.held - amount,
                       paid |-> old.paid + amount, deadline |-> old.deadline]
    BY <2>2, <2>5
  <2>7. /\ CoverOf'[c].stage = "running" /\ CoverOf'[c].limit = old.limit
        /\ CoverOf'[c].held = old.held - amount /\ CoverOf'[c].paid = old.paid + amount
    BY ONLY <2>6
  <2> QED
    BY <2>5, <2>7
<1>5. /\ ClaimOf'[k].stage = "paid" /\ ClaimOf'[k].on = c /\ ClaimOf'[k].amount = amount
      /\ \A j \in Claims \ {k} : ClaimOf'[j] = ClaimOf[j]
  <2>1. ClaimOf[k] = [stage |-> "open", on |-> c, amount |-> 0]
    BY <1>2 DEF ClaimOf, ClaimSeen
  <2>2. ClaimOf'[k] = [[ClaimOf[k] EXCEPT !.stage = "paid"] EXCEPT !.amount = amount]
        /\ \A j \in Claims \ {k} : ClaimOf'[j] = ClaimOf[j]
    BY <1>1 DEF ClaimOf
  <2>3. ClaimOf'[k] = [stage |-> "paid", on |-> c, amount |-> amount]
    BY <2>1, <2>2
  <2> QED
    BY <2>2, <2>3
<1>6. CoverOf[c].held \in Nat /\ CoverOf[c].paid \in Nat /\ CoverOf[c].limit \in Nat
      /\ amount \in Nat
  <2>1. CoverOf[c].held \in Nat /\ CoverOf[c].paid \in Nat /\ CoverOf[c].limit \in Nat
    BY <1>3, SeenCovers
  <2> QED
    BY <2>1
<1>7. ASSUME NEW b \in Coverages
      PROVE  Total(PaidOn(b))' = Total(PaidOn(b)) + (IF b = c THEN amount ELSE 0)
  <2> PICK f : f = PaidOn(b)
    OBVIOUS
  <2> PICK g : g = PaidOn(b)'
    OBVIOUS
  <2>1. f \in [Claims -> Nat] /\ Total(f) \in Nat
    BY PaidOnType
  <2>2. f[k] = 0 /\ g[k] = (IF b = c THEN amount ELSE 0)
    BY <1>2, <1>5 DEF PaidOn
  <2>3. \A j \in Claims \ {k} : f[j] = g[j]
    BY <1>5 DEF PaidOn
  <2>4. g = [j \in Claims |-> g[j]]
    BY DEF PaidOn
  <2>5. \A j \in Claims : g[j] \in Nat
    BY <1>6, <2>1, <2>2, <2>3
  <2>6. g \in [Claims -> Nat]
    BY <2>4, <2>5
  <2>7. Total(g) = Total(f) - f[k] + g[k]
    BY <2>1, <2>3, <2>6, TotalChange, ClaimsAssumption
  <2> QED
    BY <1>6, <2>1, <2>2, <2>7
<1>8. ASSUME NEW b \in Coverages PROVE KeptAt(b)'
  <2>1. KeptAt(b)
    BY KeptSays DEF KeptInv
  <2>2. CASE b # c
    <3>1. Total(PaidOn(b))' = Total(PaidOn(b))
      BY <1>7, <2>2, PaidOnType
    <3>2. CoverOf'[b] = CoverOf[b]
      BY <1>4, <2>2
    <3>3. \A j \in Claims : ClaimOf'[j].stage = "open" =>
            ClaimOf[j].stage = "open" /\ ClaimOf'[j].on = ClaimOf[j].on
      BY <1>5
    <3> QED
      BY <2>1, <3>1, <3>2, <3>3 DEF KeptAt
  <2>3. CASE b = c
    <3>1. CoverOf'[c].paid = Total(PaidOn(c))'
      BY <1>4, <1>7, <2>1, <2>3 DEF KeptAt
    <3>2. CoverOf'[c].held + CoverOf'[c].paid = CoverOf'[c].limit
      BY <1>3, <1>4, <1>6, <2>1, <2>3 DEF KeptAt
    <3> QED
      BY <1>4, <2>3, <3>1, <3>2 DEF KeptAt
  <2> QED
    BY <2>2, <2>3
<1> QED
  BY <1>5, <1>6, <1>8, KeptSaysNext DEF KeptInv

LEMMA RefusesKeeps ==
  ASSUME PromiseInv, KeptInv, NEW some \in SUBSET {k \in Claims : Buyer!Open(k)},
         Buyer!Refuses(some)
  PROVE  KeptInv'
<1>1. UNCHANGED CoverOf
  BY DEF Buyer!Refuses
<1>2. ASSUME NEW k \in Claims
      PROVE  /\ ClaimOf'[k].on = ClaimOf[k].on /\ ClaimOf'[k].amount = ClaimOf[k].amount
             /\ ClaimOf'[k].stage = "paid" <=> ClaimOf[k].stage = "paid"
             /\ ClaimOf'[k].stage = "open" => ClaimOf[k].stage = "open"
  <2>1. ClaimOf[k] = [stage |-> ClaimOf[k].stage, on |-> ClaimOf[k].on,
                      amount |-> ClaimOf[k].amount]
    BY DEF ClaimOf, ClaimSeen
  <2>2. CASE k \in some
    <3>1. ClaimOf[k].stage = "open" /\ ClaimOf'[k] = [ClaimOf[k] EXCEPT !.stage = "refused"]
      BY <2>2 DEF Buyer!Refuses, Buyer!Open
    <3>2. ClaimOf'[k] = [stage |-> "refused", on |-> ClaimOf[k].on, amount |-> ClaimOf[k].amount]
      BY <2>1, <3>1
    <3> QED
      BY <3>1, <3>2
  <2>3. CASE k \notin some
    BY <2>3 DEF Buyer!Refuses
  <2> QED
    BY <2>2, <2>3
<1>3. \A c \in Coverages : Total(PaidOn(c))' = Total(PaidOn(c))
  BY <1>2, ClaimsStill
<1>4. ASSUME NEW b \in Coverages PROVE KeptAt(b)'
  <2>1. KeptAt(b)
    BY KeptSays DEF KeptInv
  <2> QED
    BY <1>1, <1>2, <1>3, <2>1 DEF KeptAt
<1> QED
  BY <1>2, <1>4, ClaimsStill, KeptSaysNext DEF KeptInv

LEMMA FreesKeeps ==
  ASSUME PromiseInv, KeptInv, NEW c \in Coverages, Buyer!Frees(c)
  PROVE  KeptInv'
<1>1. /\ UNCHANGED ClaimOf
      /\ \A k \in Claims : ClaimOf[k].stage = "open" => ClaimOf[k].on # c
      /\ CoverOf' = [CoverOf EXCEPT ![c].stage = "closed", ![c].held = 0]
  BY DEF Buyer!Frees, Buyer!Open
<1>2. CoverOf'[c].stage = "closed" /\ CoverOf'[c].paid = CoverOf[c].paid
      /\ \A b \in Coverages \ {c} : CoverOf'[b] = CoverOf[b]
  <2> PICK old : old = CoverOf[c]
    OBVIOUS
  <2>1. old = [stage |-> old.stage, limit |-> old.limit, held |-> old.held, paid |-> old.paid,
               deadline |-> old.deadline]
    BY SeenCovers
  <2>2. CoverOf'[c] = [[old EXCEPT !.stage = "closed"] EXCEPT !.held = 0]
        /\ \A b \in Coverages \ {c} : CoverOf'[b] = CoverOf[b]
    BY <1>1 DEF CoverOf
  <2>3. CoverOf'[c] = [stage |-> "closed", limit |-> old.limit, held |-> 0, paid |-> old.paid,
                       deadline |-> old.deadline]
    BY <2>1, <2>2
  <2> QED
    BY <2>2, <2>3
<1>3. \A b \in Coverages : Total(PaidOn(b))' = Total(PaidOn(b))
  BY <1>1, ClaimsStill
<1>4. ASSUME NEW b \in Coverages PROVE KeptAt(b)'
  <2>1. KeptAt(b)
    BY KeptSays DEF KeptInv
  <2> QED
    BY <1>1, <1>2, <1>3, <2>1 DEF KeptAt
<1> QED
  BY <1>1, <1>4, KeptSaysNext DEF KeptInv

LEMMA StillKept ==
  ASSUME KeptInv, UNCHANGED <<CoverOf, ClaimOf>>
  PROVE  KeptInv'
<1>1. \A c \in Coverages : PaidOn(c)' = PaidOn(c)
  BY DEF PaidOn
<1>2. \A c \in Coverages : KeptAt(c)'
  BY <1>1, KeptSays DEF KeptAt, KeptInv
<1> QED
  BY <1>2, KeptSaysNext DEF KeptInv

LEMMA KeptStays ==
  ASSUME PromiseInv, KeptInv, Allowed
  PROVE  KeptInv'
<1>1. CASE \E c \in Coverages : Buyer!Sells(c) \/ Buyer!Frees(c) \/ \E k \in Claims : Buyer!Files(k, c)
  BY <1>1, SellsKeeps, FreesKeeps, FilesKeeps
<1>2. CASE \E k \in Claims : Buyer!Pays(k)
  BY <1>2, PaysKeeps
<1>3. CASE \E some \in SUBSET {k \in Claims : Buyer!Open(k)} : Buyer!Refuses(some)
  BY <1>3, RefusesKeeps
<1>4. CASE Buyer!Passes
  BY <1>4, StillKept DEF Buyer!Passes
<1>5. CASE UNCHANGED Buyer!promiseVars
  BY <1>5, StillKept DEF Buyer!promiseVars
<1> QED
  BY <1>1, <1>2, <1>3, <1>4, <1>5 DEF Allowed, Buyer!PromiseNext

\* So a coverage never pays more than its limit: what it paid is what its claims were
\* paid, with what it still holds it is the limit, and no claim waits on one that
\* holds nothing any more.
THEOREM PromiseAddsUp == Spec => []Buyer!Kept
<1>1. Init => KeptInv
  <2> SUFFICES ASSUME Init PROVE KeptInv
    OBVIOUS
  <2>1. \A k \in Claims : ClaimOf[k].stage = "none" /\ ClaimOf[k].amount = 0
    BY DEF Init, ClaimsInit, ClaimOf, ClaimSeen
  <2>2. ASSUME NEW c \in Coverages
        PROVE  CoverOf[c].paid = 0 /\ CoverOf[c].stage = "unsold"
    BY DEF Init, UnderwritingInit, NoCoverage, CoverOf, CoverSeen
  <2>3. ASSUME NEW c \in Coverages
        PROVE  Buyer!Total([k \in Claims |-> IF ClaimOf[k].on = c THEN ClaimOf[k].amount ELSE 0]) = 0
    <3>1. [k \in Claims |-> IF ClaimOf[k].on = c THEN ClaimOf[k].amount ELSE 0]
            = [k \in Claims |-> 0]
      BY <2>1
    <3> QED
      BY <3>1, TotalsAgree, TotalZero
  <2> QED
    BY <2>1, <2>2, <2>3 DEF KeptInv, Buyer!Kept, Buyer!Open
<1>2. PromiseInv /\ KeptInv /\ [Next]_vars => KeptInv'
  BY EveryStepAllowed, KeptStays
<1>3. KeptInv => Buyer!Kept
  BY DEF KeptInv
<1> QED
  BY <1>1, <1>2, <1>3, PromiseInvariant, PTL DEF Spec
=============================================================================
