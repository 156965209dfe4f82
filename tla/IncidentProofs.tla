--------------------------- MODULE IncidentProofs ---------------------------
(***************************************************************************)
(* First the governance and the registries: their types, the terms of a    *)
(* published pact and the hand-over of control, for every set of accounts, *)
(* providers, services, pacts and inputs.                                  *)
(*                                                                         *)
(* Then the incidents over them, for any number of incidents: what each    *)
(* operation makes of the incident it is about, of its windows and its     *)
(* decision.                                                               *)
(***************************************************************************)
EXTENDS Incidents, TLAPS

\* Every method of the governance keeps the configuration well typed and the
\* protocol fee within its maximum.
LEMMA GovernanceTypes ==
  ASSUME GovernanceTypeOK, GovernanceStep
  PROVE  GovernanceTypeOK'
<1> USE GovernanceAssumption DEF GovernanceTypeOK, ConfigType
<1> PICK caller \in Accounts : GovernanceStep!(caller)
  BY DEF GovernanceStep
<1>1. CASE PauseNewSales(caller) \/ ResumeNewSales(caller)
  <2>1. CASE PauseNewSales(caller)
    BY <2>1 DEF PauseNewSales
  <2>2. CASE ResumeNewSales(caller)
    BY <2>2 DEF ResumeNewSales
  <2> QED
    BY <1>1, <2>1, <2>2
<1>2. CASE \E fee \in FeeInputs : SetProtocolFee(caller, fee)
  BY <1>2 DEF SetProtocolFee, FeeAllowed
<1>3. CASE \E role \in Roles, a \in RoleCandidates : ProposeRole(caller, role, a)
  BY <1>3 DEF ProposeRole
<1>4. CASE \E role \in Roles : AcceptRole(caller, role)
  <2> PICK role \in Roles : AcceptRole(caller, role)
    BY <1>4
  <2> DEFINE roles == [config.role EXCEPT ![role] = caller]
             pending == [config.pending EXCEPT ![role] = NoAccount]
  <2>1. roles \in [Roles -> Accounts] /\ pending \in [Roles -> Accounts \cup {NoAccount}]
    OBVIOUS
  <2>2. config' = [config EXCEPT !.role = roles, !.pending = pending]
    BY DEF AcceptRole
  <2> HIDE DEF roles, pending
  <2> QED
    BY <2>1, <2>2 DEF AcceptRole
<1>5. CASE \E seconds \in CooldownInputs : SetWithdrawalCooldown(caller, seconds)
  BY <1>5 DEF SetWithdrawalCooldown
<1>6. CASE \E rb, cb \in BondInputs : SetBonds(caller, rb, cb)
  <2> PICK rb, cb \in BondInputs : SetBonds(caller, rb, cb)
    BY <1>6
  <2>1. rb \in Nat /\ cb \in Nat
    OBVIOUS
  <2> QED
    BY <2>1 DEF SetBonds
<1>7. CASE \E evw, chw, cew \in WindowInputs : SetIncidentWindows(caller, evw, chw, cew)
  <2> PICK evw, chw, cew \in WindowInputs : SetIncidentWindows(caller, evw, chw, cew)
    BY <1>7
  <2>1. evw \in Nat /\ chw \in Nat /\ cew \in Nat
    OBVIOUS
  <2> QED
    BY <2>1 DEF SetIncidentWindows
<1>8. CASE \E quorum \in QuorumInputs, timeout \in WindowInputs, span \in SpanInputs :
             SetResolutionPolicy(caller, quorum, timeout, span)
  <2> PICK quorum \in QuorumInputs, timeout \in WindowInputs, span \in SpanInputs :
             SetResolutionPolicy(caller, quorum, timeout, span)
    BY <1>8
  <2>1. quorum \in Nat /\ timeout \in Nat /\ span \in Nat
    OBVIOUS
  <2> QED
    BY <2>1 DEF SetResolutionPolicy
<1>9. CASE \E a \in ReporterCandidates : AuthorizeReporter(caller, a) \/ RevokeReporter(caller, a)
  BY <1>9 DEF AuthorizeReporter, RevokeReporter
<1> QED
  BY <1>1, <1>2, <1>3, <1>4, <1>5, <1>6, <1>7, <1>8, <1>9

LEMMA GovernanceInitTypes ==
  ASSUME GovernanceInit
  PROVE  GovernanceTypeOK
<1>1. config.role \in [Roles -> Accounts] /\ config.pending \in [Roles -> Accounts \cup {NoAccount}]
  BY GovernanceAssumption DEF GovernanceInit, GovernanceSettings
<1> QED
  BY <1>1, GovernanceAssumption DEF GovernanceInit, GovernanceSettings, GovernanceTypeOK, ConfigType, FeeAllowed

LEMMA RegistryInitTypes ==
  ASSUME RegistryInit
  PROVE  RegistryTypeOK
BY RegistryAssumption DEF RegistryInit, RegistryTypeOK, PactType, ServiceStatus, PactStatus

\* Every method of the registries keeps the records well typed.
LEMMA RegistryTypes ==
  ASSUME RegistryTypeOK, RegistryStep
  PROVE  RegistryTypeOK'
<1> USE RegistryAssumption DEF RegistryTypeOK
<1> PICK caller \in Accounts : RegistryStep!(caller)
  BY DEF RegistryStep
<1>1. CASE \E p \in Providers :
             \/ RegisterProvider(caller, p)
             \/ \E a \in OwnerCandidates : TransferProviderControl(caller, p, a)
             \/ AcceptProviderControl(caller, p)
  BY <1>1 DEF RegisterProvider, TransferProviderControl, AcceptProviderControl
<1>2. CASE \E s \in Services :
             \/ CreateService(caller, s)
             \/ PauseService(caller, s)
             \/ ResumeService(caller, s)
             \/ RetireService(caller, s)
  BY <1>2 DEF CreateService, PauseService, ResumeService, RetireService, ChangeService,
              ServiceStatus
<1>3. CASE \E d \in Pacts, t \in TermsInputs :
             \/ CreatePactDraft(caller, d, t)
             \/ \E parent \in Pacts : CreatePactRevision(caller, d, parent, t)
             \/ UpdatePactDraft(caller, d, t)
  <2> PICK d \in Pacts, t \in TermsInputs :
             \/ CreatePactDraft(caller, d, t)
             \/ \E parent \in Pacts : CreatePactRevision(caller, d, parent, t)
             \/ UpdatePactDraft(caller, d, t)
    BY <1>3
  <2>1. CASE CreatePactDraft(caller, d, t)
    BY <2>1 DEF CreatePactDraft, DraftPact, PactType, PactStatus
  <2>2. CASE \E parent \in Pacts : CreatePactRevision(caller, d, parent, t)
    BY <2>2 DEF CreatePactRevision, DraftPact, PactType, PactStatus
  <2>3. CASE UpdatePactDraft(caller, d, t)
    BY <2>3 DEF UpdatePactDraft, PactType, PactStatus
  <2> QED
    BY <2>1, <2>2, <2>3
<1>4. CASE \E d \in Pacts :
             \/ PublishPact(caller, d)
             \/ PausePactSales(caller, d)
             \/ ResumePactSales(caller, d)
             \/ RetirePact(caller, d)
  BY <1>4 DEF PublishPact, PausePactSales, ResumePactSales, RetirePact, ChangePact,
              PactType, PactStatus
<1> QED
  BY <1>1, <1>2, <1>3, <1>4

\* Only published pacts are frozen; what the proof about their terms needs to
\* know of the other methods.
FrozenPublished ==
  \A d \in Pacts : pact[d].frozen => pact[d].status \in {"ACTIVE", "PAUSED", "RETIRED"}

TermsKept ==
  \A d \in Pacts : pact[d].frozen => pact'[d].frozen /\ pact'[d].terms = pact[d].terms

\* A pact changes by at most one of the four kinds of methods; none of them
\* touches the terms of a frozen one.
LEMMA RegistryKeepsTerms ==
  ASSUME RegistryTypeOK, FrozenPublished, RegistryStep
  PROVE  FrozenPublished' /\ TermsKept
<1> USE DEF FrozenPublished, TermsKept, RegistryTypeOK, PactType
<1> PICK caller \in Accounts : RegistryStep!(caller)
  BY DEF RegistryStep
<1>1. CASE UNCHANGED pact
  BY <1>1
<1>2. CASE \E d \in Pacts, terms \in TermsInputs,
             revision \in Nat, parent \in Pacts \cup {0} :
             DraftPact(caller, d, terms, revision, parent)
  <2> PICK d \in Pacts, terms \in TermsInputs,
           revision \in Nat, parent \in Pacts \cup {0} :
             DraftPact(caller, d, terms, revision, parent)
    BY <1>2
  <2>1. pact[d].status = "NONE"
    BY DEF DraftPact, IsNext, UsedPacts
  <2>2. pact' = [pact EXCEPT ![d] =
                   [status |-> "DRAFT", terms |-> terms, frozen |-> FALSE,
                    revision |-> revision, parent |-> parent]]
    BY DEF DraftPact
  <2> QED
    BY <2>1, <2>2
<1>3. CASE \E d \in Pacts, terms \in TermsInputs : UpdatePactDraft(caller, d, terms)
  BY <1>3 DEF UpdatePactDraft
<1>4. CASE \E d \in Pacts : PublishPact(caller, d)
  BY <1>4 DEF PublishPact
<1>5. CASE \E d \in Pacts : \/ PausePactSales(caller, d)
                           \/ ResumePactSales(caller, d)
                           \/ RetirePact(caller, d)
  BY <1>5 DEF PausePactSales, ResumePactSales, RetirePact, ChangePact
<1> QED
  BY <1>1, <1>2, <1>3, <1>4, <1>5
  DEF RegisterProvider, TransferProviderControl, AcceptProviderControl, CreateService,
      PauseService, ResumeService, RetireService, ChangeService, CreatePactDraft,
      CreatePactRevision

\* What was created stays attached: a service has a provider with an owner, a
\* pact has a service.
Registered ==
  /\ \A s \in Services : service[s] # "NONE" => owner[ServiceProvider[s]] \in Accounts
  /\ \A d \in Pacts : pact[d].status # "NONE" => service[PactService[d]] # "NONE"

LEMMA RegistryKeepsRegistered ==
  ASSUME RegistryTypeOK, Registered, RegistryStep
  PROVE  Registered'
<1> USE RegistryAssumption DEF Registered, RegistryTypeOK
<1> PICK caller \in Accounts : RegistryStep!(caller)
  BY DEF RegistryStep
<1>1. CASE \E p \in Providers :
             \/ RegisterProvider(caller, p)
             \/ \E a \in OwnerCandidates : TransferProviderControl(caller, p, a)
             \/ AcceptProviderControl(caller, p)
  BY <1>1 DEF RegisterProvider, TransferProviderControl, AcceptProviderControl
<1>2. CASE \E s \in Services :
             \/ CreateService(caller, s)
             \/ PauseService(caller, s)
             \/ ResumeService(caller, s)
             \/ RetireService(caller, s)
  BY <1>2 DEF CreateService, PauseService, ResumeService, RetireService, ChangeService, Controls
<1>3. CASE \E d \in Pacts, terms \in TermsInputs,
             revision \in Nat, parent \in Pacts \cup {0} :
             DraftPact(caller, d, terms, revision, parent)
  <2> PICK d \in Pacts, terms \in TermsInputs,
           revision \in Nat, parent \in Pacts \cup {0} :
             DraftPact(caller, d, terms, revision, parent)
    BY <1>3
  <2>1. /\ service[PactService[d]] # "NONE"
        /\ UNCHANGED <<owner, service>>
        /\ \A e \in Pacts \ {d} : pact'[e] = pact[e]
    BY DEF DraftPact
  <2> QED
    BY <2>1
<1>4. CASE \E d \in Pacts, terms \in TermsInputs : UpdatePactDraft(caller, d, terms)
  BY <1>4 DEF UpdatePactDraft, PactType
<1>5. CASE \E d \in Pacts : PublishPact(caller, d)
  BY <1>5 DEF PublishPact, PactType
<1>6. CASE \E d \in Pacts : \/ PausePactSales(caller, d)
                           \/ ResumePactSales(caller, d)
                           \/ RetirePact(caller, d)
  BY <1>6 DEF PausePactSales, ResumePactSales, RetirePact, ChangePact, PactType
<1> QED
  BY <1>1, <1>2, <1>3, <1>4, <1>5, <1>6 DEF CreatePactDraft, CreatePactRevision, PactType

\* A provider that has an owner is never left without one.
LEMMA OwnersStay ==
  ASSUME RegistryTypeOK, RegistryStep, NEW p \in Providers, owner[p] \in Accounts
  PROVE  owner'[p] \in Accounts
<1> PICK caller \in Accounts : RegistryStep!(caller)
  BY DEF RegistryStep
<1> USE DEF RegistryTypeOK
<1>1. CASE \E q \in Providers : RegisterProvider(caller, q) \/ AcceptProviderControl(caller, q)
  BY <1>1 DEF RegisterProvider, AcceptProviderControl
<1>2. CASE UNCHANGED owner
  BY <1>2
<1>3. \/ \E q \in Providers : RegisterProvider(caller, q) \/ AcceptProviderControl(caller, q)
      \/ UNCHANGED owner
  BY ONLY RegistryStep!(caller), Zenon
  DEF TransferProviderControl, CreateService, PauseService, ResumeService, RetireService,
      ChangeService, CreatePactDraft, CreatePactRevision, DraftPact, UpdatePactDraft,
      PublishPact, PausePactSales, ResumePactSales, RetirePact, ChangePact
<1> QED
  BY <1>1, <1>2, <1>3

-----------------------------------------------------------------------------

ListingInv == ListingTypeOK /\ FrozenPublished /\ Registered

LEMMA ListingInvariant == ListingSpec => []ListingInv
<1>1. ListingInit => ListingInv
  BY GovernanceInitTypes, RegistryInitTypes, LedgerAssumption
  DEF ListingInit, ListingInv, ListingTypeOK, FrozenPublished, Registered, LedgerInit, LedgerTypeOK,
      RegistryInit
<1>2. ListingInv /\ [ListingNext]_listingVars => ListingInv'
  <2> SUFFICES ASSUME ListingInv, [ListingNext]_listingVars PROVE ListingInv'
    OBVIOUS
  <2> USE DEF ListingInv, ListingTypeOK
  <2>1. CASE GovernanceStep /\ UNCHANGED <<ledgerVars, registryVars>>
    BY <2>1, GovernanceTypes
    DEF ledgerVars, registryVars, LedgerTypeOK, RegistryTypeOK, FrozenPublished, Registered
  <2>2. CASE RegistryStep /\ UNCHANGED <<ledgerVars, governanceVars>>
    BY <2>2, RegistryTypes, RegistryKeepsTerms, RegistryKeepsRegistered
    DEF ledgerVars, governanceVars, LedgerTypeOK, GovernanceTypeOK
  <2>3. CASE UNCHANGED listingVars
    BY <2>3 DEF listingVars, ledgerVars, governanceVars, registryVars, LedgerTypeOK,
                GovernanceTypeOK, RegistryTypeOK, FrozenPublished, Registered
  <2> QED
    BY <2>1, <2>2, <2>3 DEF ListingNext
<1> QED
  BY <1>1, <1>2, PTL DEF ListingSpec

\* The configuration and the registries stay well typed, whoever calls whatever.
THEOREM ListingTypes == ListingSpec => []ListingTypeOK
BY ListingInvariant, PTL DEF ListingInv

\* The terms a pact was published with never change: no update, revision, pause,
\* retirement or hand-over of the provider reaches them.
THEOREM ListingKeepsTerms == ListingSpec => PublishedTermsFrozen
<1>1. ListingInv /\ [ListingNext]_listingVars => [TermsKept]_pact
  <2> SUFFICES ASSUME ListingInv, [ListingNext]_listingVars, ~UNCHANGED pact PROVE TermsKept
    OBVIOUS
  <2>1. RegistryStep
    BY DEF ListingNext, listingVars, registryVars
  <2> QED
    BY <2>1, RegistryKeepsTerms DEF ListingInv, ListingTypeOK
<1> QED
  BY <1>1, ListingInvariant, PTL DEF ListingSpec, PublishedTermsFrozen, TermsKept
-----------------------------------------------------------------------------
(* Control changes hands by consent of both sides. *)

RolesByConsent ==
  \A r \in Roles :
    config'.role[r] # config.role[r] =>
      config'.role[r] = config.pending[r] /\ config'.pending[r] = NoAccount

OwnersByConsent ==
  \A p \in Providers :
    owner[p] \notin {NoAccount, owner'[p]} =>
      owner'[p] = pendingOwner[p] /\ pendingOwner'[p] = NoAccount

\* Of the methods of the governance only an acceptance touches the roles, and
\* only the role accepted.
LEMMA RolesHandedOver ==
  ASSUME GovernanceTypeOK, GovernanceStep
  PROVE  RolesByConsent
<1> USE DEF RolesByConsent
<1> PICK caller \in Accounts : GovernanceStep!(caller)
  BY DEF GovernanceStep
<1>1. CASE \E role \in Roles : AcceptRole(caller, role)
  <2> PICK role \in Roles : AcceptRole(caller, role)
    BY <1>1
  <2> DEFINE roles == [config.role EXCEPT ![role] = caller]
             pending == [config.pending EXCEPT ![role] = NoAccount]
  <2>1. config' = [config EXCEPT !.role = roles, !.pending = pending]
    BY DEF AcceptRole
  <2>2. config'.role = roles /\ config'.pending = pending
    BY <2>1 DEF GovernanceTypeOK, ConfigType
  <2>3. config.role \in [Roles -> Accounts] /\ config.pending \in [Roles -> Accounts \cup {NoAccount}]
    BY DEF GovernanceTypeOK, ConfigType
  <2>4. caller = config.pending[role]
    BY DEF AcceptRole
  <2> QED
    BY ONLY <2>2, <2>3, <2>4 DEF RolesByConsent
<1>2. CASE config'.role = config.role
  BY <1>2
<1>3. config'.role = config.role \/ \E role \in Roles : AcceptRole(caller, role)
  BY DEF GovernanceTypeOK, ConfigType, PauseNewSales, ResumeNewSales, SetProtocolFee,
         ProposeRole, SetWithdrawalCooldown, SetBonds, SetIncidentWindows,
         SetResolutionPolicy, AuthorizeReporter, RevokeReporter
<1> QED
  BY <1>1, <1>2, <1>3

\* A registration reaches only a provider nobody owns; every other change of an
\* owner is an acceptance by the account proposed last.
LEMMA OwnersHandedOver ==
  ASSUME RegistryTypeOK, RegistryStep
  PROVE  OwnersByConsent
<1> USE DEF RegistryTypeOK, OwnersByConsent
<1> PICK caller \in Accounts : RegistryStep!(caller)
  BY DEF RegistryStep
<1>1. CASE \E q \in Providers : RegisterProvider(caller, q)
  <2> PICK q \in Providers : RegisterProvider(caller, q)
    BY <1>1
  <2>1. owner[q] = NoAccount /\ owner' = [owner EXCEPT ![q] = caller]
    BY DEF RegisterProvider, IsNext, UsedProviders
  <2> QED
    BY <2>1
<1>2. CASE \E q \in Providers : AcceptProviderControl(caller, q)
  BY <1>2 DEF AcceptProviderControl
<1>3. CASE UNCHANGED owner
  BY <1>3
<1>4. \/ \E q \in Providers : RegisterProvider(caller, q)
      \/ \E q \in Providers : AcceptProviderControl(caller, q)
      \/ UNCHANGED owner
  BY ONLY RegistryStep!(caller), Zenon
  DEF TransferProviderControl, CreateService, PauseService, ResumeService, RetireService,
      ChangeService, CreatePactDraft, CreatePactRevision, DraftPact, UpdatePactDraft,
      PublishPact, PausePactSales, ResumePactSales, RetirePact, ChangePact
<1> QED
  BY <1>1, <1>2, <1>3, <1>4

\* A step of the whole contract takes at most one method of either kind.
LEMMA HandedOver ==
  ASSUME GovernanceTypeOK, RegistryTypeOK,
         GovernanceStep \/ UNCHANGED config,
         RegistryStep \/ UNCHANGED <<owner, pendingOwner>>
  PROVE  RolesByConsent /\ OwnersByConsent
<1>1. RolesByConsent
  BY RolesHandedOver DEF RolesByConsent
<1>2. OwnersByConsent
  BY OwnersHandedOver DEF OwnersByConsent
<1> QED
  BY <1>1, <1>2

\* The treasury, the guardian, the protocol and a provider go only to the account
\* last proposed for them, and the proposal is spent: whatever other methods run
\* between the proposal and its acceptance.
THEOREM ListingByConsent == ListingSpec => ControlByConsent
<1>1. ListingInv /\ [ListingNext]_listingVars =>
        [RolesByConsent /\ OwnersByConsent]_listingVars
  <2> SUFFICES ASSUME ListingInv, ListingNext PROVE RolesByConsent /\ OwnersByConsent
    OBVIOUS
  <2>1. /\ GovernanceStep \/ UNCHANGED config
        /\ RegistryStep \/ UNCHANGED <<owner, pendingOwner>>
    BY DEF ListingNext, governanceVars, registryVars
  <2> QED
    BY <2>1, HandedOver DEF ListingInv, ListingTypeOK
<1> QED
  BY <1>1, ListingInvariant, PTL
  DEF ListingSpec, ControlByConsent, RolesByConsent, OwnersByConsent
-----------------------------------------------------------------------------
(* Incidents *)

\* The facts of a decision, those of a timeout named apart.
AnyFacts == FactsType \cup {TimeoutFacts}

DecisionType ==
  [exists : BOOLEAN, finalized : BOOLEAN, facts : AnyFacts, byChallenge : BOOLEAN]

DisputeType ==
  [exists : BOOLEAN, challenger : Accounts \cup {NoAccount}, bond : Nat,
   resolved : BOOLEAN, changed : BOOLEAN, bondRefunded : BOOLEAN, original : AnyFacts]

\* Records of the disputes; the counters of faultStats are of no account here.
DisputeTypes ==
  /\ incident \in [IncidentIds -> IncidentType]
  /\ resolution \in [IncidentIds -> DecisionType]
  /\ challenge \in [IncidentIds -> DisputeType]

Undecided == {"NONE", "OPEN", "EVIDENCE_SEALED"}

\* What the stage of an incident says of its decision, its challenge and its
\* deadlines.
StageTells(i) ==
  LET inc == incident[i] IN
  /\ inc.status \in Undecided =>
       ~resolution[i].exists /\ ~challenge[i].exists /\ inc.resolvedAt = 0
  /\ inc.status \notin Undecided => resolution[i].exists
  /\ inc.status = "EVIDENCE_SEALED" => now >= inc.evidenceDeadline
  /\ inc.status = "PRELIMINARY" =>
       ~challenge[i].exists /\ inc.challengeDeadline = inc.resolvedAt + inc.challengeWindow
  /\ inc.status = "CHALLENGED" =>
       challenge[i].exists /\ inc.resolutionDeadline = inc.challengeEvidenceDeadline + inc.timeout
  /\ inc.status = "CHALLENGE_RESOLVED" => challenge[i].exists
  /\ challenge[i].resolved => challenge[i].exists
  /\ challenge[i].exists /\ ~challenge[i].resolved => inc.status = "CHALLENGED"
  /\ inc.end <= inc.openedAt

\* The three windows of WindowsHonoured, one incident at a time.
WindowsOf(i) ==
  LET inc == incident[i] IN
  /\ inc.resolvedAt > 0 => inc.resolvedAt >= inc.evidenceDeadline
  /\ Final(i) /\ inc.resolvedAt > 0 /\ ~challenge[i].exists =>
       inc.finalizedAt >= inc.resolvedAt + inc.challengeWindow
  /\ challenge[i].resolved => now >= inc.challengeEvidenceDeadline

Basics == now \in Nat /\ GovernanceTypeOK /\ RegistryTypeOK

DisputeInv ==
  /\ Basics
  /\ DisputeTypes
  /\ \A i \in IncidentIds : StageTells(i) /\ WindowsOf(i)

-----------------------------------------------------------------------------
(* What each operation makes of the incident it is about *)

\* The other incidents keep their records.
OthersKept(i) ==
  \A j \in IncidentIds \ {i} :
    UNCHANGED <<incident[j], resolution[j], challenge[j]>>

\* Everything a step about incident i has to show.
Handled(i) ==
  /\ DisputeTypes'
  /\ OthersKept(i)
  /\ StageTells(i)' /\ WindowsOf(i)'
  /\ ~Final(i)
  /\ incident'[i].status # "NONE"
  /\ incident[i].status # "NONE" => incident'[i].openedAt = incident[i].openedAt
  /\ resolution[i].exists /\ resolution'[i].facts # resolution[i].facts =>
       incident[i].status = "CHALLENGED" /\ incident'[i].status # "CHALLENGED"

LEMMA FindingTypes ==
  ASSUME DisputeTypes, NEW i \in IncidentIds, NEW facts \in Findings(i)
  PROVE  facts \in AnyFacts
<1> PICK g \in FindingInputs, s \in incident[i].start .. incident[i].end,
         e \in incident[i].start .. incident[i].end : facts = Placed(g, s, e)
  BY DEF Findings
<1>1. s \in Nat /\ e \in Nat
  BY DEF DisputeTypes, IncidentType
<1>2. g \in FactsType
  BY IncidentsAssumption
<1> QED
  BY <1>1, <1>2 DEF FactsType, Placed, AnyFacts

LEMMA OpenHandles ==
  ASSUME DisputeInv, NEW opener \in Accounts, NEW i \in IncidentIds, NEW s \in Services,
         NEW start, NEW end, NEW payment,
         OpenIncident(opener, i, s, start, end, payment), UNCHANGED now, end \in Nat
  PROVE  Handled(i)
<1>1. incident[i].status = "NONE"
  BY DEF OpenIncident, IsNext, UsedIncidents
<1>2. config \in ConfigType /\ now \in Nat
  BY DEF DisputeInv, Basics, GovernanceTypeOK
<1> DEFINE about == [NoIncident EXCEPT !.status = "OPEN", !.service = s, !.opener = opener,
                       !.start = start, !.end = end, !.openedAt = now]
           timed == [about EXCEPT
                       !.evidenceDeadline = now + config.evidenceWindow,
                       !.resolutionDeadline = now + config.evidenceWindow + config.timeout,
                       !.challengeWindow = config.challengeWindow,
                       !.challengeEvidenceWindow = config.challengeEvidenceWindow]
           new == [timed EXCEPT
                     !.timeout = config.timeout, !.quorum = config.quorum,
                     !.reportBond = config.reportBond, !.challengeBond = config.challengeBond]
<1>3. incident' = [incident EXCEPT ![i] = new]
  BY DEF OpenIncident
<1>4. start \in Nat /\ end \in Nat /\ end <= now
  BY DEF OpenIncident
<1>5. /\ about \in IncidentType
      /\ about.status = "OPEN" /\ about.resolvedAt = 0 /\ about.end = end /\ about.openedAt = now
  BY <1>2, <1>4 DEF NoIncident, IncidentType, IncidentStatus
<1> HIDE DEF about
<1>6. /\ timed \in IncidentType
      /\ timed.status = "OPEN" /\ timed.resolvedAt = 0 /\ timed.end = end /\ timed.openedAt = now
  <2>1. /\ now + config.evidenceWindow \in Nat
        /\ now + config.evidenceWindow + config.timeout \in Nat
        /\ config.challengeWindow \in Nat /\ config.challengeEvidenceWindow \in Nat
    BY <1>2 DEF ConfigType
  <2> QED
    BY <1>5, <2>1 DEF IncidentType
<1> HIDE DEF timed
<1>7. /\ new \in IncidentType
      /\ new.status = "OPEN" /\ new.resolvedAt = 0 /\ new.end <= new.openedAt
  <2>1. /\ config.timeout \in Nat /\ config.quorum \in Nat
        /\ config.reportBond \in Nat /\ config.challengeBond \in Nat
    BY <1>2 DEF ConfigType
  <2> QED
    BY <1>4, <1>6, <2>1 DEF IncidentType
<1> HIDE DEF new
<1>8. incident'[i] = new /\ incident' \in [IncidentIds -> IncidentType]
      /\ \A j \in IncidentIds \ {i} : incident'[j] = incident[j]
  BY <1>3, <1>7 DEF DisputeInv, DisputeTypes
<1>9. UNCHANGED <<resolution, challenge>>
  BY DEF OpenIncident
<1>10. ~resolution[i].exists /\ ~challenge[i].exists /\ ~challenge[i].resolved
  BY <1>1 DEF DisputeInv, StageTells, Undecided
<1> QED
  BY <1>1, <1>7, <1>8, <1>9, <1>10
  DEF Handled, DisputeInv, DisputeTypes, OthersKept, StageTells, WindowsOf, Undecided, Final

LEMMA AcknowledgeHandles ==
  ASSUME DisputeInv, NEW caller, NEW i \in IncidentIds, AcknowledgeIncident(caller, i),
         UNCHANGED now
  PROVE  Handled(i)
<1>1. incident' = [incident EXCEPT ![i] = [@ EXCEPT !.acknowledged = TRUE]]
      /\ incident[i].status = "OPEN" /\ UNCHANGED <<resolution, challenge>>
  BY DEF AcknowledgeIncident
<1>2. incident[i] \in IncidentType
  BY DEF DisputeInv, DisputeTypes
<1> DEFINE new == [incident[i] EXCEPT !.acknowledged = TRUE]
<1>3. /\ new \in IncidentType
      /\ new.status = "OPEN" /\ new.resolvedAt = incident[i].resolvedAt
      /\ new.end = incident[i].end /\ new.openedAt = incident[i].openedAt
  BY <1>1, <1>2 DEF IncidentType
<1>4. ~resolution[i].exists /\ ~challenge[i].exists /\ ~challenge[i].resolved
      /\ incident[i].resolvedAt = 0 /\ incident[i].end <= incident[i].openedAt
  BY <1>1 DEF DisputeInv, StageTells, Undecided
<1>5. incident'[i] = new /\ incident' \in [IncidentIds -> IncidentType]
      /\ \A j \in IncidentIds \ {i} : incident'[j] = incident[j]
  BY <1>1, <1>3 DEF DisputeInv, DisputeTypes
<1> HIDE DEF new
<1> QED
  BY <1>1, <1>3, <1>4, <1>5
  DEF Handled, DisputeInv, DisputeTypes, OthersKept, StageTells, WindowsOf, Undecided, Final

LEMMA SealHandles ==
  ASSUME DisputeInv, NEW i \in IncidentIds, SealEvidenceWindow(i), UNCHANGED now
  PROVE  Handled(i)
<1>1. incident' = [incident EXCEPT ![i] = [@ EXCEPT !.status = "EVIDENCE_SEALED"]]
      /\ incident[i].status = "OPEN" /\ UNCHANGED <<resolution, challenge>>
      /\ now >= incident[i].evidenceDeadline
  BY DEF SealEvidenceWindow
<1>2. incident[i] \in IncidentType
  BY DEF DisputeInv, DisputeTypes
<1> DEFINE new == [incident[i] EXCEPT !.status = "EVIDENCE_SEALED"]
<1>3. /\ new \in IncidentType
      /\ new.status = "EVIDENCE_SEALED" /\ new.resolvedAt = incident[i].resolvedAt
      /\ new.evidenceDeadline = incident[i].evidenceDeadline
      /\ new.end = incident[i].end /\ new.openedAt = incident[i].openedAt
  BY <1>1, <1>2 DEF IncidentType, IncidentStatus
<1>4. ~resolution[i].exists /\ ~challenge[i].exists /\ ~challenge[i].resolved
      /\ incident[i].resolvedAt = 0 /\ incident[i].end <= incident[i].openedAt
  BY <1>1 DEF DisputeInv, StageTells, Undecided
<1>5. incident'[i] = new /\ incident' \in [IncidentIds -> IncidentType]
      /\ \A j \in IncidentIds \ {i} : incident'[j] = incident[j]
  BY <1>1, <1>3 DEF DisputeInv, DisputeTypes
<1> HIDE DEF new
<1> QED
  BY <1>1, <1>3, <1>4, <1>5
  DEF Handled, DisputeInv, DisputeTypes, OthersKept, StageTells, WindowsOf, Undecided, Final

\* A decision waits for the evidence deadline: an open incident reached it now,
\* a sealed one before.
LEMMA ResolveHandles ==
  ASSUME DisputeInv, NEW i \in IncidentIds, NEW facts \in Findings(i),
         ResolveIncident(i, facts), UNCHANGED now
  PROVE  Handled(i)
<1> DEFINE inc == incident[i]
           decided == [inc EXCEPT !.status = "PRELIMINARY"]
           timed == [decided EXCEPT !.resolvedAt = now]
           new == [timed EXCEPT !.challengeDeadline = now + inc.challengeWindow]
           decision == [exists |-> TRUE, finalized |-> FALSE, facts |-> facts,
                        byChallenge |-> FALSE]
<1>1. /\ inc.status \in {"OPEN", "EVIDENCE_SEALED"}
      /\ inc.status = "OPEN" => now >= inc.evidenceDeadline
      /\ resolution' = [resolution EXCEPT ![i] = decision]
      /\ UNCHANGED challenge
  BY DEF ResolveIncident
<1>2. inc \in IncidentType /\ now \in Nat
  BY DEF DisputeInv, DisputeTypes, Basics
<1>3. incident' = [incident EXCEPT ![i] = new]
  BY <1>2 DEF ResolveIncident, DisputeInv, DisputeTypes
<1>4. /\ new \in IncidentType
      /\ new.status = "PRELIMINARY" /\ new.resolvedAt = now
      /\ new.challengeDeadline = now + new.challengeWindow
      /\ new.evidenceDeadline = inc.evidenceDeadline
      /\ new.end = inc.end /\ new.openedAt = inc.openedAt
  <2>1. decided \in IncidentType
    BY <1>2 DEF IncidentType, IncidentStatus
  <2>2. timed \in IncidentType
    BY <1>2, <2>1 DEF IncidentType
  <2>3. now + inc.challengeWindow \in Nat
    BY <1>2 DEF IncidentType
  <2> QED
    BY <1>2, <2>1, <2>2, <2>3 DEF IncidentType
<1>5. ~resolution[i].exists /\ ~challenge[i].exists /\ ~challenge[i].resolved
      /\ inc.end <= inc.openedAt /\ now >= inc.evidenceDeadline
  BY <1>1 DEF DisputeInv, StageTells, Undecided
<1>6. incident'[i] = new /\ incident' \in [IncidentIds -> IncidentType]
      /\ \A j \in IncidentIds \ {i} : incident'[j] = incident[j]
  BY <1>3, <1>4 DEF DisputeInv, DisputeTypes
<1>7. /\ resolution'[i] = decision /\ decision.exists
      /\ resolution' \in [IncidentIds -> DecisionType]
      /\ \A j \in IncidentIds \ {i} : resolution'[j] = resolution[j]
  <2>1. decision \in DecisionType
    BY FindingTypes DEF DecisionType, DisputeInv
  <2> QED
    BY <1>1, <2>1 DEF DisputeInv, DisputeTypes
<1> HIDE DEF new, decision
<1> QED
  BY <1>1, <1>4, <1>5, <1>6, <1>7
  DEF Handled, DisputeInv, DisputeTypes, OthersKept, StageTells, WindowsOf, Undecided, Final

LEMMA ChallengeHandles ==
  ASSUME DisputeInv, NEW challenger \in Accounts, NEW i \in IncidentIds, NEW payment,
         ChallengeIncident(challenger, i, payment), UNCHANGED now
  PROVE  Handled(i)
<1> DEFINE inc == incident[i]
           deadline == now + inc.challengeEvidenceWindow
           moved == [inc EXCEPT !.status = "CHALLENGED", !.rounds = inc.rounds + 1]
           timed == [moved EXCEPT !.challengeEvidenceDeadline = deadline]
           new == [timed EXCEPT !.resolutionDeadline = deadline + inc.timeout]
           raised == [exists |-> TRUE, challenger |-> challenger, bond |-> inc.challengeBond,
                      resolved |-> FALSE, changed |-> FALSE, bondRefunded |-> FALSE,
                      original |-> resolution[i].facts]
<1>1. /\ inc.status = "PRELIMINARY" /\ resolution[i].exists
      /\ challenge' = [challenge EXCEPT ![i] = raised]
      /\ UNCHANGED resolution
  BY DEF ChallengeIncident
<1>2. inc \in IncidentType /\ now \in Nat
  BY DEF DisputeInv, DisputeTypes, Basics
<1>3. incident' = [incident EXCEPT ![i] = new]
  BY <1>2 DEF ChallengeIncident, DisputeInv, DisputeTypes, IncidentType
<1>4. /\ new \in IncidentType
      /\ new.status = "CHALLENGED"
      /\ new.resolutionDeadline = new.challengeEvidenceDeadline + new.timeout
      /\ new.resolvedAt = inc.resolvedAt /\ new.evidenceDeadline = inc.evidenceDeadline
      /\ new.end = inc.end /\ new.openedAt = inc.openedAt
  <2>1. moved \in IncidentType
    <3>1. inc.rounds + 1 \in Nat
      BY <1>2 DEF IncidentType
    <3> QED
      BY <1>2, <3>1 DEF IncidentType, IncidentStatus
  <2>2. deadline \in Nat /\ deadline + inc.timeout \in Nat
    BY <1>2 DEF IncidentType
  <2>3. timed \in IncidentType
    BY <2>1, <2>2 DEF IncidentType
  <2> QED
    BY <1>2, <2>1, <2>2, <2>3 DEF IncidentType
<1>5. inc.end <= inc.openedAt /\ (inc.resolvedAt > 0 => inc.resolvedAt >= inc.evidenceDeadline)
  BY DEF DisputeInv, StageTells, WindowsOf
<1>6. incident'[i] = new /\ incident' \in [IncidentIds -> IncidentType]
      /\ \A j \in IncidentIds \ {i} : incident'[j] = incident[j]
  BY <1>3, <1>4 DEF DisputeInv, DisputeTypes
<1>7. /\ challenge'[i] = raised /\ raised.exists /\ ~raised.resolved
      /\ challenge' \in [IncidentIds -> DisputeType]
      /\ \A j \in IncidentIds \ {i} : challenge'[j] = challenge[j]
  <2>1. inc.challengeBond \in Nat /\ resolution[i].facts \in AnyFacts
    BY <1>2 DEF IncidentType, DisputeInv, DisputeTypes, DecisionType
  <2>2. raised \in DisputeType
    BY <2>1 DEF DisputeType
  <2> QED
    BY <1>1, <2>2 DEF DisputeInv, DisputeTypes
<1> HIDE DEF new, raised
<1> QED
  BY <1>1, <1>4, <1>5, <1>6, <1>7
  DEF Handled, DisputeInv, DisputeTypes, OthersKept, StageTells, WindowsOf, Undecided, Final

LEMMA SettledIs ==
  ASSUME NEW ch \in DisputeType, NEW changed \in BOOLEAN
  PROVE  /\ Settled(ch, changed) \in DisputeType
         /\ Settled(ch, changed).resolved
         /\ Settled(ch, changed).exists = ch.exists
BY DEF Settled, DisputeType

LEMMA ResolveChallengeHandles ==
  ASSUME DisputeInv, NEW i \in IncidentIds, NEW facts \in Findings(i),
         ResolveChallenge(i, facts), UNCHANGED now
  PROVE  Handled(i)
<1> DEFINE inc == incident[i]
           new == [inc EXCEPT !.status = "CHALLENGE_RESOLVED"]
           decision == [exists |-> TRUE, finalized |-> FALSE, facts |-> facts,
                        byChallenge |-> TRUE]
<1> PICK settled : settled = Settled(challenge[i], facts # challenge[i].original)
  OBVIOUS
<1>1. /\ inc.status = "CHALLENGED" /\ now >= inc.challengeEvidenceDeadline
      /\ challenge[i].exists
      /\ resolution' = [resolution EXCEPT ![i] = decision]
      /\ challenge' = [challenge EXCEPT ![i] = settled]
      /\ incident' = [incident EXCEPT ![i] = new]
  BY DEF ResolveChallenge
<1>2. inc \in IncidentType /\ challenge[i] \in DisputeType
  BY DEF DisputeInv, DisputeTypes
<1>3. /\ new \in IncidentType
      /\ new.status = "CHALLENGE_RESOLVED"
      /\ new.challengeEvidenceDeadline = inc.challengeEvidenceDeadline
      /\ new.resolvedAt = inc.resolvedAt /\ new.evidenceDeadline = inc.evidenceDeadline
      /\ new.end = inc.end /\ new.openedAt = inc.openedAt
  BY <1>2 DEF IncidentType, IncidentStatus
<1>4. inc.end <= inc.openedAt /\ (inc.resolvedAt > 0 => inc.resolvedAt >= inc.evidenceDeadline)
  BY DEF DisputeInv, StageTells, WindowsOf
<1>5. incident'[i] = new /\ incident' \in [IncidentIds -> IncidentType]
      /\ \A j \in IncidentIds \ {i} : incident'[j] = incident[j]
  BY <1>1, <1>3 DEF DisputeInv, DisputeTypes
<1>6. /\ challenge'[i] = settled /\ settled.exists /\ settled.resolved
      /\ challenge' \in [IncidentIds -> DisputeType]
      /\ \A j \in IncidentIds \ {i} : challenge'[j] = challenge[j]
  <2>1. settled \in DisputeType /\ settled.exists /\ settled.resolved
    BY <1>1, <1>2, SettledIs
  <2> QED
    BY <1>1, <2>1 DEF DisputeInv, DisputeTypes
<1>7. /\ resolution'[i] = decision /\ decision.exists
      /\ resolution' \in [IncidentIds -> DecisionType]
      /\ \A j \in IncidentIds \ {i} : resolution'[j] = resolution[j]
  <2>1. decision \in DecisionType
    BY FindingTypes DEF DecisionType, DisputeInv
  <2> QED
    BY <1>1, <2>1 DEF DisputeInv, DisputeTypes
<1> HIDE DEF new, decision
<1> QED
  BY <1>1, <1>3, <1>4, <1>5, <1>6, <1>7
  DEF Handled, DisputeInv, DisputeTypes, OthersKept, StageTells, WindowsOf, Undecided, Final

\* The final record of an incident, and its decision.
LEMMA FinalizeStoredIs ==
  ASSUME DisputeInv, NEW i \in IncidentIds, NEW res \in DecisionType, NEW cr,
         FinalizeStored(i, incident[i], res, cr)
  PROVE  LET inc == incident[i]
             new == incident'[i]
         IN
         /\ incident' \in [IncidentIds -> IncidentType]
         /\ resolution' \in [IncidentIds -> DecisionType]
         /\ \A j \in IncidentIds \ {i} :
              incident'[j] = incident[j] /\ resolution'[j] = resolution[j]
         /\ new.status = "FINALIZED" /\ new.finalizedAt = now
         /\ new.resolvedAt = inc.resolvedAt /\ new.evidenceDeadline = inc.evidenceDeadline
         /\ new.challengeWindow = inc.challengeWindow
         /\ new.challengeEvidenceDeadline = inc.challengeEvidenceDeadline
         /\ new.end = inc.end /\ new.openedAt = inc.openedAt
         /\ resolution'[i].facts = res.facts /\ resolution'[i].exists = res.exists
<1> DEFINE inc == incident[i]
           new == [inc EXCEPT !.status = "FINALIZED", !.finalizedAt = now,
                              !.bondRefunded = inc.bondRefunded \/ inc.reportBond > 0]
           final == [res EXCEPT !.finalized = TRUE]
<1>1. /\ incident' = [incident EXCEPT ![i] = new]
      /\ resolution' = [resolution EXCEPT ![i] = final]
  BY DEF FinalizeStored
<1>2. inc \in IncidentType /\ now \in Nat
  BY DEF DisputeInv, DisputeTypes, Basics
<1>3. /\ new \in IncidentType
      /\ new.status = "FINALIZED" /\ new.finalizedAt = now
      /\ new.resolvedAt = inc.resolvedAt /\ new.evidenceDeadline = inc.evidenceDeadline
      /\ new.challengeWindow = inc.challengeWindow
      /\ new.challengeEvidenceDeadline = inc.challengeEvidenceDeadline
      /\ new.end = inc.end /\ new.openedAt = inc.openedAt
  BY <1>2 DEF IncidentType, IncidentStatus
<1>4. final \in DecisionType /\ final.facts = res.facts /\ final.exists = res.exists
  BY DEF DecisionType
<1> HIDE DEF new, final
<1> QED
  BY <1>1, <1>3, <1>4 DEF DisputeInv, DisputeTypes

\* A preliminary decision is final only when its challenge window is over.
LEMMA FinalizeHandles ==
  ASSUME DisputeInv, NEW i \in IncidentIds, FinalizeIncident(i), UNCHANGED now
  PROVE  Handled(i)
<1> DEFINE inc == incident[i]
<1>1. resolution[i] \in DecisionType /\ inc \in IncidentType /\ now \in Nat
  BY DEF DisputeInv, DisputeTypes, Basics
<1>2. /\ FinalizeStored(i, incident[i], resolution[i], credits)
      /\ UNCHANGED challenge /\ resolution[i].exists
      /\ \/ inc.status = "PRELIMINARY" /\ now >= inc.challengeDeadline
         \/ inc.status = "CHALLENGE_RESOLVED"
  BY DEF FinalizeIncident, CanFinalize
<1>3. /\ ~challenge[i].exists => now >= inc.resolvedAt + inc.challengeWindow
      /\ challenge[i].exists => challenge[i].resolved
      /\ challenge[i].resolved => challenge[i].exists /\ now >= inc.challengeEvidenceDeadline
      /\ inc.end <= inc.openedAt
      /\ inc.resolvedAt > 0 => inc.resolvedAt >= inc.evidenceDeadline
  BY <1>2 DEF DisputeInv, StageTells, WindowsOf
<1> QED
  BY <1>1, <1>2, <1>3, FinalizeStoredIs
  DEF Handled, DisputeInv, DisputeTypes, OthersKept, StageTells, WindowsOf, Undecided, Final

LEMMA TimeoutUndecidedHandles ==
  ASSUME DisputeInv, NEW i \in IncidentIds, TimeoutUndecided(i), UNCHANGED now
  PROVE  Handled(i)
<1> PICK res : res = [NoResolution EXCEPT !.exists = TRUE]
  OBVIOUS
<1>1. res \in DecisionType /\ res.exists
  BY DEF NoResolution, DecisionType, AnyFacts
<1>2. /\ FinalizeStored(i, incident[i], res, credits)
      /\ UNCHANGED challenge /\ ~resolution[i].exists
      /\ incident[i].status # "FINALIZED"
  BY DEF TimeoutUndecided, TimedOut
<1>3. /\ incident[i].status \in Undecided
      /\ ~challenge[i].exists /\ ~challenge[i].resolved /\ incident[i].resolvedAt = 0
      /\ incident[i].end <= incident[i].openedAt
  BY <1>2 DEF DisputeInv, StageTells
<1>4. /\ incident' \in [IncidentIds -> IncidentType]
      /\ resolution' \in [IncidentIds -> DecisionType]
      /\ \A j \in IncidentIds \ {i} :
           incident'[j] = incident[j] /\ resolution'[j] = resolution[j]
      /\ incident'[i].status = "FINALIZED" /\ resolution'[i].exists
      /\ incident'[i].resolvedAt = incident[i].resolvedAt
      /\ incident'[i].evidenceDeadline = incident[i].evidenceDeadline
      /\ incident'[i].challengeEvidenceDeadline = incident[i].challengeEvidenceDeadline
      /\ incident'[i].end = incident[i].end /\ incident'[i].openedAt = incident[i].openedAt
  BY <1>1, <1>2, FinalizeStoredIs
<1>5. DisputeTypes' /\ OthersKept(i)
  BY <1>2, <1>3, <1>4 DEF DisputeInv, DisputeTypes, OthersKept
<1>6. StageTells(i)'
  BY <1>2, <1>3, <1>4 DEF StageTells, Undecided
<1>7. WindowsOf(i)'
  BY <1>2, <1>3, <1>4 DEF WindowsOf
<1> QED
  BY <1>2, <1>3, <1>4, <1>5, <1>6, <1>7 DEF Handled, Undecided, Final

\* The timeout of a challenge lies behind the evidence deadline of the challenge.
LEMMA TimeoutChallengeHandles ==
  ASSUME DisputeInv, NEW i \in IncidentIds, TimeoutChallenge(i), UNCHANGED now
  PROVE  Handled(i)
<1> DEFINE inc == incident[i]
           cr == Credit(credits, config.role["treasury"], BondDue(challenge[i]))
<1> PICK res : res = [NoResolution EXCEPT !.exists = TRUE, !.byChallenge = TRUE]
  OBVIOUS
<1> PICK settled : settled = Settled(challenge[i], FALSE)
  OBVIOUS
<1>1. res \in DecisionType /\ res.exists
  BY DEF NoResolution, DecisionType, AnyFacts
<1>2. /\ FinalizeStored(i, incident[i], res, cr)
      /\ challenge' = [challenge EXCEPT ![i] = settled]
      /\ inc.status = "CHALLENGED" /\ challenge[i].exists
      /\ now >= inc.resolutionDeadline
  BY DEF TimeoutChallenge, TimedOut
<1>3. challenge[i] \in DisputeType /\ inc \in IncidentType /\ now \in Nat
  BY DEF DisputeInv, DisputeTypes, Basics
<1>4. /\ now >= inc.challengeEvidenceDeadline
      /\ inc.end <= inc.openedAt
      /\ inc.resolvedAt > 0 => inc.resolvedAt >= inc.evidenceDeadline
  <2>1. inc.resolutionDeadline = inc.challengeEvidenceDeadline + inc.timeout
    BY <1>2 DEF DisputeInv, StageTells
  <2>2. now >= inc.challengeEvidenceDeadline
    BY <1>2, <1>3, <2>1 DEF IncidentType
  <2> QED
    BY <2>2 DEF DisputeInv, StageTells, WindowsOf
<1>5. /\ challenge'[i] = settled /\ settled.exists /\ settled.resolved
      /\ challenge' \in [IncidentIds -> DisputeType]
      /\ \A j \in IncidentIds \ {i} : challenge'[j] = challenge[j]
  <2>1. settled \in DisputeType /\ settled.exists /\ settled.resolved
    BY <1>2, <1>3, SettledIs
  <2> QED
    BY <1>2, <2>1 DEF DisputeInv, DisputeTypes
<1> HIDE DEF cr
<1>6. /\ incident' \in [IncidentIds -> IncidentType]
      /\ resolution' \in [IncidentIds -> DecisionType]
      /\ \A j \in IncidentIds \ {i} :
           incident'[j] = incident[j] /\ resolution'[j] = resolution[j]
      /\ incident'[i].status = "FINALIZED" /\ resolution'[i].exists
      /\ incident'[i].resolvedAt = inc.resolvedAt
      /\ incident'[i].evidenceDeadline = inc.evidenceDeadline
      /\ incident'[i].challengeEvidenceDeadline = inc.challengeEvidenceDeadline
      /\ incident'[i].end = inc.end /\ incident'[i].openedAt = inc.openedAt
  BY <1>1, <1>2, FinalizeStoredIs
<1>7. DisputeTypes' /\ OthersKept(i)
  BY <1>2, <1>3, <1>4, <1>5, <1>6 DEF DisputeInv, DisputeTypes, OthersKept
<1>8. StageTells(i)'
  BY <1>2, <1>3, <1>4, <1>5, <1>6 DEF StageTells, Undecided
<1>9. WindowsOf(i)'
  BY <1>2, <1>3, <1>4, <1>5, <1>6 DEF WindowsOf
<1> QED
  BY <1>2, <1>3, <1>4, <1>5, <1>6, <1>7, <1>8, <1>9 DEF Handled, Undecided, Final

-----------------------------------------------------------------------------
(* Any step of the disputes *)

\* What the disputes see of the other components.
Elsewhere == UNCHANGED <<incident, resolution, challenge>> /\ now' \in {now, now + 1}

LEMMA HandlingIsHandled ==
  ASSUME DisputeInv, HandlingStep
  PROVE  \E i \in IncidentIds : Handled(i)
<1>1. UNCHANGED now
  BY DEF HandlingStep
<1> PICK i \in IncidentIds :
       \/ \E opener \in Accounts, s \in Services, lag \in ObservedLags,
             span \in ObservedSpans, payment \in BondPayments :
            OpenIncident(opener, i, s, now - lag - span, now - lag, payment)
       \/ \E caller \in Accounts : AcknowledgeIncident(caller, i)
       \/ SealEvidenceWindow(i)
       \/ \E facts \in Findings(i) : ResolveIncident(i, facts) \/ ResolveChallenge(i, facts)
       \/ \E challenger \in Accounts, payment \in BondPayments :
            ChallengeIncident(challenger, i, payment)
       \/ FinalizeIncident(i)
  BY Zenon DEF HandlingStep
<1>2. CASE \E opener \in Accounts, s \in Services, lag \in ObservedLags,
              span \in ObservedSpans, payment \in BondPayments :
             OpenIncident(opener, i, s, now - lag - span, now - lag, payment)
  <2> PICK opener \in Accounts, s \in Services, lag \in ObservedLags,
           span \in ObservedSpans, payment \in BondPayments :
         OpenIncident(opener, i, s, now - lag - span, now - lag, payment)
    BY <1>2, Zenon
  <2>1. now - lag \in Nat
    <3>1. now \in Nat /\ lag \in Nat /\ span \in Nat
      BY IncidentsAssumption DEF DisputeInv, Basics
    <3>2. now - lag - span \in Nat /\ now - lag - span < now - lag
      BY DEF OpenIncident
    <3> QED
      BY <3>1, <3>2
  <2> QED
    BY <1>1, <2>1, OpenHandles
<1>3. CASE \E caller \in Accounts : AcknowledgeIncident(caller, i)
  BY <1>1, <1>3, AcknowledgeHandles
<1>4. CASE \E facts \in Findings(i) : ResolveIncident(i, facts) \/ ResolveChallenge(i, facts)
  BY <1>1, <1>4, ResolveHandles, ResolveChallengeHandles
<1>5. CASE \E challenger \in Accounts, payment \in BondPayments :
             ChallengeIncident(challenger, i, payment)
  BY <1>1, <1>5, ChallengeHandles
<1> QED
  BY <1>1, <1>2, <1>3, <1>4, <1>5, SealHandles, FinalizeHandles

LEMMA TimeoutIsHandled ==
  ASSUME DisputeInv, NEW i \in IncidentIds, TimeoutStep(i)
  PROVE  Handled(i)
BY TimeoutUndecidedHandles, TimeoutChallengeHandles DEF TimeoutStep

LEMMA HandledKeeps ==
  ASSUME DisputeInv, NEW i \in IncidentIds, Handled(i), UNCHANGED now, Basics'
  PROVE  DisputeInv'
<1> SUFFICES ASSUME NEW j \in IncidentIds, j # i
             PROVE  (StageTells(j) /\ WindowsOf(j))'
  BY DEF Handled, DisputeInv
<1> QED
  BY DEF DisputeInv, Handled, OthersKept, StageTells, WindowsOf, Final

LEMMA ElsewhereKeeps ==
  ASSUME DisputeInv, Elsewhere, Basics'
  PROVE  DisputeInv'
<1> SUFFICES ASSUME NEW i \in IncidentIds
             PROVE  (StageTells(i) /\ WindowsOf(i))'
  BY DEF Elsewhere, DisputeInv, DisputeTypes
<1>1. now \in Nat /\ incident[i] \in IncidentType
  BY DEF DisputeInv, DisputeTypes, Basics
<1>2. now >= incident[i].evidenceDeadline => now' >= incident[i].evidenceDeadline
  BY <1>1 DEF Elsewhere, IncidentType
<1>3. now >= incident[i].challengeEvidenceDeadline =>
        now' >= incident[i].challengeEvidenceDeadline
  BY <1>1 DEF Elsewhere, IncidentType
<1> QED
  BY <1>2, <1>3 DEF DisputeInv, Elsewhere, StageTells, WindowsOf, Final

LEMMA DisputeInvStarts ==
  ASSUME DisputeInit
  PROVE  DisputeInv
<1>1. Basics
  BY GovernanceInitTypes, RegistryInitTypes DEF DisputeInit, LedgerInit, Basics
<1>2. NoIncident \in IncidentType
  BY DEF NoIncident, IncidentType, IncidentStatus
<1>3. NoResolution \in DecisionType
  BY DEF NoResolution, DecisionType, AnyFacts
<1>4. NoChallenge \in DisputeType
  BY DEF NoChallenge, DisputeType, AnyFacts
<1>5. DisputeTypes
  BY <1>2, <1>3, <1>4 DEF DisputeInit, IncidentsInit, DisputeTypes
<1>6. \A i \in IncidentIds : StageTells(i) /\ WindowsOf(i)
  BY DEF DisputeInit, IncidentsInit, StageTells, WindowsOf, Undecided, Final, NoIncident,
         NoResolution, NoChallenge
<1> QED
  BY <1>1, <1>5, <1>6 DEF DisputeInv
=============================================================================
