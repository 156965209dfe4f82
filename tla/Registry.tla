------------------------------ MODULE Registry ------------------------------
(***************************************************************************)
(* Providers, their services and the pacts (SLA terms) sold for them       *)
(* (src/contracts/FaultPact.py, "Provider registry", "Service registry",   *)
(* "Pact / SLA engine").                                                   *)
(*                                                                         *)
(* The contract numbers providers, services and pacts with next_*_id       *)
(* counters; here each is a natural number taken in order (IsNext).  Which *)
(* service a pact id will belong to, and which provider a service id, is   *)
(* fixed when the id is created and never changes: PactService and         *)
(* ServiceProvider.  Names, URIs and hashes carry no behaviour.            *)
(***************************************************************************)
EXTENDS Governance

CONSTANTS
  Providers, Services, Pacts,   \* finite sets of ids
  ServiceProvider,              \* the provider of a service
  PactService,                  \* the service of a pact
  TermsInputs,                  \* the terms a provider drafts
  OwnerCandidates               \* accounts a provider is handed over to

ASSUME RegistryAssumption ==
  /\ Providers \cup Services \cup Pacts \subseteq Nat
  /\ IsFiniteSet(Providers) /\ IsFiniteSet(Services) /\ IsFiniteSet(Pacts)
  /\ ServiceProvider \in [Services -> Providers]
  /\ PactService \in [Pacts -> Services]
  /\ TermsInputs # {}
  /\ \A t \in TermsInputs : t \in TermsType
  /\ OwnerCandidates \subseteq Accounts

PactProvider(d) == ServiceProvider[PactService[d]]

VARIABLES
  owner,          \* owner[p]: controls provider p; NoAccount before registration
  pendingOwner,   \* the proposed next owner
  service,        \* service[s]: its status
  pact            \* pact[d]: status, terms, frozen, revision, parent

registryVars == <<owner, pendingOwner, service, pact>>

ServiceStatus == {"NONE", "ACTIVE", "PAUSED", "RETIRED"}
PactStatus == {"NONE", "DRAFT", "ACTIVE", "PAUSED", "RETIRED"}

PactType ==
  [status : PactStatus, terms : TermsInputs, frozen : BOOLEAN,
   revision : Nat, parent : Pacts \cup {0}]

RegistryTypeOK ==
  /\ owner \in [Providers -> Accounts \cup {NoAccount}]
  /\ pendingOwner \in [Providers -> Accounts \cup {NoAccount}]
  /\ service \in [Services -> ServiceStatus]
  /\ pact \in [Pacts -> PactType]

\* The terms of an id no pact has yet are of no account.
RegistryInit ==
  /\ owner = [p \in Providers |-> NoAccount]
  /\ pendingOwner = [p \in Providers |-> NoAccount]
  /\ service = [s \in Services |-> "NONE"]
  /\ pact = [d \in Pacts |->
               [status |-> "NONE", terms |-> CHOOSE t \in TermsInputs : TRUE,
                frozen |-> FALSE, revision |-> 0, parent |-> 0]]

\* id is the value of the next_*_id counter over ids when used ones are taken.
IsNext(id, ids, used) ==
  /\ id \in ids \ used
  /\ \A j \in ids : j < id => j \in used

UsedProviders == {p \in Providers : owner[p] # NoAccount}
UsedServices == {s \in Services : service[s] # "NONE"}
UsedPacts == {d \in Pacts : pact[d].status # "NONE"}

\* _require_provider_owner
Controls(caller, p) == caller = owner[p]

\* _build_terms: the ranges the contract insists on, and at least one clause.
TermsAllowed(t) ==
  /\ t.claimWindow > 0
  /\ t.minDuration > 0 /\ t.maxDuration >= t.minDuration
  /\ t.minAmount > 0 /\ t.maxAmount >= t.minAmount
  /\ t.deductibleBps <= BpsDenom
  /\ t.maxPayoutBps \in 1 .. BpsDenom
  /\ t.premiumBps <= BpsDenom * 10
  /\ \E c \in Clauses : t.threshold[c] > 0

\* register_provider: the sender owns the new provider.
RegisterProvider(caller, p) ==
  /\ IsNext(p, Providers, UsedProviders)
  /\ owner' = [owner EXCEPT ![p] = caller]
  /\ pendingOwner' = [pendingOwner EXCEPT ![p] = NoAccount]
  /\ UNCHANGED <<service, pact>>

\* transfer_provider_control
TransferProviderControl(caller, p, candidate) ==
  /\ Controls(caller, p)
  /\ pendingOwner' = [pendingOwner EXCEPT ![p] = candidate]
  /\ UNCHANGED <<owner, service, pact>>

\* accept_provider_control
AcceptProviderControl(caller, p) ==
  /\ caller = pendingOwner[p]
  /\ owner' = [owner EXCEPT ![p] = caller]
  /\ pendingOwner' = [pendingOwner EXCEPT ![p] = NoAccount]
  /\ UNCHANGED <<service, pact>>

\* create_service
CreateService(caller, s) ==
  /\ IsNext(s, Services, UsedServices)
  /\ Controls(caller, ServiceProvider[s])
  /\ service' = [service EXCEPT ![s] = "ACTIVE"]
  /\ UNCHANGED <<owner, pendingOwner, pact>>

\* pause_service, resume_service, retire_service: retirement is final.
ChangeService(caller, s, from, to) ==
  /\ service[s] \in from
  /\ Controls(caller, ServiceProvider[s])
  /\ service' = [service EXCEPT ![s] = to]
  /\ UNCHANGED <<owner, pendingOwner, pact>>

PauseService(caller, s) == ChangeService(caller, s, {"ACTIVE"}, "PAUSED")
ResumeService(caller, s) == ChangeService(caller, s, {"PAUSED"}, "ACTIVE")
RetireService(caller, s) == ChangeService(caller, s, {"ACTIVE", "PAUSED"}, "RETIRED")

\* A new draft takes the next pact id; its service exists and is not retired.
DraftPact(caller, d, terms, revision, parent) ==
  /\ IsNext(d, Pacts, UsedPacts)
  /\ Controls(caller, PactProvider(d))
  /\ service[PactService[d]] \in {"ACTIVE", "PAUSED"}
  /\ TermsAllowed(terms)
  /\ pact' = [pact EXCEPT ![d] =
                [status |-> "DRAFT", terms |-> terms, frozen |-> FALSE,
                 revision |-> revision, parent |-> parent]]
  /\ UNCHANGED <<owner, pendingOwner, service>>

\* create_pact_draft
CreatePactDraft(caller, d, terms) == DraftPact(caller, d, terms, 1, 0)

\* create_pact_revision: the parent left the draft stage; it stays on sale.
CreatePactRevision(caller, d, parent, terms) ==
  /\ pact[parent].status \in {"ACTIVE", "PAUSED", "RETIRED"}
  /\ PactService[d] = PactService[parent]
  /\ DraftPact(caller, d, terms, pact[parent].revision + 1, parent)

\* update_pact_draft
\* (Mutant: also of a pact whose sales are paused.)
UpdatePausedPact(caller, d, terms) ==
  /\ pact[d].status \in {"DRAFT", "PAUSED"}
  /\ Controls(caller, PactProvider(d))
  /\ TermsAllowed(terms)
  /\ pact' = [pact EXCEPT ![d].terms = terms, ![d].frozen = FALSE]
  /\ UNCHANGED <<owner, pendingOwner, service>>
UpdatePactDraft(caller, d, terms) ==
  /\ pact[d].status = "DRAFT"
  /\ Controls(caller, PactProvider(d))
  /\ TermsAllowed(terms)
  /\ pact' = [pact EXCEPT ![d].terms = terms, ![d].frozen = FALSE]
  /\ UNCHANGED <<owner, pendingOwner, service>>

\* publish_pact: the terms are frozen.
PublishPact(caller, d) ==
  /\ ~config.salesPaused
  /\ pact[d].status = "DRAFT"
  /\ Controls(caller, PactProvider(d))
  /\ service[PactService[d]] # "RETIRED"
  /\ pact' = [pact EXCEPT ![d].status = "ACTIVE", ![d].frozen = TRUE]
  /\ UNCHANGED <<owner, pendingOwner, service>>

\* pause_pact_sales, resume_pact_sales, retire_pact: retirement is final.
ChangePact(caller, d, from, to) ==
  /\ pact[d].status \in from
  /\ Controls(caller, PactProvider(d))
  /\ pact' = [pact EXCEPT ![d].status = to]
  /\ UNCHANGED <<owner, pendingOwner, service>>

PausePactSales(caller, d) == ChangePact(caller, d, {"ACTIVE"}, "PAUSED")
ResumePactSales(caller, d) == ChangePact(caller, d, {"PAUSED"}, "ACTIVE")
RetirePact(caller, d) == ChangePact(caller, d, {"DRAFT", "ACTIVE", "PAUSED"}, "RETIRED")

\* Any method of the registries, by any caller.
RegistryStep ==
  \E caller \in Accounts :
    \/ \E p \in Providers :
         \/ RegisterProvider(caller, p)
         \/ \E a \in OwnerCandidates : TransferProviderControl(caller, p, a)
         \/ AcceptProviderControl(caller, p)
    \/ \E s \in Services :
         \/ CreateService(caller, s)
         \/ PauseService(caller, s)
         \/ ResumeService(caller, s)
         \/ RetireService(caller, s)
    \/ \E d \in Pacts, t \in TermsInputs :
         \/ CreatePactDraft(caller, d, t)
         \/ \E parent \in Pacts : CreatePactRevision(caller, d, parent, t)
         \/ UpdatePactDraft(caller, d, t)
    \/ \E d \in Pacts :
         \/ PublishPact(caller, d)
         \/ PausePactSales(caller, d)
         \/ ResumePactSales(caller, d)
         \/ RetirePact(caller, d)

-----------------------------------------------------------------------------
(* The registries and the governance on their own. *)

listingVars == <<ledgerVars, governanceVars, registryVars>>

ListingInit == LedgerInit /\ GovernanceInit /\ RegistryInit

ListingNext ==
  \/ GovernanceStep /\ UNCHANGED <<ledgerVars, registryVars>>
  \/ RegistryStep /\ UNCHANGED <<ledgerVars, governanceVars>>

ListingSpec == ListingInit /\ [][ListingNext]_listingVars

-----------------------------------------------------------------------------
(* Properties *)

ListingTypeOK == LedgerTypeOK /\ GovernanceTypeOK /\ RegistryTypeOK

\* The terms a pact was published with never change, whatever becomes of the
\* pact, so a coverage is judged by the terms it was bought under.
PublishedTermsFrozen ==
  [][\A d \in Pacts : pact[d].frozen => pact'[d].frozen /\ pact'[d].terms = pact[d].terms]_pact

\* Control changes hands by consent of both: the treasury, the guardian, the
\* protocol and a provider go only to the account last proposed for them, and a
\* proposal that was accepted cannot be accepted again later.
ControlByConsent ==
  [][/\ \A r \in Roles :
          config'.role[r] # config.role[r] =>
            config'.role[r] = config.pending[r] /\ config'.pending[r] = NoAccount
     /\ \A p \in Providers :
          owner[p] \notin {NoAccount, owner'[p]} =>
            owner'[p] = pendingOwner[p] /\ pendingOwner'[p] = NoAccount]_listingVars
=============================================================================
