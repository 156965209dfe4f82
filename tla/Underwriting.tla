---------------------------- MODULE Underwriting ----------------------------
(***************************************************************************)
(* The capital vaults of the providers and the coverages sold against them *)
(* (src/contracts/FaultPact.py, "Capital vault", "Coverage engine").       *)
(*                                                                         *)
(* A provider deposits capital, allocates it to pacts and may withdraw     *)
(* what is free after a cooldown.  A coverage reserves its whole limit out *)
(* of the pact's allocation; its premium, less the protocol fee, is held   *)
(* until the coverage can no longer be claimed against.                    *)
(***************************************************************************)
EXTENDS Registry

CONSTANTS
  Coverages,        \* coverage ids
  CapitalInputs,    \* amounts deposited, allocated, deallocated, withdrawn
  LimitInputs, DurationInputs,      \* what buyers ask for
  MaxPremiumInputs, PaymentInputs,  \* the slippage limit and the value sent
  MaxDeposits       \* bound: what one provider deposits over a behaviour

ASSUME UnderwritingAssumption ==
  /\ Coverages \subseteq Nat /\ IsFiniteSet(Coverages)
  /\ CapitalInputs \cup LimitInputs \cup DurationInputs \cup MaxPremiumInputs
       \cup PaymentInputs \subseteq Nat
  /\ MaxDeposits \in Nat

VARIABLES
  vault,          \* vault[p]: the ProviderVault record
  pactAllocated,  \* capital allocated to a pact
  pactReserved,   \* the part of it reserved for coverages
  cov,            \* cov[c]: the Coverage record
  salesStats      \* salesStats[p]: the sales part of ProviderStats

underwritingVars == <<vault, pactAllocated, pactReserved, cov, salesStats>>

CoverageStatus == {"NONE", "ACTIVE", "EXPIRED", "RELEASED"}

VaultType ==
  [total : Nat, allocated : Nat, reserved : Nat, pending : Nat, unlock : Nat]

\* share is provider_share, paid settled_payouts, open open_claims.
CoverageType ==
  [status : CoverageStatus, pact : Pacts \cup {0}, buyer : Accounts \cup {NoAccount},
   limit : Nat, remaining : Nat, start : Nat, end : Nat, deadline : Nat,
   share : Nat, reserved : Nat, open : Nat, paid : Nat,
   premiumReleased : BOOLEAN, reserveReleased : BOOLEAN]

UnderwritingTypeOK ==
  /\ vault \in [Providers -> VaultType]
  /\ pactAllocated \in [Pacts -> Nat]
  /\ pactReserved \in [Pacts -> Nat]
  /\ cov \in [Coverages -> CoverageType]
  /\ salesStats \in [Providers -> [coverages : Nat, volume : Nat, deposited : Nat]]

NoCoverage ==
  [status |-> "NONE", pact |-> 0, buyer |-> NoAccount,
   limit |-> 0, remaining |-> 0, start |-> 0, end |-> 0, deadline |-> 0,
   share |-> 0, reserved |-> 0, open |-> 0, paid |-> 0,
   premiumReleased |-> FALSE, reserveReleased |-> FALSE]

UnderwritingInit ==
  /\ vault = [p \in Providers |->
                [total |-> 0, allocated |-> 0, reserved |-> 0, pending |-> 0, unlock |-> 0]]
  /\ pactAllocated = [d \in Pacts |-> 0]
  /\ pactReserved = [d \in Pacts |-> 0]
  /\ cov = [c \in Coverages |-> NoCoverage]
  /\ salesStats = [p \in Providers |-> [coverages |-> 0, volume |-> 0, deposited |-> 0]]

-----------------------------------------------------------------------------
(* Views *)

\* _free_capital
FreeCapital(v) ==
  IF v.allocated + v.pending > v.total THEN 0 ELSE v.total - (v.allocated + v.pending)

\* _assert_vault_invariants
VaultSound(v) ==
  /\ v.reserved <= v.allocated
  /\ v.allocated <= v.total
  /\ v.allocated + v.pending <= v.total

CoverageProvider(c) == PactProvider(cov[c].pact)

UsedCoverages == {c \in Coverages : cov[c].status # "NONE"}

\* _pact_sellable
Sellable(d) ==
  /\ ~config.salesPaused
  /\ pact[d].status = "ACTIVE"
  /\ service[PactService[d]] = "ACTIVE"

\* The requirements of _quote_internal on what a buyer asks for.
QuoteAllowed(terms, limit, duration) ==
  /\ limit \in terms.minAmount .. terms.maxAmount
  /\ duration \in terms.minDuration .. terms.maxDuration

\* What of a pact's allocation no coverage has reserved.
\* (Mutant: all of it.)
WholeAllocation(d) == pactAllocated[d]
Unreserved(d) == pactAllocated[d] - pactReserved[d]

\* _coverage_releasable
\* (Mutant: whatever claims are open.)
ReleasableWhileOpen(c) == now >= cov[c].deadline
Releasable(c) ==
  /\ cov[c].open = 0
  /\ now >= cov[c].deadline
  /\ now >= cov[c].end

-----------------------------------------------------------------------------
(* Capital vault *)

\* deposit_capital (payable)
DepositCapital(caller, p, amount) ==
  /\ Controls(caller, p)
  /\ amount > 0
  /\ salesStats[p].deposited + amount <= MaxDeposits
  /\ vault' = [vault EXCEPT ![p].total = @ + amount]
  /\ VaultSound(vault'[p])
  /\ salesStats' = [salesStats EXCEPT ![p].deposited = @ + amount]
  /\ balance' = balance + amount
  /\ UNCHANGED <<pactAllocated, pactReserved, cov, credits>>

\* allocate_capital: whatever the pact's status.
AllocateCapital(caller, d, amount) ==
  LET p == PactProvider(d) IN
  /\ pact[d].status # "NONE"
  /\ Controls(caller, p)
  /\ amount > 0
  /\ FreeCapital(vault[p]) >= amount
  /\ vault' = [vault EXCEPT ![p].allocated = @ + amount]
  /\ VaultSound(vault'[p])
  /\ pactAllocated' = [pactAllocated EXCEPT ![d] = @ + amount]
  /\ UNCHANGED <<pactReserved, cov, salesStats, balance, credits>>

\* deallocate_capital: never what the pact's coverages have reserved.
DeallocateCapital(caller, d, amount) ==
  LET p == PactProvider(d) IN
  /\ pact[d].status # "NONE"
  /\ Controls(caller, p)
  /\ amount > 0
  /\ Unreserved(d) >= amount
  /\ vault[p].allocated >= amount
  /\ pactAllocated' = [pactAllocated EXCEPT ![d] = @ - amount]
  /\ vault' = [vault EXCEPT ![p].allocated = @ - amount]
  /\ VaultSound(vault'[p])
  /\ UNCHANGED <<pactReserved, cov, salesStats, balance, credits>>

\* request_capital_withdrawal: one at a time, out of the free capital.
RequestCapitalWithdrawal(caller, p, amount) ==
  /\ Controls(caller, p)
  /\ amount > 0
  /\ FreeCapital(vault[p]) >= amount
  /\ vault[p].pending = 0
  /\ WithinHorizon(now + config.cooldown)
  /\ vault' = [vault EXCEPT ![p].pending = amount, ![p].unlock = now + config.cooldown]
  /\ VaultSound(vault'[p])
  /\ UNCHANGED <<pactAllocated, pactReserved, cov, salesStats, balance, credits>>

\* cancel_capital_withdrawal
CancelCapitalWithdrawal(caller, p) ==
  /\ Controls(caller, p)
  /\ vault[p].pending > 0
  /\ vault' = [vault EXCEPT ![p].pending = 0, ![p].unlock = 0]
  /\ UNCHANGED <<pactAllocated, pactReserved, cov, salesStats, balance, credits>>

\* execute_capital_withdrawal: the capital becomes a credit of the caller.
ExecuteCapitalWithdrawal(caller, p) ==
  LET amount == vault[p].pending IN
  /\ Controls(caller, p)
  /\ amount > 0
  /\ now >= vault[p].unlock
  /\ vault[p].total - vault[p].allocated >= amount
  /\ vault' = [vault EXCEPT ![p].total = @ - amount, ![p].pending = 0, ![p].unlock = 0]
  /\ VaultSound(vault'[p])
  /\ credits' = Credit(credits, caller, amount)
  /\ UNCHANGED <<pactAllocated, pactReserved, cov, salesStats, balance>>

-----------------------------------------------------------------------------
(* Coverage engine *)

\* _reserve_for_coverage
ReserveForCoverage(d, amount) ==
  LET p == PactProvider(d) IN
  /\ Unreserved(d) >= amount
  /\ pactReserved' = [pactReserved EXCEPT ![d] = @ + amount]
  /\ vault' = [vault EXCEPT ![p].reserved = @ + amount]
  /\ VaultSound(vault'[p])

\* _release_reserve
ReleaseReserve(d, amount) ==
  LET p == PactProvider(d) IN
  /\ pactReserved[d] >= amount
  /\ vault[p].reserved >= amount
  /\ pactReserved' = [pactReserved EXCEPT ![d] = @ - amount]
  /\ vault' = [vault EXCEPT ![p].reserved = @ - amount]
  /\ VaultSound(vault'[p])

\* buy_coverage (payable), with _quote_internal and _reserve_for_coverage: the
\* fee is credited at once, the overpayment too, the provider's share is held.
BuyCoverage(buyer, c, d, limit, duration, maxPremium, payment) ==
  LET terms == pact[d].terms
      p == PactProvider(d)
      premium == Premium(limit, duration, terms.premiumBps)
      fee == FeeOf(premium, config.feeBps)
  IN
  /\ IsNext(c, Coverages, UsedCoverages)
  /\ QuoteAllowed(terms, limit, duration)
  /\ Sellable(d)
  /\ premium <= maxPremium
  /\ payment >= premium
  /\ WithinHorizon(now + duration + terms.claimWindow)
  /\ ReserveForCoverage(d, limit)
  /\ cov' = [cov EXCEPT ![c] =
               [status |-> "ACTIVE", pact |-> d, buyer |-> buyer,
                limit |-> limit, remaining |-> limit,
                start |-> now, end |-> now + duration,
                deadline |-> now + duration + terms.claimWindow,
                share |-> premium - fee, reserved |-> limit, open |-> 0, paid |-> 0,
                premiumReleased |-> FALSE, reserveReleased |-> FALSE]]
  /\ credits' = Credit(Credit(credits, config.role["treasury"], fee),
                       buyer, payment - premium)
  /\ balance' = balance + payment
  /\ salesStats' = [salesStats EXCEPT ![p].coverages = @ + 1, ![p].volume = @ + limit]
  /\ UNCHANGED pactAllocated

\* expire_coverage: by anyone, once the term is over.
ExpireCoverage(c) ==
  /\ cov[c].status = "ACTIVE"
  /\ now >= cov[c].end
  /\ cov' = [cov EXCEPT ![c].status = "EXPIRED"]
  /\ UNCHANGED <<vault, pactAllocated, pactReserved, salesStats, balance, credits>>

\* What a release frees.
\* (Mutant: the whole limit, whatever was paid out of it.)
LimitLeft(c) == IF cov[c].reserveReleased THEN 0 ELSE cov[c].limit
ReserveLeft(c) == IF cov[c].reserveReleased THEN 0 ELSE cov[c].reserved

\* release_earned_premium: by anyone, once no claim can come.  The premium goes
\* to whoever owns the provider now; what is left of the reserve is freed.  Each
\* half happens once; a second call changes nothing.
ReleaseEarnedPremium(c) ==
  LET share == IF cov[c].premiumReleased THEN 0 ELSE cov[c].share IN
  /\ cov[c].status # "NONE"
  /\ Releasable(c)
  /\ ReleaseReserve(cov[c].pact, ReserveLeft(c))
  /\ credits' = Credit(credits, owner[CoverageProvider(c)], share)
  /\ cov' = [cov EXCEPT ![c].status = "RELEASED", ![c].premiumReleased = TRUE,
                        ![c].reserveReleased = TRUE, ![c].reserved = 0]
  /\ UNCHANGED <<pactAllocated, salesStats, balance>>

\* _debit_provider_capital: a payout leaves the vault, its allocation, its
\* reserve and the pact's share of both.
\* (Mutant: the vault's counters alone.)
DebitVaultAlone(d, amount) ==
  /\ vault' = [vault EXCEPT ![PactProvider(d)].total = @ - amount,
                            ![PactProvider(d)].allocated = @ - amount,
                            ![PactProvider(d)].reserved = @ - amount]
  /\ UNCHANGED <<pactAllocated, pactReserved>>
DebitProviderCapital(d, amount) ==
  LET p == PactProvider(d) IN
  /\ vault[p].total >= amount /\ vault[p].allocated >= amount /\ vault[p].reserved >= amount
  /\ pactAllocated[d] >= amount /\ pactReserved[d] >= amount
  /\ vault' = [vault EXCEPT ![p].total = @ - amount, ![p].allocated = @ - amount,
                            ![p].reserved = @ - amount]
  /\ pactAllocated' = [pactAllocated EXCEPT ![d] = @ - amount]
  /\ pactReserved' = [pactReserved EXCEPT ![d] = @ - amount]
  /\ VaultSound(vault'[p])

CapitalStep ==
  \E caller \in Accounts :
    \/ \E p \in Providers :
         \/ \E amount \in CapitalInputs :
              DepositCapital(caller, p, amount) \/ RequestCapitalWithdrawal(caller, p, amount)
         \/ CancelCapitalWithdrawal(caller, p)
         \/ ExecuteCapitalWithdrawal(caller, p)
    \/ \E d \in Pacts, amount \in CapitalInputs :
         AllocateCapital(caller, d, amount) \/ DeallocateCapital(caller, d, amount)

CoverageStep ==
  \E c \in Coverages :
    \/ \E buyer \in Accounts, d \in Pacts, limit \in LimitInputs, duration \in DurationInputs,
          maxPremium \in MaxPremiumInputs, payment \in PaymentInputs :
         BuyCoverage(buyer, c, d, limit, duration, maxPremium, payment)
    \/ ExpireCoverage(c)
    \/ ReleaseEarnedPremium(c)

UnderwritingStep == (CapitalStep \/ CoverageStep) /\ UNCHANGED now

-----------------------------------------------------------------------------
(* The component on its own: no claim is filed, so no payout is made. *)

salesVars == <<ledgerVars, governanceVars, registryVars, underwritingVars>>

SalesInit == LedgerInit /\ GovernanceInit /\ RegistryInit /\ UnderwritingInit

SalesNext ==
  \/ Tick /\ UNCHANGED <<governanceVars, registryVars, underwritingVars>>
  \/ /\ \E a \in Accounts : \E amount \in 1 .. credits[a] : WithdrawCredit(a, amount)
     /\ UNCHANGED <<governanceVars, registryVars, underwritingVars>>
  \/ GovernanceStep /\ UNCHANGED <<ledgerVars, registryVars, underwritingVars>>
  \/ RegistryStep /\ UNCHANGED <<ledgerVars, governanceVars, underwritingVars>>
  \/ UnderwritingStep /\ UNCHANGED <<governanceVars, registryVars>>

SalesSpec == SalesInit /\ [][SalesNext]_salesVars

-----------------------------------------------------------------------------
(* Properties *)

SalesTypeOK == LedgerTypeOK /\ GovernanceTypeOK /\ RegistryTypeOK /\ UnderwritingTypeOK

\* The amounts whose totals the contract keeps as aggregates.
ReservedFor(d) == [c \in Coverages |-> IF cov[c].pact = d THEN cov[c].reserved ELSE 0]
PactsReserved(p) == [d \in Pacts |-> IF PactProvider(d) = p THEN pactReserved[d] ELSE 0]
PactsAllocated(p) == [d \in Pacts |-> IF PactProvider(d) = p THEN pactAllocated[d] ELSE 0]
VaultTotals == [p \in Providers |-> vault[p].total]
HeldPremiums == [c \in Coverages |-> IF cov[c].premiumReleased THEN 0 ELSE cov[c].share]

ReservesMatch == \A d \in Pacts : pactReserved[d] = Total(ReservedFor(d))
VaultsMatch ==
  \A p \in Providers :
    /\ vault[p].reserved = Total(PactsReserved(p))
    /\ vault[p].allocated = Total(PactsAllocated(p))

\* The three books of the capital agree: a pact's reserve counter is the sum of
\* what its coverages have reserved and a vault sums up its pacts, through
\* purchases, allocations, payouts and releases in any order
\* (_reserve_for_coverage, _debit_provider_capital, _release_reserve).
BooksAgree == ReservesMatch /\ VaultsMatch

\* Full backing: a pact never has more reserved than allocated, and capital
\* that is allocated or promised to a withdrawal exists.
FullyBacked ==
  /\ \A d \in Pacts : pactReserved[d] <= pactAllocated[d]
  /\ \A p \in Providers : VaultSound(vault[p])

\* Every token the contract holds is owed to exactly one party: a provider's
\* vault, an account's credit, or the premium held for a coverage.
SalesConservation ==
  balance = Total(VaultTotals) + Total(credits) + Total(HeldPremiums)
=============================================================================
