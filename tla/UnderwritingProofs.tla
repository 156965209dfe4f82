------------------------- MODULE UnderwritingProofs -------------------------
(***************************************************************************)
(* The accounting of Underwriting for any number of accounts, providers,   *)
(* pacts and coverages: types, conservation of the native tokens, backing, *)
(* and books that agree.  Types alone are not inductive: a withdrawal of   *)
(* credit leaves a balance that is not negative only because the balance   *)
(* covers all credits.                                                     *)
(***************************************************************************)
EXTENDS Underwriting, IncidentProofs, FiniteSetTheorems

-----------------------------------------------------------------------------
(* What Total computes: a natural number, which bounds each of its summands, *)
(* is 0 of the zero function, and changes by as much as one summand does.    *)

\* The units of one holder are finitely many, as many as the amount.
LEMMA UnitsAtCard ==
  ASSUME NEW f, NEW x, f[x] \in Nat
  PROVE  IsFiniteSet(UnitsAt(f, x)) /\ Cardinality(UnitsAt(f, x)) = f[x]
<1>1. IsFiniteSet(1 .. f[x]) /\ Cardinality(1 .. f[x]) = f[x]
  <2>1. 1 \in Int /\ f[x] \in Int
    OBVIOUS
  <2>2. QED
    BY <2>1, FS_Interval
<1>2. IsFiniteSet({x}) /\ Cardinality({x}) = 1
  BY FS_Singleton
<1>3. /\ IsFiniteSet({x} \X (1 .. f[x]))
      /\ Cardinality({x} \X (1 .. f[x])) = Cardinality({x}) * Cardinality(1 .. f[x])
  BY <1>1, <1>2, FS_Product
<1>4. QED
  BY <1>1, <1>2, <1>3 DEF UnitsAt

\* Finitely many holders have finitely many units.
LEMMA UnitsFinite ==
  ASSUME NEW S, IsFiniteSet(S), NEW f \in [S -> Nat]
  PROVE  IsFiniteSet(Units(f))
<1> DEFINE U == {UnitsAt(f, x) : x \in S}
           g == [x \in S |-> UnitsAt(f, x)]
<1>1. g \in Surjection(S, U)
  BY DEF Surjection
<1>2. IsFiniteSet(U)
  BY <1>1, FS_Surjection
<1>3. \A T \in U : IsFiniteSet(T)
  BY UnitsAtCard
<1>4. IsFiniteSet(UNION U)
  <2> HIDE DEF U
  <2>1. QED
    BY <1>2, <1>3, FS_UNION
<1>5. QED
  BY <1>4 DEF Units

\* A total is a natural number.
THEOREM TotalType ==
  ASSUME NEW S, IsFiniteSet(S), NEW f \in [S -> Nat]
  PROVE  Total(f) \in Nat
BY UnitsFinite, FS_CardinalityType DEF Total

\* No summand exceeds the total.
THEOREM TotalBound ==
  ASSUME NEW S, IsFiniteSet(S), NEW f \in [S -> Nat], NEW x \in S
  PROVE  f[x] <= Total(f)
<1>1. UnitsAt(f, x) \in SUBSET Units(f)
  BY DEF Units
<1>2. QED
  BY <1>1, UnitsFinite, UnitsAtCard, FS_Subset DEF Total

\* The zero function totals 0.
THEOREM TotalZero ==
  ASSUME NEW S, NEW f, f = [x \in S |-> 0]
  PROVE  Total(f) = 0
<1>1. Units(f) = {}
  BY DEF Units, UnitsAt
<1>2. QED
  BY <1>1, FS_EmptySet DEF Total

\* The units of f apart from those of x.
Others(f, x) == UNION {UnitsAt(f, y) : y \in DOMAIN f \ {x}}

\* A total splits into one summand and the others.
LEMMA TotalSplit ==
  ASSUME NEW S, IsFiniteSet(S), NEW f \in [S -> Nat], NEW x \in S
  PROVE  /\ IsFiniteSet(Others(f, x))
         /\ Total(f) = Cardinality(Others(f, x)) + f[x]
<1>1. Units(f) = Others(f, x) \cup UnitsAt(f, x)
  BY DEF Units, Others
<1>2. Others(f, x) \cap UnitsAt(f, x) = {}
  BY DEF Others, UnitsAt
<1>3. IsFiniteSet(Units(f))
  BY UnitsFinite
<1>4. Others(f, x) \in SUBSET Units(f)
  BY <1>1
<1>5. IsFiniteSet(Others(f, x)) /\ Cardinality(Others(f, x)) \in Nat
  BY <1>3, <1>4, FS_Subset, FS_CardinalityType
<1>6. IsFiniteSet(UnitsAt(f, x)) /\ Cardinality(UnitsAt(f, x)) = f[x] /\ f[x] \in Nat
  BY UnitsAtCard
<1>7. Cardinality(Units(f)) = Cardinality(Others(f, x)) + Cardinality(UnitsAt(f, x))
                              - Cardinality(Others(f, x) \cap UnitsAt(f, x))
  BY <1>1, <1>5, <1>6, FS_Union
<1>8. Cardinality(Others(f, x) \cap UnitsAt(f, x)) = 0
  BY <1>2, FS_EmptySet
<1>9. QED
  BY <1>5, <1>6, <1>7, <1>8 DEF Total

\* Two amount functions that differ at most in x have totals that differ by
\* what x's amount changed.
THEOREM TotalChange ==
  ASSUME NEW S, IsFiniteSet(S), NEW f \in [S -> Nat], NEW g \in [S -> Nat],
         NEW x \in S, \A y \in S \ {x} : f[y] = g[y]
  PROVE  Total(g) = Total(f) - f[x] + g[x]
<1>1. Others(f, x) = Others(g, x)
  <2>1. DOMAIN f = S /\ DOMAIN g = S
    OBVIOUS
  <2>2. \A y \in S \ {x} : UnitsAt(f, y) = UnitsAt(g, y)
    BY DEF UnitsAt
  <2>3. {UnitsAt(f, y) : y \in S \ {x}} = {UnitsAt(g, y) : y \in S \ {x}}
    BY <2>2
  <2>4. QED
    BY <2>1, <2>3 DEF Others
<1>2. Cardinality(Others(f, x)) \in Nat
  BY TotalSplit, FS_CardinalityType
<1>3. Total(f) = Cardinality(Others(f, x)) + f[x]
  BY TotalSplit
<1>4. Total(g) = Cardinality(Others(g, x)) + g[x]
  BY TotalSplit
<1>5. QED
  BY <1>1, <1>2, <1>3, <1>4

-----------------------------------------------------------------------------
(* Helpers *)

LEMMA PactProviderType ==
  ASSUME NEW d \in Pacts
  PROVE  PactProvider(d) \in Providers
BY RegistryAssumption DEF PactProvider

\* A quotient of naturals, rounded up, is a natural.
LEMMA MulDivUpType ==
  ASSUME NEW a \in Nat, NEW b \in Nat, NEW d \in Nat \ {0}
  PROVE  MulDivUp(a, b, d) \in Nat
<1>1. a * b \in Nat
  OBVIOUS
<1> QED
  BY <1>1 DEF MulDivUp

LEMMA PremiumType ==
  ASSUME NEW limit \in Nat, NEW duration \in Nat, NEW bps \in Nat
  PROVE  Premium(limit, duration, bps) \in Nat
<1>1. limit * bps \in Nat /\ BpsDenom * YearSeconds \in Nat \ {0}
  BY RatesAssumption
<1>2. MulDivUp(limit * bps, duration, BpsDenom * YearSeconds) \in Nat
  BY <1>1, MulDivUpType
<1> QED
  BY <1>2, RatesAssumption DEF Premium

\* The protocol never takes more than the premium.
LEMMA FeeType ==
  ASSUME NEW gross \in Nat, NEW bps \in Nat
  PROVE  FeeOf(gross, bps) \in 0 .. gross
BY MulDivUpType, RatesAssumption DEF FeeOf

LEMMA TermsAreNat ==
  ASSUME RegistryTypeOK, NEW d \in Pacts
  PROVE  pact[d].terms.premiumBps \in Nat /\ pact[d].terms.claimWindow \in Nat
BY RegistryAssumption DEF RegistryTypeOK, PactType, TermsType

-----------------------------------------------------------------------------
(* Types *)

\* What a step of this component may change keeps its type.
MoneyTypeOK == balance \in Nat /\ credits \in [Accounts -> Nat] /\ UnderwritingTypeOK

\* A coverage that was sold has a pact, and its provider an owner.
Attached ==
  \A c \in Coverages :
    cov[c].status # "NONE" => cov[c].pact \in Pacts /\ owner[CoverageProvider(c)] \in Accounts

\* An id that was not sold yet holds no premium.
Unsold == \A c \in Coverages : cov[c].status = "NONE" => cov[c] = NoCoverage

\* The state a step of this component starts from.
Typed ==
  /\ LedgerTypeOK /\ GovernanceTypeOK /\ RegistryTypeOK /\ UnderwritingTypeOK
  /\ Registered /\ Attached /\ Unsold

LEMMA CreditType ==
  ASSUME NEW cr \in [Accounts -> Nat], NEW who \in Accounts, NEW amount \in Nat
  PROVE  Credit(cr, who, amount) \in [Accounts -> Nat]
BY DEF Credit

LEMMA ReleasedType ==
  ASSUME NEW r \in CoverageType
  PROVE  [r EXCEPT !.status = "RELEASED", !.premiumReleased = TRUE,
                   !.reserveReleased = TRUE, !.reserved = 0] \in CoverageType
BY DEF CoverageType, CoverageStatus

LEMMA ExpiredType ==
  ASSUME NEW r \in CoverageType
  PROVE  [r EXCEPT !.status = "EXPIRED"] \in CoverageType
BY DEF CoverageType, CoverageStatus

LEMMA CapitalTypes ==
  ASSUME Typed, CapitalStep
  PROVE  MoneyTypeOK'
<1> USE UnderwritingAssumption
    DEF Typed, MoneyTypeOK, LedgerTypeOK, UnderwritingTypeOK, VaultType
<1> PICK caller \in Accounts : CapitalStep!(caller)
  BY DEF CapitalStep
<1>1. CASE \E p \in Providers, amount \in CapitalInputs : DepositCapital(caller, p, amount)
  BY <1>1 DEF DepositCapital
<1>2. CASE \E p \in Providers, amount \in CapitalInputs :
             RequestCapitalWithdrawal(caller, p, amount)
  <2>1. now + config.cooldown \in Nat
    BY DEF GovernanceTypeOK, ConfigType
  <2> QED
    BY <1>2, <2>1 DEF RequestCapitalWithdrawal
<1>3. CASE \E p \in Providers : CancelCapitalWithdrawal(caller, p)
  BY <1>3 DEF CancelCapitalWithdrawal
<1>4. CASE \E p \in Providers : ExecuteCapitalWithdrawal(caller, p)
  <2> PICK p \in Providers : ExecuteCapitalWithdrawal(caller, p)
    BY <1>4
  <2> DEFINE v == vault[p]
  <2>1. v \in VaultType /\ v.total - v.allocated >= v.pending
    BY DEF ExecuteCapitalWithdrawal
  <2>2. v.total - v.pending \in Nat /\ v.pending \in Nat
    BY <2>1
  <2>3. credits' \in [Accounts -> Nat]
    BY <2>2, CreditType DEF ExecuteCapitalWithdrawal
  <2>4. vault' = [vault EXCEPT ![p] =
                    [v EXCEPT !.total = @ - v.pending, !.pending = 0, !.unlock = 0]]
    BY DEF ExecuteCapitalWithdrawal
  <2>5. vault' \in [Providers -> VaultType]
    BY <2>1, <2>2, <2>4
  <2> QED
    BY <2>3, <2>5 DEF ExecuteCapitalWithdrawal
<1>5. CASE \E d \in Pacts, amount \in CapitalInputs : AllocateCapital(caller, d, amount)
  <2> PICK d \in Pacts, amount \in CapitalInputs : AllocateCapital(caller, d, amount)
    BY <1>5
  <2>1. vault' = [vault EXCEPT ![PactProvider(d)].allocated = @ + amount]
        /\ pactAllocated' = [pactAllocated EXCEPT ![d] = @ + amount]
    BY DEF AllocateCapital
  <2>2. PactProvider(d) \in Providers /\ amount \in Nat
    BY PactProviderType
  <2> QED
    BY <2>1, <2>2 DEF AllocateCapital
<1>6. CASE \E d \in Pacts, amount \in CapitalInputs : DeallocateCapital(caller, d, amount)
  <2> PICK d \in Pacts, amount \in CapitalInputs : DeallocateCapital(caller, d, amount)
    BY <1>6
  <2> DEFINE p == PactProvider(d)
  <2>1. vault' = [vault EXCEPT ![p].allocated = @ - amount]
        /\ pactAllocated' = [pactAllocated EXCEPT ![d] = @ - amount]
    BY DEF DeallocateCapital
  <2>2. p \in Providers /\ amount \in Nat
    BY PactProviderType
  <2>3. vault[p].allocated - amount \in Nat /\ pactAllocated[d] - amount \in Nat
    BY <2>2 DEF DeallocateCapital, Unreserved
  <2> QED
    BY <2>1, <2>2, <2>3 DEF DeallocateCapital
<1> QED
  BY <1>1, <1>2, <1>3, <1>4, <1>5, <1>6

LEMMA CoverageTypes ==
  ASSUME Typed, CoverageStep
  PROVE  MoneyTypeOK'
<1> USE UnderwritingAssumption
    DEF Typed, MoneyTypeOK, LedgerTypeOK, UnderwritingTypeOK
<1> PICK c \in Coverages : CoverageStep!(c)
  BY DEF CoverageStep
<1>1. CASE \E buyer \in Accounts, d \in Pacts, limit \in LimitInputs,
              duration \in DurationInputs, maxPremium \in MaxPremiumInputs,
              payment \in PaymentInputs :
             BuyCoverage(buyer, c, d, limit, duration, maxPremium, payment)
  <2> PICK buyer \in Accounts, d \in Pacts, limit \in LimitInputs,
           duration \in DurationInputs, maxPremium \in MaxPremiumInputs,
           payment \in PaymentInputs :
             BuyCoverage(buyer, c, d, limit, duration, maxPremium, payment)
    BY <1>1
  <2> DEFINE terms == pact[d].terms
             premium == Premium(limit, duration, terms.premiumBps)
             fee == FeeOf(premium, config.feeBps)
  <2>1. terms.premiumBps \in Nat /\ terms.claimWindow \in Nat
    BY TermsAreNat
  <2>2. premium \in Nat
    BY <2>1, PremiumType
  <2>3. /\ fee \in Nat /\ premium - fee \in Nat
        /\ config.role["treasury"] \in Accounts
    <3>1. config.feeBps \in Nat /\ config.role["treasury"] \in Accounts
      BY DEF GovernanceTypeOK, ConfigType, Roles
    <3> HIDE DEF premium
    <3>2. fee \in 0 .. premium
      BY <2>2, <3>1, FeeType
    <3> HIDE DEF fee
    <3> QED
      BY <2>2, <3>1, <3>2
  <2>4. PactProvider(d) \in Providers
    BY PactProviderType
  <2> HIDE DEF premium, fee, terms
  <2>5. credits' = Credit(Credit(credits, config.role["treasury"], fee), buyer, payment - premium)
    BY DEF BuyCoverage, premium, fee, terms
  <2>6. payment - premium \in Nat
    BY <2>2 DEF BuyCoverage, premium, fee, terms
  <2>7. credits' \in [Accounts -> Nat]
    <3>1. Credit(credits, config.role["treasury"], fee) \in [Accounts -> Nat]
      BY <2>3, CreditType
    <3> QED
      BY <3>1, <2>5, <2>6, CreditType
  <2>8. cov' = [cov EXCEPT ![c] =
               [status |-> "ACTIVE", pact |-> d, buyer |-> buyer,
                limit |-> limit, remaining |-> limit,
                start |-> now, end |-> now + duration,
                deadline |-> now + duration + terms.claimWindow,
                share |-> premium - fee, reserved |-> limit, open |-> 0, paid |-> 0,
                premiumReleased |-> FALSE, reserveReleased |-> FALSE]]
    BY DEF BuyCoverage, premium, fee, terms
  <2>9. cov' \in [Coverages -> CoverageType]
    BY <2>1, <2>2, <2>3, <2>8 DEF CoverageType, CoverageStatus
  <2>10. /\ vault' = [vault EXCEPT ![PactProvider(d)].reserved = @ + limit]
         /\ pactReserved' = [pactReserved EXCEPT ![d] = @ + limit]
         /\ balance' = balance + payment /\ UNCHANGED pactAllocated
         /\ salesStats' = [salesStats EXCEPT ![PactProvider(d)].coverages = @ + 1,
                                             ![PactProvider(d)].volume = @ + limit]
    BY DEF BuyCoverage, ReserveForCoverage
  <2>11. vault' \in [Providers -> VaultType] /\ pactReserved' \in [Pacts -> Nat]
    BY <2>4, <2>10 DEF VaultType
  <2>12. balance' \in Nat /\ pactAllocated' \in [Pacts -> Nat]
    BY <2>10
  <2>13. salesStats' \in [Providers -> [coverages : Nat, volume : Nat, deposited : Nat]]
    <3> DEFINE stats == salesStats[PactProvider(d)]
               sold == [stats EXCEPT !.coverages = @ + 1, !.volume = @ + limit]
    <3>1. stats \in [coverages : Nat, volume : Nat, deposited : Nat] /\ limit \in Nat
      BY <2>4
    <3>2. sold \in [coverages : Nat, volume : Nat, deposited : Nat]
      <4> HIDE DEF stats
      <4>1. stats.coverages + 1 \in Nat /\ stats.volume + limit \in Nat
        BY <3>1
      <4> QED
        BY <3>1, <4>1
    <3>3. salesStats' = [salesStats EXCEPT ![PactProvider(d)] = sold]
      BY <2>10
    <3> HIDE DEF sold
    <3> QED
      BY <3>2, <3>3
  <2>14. UnderwritingTypeOK'
    BY <2>9, <2>11, <2>12, <2>13
  <2> QED
    BY <2>7, <2>12, <2>14
<1>2. CASE ExpireCoverage(c)
  <2> DEFINE expired == [cov[c] EXCEPT !.status = "EXPIRED"]
  <2>1. expired \in CoverageType
    BY ExpiredType
  <2>2. cov' = [cov EXCEPT ![c] = expired]
        /\ UNCHANGED <<vault, pactAllocated, pactReserved, salesStats, balance, credits>>
    BY <1>2 DEF ExpireCoverage
  <2> HIDE DEF expired
  <2> QED
    BY <2>1, <2>2
<1>3. CASE ReleaseEarnedPremium(c)
  <2> DEFINE d == cov[c].pact
             p == PactProvider(d)
             share == IF cov[c].premiumReleased THEN 0 ELSE cov[c].share
             freed == IF cov[c].reserveReleased THEN 0 ELSE cov[c].reserved
  <2>1. d \in Pacts /\ p \in Providers /\ owner[p] \in Accounts
    BY <1>3, PactProviderType DEF ReleaseEarnedPremium, Attached, CoverageProvider
  <2>2. share \in Nat /\ freed \in Nat
    BY DEF CoverageType
  <2> HIDE DEF d, share, freed
  <2>3. /\ pactReserved[d] - freed \in Nat /\ vault[p].reserved - freed \in Nat
        /\ pactReserved' = [pactReserved EXCEPT ![d] = @ - freed]
        /\ vault' = [vault EXCEPT ![p].reserved = @ - freed]
    BY <1>3, <2>1, <2>2
    DEF ReleaseEarnedPremium, ReleaseReserve, ReserveLeft, d, freed, VaultType
  <2>4. credits' = Credit(credits, owner[p], share)
    BY <1>3 DEF ReleaseEarnedPremium, CoverageProvider, d, share
  <2>5. credits' \in [Accounts -> Nat]
    BY <2>1, <2>2, <2>4, CreditType
  <2>6. cov' \in [Coverages -> CoverageType]
    <3> DEFINE released == [cov[c] EXCEPT !.status = "RELEASED", !.premiumReleased = TRUE,
                                          !.reserveReleased = TRUE, !.reserved = 0]
    <3>1. released \in CoverageType
      BY ReleasedType
    <3>2. cov' = [cov EXCEPT ![c] = released]
      BY <1>3 DEF ReleaseEarnedPremium
    <3> QED
      BY <3>1, <3>2
  <2>7. vault' \in [Providers -> VaultType] /\ pactReserved' \in [Pacts -> Nat]
    BY <2>1, <2>3 DEF VaultType
  <2> QED
    BY <1>3, <2>5, <2>6, <2>7 DEF ReleaseEarnedPremium
<1> QED
  BY <1>1, <1>2, <1>3

\* Capital moves leave the coverages alone.
LEMMA CapitalKeepsCoverages ==
  ASSUME CapitalStep
  PROVE  UNCHANGED cov
<1> PICK caller \in Accounts : CapitalStep!(caller)
  BY DEF CapitalStep
<1>1. CASE \E p \in Providers, amount \in CapitalInputs :
             DepositCapital(caller, p, amount) \/ RequestCapitalWithdrawal(caller, p, amount)
  BY <1>1, Zenon DEF DepositCapital, RequestCapitalWithdrawal
<1>2. CASE \E p \in Providers :
             CancelCapitalWithdrawal(caller, p) \/ ExecuteCapitalWithdrawal(caller, p)
  BY <1>2, Zenon DEF CancelCapitalWithdrawal, ExecuteCapitalWithdrawal
<1>3. CASE \E d \in Pacts, amount \in CapitalInputs :
             AllocateCapital(caller, d, amount) \/ DeallocateCapital(caller, d, amount)
  BY <1>3, Zenon DEF AllocateCapital, DeallocateCapital
<1> QED
  BY <1>1, <1>2, <1>3

\* A sale attaches the coverage to a pact that is on sale; nothing detaches it.
LEMMA UnderwritingKeepsAttached ==
  ASSUME Typed, UnderwritingStep, UNCHANGED registryVars
  PROVE  Attached' /\ Unsold'
<1> USE DEF Typed, Attached, Unsold, UnderwritingTypeOK, CoverageProvider
<1>1. CASE CapitalStep
  <2>1. UNCHANGED cov
    BY <1>1, CapitalKeepsCoverages
  <2> QED
    BY <2>1 DEF registryVars
<1>2. CASE CoverageStep
  <2> PICK c \in Coverages : CoverageStep!(c)
    BY ONLY <1>2 DEF CoverageStep
  <2>1. CASE \E buyer \in Accounts, d \in Pacts, limit \in LimitInputs,
                duration \in DurationInputs, maxPremium \in MaxPremiumInputs,
                payment \in PaymentInputs :
               BuyCoverage(buyer, c, d, limit, duration, maxPremium, payment)
    <3> PICK buyer \in Accounts, d \in Pacts, limit \in LimitInputs,
             duration \in DurationInputs, maxPremium \in MaxPremiumInputs,
             payment \in PaymentInputs :
               BuyCoverage(buyer, c, d, limit, duration, maxPremium, payment)
      BY <2>1
    <3>1. service[PactService[d]] = "ACTIVE"
      BY DEF BuyCoverage, Sellable
    <3>2. owner[PactProvider(d)] \in Accounts
      BY <3>1, RegistryAssumption DEF Registered, PactProvider
    <3>3. /\ cov'[c].pact = d /\ cov'[c].status = "ACTIVE"
          /\ \A b \in Coverages \ {c} : cov'[b] = cov[b]
      BY DEF BuyCoverage
    <3> QED
      BY <3>2, <3>3 DEF registryVars
  <2>2. CASE ExpireCoverage(c) \/ ReleaseEarnedPremium(c)
    <3>1. /\ cov[c].status # "NONE" /\ cov'[c].pact = cov[c].pact
          /\ \A b \in Coverages \ {c} : cov'[b] = cov[b]
      BY <2>2 DEF ExpireCoverage, ReleaseEarnedPremium, CoverageType
    <3>2. cov'[c].status # "NONE"
      BY <2>2 DEF ExpireCoverage, ReleaseEarnedPremium, CoverageType
    <3> QED
      BY <3>1, <3>2 DEF registryVars
  <2> QED
    BY <2>1, <2>2
<1> QED
  BY <1>1, <1>2 DEF UnderwritingStep

-----------------------------------------------------------------------------
(* Conservation *)

Owed == Total(VaultTotals) + Total(credits) + Total(HeldPremiums)

LEMMA OwedType ==
  ASSUME balance \in Nat, credits \in [Accounts -> Nat], UnderwritingTypeOK
  PROVE  /\ VaultTotals \in [Providers -> Nat] /\ HeldPremiums \in [Coverages -> Nat]
         /\ Total(VaultTotals) \in Nat /\ Total(credits) \in Nat
         /\ Total(HeldPremiums) \in Nat
<1>1. VaultTotals \in [Providers -> Nat] /\ HeldPremiums \in [Coverages -> Nat]
  BY DEF VaultTotals, HeldPremiums, UnderwritingTypeOK, VaultType, CoverageType
<1> QED
  BY <1>1, TotalType, RegistryAssumption, UnderwritingAssumption, LedgerAssumption

\* A credit adds its amount to the total of what is owed to accounts.
LEMMA CreditTotal ==
  ASSUME NEW cr \in [Accounts -> Nat], NEW who \in Accounts, NEW amount \in Nat
  PROVE  Total(Credit(cr, who, amount)) = Total(cr) + amount
<1> DEFINE cr2 == Credit(cr, who, amount)
<1>1. cr2 \in [Accounts -> Nat] /\ cr2[who] = cr[who] + amount
      /\ \A a \in Accounts \ {who} : cr[a] = cr2[a]
  BY DEF Credit
<1>2. Total(cr) \in Nat
  BY TotalType, LedgerAssumption
<1> HIDE DEF cr2
<1>3. Total(cr2) = Total(cr) - cr[who] + cr2[who]
  BY <1>1, TotalChange, LedgerAssumption
<1> QED
  BY <1>1, <1>2, <1>3 DEF cr2

\* Paying a credit out subtracts it; there was that much in all.
LEMMA DebitTotal ==
  ASSUME NEW cr \in [Accounts -> Nat], NEW who \in Accounts, NEW amount \in Nat,
         amount <= cr[who]
  PROVE  /\ [cr EXCEPT ![who] = @ - amount] \in [Accounts -> Nat]
         /\ Total([cr EXCEPT ![who] = @ - amount]) = Total(cr) - amount
         /\ amount <= Total(cr)
<1> DEFINE cr2 == [cr EXCEPT ![who] = @ - amount]
<1>1. cr2 \in [Accounts -> Nat] /\ cr2[who] = cr[who] - amount
      /\ \A a \in Accounts \ {who} : cr[a] = cr2[a]
  OBVIOUS
<1>2. Total(cr) \in Nat /\ cr[who] <= Total(cr)
  BY TotalType, TotalBound, LedgerAssumption
<1> HIDE DEF cr2
<1>3. Total(cr2) = Total(cr) - cr[who] + cr2[who]
  BY <1>1, TotalChange, LedgerAssumption
<1> QED
  BY <1>1, <1>2, <1>3 DEF cr2

\* When one vault changes, the total of the vaults changes by as much.
LEMMA VaultChange ==
  ASSUME UnderwritingTypeOK, UnderwritingTypeOK', NEW p \in Providers,
         \A q \in Providers \ {p} : vault'[q].total = vault[q].total
  PROVE  Total(VaultTotals)' = Total(VaultTotals) - vault[p].total + vault'[p].total
<1>1. VaultTotals \in [Providers -> Nat] /\ VaultTotals' \in [Providers -> Nat]
  BY DEF VaultTotals, UnderwritingTypeOK, VaultType
<1>2. /\ VaultTotals[p] = vault[p].total /\ VaultTotals'[p] = vault'[p].total
      /\ \A q \in Providers \ {p} : VaultTotals[q] = VaultTotals'[q]
  BY DEF VaultTotals
<1>3. Total(VaultTotals') = Total(VaultTotals) - VaultTotals[p] + VaultTotals'[p]
  BY <1>1, <1>2, TotalChange, RegistryAssumption
<1> QED
  BY <1>2, <1>3 DEF Total, Units, UnitsAt

\* When one coverage changes, so does the total of the premiums held.
HeldFor(cv) == IF cv.premiumReleased THEN 0 ELSE cv.share

LEMMA HeldChange ==
  ASSUME UnderwritingTypeOK, UnderwritingTypeOK', NEW c \in Coverages,
         \A b \in Coverages \ {c} : HeldFor(cov'[b]) = HeldFor(cov[b])
  PROVE  Total(HeldPremiums)' = Total(HeldPremiums) - HeldFor(cov[c]) + HeldFor(cov'[c])
<1>1. HeldPremiums \in [Coverages -> Nat] /\ HeldPremiums' \in [Coverages -> Nat]
  BY DEF HeldPremiums, UnderwritingTypeOK, CoverageType
<1>2. /\ HeldPremiums[c] = HeldFor(cov[c]) /\ HeldPremiums'[c] = HeldFor(cov'[c])
      /\ \A b \in Coverages \ {c} : HeldPremiums[b] = HeldPremiums'[b]
  BY DEF HeldPremiums, HeldFor
<1>3. Total(HeldPremiums') = Total(HeldPremiums) - HeldPremiums[c] + HeldPremiums'[c]
  BY <1>1, <1>2, TotalChange, UnderwritingAssumption
<1> QED
  BY <1>2, <1>3

\* Capital moves between the vaults, the credits and the balance only.
LEMMA CapitalBalance ==
  ASSUME Typed, CapitalStep
  PROVE  balance' - Owed' = balance - Owed
<1>1. MoneyTypeOK'
  BY CapitalTypes
<1> USE DEF Typed, LedgerTypeOK, MoneyTypeOK
<1>2. /\ Total(VaultTotals) \in Nat /\ Total(credits) \in Nat /\ Total(HeldPremiums) \in Nat
  BY OwedType
<1>3. Total(HeldPremiums)' = Total(HeldPremiums)
  BY CapitalKeepsCoverages DEF HeldPremiums
<1> PICK caller \in Accounts : CapitalStep!(caller)
  BY DEF CapitalStep
<1>4. CASE \E p \in Providers, amount \in CapitalInputs : DepositCapital(caller, p, amount)
  <2> PICK p \in Providers, amount \in CapitalInputs : DepositCapital(caller, p, amount)
    BY <1>4
  <2>1. /\ vault'[p].total = vault[p].total + amount
        /\ \A q \in Providers \ {p} : vault'[q].total = vault[q].total
        /\ balance' = balance + amount /\ credits' = credits
    BY DEF DepositCapital, UnderwritingTypeOK, VaultType
  <2>2. vault[p].total \in Nat /\ amount \in Nat
    BY UnderwritingAssumption DEF UnderwritingTypeOK, VaultType
  <2>3. Total(VaultTotals)' = Total(VaultTotals) + amount
    BY <1>1, <1>2, <2>1, <2>2, VaultChange
  <2> QED
    BY <1>2, <1>3, <2>1, <2>2, <2>3 DEF Owed
<1>5. CASE \E p \in Providers : ExecuteCapitalWithdrawal(caller, p)
  <2> PICK p \in Providers : ExecuteCapitalWithdrawal(caller, p)
    BY <1>5
  <2> DEFINE amount == vault[p].pending
  <2>1. /\ vault'[p].total = vault[p].total - amount
        /\ \A q \in Providers \ {p} : vault'[q].total = vault[q].total
        /\ balance' = balance /\ credits' = Credit(credits, caller, amount)
    BY DEF ExecuteCapitalWithdrawal, UnderwritingTypeOK, VaultType
  <2>2. vault[p].total \in Nat /\ amount \in Nat
    BY DEF UnderwritingTypeOK, VaultType
  <2>3. Total(VaultTotals)' = Total(VaultTotals) - amount
    BY <1>1, <1>2, <2>1, <2>2, VaultChange
  <2>4. Total(credits)' = Total(credits) + amount
    BY <2>1, <2>2, CreditTotal
  <2> QED
    BY <1>2, <1>3, <2>1, <2>2, <2>3, <2>4 DEF Owed
<1>6. CASE /\ \A p \in Providers : vault'[p].total = vault[p].total
           /\ UNCHANGED <<balance, credits>>
  <2>1. Total(VaultTotals)' = Total(VaultTotals)
    BY <1>6 DEF VaultTotals
  <2> QED
    BY <1>3, <1>6, <2>1 DEF Owed
<1> USE DEF UnderwritingTypeOK, VaultType
<1>7. CASE \E p \in Providers, amount \in CapitalInputs :
             RequestCapitalWithdrawal(caller, p, amount)
  BY <1>6, <1>7 DEF RequestCapitalWithdrawal
<1>8. CASE \E p \in Providers : CancelCapitalWithdrawal(caller, p)
  BY <1>6, <1>8 DEF CancelCapitalWithdrawal
<1>9. CASE \E d \in Pacts, amount \in CapitalInputs : AllocateCapital(caller, d, amount)
  <2> PICK d \in Pacts, amount \in CapitalInputs : AllocateCapital(caller, d, amount)
    BY <1>9
  <2>1. /\ vault' = [vault EXCEPT ![PactProvider(d)].allocated = @ + amount]
        /\ UNCHANGED <<balance, credits>>
    BY DEF AllocateCapital
  <2>2. \A p \in Providers : vault'[p].total = vault[p].total
    BY <2>1, PactProviderType
  <2> QED
    BY <1>6, <2>1, <2>2
<1>10. CASE \E d \in Pacts, amount \in CapitalInputs : DeallocateCapital(caller, d, amount)
  <2> PICK d \in Pacts, amount \in CapitalInputs : DeallocateCapital(caller, d, amount)
    BY <1>10
  <2>1. /\ vault' = [vault EXCEPT ![PactProvider(d)].allocated = @ - amount]
        /\ UNCHANGED <<balance, credits>>
    BY DEF DeallocateCapital
  <2>2. \A p \in Providers : vault'[p].total = vault[p].total
    BY <2>1, PactProviderType
  <2> QED
    BY <1>6, <2>1, <2>2
<1> QED
  BY <1>4, <1>5, <1>7, <1>8, <1>9, <1>10

\* A sale splits what the buyer sends into fee, held premium and refund; a
\* release turns the held premium into the owner's credit, once.
LEMMA CoverageBalance ==
  ASSUME Typed, CoverageStep
  PROVE  balance' - Owed' = balance - Owed
<1>1. MoneyTypeOK'
  BY CoverageTypes
<1> USE DEF Typed, LedgerTypeOK, MoneyTypeOK
<1>2. /\ Total(VaultTotals) \in Nat /\ Total(credits) \in Nat /\ Total(HeldPremiums) \in Nat
  BY OwedType
<1> PICK c \in Coverages : CoverageStep!(c)
  BY DEF CoverageStep
<1>3. cov[c] \in CoverageType
  BY DEF UnderwritingTypeOK
<1>4. CASE \E buyer \in Accounts, d \in Pacts, limit \in LimitInputs,
              duration \in DurationInputs, maxPremium \in MaxPremiumInputs,
              payment \in PaymentInputs :
             BuyCoverage(buyer, c, d, limit, duration, maxPremium, payment)
  <2> PICK buyer \in Accounts, d \in Pacts, limit \in LimitInputs,
           duration \in DurationInputs, maxPremium \in MaxPremiumInputs,
           payment \in PaymentInputs :
             BuyCoverage(buyer, c, d, limit, duration, maxPremium, payment)
    BY <1>4
  <2> DEFINE premium == Premium(limit, duration, pact[d].terms.premiumBps)
             fee == FeeOf(premium, config.feeBps)
             fees == Credit(credits, config.role["treasury"], fee)
  <2>1. premium \in Nat
    BY TermsAreNat, PremiumType, UnderwritingAssumption
  <2> HIDE DEF premium
  <2>2. config.feeBps \in Nat /\ config.role["treasury"] \in Accounts
    BY DEF GovernanceTypeOK, ConfigType, Roles
  <2>3. fee \in 0 .. premium
    BY <2>1, <2>2, FeeType
  <2> HIDE DEF fee
  <2>4. payment - premium \in Nat /\ payment \in Nat
    BY <2>1, UnderwritingAssumption DEF BuyCoverage, premium
  <2>5. /\ balance' = balance + payment
        /\ credits' = Credit(fees, buyer, payment - premium)
        /\ \A q \in Providers : vault'[q].total = vault[q].total
        /\ cov'[c].share = premium - fee /\ ~cov'[c].premiumReleased
        /\ \A b \in Coverages \ {c} : cov'[b] = cov[b]
    BY DEF BuyCoverage, ReserveForCoverage, premium, fee, UnderwritingTypeOK, VaultType
  <2>6. fees \in [Accounts -> Nat] /\ Total(fees) = Total(credits) + fee
    <3>1. fee \in Nat /\ config.role["treasury"] \in Accounts
      BY <2>1, <2>2, <2>3
    <3> QED
      BY <3>1, CreditType, CreditTotal
  <2>7. Total(credits)' = Total(credits) + fee + (payment - premium)
    <3> HIDE DEF fees
    <3> QED
      BY <2>4, <2>5, <2>6, CreditTotal
  <2>8. Total(VaultTotals)' = Total(VaultTotals)
    BY <2>5 DEF VaultTotals
  <2>9. HeldFor(cov[c]) = 0
    <3>1. cov[c].status = "NONE"
      BY DEF BuyCoverage, IsNext, UsedCoverages
    <3> QED
      BY <3>1 DEF HeldFor, Unsold, NoCoverage
  <2>10. Total(HeldPremiums)' = Total(HeldPremiums) + (premium - fee)
    BY <1>1, <1>2, <2>1, <2>3, <2>5, <2>9, HeldChange DEF HeldFor
  <2> QED
    BY <1>2, <2>1, <2>3, <2>4, <2>5, <2>7, <2>8, <2>10 DEF Owed
<1>5. CASE ExpireCoverage(c)
  <2>1. \A b \in Coverages : HeldFor(cov'[b]) = HeldFor(cov[b])
    BY <1>5 DEF ExpireCoverage, HeldFor, UnderwritingTypeOK, CoverageType
  <2>2. Total(HeldPremiums)' = Total(HeldPremiums)
    BY <2>1 DEF HeldPremiums, HeldFor
  <2> QED
    BY <1>5, <2>2 DEF ExpireCoverage, Owed, VaultTotals
<1>6. CASE ReleaseEarnedPremium(c)
  <2> DEFINE p == CoverageProvider(c)
             share == HeldFor(cov[c])
  <2>1. owner[p] \in Accounts /\ p \in Providers
    BY <1>6, PactProviderType DEF ReleaseEarnedPremium, Attached, CoverageProvider
  <2>2. share \in Nat
    BY <1>3 DEF HeldFor, CoverageType
  <2>3. /\ credits' = Credit(credits, owner[p], share) /\ balance' = balance
        /\ \A q \in Providers : vault'[q].total = vault[q].total
        /\ cov'[c].premiumReleased
        /\ \A b \in Coverages \ {c} : cov'[b] = cov[b]
    BY <1>6 DEF ReleaseEarnedPremium, ReleaseReserve, HeldFor, UnderwritingTypeOK, VaultType,
                CoverageType
  <2>4. HeldFor(cov'[c]) = 0
    BY <2>3 DEF HeldFor
  <2> HIDE DEF share
  <2>5. Total(credits)' = Total(credits) + share
    BY <2>1, <2>2, <2>3, CreditTotal
  <2>6. Total(HeldPremiums)' = Total(HeldPremiums) - share
    BY <1>1, <1>2, <2>2, <2>3, <2>4, HeldChange DEF share
  <2>7. Total(VaultTotals)' = Total(VaultTotals)
    BY <2>3 DEF VaultTotals
  <2> QED
    BY <1>2, <2>2, <2>3, <2>5, <2>6, <2>7 DEF Owed
<1> QED
  BY <1>4, <1>5, <1>6

-----------------------------------------------------------------------------
(* The component's specification *)

\* The inductive invariant: types, and every token accounted for.
SalesInv == Typed /\ SalesConservation

LEMMA SalesInitially ==
  ASSUME SalesInit
  PROVE  SalesInv
<1> USE DEF SalesInit, LedgerInit, UnderwritingInit
<1>1. LedgerTypeOK
  BY LedgerAssumption DEF LedgerTypeOK
<1>2. GovernanceTypeOK
  BY GovernanceInitTypes
<1>3. RegistryTypeOK
  BY RegistryInitTypes
<1>4. UnderwritingTypeOK
  BY DEF UnderwritingTypeOK, VaultType, CoverageType, CoverageStatus, NoCoverage
<1>5. Registered
  BY DEF Registered, RegistryInit
<1>6. Attached /\ Unsold
  BY DEF Attached, Unsold, NoCoverage
<1>7. /\ Total(VaultTotals) = 0 /\ Total(credits) = 0 /\ Total(HeldPremiums) = 0
  <2>1. /\ VaultTotals = [p \in Providers |-> 0]
        /\ HeldPremiums = [c \in Coverages |-> 0]
    BY DEF VaultTotals, HeldPremiums, NoCoverage
  <2> QED
    BY <2>1, TotalZero
<1>8. SalesConservation
  BY <1>7 DEF SalesConservation
<1> QED
  BY <1>1, <1>2, <1>3, <1>4, <1>5, <1>6, <1>8 DEF SalesInv, Typed

\* The sums depend on the money alone.
LEMMA OwedUnchanged ==
  ASSUME UNCHANGED <<vault, cov>>
  PROVE  VaultTotals' = VaultTotals /\ HeldPremiums' = HeldPremiums
BY DEF VaultTotals, HeldPremiums

\* Steps of the registries and of the governance move no money.
LEMMA ManagementKeeps ==
  ASSUME SalesInv, UNCHANGED <<ledgerVars, underwritingVars>>,
         \/ GovernanceStep /\ UNCHANGED registryVars
         \/ RegistryStep /\ UNCHANGED governanceVars
  PROVE  SalesInv'
<1> USE DEF SalesInv, Typed
<1>1. LedgerTypeOK' /\ UnderwritingTypeOK'
  BY DEF LedgerTypeOK, UnderwritingTypeOK, ledgerVars, underwritingVars
<1>2. GovernanceTypeOK'
  BY GovernanceTypes DEF GovernanceTypeOK, governanceVars
<1>3. RegistryTypeOK'
  BY RegistryTypes DEF RegistryTypeOK, registryVars
<1>4. Registered'
  BY RegistryKeepsRegistered DEF Registered, registryVars
<1>5. \A p \in Providers : owner[p] \in Accounts => owner'[p] \in Accounts
  BY OwnersStay DEF registryVars
<1>6. Attached' /\ Unsold'
  BY <1>5, PactProviderType DEF Attached, Unsold, CoverageProvider, underwritingVars
<1>7. SalesConservation'
  BY OwedUnchanged DEF SalesConservation, ledgerVars, underwritingVars
<1> QED
  BY <1>1, <1>2, <1>3, <1>4, <1>6, <1>7

\* A withdrawal pays out no more than the balance holds: the balance covers
\* every credit.
LEMMA WithdrawalKeeps ==
  ASSUME SalesInv, NEW a \in Accounts, NEW amount \in 1 .. credits[a],
         WithdrawCredit(a, amount),
         UNCHANGED <<governanceVars, registryVars, underwritingVars>>
  PROVE  SalesInv'
<1> USE DEF SalesInv, Typed
<1>1. credits \in [Accounts -> Nat] /\ balance \in Nat /\ amount \in Nat /\ amount <= credits[a]
  BY DEF LedgerTypeOK
<1>2. credits' = [credits EXCEPT ![a] = @ - amount] /\ balance' = balance - amount
      /\ UNCHANGED now
  BY DEF WithdrawCredit
<1>3. /\ credits' \in [Accounts -> Nat] /\ Total(credits') = Total(credits) - amount
      /\ amount <= Total(credits)
  BY <1>1, <1>2, DebitTotal
<1>4. /\ Total(VaultTotals) \in Nat /\ Total(credits) \in Nat /\ Total(HeldPremiums) \in Nat
  BY <1>1, OwedType
<1>5. balance' \in Nat
  BY <1>1, <1>2, <1>3, <1>4 DEF SalesConservation
<1>6. LedgerTypeOK'
  BY <1>2, <1>3, <1>5 DEF LedgerTypeOK
<1>7. SalesConservation'
  BY <1>1, <1>2, <1>3, <1>4, OwedUnchanged DEF SalesConservation, underwritingVars
<1>8. GovernanceTypeOK' /\ RegistryTypeOK' /\ UnderwritingTypeOK' /\ Registered'
      /\ Attached' /\ Unsold'
  BY DEF GovernanceTypeOK, RegistryTypeOK, UnderwritingTypeOK, Registered, Attached, Unsold,
         CoverageProvider, governanceVars, registryVars, underwritingVars
<1> QED
  BY <1>6, <1>7, <1>8

\* Sales and capital moves keep the balance equal to what is owed.
LEMMA UnderwritingKeeps ==
  ASSUME SalesInv, UnderwritingStep, UNCHANGED <<governanceVars, registryVars>>
  PROVE  SalesInv'
<1> USE DEF SalesInv
<1>1. MoneyTypeOK'
  BY CapitalTypes, CoverageTypes DEF UnderwritingStep
<1>2. LedgerTypeOK' /\ UnderwritingTypeOK'
  BY <1>1 DEF MoneyTypeOK, LedgerTypeOK, UnderwritingStep, Typed
<1>3. GovernanceTypeOK' /\ RegistryTypeOK' /\ Registered'
  BY DEF GovernanceTypeOK, RegistryTypeOK, Registered, governanceVars, registryVars, Typed
<1>4. Attached' /\ Unsold'
  BY UnderwritingKeepsAttached
<1>5. SalesConservation'
  <2>1. balance' - Owed' = balance - Owed
    BY CapitalBalance, CoverageBalance DEF UnderwritingStep
  <2>2. balance \in Nat /\ balance' \in Nat /\ credits' \in [Accounts -> Nat]
        /\ credits \in [Accounts -> Nat] /\ UnderwritingTypeOK
    BY <1>2 DEF LedgerTypeOK, Typed
  <2>3. Total(VaultTotals) \in Nat /\ Total(credits) \in Nat /\ Total(HeldPremiums) \in Nat
    BY <2>2, OwedType
  <2>4. VaultTotals' \in [Providers -> Nat] /\ HeldPremiums' \in [Coverages -> Nat]
    BY <1>2 DEF VaultTotals, HeldPremiums, UnderwritingTypeOK, VaultType, CoverageType
  <2>5. Total(VaultTotals') \in Nat /\ Total(credits') \in Nat /\ Total(HeldPremiums') \in Nat
    BY <2>2, <2>4, TotalType, RegistryAssumption, UnderwritingAssumption, LedgerAssumption
  <2>6. balance = Owed /\ Owed \in Nat
    BY <2>3 DEF SalesConservation, Owed
  <2>7. Owed' = Total(VaultTotals') + Total(credits') + Total(HeldPremiums')
    BY DEF Owed
  <2>8. Owed' \in Nat
    BY <2>5, <2>7
  <2>9. balance' = Owed'
    <3>1. \A b1, o1, b0, o0 \in Nat : b1 - o1 = b0 - o0 /\ b0 = o0 => b1 = o1
      OBVIOUS
    <3>2. balance \in Nat /\ balance' \in Nat
      BY <2>2
    <3> QED
      BY ONLY <2>1, <2>6, <2>8, <3>1, <3>2
  <2> QED
    BY <2>7, <2>9 DEF SalesConservation
<1> QED
  BY <1>2, <1>3, <1>4, <1>5 DEF Typed

LEMMA SalesInvariant == SalesSpec => []SalesInv
<1>1. SalesInit => SalesInv
  BY SalesInitially
<1>2. SalesInv /\ [SalesNext]_salesVars => SalesInv'
  <2> SUFFICES ASSUME SalesInv, [SalesNext]_salesVars PROVE SalesInv'
    OBVIOUS
  <2>1. CASE Tick /\ UNCHANGED <<governanceVars, registryVars, underwritingVars>>
    <3>1. LedgerTypeOK' /\ SalesConservation'
      BY <2>1, OwedUnchanged, LedgerAssumption
      DEF SalesInv, Typed, Tick, LedgerTypeOK, SalesConservation, underwritingVars
    <3> QED
      BY <2>1, <3>1
      DEF SalesInv, Typed, GovernanceTypeOK, RegistryTypeOK, UnderwritingTypeOK, Registered,
          Attached, Unsold, CoverageProvider, governanceVars, registryVars, underwritingVars
  <2>2. CASE /\ \E a \in Accounts : \E amount \in 1 .. credits[a] : WithdrawCredit(a, amount)
             /\ UNCHANGED <<governanceVars, registryVars, underwritingVars>>
    BY <2>2, WithdrawalKeeps
  <2>3. CASE \/ GovernanceStep /\ UNCHANGED <<ledgerVars, registryVars, underwritingVars>>
             \/ RegistryStep /\ UNCHANGED <<ledgerVars, governanceVars, underwritingVars>>
    BY <2>3, ManagementKeeps
  <2>4. CASE UnderwritingStep /\ UNCHANGED <<governanceVars, registryVars>>
    BY <2>4, UnderwritingKeeps
  <2>5. CASE UNCHANGED salesVars
    BY <2>5, OwedUnchanged
    DEF SalesInv, Typed, LedgerTypeOK, GovernanceTypeOK, RegistryTypeOK,
        UnderwritingTypeOK, Registered, Attached, Unsold, CoverageProvider,
        SalesConservation, salesVars, ledgerVars, governanceVars, registryVars,
        underwritingVars
  <2> QED
    BY <2>1, <2>2, <2>3, <2>4, <2>5 DEF SalesNext
<1> QED
  BY <1>1, <1>2, PTL DEF SalesSpec

\* The records of the registries, the vaults and the coverages keep their types
\* for any number of accounts, providers, pacts and coverages.  In particular
\* no unsigned amount of the contract underflows: neither the balance at a
\* withdrawal, nor a vault or a reserve at a release.
THEOREM SalesTypes == SalesSpec => []SalesTypeOK
<1>1. SalesInv => SalesTypeOK
  BY DEF SalesInv, Typed, SalesTypeOK
<1> QED
  BY <1>1, SalesInvariant, PTL

\* Every token the contract holds is owed to exactly one party, whatever
\* providers deposit and withdraw, buyers pay and anyone releases.
THEOREM SalesConserve == SalesSpec => []SalesConservation
<1>1. SalesInv => SalesConservation
  BY DEF SalesInv
<1> QED
  BY <1>1, SalesInvariant, PTL
-----------------------------------------------------------------------------
(* Backing *)

\* Capital moves within what is free or not reserved.
LEMMA CapitalBacked ==
  ASSUME Typed, FullyBacked, CapitalStep
  PROVE  FullyBacked'
<1> PICK caller \in Accounts : CapitalStep!(caller)
  BY DEF CapitalStep
<1> USE DEF FullyBacked, VaultSound, Typed, UnderwritingTypeOK, VaultType
<1>1. CASE \E p \in Providers, amount \in CapitalInputs :
             \/ DepositCapital(caller, p, amount)
             \/ RequestCapitalWithdrawal(caller, p, amount)
  <2> PICK p \in Providers, amount \in CapitalInputs :
             \/ DepositCapital(caller, p, amount)
             \/ RequestCapitalWithdrawal(caller, p, amount)
    BY <1>1
  <2>1. /\ VaultSound(vault'[p])
        /\ UNCHANGED <<pactAllocated, pactReserved>>
        /\ \A q \in Providers \ {p} : vault'[q] = vault[q]
    BY DEF DepositCapital, RequestCapitalWithdrawal
  <2> QED
    BY <2>1
<1>2. CASE \E p \in Providers :
             CancelCapitalWithdrawal(caller, p) \/ ExecuteCapitalWithdrawal(caller, p)
  <2> PICK p \in Providers :
             CancelCapitalWithdrawal(caller, p) \/ ExecuteCapitalWithdrawal(caller, p)
    BY <1>2
  <2>1. UNCHANGED <<pactAllocated, pactReserved>>
    BY Zenon DEF CancelCapitalWithdrawal, ExecuteCapitalWithdrawal
  <2>2. CASE CancelCapitalWithdrawal(caller, p)
    <3>1. vault' = [vault EXCEPT ![p].pending = 0, ![p].unlock = 0]
      BY <2>2 DEF CancelCapitalWithdrawal
    <3> QED
      BY <2>1, <3>1
  <2>3. CASE ExecuteCapitalWithdrawal(caller, p)
    <3>1. /\ VaultSound(vault'[p])
          /\ vault' = [vault EXCEPT ![p].total = @ - vault[p].pending,
                                    ![p].pending = 0, ![p].unlock = 0]
      BY <2>3 DEF ExecuteCapitalWithdrawal
    <3>2. \A q \in Providers \ {p} : vault'[q] = vault[q]
      BY <3>1
    <3>3. ASSUME NEW q \in Providers PROVE VaultSound(vault'[q])
      <4>1. CASE q = p
        BY <3>1, <4>1
      <4>2. CASE q # p
        <5>1. vault'[q] = vault[q]
          BY <3>2, <4>2
        <5> QED
          BY ONLY <5>1, FullyBacked, q \in Providers
      <4> QED
        BY <4>1, <4>2
    <3>4. \A d \in Pacts : pactReserved'[d] <= pactAllocated'[d]
      BY ONLY <2>1, FullyBacked
    <3> QED
      BY ONLY <3>3, <3>4, SMTT(30)
  <2> QED
    BY <2>2, <2>3
<1>3. CASE \E d \in Pacts, amount \in CapitalInputs : AllocateCapital(caller, d, amount)
  <2> PICK d \in Pacts, amount \in CapitalInputs : AllocateCapital(caller, d, amount)
    BY <1>3
  <2>1. PactProvider(d) \in Providers /\ amount \in Nat
    BY PactProviderType, UnderwritingAssumption
  <2> QED
    BY <2>1 DEF AllocateCapital
<1>4. CASE \E d \in Pacts, amount \in CapitalInputs : DeallocateCapital(caller, d, amount)
  <2> PICK d \in Pacts, amount \in CapitalInputs : DeallocateCapital(caller, d, amount)
    BY <1>4
  <2>1. PactProvider(d) \in Providers /\ amount \in Nat
    BY PactProviderType, UnderwritingAssumption
  <2> QED
    BY <2>1 DEF DeallocateCapital, Unreserved
<1> QED
  BY <1>1, <1>2, <1>3, <1>4

\* A sale reserves what is allocated and not reserved yet; a release frees.
LEMMA CoverageKeepsBacked ==
  ASSUME Typed, FullyBacked, CoverageStep
  PROVE  FullyBacked'
<1> PICK c \in Coverages : CoverageStep!(c)
  BY DEF CoverageStep
<1> USE DEF FullyBacked, VaultSound, Typed, UnderwritingTypeOK, VaultType
<1>1. CASE \E buyer \in Accounts, d \in Pacts, limit \in LimitInputs,
             duration \in DurationInputs, maxPremium \in MaxPremiumInputs,
             payment \in PaymentInputs :
             BuyCoverage(buyer, c, d, limit, duration, maxPremium, payment)
  <2> PICK buyer \in Accounts, d \in Pacts, limit \in LimitInputs,
           duration \in DurationInputs, maxPremium \in MaxPremiumInputs,
           payment \in PaymentInputs :
             BuyCoverage(buyer, c, d, limit, duration, maxPremium, payment)
    BY <1>1
  <2>1. PactProvider(d) \in Providers /\ limit \in Nat
    BY PactProviderType, UnderwritingAssumption
  <2>2. ReserveForCoverage(d, limit) /\ UNCHANGED pactAllocated
    BY DEF BuyCoverage
  <2> QED
    BY <2>1, <2>2 DEF ReserveForCoverage, Unreserved
<1>2. CASE ExpireCoverage(c)
  BY <1>2 DEF ExpireCoverage
<1>3. CASE ReleaseEarnedPremium(c)
  <2> DEFINE d == cov[c].pact  amount == ReserveLeft(c)
  <2>1. ReleaseReserve(d, amount) /\ UNCHANGED pactAllocated /\ cov[c].status # "NONE"
    BY <1>3 DEF ReleaseEarnedPremium
  <2>2. d \in Pacts
    BY <2>1 DEF Attached
  <2>3. amount \in Nat /\ PactProvider(d) \in Providers
    BY <2>2, PactProviderType DEF ReserveLeft, CoverageType
  <2> HIDE DEF d, amount
  <2> QED
    BY <2>1, <2>2, <2>3 DEF ReleaseReserve
<1> QED
  BY <1>1, <1>2, <1>3

\* No order of sales, releases, allocations and withdrawals leaves a pact with
\* more reserved than allocated, or a vault with more promised than it holds.
THEOREM SalesBacked == SalesSpec => []FullyBacked
<1>1. SalesInit => FullyBacked
  BY DEF SalesInit, UnderwritingInit, FullyBacked, VaultSound
<1>2. SalesInv /\ FullyBacked /\ [SalesNext]_salesVars => FullyBacked'
  <2> SUFFICES ASSUME SalesInv, FullyBacked, [SalesNext]_salesVars PROVE FullyBacked'
    OBVIOUS
  <2>1. CASE UnderwritingStep
    BY <2>1, CapitalBacked, CoverageKeepsBacked DEF UnderwritingStep, SalesInv
  <2>2. CASE UNCHANGED underwritingVars
    BY <2>2 DEF underwritingVars, FullyBacked, VaultSound
  <2> QED
    BY <2>1, <2>2 DEF SalesNext, salesVars
<1> QED
  BY <1>1, <1>2, SalesInvariant, PTL DEF SalesSpec
-----------------------------------------------------------------------------
(* The books *)

\* What of a coverage's reserve belongs to pact d, and what of the pacts'
\* amounts f belongs to provider p.
Against(cv, d) == IF cv.pact = d THEN cv.reserved ELSE 0
Portion(f, p) == [d \in Pacts |-> IF PactProvider(d) = p THEN f[d] ELSE 0]

\* When one coverage changes, so does what is reserved for a pact.
LEMMA ReservedChange ==
  ASSUME UnderwritingTypeOK, UnderwritingTypeOK', NEW c \in Coverages, NEW d \in Pacts,
         \A b \in Coverages \ {c} : Against(cov'[b], d) = Against(cov[b], d)
  PROVE  /\ Total(ReservedFor(d)) \in Nat
         /\ Total(ReservedFor(d))' =
              Total(ReservedFor(d)) - Against(cov[c], d) + Against(cov'[c], d)
<1>1. ReservedFor(d) \in [Coverages -> Nat] /\ ReservedFor(d)' \in [Coverages -> Nat]
  BY DEF ReservedFor, UnderwritingTypeOK, CoverageType
<1>2. /\ ReservedFor(d)[c] = Against(cov[c], d) /\ ReservedFor(d)'[c] = Against(cov'[c], d)
      /\ \A b \in Coverages \ {c} : ReservedFor(d)[b] = ReservedFor(d)'[b]
  BY DEF ReservedFor, Against
<1>3. Total(ReservedFor(d)') = Total(ReservedFor(d)) - ReservedFor(d)[c] + ReservedFor(d)'[c]
  BY <1>1, <1>2, TotalChange, UnderwritingAssumption
<1>4. Total(ReservedFor(d)) \in Nat
  BY <1>1, TotalType, UnderwritingAssumption
<1> QED
  BY <1>2, <1>3, <1>4

\* When one pact changes, so does what its provider has in all, and no other.
LEMMA PortionChange ==
  ASSUME NEW f \in [Pacts -> Nat], NEW g \in [Pacts -> Nat], NEW d \in Pacts, NEW p,
         \A e \in Pacts \ {d} : g[e] = f[e]
  PROVE  /\ Total(Portion(f, p)) \in Nat
         /\ Total(Portion(g, p)) =
              IF PactProvider(d) = p THEN Total(Portion(f, p)) - f[d] + g[d]
                                     ELSE Total(Portion(f, p))
<1>1. Portion(f, p) \in [Pacts -> Nat] /\ Portion(g, p) \in [Pacts -> Nat]
  BY DEF Portion
<1>2. \A e \in Pacts \ {d} : Portion(f, p)[e] = Portion(g, p)[e]
  BY DEF Portion
<1>3. Total(Portion(g, p)) = Total(Portion(f, p)) - Portion(f, p)[d] + Portion(g, p)[d]
  BY <1>1, <1>2, TotalChange, RegistryAssumption
<1>4. Total(Portion(f, p)) \in Nat
  BY <1>1, TotalType, RegistryAssumption
<1>5. /\ Portion(f, p)[d] = IF PactProvider(d) = p THEN f[d] ELSE 0
      /\ Portion(g, p)[d] = IF PactProvider(d) = p THEN g[d] ELSE 0
  BY DEF Portion
<1> QED
  BY <1>3, <1>4, <1>5

\* A step about one coverage keeps the pacts' counters right if each moves by what
\* the coverage's reserve moves.
LEMMA ReservesFollow ==
  ASSUME UnderwritingTypeOK, UnderwritingTypeOK', ReservesMatch, NEW c \in Coverages,
         \A b \in Coverages \ {c} :
           cov'[b].pact = cov[b].pact /\ cov'[b].reserved = cov[b].reserved,
         \A d \in Pacts :
           pactReserved'[d] = pactReserved[d] - Against(cov[c], d) + Against(cov'[c], d)
  PROVE  ReservesMatch'
<1> SUFFICES ASSUME NEW d \in Pacts
             PROVE  pactReserved'[d] = Total(ReservedFor(d))'
  BY DEF ReservesMatch
<1>1. \A b \in Coverages \ {c} : Against(cov'[b], d) = Against(cov[b], d)
  BY DEF Against
<1>2. Total(ReservedFor(d))' = Total(ReservedFor(d)) - Against(cov[c], d) + Against(cov'[c], d)
  BY <1>1, ReservedChange
<1> QED
  BY <1>2 DEF ReservesMatch

\* A step about one pact keeps its provider's vault right if the vault moves as
\* the pact does.
LEMMA VaultsFollow ==
  ASSUME UnderwritingTypeOK, UnderwritingTypeOK', VaultsMatch,
         NEW d \in Pacts, NEW p \in Providers, p = PactProvider(d),
         \A e \in Pacts \ {d} :
           pactReserved'[e] = pactReserved[e] /\ pactAllocated'[e] = pactAllocated[e],
         \A q \in Providers \ {p} :
           vault'[q].reserved = vault[q].reserved /\ vault'[q].allocated = vault[q].allocated,
         vault'[p].reserved = vault[p].reserved - pactReserved[d] + pactReserved'[d],
         vault'[p].allocated = vault[p].allocated - pactAllocated[d] + pactAllocated'[d]
  PROVE  VaultsMatch'
<1> SUFFICES ASSUME NEW q \in Providers
             PROVE  /\ vault'[q].reserved = Total(PactsReserved(q))'
                    /\ vault'[q].allocated = Total(PactsAllocated(q))'
  BY DEF VaultsMatch
<1>1. /\ pactReserved \in [Pacts -> Nat] /\ pactReserved' \in [Pacts -> Nat]
      /\ pactAllocated \in [Pacts -> Nat] /\ pactAllocated' \in [Pacts -> Nat]
  BY DEF UnderwritingTypeOK
<1>2. /\ PactsReserved(q) = Portion(pactReserved, q)
      /\ PactsAllocated(q) = Portion(pactAllocated, q)
      /\ PactsReserved(q)' = Portion(pactReserved', q)
      /\ PactsAllocated(q)' = Portion(pactAllocated', q)
  BY DEF PactsReserved, PactsAllocated, Portion
<1>3. /\ Total(Portion(pactReserved', q)) =
           IF p = q THEN Total(Portion(pactReserved, q)) - pactReserved[d] + pactReserved'[d]
                    ELSE Total(Portion(pactReserved, q))
      /\ Total(Portion(pactAllocated', q)) =
           IF p = q THEN Total(Portion(pactAllocated, q)) - pactAllocated[d] + pactAllocated'[d]
                    ELSE Total(Portion(pactAllocated, q))
  BY <1>1, PortionChange
<1>4. /\ vault[q].reserved = Total(Portion(pactReserved, q))
      /\ vault[q].allocated = Total(Portion(pactAllocated, q))
  BY <1>2 DEF VaultsMatch
<1>5. /\ Total(PactsReserved(q))' = Total(Portion(pactReserved', q))
      /\ Total(PactsAllocated(q))' = Total(Portion(pactAllocated', q))
  BY <1>2
<1>6. CASE p = q
  BY <1>3, <1>4, <1>5, <1>6
<1>7. CASE p # q
  BY <1>3, <1>4, <1>5, <1>7
<1> QED
  BY <1>6, <1>7

\* A released coverage holds no reserve.
ReleasedEmpty ==
  \A c \in Coverages :
    cov[c].reserveReleased => cov[c].status = "RELEASED" /\ cov[c].reserved = 0

Books == BooksAgree /\ ReleasedEmpty

\* Capital is allocated and deallocated in the pact and the vault alike.
LEMMA CapitalKeepsBooks ==
  ASSUME Typed, Books, CapitalStep
  PROVE  Books'
<1>1. UnderwritingTypeOK' /\ UnderwritingTypeOK
  BY CapitalTypes DEF MoneyTypeOK, Typed
<1>2. UNCHANGED cov
  BY CapitalKeepsCoverages
<1>3. ReleasedEmpty'
  BY <1>2 DEF Books, ReleasedEmpty
<1> PICK caller \in Accounts : CapitalStep!(caller)
  BY DEF CapitalStep
<1>4. ASSUME UNCHANGED <<pactReserved, pactAllocated>>,
             \A p \in Providers : vault'[p].reserved = vault[p].reserved
                                  /\ vault'[p].allocated = vault[p].allocated
      PROVE  BooksAgree'
  BY <1>2, <1>4 DEF Books, BooksAgree, ReservesMatch, VaultsMatch, ReservedFor,
                    PactsReserved, PactsAllocated
<1>5. CASE \E p \in Providers, amount \in CapitalInputs :
             \/ DepositCapital(caller, p, amount)
             \/ RequestCapitalWithdrawal(caller, p, amount)
  BY <1>1, <1>3, <1>4, <1>5
  DEF DepositCapital, RequestCapitalWithdrawal, UnderwritingTypeOK, VaultType, Books
<1>6. CASE \E p \in Providers :
             CancelCapitalWithdrawal(caller, p) \/ ExecuteCapitalWithdrawal(caller, p)
  <2> PICK p \in Providers :
             CancelCapitalWithdrawal(caller, p) \/ ExecuteCapitalWithdrawal(caller, p)
    BY <1>6
  <2>1. UNCHANGED <<pactAllocated, pactReserved>>
    BY Zenon DEF CancelCapitalWithdrawal, ExecuteCapitalWithdrawal
  <2>2. PICK left : \/ vault' = [vault EXCEPT ![p].pending = 0, ![p].unlock = 0]
                   \/ vault' = [vault EXCEPT ![p].total = left, ![p].pending = 0,
                                             ![p].unlock = 0]
    BY DEF CancelCapitalWithdrawal, ExecuteCapitalWithdrawal
  <2>3. \A q \in Providers : vault'[q].reserved = vault[q].reserved
                              /\ vault'[q].allocated = vault[q].allocated
    <3> USE DEF UnderwritingTypeOK, VaultType
    <3>1. CASE vault' = [vault EXCEPT ![p].pending = 0, ![p].unlock = 0]
      BY <1>1, <3>1
    <3>2. CASE vault' = [vault EXCEPT ![p].total = left, ![p].pending = 0, ![p].unlock = 0]
      <4> PICK low : low = [vault[p] EXCEPT !.total = left]
        OBVIOUS
      <4> PICK new : new = [low EXCEPT !.pending = 0, !.unlock = 0]
        OBVIOUS
      <4>1. vault' = [vault EXCEPT ![p] = new]
        BY <1>1, <3>2
      <4>2. new.reserved = vault[p].reserved /\ new.allocated = vault[p].allocated
        BY <1>1
      <4> QED
        BY <1>1, <4>1, <4>2
    <3> QED
      BY <2>2, <3>1, <3>2
  <2> QED
    BY <1>3, <1>4, <2>1, <2>3 DEF Books
<1>7. CASE \E d \in Pacts, amount \in CapitalInputs :
             AllocateCapital(caller, d, amount) \/ DeallocateCapital(caller, d, amount)
  <2> PICK d \in Pacts, amount \in CapitalInputs :
             AllocateCapital(caller, d, amount) \/ DeallocateCapital(caller, d, amount)
    BY <1>7
  <2> PICK p \in Providers : p = PactProvider(d)
    BY PactProviderType
  <2>1. /\ UNCHANGED pactReserved
        /\ \A e \in Pacts \ {d} : pactAllocated'[e] = pactAllocated[e]
        /\ \A q \in Providers : vault'[q].reserved = vault[q].reserved
        /\ \A q \in Providers \ {p} : vault'[q].allocated = vault[q].allocated
    BY <1>1 DEF AllocateCapital, DeallocateCapital, UnderwritingTypeOK, VaultType
  <2>2. vault'[p].allocated = vault[p].allocated - pactAllocated[d] + pactAllocated'[d]
    <3>1. /\ vault[p].allocated \in Nat /\ pactAllocated[d] \in Nat /\ amount \in Nat
      BY <1>1, UnderwritingAssumption DEF UnderwritingTypeOK, VaultType
    <3>2. \/ /\ vault'[p].allocated = vault[p].allocated + amount
             /\ pactAllocated'[d] = pactAllocated[d] + amount
          \/ /\ vault'[p].allocated = vault[p].allocated - amount
             /\ pactAllocated'[d] = pactAllocated[d] - amount
      BY <1>1 DEF AllocateCapital, DeallocateCapital, UnderwritingTypeOK, VaultType
    <3> QED
      BY <3>1, <3>2
  <2>3. /\ vault[p].reserved \in Nat /\ pactReserved[d] \in Nat
    BY <1>1 DEF UnderwritingTypeOK, VaultType
  <2>4. vault'[p].reserved = vault[p].reserved - pactReserved[d] + pactReserved'[d]
    BY <2>1, <2>3
  <2>5. VaultsMatch'
    BY <1>1, <2>1, <2>2, <2>4, VaultsFollow DEF Books, BooksAgree
  <2>6. ReservesMatch'
    BY <1>2, <2>1 DEF Books, BooksAgree, ReservesMatch, ReservedFor
  <2> QED
    BY <1>3, <2>5, <2>6 DEF Books, BooksAgree
<1> QED
  BY <1>5, <1>6, <1>7

\* A sale reserves the same limit in all three books, a release frees in all of
\* them what is left of it.
LEMMA CoverageKeepsBooks ==
  ASSUME Typed, Books, CoverageStep
  PROVE  Books'
<1>1. UnderwritingTypeOK' /\ UnderwritingTypeOK
  BY CoverageTypes DEF MoneyTypeOK, Typed
<1> PICK c \in Coverages : CoverageStep!(c)
  BY DEF CoverageStep
<1>2. cov[c] \in CoverageType
  BY <1>1 DEF UnderwritingTypeOK
<1>3. CASE \E buyer \in Accounts, d \in Pacts, limit \in LimitInputs,
              duration \in DurationInputs, maxPremium \in MaxPremiumInputs,
              payment \in PaymentInputs :
             BuyCoverage(buyer, c, d, limit, duration, maxPremium, payment)
  <2> PICK buyer \in Accounts, d \in Pacts, limit \in LimitInputs,
           duration \in DurationInputs, maxPremium \in MaxPremiumInputs,
           payment \in PaymentInputs :
             BuyCoverage(buyer, c, d, limit, duration, maxPremium, payment)
    BY <1>3
  <2> PICK p \in Providers : p = PactProvider(d)
    BY PactProviderType
  <2>1. limit \in Nat /\ pactReserved[d] \in Nat /\ vault[p].reserved \in Nat
        /\ pactAllocated[d] \in Nat /\ vault[p].allocated \in Nat
    BY <1>1, UnderwritingAssumption DEF UnderwritingTypeOK, VaultType
  <2>2. /\ pactReserved' = [pactReserved EXCEPT ![d] = @ + limit]
        /\ vault' = [vault EXCEPT ![p].reserved = @ + limit]
        /\ UNCHANGED pactAllocated
        /\ cov[c].status = "NONE"
    BY DEF BuyCoverage, ReserveForCoverage, IsNext, UsedCoverages
  <2>3. cov[c] = NoCoverage
    BY <2>2 DEF Typed, Unsold
  <2>4. /\ cov'[c].pact = d /\ cov'[c].reserved = limit
        /\ cov'[c].status = "ACTIVE" /\ cov'[c].reserveReleased = FALSE
        /\ \A b \in Coverages \ {c} : cov'[b] = cov[b]
    BY <1>1 DEF BuyCoverage, UnderwritingTypeOK
  <2>5. Against(cov[c], d) = 0 /\ \A e \in Pacts : Against(cov[c], e) = 0
    BY <2>3 DEF Against, NoCoverage
  <2>6. \A e \in Pacts : Against(cov'[c], e) = IF e = d THEN limit ELSE 0
    BY <2>4 DEF Against
  <2>7. \A e \in Pacts :
          pactReserved'[e] = pactReserved[e] - Against(cov[c], e) + Against(cov'[c], e)
    BY <1>1, <2>1, <2>2, <2>5, <2>6 DEF UnderwritingTypeOK
  <2>8. ReservesMatch'
    BY <1>1, <2>4, <2>7, ReservesFollow DEF Books, BooksAgree
  <2>9. /\ vault'[p].reserved = vault[p].reserved + limit
        /\ vault'[p].allocated = vault[p].allocated
        /\ pactReserved'[d] = pactReserved[d] + limit
        /\ \A e \in Pacts \ {d} : pactReserved'[e] = pactReserved[e]
        /\ \A q \in Providers \ {p} : vault'[q] = vault[q]
    BY <1>1, <2>2 DEF UnderwritingTypeOK, VaultType
  <2>10. VaultsMatch'
    BY <1>1, <2>1, <2>2, <2>9, VaultsFollow DEF Books, BooksAgree
  <2>11. ReleasedEmpty'
    BY <2>4 DEF Books, ReleasedEmpty
  <2> QED
    BY <2>8, <2>10, <2>11 DEF Books, BooksAgree
<1>4. CASE ExpireCoverage(c)
  <2>1. /\ cov[c].status = "ACTIVE"
        /\ \A b \in Coverages : cov'[b].pact = cov[b].pact /\ cov'[b].reserved = cov[b].reserved
                                /\ cov'[b].reserveReleased = cov[b].reserveReleased
        /\ \A b \in Coverages \ {c} : cov'[b] = cov[b]
        /\ UNCHANGED <<vault, pactAllocated, pactReserved>>
    BY <1>1, <1>4 DEF ExpireCoverage, UnderwritingTypeOK, CoverageType
  <2>2. BooksAgree'
    BY <2>1 DEF Books, BooksAgree, ReservesMatch, VaultsMatch, ReservedFor, PactsReserved,
                PactsAllocated
  <2>3. ReleasedEmpty'
    BY <2>1 DEF Books, ReleasedEmpty
  <2> QED
    BY <2>2, <2>3 DEF Books
<1>5. CASE ReleaseEarnedPremium(c)
  <2> PICK d \in Pacts : d = cov[c].pact
    BY <1>5 DEF ReleaseEarnedPremium, Typed, Attached
  <2> PICK p \in Providers : p = PactProvider(d)
    BY PactProviderType
  <2> PICK freed : freed = cov[c].reserved
    OBVIOUS
  <2>1. freed \in Nat /\ ReserveLeft(c) = freed
    BY <1>2 DEF Books, ReleasedEmpty, ReserveLeft, CoverageType
  <2>2. /\ pactReserved[d] >= freed /\ vault[p].reserved >= freed
        /\ pactReserved' = [pactReserved EXCEPT ![d] = @ - freed]
        /\ vault' = [vault EXCEPT ![p].reserved = @ - freed]
        /\ UNCHANGED pactAllocated
    BY <1>5, <2>1 DEF ReleaseEarnedPremium, ReleaseReserve
  <2>3. /\ cov'[c].pact = d /\ cov'[c].reserved = 0 /\ cov'[c].status = "RELEASED"
        /\ \A b \in Coverages \ {c} : cov'[b] = cov[b]
    BY <1>1, <1>2, <1>5 DEF ReleaseEarnedPremium, UnderwritingTypeOK, CoverageType
  <2>4. \A e \in Pacts : Against(cov[c], e) = (IF e = d THEN freed ELSE 0)
                         /\ Against(cov'[c], e) = 0
    BY <2>3 DEF Against
  <2>5. \A e \in Pacts :
          pactReserved'[e] = pactReserved[e] - Against(cov[c], e) + Against(cov'[c], e)
    BY <1>1, <2>1, <2>2, <2>4 DEF UnderwritingTypeOK
  <2>6. ReservesMatch'
    BY <1>1, <2>3, <2>5, ReservesFollow DEF Books, BooksAgree
  <2>7. pactReserved[d] \in Nat /\ vault[p].reserved \in Nat
        /\ pactAllocated[d] \in Nat /\ vault[p].allocated \in Nat
    BY <1>1 DEF UnderwritingTypeOK, VaultType
  <2>8. /\ vault'[p].reserved = vault[p].reserved - freed
        /\ vault'[p].allocated = vault[p].allocated
        /\ pactReserved'[d] = pactReserved[d] - freed
        /\ \A e \in Pacts \ {d} : pactReserved'[e] = pactReserved[e]
        /\ \A q \in Providers \ {p} : vault'[q] = vault[q]
    BY <1>1, <2>2 DEF UnderwritingTypeOK, VaultType
  <2>9. VaultsMatch'
    BY <1>1, <2>1, <2>2, <2>7, <2>8, VaultsFollow DEF Books, BooksAgree
  <2>10. ReleasedEmpty'
    BY <2>3 DEF Books, ReleasedEmpty
  <2> QED
    BY <2>6, <2>9, <2>10 DEF Books, BooksAgree
<1> QED
  BY <1>3, <1>4, <1>5

LEMMA BooksStart ==
  ASSUME UnderwritingInit
  PROVE  Books
<1>1. /\ \A d \in Pacts : ReservedFor(d) = [c \in Coverages |-> 0]
      /\ \A p \in Providers : /\ PactsReserved(p) = [d \in Pacts |-> 0]
                              /\ PactsAllocated(p) = [d \in Pacts |-> 0]
  BY DEF UnderwritingInit, NoCoverage, ReservedFor, PactsReserved, PactsAllocated
<1>2. /\ \A d \in Pacts : Total(ReservedFor(d)) = 0
      /\ \A p \in Providers : Total(PactsReserved(p)) = 0 /\ Total(PactsAllocated(p)) = 0
  BY <1>1, TotalZero
<1>3. BooksAgree
  BY <1>2 DEF UnderwritingInit, BooksAgree, ReservesMatch, VaultsMatch
<1> QED
  BY <1>3 DEF UnderwritingInit, NoCoverage, Books, ReleasedEmpty

\* The books depend on the money alone.
LEMMA BooksUnchanged ==
  ASSUME Books, UNCHANGED <<vault, pactAllocated, pactReserved, cov>>
  PROVE  Books'
BY DEF Books, BooksAgree, ReservesMatch, VaultsMatch, ReservedFor, PactsReserved,
       PactsAllocated, ReleasedEmpty

\* The three books of the capital agree in every order of deposits, allocations,
\* sales and releases, for any number of pacts and coverages.
THEOREM SalesBooks == SalesSpec => []BooksAgree
<1>1. SalesInit => Books
  BY BooksStart DEF SalesInit
<1>2. SalesInv /\ Books /\ [SalesNext]_salesVars => Books'
  <2> SUFFICES ASSUME SalesInv, Books, [SalesNext]_salesVars PROVE Books'
    OBVIOUS
  <2>1. CASE UnderwritingStep
    BY <2>1, CapitalKeepsBooks, CoverageKeepsBooks DEF UnderwritingStep, SalesInv
  <2>2. CASE UNCHANGED underwritingVars
    BY <2>2, BooksUnchanged DEF underwritingVars
  <2> QED
    BY <2>1, <2>2 DEF SalesNext, salesVars
<1>3. Books => BooksAgree
  BY DEF Books
<1> QED
  BY <1>1, <1>2, <1>3, SalesInvariant, PTL DEF SalesSpec
\* Buying, earning and releasing in between do not let anybody take a role or a
\* provider that was not offered.
THEOREM SalesByConsent == SalesSpec => ControlByConsent
<1>1. SalesInv /\ [SalesNext]_salesVars =>
        [RolesByConsent /\ OwnersByConsent]_listingVars
  <2> SUFFICES ASSUME SalesInv, [SalesNext]_salesVars, ~UNCHANGED listingVars
               PROVE  RolesByConsent /\ OwnersByConsent
    OBVIOUS
  <2>1. /\ GovernanceStep \/ UNCHANGED config
        /\ RegistryStep \/ UNCHANGED <<owner, pendingOwner>>
    BY DEF SalesNext, salesVars, listingVars, governanceVars, registryVars
  <2> QED
    BY <2>1, HandedOver DEF SalesInv, Typed
<1> QED
  BY <1>1, SalesInvariant, PTL
  DEF SalesSpec, ControlByConsent, RolesByConsent, OwnersByConsent
=============================================================================
