\* alice registers a provider, a service and two pacts, and drafts, publishes,
\* revises, pauses and retires in every order, as she and bob hand over the provider
\* and the protocol's roles and change its settings; once both pacts are on sale,
\* every interleaving of deposits, allocations, withdrawals, purchases and releases
\* with pauses, retirements and changes of the settings (the fee 2 is above the maximum).
SPECIFICATION SalesSpec
CHECK_DEADLOCK FALSE
CONSTANTS
  alice = alice
  bob = bob
  none = none
  Accounts = {alice, bob}
  EOAs = {bob}
  NoAccount = none
  Deployer = alice
  RoleCandidates = {bob}
  ReporterCandidates = {}
  OwnerCandidates = {bob}
  MaxTime = 2
  BpsDenom = 2
  YearSeconds = 1
  MinPremium = 1
  Unknown = none
  MaxFeeBps = 1
  MinCooldown = 1
  MaxCooldown = 2
  MinWindow = 1
  MaxEvidenceWindow = 2
  MaxChallengeWindow = 2
  MaxChallengeEvidenceWindow = 2
  MaxResolutionTimeout = 2
  MaxSpan = 2
  MaxQuorum = 2
  FeeInputs = {1, 2}
  CooldownInputs = {1}
  BondInputs = {1}
  WindowInputs = {1}
  QuorumInputs = {1}
  SpanInputs = {1}
  Providers = {1}
  Services = {1}
  Pacts = {1, 2}
  ServiceProvider <- MCServiceProvider
  PactService <- MCPactService
  TermsInputs <- MCTermsInputs
  Coverages = {1, 2}
  CapitalInputs = {2}
  LimitInputs = {1, 2}
  DurationInputs = {1}
  MaxPremiumInputs = {3}
  PaymentInputs = {4}
  MaxDeposits = 4
CONSTRAINTS
  TradeWhileOnSale
INVARIANTS
  FullyBacked
  SalesConservation
PROPERTIES
  PublishedTermsFrozen
  ControlByConsent
