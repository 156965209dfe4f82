\* Coverages, incidents and claims up to MaxLoad, with every interleaving of sales,
\* capital moves, listing changes, hand-overs, disputes, timeouts and settlements; or
\* one incident while the bonds and the windows change.
SPECIFICATION MarketSpec
CHECK_DEADLOCK FALSE
CONSTANTS
  alice = alice
  bob = bob
  carol = carol
  none = none
  Capital = 6
  MaxLoad = 3
  Accounts = {alice, bob}
  EOAs = {}
  NoAccount = none
  Deployer = alice
  RoleCandidates = {}
  ReporterCandidates = {}
  OwnerCandidates = {bob}
  MaxTime = 4
  BpsDenom = 2
  YearSeconds = 1
  MinPremium = 1
  Unknown = none
  MaxFeeBps = 1
  MinCooldown = 1
  MaxCooldown = 2
  MinWindow = 1
  MaxEvidenceWindow = 2
  MaxChallengeWindow = 2
  MaxChallengeEvidenceWindow = 2
  MaxResolutionTimeout = 2
  MaxSpan = 2
  MaxQuorum = 2
  FeeInputs = {1}
  CooldownInputs = {1}
  BondInputs = {0, 1}
  WindowInputs = {1, 2}
  QuorumInputs = {1}
  SpanInputs = {1}
  Providers = {1}
  Services = {1}
  Pacts = {1}
  ServiceProvider <- MCServiceProvider
  PactService <- MCPactService
  TermsInputs <- MCTwoTerms
  Coverages = {1, 2}
  CapitalInputs = {3}
  LimitInputs = {3}
  DurationInputs = {2}
  MaxPremiumInputs = {9}
  PaymentInputs = {3}
  MaxDeposits = 6
  IncidentIds = {1, 2}
  ObservedLags = {0}
  ObservedSpans = {1}
  BondPayments = {1}
  FindingInputs <- MCFindingInputs
  Claims = {1, 2}
  MaxClaimsPerIncident = 2
CONSTRAINTS
  WithinBound
INVARIANTS
  WindowsHonoured
  BooksAgree
  NobodyRefused
  PaidOnlyIfEntitled
  Conservation
PROPERTIES
  DecisionsStand
