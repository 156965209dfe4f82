\* Two coverages and two claims over one incident that nobody has to decide: what
\* is open to anyone is called, the rest may stop for ever.
SPECIFICATION QuietLiveSpec
CHECK_DEADLOCK FALSE
CONSTANTS
  alice = alice
  bob = bob
  carol = carol
  none = none
  Capital = 4
  MaxLoad = 9
  Accounts = {alice}
  EOAs = {alice}
  NoAccount = none
  Deployer = alice
  RoleCandidates = {}
  ReporterCandidates = {}
  OwnerCandidates = {}
  MaxTime = 4
  BpsDenom = 2
  YearSeconds = 1
  MinPremium = 1
  Unknown = none
  MaxFeeBps = 1
  MinCooldown = 1
  MaxCooldown = 2
  MinWindow = 1
  MaxEvidenceWindow = 2
  MaxChallengeWindow = 2
  MaxChallengeEvidenceWindow = 2
  MaxResolutionTimeout = 2
  MaxSpan = 2
  MaxQuorum = 2
  FeeInputs = {1}
  CooldownInputs = {1}
  BondInputs = {0}
  WindowInputs = {1}
  QuorumInputs = {1}
  SpanInputs = {1}
  Providers = {1}
  Services = {1}
  Pacts = {1}
  ServiceProvider <- MCServiceProvider
  PactService <- MCPactService
  TermsInputs <- MCTermsInputs
  Coverages = {1, 2}
  CapitalInputs = {}
  LimitInputs = {2}
  DurationInputs = {2}
  MaxPremiumInputs = {9}
  PaymentInputs = {2}
  MaxDeposits = 4
  IncidentIds = {1}
  ObservedLags = {0}
  ObservedSpans = {1}
  BondPayments = {0}
  FindingInputs <- MCFindingInputs
  Claims = {1, 2}
  MaxClaimsPerIncident = 2
PROPERTIES
  EveryIncidentEnds
  EveryReserveFreed
  ImplementsPromise
