\* Reports of two reporters that disagree, for incidents that ask for one or for
\* two of them, among items that do not count, a revocation and a challenge; beside a
\* long text a prompt has room for one report, not for two.
SPECIFICATION HearSpec
CHECK_DEADLOCK FALSE
CONSTANTS
  alice = bob
  bob = bob
  carol = carol
  none = none
  Accounts = {bob, carol}
  EOAs = {}
  NoAccount = none
  Deployer = bob
  RoleCandidates = {}
  ReporterCandidates = {bob}
  OwnerCandidates = {}
  MaxTime = 4
  BpsDenom = 2
  YearSeconds = 1
  MinPremium = 1
  Unknown = none
  MaxFeeBps = 1
  MinCooldown = 1
  MaxCooldown = 2
  MinWindow = 1
  MaxEvidenceWindow = 2
  MaxChallengeWindow = 2
  MaxChallengeEvidenceWindow = 2
  MaxResolutionTimeout = 2
  MaxSpan = 2
  MaxQuorum = 2
  FeeInputs = {1}
  CooldownInputs = {1}
  BondInputs = {0}
  WindowInputs = {1}
  QuorumInputs = {1, 2}
  SpanInputs = {1}
  Providers = {1}
  Services = {1}
  Pacts = {}
  ServiceProvider <- MCServiceProvider
  PactService <- MCPactService
  TermsInputs <- MCTermsInputs
  IncidentIds = {1}
  ObservedLags = {0}
  ObservedSpans = {1}
  BondPayments = {0}
  FindingInputs <- MCFindingInputs
  MaxAuthoritative = 2
  MaxSupplemental = 1
  MaxChallengeEvidence = 1
  MaxPerReporter = 2
  MaxPerSubmitter = 1
  MaxRead = 1
  MaxPrompt = 5
  PromptRest = 1
  EntrySizes = {1, 4}
  StatusSize = 1
  ProseSizes = {1}
  MaxItems = 3
  NoReport = none
  ReportInputs <- MCReportInputs
CONSTRAINTS
  FewItems
  OneOther
  Plain
INVARIANTS
  QuorumBehindDecision
  QuorumIsHeard
PROPERTIES
  EvidenceStands
  HearingIsDispute
