----------------------------- MODULE Governance -----------------------------
(***************************************************************************)
(* The protocol configuration of FaultPact and the methods that change it: *)
(* the sales pause, the protocol fee, the two-step hand-over of the owner, *)
(* treasury and guardian roles, the cooldown, bond, window and resolution  *)
(* settings, and the authorization of reporters                            *)
(* (src/contracts/FaultPact.py, __init__ and "Protocol governance").       *)
(*                                                                         *)
(* Every other component reads config; the values an owner tries are the   *)
(* *Inputs constants, so that a configuration of the model decides which   *)
(* settings move during a run.                                             *)
(***************************************************************************)
EXTENDS Ledger, Rates

CONSTANTS
  NoAccount,            \* the zero address
  Deployer,             \* the account that deploys the contract
  RoleCandidates,       \* accounts an owner proposes for a role
  ReporterCandidates,   \* accounts an owner authorizes to report
  MaxFeeBps,            \* MAX_PROTOCOL_FEE_BPS
  MinCooldown, MaxCooldown,
  MinWindow,            \* MIN_WINDOW
  MaxEvidenceWindow, MaxChallengeWindow, MaxChallengeEvidenceWindow,
  MaxResolutionTimeout, MaxSpan,
  MaxQuorum,            \* MAX_AUTHORITATIVE_EVIDENCE, the largest quorum
  FeeInputs, CooldownInputs, BondInputs, WindowInputs, QuorumInputs, SpanInputs

ASSUME GovernanceAssumption ==
  /\ NoAccount \notin Accounts
  /\ Deployer \in Accounts
  /\ RoleCandidates \cup ReporterCandidates \subseteq Accounts
  /\ MaxFeeBps \in 0 .. BpsDenom
  /\ FeeInputs \cup CooldownInputs \cup BondInputs \cup WindowInputs
       \cup QuorumInputs \cup SpanInputs \subseteq Nat

VARIABLES
  config,       \* the ProtocolConfig record
  authorized    \* the accounts whose authoritative reports count

governanceVars == <<config, authorized>>

Roles == {"owner", "treasury", "guardian"}

ConfigType ==
  [role : [Roles -> Accounts],
   pending : [Roles -> Accounts \cup {NoAccount}],
   salesPaused : BOOLEAN,
   feeBps : Nat, cooldown : Nat, reportBond : Nat, challengeBond : Nat,
   evidenceWindow : Nat, challengeWindow : Nat, challengeEvidenceWindow : Nat,
   quorum : Nat, timeout : Nat, span : Nat]

GovernanceTypeOK ==
  /\ config \in ConfigType
  /\ config.feeBps <= MaxFeeBps
  /\ authorized \in SUBSET Accounts

\* The bounds the setters and __init__ check.
FeeAllowed(fee) == fee <= MaxFeeBps

CooldownAllowed(seconds) == seconds \in MinCooldown .. MaxCooldown

WindowsAllowed(evw, chw, cew) ==
  /\ evw \in MinWindow .. MaxEvidenceWindow
  /\ chw \in MinWindow .. MaxChallengeWindow
  /\ cew \in MinWindow .. MaxChallengeEvidenceWindow

PolicyAllowed(quorum, timeout, span) ==
  /\ quorum \in 1 .. MaxQuorum
  /\ timeout \in MinWindow .. MaxResolutionTimeout
  /\ span \in 1 .. MaxSpan

\* __init__: the deployer becomes owner; treasury and guardian are arguments,
\* the zero address refused; the settings obey the bounds of the setters.
GovernanceSettings ==
  /\ config \in
       [role : [Roles -> RoleCandidates \cup {Deployer}],
        pending : {[r \in Roles |-> NoAccount]},
        salesPaused : {FALSE},
        feeBps : FeeInputs, cooldown : CooldownInputs,
        reportBond : BondInputs, challengeBond : BondInputs,
        evidenceWindow : WindowInputs, challengeWindow : WindowInputs,
        challengeEvidenceWindow : WindowInputs,
        quorum : QuorumInputs, timeout : WindowInputs, span : SpanInputs]
  /\ config.role["owner"] = Deployer
  /\ FeeAllowed(config.feeBps)
  /\ CooldownAllowed(config.cooldown)
  /\ WindowsAllowed(config.evidenceWindow, config.challengeWindow,
                    config.challengeEvidenceWindow)
  /\ PolicyAllowed(config.quorum, config.timeout, config.span)

GovernanceInit == GovernanceSettings /\ authorized = {}

IsOwner(a) == config.role["owner"] = a

\* pause_new_sales: the owner or the guardian.
PauseNewSales(caller) ==
  /\ caller \in {config.role["owner"], config.role["guardian"]}
  /\ config' = [config EXCEPT !.salesPaused = TRUE]
  /\ UNCHANGED authorized

\* resume_new_sales: the owner alone.
ResumeNewSales(caller) ==
  /\ IsOwner(caller)
  /\ config' = [config EXCEPT !.salesPaused = FALSE]
  /\ UNCHANGED authorized

\* set_protocol_fee
SetProtocolFee(caller, fee) ==
  /\ IsOwner(caller)
  /\ FeeAllowed(fee)
  /\ config' = [config EXCEPT !.feeBps = fee]
  /\ UNCHANGED authorized

\* transfer_protocol_ownership, set_treasury, set_guardian: the owner proposes
\* a holder (never the zero address); a later proposal replaces an earlier one.
ProposeRole(caller, role, candidate) ==
  /\ IsOwner(caller)
  /\ config' = [config EXCEPT !.pending[role] = candidate]
  /\ UNCHANGED authorized

\* accept_protocol_ownership, accept_treasury, accept_guardian: the proposed
\* account takes the role itself and the proposal is cleared.
\* (Mutant: the proposal stays.)
AcceptRoleAgain(caller, role) ==
  /\ caller = config.pending[role]
  /\ config' = [config EXCEPT !.role[role] = caller]
  /\ UNCHANGED authorized
AcceptRole(caller, role) ==
  /\ caller = config.pending[role]
  /\ config' = [config EXCEPT !.role[role] = caller, !.pending[role] = NoAccount]
  /\ UNCHANGED authorized

\* set_withdrawal_cooldown
SetWithdrawalCooldown(caller, seconds) ==
  /\ IsOwner(caller)
  /\ CooldownAllowed(seconds)
  /\ config' = [config EXCEPT !.cooldown = seconds]
  /\ UNCHANGED authorized

\* set_bonds
SetBonds(caller, reportBond, challengeBond) ==
  /\ IsOwner(caller)
  /\ config' = [config EXCEPT !.reportBond = reportBond, !.challengeBond = challengeBond]
  /\ UNCHANGED authorized

\* set_incident_windows
SetIncidentWindows(caller, evw, chw, cew) ==
  /\ IsOwner(caller)
  /\ WindowsAllowed(evw, chw, cew)
  /\ config' = [config EXCEPT !.evidenceWindow = evw, !.challengeWindow = chw,
                              !.challengeEvidenceWindow = cew]
  /\ UNCHANGED authorized

\* set_resolution_policy
SetResolutionPolicy(caller, quorum, timeout, span) ==
  /\ IsOwner(caller)
  /\ PolicyAllowed(quorum, timeout, span)
  /\ config' = [config EXCEPT !.quorum = quorum, !.timeout = timeout, !.span = span]
  /\ UNCHANGED authorized

\* authorize_reporter
AuthorizeReporter(caller, reporter) ==
  /\ IsOwner(caller)
  /\ authorized' = authorized \cup {reporter}
  /\ UNCHANGED config

\* revoke_reporter
RevokeReporter(caller, reporter) ==
  /\ IsOwner(caller)
  /\ authorized' = authorized \ {reporter}
  /\ UNCHANGED config

\* Any method of the protocol's governance, by any caller.
GovernanceStep ==
  \E caller \in Accounts :
    \/ PauseNewSales(caller)
    \/ ResumeNewSales(caller)
    \/ \E fee \in FeeInputs : SetProtocolFee(caller, fee)
    \/ \E role \in Roles, a \in RoleCandidates : ProposeRole(caller, role, a)
    \/ \E role \in Roles : AcceptRole(caller, role)
    \/ \E seconds \in CooldownInputs : SetWithdrawalCooldown(caller, seconds)
    \/ \E rb, cb \in BondInputs : SetBonds(caller, rb, cb)
    \/ \E evw, chw, cew \in WindowInputs : SetIncidentWindows(caller, evw, chw, cew)
    \/ \E quorum \in QuorumInputs, timeout \in WindowInputs, span \in SpanInputs :
         SetResolutionPolicy(caller, quorum, timeout, span)
    \/ \E a \in ReporterCandidates : AuthorizeReporter(caller, a) \/ RevokeReporter(caller, a)
=============================================================================
