------------------------------ MODULE Incidents ------------------------------
(***************************************************************************)
(* The life of an incident: opened with a report bond, sealed after its    *)
(* evidence window, decided, possibly challenged once with a bond, and     *)
(* finalized, by a decision or by the timeout (src/contracts/FaultPact.py, *)
(* "Incident engine", _apply_resolution, resolve_incident, "Challenge      *)
(* layer").                                                                *)
(*                                                                         *)
(* What the language models answer is outside the contract's control: a    *)
(* decision is any finding in FindingInputs with an interval inside the    *)
(* observed one, and an adjudication that fails reverts its transaction,   *)
(* which is no step.  Evidence itself (its submission, caps and the quorum *)
(* behind a finding) is not part of this module.                           *)
(***************************************************************************)
EXTENDS Registry

CONSTANTS
  IncidentIds,      \* incident ids
  ObservedLags,     \* how long before now an observed interval ended
  ObservedSpans,    \* how long it lasted
  BondPayments,     \* values sent with a report or a challenge
  FindingInputs     \* findings of the adjudication, their interval left open

ASSUME IncidentsAssumption ==
  /\ IncidentIds \subseteq Nat /\ IsFiniteSet(IncidentIds)
  /\ ObservedLags \cup ObservedSpans \cup BondPayments \subseteq Nat
  /\ \A f \in FindingInputs : f \in FactsType

VARIABLES
  incident,     \* incident[i]: the Incident record
  resolution,   \* resolution[i]: the Resolution record
  challenge,    \* challenge[i]: the Challenge record
  faultStats    \* faultStats[p]: the incident part of ProviderStats

incidentVars == <<incident, resolution, challenge, faultStats>>

IncidentStatus ==
  {"NONE", "OPEN", "EVIDENCE_SEALED", "PRELIMINARY", "CHALLENGED",
   "CHALLENGE_RESOLVED", "FINALIZED"}

IncidentType ==
  [status : IncidentStatus, service : Services \cup {0},
   opener : Accounts \cup {NoAccount}, start : Nat, end : Nat,
   openedAt : Nat, resolvedAt : Nat, finalizedAt : Nat,
   evidenceDeadline : Nat, challengeDeadline : Nat, challengeEvidenceDeadline : Nat,
   resolutionDeadline : Nat,
   challengeWindow : Nat, challengeEvidenceWindow : Nat, timeout : Nat, quorum : Nat,
   reportBond : Nat, challengeBond : Nat,
   bondRefunded : BOOLEAN, acknowledged : BOOLEAN, rounds : Nat]

ResolutionType ==
  [exists : BOOLEAN, finalized : BOOLEAN, facts : FactsType, byChallenge : BOOLEAN]

ChallengeType ==
  [exists : BOOLEAN, challenger : Accounts \cup {NoAccount}, bond : Nat,
   resolved : BOOLEAN, changed : BOOLEAN, bondRefunded : BOOLEAN, original : FactsType]

\* What a finalized incident counts as: its fault domain when it is confirmed.
Outcomes == {"INCONCLUSIVE", "PROVIDER", "CHAIN", "CUSTOMER", "THIRD_PARTY", "SHARED"}

IncidentsTypeOK ==
  /\ incident \in [IncidentIds -> IncidentType]
  /\ resolution \in [IncidentIds -> ResolutionType]
  /\ challenge \in [IncidentIds -> ChallengeType]
  /\ faultStats \in [Providers -> [total : Nat, by : [Outcomes -> Nat]]]

\* The resolution finalize_inconclusive_timeout writes.
TimeoutFacts ==
  [status |-> "INCONCLUSIVE", fault |-> "UNKNOWN", scope |-> "", start |-> 0, end |-> 0,
   observed |-> [k \in Clauses |-> Unknown], chainFailure |-> FALSE,
   sufficiency |-> "INSUFFICIENT"]

NoIncident ==
  [status |-> "NONE", service |-> 0, opener |-> NoAccount, start |-> 0, end |-> 0,
   openedAt |-> 0, resolvedAt |-> 0, finalizedAt |-> 0,
   evidenceDeadline |-> 0, challengeDeadline |-> 0, challengeEvidenceDeadline |-> 0,
   resolutionDeadline |-> 0,
   challengeWindow |-> 0, challengeEvidenceWindow |-> 0, timeout |-> 0, quorum |-> 0,
   reportBond |-> 0, challengeBond |-> 0,
   bondRefunded |-> FALSE, acknowledged |-> FALSE, rounds |-> 0]

NoResolution ==
  [exists |-> FALSE, finalized |-> FALSE, facts |-> TimeoutFacts, byChallenge |-> FALSE]

NoChallenge ==
  [exists |-> FALSE, challenger |-> NoAccount, bond |-> 0, resolved |-> FALSE,
   changed |-> FALSE, bondRefunded |-> FALSE, original |-> TimeoutFacts]

IncidentsInit ==
  /\ incident = [i \in IncidentIds |-> NoIncident]
  /\ resolution = [i \in IncidentIds |-> NoResolution]
  /\ challenge = [i \in IncidentIds |-> NoChallenge]
  /\ faultStats = [p \in Providers |-> [total |-> 0, by |-> [o \in Outcomes |-> 0]]]

-----------------------------------------------------------------------------
(* Helpers *)

UsedIncidents == {i \in IncidentIds : incident[i].status # "NONE"}

IncidentProvider(i) == ServiceProvider[incident[i].service]

\* What _validate_resolution_schema, _validate_fact_support and the format of an
\* authoritative report leave of the models' answers: behind everything but an
\* inconclusive finding, sufficient reports of a proper interval and scope (module
\* Evidence says which), and an interval inside the observed one.
Supported(f) ==
  /\ f.start <= f.end
  /\ f.status # "INCONCLUSIVE" =>
       f.sufficiency = "SUFFICIENT" /\ f.scope # "" /\ f.start < f.end

Placed(g, s, e) == [g EXCEPT !.start = s, !.end = e]

Findings(i) ==
  {f \in {Placed(g, s, e) :
            g \in FindingInputs, s, e \in incident[i].start .. incident[i].end} :
     Supported(f)}

\* The counters _finalize_stored_incident raises for a decision.
CountOutcome(st, facts) ==
  LET counted(o) == \/ facts.status = "INCONCLUSIVE" /\ o = "INCONCLUSIVE"
                    \/ facts.status = "INCIDENT_CONFIRMED" /\ o = facts.fault
  IN  [total |-> st.total + 1,
       by |-> [o \in Outcomes |-> IF counted(o) THEN st.by[o] + 1 ELSE st.by[o]]]

\* What is still to be paid back of a report bond.
\* (Mutant: the bond in force now.)
CurrentBond(inc) == config.reportBond
ReportBondDue(inc) == IF inc.bondRefunded THEN 0 ELSE inc.reportBond

\* _finalize_stored_incident: with the decision facts, from the credits cr.  The
\* report bond goes back to the opener, whatever was decided.
FinalizeStored(i, inc, res, cr) ==
  /\ resolution' = [resolution EXCEPT ![i] = [res EXCEPT !.finalized = TRUE]]
  /\ incident' = [incident EXCEPT ![i] =
                    [inc EXCEPT !.status = "FINALIZED", !.finalizedAt = now,
                                !.bondRefunded = inc.bondRefunded \/ inc.reportBond > 0]]
  /\ credits' = Credit(cr, inc.opener, ReportBondDue(inc))
  /\ faultStats' = [faultStats EXCEPT ![ServiceProvider[inc.service]] =
                      CountOutcome(@, res.facts)]

-----------------------------------------------------------------------------
(* Incident engine *)

\* open_incident (payable): the windows, bonds and the quorum in force now are
\* written into the incident; the observed interval is over.
OpenIncident(opener, i, s, start, end, payment) ==
  /\ IsNext(i, IncidentIds, UsedIncidents)
  /\ service[s] # "NONE"
  /\ start \in Nat /\ start < end /\ end <= now
  /\ end - start <= config.span
  /\ payment >= config.reportBond
  /\ WithinHorizon(now + config.evidenceWindow + config.timeout)
  /\ incident' = [incident EXCEPT ![i] =
       [NoIncident EXCEPT
          !.status = "OPEN", !.service = s, !.opener = opener,
          !.start = start, !.end = end, !.openedAt = now,
          !.evidenceDeadline = now + config.evidenceWindow,
          !.resolutionDeadline = now + config.evidenceWindow + config.timeout,
          !.challengeWindow = config.challengeWindow,
          !.challengeEvidenceWindow = config.challengeEvidenceWindow,
          !.timeout = config.timeout, !.quorum = config.quorum,
          !.reportBond = config.reportBond, !.challengeBond = config.challengeBond]]
  /\ credits' = Credit(credits, opener, payment - config.reportBond)
  /\ balance' = balance + payment
  /\ UNCHANGED <<resolution, challenge, faultStats>>

\* acknowledge_incident: by the provider.
AcknowledgeIncident(caller, i) ==
  /\ incident[i].status = "OPEN"
  /\ Controls(caller, IncidentProvider(i))
  /\ incident' = [incident EXCEPT ![i].acknowledged = TRUE]
  /\ UNCHANGED <<resolution, challenge, faultStats, credits, balance>>

\* seal_evidence_window
SealEvidenceWindow(i) ==
  /\ incident[i].status = "OPEN"
  /\ now >= incident[i].evidenceDeadline
  /\ incident' = [incident EXCEPT ![i].status = "EVIDENCE_SEALED"]
  /\ UNCHANGED <<resolution, challenge, faultStats, credits, balance>>

\* resolve_incident, when the adjudication reaches the decision facts.
ResolveIncident(i, facts) ==
  /\ incident[i].status \in {"OPEN", "EVIDENCE_SEALED"}
  /\ incident[i].status = "OPEN" => now >= incident[i].evidenceDeadline
  /\ WithinHorizon(now + incident[i].challengeWindow)
  /\ resolution' = [resolution EXCEPT ![i] =
                      [exists |-> TRUE, finalized |-> FALSE, facts |-> facts,
                       byChallenge |-> FALSE]]
  /\ incident' = [incident EXCEPT ![i].status = "PRELIMINARY", ![i].resolvedAt = now,
                    ![i].challengeDeadline = now + incident[i].challengeWindow]
  /\ UNCHANGED <<challenge, faultStats, credits, balance>>

-----------------------------------------------------------------------------
(* Challenge layer *)

\* challenge_incident (payable): once per incident, before the deadline.
ChallengeIncident(challenger, i, payment) ==
  LET inc == incident[i]
      evidenceDeadline == now + inc.challengeEvidenceWindow
  IN
  /\ inc.status = "PRELIMINARY"
  /\ now < inc.challengeDeadline
  /\ inc.rounds < 1
  /\ payment >= inc.challengeBond
  /\ resolution[i].exists
  /\ WithinHorizon(evidenceDeadline + inc.timeout)
  /\ challenge' = [challenge EXCEPT ![i] =
                     [exists |-> TRUE, challenger |-> challenger, bond |-> inc.challengeBond,
                      resolved |-> FALSE, changed |-> FALSE, bondRefunded |-> FALSE,
                      original |-> resolution[i].facts]]
  /\ incident' = [incident EXCEPT ![i].status = "CHALLENGED", ![i].rounds = @ + 1,
                    ![i].challengeEvidenceDeadline = evidenceDeadline,
                    ![i].resolutionDeadline = evidenceDeadline + inc.timeout]
  /\ credits' = Credit(credits, challenger, payment - inc.challengeBond)
  /\ balance' = balance + payment
  /\ UNCHANGED <<resolution, faultStats>>

\* The challenge after its bond has gone wherever it goes.
Settled(ch, changed) ==
  [ch EXCEPT !.resolved = TRUE, !.changed = changed,
             !.bondRefunded = ch.bondRefunded \/ ch.bond > 0]

BondDue(ch) == IF ch.bondRefunded THEN 0 ELSE ch.bond

\* resolve_challenge, when the adjudication reaches the decision facts: the
\* challenger gets the bond back if they differ from the original ones.
ResolveChallenge(i, facts) ==
  LET ch == challenge[i]
      changed == facts # ch.original
  IN
  /\ incident[i].status = "CHALLENGED"
  /\ now >= incident[i].challengeEvidenceDeadline
  /\ ch.exists /\ ~ch.resolved
  /\ resolution' = [resolution EXCEPT ![i] =
                      [exists |-> TRUE, finalized |-> FALSE, facts |-> facts,
                       byChallenge |-> TRUE]]
  /\ challenge' = [challenge EXCEPT ![i] = Settled(ch, changed)]
  /\ credits' = Credit(credits, IF changed THEN ch.challenger ELSE config.role["treasury"],
                       BondDue(ch))
  /\ incident' = [incident EXCEPT ![i].status = "CHALLENGE_RESOLVED"]
  /\ UNCHANGED <<faultStats, balance>>

\* _can_finalize
\* (Mutant: a preliminary decision at once.)
CanFinalizeAtOnce(i) ==
  /\ resolution[i].exists /\ ~resolution[i].finalized
  /\ incident[i].status \in {"PRELIMINARY", "CHALLENGE_RESOLVED"}
CanFinalize(i) ==
  /\ resolution[i].exists
  /\ ~resolution[i].finalized
  /\ \/ incident[i].status = "PRELIMINARY" /\ now >= incident[i].challengeDeadline
     \/ incident[i].status = "CHALLENGE_RESOLVED"

\* finalize_incident: by anyone.
FinalizeIncident(i) ==
  /\ CanFinalize(i)
  /\ FinalizeStored(i, incident[i], resolution[i], credits)
  /\ UNCHANGED <<challenge, balance>>

\* The common guard of finalize_inconclusive_timeout.
\* (Mutant: a challenged incident never times out.)
TimedOutUnchallenged(i) ==
  /\ incident[i].status \in {"OPEN", "EVIDENCE_SEALED"}
  /\ now >= incident[i].resolutionDeadline
TimedOut(i) ==
  /\ incident[i].status \notin {"NONE", "FINALIZED"}
  /\ now >= incident[i].resolutionDeadline

\* finalize_inconclusive_timeout of an incident nobody decided: by anyone.
\* (Mutant: of a decided one as well.)
TimeoutDecided(i) ==
  /\ TimedOut(i)
  /\ FinalizeStored(i, incident[i], [NoResolution EXCEPT !.exists = TRUE], credits)
  /\ UNCHANGED <<challenge, balance>>
TimeoutUndecided(i) ==
  /\ TimedOut(i)
  /\ ~resolution[i].exists
  /\ FinalizeStored(i, incident[i], [NoResolution EXCEPT !.exists = TRUE], credits)
  /\ UNCHANGED <<challenge, balance>>

\* finalize_inconclusive_timeout of a challenge nobody decided: the decision
\* becomes inconclusive and the bond goes to the treasury.
TimeoutChallenge(i) ==
  /\ TimedOut(i)
  /\ resolution[i].exists
  /\ incident[i].status = "CHALLENGED"
  /\ challenge[i].exists /\ ~challenge[i].resolved
  /\ challenge' = [challenge EXCEPT ![i] = Settled(@, FALSE)]
  /\ FinalizeStored(i, incident[i],
                    [NoResolution EXCEPT !.exists = TRUE, !.byChallenge = TRUE],
                    Credit(credits, config.role["treasury"], BondDue(challenge[i])))
  /\ UNCHANGED balance

\* What happens to an incident before its timeout.
HandlingStep ==
  /\ \E i \in IncidentIds :
       \/ \E opener \in Accounts, s \in Services, lag \in ObservedLags,
             span \in ObservedSpans, payment \in BondPayments :
            OpenIncident(opener, i, s, now - lag - span, now - lag, payment)
       \/ \E caller \in Accounts : AcknowledgeIncident(caller, i)
       \/ SealEvidenceWindow(i)
       \/ \E facts \in Findings(i) : ResolveIncident(i, facts) \/ ResolveChallenge(i, facts)
       \/ \E challenger \in Accounts, payment \in BondPayments :
            ChallengeIncident(challenger, i, payment)
       \/ FinalizeIncident(i)
  /\ UNCHANGED now

\* finalize_inconclusive_timeout, but for the claims it settles.
TimeoutStep(i) == (TimeoutUndecided(i) \/ TimeoutChallenge(i)) /\ UNCHANGED now

-----------------------------------------------------------------------------
(* The component on its own: no claim hangs on an incident. *)

disputeVars == <<ledgerVars, governanceVars, registryVars, incidentVars>>

DisputeInit == LedgerInit /\ GovernanceInit /\ RegistryInit /\ IncidentsInit

DisputeNext ==
  \/ Tick /\ UNCHANGED <<governanceVars, registryVars, incidentVars>>
  \/ /\ \E a \in Accounts : \E amount \in 1 .. credits[a] : WithdrawCredit(a, amount)
     /\ UNCHANGED <<governanceVars, registryVars, incidentVars>>
  \/ GovernanceStep /\ UNCHANGED <<ledgerVars, registryVars, incidentVars>>
  \/ RegistryStep /\ UNCHANGED <<ledgerVars, governanceVars, incidentVars>>
  \/ /\ HandlingStep \/ \E i \in IncidentIds : TimeoutStep(i)
     /\ UNCHANGED <<governanceVars, registryVars>>

DisputeSpec == DisputeInit /\ [][DisputeNext]_disputeVars

-----------------------------------------------------------------------------
(* Properties *)

Final(i) == incident[i].status = "FINALIZED"

\* Report bonds are held until their incident is final, challenge bonds until
\* the challenge is resolved.
ReportBondsHeld ==
  [i \in IncidentIds |->
     IF incident[i].status \in {"NONE", "FINALIZED"} THEN 0 ELSE incident[i].reportBond]
ChallengeBondsHeld ==
  [i \in IncidentIds |->
     IF challenge[i].exists /\ ~challenge[i].resolved THEN challenge[i].bond ELSE 0]

\* No window is cut short: a decision waits for the evidence deadline, an
\* unchallenged one stands for its whole challenge window before it is final
\* (the timeout does not overtake it), a challenge is not decided before its
\* own evidence deadline.
WindowsHonoured ==
  \A i \in IncidentIds :
    LET inc == incident[i] IN
    /\ inc.resolvedAt > 0 => inc.resolvedAt >= inc.evidenceDeadline
    /\ Final(i) /\ inc.resolvedAt > 0 /\ ~challenge[i].exists =>
         inc.finalizedAt >= inc.resolvedAt + inc.challengeWindow
    /\ challenge[i].resolved => now >= inc.challengeEvidenceDeadline

\* A decision, once made, changes only while a challenge is open, so at most
\* once, and no step reopens a final incident.
DecisionsStand ==
  [][\A i \in IncidentIds :
       /\ resolution[i].exists /\ resolution'[i].facts # resolution[i].facts =>
            incident[i].status = "CHALLENGED" /\ incident'[i].status # "CHALLENGED"
       /\ Final(i) => UNCHANGED <<incident[i], resolution[i], challenge[i]>>]_incidentVars

\* Every incident ends, even if no adjudication ever succeeds: the timeout is
\* open to anyone (docs/PHASE_0_1_HARDENING.md, F-05).
EveryIncidentEnds ==
  \A i \in IncidentIds : incident[i].status # "NONE" ~> Final(i)
=============================================================================
