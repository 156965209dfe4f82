--------------------------- MODULE EvidenceProofs ---------------------------
(***************************************************************************)
(* Hearings for any number of accounts, incidents and items of evidence:   *)
(* what the models answer on the evidence is what Incidents expects of     *)
(* them, a decision has its quorum of reporters for good, and a report of  *)
(* a quorum can be decided on.                                             *)
(***************************************************************************)
EXTENDS Evidence, IncidentProofs, SequenceTheorems, FiniteSetTheorems

\* A report that passed _validate_authoritative_payload.
Scoped(r) == r.scope # ""
Proper(r) == r.start < r.end /\ Scoped(r)

Valid(item) == item.report # NoReport => Proper(item.report)

EvidenceTypes == evidence \in [IncidentIds -> Seq(ItemType)]

ItemsValid == \A i \in IncidentIds : \A n \in DOMAIN evidence[i] : Valid(evidence[i][n])

\* No incident asks for fewer than one reporter.
QuorumSet ==
  /\ config.quorum >= 1
  /\ \A i \in IncidentIds : incident[i].status # "NONE" => incident[i].quorum >= 1

\* Where a step of a hearing starts from.
HearingTyped == DisputeInv /\ EvidenceTypes /\ ItemsValid /\ QuorumSet

-----------------------------------------------------------------------------
(* What the models answer *)

LEMMA TimeoutIs ==
  TimeoutFacts \in FactsType /\ TimeoutFacts.status = "INCONCLUSIVE"
<1>1. TimeoutFacts \in FactsType
  BY EvidenceAssumption, IncidentsAssumption
<1>2. TimeoutFacts.status = "INCONCLUSIVE"
  BY Zenon DEF TimeoutFacts
<1> QED
  BY <1>1, <1>2

LEMMA PlacedIs ==
  ASSUME NEW g \in FactsType, NEW s \in Nat, NEW e \in Nat
  PROVE  /\ Placed(g, s, e) \in FactsType
         /\ Placed(g, s, e).start = s /\ Placed(g, s, e).end = e
         /\ Placed(g, s, e).status = g.status
BY DEF Placed, FactsType

\* Nobody stands behind a fact that no report states.
LEMMA SomebodyStates ==
  ASSUME NEW i, NEW seen, NEW key, NEW facts, NEW quorum \in Nat, quorum >= 1,
         ReportersBehind(i, seen, key, facts) >= quorum
  PROVE  \E n \in Supporting(i, seen, key, facts) : TRUE
<1> SUFFICES ASSUME Supporting(i, seen, key, facts) = {}
             PROVE  FALSE
  OBVIOUS
<1>1. {evidence[i][n].by : n \in Supporting(i, seen, key, facts)} = {}
  OBVIOUS
<1>2. ReportersBehind(i, seen, key, facts) = 0
  BY <1>1, FS_EmptySet DEF ReportersBehind
<1> QED
  BY <1>2

LEMMA SelectedAreItems ==
  ASSUME NEW i
  PROVE  Selected(i) \subseteq DOMAIN evidence[i]
BY DEF Selected

\* A decision for which every fact is reported is a finding: reports have a scope
\* and an interval, and at least one states those of the decision.
LEMMA DecisionIsFinding ==
  ASSUME HearingTyped, NEW i \in IncidentIds, incident[i].status # "NONE",
         NEW facts \in Decisions(i)
  PROVE  facts \in Findings(i)
<1>1. incident[i].quorum \in Nat /\ incident[i].quorum >= 1
  BY DEF HearingTyped, QuorumSet, DisputeInv, DisputeTypes, IncidentType
<1>2. incident[i].start \in Nat /\ incident[i].end \in Nat
  BY DEF HearingTyped, DisputeInv, DisputeTypes, IncidentType
<1> PICK seen \in SUBSET Selected(i) : facts \in Adjudicated(i, seen)
  BY DEF Decisions, Fetched
<1> PICK g \in Answers(i) : facts = Reconciled(i, seen, g)
  BY DEF Adjudicated
<1>3. SupportedFacts(i, seen, facts)
  BY DEF Adjudicated
<1> PICK h \in FindingInputs, s \in incident[i].start .. incident[i].end,
         e \in incident[i].start .. incident[i].end : g = Placed(h, s, e)
  BY DEF Answers
<1>4. h \in FactsType /\ s \in Nat /\ e \in Nat
  BY <1>2, IncidentsAssumption
<1>5. g.start = s /\ g.end = e /\ s <= e
  <2>1. Placed(h, s, e).start = s /\ Placed(h, s, e).end = e
    BY ONLY <1>4, PlacedIs
  <2>2. g.start <= g.end
    BY DEF Answers
  <2>3. g = Placed(h, s, e)
    OBVIOUS
  <2> QED
    BY ONLY <2>1, <2>2, <2>3
<1> PICK f \in FindingInputs : facts = Placed(f, s, e)
  BY <1>5, EvidenceAssumption DEF Reconciled
<1>6. facts.start = s /\ facts.end = e
  <2>1. f \in FactsType
    BY IncidentsAssumption
  <2>2. Placed(f, s, e).start = s /\ Placed(f, s, e).end = e
    BY ONLY <1>4, <2>1, PlacedIs
  <2>3. facts = Placed(f, s, e)
    OBVIOUS
  <2> QED
    BY ONLY <2>2, <2>3
<1>7. ASSUME facts.status # "INCONCLUSIVE"
      PROVE  facts.sufficiency = "SUFFICIENT" /\ Scoped(facts) /\ facts.start < facts.end
  <2>1. /\ facts.sufficiency = "SUFFICIENT"
        /\ \A key \in Material(facts) :
             ReportersBehind(i, seen, key, facts) >= incident[i].quorum
    BY <1>3, <1>7 DEF SupportedFacts
  <2>2. "scope" \in Material(facts) /\ "incident_interval" \in Material(facts)
    BY DEF Material
  <2>3. \A n \in seen : evidence[i][n].report # NoReport => Proper(evidence[i][n].report)
    BY SelectedAreItems DEF HearingTyped, ItemsValid, Valid
  <2>4. Scoped(facts)
    <3> PICK n \in Supporting(i, seen, "scope", facts) : TRUE
      BY <1>1, <2>1, <2>2, SomebodyStates
    <3>1. n \in seen /\ evidence[i][n].report # NoReport
          /\ States(evidence[i][n].report, "scope", facts)
      BY DEF Supporting
    <3>2. evidence[i][n].report.scope = facts.scope
      BY <3>1 DEF States
    <3> QED
      BY <2>3, <3>1, <3>2, Zenon DEF Proper, Scoped
  <2>5. facts.start < facts.end
    <3> PICK n \in Supporting(i, seen, "incident_interval", facts) : TRUE
      BY <1>1, <2>1, <2>2, SomebodyStates
    <3>1. n \in seen /\ evidence[i][n].report # NoReport
          /\ States(evidence[i][n].report, "incident_interval", facts)
      BY DEF Supporting
    <3>2. evidence[i][n].report.start = facts.start /\ evidence[i][n].report.end = facts.end
      BY <3>1 DEF States
    <3> QED
      BY <2>3, <3>1, <3>2 DEF Proper
  <2> QED
    BY <2>1, <2>4, <2>5
<1>8. Supported(facts)
  BY <1>5, <1>6, <1>7, Zenon DEF Supported, Scoped
<1> QED
  BY <1>8 DEF Findings
-----------------------------------------------------------------------------
(* Steps of a hearing are steps of Incidents *)

\* A step that submits evidence changes nothing else.
LEMMA SubmissionsOnly ==
  ASSUME NEW i, SubmissionStep(i)
  PROVE  UNCHANGED <<incidentVars, credits, balance>>
BY DEF SubmissionStep, SubmitEvidence, SubmitChallengeEvidence, AttachIncidentReport,
       SubmitProviderStatement

LEMMA IncidentStepIs ==
  ASSUME HearingTyped, NEW i \in IncidentIds, IncidentStep(i), UNCHANGED now
  PROVE  HandlingStep \/ TimeoutStep(i)
<1>1. CASE \E opener \in Accounts, s \in Services, lag \in ObservedLags,
              span \in ObservedSpans, payment \in BondPayments :
             OpenWithEvidence(opener, i, s, now - lag - span, now - lag, payment)
  BY <1>1, Zenon DEF OpenWithEvidence, HandlingStep
<1>2. CASE \E challenger \in Accounts, payment \in BondPayments :
             ChallengeWithEvidence(challenger, i, payment)
  BY <1>2, Zenon DEF ChallengeWithEvidence, HandlingStep
<1>3. CASE HearIncident(i) \/ HearChallenge(i)
  <2>1. incident[i].status # "NONE"
    BY <1>3 DEF HearIncident, HearChallenge
  <2>2. \E facts \in Decisions(i) : ResolveIncident(i, facts) \/ ResolveChallenge(i, facts)
    BY <1>3, Zenon DEF HearIncident, HearChallenge
  <2>3. \E facts \in Findings(i) : ResolveIncident(i, facts) \/ ResolveChallenge(i, facts)
    BY <2>1, <2>2, DecisionIsFinding
  <2> QED
    BY <2>3, Zenon DEF HandlingStep
<1>4. CASE \/ \E caller \in Accounts : AcknowledgeIncident(caller, i)
           \/ SealEvidenceWindow(i)
           \/ FinalizeIncident(i)
           \/ TimeoutUndecided(i)
           \/ TimeoutChallenge(i)
  BY <1>4, Zenon DEF HandlingStep, TimeoutStep
<1> QED
  BY <1>1, <1>2, <1>3, <1>4, Zenon DEF IncidentStep

LEMMA StepIsDispute ==
  ASSUME HearingTyped, [HearingNext]_hearingVars
  PROVE  [DisputeNext]_disputeVars
<1>1. CASE Tick /\ UNCHANGED <<governanceVars, registryVars, incidentVars, evidenceVars>>
  BY <1>1 DEF DisputeNext
<1>2. CASE /\ \E caller \in Accounts :
                \/ \E a \in ReporterCandidates : AuthorizeReporter(caller, a) \/ RevokeReporter(caller, a)
                \/ \E quorum \in QuorumInputs, timeout \in WindowInputs, span \in SpanInputs :
                     SetResolutionPolicy(caller, quorum, timeout, span)
           /\ UNCHANGED <<ledgerVars, registryVars, incidentVars, evidenceVars>>
  BY <1>2, Zenon DEF DisputeNext, GovernanceStep
<1>3. ASSUME NEW i \in IncidentIds, SubmissionStep(i),
             UNCHANGED <<now, governanceVars, registryVars>>
      PROVE  UNCHANGED disputeVars
  BY <1>3, SubmissionsOnly DEF disputeVars, ledgerVars
<1>4. ASSUME NEW i \in IncidentIds, IncidentStep(i),
             UNCHANGED <<now, governanceVars, registryVars>>
      PROVE  DisputeNext
  BY <1>4, IncidentStepIs DEF DisputeNext
<1>5. CASE UNCHANGED hearingVars
  BY <1>5 DEF hearingVars
<1> QED
  BY <1>1, <1>2, <1>3, <1>4, <1>5, Zenon DEF HearingNext

\* A step of a hearing handles one incident or leaves the disputes alone.
LEMMA HearingSplits ==
  ASSUME HearingTyped, [HearingNext]_hearingVars
  PROVE  Elsewhere \/ (UNCHANGED now /\ \E i \in IncidentIds : Handled(i))
<1>1. [DisputeNext]_disputeVars /\ DisputeInv
  BY StepIsDispute DEF HearingTyped
<1>2. CASE HandlingStep
  BY <1>1, <1>2, HandlingIsHandled DEF HandlingStep
<1>3. CASE \E i \in IncidentIds : TimeoutStep(i)
  BY <1>1, <1>3, TimeoutIsHandled DEF TimeoutStep
<1>4. CASE UNCHANGED incidentVars /\ (UNCHANGED now \/ Tick)
  BY <1>4 DEF Elsewhere, incidentVars, Tick
<1> QED
  BY <1>1, <1>2, <1>3, <1>4, Zenon DEF DisputeNext, disputeVars, ledgerVars, WithdrawCredit

LEMMA DisputeKept ==
  ASSUME HearingTyped, [HearingNext]_hearingVars
  PROVE  DisputeInv'
<1>1. [DisputeNext]_disputeVars /\ DisputeInv
  BY StepIsDispute DEF HearingTyped
<1>2. Basics'
  <2>1. /\ UNCHANGED now \/ Tick
        /\ UNCHANGED governanceVars \/ GovernanceStep
        /\ UNCHANGED registryVars \/ RegistryStep
    BY <1>1, Zenon DEF DisputeNext, disputeVars, ledgerVars, HandlingStep, TimeoutStep, WithdrawCredit
  <2> QED
    BY <1>1, <2>1, GovernanceTypes, RegistryTypes
    DEF DisputeInv, Basics, Tick, GovernanceTypeOK, RegistryTypeOK, governanceVars, registryVars
<1> QED
  BY <1>1, <1>2, HearingSplits, HandledKeeps, ElsewhereKeeps
-----------------------------------------------------------------------------
(* What a step does to the evidence *)

LEMMA ValidReportsAre ==
  ASSUME HearingTyped, NEW i \in IncidentIds, NEW report \in ValidReports(i)
  PROVE  /\ report \in ReportType \cup {NoReport}
         /\ report # NoReport => Proper(report)
<1>1. incident[i].start \in Nat /\ incident[i].end \in Nat
  BY DEF HearingTyped, DisputeInv, DisputeTypes, IncidentType
<1>2. CASE report = NoReport
  BY <1>2
<1>3. CASE report \in Reports(i) /\ report.start < report.end
  <2> PICK r \in ReportInputs, s \in incident[i].start .. incident[i].end,
           e \in incident[i].start .. incident[i].end : report = Placed(r, s, e)
    BY <1>3 DEF Reports
  <2>1. r \in ReportType /\ Scoped(r)
    BY EvidenceAssumption, Zenon DEF Scoped
  <2>2. s \in Nat /\ e \in Nat
    BY <1>1
  <2>3. Placed(r, s, e) \in ReportType /\ Placed(r, s, e).scope = r.scope
    BY ONLY <2>1, <2>2 DEF Placed, ReportType
  <2>4. report \in ReportType /\ report.scope = r.scope
    BY <2>3
  <2>5. Scoped(report)
    BY <2>1, <2>4, Zenon DEF Scoped
  <2> QED
    BY <1>3, <2>4, <2>5 DEF Proper
<1> QED
  BY <1>2, <1>3 DEF ValidReports

\* When an item may come to incident i.
InTime(i, item) ==
  \/ incident[i].status = "NONE"
  \/ PrimaryOpen(i)
  \/ item.challenge /\ (incident[i].status = "PRELIMINARY" \/ ChallengeOpen(i))

\* A valid item comes to incident i, in time.
Adds(i, item) ==
  /\ evidence' = [evidence EXCEPT ![i] = Append(@, item)]
  /\ Valid(item) /\ InTime(i, item)

LEMMA StoreAdds ==
  ASSUME NEW i \in IncidentIds, NEW sender \in Accounts, NEW probe \in BOOLEAN,
         NEW report \in ReportType \cup {NoReport}, report # NoReport => Proper(report),
         NEW challenged \in BOOLEAN, StoreEvidence(i, sender, probe, report, challenged),
         \/ incident[i].status = "NONE" \/ PrimaryOpen(i)
         \/ challenged /\ (incident[i].status = "PRELIMINARY" \/ ChallengeOpen(i))
  PROVE  \E item \in ItemType : Adds(i, item)
<1> PICK size \in EntrySizes : evidence' = [evidence EXCEPT ![i] = Append(@,
        [by |-> sender, authoritative |-> probe /\ sender \in authorized,
         challenge |-> challenged,
         report |-> IF probe /\ sender \in authorized THEN report ELSE NoReport,
         size |-> size])]
  BY Zenon DEF StoreEvidence
<1> DEFINE item == [by |-> sender, authoritative |-> probe /\ sender \in authorized,
                    challenge |-> challenged,
                    report |-> IF probe /\ sender \in authorized THEN report ELSE NoReport,
                    size |-> size]
<1>1. item \in ItemType /\ Valid(item) /\ item.challenge = challenged
  BY DEF ItemType, Valid
<1>2. evidence' = [evidence EXCEPT ![i] = Append(@, item)]
  OBVIOUS
<1> HIDE DEF item
<1> QED
  BY <1>1, <1>2 DEF Adds, InTime

LEMMA EvidenceStep ==
  ASSUME HearingTyped, [HearingNext]_hearingVars
  PROVE  UNCHANGED evidence \/ \E i \in IncidentIds : \E item \in ItemType : Adds(i, item)
<1>1. ASSUME NEW i \in IncidentIds, SubmissionStep(i)
      PROVE  \E item \in ItemType : Adds(i, item)
  <2> PICK sender \in Accounts :
        \/ \E probe \in BOOLEAN, report \in ValidReports(i) :
             \/ SubmitEvidence(sender, i, probe, report)
             \/ SubmitChallengeEvidence(sender, i, probe, report)
        \/ \E report \in ValidReports(i) : AttachIncidentReport(sender, i, report)
        \/ SubmitProviderStatement(sender, i)
    BY <1>1, Zenon DEF SubmissionStep
  <2>1. ASSUME NEW probe \in BOOLEAN, NEW report \in ValidReports(i),
               \/ SubmitEvidence(sender, i, probe, report)
               \/ SubmitChallengeEvidence(sender, i, probe, report)
        PROVE  \E item \in ItemType : Adds(i, item)
    BY <2>1, ValidReportsAre, StoreAdds DEF SubmitEvidence, SubmitChallengeEvidence
  <2>2. ASSUME NEW report \in ValidReports(i), AttachIncidentReport(sender, i, report)
        PROVE  \E item \in ItemType : Adds(i, item)
    BY <2>1, <2>2 DEF AttachIncidentReport
  <2>3. CASE SubmitProviderStatement(sender, i)
    BY <2>3, StoreAdds DEF SubmitProviderStatement
  <2> QED
    BY <2>1, <2>2, <2>3, Zenon
<1>2. ASSUME NEW i \in IncidentIds, IncidentStep(i)
      PROVE  UNCHANGED evidence \/ \E item \in ItemType : Adds(i, item)
  <2>1. ASSUME NEW opener \in Accounts, NEW s, NEW start, NEW end, NEW payment,
               OpenWithEvidence(opener, i, s, start, end, payment)
        PROVE  UNCHANGED evidence \/ \E item \in ItemType : Adds(i, item)
    <3>1. incident[i].status = "NONE"
      BY <2>1 DEF OpenWithEvidence, OpenIncident, IsNext, UsedIncidents
    <3> QED
      BY <2>1, <3>1, StoreAdds DEF OpenWithEvidence
  <2>2. ASSUME NEW challenger \in Accounts, NEW payment,
               ChallengeWithEvidence(challenger, i, payment)
        PROVE  UNCHANGED evidence \/ \E item \in ItemType : Adds(i, item)
    <3>1. incident[i].status = "PRELIMINARY"
      BY <2>2 DEF ChallengeWithEvidence, ChallengeIncident
    <3> QED
      BY <2>2, <3>1, StoreAdds DEF ChallengeWithEvidence
  <2> QED
    BY <1>2, <2>1, <2>2, Zenon DEF IncidentStep, HearIncident, HearChallenge, evidenceVars
<1> QED
  BY <1>1, <1>2, Zenon DEF HearingNext, hearingVars, evidenceVars

\* Items stay where they are; a new one comes last.
Grown(i) ==
  /\ Len(evidence[i]) \in Nat /\ DOMAIN evidence[i] = 1 .. Len(evidence[i])
  /\ DOMAIN evidence[i] \subseteq DOMAIN evidence'[i]
  /\ \A n \in DOMAIN evidence[i] : evidence'[i][n] = evidence[i][n]

LEMMA AddsGrow ==
  ASSUME EvidenceTypes, ItemsValid, NEW i \in IncidentIds, NEW item \in ItemType, Adds(i, item)
  PROVE  /\ EvidenceTypes' /\ ItemsValid'
         /\ \A j \in IncidentIds : Grown(j)
         /\ Len(evidence'[i]) = Len(evidence[i]) + 1
         /\ evidence'[i][Len(evidence'[i])] = item
         /\ \A j \in IncidentIds \ {i} : evidence'[j] = evidence[j]
<1>1. \A j \in IncidentIds : /\ evidence[j] \in Seq(ItemType) /\ Len(evidence[j]) \in Nat
                            /\ DOMAIN evidence[j] = 1 .. Len(evidence[j])
  BY LenProperties DEF EvidenceTypes
<1>2. /\ evidence'[i] = Append(evidence[i], item)
      /\ \A j \in IncidentIds \ {i} : evidence'[j] = evidence[j]
  BY DEF Adds, EvidenceTypes
<1>3. /\ Append(evidence[i], item) \in Seq(ItemType)
      /\ Len(Append(evidence[i], item)) = Len(evidence[i]) + 1
      /\ \A n \in 1 .. Len(evidence[i]) : Append(evidence[i], item)[n] = evidence[i][n]
      /\ Append(evidence[i], item)[Len(evidence[i]) + 1] = item
  BY <1>1, AppendProperties
<1>4. DOMAIN evidence'[i] = 1 .. Len(evidence[i]) + 1
  BY <1>2, <1>3, LenProperties
<1>5. EvidenceTypes'
  BY <1>2, <1>3 DEF EvidenceTypes, Adds
<1>6. Grown(i)
  BY <1>1, <1>2, <1>3, <1>4 DEF Grown
<1>7. ASSUME NEW j \in IncidentIds PROVE Grown(j)
  BY <1>1, <1>2, <1>6 DEF Grown
<1>8. ASSUME NEW j \in IncidentIds, NEW n \in DOMAIN evidence'[j]
      PROVE  Valid(evidence'[j][n])
  <2>1. CASE j = i /\ n = Len(evidence[i]) + 1
    BY <1>2, <1>3, <2>1 DEF Adds
  <2>2. CASE n \in DOMAIN evidence[j]
    BY <1>7, <2>2 DEF Grown, ItemsValid
  <2>3. n \in DOMAIN evidence[j] \/ (j = i /\ n = Len(evidence[i]) + 1)
    BY <1>1, <1>2, <1>4
  <2> QED
    BY <2>1, <2>2, <2>3
<1> QED
  BY <1>2, <1>3, <1>5, <1>7, <1>8 DEF ItemsValid

LEMMA EvidenceKept ==
  ASSUME HearingTyped, [HearingNext]_hearingVars
  PROVE  EvidenceTypes' /\ ItemsValid' /\ \A i \in IncidentIds : Grown(i)
<1>1. CASE UNCHANGED evidence
  BY <1>1, LenProperties DEF HearingTyped, EvidenceTypes, ItemsValid, Grown
<1> QED
  BY <1>1, EvidenceStep, AddsGrow DEF HearingTyped
-----------------------------------------------------------------------------
(* What a step does to the decisions *)

\* An incident asks for as many reporters as it did when it was opened.
SameQuorum(i) ==
  /\ incident[i].status # "NONE" => incident'[i].quorum = incident[i].quorum
  /\ incident'[i].status # "NONE" => incident'[i].quorum >= 1

\* A decision is the one there was, or tells nothing, or is heard now.
DecidedAs(i) ==
  resolution'[i].exists =>
    \/ resolution[i].exists /\ resolution'[i].facts = resolution[i].facts
    \/ resolution'[i].facts.status = "INCONCLUSIVE"
    \/ /\ resolution'[i].facts \in Decisions(i)
       /\ incident[i].status # "NONE" /\ UNCHANGED evidence

HearingEffect(i) == SameQuorum(i) /\ DecidedAs(i)

LEMMA StillHeard ==
  ASSUME HearingTyped, NEW i \in IncidentIds, UNCHANGED <<incident[i], resolution[i]>>
  PROVE  HearingEffect(i)
BY DEF HearingEffect, SameQuorum, DecidedAs, HearingTyped, QuorumSet

LEMMA OpenHeard ==
  ASSUME HearingTyped, NEW i \in IncidentIds, NEW opener, NEW s, NEW start, NEW end, NEW payment,
         OpenIncident(opener, i, s, start, end, payment)
  PROVE  HearingEffect(i) /\ \A j \in IncidentIds \ {i} : incident'[j] = incident[j]
<1>1. incident[i].status = "NONE" /\ UNCHANGED resolution
  BY DEF OpenIncident, IsNext, UsedIncidents
<1>2. ~resolution[i].exists
  BY <1>1 DEF HearingTyped, DisputeInv, StageTells, Undecided
<1> DEFINE about == [NoIncident EXCEPT !.status = "OPEN", !.service = s, !.opener = opener,
                       !.start = start, !.end = end, !.openedAt = now]
           timed == [about EXCEPT
                       !.evidenceDeadline = now + config.evidenceWindow,
                       !.resolutionDeadline = now + config.evidenceWindow + config.timeout,
                       !.challengeWindow = config.challengeWindow,
                       !.challengeEvidenceWindow = config.challengeEvidenceWindow]
           new == [timed EXCEPT
                     !.timeout = config.timeout, !.quorum = config.quorum,
                     !.reportBond = config.reportBond, !.challengeBond = config.challengeBond]
<1>3. incident' = [incident EXCEPT ![i] = new]
  BY DEF OpenIncident
<1>4. new.quorum = config.quorum
  BY DEF NoIncident
<1> HIDE DEF new
<1>5. incident'[i] = new /\ \A j \in IncidentIds \ {i} : incident'[j] = incident[j]
  BY <1>3 DEF HearingTyped, DisputeInv, DisputeTypes
<1>6. config.quorum >= 1
  BY DEF HearingTyped, QuorumSet
<1> QED
  BY <1>1, <1>2, <1>4, <1>5, <1>6 DEF HearingEffect, SameQuorum, DecidedAs

\* A step of an open incident that leaves its quorum and the other incidents alone.
Onwards(i) ==
  /\ incident[i].status # "NONE"
  /\ incident'[i].quorum = incident[i].quorum
  /\ \A j \in IncidentIds \ {i} : incident'[j] = incident[j] /\ resolution'[j] = resolution[j]

LEMMA OnwardsKeeps ==
  ASSUME HearingTyped, NEW i \in IncidentIds, Onwards(i)
  PROVE  SameQuorum(i) /\ \A j \in IncidentIds \ {i} : HearingEffect(j)
BY StillHeard DEF Onwards, SameQuorum, HearingTyped, QuorumSet

LEMMA ActsOnwards ==
  ASSUME HearingTyped, NEW i \in IncidentIds,
         \/ \E caller \in Accounts : AcknowledgeIncident(caller, i)
         \/ SealEvidenceWindow(i)
         \/ \E challenger \in Accounts, payment \in BondPayments :
              ChallengeIncident(challenger, i, payment)
  PROVE  Onwards(i) /\ UNCHANGED resolution
<1>1. incident \in [IncidentIds -> IncidentType]
  BY DEF HearingTyped, DisputeInv, DisputeTypes
<1>2. CASE \E caller \in Accounts : AcknowledgeIncident(caller, i)
  BY <1>1, <1>2 DEF AcknowledgeIncident, Onwards, IncidentType
<1>3. CASE SealEvidenceWindow(i)
  BY <1>1, <1>3 DEF SealEvidenceWindow, Onwards, IncidentType
<1>4. CASE \E challenger \in Accounts, payment \in BondPayments :
             ChallengeIncident(challenger, i, payment)
  BY <1>1, <1>4 DEF ChallengeIncident, Onwards, IncidentType
<1> QED
  BY <1>2, <1>3, <1>4

LEMMA HearOnwards ==
  ASSUME HearingTyped, NEW i \in IncidentIds, HearIncident(i) \/ HearChallenge(i)
  PROVE  Onwards(i) /\ resolution'[i].facts \in Decisions(i) /\ UNCHANGED evidence
<1>1. /\ incident \in [IncidentIds -> IncidentType]
      /\ resolution \in [IncidentIds -> DecisionType]
  BY DEF HearingTyped, DisputeInv, DisputeTypes
<1> PICK facts \in Decisions(i) : ResolveIncident(i, facts) \/ ResolveChallenge(i, facts)
  BY Zenon DEF HearIncident, HearChallenge
<1>2. resolution'[i].facts = facts /\ \A j \in IncidentIds \ {i} : resolution'[j] = resolution[j]
  BY <1>1 DEF ResolveIncident, ResolveChallenge
<1>3. incident[i].status # "NONE" /\ UNCHANGED evidence
  BY DEF HearIncident, HearChallenge, evidenceVars
<1>4. CASE ResolveIncident(i, facts)
  BY ONLY <1>1, <1>2, <1>3, <1>4, i \in IncidentIds DEF ResolveIncident, Onwards, IncidentType
<1>5. CASE ResolveChallenge(i, facts)
  BY ONLY <1>1, <1>2, <1>3, <1>5, i \in IncidentIds DEF ResolveChallenge, Onwards, IncidentType
<1> QED
  BY <1>2, <1>3, <1>4, <1>5

LEMMA EndsOnwards ==
  ASSUME HearingTyped, NEW i \in IncidentIds, NEW res, NEW cr,
         incident[i].status # "NONE", FinalizeStored(i, incident[i], res, cr)
  PROVE  Onwards(i) /\ resolution'[i] = [res EXCEPT !.finalized = TRUE]
<1>1. /\ incident \in [IncidentIds -> IncidentType]
      /\ resolution \in [IncidentIds -> DecisionType]
  BY DEF HearingTyped, DisputeInv, DisputeTypes
<1> QED
  BY <1>1 DEF FinalizeStored, Onwards, IncidentType

\* A timeout concludes nothing.
LEMMA EndsHeard ==
  ASSUME HearingTyped, NEW i \in IncidentIds,
         FinalizeIncident(i) \/ TimeoutUndecided(i) \/ TimeoutChallenge(i)
  PROVE  Onwards(i) /\ DecidedAs(i)
<1>1. resolution[i] \in DecisionType
  BY DEF HearingTyped, DisputeInv, DisputeTypes
<1>2. CASE FinalizeIncident(i)
  <2>1. incident[i].status # "NONE" /\ resolution[i].exists
        /\ FinalizeStored(i, incident[i], resolution[i], credits)
    BY <1>2 DEF FinalizeIncident, CanFinalize
  <2>2. Onwards(i) /\ resolution'[i] = [resolution[i] EXCEPT !.finalized = TRUE]
    BY <2>1, EndsOnwards
  <2> QED
    BY <1>1, <2>1, <2>2 DEF DecidedAs, DecisionType
<1>3. ASSUME NEW res, NEW cr, incident[i].status # "NONE",
             FinalizeStored(i, incident[i], res, cr),
             res \in DecisionType, res.facts = TimeoutFacts
      PROVE  Onwards(i) /\ DecidedAs(i)
  <2>1. Onwards(i) /\ resolution'[i] = [res EXCEPT !.finalized = TRUE]
    BY <1>3, EndsOnwards
  <2>2. resolution'[i].facts = TimeoutFacts
    BY <1>3, <2>1 DEF DecisionType
  <2> QED
    BY <2>1, <2>2, TimeoutIs DEF DecidedAs
<1>4. NoResolution \in DecisionType /\ NoResolution.facts = TimeoutFacts
  BY TimeoutIs DEF NoResolution, DecisionType, AnyFacts
<1>5. CASE TimeoutUndecided(i)
  <2> DEFINE res == [NoResolution EXCEPT !.exists = TRUE]
  <2>1. res \in DecisionType /\ res.facts = TimeoutFacts
    BY <1>4 DEF DecisionType
  <2>2. incident[i].status # "NONE" /\ FinalizeStored(i, incident[i], res, credits)
    BY <1>5 DEF TimeoutUndecided, TimedOut
  <2> QED
    BY <1>3, <2>1, <2>2
<1>6. CASE TimeoutChallenge(i)
  <2> DEFINE res == [NoResolution EXCEPT !.exists = TRUE, !.byChallenge = TRUE]
  <2>1. res \in DecisionType /\ res.facts = TimeoutFacts
    BY <1>4 DEF DecisionType
  <2>2. incident[i].status # "NONE"
        /\ \E cr : FinalizeStored(i, incident[i], res, cr)
    BY <1>6 DEF TimeoutChallenge, TimedOut
  <2> QED
    BY <1>3, <2>1, <2>2
<1> QED
  BY <1>2, <1>5, <1>6

LEMMA IncidentStepHeard ==
  ASSUME HearingTyped, NEW i \in IncidentIds, IncidentStep(i)
  PROVE  \A j \in IncidentIds : HearingEffect(j)
<1>1. ASSUME NEW opener \in Accounts, NEW s, NEW start, NEW end, NEW payment,
             OpenIncident(opener, i, s, start, end, payment)
      PROVE  \A j \in IncidentIds : HearingEffect(j)
  BY <1>1, OpenHeard, StillHeard DEF OpenIncident
<1>2. CASE \/ \E caller \in Accounts : AcknowledgeIncident(caller, i)
           \/ SealEvidenceWindow(i)
           \/ \E challenger \in Accounts, payment \in BondPayments :
                ChallengeIncident(challenger, i, payment)
  <2>1. Onwards(i) /\ UNCHANGED resolution
    BY <1>2, ActsOnwards
  <2>2. DecidedAs(i)
    BY <2>1 DEF DecidedAs
  <2> QED
    BY <2>1, <2>2, OnwardsKeeps DEF HearingEffect
<1>3. CASE HearIncident(i) \/ HearChallenge(i)
  <2>1. Onwards(i) /\ resolution'[i].facts \in Decisions(i) /\ UNCHANGED evidence
    BY <1>3, HearOnwards
  <2>2. DecidedAs(i)
    BY <2>1 DEF DecidedAs, Onwards
  <2> QED
    BY <2>1, <2>2, OnwardsKeeps DEF HearingEffect
<1>4. CASE FinalizeIncident(i) \/ TimeoutUndecided(i) \/ TimeoutChallenge(i)
  BY <1>4, EndsHeard, OnwardsKeeps DEF HearingEffect
<1> QED
  BY <1>1, <1>2, <1>3, <1>4, Zenon DEF IncidentStep, OpenWithEvidence, ChallengeWithEvidence

LEMMA DecisionStep ==
  ASSUME HearingTyped, [HearingNext]_hearingVars
  PROVE  QuorumSet' /\ \A i \in IncidentIds : HearingEffect(i)
<1>1. UNCHANGED incidentVars => \A i \in IncidentIds : HearingEffect(i)
  BY StillHeard DEF incidentVars
<1>2. (\E j \in IncidentIds : IncidentStep(j)) => \A i \in IncidentIds : HearingEffect(i)
  BY IncidentStepHeard
<1>3. UNCHANGED incidentVars \/ \E i \in IncidentIds : IncidentStep(i)
  BY SubmissionsOnly, Zenon DEF HearingNext, hearingVars, disputeVars
<1>4. \A i \in IncidentIds : HearingEffect(i)
  BY <1>1, <1>2, <1>3
<1>5. config'.quorum >= 1
  <2>1. CASE UNCHANGED config
    BY <2>1 DEF HearingTyped, QuorumSet
  <2>2. ASSUME NEW caller, NEW quorum \in QuorumInputs, NEW timeout, NEW span,
               SetResolutionPolicy(caller, quorum, timeout, span)
        PROVE  config'.quorum >= 1
    BY <2>2, GovernanceAssumption
    DEF SetResolutionPolicy, PolicyAllowed, HearingTyped, DisputeInv, Basics, GovernanceTypeOK,
        ConfigType
  <2> QED
    BY <2>1, <2>2, Zenon DEF HearingNext, AuthorizeReporter, RevokeReporter, governanceVars,
                             hearingVars, disputeVars
<1> QED
  BY <1>4, <1>5 DEF QuorumSet, HearingEffect, SameQuorum
-----------------------------------------------------------------------------
(* The invariant *)

\* The invariant: what steps start from, and a quorum behind every decision, which
\* a decision on a challenge inherits only because evidence is never taken back.
HearingInv == HearingTyped /\ QuorumBehindDecision

\* A larger set of witnesses counts for as much.
LEMMA MoreWitnesses ==
  ASSUME NEW i \in IncidentIds, EvidenceTypes, EvidenceTypes', Grown(i),
         NEW facts, NEW key, NEW seen \in SUBSET DOMAIN evidence[i], NEW quorum \in Nat,
         ReportersBehind(i, seen, key, facts) >= quorum
  PROVE  Cardinality({evidence'[i][n].by : n \in Supporting(i, DOMAIN evidence[i], key, facts)'})
           >= quorum
<1> DEFINE those == {evidence[i][n].by : n \in Supporting(i, seen, key, facts)}
           witnesses == Supporting(i, DOMAIN evidence[i], key, facts)'
           people == {evidence'[i][n].by : n \in witnesses}
<1>1. those \subseteq people
  BY DEF Supporting, Grown
<1>2. IsFiniteSet(people)
  <2>1. people \subseteq Accounts
    <3>1. evidence'[i] \in Seq(ItemType)
      BY DEF EvidenceTypes
    <3>2. \A n \in DOMAIN evidence'[i] : evidence'[i][n] \in ItemType
      BY <3>1, LenProperties, ElementOfSeq
    <3>3. \A n \in DOMAIN evidence'[i] : evidence'[i][n].by \in Accounts
      BY <3>2 DEF ItemType
    <3> QED
      BY <3>3 DEF Supporting
  <2> QED
    BY <2>1, LedgerAssumption, FS_Subset
<1>3. Cardinality(those) <= Cardinality(people) /\ Cardinality(people) \in Nat
      /\ Cardinality(those) \in Nat
  BY <1>1, <1>2, FS_Subset, FS_CardinalityType
<1>4. Cardinality(those) >= quorum
  BY DEF ReportersBehind
<1> HIDE DEF those, witnesses, people
<1>5. Cardinality(people) >= quorum
  BY <1>3, <1>4
<1> QED
  BY <1>5 DEF people, witnesses

\* A decision that is not inconclusive was supported by reports that were fetched.
LEMMA DecisionSupported ==
  ASSUME NEW i \in IncidentIds, NEW facts \in Decisions(i), facts.status # "INCONCLUSIVE",
         NEW key \in Material(facts)
  PROVE  \E seen \in SUBSET DOMAIN evidence[i] :
           ReportersBehind(i, seen, key, facts) >= incident[i].quorum
<1> PICK seen \in SUBSET Selected(i) : facts \in Adjudicated(i, seen)
  BY DEF Decisions, Fetched
<1>1. SupportedFacts(i, seen, facts)
  BY DEF Adjudicated
<1>2. ReportersBehind(i, seen, key, facts) >= incident[i].quorum
  BY <1>1 DEF SupportedFacts
<1>3. seen \in SUBSET DOMAIN evidence[i]
  BY SelectedAreItems
<1> QED
  BY <1>2, <1>3

LEMMA QuorumKept ==
  ASSUME HearingInv, [HearingNext]_hearingVars
  PROVE  QuorumBehindDecision'
<1> SUFFICES ASSUME NEW i \in IncidentIds, resolution'[i].exists,
                    resolution'[i].facts.status # "INCONCLUSIVE",
                    NEW key \in Material(resolution'[i].facts)
             PROVE  Cardinality({evidence'[i][n].by :
                                 n \in Supporting(i, DOMAIN evidence[i], key, resolution[i].facts)'})
                      >= incident'[i].quorum
  BY DEF QuorumBehindDecision, Material
<1> PICK facts : facts = resolution'[i].facts
  OBVIOUS
<1>1. /\ SameQuorum(i) /\ DecidedAs(i)
      /\ EvidenceTypes /\ EvidenceTypes' /\ Grown(i)
  BY DecisionStep, EvidenceKept DEF HearingInv, HearingTyped, HearingEffect
<1>2. incident[i].quorum \in Nat
  BY DEF HearingInv, HearingTyped, DisputeInv, DisputeTypes, IncidentType
<1>3. /\ incident[i].status # "NONE"
      /\ \E seen \in SUBSET DOMAIN evidence[i] :
           ReportersBehind(i, seen, key, facts) >= incident[i].quorum
  <2>1. CASE resolution[i].exists /\ resolution'[i].facts = resolution[i].facts
    <3>1. incident[i].status # "NONE"
      BY <2>1 DEF HearingInv, HearingTyped, DisputeInv, StageTells, Undecided
    <3>2. ReportersBehind(i, DOMAIN evidence[i], key, facts) >= incident[i].quorum
      BY <2>1 DEF HearingInv, QuorumBehindDecision, ReportersBehind
    <3> QED
      BY <3>1, <3>2
  <2>2. CASE resolution'[i].facts \in Decisions(i) /\ incident[i].status # "NONE"
    BY <2>2, DecisionSupported
  <2> QED
    BY <1>1, <2>1, <2>2 DEF DecidedAs
<1>4. incident'[i].quorum = incident[i].quorum
  BY <1>1, <1>3 DEF SameQuorum
<1>5. Cardinality({evidence'[i][n].by : n \in Supporting(i, DOMAIN evidence[i], key, facts)'})
        >= incident[i].quorum
  BY <1>1, <1>2, <1>3, MoreWitnesses
<1> QED
  BY <1>4, <1>5 DEF Supporting

LEMMA HearingInvStarts ==
  ASSUME HearingInit
  PROVE  HearingInv
<1>1. DisputeInv
  BY DisputeInvStarts DEF HearingInit
<1>2. EvidenceTypes /\ ItemsValid
  <2>1. \A i \in IncidentIds : evidence[i] = <<>>
    BY DEF HearingInit, EvidenceInit
  <2>2. <<>> \in Seq(ItemType)
    BY EmptySeq
  <2>3. DOMAIN <<>> = {}
    OBVIOUS
  <2>4. EvidenceTypes
    BY <2>2 DEF HearingInit, EvidenceInit, EvidenceTypes
  <2> QED
    BY <2>1, <2>3, <2>4 DEF ItemsValid
<1>3. QuorumSet
  <2>1. config.quorum >= 1
    BY GovernanceAssumption
    DEF HearingInit, DisputeInit, GovernanceInit, GovernanceSettings, PolicyAllowed
  <2>2. \A i \in IncidentIds : incident[i].status = "NONE"
    BY DEF HearingInit, DisputeInit, IncidentsInit, NoIncident
  <2> QED
    BY <2>1, <2>2 DEF QuorumSet
<1>4. QuorumBehindDecision
  BY DEF HearingInit, DisputeInit, IncidentsInit, NoResolution, QuorumBehindDecision
<1> QED
  BY <1>1, <1>2, <1>3, <1>4 DEF HearingInv, HearingTyped

LEMMA HearingInvKept ==
  ASSUME HearingInv, [HearingNext]_hearingVars
  PROVE  HearingInv'
BY DisputeKept, EvidenceKept, DecisionStep, QuorumKept DEF HearingInv, HearingTyped

LEMMA HearingInvariant == HearingSpec => []HearingInv
BY HearingInvStarts, HearingInvKept, PTL DEF HearingSpec
-----------------------------------------------------------------------------
(* What hearings promise *)

\* Whatever the models answer and whatever can be fetched, each step of a hearing
\* is a step of Incidents, which expects no more of a decision than _finding_is
\* sound: what Incidents proves of incidents holds with their evidence.
THEOREM HearingsAreDisputes == HearingSpec => HearingIsDispute
<1>1. HearingInv /\ [HearingNext]_hearingVars => [DisputeNext]_disputeVars
  BY StepIsDispute DEF HearingInv
<1> QED
  BY <1>1, HearingInvariant, PTL DEF HearingSpec, HearingIsDispute

\* With evidence and hearings, too, every window runs its whole length: whatever is
\* submitted and whoever calls for a hearing when.
THEOREM HearingWindowsRun == HearingSpec => []WindowsHonoured
<1>1. HearingInv => WindowsHonoured
  BY DEF HearingInv, HearingTyped, DisputeInv, WindowsOf, WindowsHonoured
<1> QED
  BY <1>1, HearingInvariant, PTL

\* And no later hearing changes a decision but the one a challenge asked for, nor
\* anything of a final incident.
THEOREM HearingDecisionsStand == HearingSpec => DecisionsStand
<1> DEFINE Stand(i) ==
      /\ resolution[i].exists /\ resolution'[i].facts # resolution[i].facts =>
           incident[i].status = "CHALLENGED" /\ incident'[i].status # "CHALLENGED"
      /\ Final(i) => UNCHANGED <<incident[i], resolution[i], challenge[i]>>
<1>1. HearingInv /\ [HearingNext]_hearingVars => [\A i \in IncidentIds : Stand(i)]_incidentVars
  <2> SUFFICES ASSUME HearingInv, [HearingNext]_hearingVars, NEW i \in IncidentIds
               PROVE  Stand(i)
    OBVIOUS
  <2>1. CASE Elsewhere
    BY <2>1 DEF Elsewhere
  <2>2. CASE \E j \in IncidentIds : Handled(j)
    BY <2>2 DEF Handled, OthersKept
  <2> QED
    BY <2>1, <2>2, HearingSplits DEF HearingInv
<1> QED
  BY <1>1, HearingInvariant, PTL DEF HearingSpec, DecisionsStand

\* Behind every fact of a decision that can pay stand as many reporters as the
\* incident asked for, for any settings, budgets, reports and answers.
THEOREM QuorumStands == HearingSpec => []QuorumBehindDecision
<1>1. HearingInv => QuorumBehindDecision
  BY DEF HearingInv
<1> QED
  BY <1>1, HearingInvariant, PTL

LEMMA PrefixStands ==
  ASSUME NEW i \in IncidentIds, EvidenceTypes, EvidenceTypes', Grown(i)
  PROVE  /\ Len(evidence'[i]) >= Len(evidence[i])
         /\ SubSeq(evidence'[i], 1, Len(evidence[i])) = evidence[i]
<1> DEFINE old == evidence[i]
           new == evidence'[i]
<1>1. old \in Seq(ItemType) /\ new \in Seq(ItemType)
  BY DEF EvidenceTypes
<1>2. /\ Len(old) \in Nat /\ DOMAIN old = 1 .. Len(old)
      /\ Len(new) \in Nat /\ DOMAIN new = 1 .. Len(new)
      /\ DOMAIN old \subseteq DOMAIN new
      /\ \A n \in DOMAIN old : new[n] = old[n]
  BY <1>1, LenProperties DEF Grown
<1> HIDE DEF old, new
<1>3. Len(new) >= Len(old)
  BY <1>2
<1>4. SubSeq(new, 1, Len(old)) \in Seq(ItemType) /\ Len(SubSeq(new, 1, Len(old))) = Len(old)
      /\ \A n \in 1 .. Len(old) : SubSeq(new, 1, Len(old))[n] = new[n]
  BY <1>1, <1>2, <1>3, SubSeqProperties
<1>5. SubSeq(new, 1, Len(old)) = old
  BY <1>1, <1>2, <1>4, SeqEqual
<1> QED
  BY <1>3, <1>5 DEF old, new

\* Evidence is never taken back, and none comes to an incident that can be decided
\* or to a challenge that can, whoever submits what when.
THEOREM EvidenceIsFinal == HearingSpec => EvidenceStands
<1> DEFINE Stands ==
      \A i \in IncidentIds :
        /\ Len(evidence'[i]) >= Len(evidence[i])
        /\ SubSeq(evidence'[i], 1, Len(evidence[i])) = evidence[i]
        /\ evidence'[i] # evidence[i] =>
             \/ incident[i].status = "NONE"
             \/ incident[i].status = "OPEN" /\ now < incident[i].evidenceDeadline
             \/ /\ evidence'[i][Len(evidence'[i])].challenge
                /\ \/ incident[i].status = "PRELIMINARY"
                   \/ now < incident[i].challengeEvidenceDeadline
<1>1. ASSUME HearingInv, [HearingNext]_hearingVars
      PROVE  Stands
  <2> SUFFICES ASSUME NEW i \in IncidentIds, evidence'[i] # evidence[i]
               PROVE  \/ incident[i].status = "NONE"
                      \/ incident[i].status = "OPEN" /\ now < incident[i].evidenceDeadline
                      \/ /\ evidence'[i][Len(evidence'[i])].challenge
                         /\ \/ incident[i].status = "PRELIMINARY"
                            \/ now < incident[i].challengeEvidenceDeadline
    BY <1>1, EvidenceKept, PrefixStands DEF HearingInv, HearingTyped
  <2> PICK j \in IncidentIds, item \in ItemType : Adds(j, item)
    BY <1>1, EvidenceStep DEF HearingInv
  <2>1. /\ j = i
        /\ evidence'[i][Len(evidence'[i])] = item
    BY <1>1, AddsGrow DEF HearingInv, HearingTyped
  <2> QED
    BY <2>1 DEF Adds, InTime, PrimaryOpen, ChallengeOpen
<1>2. HearingInv /\ [HearingNext]_hearingVars => Stands
  BY <1>1
<1> QED
  BY <1>2, HearingInvariant, PTL DEF HearingSpec, EvidenceStands
-----------------------------------------------------------------------------
(* What a quorum reported can be found *)

\* The decision that says what report r says.
Told(r) ==
  [status |-> IF r.confirmed THEN "INCIDENT_CONFIRMED" ELSE "NO_INCIDENT",
   fault |-> r.fault, scope |-> r.scope, start |-> r.start, end |-> r.end,
   observed |-> r.observed, chainFailure |-> r.chainFailure, sufficiency |-> "SUFFICIENT"]

\* The items with report r that count.
Sent(i, r) ==
  {n \in DOMAIN evidence[i] : evidence[i][n].authoritative /\ evidence[i][n].report = r}

LEMMA ReportsTell ==
  ASSUME NEW r \in ReportType, NEW key
  PROVE  States(r, key, Told(r))
<1>1. r.confirmed \in BOOLEAN
  BY DEF ReportType
<1>2. /\ Told(r).status = IF r.confirmed THEN "INCIDENT_CONFIRMED" ELSE "NO_INCIDENT"
      /\ Told(r).fault = r.fault /\ Told(r).scope = r.scope
      /\ Told(r).start = r.start /\ Told(r).end = r.end
      /\ Told(r).observed = r.observed /\ Told(r).chainFailure = r.chainFailure
  BY DEF Told
<1>3. r.confirmed = (Told(r).status = "INCIDENT_CONFIRMED")
  BY <1>1, <1>2
<1> QED
  BY <1>2, <1>3 DEF States

LEMMA SentCount ==
  ASSUME HearingTyped, NEW i \in IncidentIds, NEW r \in ReportType, NEW key,
         NEW seen \in SUBSET Selected(i)
  PROVE  /\ ReportersBehind(i, seen, key, Told(r)) \in Nat
         /\ Cardinality({evidence[i][n].by : n \in seen \cap Sent(i, r)}) \in Nat
         /\ ReportersBehind(i, seen, key, Told(r))
              >= Cardinality({evidence[i][n].by : n \in seen \cap Sent(i, r)})
<1> DEFINE senders == {evidence[i][n].by : n \in seen \cap Sent(i, r)}
           witnesses == {evidence[i][n].by : n \in Supporting(i, seen, key, Told(r))}
<1>1. senders \subseteq witnesses
  <2>1. r # NoReport
    BY EvidenceAssumption
  <2>2. seen \cap Sent(i, r) \subseteq Supporting(i, seen, key, Told(r))
    BY <2>1, ReportsTell DEF Sent, Supporting
  <2> QED
    BY <2>2
<1>2. IsFiniteSet(witnesses)
  <2>1. evidence[i] \in Seq(ItemType)
    BY DEF HearingTyped, EvidenceTypes
  <2>2. \A n \in DOMAIN evidence[i] : evidence[i][n] \in ItemType
    BY <2>1, LenProperties, ElementOfSeq
  <2>3. \A n \in DOMAIN evidence[i] : evidence[i][n].by \in Accounts
    BY <2>2 DEF ItemType
  <2>4. witnesses \subseteq Accounts
    BY <2>3, SelectedAreItems DEF Supporting
  <2> QED
    BY <2>4, LedgerAssumption, FS_Subset
<1>3. /\ Cardinality(senders) <= Cardinality(witnesses)
      /\ Cardinality(senders) \in Nat /\ Cardinality(witnesses) \in Nat
  BY <1>1, <1>2, FS_Subset, FS_CardinalityType
<1> QED
  BY <1>3 DEF ReportersBehind

LEMMA QuorumHeard ==
  ASSUME HearingTyped, NEW i \in IncidentIds, NEW r \in Reports(i),
         incident[i].status # "NONE", NEW seen \in SUBSET Selected(i),
         Cardinality({evidence[i][n].by : n \in seen \cap Sent(i, r)}) >= incident[i].quorum,
         FitsPrompt(i, seen), Told(r) \in Answers(i)
  PROVE  Told(r) \in Adjudicated(i, seen)
<1>1. r \in ReportType
  <2>1. incident[i].start \in Nat /\ incident[i].end \in Nat
    BY DEF HearingTyped, DisputeInv, DisputeTypes, IncidentType
  <2> PICK f \in ReportInputs, s \in incident[i].start .. incident[i].end,
           e \in incident[i].start .. incident[i].end : r = Placed(f, s, e)
    BY DEF Reports
  <2>2. f \in ReportType
    BY EvidenceAssumption, Zenon
  <2>3. s \in Nat /\ e \in Nat
    BY <2>1
  <2>4. Placed(f, s, e) \in ReportType
    BY ONLY <2>2, <2>3 DEF Placed, ReportType
  <2> QED
    BY <2>4
<1>2. incident[i].quorum \in Nat /\ incident[i].quorum >= 1
  BY DEF HearingTyped, QuorumSet, DisputeInv, DisputeTypes, IncidentType
<1>3. ASSUME NEW key
      PROVE  ReportersBehind(i, seen, key, Told(r)) >= incident[i].quorum
  BY <1>1, <1>2, SentCount
<1>4. SupportedFacts(i, seen, Told(r))
  BY <1>3 DEF SupportedFacts, Told
<1>5. Reconciled(i, seen, Told(r)) = Told(r)
  <2>1. \E n \in seen \cap Sent(i, r) : TRUE
    <3> SUFFICES ASSUME seen \cap Sent(i, r) = {} PROVE FALSE
      OBVIOUS
    <3>1. {evidence[i][n].by : n \in seen \cap Sent(i, r)} = {}
      OBVIOUS
    <3>2. Cardinality({evidence[i][n].by : n \in seen \cap Sent(i, r)}) = 0
      BY <3>1, FS_EmptySet
    <3> QED
      BY <1>2, <3>2
  <2>2. r # NoReport
    BY <1>1, EvidenceAssumption
  <2>3. Usable(i, seen) # {}
    BY <2>1, <2>2 DEF Sent, Usable
  <2> QED
    BY <2>3 DEF Reconciled
<1> QED
  BY <1>4, <1>5 DEF Adjudicated

\* Every report is among the items an adjudication asks for, and when those of a quorum
\* that say the same are fetched, it may decide as they say: however many other items
\* there are and whatever they say, as long as all of it fits into a prompt.
THEOREM ReportsAreHeard == HearingSpec => []QuorumIsHeard
<1>1. ASSUME HearingInv
      PROVE  QuorumIsHeard
  <2> SUFFICES ASSUME NEW i \in IncidentIds, NEW r \in Reports(i),
                      incident[i].status # "NONE"
               PROVE  /\ Sent(i, r) \subseteq Selected(i)
                      /\ \A seen \in Fetched(i) :
                           /\ Cardinality({evidence[i][n].by : n \in seen \cap Sent(i, r)})
                                >= incident[i].quorum
                           /\ FitsPrompt(i, seen)
                           /\ Told(r) \in Answers(i)
                           => Told(r) \in Adjudicated(i, seen)
    BY Zenon DEF QuorumIsHeard, Positions, Sent, Told
  <2>1. Sent(i, r) \subseteq Selected(i)
    BY DEF Sent, Selected
  <2> QED
    BY <1>1, <2>1, QuorumHeard DEF HearingInv, Fetched
<1> QED
  BY <1>1, HearingInvariant, PTL
=============================================================================
