------------------------------ MODULE Evidence ------------------------------
(***************************************************************************)
(* The evidence of an incident and what an adjudication may decide on it   *)
(* (src/contracts/FaultPact.py, _store_evidence and the methods that call  *)
(* it, _select_evidence_for_adjudication, _adjudicate and the validations  *)
(* behind it).                                                             *)
(*                                                                         *)
(* The language model may answer anything.  What it answers becomes the    *)
(* decision only if every fact is reported, field by field, by a quorum of *)
(* distinct reporters whose reports were fetched with the recorded hash;   *)
(* which reports can be fetched is decided anew at each adjudication.      *)
(* An adjudication whose prompt would be too long fails: long texts that   *)
(* others sent can keep an incident from being decided until it times out. *)
(* Incidents takes any finding in Findings for a decision: the steps here  *)
(* are steps of Incidents (HearingIsDispute).                              *)
(***************************************************************************)
EXTENDS Incidents, Sequences

CONSTANTS
  MaxAuthoritative,     \* MAX_AUTHORITATIVE_EVIDENCE
  MaxSupplemental,      \* MAX_SUPPLEMENTAL_EVIDENCE
  MaxChallengeEvidence, \* MAX_CHALLENGE_EVIDENCE
  MaxPerReporter,       \* MAX_AUTHORITATIVE_PER_REPORTER
  MaxPerSubmitter,      \* MAX_SUPPLEMENTAL_PER_SUBMITTER
  MaxRead,              \* MAX_SUPPLEMENTAL_FOR_ADJUDICATION
  MaxPrompt,            \* MAX_PROMPT_EVIDENCE_BYTES
  PromptRest,           \* what the prompt may hold besides: 8192 bytes
  EntrySizes,           \* what a usable item may take of the prompt
  StatusSize,           \* what any other item takes: its number and its status
  ProseSizes,           \* what a summary or the reason of a challenge may take
  NoReport,             \* a body that is not a valid report on the incident
  ReportInputs          \* what valid reports say, their interval left open

\* What _validate_authoritative_payload asks of a report beyond its interval.
ReportType ==
  [confirmed : BOOLEAN, fault : FaultDomains, scope : STRING, start : Nat, end : Nat,
   observed : [Clauses -> Nat \cup {Unknown}], chainFailure : BOOLEAN]

ASSUME EvidenceAssumption ==
  /\ {MaxAuthoritative, MaxSupplemental, MaxChallengeEvidence, MaxPerReporter,
      MaxPerSubmitter, MaxRead, MaxPrompt, PromptRest, StatusSize}
       \cup EntrySizes \cup ProseSizes \subseteq Nat
  /\ NoReport \notin ReportType
  /\ TimeoutFacts \in FindingInputs    \* that nothing can be concluded is a finding, too
  /\ \A r \in ReportInputs :
       r \in ReportType /\ r.scope # "" /\ (~r.confirmed => r.fault = "UNKNOWN")

VARIABLES
  evidence,   \* evidence[i] \in Seq(ItemType): the items, in the order they came
  prose       \* prose[i]: what the texts of the incident itself take of a prompt

evidenceVars == <<evidence, prose>>

\* size is what the item takes of a prompt, if its body is fetched and usable.
ItemType ==
  [by : Accounts, authoritative : BOOLEAN, challenge : BOOLEAN,
   report : ReportType \cup {NoReport}, size : EntrySizes]

EvidenceInit ==
  /\ evidence = [i \in IncidentIds |-> <<>>]
  /\ prose = [i \in IncidentIds |-> 0]

\* The positions of the items of incident i that satisfy test.
Positions(i, test(_)) == {n \in DOMAIN evidence[i] : test(evidence[i][n])}

-----------------------------------------------------------------------------
(* Submission *)

\* The budgets _store_evidence checks for a new item: apart for reports and for
\* anything else, but shared by the two in the challenge stage.
Admissible(i, item) ==
  LET staged(e) == e.challenge = item.challenge
      same(e) == staged(e) /\ e.authoritative = item.authoritative
      own(e) == same(e) /\ e.by = item.by
  IN
  /\ item.challenge => Cardinality(Positions(i, staged)) < MaxChallengeEvidence
  /\ Cardinality(Positions(i, same)) <
       IF item.challenge THEN MaxChallengeEvidence
       ELSE IF item.authoritative THEN MaxAuthoritative ELSE MaxSupplemental
  /\ Cardinality(Positions(i, own)) <
       IF item.authoritative THEN MaxPerReporter ELSE MaxPerSubmitter

\* _store_evidence: probe tells whether the type is one of AUTH_EVIDENCE_TYPES;
\* whether the item counts as a report is settled now, by who is authorized now.
\* Nothing bounds the length of the body behind it.
StoreEvidence(i, sender, probe, report, challenged) ==
  LET counts == probe /\ sender \in authorized
      item(size) ==
        [by |-> sender, authoritative |-> counts, challenge |-> challenged,
         report |-> IF counts THEN report ELSE NoReport, size |-> size]
  IN
  \E size \in EntrySizes :
    /\ Admissible(i, item(size))
    /\ evidence' = [evidence EXCEPT ![i] = Append(@, item(size))]

\* The bodies that may stand behind a submission to incident i.
Reports(i) ==
  {Placed(r, s, e) : r \in ReportInputs, s, e \in incident[i].start .. incident[i].end}
ValidReports(i) == {r \in Reports(i) : r.start < r.end} \cup {NoReport}

\* Primary evidence is open until the deadline, or until the window is sealed.
PrimaryOpen(i) == incident[i].status = "OPEN" /\ now < incident[i].evidenceDeadline

\* (Mutant: the window includes its deadline.)
ChallengeOpenAtDeadline(i) ==
  incident[i].status = "CHALLENGED" /\ now <= incident[i].challengeEvidenceDeadline
ChallengeOpen(i) ==
  incident[i].status = "CHALLENGED" /\ now < incident[i].challengeEvidenceDeadline

\* submit_evidence, of any type.
SubmitEvidence(sender, i, probe, report) ==
  /\ PrimaryOpen(i)
  /\ StoreEvidence(i, sender, probe, report, FALSE)
  /\ UNCHANGED <<incidentVars, credits, balance, prose>>

\* attach_incident_report: always of a type that can count.
AttachIncidentReport(sender, i, report) == SubmitEvidence(sender, i, TRUE, report)

\* submit_provider_statement: by the provider, never a report.
SubmitProviderStatement(sender, i) ==
  /\ PrimaryOpen(i)
  /\ Controls(sender, IncidentProvider(i))
  /\ StoreEvidence(i, sender, FALSE, NoReport, FALSE)
  /\ UNCHANGED <<incidentVars, credits, balance, prose>>

\* submit_challenge_evidence
SubmitChallengeEvidence(sender, i, probe, report) ==
  /\ ChallengeOpen(i)
  /\ StoreEvidence(i, sender, probe, report, TRUE)
  /\ UNCHANGED <<incidentVars, credits, balance, prose>>

\* open_incident, with or without a first item of the opener's.
OpenWithEvidence(opener, i, s, start, end, payment) ==
  /\ OpenIncident(opener, i, s, start, end, payment)
  /\ UNCHANGED evidence \/ StoreEvidence(i, opener, FALSE, NoReport, FALSE)
  /\ \E summary \in ProseSizes : prose' = [prose EXCEPT ![i] = summary]

\* challenge_incident, with or without an item of the challenger's.
ChallengeWithEvidence(challenger, i, payment) ==
  /\ ChallengeIncident(challenger, i, payment)
  /\ UNCHANGED evidence \/ StoreEvidence(i, challenger, FALSE, NoReport, TRUE)
  /\ \E reason \in ProseSizes : prose' = [prose EXCEPT ![i] = @ + reason]

-----------------------------------------------------------------------------
(* Adjudication *)

\* _select_evidence_for_adjudication: every report, and the first few others.
\* (Mutant: the first few of all.)
SelectedInOrder(i) == {n \in DOMAIN evidence[i] : n <= MaxRead}
Selected(i) ==
  LET other(e) == ~e.authoritative IN
  {n \in DOMAIN evidence[i] :
     \/ evidence[i][n].authoritative
     \/ Cardinality({m \in Positions(i, other) : m < n}) < MaxRead}

\* The facts of a decision that reports must state: all but unknown metrics.
Material(facts) ==
  {"fact_status", "fault_domain", "scope", "incident_interval", "chain_level_failure"}
    \cup {c \in Clauses : facts.observed[c] # Unknown}

States(report, key, facts) ==
  CASE key = "fact_status" -> report.confirmed = (facts.status = "INCIDENT_CONFIRMED")
    [] key = "fault_domain" -> report.fault = facts.fault
    [] key = "scope" -> report.scope = facts.scope
    [] key = "incident_interval" -> report.start = facts.start /\ report.end = facts.end
    [] key = "chain_level_failure" -> report.chainFailure = facts.chainFailure
    [] OTHER -> report.observed[key] = facts.observed[key]

\* The items among those seen that may be cited for a fact (_supporting_items).
Supporting(i, seen, key, facts) ==
  {n \in seen : /\ evidence[i][n].authoritative
                /\ evidence[i][n].report # NoReport
                /\ States(evidence[i][n].report, key, facts)}

\* How many reporters stand behind a fact: distinct submitters.
\* (Mutant: reports are counted.)
ReportsBehind(i, seen, key, facts) == Cardinality(Supporting(i, seen, key, facts))
ReportersBehind(i, seen, key, facts) ==
  Cardinality({evidence[i][n].by : n \in Supporting(i, seen, key, facts)})

\* _validate_fact_support.  An inconclusive answer needs no support; that of
\* another one is cited fact by fact, by reporters that need not be the same.
\* (Mutant: only metrics need support.)
SupportedMetrics(i, seen, facts) ==
  facts.status # "INCONCLUSIVE" =>
    \A key \in Material(facts) \cap Clauses :
      ReportersBehind(i, seen, key, facts) >= incident[i].quorum
SupportedFacts(i, seen, facts) ==
  facts.status # "INCONCLUSIVE" =>
    /\ facts.sufficiency = "SUFFICIENT"
    /\ \A key \in Material(facts) :
         ReportersBehind(i, seen, key, facts) >= incident[i].quorum

\* What enters the prompt of the items seen: valid reports, and anything that
\* does not count as one.
Usable(i, seen) ==
  {n \in seen : evidence[i][n].authoritative => evidence[i][n].report # NoReport}

\* The two requirements on the length of the prompt (ERR_PROMPT_SIZE).
FitsPrompt(i, seen) ==
  LET taken == Total([n \in DOMAIN evidence[i] |->
                        IF n \in Usable(i, seen) THEN evidence[i][n].size ELSE StatusSize])
  IN  taken <= MaxPrompt /\ taken + prose[i] <= MaxPrompt + PromptRest

\* _reconcile_fetched_evidence: nothing usable, nothing concluded.
Reconciled(i, seen, facts) ==
  IF Usable(i, seen) # {} THEN facts
  ELSE Placed(TimeoutFacts, facts.start, facts.end)

\* What the model may answer, after _validate_resolution_schema.
Answers(i) ==
  {f \in {Placed(g, s, e) :
            g \in FindingInputs, s, e \in incident[i].start .. incident[i].end} :
     f.start <= f.end}

\* _adjudicate, when the items seen were fetched with the recorded hash; it fails
\* where the prompt is too long.
Adjudicated(i, seen) ==
  {f \in {Reconciled(i, seen, g) : g \in Answers(i)} :
     FitsPrompt(i, seen) /\ SupportedFacts(i, seen, f)}

\* _fetch_one_evidence: any of the selected bodies may be missing or have changed.
Fetched(i) == SUBSET Selected(i)

\* _run_resolution_consensus: the validators reach the leader's facts.
Decisions(i) == UNION {Adjudicated(i, seen) : seen \in Fetched(i)}

\* resolve_incident, resolve_challenge
HearIncident(i) ==
  /\ incident[i].status \in {"OPEN", "EVIDENCE_SEALED"}
  /\ \E facts \in Decisions(i) : ResolveIncident(i, facts)
  /\ UNCHANGED evidenceVars
HearChallenge(i) ==
  /\ incident[i].status = "CHALLENGED"
  /\ \E facts \in Decisions(i) : ResolveChallenge(i, facts)
  /\ UNCHANGED evidenceVars

-----------------------------------------------------------------------------
(* Incidents with their evidence.  Withdrawals, the registries and the       *)
(* settings other than the reporters and the resolution policy touch no      *)
(* evidence and are left to Incidents.                                       *)

hearingVars == <<disputeVars, evidence, prose>>

SubmissionStep(i) ==
  \E sender \in Accounts :
    \/ \E probe \in BOOLEAN, report \in ValidReports(i) :
         SubmitEvidence(sender, i, probe, report) \/ SubmitChallengeEvidence(sender, i, probe, report)
    \/ \E report \in ValidReports(i) : AttachIncidentReport(sender, i, report)
    \/ SubmitProviderStatement(sender, i)

IncidentStep(i) ==
  \/ \E opener \in Accounts, s \in Services, lag \in ObservedLags,
        span \in ObservedSpans, payment \in BondPayments :
       OpenWithEvidence(opener, i, s, now - lag - span, now - lag, payment)
  \/ \E challenger \in Accounts, payment \in BondPayments :
       ChallengeWithEvidence(challenger, i, payment)
  \/ HearIncident(i)
  \/ HearChallenge(i)
  \/ /\ \/ \E caller \in Accounts : AcknowledgeIncident(caller, i)
        \/ SealEvidenceWindow(i)
        \/ FinalizeIncident(i)
        \/ TimeoutUndecided(i)
        \/ TimeoutChallenge(i)
     /\ UNCHANGED evidenceVars

HearingNext ==
  \/ Tick /\ UNCHANGED <<governanceVars, registryVars, incidentVars, evidenceVars>>
  \/ /\ \E caller \in Accounts :
          \/ \E a \in ReporterCandidates : AuthorizeReporter(caller, a) \/ RevokeReporter(caller, a)
          \/ \E quorum \in QuorumInputs, timeout \in WindowInputs, span \in SpanInputs :
               SetResolutionPolicy(caller, quorum, timeout, span)
     /\ UNCHANGED <<ledgerVars, registryVars, incidentVars, evidenceVars>>
  \/ /\ \E i \in IncidentIds : SubmissionStep(i) \/ IncidentStep(i)
     /\ UNCHANGED <<now, governanceVars, registryVars>>

HearingInit == DisputeInit /\ EvidenceInit
HearingSpec == HearingInit /\ [][HearingNext]_hearingVars

-----------------------------------------------------------------------------
(* Properties *)

\* Whatever the models answer and whatever can be fetched, an adjudication
\* decides nothing that Incidents does not expect of it: the steps with evidence
\* are steps without.
HearingIsDispute == [][DisputeNext]_disputeVars

\* Behind every fact of a decision that can pay stand, to this day, reports of
\* as many distinct reporters as the incident asked for when it was opened, each
\* authorized when it reported, although reporters were revoked and the quorum
\* was changed since, and although the challenge was heard on other evidence.
QuorumBehindDecision ==
  \A i \in IncidentIds :
    LET facts == resolution[i].facts IN
    resolution[i].exists /\ facts.status # "INCONCLUSIVE" =>
      \A key \in Material(facts) :
        LET cited == Supporting(i, DOMAIN evidence[i], key, facts)
        IN  Cardinality({evidence[i][n].by : n \in cited}) >= incident[i].quorum

\* What a quorum reported can be found.  However many other items crowd the
\* incident before or after, every report is among the items to be fetched; and
\* when an adjudication gets hold of the same report of enough reporters, it may
\* decide as they reported, field by field, whatever else it gets hold of, if all
\* that fits into a prompt.  Only the last part depends on others: an item of
\* theirs with a long text, fetched each time, or a long summary or reason leaves
\* the incident to its timeout.
QuorumIsHeard ==
  \A i \in IncidentIds : \A r \in Reports(i) :
    LET sent(e) == e.authoritative /\ e.report = r
        told == [status |-> IF r.confirmed THEN "INCIDENT_CONFIRMED" ELSE "NO_INCIDENT",
                 fault |-> r.fault, scope |-> r.scope, start |-> r.start, end |-> r.end,
                 observed |-> r.observed, chainFailure |-> r.chainFailure,
                 sufficiency |-> "SUFFICIENT"]
    IN  incident[i].status # "NONE" =>
          /\ Positions(i, sent) \subseteq Selected(i)
          /\ \A seen \in Fetched(i) :
               /\ Cardinality({evidence[i][n].by : n \in seen \cap Positions(i, sent)})
                    >= incident[i].quorum
               /\ FitsPrompt(i, seen)
               /\ told \in Answers(i)
               => told \in Adjudicated(i, seen)

\* Evidence only grows, and never under a decision: from the moment an incident
\* can be decided its primary evidence stands, and from the moment a challenge
\* can be decided all of it does.
EvidenceStands ==
  [][\A i \in IncidentIds :
       /\ Len(evidence'[i]) >= Len(evidence[i])
       /\ SubSeq(evidence'[i], 1, Len(evidence[i])) = evidence[i]
       /\ evidence'[i] # evidence[i] =>
            \/ incident[i].status = "NONE"
            \/ incident[i].status = "OPEN" /\ now < incident[i].evidenceDeadline
            \/ /\ evidence'[i][Len(evidence'[i])].challenge
               /\ \/ incident[i].status = "PRELIMINARY"
                  \/ now < incident[i].challengeEvidenceDeadline]_hearingVars
=============================================================================
