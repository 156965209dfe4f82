------------------------------ MODULE Reporter ------------------------------
(* The reporter worker: one run of runReporterEvidenceSubmission files one    *)
(* artifact for one incident through two contract writes and verifies both    *)
(* from contract state; the attempt table in the database is what a later run *)
(* remembers of it.  The node, the owner of the contract and the operator act *)
(* between any two awaits of the run, and the run may die at any of them.     *)
EXTENDS Naturals, Sequences, FiniteSets, FiniteSetsExt

CONSTANTS
  SubmitType,      \* --evidence-type of submit_evidence
  Strategies,      \* evidenceSubmissionStrategy: "sequential", "parallel"
  CapPerReporter,  \* MAX_AUTHORITATIVE_PER_REPORTER = MAX_SUPPLEMENTAL_PER_SUBMITTER
  MaxSecond,       \* bound: seconds in which a run may start
  MaxTxs,          \* bound: transactions the account ever sends
  MaxTroubles      \* bound: how often trouble of any kind strikes

EvidenceTypes == {"PROBE_REPORT", "THIRD_PARTY_MONITOR", "CUSTOMER_LOG"}
AuthoritativeTypes == {"PROBE_REPORT", "THIRD_PARTY_MONITOR"}
Methods == {"attach_incident_report", "submit_evidence"}
\* A record the same account filed by other means, and its artifact.
Elsewhere == "elsewhere"
NoArtifact == 0
NoTx == 0
NoEvidence == 0

ASSUME ReporterAssumption ==
  /\ SubmitType \in EvidenceTypes
  /\ Strategies \subseteq {"sequential", "parallel"}
  /\ CapPerReporter \in Nat \ {0}
  /\ MaxSecond \in Nat \ {0} /\ MaxTxs \in Nat /\ MaxTroubles \in Nat

VARIABLES
  txs,         \* transactions the account sent, oldest first
  evidence,    \* its records on the incident as latest-nonfinal reads show them
  window,      \* the incident is OPEN and its evidence deadline lies ahead
  authorized,  \* is_authorized_reporter(account)
  attempts,    \* rows of EvidenceSubmissionAttempt, by attemptNo
  run,         \* the process: its local state at the current await
  second,      \* the latest second that named an artifact (observedEnd)
  left         \* how often trouble may still strike

reporterVars == <<txs, evidence, window, authorized, attempts, run, second, left>>

Artifacts == 1..MaxSecond
TxStatus == {"PENDING", "ACCEPTED", "FINALIZED", "FAILED"}
TxType == [method : Methods \cup {Elsewhere}, artifact : Artifacts \cup {NoArtifact},
           status : TxStatus]
RowType == [method : Methods, artifact : Artifacts,
            status : {"FINALIZING", "FINALIZED", "FAILED"}, tx : Nat, evidence : Nat]
StepType == [method : Methods, tx : Nat]
RunType == [pc : {"idle", "planning", "checking", "snapshot", "writing", "saving",
                  "failing"},
            strategy : {"sequential", "parallel"},
            artifact : Artifacts \cup {NoArtifact}, todo : Seq(StepType), sent : Seq(StepType),
            before : Nat, verified : SUBSET Methods, failed : BOOLEAN,
            result : {"NONE", "PASS", "FAIL"}]

IdleRun(artifact, result) ==
  [pc |-> "idle", strategy |-> "sequential", artifact |-> artifact,
   todo |-> <<>>, sent |-> <<>>, before |-> 0, verified |-> {}, failed |-> FALSE,
   result |-> result]

ReporterInit ==
  /\ txs = <<>> /\ evidence = <<>> /\ window = TRUE /\ authorized = TRUE
  /\ attempts = <<>> /\ run = IdleRun(NoArtifact, "NONE") /\ second = 1
  /\ left = MaxTroubles

TroubleStrikes == left > 0 /\ left' = left - 1

(***************************************************************************)
(* The node.                                                               *)
(***************************************************************************)
TypeOf(method) == IF method = "submit_evidence" THEN SubmitType ELSE "PROBE_REPORT"
TxOf(e) == txs[evidence[e].tx]
IsAuthoritativeType(type) == type \in AuthoritativeTypes
Authoritative(e) == IsAuthoritativeType(TypeOf(TxOf(e).method)) /\ evidence[e].authorized
\* How many of the account's records have the provenance that counts for a cap.
Existing(authoritative) ==
  Cardinality({e \in DOMAIN evidence : Authoritative(e) = authoritative})

Broadcast(method, artifact) ==
  txs' = Append(txs, [method |-> method, artifact |-> artifact, status |-> "PENDING"])

Storable(t) ==
  LET authoritative == authorized /\ IsAuthoritativeType(TypeOf(txs[t].method))
  IN  window /\ Existing(authoritative) < CapPerReporter

Accept(t) ==
  /\ txs[t].status = "PENDING" /\ Storable(t)
  /\ txs' = [txs EXCEPT ![t].status = "ACCEPTED"]
  /\ evidence' = Append(evidence, [tx |-> t, authorized |-> authorized])
  /\ UNCHANGED <<window, authorized, attempts, run, second, left>>

\* The contract refuses the write, or the validators never agree on it.
Reject(t) ==
  /\ txs[t].status = "PENDING"
  /\ \/ ~Storable(t) /\ UNCHANGED left
     \/ TroubleStrikes
  /\ txs' = [txs EXCEPT ![t].status = "FAILED"]
  /\ UNCHANGED <<evidence, window, authorized, attempts, run, second>>

Finalize(t) ==
  /\ txs[t].status = "ACCEPTED"
  /\ txs' = [txs EXCEPT ![t].status = "FINALIZED"]
  /\ UNCHANGED <<evidence, window, authorized, attempts, run, second, left>>

CloseWindow ==
  /\ window /\ window' = FALSE
  /\ UNCHANGED <<txs, evidence, authorized, attempts, run, second, left>>

ChangeAuthorization ==
  /\ \/ authorized /\ TroubleStrikes
     \/ ~authorized /\ UNCHANGED left
  /\ authorized' = ~authorized
  /\ UNCHANGED <<txs, evidence, window, attempts, run, second>>

\* (Bound: both writes of a run still fit into MaxTxs.)
FileElsewhere ==
  /\ TroubleStrikes
  /\ Len(txs) + Cardinality(Methods) < MaxTxs
  /\ Broadcast(Elsewhere, NoArtifact)
  /\ UNCHANGED <<evidence, window, authorized, attempts, run, second>>

(***************************************************************************)
(* The attempt table.                                                      *)
(***************************************************************************)
Row(status, method, tx, e) ==
  [method |-> method, artifact |-> run.artifact,
   status |-> IF status = "SUBMITTED" THEN "FINALIZING" ELSE status,
   tx |-> tx, evidence |-> e]

RowsIn(table, method) ==
  {i \in DOMAIN table : table[i].method = method /\ table[i].artifact = run.artifact}
RowsOf(method) == RowsIn(attempts, method)

(* (Mutant: every save adds a row.) *)
AppendedIn(table, status, method, tx, e) == Append(table, Row(status, method, tx, e))

\* The table after attempts.save: the last row of the artifact and method is
\* advanced, unless there is none or a new write follows a decided one.
SavedIn(table, status, method, tx, e) ==
  LET mine == RowsIn(table, method)
      row == Row(status, method, tx, e)
  IN  IF mine = {} \/ (status = "SUBMITTED" /\ table[Max(mine)].status # "FINALIZING")
      THEN Append(table, row)
      ELSE [table EXCEPT ![Max(mine)] = row]
Saved(status, method, tx, e) == SavedIn(attempts, status, method, tx, e)

(***************************************************************************)
(* One run.                                                                *)
(***************************************************************************)
\* The preflight passes and the artifact is resolved: the one of the last
\* attempt on the incident, else a new one, named by the second in which the run
\* starts.  A refused run changes nothing.  Seconds that name nothing are not told
\* apart.
\* (Bound: both writes still fit into MaxTxs.)
StartRun ==
  /\ run.pc = "idle" /\ authorized /\ window
  /\ Len(txs) + Cardinality(Methods) <= MaxTxs
  /\ \E strategy \in Strategies, s \in Artifacts \cap {second, second + 1} :
       /\ s > second => attempts = <<>> /\ \E t \in DOMAIN txs : txs[t].artifact = second
       /\ second' = s
       /\ run' = [IdleRun(IF attempts = <<>> THEN s ELSE attempts[Len(attempts)].artifact, "NONE")
                    EXCEPT !.pc = "planning", !.strategy = strategy]
  /\ UNCHANGED <<txs, evidence, window, authorized, attempts, left>>

(* (Mutant: the evidence type is not compared.) *)
MatchesUri(e, method, artifact) == TxOf(e).artifact = artifact

Matches(e, method, artifact) ==
  TxOf(e).artifact = artifact /\ TypeOf(TxOf(e).method) = TypeOf(method)

Matching(method) == {e \in DOMAIN evidence : Matches(e, method, run.artifact)}

(* (Mutant: the authorization at submission is not verified.) *)
ReadsBackAnyway(e) == TRUE

\* verifyEvidenceReadBack: what can differ once the record matches.
ReadsBack(e) == evidence[e].authorized

(* (Mutant: only the chain is consulted.) *)
UnresolvedForgotten(method) == {}

(* (Mutant: a failed attempt is still awaited.) *)
UnresolvedOrFailed(method) ==
  {i \in RowsOf(method) : attempts[i].status # "FINALIZED" /\ attempts[i].tx # NoTx}

Unresolved(method) ==
  {i \in RowsOf(method) : attempts[i].status = "FINALIZING" /\ attempts[i].tx # NoTx}

\* A method is done when its record reads back; otherwise it is awaited under
\* the transaction of its unresolved attempt, or written.
ResolvePlan ==
  LET done == {m \in Methods : Matching(m) # {} /\ ReadsBack(Min(Matching(m)))}
      tx(m) == IF Matching(m) = {} /\ Unresolved(m) # {}
               THEN attempts[Min(Unresolved(m))].tx ELSE NoTx
      steps(m) == IF m \in done THEN <<>> ELSE <<[method |-> m, tx |-> tx(m)]>>
  IN  /\ run.pc = "planning"
      /\ run' = [run EXCEPT
           !.pc = "checking", !.verified = done,
           !.failed = \E m \in Methods \ done : Matching(m) # {},
           !.todo = steps("attach_incident_report") \o steps("submit_evidence")]
      /\ UNCHANGED <<txs, evidence, window, authorized, attempts, second, left>>

Pending(authoritative) ==
  Cardinality({i \in DOMAIN run.todo :
                 IsAuthoritativeType(TypeOf(run.todo[i].method)) = authoritative})

\* secondWritePrecondition, asked of submit_evidence alone.
Blocked ==
  LET authoritative == IsAuthoritativeType(SubmitType)
  IN  ~window \/ Existing(authoritative) + Pending(authoritative) >= CapPerReporter

\* submit_evidence, if it is to be done, comes last.
CheckSecondWrite ==
  LET last == Len(run.todo)
      skipped == last > 0 /\ run.todo[last].method = "submit_evidence" /\ Blocked
  IN  /\ run.pc = "checking"
      /\ run' = [run EXCEPT
           !.pc = "snapshot",
           !.todo = IF skipped THEN SubSeq(@, 1, last - 1) ELSE @,
           !.failed = @ \/ skipped]
      /\ UNCHANGED <<txs, evidence, window, authorized, attempts, second, left>>

\* preWriteIds: read-back will look at younger records only.
TakeSnapshot ==
  /\ run.pc = "snapshot"
  /\ run' = [run EXCEPT !.pc = "writing", !.before = Len(evidence)]
  /\ UNCHANGED <<txs, evidence, window, authorized, attempts, second, left>>

MayWrite ==
  /\ run.pc = "writing" /\ run.todo # <<>>
  /\ run.strategy = "parallel" \/ run.sent = <<>>

\* The local state once the step at the head is in flight, or has failed: the
\* sequential strategy stops at a failure, the parallel one goes on.
InFlight(tx) ==
  [run EXCEPT !.pc = "writing", !.todo = Tail(@),
              !.sent = Append(@, [method |-> Head(run.todo).method, tx |-> tx])]
WriteFailed ==
  [run EXCEPT !.pc = "writing", !.failed = TRUE,
              !.todo = IF run.strategy = "sequential" THEN <<>> ELSE Tail(@)]

Reconcile ==
  /\ MayWrite /\ Head(run.todo).tx # NoTx
  /\ run' = InFlight(Head(run.todo).tx)
  /\ UNCHANGED <<txs, evidence, window, authorized, attempts, second, left>>

\* writer.send returns the hash; the row is written at the next await.
Send ==
  /\ MayWrite /\ Head(run.todo).tx = NoTx
  /\ Broadcast(Head(run.todo).method, run.artifact)
  /\ run' = [run EXCEPT !.pc = "saving", !.todo[1].tx = Len(txs')]
  /\ UNCHANGED <<evidence, window, authorized, attempts, second, left>>

SaveSubmitted ==
  /\ run.pc = "saving"
  /\ attempts' = Saved("SUBMITTED", Head(run.todo).method, Head(run.todo).tx, NoEvidence)
  /\ run' = InFlight(Head(run.todo).tx)
  /\ UNCHANGED <<txs, evidence, window, authorized, second, left>>

\* writer.send throws, before or after the node took the transaction.
SendThrows ==
  /\ MayWrite /\ Head(run.todo).tx = NoTx /\ TroubleStrikes
  /\ Broadcast(Head(run.todo).method, run.artifact) \/ UNCHANGED txs
  /\ run' = [run EXCEPT !.pc = "failing"]
  /\ UNCHANGED <<evidence, window, authorized, attempts, second>>

\* attempts.save throws, before or after its row was committed.
SaveThrows ==
  /\ run.pc = "saving" /\ TroubleStrikes
  /\ \/ UNCHANGED attempts
     \/ attempts' = Saved("SUBMITTED", Head(run.todo).method, Head(run.todo).tx, NoEvidence)
  /\ run' = [run EXCEPT !.pc = "failing"]
  /\ UNCHANGED <<txs, evidence, window, authorized, second>>

\* The catch of sendStep saves a failure that names no transaction, whichever of
\* the two calls threw.
SaveFailed ==
  /\ run.pc = "failing"
  /\ attempts' = Saved("FAILED", Head(run.todo).method, NoTx, NoEvidence)
  /\ run' = WriteFailed
  /\ UNCHANGED <<txs, evidence, window, authorized, second, left>>

MaySettle ==
  /\ run.pc = "writing" /\ run.sent # <<>>
  /\ run.strategy = "sequential" \/ run.todo = <<>>

Settled(status, e, ok) ==
  LET step == Head(run.sent)
  IN  /\ attempts' = Saved(status, step.method, step.tx, e)
      /\ run' = [run EXCEPT
           !.sent = Tail(@),
           !.verified = IF ok THEN @ \cup {step.method} ELSE @,
           !.failed = @ \/ ~ok,
           !.todo = IF ok THEN @ ELSE <<>>]
      /\ UNCHANGED <<txs, evidence, window, authorized, second, left>>

(* (Mutant: the wait only expires for a transaction that was accepted.) *)
WaitExpiresOnceAccepted ==
  /\ MaySettle /\ txs[Head(run.sent).tx].status = "ACCEPTED"
  /\ Settled("SUBMITTED", NoEvidence, FALSE)

\* The bounded wait expires: NOT_VERIFIED.
WaitExpires ==
  /\ MaySettle /\ txs[Head(run.sent).tx].status \in {"PENDING", "ACCEPTED"}
  /\ Settled("SUBMITTED", NoEvidence, FALSE)

WriteRejected ==
  /\ MaySettle /\ txs[Head(run.sent).tx].status = "FAILED"
  /\ Settled("FAILED", NoEvidence, FALSE)

\* The first younger record that matches is the one read back.
WriteFinalized ==
  LET young == {e \in Matching(Head(run.sent).method) : e > run.before}
  IN  /\ MaySettle /\ txs[Head(run.sent).tx].status = "FINALIZED"
      /\ IF young = {} THEN Settled("FINALIZED", NoEvidence, FALSE)
         ELSE Settled("FINALIZED", Min(young), ReadsBack(Min(young)))

Passed == ~run.failed /\ run.verified = Methods

FinishRun ==
  /\ run.pc = "writing" /\ run.todo = <<>> /\ run.sent = <<>>
  /\ run' = IdleRun(run.artifact, IF Passed THEN "PASS" ELSE "FAIL")
  /\ UNCHANGED <<txs, evidence, window, authorized, attempts, second, left>>

\* The process dies, or a read it does not guard throws.
Crash ==
  /\ run.pc # "idle" /\ TroubleStrikes
  /\ run' = IdleRun(run.artifact, "FAIL")
  /\ UNCHANGED <<txs, evidence, window, authorized, attempts, second>>

RunStep ==
  \/ ResolvePlan \/ CheckSecondWrite \/ TakeSnapshot
  \/ Reconcile \/ Send \/ SaveSubmitted \/ SaveFailed
  \/ WaitExpires \/ WriteRejected \/ WriteFinalized
  \/ FinishRun

TroubleStep == SendThrows \/ SaveThrows \/ Crash

NodeStep == \E t \in DOMAIN txs : Accept(t) \/ Reject(t) \/ Finalize(t)

ReporterNext ==
  \/ StartRun \/ RunStep \/ TroubleStep
  \/ NodeStep \/ CloseWindow \/ ChangeAuthorization \/ FileElsewhere

ReporterSpec == ReporterInit /\ [][ReporterNext]_reporterVars

\* A run that was started goes on; nothing is asked of the node.
RunFairness == WF_reporterVars(RunStep)

\* The operator starts again, and the node decides what it was sent: it is never
\* idle while a transaction waits, and each takes at most two of its steps.
RetryFairness == WF_reporterVars(StartRun) /\ WF_reporterVars(NodeStep)

RunFairSpec == ReporterSpec /\ RunFairness

-----------------------------------------------------------------------------
\* The record is of this artifact and of the type the method stores.
RecordOf(e, method, artifact) ==
  TxOf(e).artifact = artifact /\ TypeOf(TxOf(e).method) = TypeOf(method)

\* It was stored while the reporter was revoked, so it cannot be read back, now
\* or later: the worker writes anew.
StoredRevoked(method, artifact) ==
  \E e \in DOMAIN evidence : RecordOf(e, method, artifact) /\ ~evidence[e].authorized

\* Every variable has its type.
ReporterTypeOK ==
  /\ txs \in Seq(TxType) /\ Len(txs) <= MaxTxs
  /\ evidence \in Seq([tx : DOMAIN txs, authorized : BOOLEAN])
  /\ window \in BOOLEAN /\ authorized \in BOOLEAN
  /\ attempts \in Seq(RowType)
  /\ run \in RunType
  /\ second \in Artifacts /\ left \in 0..MaxTroubles

\* What the table says of an attempt is so: a row that fails a transaction
\* belongs to one the chain failed, a finalized row to a finalized one, and the
\* record a row names is of its artifact and its method's type (settleStep).
RowsAreTrue ==
  \A i \in DOMAIN attempts :
    LET row == attempts[i] IN
    /\ row.tx # NoTx => row.tx \in DOMAIN txs /\ txs[row.tx].method = row.method
    /\ row.status = "FAILED" /\ row.tx # NoTx => txs[row.tx].status = "FAILED"
    /\ row.status = "FINALIZED" => row.tx # NoTx /\ txs[row.tx].status = "FINALIZED"
    /\ row.evidence # NoEvidence =>
         /\ row.status = "FINALIZED"
         /\ row.evidence \in DOMAIN evidence
         /\ RecordOf(row.evidence, row.method, row.artifact)

\* A run that passes leaves a record of each type on the incident that the
\* contract stored under the reporter's authorization, however many runs,
\* crashes, revocations and lost answers came before
\* (runReporterEvidenceSubmission, resolveAlreadyOnchainSteps, settleStep).
PassIsProven ==
  run.result = "PASS" =>
    \A m \in Methods : \E e \in DOMAIN evidence :
      RecordOf(e, m, run.artifact) /\ evidence[e].authorized

\* The table never remembers two live transactions of one artifact and method:
\* what a row still awaits, or knows finalized, is not written again, unless it
\* was stored without authorization (planEvidenceSubmissions, createPrismaAttemptStore).
OneLiveAttempt ==
  \A i, j \in DOMAIN attempts :
    /\ attempts[i].method = attempts[j].method
    /\ attempts[i].artifact = attempts[j].artifact
    /\ attempts[i].tx # NoTx /\ attempts[j].tx # NoTx
    /\ attempts[i].status # "FAILED" /\ attempts[j].status # "FAILED"
    /\ ~StoredRevoked(attempts[i].method, attempts[i].artifact)
    => i = j

\* Unless so, a live transaction the table knew of stays known: no retry, late
\* answer or failure of a later run writes another attempt over it
\* (planEvidenceSubmissions, createPrismaAttemptStore).  One save does, and only
\* over the row of its own write: where the row was committed but its save threw,
\* the catch of sendStep replaces it by a failure without a hash.
LiveAttemptsKept ==
  [][\A i \in DOMAIN attempts :
       LET t == attempts[i].tx IN
       /\ t # NoTx /\ txs[t].status \in {"PENDING", "ACCEPTED"}
       /\ ~StoredRevoked(attempts[i].method, attempts[i].artifact)
       /\ ~(run.pc = "failing" /\ Head(run.todo).tx = t)
       => \E j \in DOMAIN attempts' : attempts'[j].tx = t]_reporterVars

\* A run ends although the node may never decide its transactions
\* (TransactionTracker.waitForFinalization).
EveryRunEnds == []<>(run.pc = "idle")

\* If the operator retries and the node decides, both records arrive in the end,
\* whichever crash, lost answer or rejected write befell (at most one of them),
\* while the window stays open and the reporter authorized.
EvidenceArrives ==
  RetryFairness /\ [](window /\ authorized /\ left >= MaxTroubles - 1) =>
    <>(\A m \in Methods : \E e \in DOMAIN evidence : TxOf(e).method = m)

\* "so a retry never duplicates evidence" (reporter-submit.ts): the worker's
\* records on an incident differ in their method.
NoDuplicateEvidence ==
  \A e, f \in DOMAIN evidence : TxOf(e).method = TxOf(f).method => e = f
=============================================================================
