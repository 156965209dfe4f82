--------------------------- MODULE ReporterProofs ---------------------------
(* Proofs about the reporter worker: what its attempt table says is so, it    *)
(* never remembers two live transactions of one write, a live one stays       *)
(* known, and a run that passes is proven by the chain.  The chain, the table  *)
(* and the steps of the run have their lemmas; then one lemma per action.      *)
EXTENDS Reporter, SequenceTheorems, FiniteSetTheorems, WellFoundedInduction, TLAPS

LEMMA LeastNumber ==
  ASSUME NEW S \in SUBSET Nat, S # {}
  PROVE  \E x \in S : \A y \in S : x <= y
<1> DEFINE R == OpToRel(<, Nat)
<1>1. IsWellFoundedOn(R, Nat)
  BY NatLessThanWellFounded
<1> HIDE DEF R
<1>2. PICK x \in S : \A y \in S : ~ (<<y, x>> \in R)
  BY <1>1, WFMin
<1>3. \A y \in S : ~(y < x)
  BY <1>2 DEF R, OpToRel
<1> QED
  BY <1>3

LEMMA MinIs ==
  ASSUME NEW S \in SUBSET Nat, S # {}
  PROVE  Min(S) \in S /\ \A y \in S : Min(S) <= y
BY LeastNumber DEF Min

LEMMA MaxIs ==
  ASSUME NEW S \in SUBSET Nat, S # {}, NEW n \in Nat, \A y \in S : y <= n
  PROVE  Max(S) \in S /\ \A y \in S : y <= Max(S)
<1> DEFINE gaps == {n - y : y \in S}
<1>1. \A y \in S : n - y \in Nat
  OBVIOUS
<1>2. gaps \in SUBSET Nat /\ gaps # {}
  BY <1>1
<1>3. \E g \in gaps : \A h \in gaps : g <= h
  <2> HIDE DEF gaps
  <2> QED
    BY <1>2, LeastNumber
<1>4. PICK x \in S : \A y \in S : n - x <= n - y
  BY <1>3
<1>5. \A y \in S : x >= y
  BY <1>4
<1> QED
  BY <1>5 DEF Max
-----------------------------------------------------------------------------
(* The invariant *)

\* A row that is not known to have failed, of a transaction.
Live(i) == attempts[i].tx # NoTx /\ attempts[i].status # "FAILED"

SameWrite(i, j) ==
  attempts[i].method = attempts[j].method /\ attempts[i].artifact = attempts[j].artifact

\* Of the rows of an artifact and method only the last can be live: a save that
\* adds a row finds none that is.
LastIsLive ==
  \A i, j \in DOMAIN attempts :
    /\ SameWrite(i, j) /\ Live(i)
    /\ ~StoredRevoked(attempts[i].method, attempts[i].artifact)
    => j <= i

\* Rows tell the truth, and the transaction they name carries their artifact.
RowsAreTheirs ==
  /\ RowsAreTrue
  /\ \A i \in DOMAIN attempts :
       attempts[i].tx # NoTx => txs[attempts[i].tx].artifact = attempts[i].artifact

\* What was accepted is on the incident.
AcceptedIsStored ==
  \A t \in DOMAIN txs :
    txs[t].status \in {"ACCEPTED", "FINALIZED"} => \E e \in DOMAIN evidence : evidence[e].tx = t

Proven(m) ==
  \E e \in DOMAIN evidence : RecordOf(e, m, run.artifact) /\ evidence[e].authorized

\* No row of the run's artifact and method m is live.
Unwritten(m) ==
  \/ StoredRevoked(m, run.artifact)
  \/ \A i \in RowsOf(m) : ~Live(i)

\* A step names the transaction of the live rows there are: a step that is to be
\* written finds none.
Covered(step) ==
  \/ StoredRevoked(step.method, run.artifact)
  \/ \A i \in RowsOf(step.method) : Live(i) => attempts[i].tx = step.tx

Sound(step) ==
  /\ step.tx # NoTx =>
       /\ step.tx \in DOMAIN txs
       /\ txs[step.tx].method = step.method /\ txs[step.tx].artifact = run.artifact
  /\ Covered(step)

StepsSound ==
  /\ \A k \in DOMAIN run.todo : Sound(run.todo[k])
  /\ \A k \in DOMAIN run.sent : Sound(run.sent[k]) /\ run.sent[k].tx # NoTx
  /\ run.pc = "saving" =>
       run.todo # <<>> /\ run.todo[1].tx # NoTx /\ Unwritten(run.todo[1].method)
  /\ run.pc = "failing" => run.todo # <<>>

Apart(steps) == \A j, k \in DOMAIN steps : steps[j].method = steps[k].method => j = k

\* No method is in two steps.
StepsApart ==
  /\ Apart(run.todo) /\ Apart(run.sent)
  /\ \A j \in DOMAIN run.todo, k \in DOMAIN run.sent : run.todo[j].method # run.sent[k].method
  /\ run.pc \in {"planning", "checking", "snapshot"} => run.sent = <<>>

\* Every write of the run still fits.
RoomLeft ==
  /\ run.pc # "idle" => run.artifact \in Artifacts
  /\ Len(run.todo) <= 2
  /\ run.pc = "planning" => Len(txs) + 2 <= MaxTxs
  /\ run.pc \in {"checking", "snapshot", "writing"} => Len(txs) + Len(run.todo) <= MaxTxs
  /\ run.pc \in {"saving", "failing"} => Len(txs) + Len(run.todo) <= MaxTxs + 1

VerifiedIsProven == \A m \in run.verified : Proven(m)

ReporterInv ==
  /\ ReporterTypeOK /\ RoomLeft /\ StepsApart /\ StepsSound
  /\ RowsAreTheirs /\ AcceptedIsStored /\ LastIsLive
  /\ VerifiedIsProven /\ PassIsProven
-----------------------------------------------------------------------------
(* The chain *)

ChainTypes ==
  txs \in Seq(TxType) /\ evidence \in Seq([tx : DOMAIN txs, authorized : BOOLEAN])

\* Transactions keep what they carry and how they ended, records stay.
ChainGrows ==
  /\ \A t \in DOMAIN txs :
       /\ t \in DOMAIN txs'
       /\ txs'[t].method = txs[t].method /\ txs'[t].artifact = txs[t].artifact
       /\ txs[t].status \in {"FAILED", "FINALIZED"} => txs'[t].status = txs[t].status
  /\ \A e \in DOMAIN evidence : e \in DOMAIN evidence' /\ evidence'[e] = evidence[e]

ChainKept == ChainGrows /\ ChainTypes' /\ AcceptedIsStored'

LEMMA ChainRests ==
  ASSUME ChainTypes, AcceptedIsStored, UNCHANGED <<txs, evidence>>
  PROVE  ChainKept
BY DEF ChainTypes, AcceptedIsStored, ChainGrows, ChainKept

LEMMA BroadcastKeeps ==
  ASSUME ChainTypes, AcceptedIsStored, UNCHANGED evidence,
         NEW method \in Methods \cup {Elsewhere}, NEW artifact \in Artifacts \cup {NoArtifact},
         Broadcast(method, artifact)
  PROVE  /\ ChainKept /\ Len(txs') = Len(txs) + 1
         /\ txs'[Len(txs')].method = method /\ txs'[Len(txs')].artifact = artifact
<1> DEFINE new == [method |-> method, artifact |-> artifact, status |-> "PENDING"]
<1>1. new \in TxType
  BY DEF TxType, TxStatus
<1>2. txs \in Seq(TxType) /\ evidence \in Seq([tx : DOMAIN txs, authorized : BOOLEAN])
  BY DEF ChainTypes
<1>3. txs' = Append(txs, new)
  BY DEF Broadcast
<1>4. /\ new.method = method /\ new.artifact = artifact /\ new.status = "PENDING"
  OBVIOUS
<1> HIDE DEF new
<1>5. /\ txs' \in Seq(TxType) /\ Len(txs') = Len(txs) + 1
      /\ \A t \in 1 .. Len(txs) : txs'[t] = txs[t]
      /\ txs'[Len(txs) + 1] = new
  BY <1>1, <1>2, <1>3, AppendProperties
<1>6. /\ DOMAIN txs = 1 .. Len(txs) /\ Len(txs) \in Nat
      /\ DOMAIN txs' = 1 .. Len(txs) + 1
  BY <1>2, <1>5, LenProperties
<1>7. DOMAIN txs \subseteq DOMAIN txs'
  BY <1>6
<1>8. evidence' \in Seq([tx : DOMAIN txs', authorized : BOOLEAN])
  <2>1. [tx : DOMAIN txs, authorized : BOOLEAN] \subseteq [tx : DOMAIN txs', authorized : BOOLEAN]
    BY <1>7
  <2> QED
    BY <1>2, <2>1, SeqMonotonic
<1>9. ChainGrows
  BY <1>5, <1>6 DEF ChainGrows
<1>10. AcceptedIsStored'
  BY <1>4, <1>5, <1>6 DEF AcceptedIsStored
<1> QED
  BY <1>4, <1>5, <1>8, <1>9, <1>10 DEF ChainKept, ChainTypes

LEMMA NodeKeeps ==
  ASSUME ChainTypes, AcceptedIsStored, authorized \in BOOLEAN,
         NEW t \in DOMAIN txs, Accept(t) \/ Reject(t) \/ Finalize(t)
  PROVE  ChainKept /\ Len(txs') = Len(txs)
<1>1. txs \in Seq(TxType) /\ evidence \in Seq([tx : DOMAIN txs, authorized : BOOLEAN])
  BY DEF ChainTypes
<1>2. /\ DOMAIN txs = 1 .. Len(txs) /\ Len(txs) \in Nat
      /\ \A u \in DOMAIN txs : txs[u] \in TxType
  BY <1>1, LenProperties, ElementOfSeq
<1> PICK status \in TxStatus :
      /\ txs' = [txs EXCEPT ![t].status = status]
      /\ status \in {"ACCEPTED", "FINALIZED"} =>
           \/ txs[t].status \in {"ACCEPTED", "FINALIZED"}
           \/ evidence' = Append(evidence, [tx |-> t, authorized |-> authorized])
  BY DEF Accept, Reject, Finalize, TxStatus
<1>3. txs[t].status \notin {"FAILED", "FINALIZED"}
  BY DEF Accept, Reject, Finalize
<1>4. /\ DOMAIN txs' = DOMAIN txs
      /\ txs'[t] = [txs[t] EXCEPT !.status = status]
      /\ \A u \in DOMAIN txs : u # t => txs'[u] = txs[u]
  BY <1>2
<1>5. [txs[t] EXCEPT !.status = status] \in TxType
  BY <1>2 DEF TxType
<1>6. txs' \in Seq(TxType) /\ Len(txs') = Len(txs)
  BY <1>1, <1>2, <1>5, ExceptSeq
<1>7. /\ txs'[t].method = txs[t].method /\ txs'[t].artifact = txs[t].artifact
      /\ txs'[t].status = status
  BY <1>2, <1>4 DEF TxType
<1>8. \/ UNCHANGED evidence
      \/ evidence' = Append(evidence, [tx |-> t, authorized |-> authorized])
         /\ authorized \in BOOLEAN
  BY DEF Accept, Reject, Finalize
<1>9. /\ evidence' \in Seq([tx : DOMAIN txs, authorized : BOOLEAN])
      /\ \A e \in DOMAIN evidence : e \in DOMAIN evidence' /\ evidence'[e] = evidence[e]
      /\ \/ UNCHANGED evidence
         \/ \E e \in DOMAIN evidence' : evidence'[e].tx = t
  <2>1. CASE UNCHANGED evidence
    BY <1>1, <2>1
  <2>2. CASE /\ evidence' = Append(evidence, [tx |-> t, authorized |-> authorized])
             /\ authorized \in BOOLEAN
    <3> DEFINE item == [tx |-> t, authorized |-> authorized]
    <3>1. item \in [tx : DOMAIN txs, authorized : BOOLEAN] /\ item.tx = t
      BY <2>2
    <3> HIDE DEF item
    <3>2. /\ evidence' = Append(evidence, item)
      BY <2>2 DEF item
    <3>3. /\ evidence' \in Seq([tx : DOMAIN txs, authorized : BOOLEAN])
          /\ Len(evidence') = Len(evidence) + 1
          /\ \A e \in 1 .. Len(evidence) : evidence'[e] = evidence[e]
          /\ evidence'[Len(evidence) + 1] = item
      BY <1>1, <3>1, <3>2, AppendProperties
    <3>4. /\ DOMAIN evidence = 1 .. Len(evidence) /\ Len(evidence) \in Nat
          /\ DOMAIN evidence' = 1 .. Len(evidence) + 1
      BY <1>1, <3>3, LenProperties
    <3> QED
      BY <3>1, <3>3, <3>4
  <2> QED
    BY <1>8, <2>1, <2>2
<1>10. ChainGrows
  BY <1>3, <1>4, <1>7, <1>9 DEF ChainGrows
<1>11. AcceptedIsStored'
  <2> SUFFICES ASSUME NEW u \in DOMAIN txs', txs'[u].status \in {"ACCEPTED", "FINALIZED"}
               PROVE  \E e \in DOMAIN evidence' : evidence'[e].tx = u
    BY DEF AcceptedIsStored
  <2>1. CASE txs[u].status \in {"ACCEPTED", "FINALIZED"}
    BY <1>4, <1>9, <2>1 DEF AcceptedIsStored
  <2>2. CASE txs[u].status \notin {"ACCEPTED", "FINALIZED"}
    <3>1. u = t /\ evidence' = Append(evidence, [tx |-> t, authorized |-> authorized])
      BY <1>4, <1>7, <2>2
    <3>2. evidence' # evidence
      BY <1>1, <3>1, AppendProperties, LenProperties
    <3> QED
      BY <1>9, <3>1, <3>2
  <2> QED
    BY <2>1, <2>2
<1> QED
  BY <1>4, <1>6, <1>9, <1>10, <1>11 DEF ChainKept, ChainTypes

\* The steps by which the chain does not move.
OffChain ==
  \/ CloseWindow \/ ChangeAuthorization \/ StartRun \/ ResolvePlan \/ CheckSecondWrite
  \/ TakeSnapshot \/ Reconcile \/ SaveSubmitted \/ SaveThrows \/ SaveFailed
  \/ WaitExpires \/ WriteRejected \/ WriteFinalized \/ FinishRun \/ Crash
  \/ UNCHANGED reporterVars

LEMMA OffChainRests ==
  ASSUME OffChain
  PROVE  UNCHANGED <<txs, evidence>>
BY DEF OffChain, CloseWindow, ChangeAuthorization, StartRun, ResolvePlan, CheckSecondWrite,
       TakeSnapshot, Reconcile, SaveSubmitted, SaveThrows, SaveFailed, WaitExpires, WriteRejected,
       WriteFinalized, Settled, FinishRun, Crash, reporterVars

LEMMA ReporterSteps ==
  ASSUME [ReporterNext]_reporterVars
  PROVE  OffChain \/ NodeStep \/ FileElsewhere \/ Send \/ SendThrows
BY Zenon DEF ReporterNext, OffChain, RunStep, TroubleStep

LEMMA ChainStep ==
  ASSUME ReporterTypeOK, AcceptedIsStored, RoomLeft, StepsSound, [ReporterNext]_reporterVars
  PROVE  ChainKept
<1>1. ChainTypes /\ authorized \in BOOLEAN
  BY DEF ReporterTypeOK, ChainTypes
<1>2. CASE OffChain
  BY <1>1, <1>2, OffChainRests, ChainRests
<1>3. CASE NodeStep
  BY <1>1, <1>3, NodeKeeps DEF NodeStep
<1>4. CASE FileElsewhere
  BY <1>1, <1>4, BroadcastKeeps DEF FileElsewhere
<1>5. CASE Send \/ SendThrows
  <2>1. CASE UNCHANGED txs
    BY <1>1, <1>5, <2>1, ChainRests DEF Send, SendThrows
  <2>2. CASE Broadcast(Head(run.todo).method, run.artifact)
    <3>1. run.todo \in Seq(StepType) /\ run.todo # <<>>
      BY <1>5 DEF Send, SendThrows, MayWrite, ReporterTypeOK, RunType
    <3>2. Head(run.todo) \in StepType
      BY <3>1, HeadTailProperties
    <3>3. Head(run.todo).method \in Methods
      BY <3>2 DEF StepType
    <3>4. run.artifact \in Artifacts
      BY <1>5 DEF Send, SendThrows, MayWrite, RoomLeft
    <3> QED
      BY <1>1, <1>5, <2>2, <3>3, <3>4, BroadcastKeeps DEF Send, SendThrows
  <2> QED
    BY <1>5, <2>1, <2>2 DEF Send, SendThrows
<1> QED
  BY <1>2, <1>3, <1>4, <1>5, ReporterSteps
-----------------------------------------------------------------------------
(* The table *)

\* The table that a save of row leaves behind: the row is at n, the last of its
\* artifact and method.
SavedAt(table, new, row, n) ==
  /\ new \in Seq(RowType) /\ n \in DOMAIN new /\ new[n] = row
  /\ \A i \in DOMAIN table : i \in DOMAIN new
  /\ \A i \in DOMAIN new : i # n => i \in DOMAIN table /\ new[i] = table[i]
  /\ \A i \in DOMAIN new :
       new[i].method = row.method /\ new[i].artifact = row.artifact => i <= n
  /\ n \in DOMAIN table => table[n].method = row.method /\ table[n].artifact = row.artifact

\* When a save adds a row.
Adds(table, status, method) ==
  \/ RowsIn(table, method) = {}
  \/ /\ status = "SUBMITTED"
     /\ \E i \in RowsIn(table, method) :
          /\ \A j \in RowsIn(table, method) : j <= i
          /\ table[i].status # "FINALIZING"

LEMMA RowIs ==
  ASSUME run.artifact \in Artifacts, NEW method \in Methods, NEW tx \in Nat, NEW e \in Nat,
         NEW status \in {"SUBMITTED", "FINALIZED", "FAILED"}
  PROVE  /\ Row(status, method, tx, e) \in RowType
         /\ Row(status, method, tx, e).method = method
         /\ Row(status, method, tx, e).artifact = run.artifact
         /\ Row(status, method, tx, e).tx = tx
         /\ Row(status, method, tx, e).evidence = e
         /\ Row(status, method, tx, e).status = IF status = "SUBMITTED" THEN "FINALIZING" ELSE status
BY DEF Row, RowType

LEMMA SavedIs ==
  ASSUME run.artifact \in Artifacts, NEW table \in Seq(RowType),
         NEW method \in Methods, NEW tx \in Nat, NEW e \in Nat,
         NEW status \in {"SUBMITTED", "FINALIZED", "FAILED"}
  PROVE  \E n \in DOMAIN SavedIn(table, status, method, tx, e) :
           /\ SavedAt(table, SavedIn(table, status, method, tx, e), Row(status, method, tx, e), n)
           /\ n \notin DOMAIN table => Adds(table, status, method)
<1> DEFINE row == Row(status, method, tx, e)
           mine == RowsIn(table, method)
           new == SavedIn(table, status, method, tx, e)
           adds == mine = {} \/ (status = "SUBMITTED" /\ table[Max(mine)].status # "FINALIZING")
<1>1. row \in RowType /\ row.method = method /\ row.artifact = run.artifact
  BY RowIs
<1>2. new = IF adds THEN Append(table, row) ELSE [table EXCEPT ![Max(mine)] = row]
  BY DEF SavedIn
<1>3. Len(table) \in Nat /\ DOMAIN table = 1 .. Len(table)
  BY LenProperties
<1>4. /\ mine \in SUBSET Nat /\ mine \subseteq DOMAIN table
      /\ \A i \in mine : i <= Len(table)
  BY <1>3 DEF RowsIn
<1>5. mine # {} => Max(mine) \in mine /\ \A i \in mine : i <= Max(mine)
  BY <1>3, <1>4, MaxIs
<1>6. \A i \in DOMAIN table :
        i \in mine <=> table[i].method = row.method /\ table[i].artifact = row.artifact
  BY <1>1 DEF RowsIn
<1> HIDE DEF row, new, mine
<1>7. CASE adds
  <2>1. new = Append(table, row)
    BY <1>2, <1>7
  <2>2. /\ new \in Seq(RowType) /\ Len(new) = Len(table) + 1
        /\ \A i \in 1 .. Len(table) : new[i] = table[i]
        /\ new[Len(table) + 1] = row
    BY <1>1, <2>1, AppendProperties
  <2>3. DOMAIN new = 1 .. Len(table) + 1
    BY <2>2, LenProperties
  <2>4. SavedAt(table, new, row, Len(table) + 1)
    BY <1>3, <2>2, <2>3 DEF SavedAt
  <2>5. Adds(table, status, method)
    BY <1>5, <1>7 DEF Adds, mine
  <2> QED
    BY <1>3, <2>3, <2>4, <2>5 DEF row, new
<1>8. CASE ~adds
  <2>1. Max(mine) \in 1 .. Len(table) /\ mine # {}
    BY <1>3, <1>4, <1>5, <1>8
  <2>2. new = [table EXCEPT ![Max(mine)] = row]
    BY <1>2, <1>8
  <2>3. /\ new \in Seq(RowType) /\ Len(new) = Len(table)
        /\ \A i \in 1 .. Len(table) : new[i] = IF i = Max(mine) THEN row ELSE table[i]
    BY <1>1, <2>1, <2>2, ExceptSeq
  <2>4. DOMAIN new = 1 .. Len(table)
    BY <2>3, LenProperties
  <2>5. SavedAt(table, new, row, Max(mine))
    BY <1>3, <1>5, <1>6, <2>1, <2>3, <2>4 DEF SavedAt
  <2> QED
    BY <1>3, <2>1, <2>4, <2>5 DEF row, new
<1> QED
  BY <1>7, <1>8

LEMMA TxOfRecord ==
  ASSUME ChainTypes, NEW e \in DOMAIN evidence
  PROVE  evidence[e].tx \in DOMAIN txs /\ evidence[e].authorized \in BOOLEAN
<1>1. evidence \in Seq([tx : DOMAIN txs, authorized : BOOLEAN])
  BY DEF ChainTypes
<1>2. evidence[e] \in [tx : DOMAIN txs, authorized : BOOLEAN]
  BY <1>1, LenProperties, ElementOfSeq
<1> QED
  BY <1>2

\* What was stored without authorization stays so.
LEMMA RevokedStays ==
  ASSUME ChainTypes, ChainGrows, NEW m, NEW a, StoredRevoked(m, a)
  PROVE  StoredRevoked(m, a)'
<1> PICK e \in DOMAIN evidence : RecordOf(e, m, a) /\ ~evidence[e].authorized
  BY DEF StoredRevoked
<1>1. evidence[e].tx \in DOMAIN txs
  BY TxOfRecord
<1> QED
  BY <1>1 DEF ChainGrows, StoredRevoked, RecordOf, TxOf

LEMMA RecordStays ==
  ASSUME ChainTypes, ChainGrows, NEW e \in DOMAIN evidence, NEW m, NEW a, RecordOf(e, m, a)
  PROVE  RecordOf(e, m, a)' /\ e \in DOMAIN evidence' /\ evidence'[e] = evidence[e]
<1>1. evidence[e].tx \in DOMAIN txs
  BY TxOfRecord
<1> QED
  BY <1>1 DEF ChainGrows, RecordOf, TxOf

\* The row that was saved is the only one of its write that can be live.
LEMMA SavedIsLast ==
  ASSUME ReporterInv, ChainGrows, NEW m \in Methods, NEW row, NEW n,
         row.method = m, row.artifact = run.artifact,
         SavedAt(attempts, attempts', row, n), n \notin DOMAIN attempts => Unwritten(m)
  PROVE  /\ LastIsLive'
         /\ \/ StoredRevoked(m, run.artifact)
            \/ \A i \in DOMAIN attempts' :
                 /\ attempts'[i].method = m /\ attempts'[i].artifact = run.artifact
                 /\ Live(i)'
                 => i = n
<1>1. ChainTypes /\ attempts \in Seq(RowType)
  BY DEF ReporterInv, ReporterTypeOK, ChainTypes
<1>2. DOMAIN attempts = 1 .. Len(attempts) /\ Len(attempts) \in Nat
  BY <1>1, LenProperties
<1>3. attempts' \in Seq(RowType)
  BY DEF SavedAt
<1>4. DOMAIN attempts' = 1 .. Len(attempts') /\ Len(attempts') \in Nat
  BY <1>3, LenProperties
<1>5. ASSUME ~StoredRevoked(m, run.artifact), NEW i \in DOMAIN attempts', i # n,
             attempts'[i].method = m, attempts'[i].artifact = run.artifact, Live(i)'
      PROVE  FALSE
  <2>1. i \in DOMAIN attempts /\ attempts'[i] = attempts[i] /\ i <= n
    BY <1>5 DEF SavedAt
  <2>2. Live(i)
    BY <1>5, <2>1 DEF Live
  <2>3. i \in RowsOf(m)
    BY <1>5, <2>1 DEF RowsOf, RowsIn
  <2>4. n \in DOMAIN attempts
    BY <1>5, <2>2, <2>3 DEF Unwritten
  <2>5. n <= i
    BY <1>5, <2>1, <2>2, <2>4 DEF SavedAt, ReporterInv, LastIsLive, SameWrite
  <2> QED
    BY <1>2, <1>5, <2>1, <2>4, <2>5
<1>6. LastIsLive'
  <2> SUFFICES ASSUME NEW i \in DOMAIN attempts', NEW j \in DOMAIN attempts',
                      SameWrite(i, j)', Live(i)',
                      ~StoredRevoked(attempts[i].method, attempts[i].artifact)'
               PROVE  j <= i
    BY DEF LastIsLive
  <2>1. PICK m1, a1 : m1 = attempts'[i].method /\ a1 = attempts'[i].artifact
    OBVIOUS
  <2>2. ~StoredRevoked(m1, a1)
    BY <1>1, <2>1, RevokedStays DEF StoredRevoked, RecordOf
  <2>3. CASE m1 = m /\ a1 = run.artifact
    BY <1>5, <2>1, <2>2, <2>3 DEF SavedAt, SameWrite
  <2>4. CASE ~(m1 = m /\ a1 = run.artifact)
    <3>1. i # n /\ j # n
      BY <2>1, <2>4 DEF SavedAt, SameWrite
    <3>2. /\ i \in DOMAIN attempts /\ attempts'[i] = attempts[i]
          /\ j \in DOMAIN attempts /\ attempts'[j] = attempts[j]
      BY <3>1 DEF SavedAt
    <3> QED
      BY <2>1, <2>2, <3>2 DEF ReporterInv, LastIsLive, SameWrite, Live
  <2> QED
    BY <2>3, <2>4
<1> QED
  BY <1>5, <1>6
\* What a row says is so.
RowIsTrue(row) ==
  /\ row.tx # NoTx =>
       /\ row.tx \in DOMAIN txs
       /\ txs[row.tx].method = row.method /\ txs[row.tx].artifact = row.artifact
  /\ row.status = "FAILED" /\ row.tx # NoTx => txs[row.tx].status = "FAILED"
  /\ row.status = "FINALIZED" => row.tx # NoTx /\ txs[row.tx].status = "FINALIZED"
  /\ row.evidence # NoEvidence =>
       /\ row.status = "FINALIZED"
       /\ row.evidence \in DOMAIN evidence
       /\ RecordOf(row.evidence, row.method, row.artifact)

LEMMA TrueRows ==
  RowsAreTheirs <=> \A i \in DOMAIN attempts : RowIsTrue(attempts[i])
BY DEF RowsAreTheirs, RowsAreTrue, RowIsTrue

LEMMA TrueStays ==
  ASSUME ChainTypes, ChainGrows, NEW row, RowIsTrue(row)
  PROVE  RowIsTrue(row)'
<1>1. row.evidence # NoEvidence =>
        /\ row.evidence \in DOMAIN evidence'
        /\ RecordOf(row.evidence, row.method, row.artifact)'
  BY RecordStays DEF RowIsTrue
<1> QED
  BY <1>1 DEF RowIsTrue, ChainGrows, RecordOf, TxOf

LEMMA TrueNext ==
  ASSUME NEW i, NEW row, attempts'[i] = row, RowIsTrue(row)'
  PROVE  RowIsTrue(attempts[i])'
BY DEF RowIsTrue, RecordOf, TxOf

LEMMA RowsStay ==
  ASSUME ReporterInv, ChainGrows, UNCHANGED attempts
  PROVE  RowsAreTheirs' /\ LastIsLive'
<1>1. ChainTypes
  BY DEF ReporterInv, ReporterTypeOK, ChainTypes
<1>2. \A i \in DOMAIN attempts' : RowIsTrue(attempts[i])'
  <2> TAKE i \in DOMAIN attempts'
  <2>1. PICK row : row = attempts[i]
    OBVIOUS
  <2>2. RowIsTrue(row)
    BY <2>1, TrueRows DEF ReporterInv
  <2> QED
    BY <1>1, <2>1, <2>2, TrueStays, TrueNext
<1>3. LastIsLive'
  <2> SUFFICES ASSUME NEW i \in DOMAIN attempts', NEW j \in DOMAIN attempts',
                      SameWrite(i, j)', Live(i)',
                      ~StoredRevoked(attempts[i].method, attempts[i].artifact)'
               PROVE  j <= i
    BY DEF LastIsLive
  <2>1. PICK m, a : m = attempts[i].method /\ a = attempts[i].artifact
    OBVIOUS
  <2>2. ~StoredRevoked(m, a)
    BY <1>1, <2>1, RevokedStays DEF StoredRevoked, RecordOf
  <2> QED
    BY <2>1, <2>2 DEF ReporterInv, LastIsLive, SameWrite, Live
<1>4. RowsAreTheirs'
  BY <1>2 DEF RowsAreTheirs, RowsAreTrue, RowIsTrue
<1> QED
  BY <1>3, <1>4

LEMMA RowsSaved ==
  ASSUME ReporterInv, ChainGrows, NEW row, RowIsTrue(row)', NEW n,
         SavedAt(attempts, attempts', row, n)
  PROVE  RowsAreTheirs'
<1>1. ChainTypes
  BY DEF ReporterInv, ReporterTypeOK, ChainTypes
<1>2. \A i \in DOMAIN attempts' : RowIsTrue(attempts[i])'
  <2> TAKE i \in DOMAIN attempts'
  <2>1. CASE i = n
    BY <2>1, TrueNext DEF SavedAt
  <2>2. CASE i # n
    <3>1. PICK old : old = attempts[i]
      OBVIOUS
    <3>2. i \in DOMAIN attempts /\ attempts'[i] = old
      BY <2>2, <3>1 DEF SavedAt
    <3>3. RowIsTrue(old)
      BY <3>1, <3>2, TrueRows DEF ReporterInv
    <3> QED
      BY <1>1, <3>2, <3>3, TrueStays, TrueNext
  <2> QED
    BY <2>1, <2>2
<1> QED
  BY <1>2 DEF RowsAreTheirs, RowsAreTrue, RowIsTrue
-----------------------------------------------------------------------------
(* The steps of the run *)

\* No row of method m is written.
RowsRest(m) ==
  \A i \in DOMAIN attempts' :
    attempts'[i].method = m => i \in DOMAIN attempts /\ attempts'[i] = attempts[i]

LEMMA UnwrittenStays ==
  ASSUME ChainTypes, ChainGrows, NEW m, RowsRest(m), run'.artifact = run.artifact, Unwritten(m)
  PROVE  Unwritten(m)'
<1>1. PICK a : a = run.artifact
  OBVIOUS
<1>2. StoredRevoked(m, a) => StoredRevoked(m, a)'
  BY RevokedStays
<1> QED
  BY <1>1, <1>2 DEF Unwritten, RowsRest, RowsOf, RowsIn, Live, StoredRevoked, RecordOf, TxOf

LEMMA SoundStays ==
  ASSUME ChainTypes, ChainGrows, NEW step, RowsRest(step.method),
         run'.artifact = run.artifact, Sound(step)
  PROVE  Sound(step)'
<1>1. PICK a, m : a = run.artifact /\ m = step.method
  OBVIOUS
<1>2. StoredRevoked(m, a) => StoredRevoked(m, a)'
  BY RevokedStays
<1>3. Covered(step)'
  BY <1>1, <1>2 DEF Sound, Covered, RowsRest, RowsOf, RowsIn, Live, StoredRevoked, RecordOf, TxOf
<1> QED
  BY <1>3 DEF Sound, ChainGrows

LEMMA TodoSound ==
  ASSUME NEW k, NEW step, run'.todo[k] = step, Sound(step)'
  PROVE  Sound(run.todo[k])'
BY DEF Sound, Covered, StoredRevoked, RecordOf, TxOf, RowsOf, RowsIn

LEMMA SentSound ==
  ASSUME NEW k, NEW step, run'.sent[k] = step, Sound(step)'
  PROVE  Sound(run.sent[k])'
BY DEF Sound, Covered, StoredRevoked, RecordOf, TxOf, RowsOf, RowsIn

\* The steps that are left, or go into flight, are as sound as they were.
LEMMA StepsKept ==
  ASSUME ReporterInv, ChainGrows, run'.artifact = run.artifact,
         \A k \in DOMAIN run'.todo :
           \/ Sound(run.todo[k])'
           \/ \E j \in DOMAIN run.todo :
                run'.todo[k] = run.todo[j] /\ RowsRest(run.todo[j].method),
         \A k \in DOMAIN run'.sent :
           \/ Sound(run.sent[k])' /\ run'.sent[k].tx # NoTx
           \/ \E j \in DOMAIN run.todo :
                run'.sent[k] = run.todo[j] /\ RowsRest(run.todo[j].method)
                  /\ run.todo[j].tx # NoTx
           \/ \E j \in DOMAIN run.sent :
                run'.sent[k] = run.sent[j] /\ RowsRest(run.sent[j].method),
         run'.pc = "saving" =>
           run'.todo # <<>> /\ run'.todo[1].tx # NoTx /\ Unwritten(run.todo[1].method)',
         run'.pc = "failing" => run'.todo # <<>>
  PROVE  StepsSound'
<1>1. ChainTypes /\ StepsSound
  BY DEF ReporterInv, ReporterTypeOK, ChainTypes
<1>2. \A k \in DOMAIN run'.todo : Sound(run.todo[k])'
  <2> TAKE k \in DOMAIN run'.todo
  <2>1. CASE \E j \in DOMAIN run.todo :
               run'.todo[k] = run.todo[j] /\ RowsRest(run.todo[j].method)
    <3>1. PICK j \in DOMAIN run.todo :
                 run'.todo[k] = run.todo[j] /\ RowsRest(run.todo[j].method)
      BY <2>1
    <3>2. PICK step : step = run.todo[j]
      OBVIOUS
    <3>3. Sound(step)'
      BY <1>1, <3>1, <3>2, SoundStays DEF StepsSound
    <3> QED
      BY <3>1, <3>2, <3>3, TodoSound
  <2> QED
    BY <2>1
<1>3. \A k \in DOMAIN run'.sent : Sound(run.sent[k])' /\ run'.sent[k].tx # NoTx
  <2> TAKE k \in DOMAIN run'.sent
  <2>1. CASE \E j \in DOMAIN run.todo :
               run'.sent[k] = run.todo[j] /\ RowsRest(run.todo[j].method)
                 /\ run.todo[j].tx # NoTx
    <3>1. PICK j \in DOMAIN run.todo :
                 run'.sent[k] = run.todo[j] /\ RowsRest(run.todo[j].method)
                   /\ run.todo[j].tx # NoTx
      BY <2>1
    <3>2. PICK step : step = run.todo[j]
      OBVIOUS
    <3>3. Sound(step)'
      BY <1>1, <3>1, <3>2, SoundStays DEF StepsSound
    <3> QED
      BY <3>1, <3>2, <3>3, SentSound
  <2>2. CASE \E j \in DOMAIN run.sent :
               run'.sent[k] = run.sent[j] /\ RowsRest(run.sent[j].method)
    <3>1. PICK j \in DOMAIN run.sent :
                 run'.sent[k] = run.sent[j] /\ RowsRest(run.sent[j].method)
      BY <2>2
    <3>2. PICK step : step = run.sent[j]
      OBVIOUS
    <3>3. Sound(step)' /\ step.tx # NoTx
      BY <1>1, <3>1, <3>2, SoundStays DEF StepsSound
    <3> QED
      BY <3>1, <3>2, <3>3, SentSound
  <2> QED
    BY <2>1, <2>2
<1> QED
  BY <1>2, <1>3 DEF StepsSound

LEMMA ProvenKept ==
  ASSUME ChainTypes, ChainGrows, run'.artifact = run.artifact, NEW m, Proven(m)
  PROVE  Proven(m)'
BY RecordStays DEF Proven, RecordOf

LEMMA ProvenStays ==
  ASSUME ReporterInv, ChainGrows, run'.artifact = run.artifact,
         run'.verified \subseteq run.verified,
         run'.result = run.result \/ run'.result # "PASS"
  PROVE  VerifiedIsProven' /\ PassIsProven'
<1>1. ChainTypes
  BY DEF ReporterInv, ReporterTypeOK, ChainTypes
<1>2. ASSUME NEW m, Proven(m)
      PROVE  Proven(m)'
  BY <1>1, <1>2, ProvenKept
<1>3. VerifiedIsProven'
  BY <1>2 DEF ReporterInv, VerifiedIsProven
<1>4. PassIsProven <=> (run.result = "PASS" => \A m \in Methods : Proven(m))
  BY DEF PassIsProven, Proven
<1>5. PassIsProven' <=> (run'.result = "PASS" => \A m \in Methods : Proven(m)')
  BY DEF PassIsProven, Proven
<1> QED
  BY <1>2, <1>3, <1>4, <1>5 DEF ReporterInv

\* A sequence without its first step.
LEMMA FirstAndRest ==
  ASSUME NEW steps \in Seq(StepType), steps # <<>>, Apart(steps)
  PROVE  /\ 1 \in DOMAIN steps /\ Head(steps) = steps[1] /\ Head(steps) \in StepType
         /\ Tail(steps) \in Seq(StepType) /\ Len(Tail(steps)) = Len(steps) - 1
         /\ Len(steps) \in Nat \ {0}
         /\ Apart(Tail(steps))
         /\ \A k \in DOMAIN Tail(steps) :
              \E j \in DOMAIN steps :
                Tail(steps)[k] = steps[j] /\ steps[j].method # Head(steps).method
<1>1. /\ Head(steps) \in StepType /\ Tail(steps) \in Seq(StepType)
      /\ Len(Tail(steps)) = Len(steps) - 1 /\ Head(steps) = steps[1]
      /\ \A k \in 1 .. Len(Tail(steps)) : Tail(steps)[k] = steps[k + 1]
  BY HeadTailProperties, SMTT(30)
<1>2. /\ DOMAIN steps = 1 .. Len(steps) /\ Len(steps) \in Nat \ {0}
  BY LenProperties, EmptySeq
<1>3. DOMAIN Tail(steps) = 1 .. Len(steps) - 1
  BY <1>1, LenProperties
<1>4. \A k \in DOMAIN Tail(steps) : k + 1 \in DOMAIN steps /\ k + 1 # 1 /\ Tail(steps)[k] = steps[k + 1]
  BY <1>1, <1>2, <1>3
<1>5. Apart(Tail(steps))
  BY <1>2, <1>3, <1>4 DEF Apart
<1>6. 1 \in DOMAIN steps
  BY <1>2
<1>7. \A k \in DOMAIN Tail(steps) :
        \E j \in DOMAIN steps :
          Tail(steps)[k] = steps[j] /\ steps[j].method # Head(steps).method
  BY <1>1, <1>4, <1>6 DEF Apart
<1> QED
  BY <1>1, <1>2, <1>5, <1>6, <1>7
-----------------------------------------------------------------------------
(* The invariant, step by step *)

LEMMA Facts ==
  ASSUME ReporterInv
  PROVE  /\ ChainTypes /\ attempts \in Seq(RowType) /\ run \in RunType
         /\ run.todo \in Seq(StepType) /\ run.sent \in Seq(StepType)
         /\ Apart(run.todo) /\ Apart(run.sent)
         /\ run.artifact \in Artifacts \cup {NoArtifact} /\ run.before \in Nat
         /\ run.pc # "idle" => run.artifact \in Artifacts
         /\ Len(run.todo) \in Nat /\ Len(txs) \in Nat /\ MaxTxs \in Nat
         /\ \A i \in DOMAIN attempts : attempts[i] \in RowType
<1>1. /\ ChainTypes /\ attempts \in Seq(RowType) /\ run \in RunType
      /\ Apart(run.todo) /\ Apart(run.sent)
      /\ run.pc # "idle" => run.artifact \in Artifacts
  BY DEF ReporterInv, ReporterTypeOK, ChainTypes, StepsApart, RoomLeft
<1>2. /\ run.todo \in Seq(StepType) /\ run.sent \in Seq(StepType)
      /\ run.artifact \in Artifacts \cup {NoArtifact} /\ run.before \in Nat
  BY <1>1 DEF RunType
<1>3. txs \in Seq(TxType)
  BY <1>1 DEF ChainTypes
<1>4. /\ Len(run.todo) \in Nat /\ Len(txs) \in Nat
      /\ \A i \in DOMAIN attempts : attempts[i] \in RowType
  BY <1>1, <1>2, <1>3, LenProperties, ElementOfSeq
<1> QED
  BY <1>1, <1>2, <1>4, ReporterAssumption

LEMMA SmallTypes ==
  ASSUME ReporterInv, [ReporterNext]_reporterVars
  PROVE  /\ window' \in BOOLEAN /\ authorized' \in BOOLEAN
         /\ second' \in Artifacts /\ left' \in 0 .. MaxTroubles
<1>1. /\ window \in BOOLEAN /\ authorized \in BOOLEAN
      /\ second \in Artifacts /\ left \in 0 .. MaxTroubles /\ MaxTroubles \in Nat
  BY ReporterAssumption DEF ReporterInv, ReporterTypeOK
<1>2. TroubleStrikes => left' \in 0 .. MaxTroubles
  BY <1>1 DEF TroubleStrikes
<1>3. CASE UNCHANGED <<window, authorized, second>>
  <2>1. UNCHANGED left \/ TroubleStrikes
    BY Zenon DEF ReporterNext, RunStep, TroubleStep, NodeStep, reporterVars, Accept, Reject,
       Finalize, CloseWindow, ChangeAuthorization, FileElsewhere, StartRun, ResolvePlan,
       CheckSecondWrite, TakeSnapshot, Reconcile, Send, SaveSubmitted, SendThrows, SaveThrows, SaveFailed,
       WaitExpires, WriteRejected, WriteFinalized, Settled, FinishRun, Crash
  <2> QED
    BY <1>1, <1>2, <1>3, <2>1
<1>4. CASE CloseWindow
  BY <1>1, <1>4 DEF CloseWindow
<1>5. CASE ChangeAuthorization
  BY <1>1, <1>2, <1>5 DEF ChangeAuthorization
<1>6. CASE StartRun
  BY <1>1, <1>6 DEF StartRun
<1>7. \/ UNCHANGED <<window, authorized, second>>
      \/ CloseWindow \/ ChangeAuthorization \/ StartRun
  BY Zenon DEF ReporterNext, RunStep, TroubleStep, NodeStep, reporterVars, Accept, Reject,
     Finalize, FileElsewhere, ResolvePlan,
     CheckSecondWrite, TakeSnapshot, Reconcile, Send, SaveSubmitted, SendThrows, SaveThrows, SaveFailed,
     WaitExpires, WriteRejected, WriteFinalized, Settled, FinishRun, Crash
<1> QED
  BY <1>3, <1>4, <1>5, <1>6, <1>7

LEMMA NextTyped ==
  ASSUME ReporterInv, [ReporterNext]_reporterVars,
         attempts' \in Seq(RowType), run' \in RunType, Len(txs') <= MaxTxs
  PROVE  ReporterTypeOK' /\ ChainGrows /\ ChainTypes' /\ AcceptedIsStored'
<1>1. ChainKept
  BY ChainStep DEF ReporterInv
<1> QED
  BY <1>1, SmallTypes DEF ChainKept, ChainTypes, ReporterTypeOK

LEMMA MethodsAre ==
  Cardinality(Methods) = 2
<1>1. IsFiniteSet({"attach_incident_report"}) /\ Cardinality({"attach_incident_report"}) = 1
  BY FS_Singleton
<1>2. "submit_evidence" \notin {"attach_incident_report"}
  OBVIOUS
<1>3. Methods = {"attach_incident_report"} \cup {"submit_evidence"}
  BY DEF Methods
<1> QED
  BY <1>1, <1>2, <1>3, FS_AddElement

\* The chain, the window or the authorization changes, and the run rests.
LEMMA OutsideKeeps ==
  ASSUME ReporterInv, UNCHANGED <<attempts, run>>, [ReporterNext]_reporterVars,
         \/ Len(txs') = Len(txs)
         \/ Len(txs') = Len(txs) + 1 /\ Len(txs) + 2 < MaxTxs
  PROVE  ReporterInv'
<1>1. ChainTypes /\ attempts \in Seq(RowType) /\ run \in RunType
      /\ Len(txs) \in Nat /\ MaxTxs \in Nat /\ Len(run.todo) \in Nat
  BY Facts
<1>2. Len(txs') <= MaxTxs
  BY <1>1 DEF ReporterInv, ReporterTypeOK
<1>3. ReporterTypeOK' /\ ChainGrows /\ AcceptedIsStored'
  BY <1>1, <1>2, NextTyped
<1>4. RoomLeft'
  <2>1. RoomLeft
    BY DEF ReporterInv
  <2> QED
    BY <1>1, <2>1 DEF RoomLeft
<1>5. StepsApart'
  BY DEF ReporterInv, StepsApart, Apart
<1>6. \A m : RowsRest(m)
  BY DEF RowsRest
<1>7. run'.pc = "saving" =>
        run'.todo # <<>> /\ run'.todo[1].tx # NoTx /\ Unwritten(run.todo[1].method)'
  <2>1. PICK m : m = run.todo[1].method
    OBVIOUS
  <2>2. Unwritten(m) => Unwritten(m)'
    BY <1>1, <1>3, <1>6, UnwrittenStays
  <2>3. Unwritten(m)' => Unwritten(run.todo[1].method)'
    BY <2>1 DEF Unwritten, StoredRevoked, RecordOf, TxOf, RowsOf, RowsIn
  <2> QED
    BY <2>1, <2>2, <2>3 DEF ReporterInv, StepsSound
<1>8. StepsSound'
  BY <1>3, <1>6, <1>7, StepsKept DEF ReporterInv, StepsSound
<1>9. RowsAreTheirs' /\ LastIsLive'
  BY <1>3, RowsStay
<1>10. VerifiedIsProven' /\ PassIsProven'
  BY <1>3, ProvenStays
<1> QED
  BY <1>3, <1>4, <1>5, <1>8, <1>9, <1>10 DEF ReporterInv

\* A step of the run that writes neither to the chain nor to the table.
LEMMA LocalKeeps ==
  ASSUME ReporterInv, UNCHANGED <<txs, evidence, attempts>>, [ReporterNext]_reporterVars,
         run' \in RunType, RoomLeft', StepsApart', StepsSound', VerifiedIsProven', PassIsProven'
  PROVE  ReporterInv'
<1>1. ReporterTypeOK' /\ ChainGrows /\ AcceptedIsStored'
  BY Facts, NextTyped DEF ReporterInv, ReporterTypeOK
<1> QED
  BY <1>1, RowsStay DEF ReporterInv

LEMMA EmptySteps ==
  /\ <<>> \in Seq(StepType) /\ Len(<<>>) = 0 /\ DOMAIN <<>> = {} /\ Apart(<<>>)
BY EmptySeq DEF Apart

LEMMA IdleRunIs ==
  ASSUME NEW artifact \in Artifacts \cup {NoArtifact}, NEW result \in {"NONE", "PASS", "FAIL"}
  PROVE  LET r == IdleRun(artifact, result)
         IN  /\ r \in RunType /\ r.pc = "idle" /\ r.artifact = artifact
             /\ r.todo = <<>> /\ r.sent = <<>> /\ r.verified = {} /\ r.result = result
BY EmptySteps DEF IdleRun, RunType

LEMMA StartRunKeeps ==
  ASSUME ReporterInv, StartRun
  PROVE  ReporterInv'
<1>1. [ReporterNext]_reporterVars /\ UNCHANGED <<txs, evidence, attempts>>
  BY Zenon DEF ReporterNext, StartRun
<1>2. PICK s \in Artifacts, strategy \in Strategies :
        run' = [IdleRun(IF attempts = <<>> THEN s ELSE attempts[Len(attempts)].artifact, "NONE")
                  EXCEPT !.pc = "planning", !.strategy = strategy]
  BY DEF StartRun
<1>3. PICK a : a = IF attempts = <<>> THEN s ELSE attempts[Len(attempts)].artifact
  OBVIOUS
<1>4. a \in Artifacts
  <2>1. CASE attempts = <<>>
    BY <1>3, <2>1
  <2>2. CASE attempts # <<>>
    <3>1. attempts \in Seq(RowType)
      BY Facts
    <3>2. Len(attempts) \in DOMAIN attempts
      BY <2>2, <3>1, EmptySeq, LenProperties
    <3>3. attempts[Len(attempts)] \in RowType
      BY <3>2, Facts
    <3> QED
      BY <1>3, <2>2, <3>3 DEF RowType
  <2> QED
    BY <2>1, <2>2
<1>5. strategy \in {"sequential", "parallel"}
  BY ReporterAssumption
<1>6. PICK idle : idle = IdleRun(a, "NONE")
  OBVIOUS
<1>7. /\ idle \in RunType /\ idle.artifact = a /\ idle.todo = <<>> /\ idle.sent = <<>>
      /\ idle.verified = {} /\ idle.result = "NONE"
  BY <1>4, <1>6, IdleRunIs
<1>8. run' = [idle EXCEPT !.pc = "planning", !.strategy = strategy]
  BY <1>2, <1>3, <1>6
<1>9. /\ run' \in RunType /\ run'.pc = "planning" /\ run'.artifact = a
      /\ run'.todo = <<>> /\ run'.sent = <<>> /\ run'.verified = {} /\ run'.result = "NONE"
  BY <1>5, <1>7, <1>8 DEF RunType
<1>10. RoomLeft'
  <2>1. Len(txs) + 2 <= MaxTxs
    BY MethodsAre DEF StartRun
  <2> QED
    BY <1>1, <1>4, <1>9, <2>1, EmptySteps DEF RoomLeft
<1>11. StepsApart' /\ StepsSound' /\ VerifiedIsProven' /\ PassIsProven'
  BY <1>9, EmptySteps DEF StepsApart, StepsSound, VerifiedIsProven, PassIsProven, Apart
<1> QED
  BY <1>1, <1>9, <1>10, <1>11, LocalKeeps

LEMMA IdleKeeps ==
  ASSUME ReporterInv, [ReporterNext]_reporterVars, UNCHANGED <<txs, evidence, attempts>>,
         NEW result \in {"PASS", "FAIL"}, run' = IdleRun(run.artifact, result),
         result = "PASS" => run.verified = Methods
  PROVE  ReporterInv'
<1>1. run.artifact \in Artifacts \cup {NoArtifact}
  BY Facts
<1>2. /\ run' \in RunType /\ run'.pc = "idle" /\ run'.artifact = run.artifact
      /\ run'.todo = <<>> /\ run'.sent = <<>> /\ run'.verified = {} /\ run'.result = result
  BY <1>1, IdleRunIs
<1>3. RoomLeft' /\ StepsApart' /\ StepsSound' /\ VerifiedIsProven'
  BY <1>2, EmptySteps DEF RoomLeft, StepsApart, StepsSound, VerifiedIsProven
<1>4. PassIsProven'
  BY <1>2 DEF ReporterInv, VerifiedIsProven, Proven, PassIsProven, RecordOf, TxOf
<1> QED
  BY <1>2, <1>3, <1>4, LocalKeeps

LEMMA FinishRunKeeps ==
  ASSUME ReporterInv, FinishRun
  PROVE  ReporterInv'
<1>1. [ReporterNext]_reporterVars /\ UNCHANGED <<txs, evidence, attempts>>
  BY Zenon DEF ReporterNext, RunStep, FinishRun
<1>2. PICK result \in {"PASS", "FAIL"} :
        /\ run' = IdleRun(run.artifact, result)
        /\ result = "PASS" => run.verified = Methods
  BY DEF FinishRun, Passed
<1> QED
  BY <1>1, <1>2, IdleKeeps

LEMMA CrashKeeps ==
  ASSUME ReporterInv, Crash
  PROVE  ReporterInv'
<1>1. [ReporterNext]_reporterVars /\ UNCHANGED <<txs, evidence, attempts>>
  BY Zenon DEF ReporterNext, TroubleStep, Crash
<1>2. run' = IdleRun(run.artifact, "FAIL")
  BY DEF Crash
<1> QED
  BY <1>1, <1>2, IdleKeeps

LEMMA TakeSnapshotKeeps ==
  ASSUME ReporterInv, TakeSnapshot
  PROVE  ReporterInv'
<1>1. [ReporterNext]_reporterVars /\ UNCHANGED <<txs, evidence, attempts>>
  BY Zenon DEF ReporterNext, RunStep, TakeSnapshot
<1>2. /\ run \in RunType /\ Len(evidence) \in Nat
  BY Facts, LenProperties DEF ChainTypes
<1>3. run' = [run EXCEPT !.pc = "writing", !.before = Len(evidence)] /\ run.pc = "snapshot"
  BY DEF TakeSnapshot
<1>4. /\ run' \in RunType /\ run'.pc = "writing"
      /\ run'.todo = run.todo /\ run'.sent = run.sent /\ run'.artifact = run.artifact
      /\ run'.verified = run.verified /\ run'.result = run.result
  BY <1>2, <1>3 DEF RunType
<1>5. RoomLeft' /\ StepsApart'
  BY <1>1, <1>3, <1>4 DEF ReporterInv, RoomLeft, StepsApart, Apart
<1>6. ChainGrows /\ \A m : RowsRest(m)
  BY <1>1 DEF ChainGrows, RowsRest
<1>7. StepsSound'
  BY <1>4, <1>6, StepsKept
<1> QED
  BY <1>1, <1>4, <1>5, <1>6, <1>7, ProvenStays, LocalKeeps

LEMMA CheckSecondWriteKeeps ==
  ASSUME ReporterInv, CheckSecondWrite
  PROVE  ReporterInv'
<1>1. [ReporterNext]_reporterVars /\ UNCHANGED <<txs, evidence, attempts>>
  BY Zenon DEF ReporterNext, RunStep, CheckSecondWrite
<1>2. /\ run \in RunType /\ run.todo \in Seq(StepType) /\ Len(run.todo) \in Nat
      /\ DOMAIN run.todo = 1 .. Len(run.todo) /\ Len(txs) \in Nat /\ MaxTxs \in Nat
  BY Facts, LenProperties
<1>3. PICK todo : \E skipped \in BOOLEAN :
        /\ run.pc = "checking"
        /\ run' = [run EXCEPT !.pc = "snapshot", !.todo = todo,
                                  !.failed = run.failed \/ skipped]
        /\ \/ todo = run.todo
           \/ Len(run.todo) > 0 /\ todo = SubSeq(run.todo, 1, Len(run.todo) - 1)
  BY DEF CheckSecondWrite
<1>4. /\ todo \in Seq(StepType) /\ Len(todo) <= Len(run.todo) /\ Len(todo) \in Nat
      /\ DOMAIN todo \subseteq DOMAIN run.todo
      /\ \A k \in DOMAIN todo : todo[k] = run.todo[k]
  <2>1. CASE todo = run.todo
    BY <1>2, <2>1
  <2>2. CASE Len(run.todo) > 0 /\ todo = SubSeq(run.todo, 1, Len(run.todo) - 1)
    <3>1. /\ todo \in Seq(StepType) /\ Len(todo) = Len(run.todo) - 1
          /\ \A k \in 1 .. Len(run.todo) - 1 : todo[k] = run.todo[k]
      BY <1>2, <2>2, SubSeqProperties, SMTT(30)
    <3>2. DOMAIN todo = 1 .. Len(run.todo) - 1
      BY <3>1, LenProperties
    <3> QED
      BY <1>2, <2>2, <3>1, <3>2
  <2> QED
    BY <1>3, <2>1, <2>2
<1>5. /\ run' \in RunType /\ run'.pc = "snapshot"
      /\ run'.todo = todo /\ run'.sent = run.sent /\ run'.artifact = run.artifact
      /\ run'.verified = run.verified /\ run'.result = run.result
  <2>1. PICK failed \in BOOLEAN :
          run' = [run EXCEPT !.pc = "snapshot", !.todo = todo, !.failed = failed]
    BY <1>3
  <2> QED
    BY <1>2, <1>4, <2>1 DEF RunType
<1>6. RoomLeft' /\ StepsApart'
  <2>1. RoomLeft'
    BY <1>1, <1>2, <1>3, <1>4, <1>5 DEF ReporterInv, RoomLeft
  <2>2. StepsApart'
    BY <1>3, <1>4, <1>5 DEF ReporterInv, StepsApart, Apart
  <2> QED
    BY <2>1, <2>2
<1>7. ChainGrows /\ \A m : RowsRest(m)
  BY <1>1 DEF ChainGrows, RowsRest
<1>8. StepsSound'
  BY <1>4, <1>5, <1>7, StepsKept
<1> QED
  BY <1>1, <1>5, <1>6, <1>7, <1>8, ProvenStays, LocalKeeps

LEMMA PlanIs ==
  ASSUME NEW x \in StepType, NEW y \in StepType, x.method # y.method,
         NEW A, NEW B,
         A = <<>> \/ A = <<x>>, B = <<>> \/ B = <<y>>
  PROVE  /\ A \o B \in Seq(StepType) /\ Len(A \o B) <= 2 /\ Apart(A \o B)
         /\ \A k \in DOMAIN (A \o B) :
              ((A \o B)[k] = x /\ A # <<>>) \/ ((A \o B)[k] = y /\ B # <<>>)
<1>1. /\ <<x>> \in Seq(StepType) /\ <<y>> \in Seq(StepType) /\ <<>> \in Seq(StepType)
      /\ Len(<<>>) = 0 /\ Len(<<x>>) = 1 /\ Len(<<y>>) = 1
  BY EmptySteps
<1>2. PICK todo : todo = A \o B
  OBVIOUS
<1>3. /\ todo \in Seq(StepType) /\ Len(todo) = Len(A) + Len(B)
      /\ \A k \in 1 .. Len(A) + Len(B) : todo[k] = IF k <= Len(A) THEN A[k] ELSE B[k - Len(A)]
  <2>1. A \in Seq(StepType) /\ B \in Seq(StepType)
    BY <1>1
  <2> QED
    BY <1>2, <2>1, ConcatProperties
<1>4. DOMAIN todo = 1 .. Len(A) + Len(B)
  BY <1>3, LenProperties
<1>5. \A k \in DOMAIN todo :
        /\ (todo[k] = x /\ A # <<>> /\ k = 1) \/ (todo[k] = y /\ B # <<>> /\ k = Len(A) + 1)
  <2>1. CASE A = <<>> /\ B = <<>>
    BY <1>1, <1>3, <1>4, <2>1
  <2>2. CASE A = <<>> /\ B = <<y>>
    BY <1>1, <1>3, <1>4, <2>2
  <2>3. CASE A = <<x>> /\ B = <<>>
    BY <1>1, <1>3, <1>4, <2>3
  <2>4. CASE A = <<x>> /\ B = <<y>>
    BY <1>1, <1>3, <1>4, <2>4
  <2> QED
    BY <2>1, <2>2, <2>3, <2>4
<1>6. Len(todo) <= 2
  BY <1>1, <1>3
<1>7. Apart(todo)
  BY <1>5 DEF Apart
<1> QED
  BY <1>2, <1>3, <1>5, <1>6, <1>7

\* How a method is planned that is not done.
PlannedTx(m) ==
  IF Matching(m) = {} /\ Unresolved(m) # {} THEN attempts[Min(Unresolved(m))].tx ELSE NoTx
Done(m) == Matching(m) # {} /\ ReadsBack(Min(Matching(m)))

LEMMA MatchingIs ==
  ASSUME ReporterInv, NEW m \in Methods, Matching(m) # {}
  PROVE  Min(Matching(m)) \in DOMAIN evidence /\ RecordOf(Min(Matching(m)), m, run.artifact)
<1>1. DOMAIN evidence = 1 .. Len(evidence) /\ Len(evidence) \in Nat
  BY Facts, LenProperties DEF ChainTypes
<1>2. Matching(m) \in SUBSET Nat
  BY <1>1 DEF Matching
<1>3. Min(Matching(m)) \in Matching(m)
  BY <1>2, MinIs
<1> QED
  BY <1>3 DEF Matching, Matches, RecordOf

LEMMA PlannedIsSound ==
  ASSUME ReporterInv, NEW m \in Methods, ~Done(m), NEW step,
         step = [method |-> m, tx |-> PlannedTx(m)]
  PROVE  step \in StepType /\ Sound(step)
<1>1. /\ DOMAIN attempts = 1 .. Len(attempts) /\ Len(attempts) \in Nat
      /\ \A i \in DOMAIN attempts : attempts[i] \in RowType
  BY Facts, LenProperties
<1>2. step.method = m /\ step.tx = PlannedTx(m) /\ NoTx \in Nat
  BY DEF NoTx
<1>3. CASE Matching(m) # {}
  <2>1. step.tx = NoTx
    BY <1>2, <1>3 DEF PlannedTx
  <2>2. StoredRevoked(m, run.artifact)
    BY <1>3, MatchingIs DEF Done, ReadsBack, StoredRevoked
  <2> QED
    BY <1>2, <2>1, <2>2 DEF Sound, Covered, StepType
<1>4. CASE Matching(m) = {} /\ Unresolved(m) # {}
  <2>1. Unresolved(m) \in SUBSET Nat
    BY <1>1 DEF Unresolved, RowsOf, RowsIn
  <2>2. PICK i : i = Min(Unresolved(m))
    OBVIOUS
  <2>3. i \in Unresolved(m)
    BY <1>4, <2>1, <2>2, MinIs
  <2>4. step.tx = attempts[i].tx
    BY <1>2, <1>4, <2>2 DEF PlannedTx
  <2>5. /\ i \in DOMAIN attempts /\ attempts[i].method = m /\ attempts[i].artifact = run.artifact
        /\ Live(i)
    BY <2>3 DEF Unresolved, RowsOf, RowsIn, Live
  <2>6. Covered(step)
    <3> SUFFICES ASSUME ~StoredRevoked(m, run.artifact), NEW j \in RowsOf(m), Live(j)
                 PROVE  attempts[j].tx = step.tx
      BY <1>2 DEF Covered
    <3>1. /\ j \in DOMAIN attempts /\ attempts[j].method = m /\ attempts[j].artifact = run.artifact
      BY DEF RowsOf, RowsIn
    <3>2. j <= i /\ i <= j
      BY <2>5, <3>1 DEF ReporterInv, LastIsLive, SameWrite
    <3>3. i = j
      BY <1>1, <2>5, <3>1, <3>2
    <3> QED
      BY <2>4, <3>3
  <2>7. Sound(step)
    BY <1>2, <2>4, <2>5, <2>6 DEF Sound, ReporterInv, RowsAreTheirs, RowsAreTrue
  <2>8. step \in StepType
    BY <1>1, <1>2, <2>4, <2>5 DEF StepType, RowType
  <2> QED
    BY <2>7, <2>8
<1>5. CASE Matching(m) = {} /\ Unresolved(m) = {}
  <2>1. step.tx = NoTx
    BY <1>2, <1>5 DEF PlannedTx
  <2>2. ASSUME NEW j \in RowsOf(m), Live(j)
        PROVE  FALSE
    <3>1. /\ j \in DOMAIN attempts /\ attempts[j].method = m /\ attempts[j].artifact = run.artifact
      BY DEF RowsOf, RowsIn
    <3>2. attempts[j].status = "FINALIZED" /\ attempts[j].tx # NoTx
      BY <1>1, <1>5, <2>2, <3>1 DEF Unresolved, Live, RowType
    <3>3. PICK t : t = attempts[j].tx
      OBVIOUS
    <3>4. /\ t \in DOMAIN txs /\ txs[t].status = "FINALIZED" /\ txs[t].method = m
          /\ txs[t].artifact = run.artifact
      BY <3>1, <3>2, <3>3 DEF ReporterInv, RowsAreTheirs, RowsAreTrue
    <3>5. PICK e \in DOMAIN evidence : evidence[e].tx = t
      BY <3>4 DEF ReporterInv, AcceptedIsStored
    <3>6. e \in Matching(m)
      BY <3>4, <3>5 DEF Matching, Matches, TxOf
    <3> QED
      BY <1>5, <3>6
  <2> QED
    BY <1>2, <2>1, <2>2 DEF Sound, Covered, StepType
<1> QED
  BY <1>3, <1>4, <1>5

LEMMA ResolvePlanKeeps ==
  ASSUME ReporterInv, ResolvePlan
  PROVE  ReporterInv'
<1>1. [ReporterNext]_reporterVars /\ UNCHANGED <<txs, evidence, attempts>>
  BY Zenon DEF ReporterNext, RunStep, ResolvePlan
<1>2. ChainTypes /\ run \in RunType /\ run.pc = "planning" /\ Len(txs) \in Nat /\ MaxTxs \in Nat
  BY Facts DEF ResolvePlan
<1> DEFINE done == {m \in Methods : Done(m)}
           x == [method |-> "attach_incident_report", tx |-> PlannedTx("attach_incident_report")]
           y == [method |-> "submit_evidence", tx |-> PlannedTx("submit_evidence")]
<1>3. PICK todo, failed, b, c :
        /\ failed \in BOOLEAN /\ b \in BOOLEAN /\ c \in BOOLEAN
        /\ run' = [run EXCEPT !.pc = "checking", !.verified = done, !.failed = failed,
                              !.todo = todo]
        /\ todo = (IF b THEN <<>> ELSE <<x>>) \o (IF c THEN <<>> ELSE <<y>>)
        /\ b = Done("attach_incident_report")
        /\ c = Done("submit_evidence")
  BY DEF ResolvePlan, Done, PlannedTx, Methods
<1>4. /\ x.method = "attach_incident_report" /\ y.method = "submit_evidence"
      /\ x.method \in Methods /\ y.method \in Methods
  BY DEF Methods
<1>5. /\ ~b => x \in StepType /\ Sound(x)
      /\ ~c => y \in StepType /\ Sound(y)
  BY <1>3, <1>4, PlannedIsSound
<1> HIDE DEF x, y
<1>6. /\ todo \in Seq(StepType) /\ Len(todo) <= 2 /\ Apart(todo)
      /\ \A k \in DOMAIN todo : \E step : todo[k] = step /\ Sound(step)
  <2>1. \E z \in StepType : z.method # x.method /\ z.method \in {x.method, y.method}
    <3>1. [method |-> y.method, tx |-> NoTx] \in StepType
      BY <1>4 DEF StepType, NoTx
    <3> QED
      BY <1>4, <3>1
  <2>2. \E z \in StepType : z.method # y.method
    <3>1. [method |-> x.method, tx |-> NoTx] \in StepType
      BY <1>4 DEF StepType, NoTx
    <3> QED
      BY <1>4, <3>1
  <2>3. PICK u \in StepType, v \in StepType :
          u.method # v.method /\ (~b => u = x) /\ (~c => v = y)
    BY <1>4, <1>5, <2>1, <2>2
  <2>4. PICK A, B :
          /\ todo = A \o B
          /\ A = <<>> \/ (A = <<u>> /\ ~b)
          /\ B = <<>> \/ (B = <<v>> /\ ~c)
    BY <1>3, <2>3
  <2>5. /\ todo \in Seq(StepType) /\ Len(todo) <= 2 /\ Apart(todo)
        /\ \A k \in DOMAIN todo : (todo[k] = u /\ A # <<>>) \/ (todo[k] = v /\ B # <<>>)
    BY <2>3, <2>4, PlanIs
  <2> QED
    BY <1>5, <2>3, <2>4, <2>5
<1>7. done \subseteq Methods
  OBVIOUS
<1>8. \A m \in done : Proven(m)
  BY MatchingIs DEF Done, ReadsBack, Proven
<1> HIDE DEF done
<1>9. /\ run' \in RunType /\ run'.pc = "checking" /\ run'.todo = todo /\ run'.sent = run.sent
      /\ run'.artifact = run.artifact /\ run'.verified = done /\ run'.result = run.result
  BY <1>2, <1>3, <1>6, <1>7 DEF RunType
<1>10. run.sent = <<>>
  BY <1>2 DEF ReporterInv, StepsApart
<1>11. Len(todo) \in Nat
  BY <1>6, LenProperties
<1>12. RoomLeft'
  BY <1>1, <1>2, <1>6, <1>9, <1>11 DEF ReporterInv, RoomLeft
<1>13. StepsApart'
  BY <1>6, <1>9, <1>10, EmptySteps DEF StepsApart, Apart
<1>14. ChainGrows /\ \A m : RowsRest(m)
  BY <1>1 DEF ChainGrows, RowsRest
<1>15. \A k \in DOMAIN run'.todo : Sound(run.todo[k])'
  <2> TAKE k \in DOMAIN run'.todo
  <2>1. PICK step : run'.todo[k] = step /\ Sound(step)
    BY <1>6, <1>9
  <2>2. Sound(step)'
    BY <1>2, <1>9, <1>14, <2>1, SoundStays
  <2> QED
    BY <2>1, <2>2, TodoSound
<1>16. StepsSound'
  BY <1>9, <1>10, <1>15, EmptySteps DEF StepsSound
<1>17. VerifiedIsProven'
  BY <1>1, <1>8, <1>9 DEF VerifiedIsProven, Proven, RecordOf, TxOf
<1>18. PassIsProven'
  BY <1>1, <1>9 DEF ReporterInv, PassIsProven, RecordOf, TxOf
<1> QED
  BY <1>1, <1>9, <1>12, <1>13, <1>16, <1>17, <1>18, LocalKeeps

\* The step at the head of a sequence of steps.
LEMMA HeadIs ==
  ASSUME ReporterInv, run.todo # <<>>
  PROVE  /\ Head(run.todo) = run.todo[1] /\ Head(run.todo) \in StepType
         /\ Sound(Head(run.todo)) /\ Len(run.todo) \in Nat \ {0}
         /\ Tail(run.todo) \in Seq(StepType) /\ Len(Tail(run.todo)) = Len(run.todo) - 1
         /\ Apart(Tail(run.todo))
         /\ \A k \in DOMAIN Tail(run.todo) :
              \E j \in DOMAIN run.todo :
                /\ Tail(run.todo)[k] = run.todo[j]
                /\ run.todo[j].method # Head(run.todo).method
<1>1. run.todo \in Seq(StepType) /\ Apart(run.todo)
  BY Facts
<1>2. 1 \in DOMAIN run.todo /\ Head(run.todo) = run.todo[1]
  BY <1>1, FirstAndRest
<1>3. Sound(Head(run.todo))
  BY <1>2 DEF ReporterInv, StepsSound
<1> QED
  BY <1>1, <1>2, <1>3, FirstAndRest

LEMMA SentHeadIs ==
  ASSUME ReporterInv, run.sent # <<>>
  PROVE  /\ Head(run.sent) = run.sent[1] /\ Head(run.sent) \in StepType
         /\ 1 \in DOMAIN run.sent
         /\ Sound(Head(run.sent)) /\ Head(run.sent).tx # NoTx
         /\ Tail(run.sent) \in Seq(StepType) /\ Apart(Tail(run.sent))
         /\ \A k \in DOMAIN Tail(run.sent) :
              \E j \in DOMAIN run.sent :
                /\ Tail(run.sent)[k] = run.sent[j]
                /\ run.sent[j].method # Head(run.sent).method
<1>1. run.sent \in Seq(StepType) /\ Apart(run.sent)
  BY Facts
<1>2. 1 \in DOMAIN run.sent /\ Head(run.sent) = run.sent[1]
  BY <1>1, FirstAndRest
<1>3. Sound(Head(run.sent)) /\ Head(run.sent).tx # NoTx
  BY <1>2 DEF ReporterInv, StepsSound
<1> QED
  BY <1>1, <1>2, <1>3, FirstAndRest

\* A step goes into flight behind those already sent.
LEMMA SentLater ==
  ASSUME ReporterInv, run.todo # <<>>, NEW step \in StepType,
         step.method = Head(run.todo).method
  PROVE  LET sent == Append(run.sent, step) IN
         /\ sent \in Seq(StepType) /\ Apart(sent)
         /\ \A k \in DOMAIN sent :
              \/ sent[k] = step
              \/ \E j \in DOMAIN run.sent :
                   sent[k] = run.sent[j] /\ run.sent[j].method # step.method
         /\ \A j \in DOMAIN Tail(run.todo), k \in DOMAIN sent :
              Tail(run.todo)[j].method # sent[k].method
<1> DEFINE sent == Append(run.sent, step)
<1>1. run.sent \in Seq(StepType) /\ run.todo \in Seq(StepType) /\ Apart(run.sent) /\ Apart(run.todo)
  BY Facts
<1>2. /\ sent \in Seq(StepType) /\ Len(sent) = Len(run.sent) + 1
      /\ \A k \in 1 .. Len(run.sent) : sent[k] = run.sent[k]
      /\ sent[Len(run.sent) + 1] = step
  BY <1>1, AppendProperties
<1> HIDE DEF sent
<1>3. DOMAIN sent = 1 .. Len(run.sent) + 1 /\ DOMAIN run.sent = 1 .. Len(run.sent)
      /\ Len(run.sent) \in Nat
  BY <1>1, <1>2, LenProperties
<1>4. 1 \in DOMAIN run.todo /\ Head(run.todo) = run.todo[1]
  BY <1>1, FirstAndRest
<1>5. \A j \in DOMAIN run.sent : run.sent[j].method # step.method
  BY <1>4 DEF ReporterInv, StepsApart
<1>6. \A k \in DOMAIN sent :
        \/ k = Len(run.sent) + 1 /\ sent[k] = step
        \/ k \in DOMAIN run.sent /\ sent[k] = run.sent[k]
  BY <1>2, <1>3
<1>7. Apart(sent)
  BY <1>1, <1>5, <1>6 DEF Apart
<1>8. \A j \in DOMAIN Tail(run.todo) :
        /\ Tail(run.todo)[j].method # step.method
        /\ \A k \in DOMAIN run.sent : Tail(run.todo)[j].method # run.sent[k].method
  BY HeadIs DEF ReporterInv, StepsApart
<1> QED
  BY <1>2, <1>5, <1>6, <1>7, <1>8 DEF sent

LEMMA RoomKept ==
  ASSUME ReporterInv, run.pc # "idle", run'.artifact = run.artifact, run'.pc = "writing",
         Len(run'.todo) <= 2, Len(txs') + Len(run'.todo) <= MaxTxs
  PROVE  RoomLeft'
BY DEF ReporterInv, RoomLeft

LEMMA RoomIs ==
  ASSUME ReporterInv
  PROVE  /\ Len(run.todo) <= 2
         /\ run.pc = "writing" => Len(txs) + Len(run.todo) <= MaxTxs
         /\ run.pc \in {"saving", "failing"} => Len(txs) + Len(run.todo) <= MaxTxs + 1
BY DEF ReporterInv, RoomLeft

LEMMA InFlightIs ==
  ASSUME ReporterInv, run.todo # <<>>, NEW tx \in Nat, NEW r, r = InFlight(tx)
  PROVE  /\ r \in RunType /\ r.pc = "writing" /\ r.todo = Tail(run.todo)
         /\ r.sent = Append(run.sent, [method |-> Head(run.todo).method, tx |-> tx])
         /\ r.artifact = run.artifact /\ r.verified = run.verified /\ r.result = run.result
<1>1. run \in RunType
  BY Facts
<1>2. PICK step : step = [method |-> Head(run.todo).method, tx |-> tx]
  OBVIOUS
<1>3. step \in StepType /\ step.method = Head(run.todo).method
  BY <1>2, HeadIs DEF StepType
<1>4. PICK sent : sent = Append(run.sent, step)
  OBVIOUS
<1>5. PICK todo : todo = Tail(run.todo)
  OBVIOUS
<1>6. sent \in Seq(StepType) /\ todo \in Seq(StepType)
  BY <1>3, <1>4, <1>5, SentLater, HeadIs
<1>7. r = [run EXCEPT !.pc = "writing", !.todo = todo, !.sent = sent]
  BY <1>2, <1>4, <1>5 DEF InFlight
<1>8. /\ r \in RunType /\ r.pc = "writing" /\ r.todo = todo /\ r.sent = sent
      /\ r.artifact = run.artifact /\ r.verified = run.verified /\ r.result = run.result
  BY <1>1, <1>6, <1>7 DEF RunType
<1> QED
  BY <1>2, <1>4, <1>5, <1>8

LEMMA ReconcileKeeps ==
  ASSUME ReporterInv, Reconcile
  PROVE  ReporterInv'
<1>1. [ReporterNext]_reporterVars /\ UNCHANGED <<txs, evidence, attempts>>
  BY Zenon DEF ReporterNext, RunStep, Reconcile
<1>2. /\ run.pc = "writing" /\ run.todo # <<>> /\ Head(run.todo).tx # NoTx
      /\ run' = InFlight(Head(run.todo).tx)
      /\ Len(txs) \in Nat /\ MaxTxs \in Nat
  BY Facts DEF Reconcile, MayWrite
<1>3. PICK step : step = Head(run.todo)
  OBVIOUS
<1>4. /\ step \in StepType /\ step.tx \in Nat /\ [method |-> step.method, tx |-> step.tx] = step
      /\ 1 \in DOMAIN run.todo /\ step = run.todo[1]
  BY <1>2, <1>3, HeadIs, Facts, FirstAndRest DEF StepType
<1>5. /\ run' \in RunType /\ run'.pc = "writing" /\ run'.todo = Tail(run.todo)
      /\ run'.sent = Append(run.sent, step)
      /\ run'.artifact = run.artifact /\ run'.verified = run.verified /\ run'.result = run.result
  <2>1. run' = InFlight(step.tx)
    BY <1>2, <1>3
  <2>2. /\ run' \in RunType /\ run'.pc = "writing" /\ run'.todo = Tail(run.todo)
        /\ run'.sent = Append(run.sent, [method |-> Head(run.todo).method, tx |-> step.tx])
        /\ run'.artifact = run.artifact /\ run'.verified = run.verified /\ run'.result = run.result
    BY <1>2, <1>4, <2>1, InFlightIs
  <2> QED
    BY <1>3, <1>4, <2>2
<1>6. PICK todo, sent : todo = run'.todo /\ sent = run'.sent
  OBVIOUS
<1>7. /\ sent \in Seq(StepType) /\ Apart(sent)
      /\ \A k \in DOMAIN sent :
           \/ sent[k] = run.todo[1]
           \/ \E j \in DOMAIN run.sent : sent[k] = run.sent[j]
      /\ \A j \in DOMAIN todo, k \in DOMAIN sent : todo[j].method # sent[k].method
      /\ Apart(todo)
      /\ \A k \in DOMAIN todo : \E j \in DOMAIN run.todo : todo[k] = run.todo[j]
  <2>1. sent = Append(run.sent, step) /\ todo = Tail(run.todo)
    BY <1>5, <1>6
  <2>2. /\ sent \in Seq(StepType) /\ Apart(sent)
        /\ \A k \in DOMAIN sent :
              \/ sent[k] = step
              \/ \E j \in DOMAIN run.sent :
                   sent[k] = run.sent[j] /\ run.sent[j].method # step.method
        /\ \A j \in DOMAIN Tail(run.todo), k \in DOMAIN sent :
              Tail(run.todo)[j].method # sent[k].method
    <3>1. ReporterInv /\ run.todo # <<>> /\ step \in StepType /\ step.method = Head(run.todo).method
      BY <1>2, <1>3, <1>4
    <3> QED
      BY ONLY <2>1, <3>1, SentLater, SMT
  <2>3. /\ Apart(todo)
        /\ \A k \in DOMAIN todo : \E j \in DOMAIN run.todo : todo[k] = run.todo[j]
    BY <1>2, <2>1, HeadIs
  <2> QED
    BY <1>4, <2>1, <2>2, <2>3
<1>8. StepsApart'
  BY <1>5, <1>6, <1>7, EmptySteps, SMTT(20) DEF StepsApart, Apart
<1>9. RoomLeft'
  <2>1. Len(run.todo) \in Nat \ {0} /\ Len(Tail(run.todo)) = Len(run.todo) - 1
    BY <1>2, HeadIs
  <2>2. Len(run'.todo) = Len(run.todo) - 1 /\ txs' = txs
    BY <1>1, <1>5, <2>1
  <2>3. Len(run'.todo) <= 2 /\ Len(txs') + Len(run'.todo) <= MaxTxs
    BY <1>2, <2>1, <2>2, RoomIs
  <2> QED
    BY <1>2, <1>5, <2>3, RoomKept
<1>10. ChainGrows /\ \A m : RowsRest(m)
  BY <1>1 DEF ChainGrows, RowsRest
<1>11. StepsSound'
  <2>1. \A k \in DOMAIN run'.todo : \E j \in DOMAIN run.todo : run'.todo[k] = run.todo[j]
    BY <1>6, <1>7
  <2>2. \A k \in DOMAIN run'.sent :
          \/ run'.sent[k] = run.todo[1]
          \/ \E j \in DOMAIN run.sent : run'.sent[k] = run.sent[j]
    BY <1>6, <1>7
  <2>3. 1 \in DOMAIN run.todo /\ run.todo[1].tx # NoTx
    BY <1>2, <1>3, <1>4
  <2> QED
    BY <1>5, <1>10, <2>1, <2>2, <2>3, StepsKept
<1> QED
  BY <1>1, <1>5, <1>8, <1>9, <1>10, <1>11, ProvenStays, LocalKeeps

LEMMA SavedRests ==
  ASSUME NEW row, NEW n, SavedAt(attempts, attempts', row, n), NEW m, m # row.method
  PROVE  RowsRest(m)
BY DEF SavedAt, RowsRest

\* A step of the run that saves a row of method m.
LEMMA SaveKeeps ==
  ASSUME ReporterInv, [ReporterNext]_reporterVars, NEW m \in Methods, NEW row, NEW n,
         row.method = m, row.artifact = run.artifact, RowIsTrue(row)',
         SavedAt(attempts, attempts', row, n), n \notin DOMAIN attempts => Unwritten(m),
         run' \in RunType, Len(txs') <= MaxTxs, RoomLeft', StepsApart', StepsSound',
         VerifiedIsProven', PassIsProven'
  PROVE  ReporterInv'
<1>1. attempts' \in Seq(RowType)
  BY DEF SavedAt
<1>2. ReporterTypeOK' /\ ChainGrows /\ AcceptedIsStored'
  BY <1>1, NextTyped
<1>3. RowsAreTheirs'
  BY <1>2, RowsSaved
<1>4. LastIsLive'
  BY <1>2, SavedIsLast
<1> QED
  BY <1>2, <1>3, <1>4 DEF ReporterInv

\* The row of the write at the head is committed.
LEMMA CommitIs ==
  ASSUME ReporterInv, run.pc = "saving", UNCHANGED <<txs, evidence>>,
         run'.artifact = run.artifact,
         attempts' = SavedIn(attempts, "SUBMITTED", Head(run.todo).method, Head(run.todo).tx,
                             NoEvidence)
  PROVE  \E step, row, n :
           /\ step = Head(run.todo) /\ Sound(step)'
           /\ row.method = step.method /\ row.artifact = run.artifact /\ RowIsTrue(row)'
           /\ SavedAt(attempts, attempts', row, n)
<1>2. /\ run.todo # <<>> /\ run.todo[1].tx # NoTx
      /\ Unwritten(run.todo[1].method) /\ ChainTypes /\ run.artifact \in Artifacts
      /\ attempts \in Seq(RowType) /\ Len(txs) \in Nat /\ MaxTxs \in Nat
  BY Facts DEF ReporterInv, StepsSound
<1>3. PICK step : step = Head(run.todo)
  OBVIOUS
<1>4. /\ step \in StepType /\ step.tx \in Nat /\ step.tx # NoTx /\ step.method \in Methods
      /\ [method |-> step.method, tx |-> step.tx] = step
      /\ Sound(step) /\ Unwritten(step.method)
  BY <1>2, <1>3, HeadIs DEF StepType
<1>5. PICK row : row = Row("SUBMITTED", step.method, step.tx, NoEvidence)
  OBVIOUS
<1>6. /\ row.method = step.method /\ row.artifact = run.artifact /\ row.tx = step.tx
      /\ row.status = "FINALIZING" /\ row.evidence = NoEvidence
  BY <1>2, <1>4, <1>5, RowIs DEF NoEvidence
<1>7. PICK n : SavedAt(attempts, attempts', row, n)
  <2>1. attempts' = SavedIn(attempts, "SUBMITTED", step.method, step.tx, NoEvidence)
    BY <1>3
  <2>2. NoEvidence \in Nat
    BY DEF NoEvidence
  <2> QED
    BY <1>2, <1>4, <1>5, <2>1, <2>2, SavedIs
<1>8. ChainGrows
  BY DEF ChainGrows
<1>9. RowIsTrue(row)'
  <2>1. RowIsTrue(row)
    BY <1>4, <1>6 DEF RowIsTrue, Sound
  <2> QED
    BY <1>2, <1>8, <2>1, TrueStays
<1>10. Sound(step)'
  <2>1. PICK a, m : a = run.artifact /\ m = step.method
    OBVIOUS
  <2>2. \/ StoredRevoked(m, a)
        \/ \A i \in DOMAIN attempts' :
             attempts'[i].method = m /\ attempts'[i].artifact = a /\ Live(i)' => i = n
    BY <1>4, <1>6, <1>7, <1>8, <2>1, SavedIsLast
  <2>3. StoredRevoked(m, a) => StoredRevoked(m, a)'
    BY <1>2, <1>8, RevokedStays
  <2>4. attempts'[n].tx = step.tx
    BY <1>6, <1>7 DEF SavedAt
  <2>5. run'.artifact = a
    BY <2>1
  <2>6. Covered(step)'
    BY <2>1, <2>2, <2>3, <2>4, <2>5
       DEF Covered, RowsOf, RowsIn, StoredRevoked, RecordOf, TxOf
  <2> QED
    BY <1>4, <1>8, <2>1, <2>5, <2>6 DEF Sound, ChainGrows
<1> QED
  BY <1>3, <1>6, <1>7, <1>9, <1>10

LEMMA SaveSubmittedKeeps ==
  ASSUME ReporterInv, SaveSubmitted
  PROVE  ReporterInv'
<1>1. [ReporterNext]_reporterVars /\ UNCHANGED <<txs, evidence>>
  BY Zenon DEF ReporterNext, RunStep, SaveSubmitted
<1>2. /\ run.pc = "saving" /\ run.todo # <<>> /\ run.todo[1].tx # NoTx
      /\ ChainTypes /\ run.artifact \in Artifacts /\ Len(txs) \in Nat /\ MaxTxs \in Nat
      /\ Head(run.todo).tx \in Nat /\ Head(run.todo).tx # NoTx
  BY Facts, HeadIs DEF SaveSubmitted, ReporterInv, StepsSound, StepType
<1>3. run'.artifact = run.artifact
  BY <1>2, InFlightIs DEF SaveSubmitted
<1>4. PICK step, row, n :
        /\ step = Head(run.todo) /\ Sound(step)'
        /\ row.method = step.method /\ row.artifact = run.artifact /\ RowIsTrue(row)'
        /\ SavedAt(attempts, attempts', row, n)
  BY <1>1, <1>2, <1>3, CommitIs DEF SaveSubmitted, Saved
<1>5. /\ step \in StepType /\ step.tx \in Nat /\ step.tx # NoTx /\ step.method \in Methods
      /\ [method |-> step.method, tx |-> step.tx] = step
      /\ Unwritten(step.method)
  BY <1>2, <1>4, HeadIs DEF StepType, SaveSubmitted, ReporterInv, StepsSound
<1>8. ChainGrows
  BY <1>1 DEF ChainGrows
<1>11. /\ run' \in RunType /\ run'.pc = "writing" /\ run'.todo = Tail(run.todo)
       /\ run'.sent = Append(run.sent, step)
       /\ run'.artifact = run.artifact /\ run'.verified = run.verified /\ run'.result = run.result
  <2>1. run' = InFlight(step.tx)
    BY <1>4 DEF SaveSubmitted
  <2>2. /\ run' \in RunType /\ run'.pc = "writing" /\ run'.todo = Tail(run.todo)
        /\ run'.sent = Append(run.sent, [method |-> Head(run.todo).method, tx |-> step.tx])
        /\ run'.artifact = run.artifact /\ run'.verified = run.verified /\ run'.result = run.result
    BY <1>2, <1>4, <1>5, <2>1, InFlightIs
  <2> QED
    BY <1>4, <1>5, <2>2
<1>12. PICK todo, sent : todo = run'.todo /\ sent = run'.sent
  OBVIOUS
<1>13. /\ Apart(sent) /\ Apart(todo)
       /\ \A k \in DOMAIN sent :
            \/ sent[k] = step
            \/ \E j \in DOMAIN run.sent :
                 sent[k] = run.sent[j] /\ run.sent[j].method # step.method
       /\ \A j \in DOMAIN todo, k \in DOMAIN sent : todo[j].method # sent[k].method
       /\ \A k \in DOMAIN todo :
            \E j \in DOMAIN run.todo :
              todo[k] = run.todo[j] /\ run.todo[j].method # step.method
  <2>1. sent = Append(run.sent, step) /\ todo = Tail(run.todo)
    BY <1>11, <1>12
  <2>2. /\ sent \in Seq(StepType) /\ Apart(sent)
        /\ \A k \in DOMAIN sent :
              \/ sent[k] = step
              \/ \E j \in DOMAIN run.sent :
                   sent[k] = run.sent[j] /\ run.sent[j].method # step.method
        /\ \A j \in DOMAIN Tail(run.todo), k \in DOMAIN sent :
              Tail(run.todo)[j].method # sent[k].method
    <3>1. ReporterInv /\ run.todo # <<>> /\ step \in StepType /\ step.method = Head(run.todo).method
      BY <1>2, <1>4, <1>5
    <3> QED
      BY ONLY <2>1, <3>1, SentLater, SMT
  <2>3. /\ Apart(todo)
        /\ \A k \in DOMAIN todo :
             \E j \in DOMAIN run.todo :
               todo[k] = run.todo[j] /\ run.todo[j].method # step.method
    BY <1>2, <1>4, <2>1, HeadIs
  <2> QED
    BY <2>1, <2>2, <2>3
<1>14. StepsApart'
  BY <1>11, <1>12, <1>13, EmptySteps, SMTT(20) DEF StepsApart, Apart
<1>15. RoomLeft'
  <2>1. Len(run.todo) \in Nat \ {0} /\ Len(Tail(run.todo)) = Len(run.todo) - 1
    BY <1>2, HeadIs
  <2>2. Len(run'.todo) = Len(run.todo) - 1 /\ txs' = txs
    BY <1>1, <1>11, <2>1
  <2>3. Len(run'.todo) <= 2 /\ Len(txs') + Len(run'.todo) <= MaxTxs
    BY <1>2, <2>1, <2>2, RoomIs
  <2> QED
    BY <1>2, <1>11, <2>3, RoomKept
<1>16. \A m : m # step.method => RowsRest(m)
  BY <1>4, SavedRests
<1>17. StepsSound'
  <2>1. \A k \in DOMAIN run'.todo :
          \E j \in DOMAIN run.todo :
            run'.todo[k] = run.todo[j] /\ RowsRest(run.todo[j].method)
    BY <1>12, <1>13, <1>16
  <2>2. \A k \in DOMAIN run'.sent :
          \/ run'.sent[k] = step
          \/ \E j \in DOMAIN run.sent :
               run'.sent[k] = run.sent[j] /\ RowsRest(run.sent[j].method)
    BY <1>12, <1>13, <1>16
  <2>3. \A k \in DOMAIN run'.sent :
          run'.sent[k] = step => Sound(run.sent[k])' /\ run'.sent[k].tx # NoTx
    BY <1>4, <1>5, SentSound
  <2> QED
    BY <1>8, <1>11, <2>1, <2>2, <2>3, StepsKept
<1>18. VerifiedIsProven' /\ PassIsProven'
  BY <1>8, <1>11, ProvenStays
<1>19. Len(txs') <= MaxTxs
  BY <1>1 DEF ReporterInv, ReporterTypeOK
<1> QED
  BY <1>1, <1>4, <1>5, <1>11, <1>14, <1>15, <1>17, <1>18, <1>19, SaveKeeps

\* The step at the head has failed, and a row says so.
LEMMA WriteFailedKeeps ==
  ASSUME ReporterInv, [ReporterNext]_reporterVars, run.pc = "failing",
         run.todo # <<>>, run' = WriteFailed,
         NEW row, row = Row("FAILED", Head(run.todo).method, NoTx, NoEvidence),
         NEW n, SavedAt(attempts, attempts', row, n),
         n \notin DOMAIN attempts => Unwritten(Head(run.todo).method),
         Len(txs') \in Nat, Len(txs') + Len(run.todo) <= MaxTxs + 1
  PROVE  ReporterInv'
<1>1. /\ run \in RunType /\ run.artifact \in Artifacts /\ MaxTxs \in Nat
      /\ ChainTypes /\ NoTx \in Nat /\ NoEvidence \in Nat
  BY Facts DEF NoTx, NoEvidence
<1>2. PICK m : m = Head(run.todo).method
  OBVIOUS
<1>3. m \in Methods
  BY <1>2, HeadIs DEF StepType
<1>5. /\ row.method = m /\ row.artifact = run.artifact /\ row.tx = NoTx
      /\ row.status = "FAILED" /\ row.evidence = NoEvidence
  BY <1>2 DEF Row
<1>6. SavedAt(attempts, attempts', row, n)
  OBVIOUS
<1>7. RowIsTrue(row)'
  BY <1>5 DEF RowIsTrue
<1>8. ChainGrows
  BY ChainStep DEF ReporterInv, ChainKept
<1>9. PICK todo :
        /\ run' = [run EXCEPT !.pc = "writing", !.failed = TRUE, !.todo = todo]
        /\ todo = <<>> \/ todo = Tail(run.todo)
  BY DEF WriteFailed
<1>10. /\ todo \in Seq(StepType) /\ Len(todo) <= Len(run.todo) - 1 /\ Apart(todo)
       /\ Len(run.todo) \in Nat \ {0} /\ Len(todo) \in Nat
       /\ \A k \in DOMAIN todo :
            \E j \in DOMAIN run.todo : todo[k] = run.todo[j] /\ run.todo[j].method # m
  <2>1. /\ Tail(run.todo) \in Seq(StepType) /\ Len(Tail(run.todo)) = Len(run.todo) - 1
        /\ Apart(Tail(run.todo)) /\ Len(run.todo) \in Nat \ {0}
        /\ \A k \in DOMAIN Tail(run.todo) :
             \E j \in DOMAIN run.todo : Tail(run.todo)[k] = run.todo[j] /\ run.todo[j].method # m
    BY <1>2, HeadIs
  <2>2. CASE todo = <<>>
    BY <2>1, <2>2, EmptySteps
  <2>3. CASE todo = Tail(run.todo)
    BY <2>1, <2>3
  <2> QED
    BY <1>9, <2>2, <2>3
<1>11. /\ run' \in RunType /\ run'.pc = "writing" /\ run'.todo = todo /\ run'.sent = run.sent
       /\ run'.artifact = run.artifact /\ run'.verified = run.verified /\ run'.result = run.result
  BY <1>1, <1>9, <1>10 DEF RunType
<1>12. StepsApart'
  BY <1>10, <1>11 DEF ReporterInv, StepsApart, Apart
<1>13. RoomLeft'
  <2>1. Len(run'.todo) <= 2 /\ Len(txs') + Len(run'.todo) <= MaxTxs
    BY <1>1, <1>10, <1>11, RoomIs
  <2> QED
    BY <1>11, <2>1, RoomKept
<1>14. \A m2 : m2 # m => RowsRest(m2)
  BY <1>5, <1>6, SavedRests
<1>15. StepsSound'
  <2>1. \A k \in DOMAIN run'.todo :
          \E j \in DOMAIN run.todo :
            run'.todo[k] = run.todo[j] /\ RowsRest(run.todo[j].method)
    BY <1>10, <1>11, <1>14
  <2>2. \A k \in DOMAIN run'.sent :
          \E j \in DOMAIN run.sent :
            run'.sent[k] = run.sent[j] /\ RowsRest(run.sent[j].method)
    <3>1. 1 \in DOMAIN run.todo /\ run.todo[1].method = m
      BY <1>2, Facts, FirstAndRest
    <3>2. \A k \in DOMAIN run.sent : run.sent[k].method # m
      BY <3>1 DEF ReporterInv, StepsApart
    <3> QED
      BY <1>11, <1>14, <3>2
  <2> QED
    BY <1>8, <1>11, <2>1, <2>2, StepsKept
<1>16. VerifiedIsProven' /\ PassIsProven'
  BY <1>8, <1>11, ProvenStays
<1>17. Len(txs') <= MaxTxs
  BY <1>1, <1>10
<1> QED
  BY <1>2, <1>3, <1>5, <1>6, <1>7, <1>11, <1>12, <1>13, <1>15, <1>16, <1>17, SaveKeeps

\* A step that names no transaction finds no live row of its write.
LEMMA NotYetWritten ==
  ASSUME ReporterInv, NEW step, Sound(step), step.tx = NoTx
  PROVE  Unwritten(step.method)
BY DEF Sound, Covered, Unwritten, Live

LEMMA SaveFailedKeeps ==
  ASSUME ReporterInv, SaveFailed
  PROVE  ReporterInv'
<1>1. [ReporterNext]_reporterVars
  BY Zenon DEF ReporterNext, RunStep
<1>2. /\ run.pc = "failing" /\ run.todo # <<>>
      /\ run' = WriteFailed /\ UNCHANGED txs
      /\ attempts \in Seq(RowType) /\ run.artifact \in Artifacts
      /\ Len(txs) \in Nat /\ MaxTxs \in Nat /\ NoTx \in Nat /\ NoEvidence \in Nat
  BY Facts DEF SaveFailed, ReporterInv, StepsSound, NoTx, NoEvidence
<1>3. PICK m : m = Head(run.todo).method
  OBVIOUS
<1>4. m \in Methods /\ Len(run.todo) \in Nat \ {0}
  BY <1>2, <1>3, HeadIs DEF StepType
<1>5. attempts' = SavedIn(attempts, "FAILED", m, NoTx, NoEvidence)
  BY <1>3 DEF SaveFailed, Saved
<1>6. PICK row, n : /\ row = Row("FAILED", m, NoTx, NoEvidence)
                    /\ SavedAt(attempts, attempts', row, n)
                    /\ n \notin DOMAIN attempts => Adds(attempts, "FAILED", m)
  BY <1>2, <1>4, <1>5, SavedIs
<1>7. n \notin DOMAIN attempts => Unwritten(m)
  BY <1>6 DEF Adds, Unwritten, RowsOf
<1>8. Len(txs') \in Nat /\ Len(txs') + Len(run.todo) <= MaxTxs + 1
  BY <1>2, <1>4, RoomIs
<1> QED
  BY <1>1, <1>2, <1>3, <1>6, <1>7, <1>8, WriteFailedKeeps

\* A call of sendStep throws: the step stays at the head.
LEMMA ThrownIs ==
  ASSUME ReporterInv, run.todo # <<>>, run' = [run EXCEPT !.pc = "failing"]
  PROVE  /\ run' \in RunType /\ run'.pc = "failing" /\ run'.todo = run.todo
         /\ run'.sent = run.sent /\ run'.artifact = run.artifact
         /\ run'.verified = run.verified /\ run'.result = run.result
         /\ StepsApart'
<1>1. run \in RunType
  BY Facts
<1>2. /\ run' \in RunType /\ run'.pc = "failing" /\ run'.todo = run.todo
      /\ run'.sent = run.sent /\ run'.artifact = run.artifact
      /\ run'.verified = run.verified /\ run'.result = run.result
  BY <1>1 DEF RunType
<1> QED
  BY <1>2 DEF ReporterInv, StepsApart, Apart

LEMMA ThrowKeeps ==
  ASSUME ReporterInv, [ReporterNext]_reporterVars, UNCHANGED attempts,
         run.pc \in {"writing", "saving"}, run.todo # <<>>,
         run' = [run EXCEPT !.pc = "failing"],
         Len(txs') \in Nat, Len(txs') + Len(run.todo) <= MaxTxs + 1
  PROVE  ReporterInv'
<1>1. /\ ChainTypes /\ attempts \in Seq(RowType) /\ MaxTxs \in Nat
      /\ Len(run.todo) \in Nat \ {0}
  BY Facts, HeadIs
<1>2. /\ run' \in RunType /\ run'.pc = "failing" /\ run'.todo = run.todo
      /\ run'.sent = run.sent /\ run'.artifact = run.artifact
      /\ run'.verified = run.verified /\ run'.result = run.result
      /\ StepsApart'
  BY ThrownIs
<1>3. Len(txs') <= MaxTxs
  BY <1>1
<1>4. ReporterTypeOK' /\ ChainGrows /\ AcceptedIsStored'
  BY <1>1, <1>2, <1>3, NextTyped
<1>5. RoomLeft'
  BY <1>2 DEF ReporterInv, RoomLeft
<1>6. \A m : RowsRest(m)
  BY DEF RowsRest
<1>7. StepsSound'
  BY <1>2, <1>4, <1>6, StepsKept DEF ReporterInv, StepsSound
<1>8. RowsAreTheirs' /\ LastIsLive'
  BY <1>4, RowsStay
<1>9. VerifiedIsProven' /\ PassIsProven'
  BY <1>2, <1>4, ProvenStays
<1> QED
  BY <1>2, <1>4, <1>5, <1>7, <1>8, <1>9 DEF ReporterInv

LEMMA SendThrowsKeeps ==
  ASSUME ReporterInv, SendThrows
  PROVE  ReporterInv'
<1>1. [ReporterNext]_reporterVars
  BY Zenon DEF ReporterNext, TroubleStep
<1>2. /\ run.pc = "writing" /\ run.todo # <<>> /\ Head(run.todo).tx = NoTx
      /\ run' = [run EXCEPT !.pc = "failing"] /\ UNCHANGED <<evidence, attempts>>
      /\ Broadcast(Head(run.todo).method, run.artifact) \/ UNCHANGED txs
  BY DEF SendThrows, MayWrite
<1>3. /\ ChainTypes /\ AcceptedIsStored /\ run.artifact \in Artifacts
      /\ Len(txs) \in Nat /\ MaxTxs \in Nat
  BY <1>2, Facts DEF ReporterInv
<1>4. Head(run.todo).method \in Methods /\ Len(run.todo) \in Nat \ {0}
  BY <1>2, HeadIs DEF StepType
<1>5. Len(txs') \in Nat /\ Len(txs') <= Len(txs) + 1
  <2>1. CASE UNCHANGED txs
    BY <1>3, <2>1
  <2>2. CASE Broadcast(Head(run.todo).method, run.artifact)
    <3>1. Len(txs') = Len(txs) + 1
      BY <1>2, <1>3, <1>4, <2>2, BroadcastKeeps
    <3> QED
      BY <1>3, <3>1
  <2> QED
    BY <1>2, <2>1, <2>2
<1>6. Len(txs') + Len(run.todo) <= MaxTxs + 1
  BY <1>2, <1>3, <1>4, <1>5, RoomIs
<1> QED
  BY <1>1, <1>2, <1>5, <1>6, ThrowKeeps

LEMMA SaveThrowsKeeps ==
  ASSUME ReporterInv, SaveThrows
  PROVE  ReporterInv'
<1>1. [ReporterNext]_reporterVars
  BY Zenon DEF ReporterNext, TroubleStep
<1>2. /\ run.pc = "saving" /\ run.todo # <<>> /\ Unwritten(run.todo[1].method)
      /\ run' = [run EXCEPT !.pc = "failing"] /\ UNCHANGED <<txs, evidence>>
      /\ ChainTypes /\ Len(txs) \in Nat /\ MaxTxs \in Nat
  BY Facts DEF SaveThrows, ReporterInv, StepsSound
<1>3. Len(run.todo) \in Nat \ {0} /\ Len(txs') + Len(run.todo) <= MaxTxs + 1
  BY <1>2, HeadIs, RoomIs
<1>4. CASE UNCHANGED attempts
  BY <1>1, <1>2, <1>3, <1>4, ThrowKeeps
<1>5. CASE attempts' = SavedIn(attempts, "SUBMITTED", Head(run.todo).method, Head(run.todo).tx,
                               NoEvidence)
  <2>1. /\ run' \in RunType /\ run'.pc = "failing" /\ run'.todo = run.todo
        /\ run'.sent = run.sent /\ run'.artifact = run.artifact
        /\ run'.verified = run.verified /\ run'.result = run.result
        /\ StepsApart'
    BY <1>2, ThrownIs
  <2>2. PICK step, row, n :
          /\ step = Head(run.todo) /\ Sound(step)'
          /\ row.method = step.method /\ row.artifact = run.artifact /\ RowIsTrue(row)'
          /\ SavedAt(attempts, attempts', row, n)
    BY <1>2, <1>5, <2>1, CommitIs
  <2>3. step = run.todo[1] /\ step.method \in Methods /\ Unwritten(step.method)
        /\ 1 \in DOMAIN run.todo
    BY <1>2, <2>2, HeadIs, Facts, FirstAndRest DEF StepType
  <2>4. ChainGrows
    BY <1>2 DEF ChainGrows
  <2>5. \A m : m # step.method => RowsRest(m)
    BY <2>2, SavedRests
  <2>6. StepsSound'
    <3>1. \A k \in DOMAIN run'.todo :
            \/ run'.todo[k] = step
            \/ \E j \in DOMAIN run.todo :
                 run'.todo[k] = run.todo[j] /\ RowsRest(run.todo[j].method)
      BY <2>1, <2>3, <2>5 DEF ReporterInv, StepsApart, Apart
    <3>2. \A k \in DOMAIN run'.todo : run'.todo[k] = step => Sound(run.todo[k])'
      BY <2>2, TodoSound
    <3>3. \A k \in DOMAIN run'.sent :
            \E j \in DOMAIN run.sent :
              run'.sent[k] = run.sent[j] /\ RowsRest(run.sent[j].method)
      BY <2>1, <2>3, <2>5 DEF ReporterInv, StepsApart
    <3> QED
      BY <1>2, <2>1, <2>4, <3>1, <3>2, <3>3, StepsKept
  <2>7. RoomLeft'
    BY <1>2, <1>3, <2>1 DEF ReporterInv, RoomLeft
  <2>8. VerifiedIsProven' /\ PassIsProven'
    BY <2>1, <2>4, ProvenStays
  <2>9. Len(txs') <= MaxTxs
    BY <1>2 DEF ReporterInv, ReporterTypeOK
  <2> QED
    BY <1>1, <2>1, <2>2, <2>3, <2>6, <2>7, <2>8, <2>9, SaveKeeps
<1> QED
  BY <1>4, <1>5 DEF SaveThrows, Saved

LEMMA SendKeeps ==
  ASSUME ReporterInv, Send
  PROVE  ReporterInv'
<1>1. [ReporterNext]_reporterVars /\ UNCHANGED <<evidence, attempts>>
  BY Zenon DEF ReporterNext, RunStep, Send
<1>2. /\ run.pc = "writing" /\ run.todo # <<>> /\ Head(run.todo).tx = NoTx
      /\ Broadcast(Head(run.todo).method, run.artifact)
      /\ run' = [run EXCEPT !.pc = "saving", !.todo[1].tx = Len(txs')]
  BY DEF Send, MayWrite
<1>3. /\ run \in RunType /\ ChainTypes /\ AcceptedIsStored /\ run.artifact \in Artifacts
      /\ run.todo \in Seq(StepType) /\ DOMAIN run.todo = 1 .. Len(run.todo)
      /\ Len(txs) \in Nat /\ MaxTxs \in Nat
  BY <1>2, Facts, LenProperties DEF ReporterInv
<1>4. PICK step : step = Head(run.todo)
  OBVIOUS
<1>5. /\ step \in StepType /\ step.method \in Methods /\ step.tx = NoTx
      /\ Len(run.todo) \in Nat \ {0} /\ step = run.todo[1] /\ Unwritten(step.method)
  BY <1>2, <1>4, HeadIs, NotYetWritten DEF StepType
<1>6. PICK tx : tx = Len(txs')
  OBVIOUS
<1>7. /\ ChainGrows /\ ChainTypes' /\ tx = Len(txs) + 1 /\ tx \in Nat /\ tx # NoTx
      /\ tx \in DOMAIN txs'
      /\ txs'[tx].method = step.method /\ txs'[tx].artifact = run.artifact
  <2>1. /\ ChainKept /\ Len(txs') = Len(txs) + 1
        /\ txs'[Len(txs')].method = step.method /\ txs'[Len(txs')].artifact = run.artifact
    BY <1>1, <1>2, <1>3, <1>4, <1>5, BroadcastKeeps
  <2>2. tx = Len(txs) + 1 /\ tx \in Nat /\ tx # NoTx
    BY <1>3, <1>6, <2>1 DEF NoTx
  <2>3. DOMAIN txs' = 1 .. tx
    <3>1. txs' \in Seq(TxType)
      BY <2>1 DEF ChainKept, ChainTypes
    <3> QED
      BY <1>6, <3>1, LenProperties
  <2> QED
    BY <1>3, <1>6, <2>1, <2>2, <2>3 DEF ChainKept
<1>8. PICK written : written = [step EXCEPT !.tx = tx]
  OBVIOUS
<1>9. written \in StepType /\ written.method = step.method /\ written.tx = tx
  BY <1>5, <1>7, <1>8 DEF StepType
<1>10. PICK todo : todo = [run.todo EXCEPT ![1] = written]
  OBVIOUS
<1>11. /\ todo \in Seq(StepType) /\ Len(todo) = Len(run.todo) /\ todo[1] = written
       /\ DOMAIN todo = DOMAIN run.todo /\ 1 \in DOMAIN todo
       /\ \A k \in DOMAIN todo : k # 1 => todo[k] = run.todo[k]
  <2>1. 1 \in 1 .. Len(run.todo)
    BY <1>5
  <2>2. /\ todo \in Seq(StepType) /\ Len(todo) = Len(run.todo)
        /\ \A k \in 1 .. Len(run.todo) : todo[k] = IF k = 1 THEN written ELSE run.todo[k]
    BY <1>3, <1>9, <1>10, <2>1, ExceptSeq
  <2>3. DOMAIN todo = 1 .. Len(run.todo)
    BY <2>2, LenProperties
  <2> QED
    BY <1>3, <2>1, <2>2, <2>3
<1>12. run' = [run EXCEPT !.pc = "saving", !.todo = todo]
  BY <1>2, <1>3, <1>5, <1>6, <1>8, <1>10 DEF RunType
<1>13. /\ run' \in RunType /\ run'.pc = "saving" /\ run'.todo = todo /\ run'.sent = run.sent
       /\ run'.artifact = run.artifact /\ run'.verified = run.verified /\ run'.result = run.result
  BY <1>3, <1>11, <1>12 DEF RunType
<1>14. StepsApart'
  <2>1. \A k \in DOMAIN todo : todo[k].method = run.todo[k].method
    BY <1>5, <1>9, <1>11
  <2> QED
    BY <1>11, <1>13, <2>1 DEF ReporterInv, StepsApart, Apart
<1>15. RoomLeft'
  <2>1. Len(run'.todo) <= 2 /\ Len(txs') + Len(run'.todo) <= MaxTxs + 1
    <3>1. Len(run'.todo) = Len(run.todo) /\ Len(txs') = Len(txs) + 1
      BY <1>6, <1>7, <1>11, <1>13
    <3>2. /\ Len(run.todo) <= 2 /\ Len(txs) + Len(run.todo) <= MaxTxs
          /\ Len(run.todo) \in Nat /\ Len(txs) \in Nat /\ MaxTxs \in Nat
      BY <1>2, <1>3, <1>5, RoomIs
    <3>3. PICK l, t, l1, t1 : /\ l = Len(run.todo) /\ t = Len(txs)
                              /\ l1 = Len(run'.todo) /\ t1 = Len(txs')
      OBVIOUS
    <3>4. l1 = l /\ t1 = t + 1 /\ l <= 2 /\ t + l <= MaxTxs /\ l \in Nat /\ t \in Nat
      BY <3>1, <3>2, <3>3
    <3>5. l1 <= 2 /\ t1 + l1 <= MaxTxs + 1
      BY <1>3, <3>4
    <3> QED
      BY <3>3, <3>5
  <2> QED
    BY <1>3, <1>13, <2>1 DEF RoomLeft
<1>16. \A m : RowsRest(m)
  BY <1>1 DEF RowsRest
<1>17. Unwritten(step.method)'
  BY <1>3, <1>5, <1>7, <1>13, <1>16, UnwrittenStays
<1>18. PICK m : m = step.method
  OBVIOUS
<1>19. Unwritten(m)'
  BY <1>17, <1>18 DEF Unwritten, StoredRevoked, RecordOf, TxOf, RowsOf, RowsIn
<1>20. Sound(written)'
  BY <1>7, <1>9, <1>13, <1>18, <1>19 DEF Sound, Covered, Unwritten
<1>21. Unwritten(run.todo[1].method)'
  BY <1>9, <1>11, <1>13, <1>18, <1>19 DEF Unwritten, StoredRevoked, RecordOf, TxOf, RowsOf, RowsIn
<1>22. StepsSound'
  <2>1. \A k \in DOMAIN run'.todo :
          \/ Sound(run.todo[k])'
          \/ \E j \in DOMAIN run.todo :
               run'.todo[k] = run.todo[j] /\ RowsRest(run.todo[j].method)
    <3>1. \A k \in DOMAIN run'.todo : k # 1 => run'.todo[k] = run.todo[k] /\ k \in DOMAIN run.todo
      BY <1>11, <1>13
    <3>2. Sound(run.todo[1])'
      BY <1>11, <1>13, <1>20, TodoSound
    <3>3. \A k : k = 1 => Sound(run.todo[k])'
      BY <3>2
    <3> QED
      BY <1>16, <3>1, <3>3
  <2>2. run'.todo # <<>> /\ run'.todo[1].tx # NoTx
    BY <1>7, <1>9, <1>11, <1>13, EmptySteps
  <2> QED
    BY <1>7, <1>13, <1>16, <1>21, <2>1, <2>2, StepsKept
<1>23. VerifiedIsProven' /\ PassIsProven'
  BY <1>7, <1>13, ProvenStays
<1>24. Len(txs') <= MaxTxs
  BY <1>2, <1>3, <1>5, <1>6, <1>7, RoomIs
<1>25. ReporterTypeOK' /\ AcceptedIsStored'
  BY <1>1, <1>13, <1>24, Facts, NextTyped
<1>26. RowsAreTheirs' /\ LastIsLive'
  BY <1>1, <1>7, RowsStay
<1> QED
  BY <1>14, <1>15, <1>22, <1>23, <1>25, <1>26 DEF ReporterInv

\* What the wait for the oldest step in flight ended with is written down.
LEMMA SettledKeeps ==
  ASSUME ReporterInv, [ReporterNext]_reporterVars, MaySettle,
         NEW status \in {"SUBMITTED", "FINALIZED", "FAILED"}, NEW e \in Nat, NEW ok \in BOOLEAN,
         Settled(status, e, ok),
         status = "SUBMITTED" => txs[Head(run.sent).tx].status \in {"PENDING", "ACCEPTED"},
         status = "FINALIZED" => txs[Head(run.sent).tx].status = "FINALIZED",
         status = "FAILED" => txs[Head(run.sent).tx].status = "FAILED",
         e # NoEvidence => /\ status = "FINALIZED" /\ e \in DOMAIN evidence
                           /\ RecordOf(e, Head(run.sent).method, run.artifact),
         ok => Proven(Head(run.sent).method)
  PROVE  ReporterInv'
<1>1. /\ run.pc = "writing" /\ run.sent # <<>> /\ run \in RunType /\ run.artifact \in Artifacts
      /\ attempts \in Seq(RowType) /\ UNCHANGED <<txs, evidence>> /\ ChainTypes
      /\ Len(txs) \in Nat /\ MaxTxs \in Nat /\ Len(run.todo) \in Nat
      /\ run.todo \in Seq(StepType)
      /\ \A i \in DOMAIN attempts : attempts[i] \in RowType
      /\ DOMAIN attempts = 1 .. Len(attempts) /\ Len(attempts) \in Nat
  BY Facts, LenProperties DEF MaySettle, Settled
<1>2. PICK step : step = Head(run.sent)
  OBVIOUS
<1>3. /\ step \in StepType /\ step.method \in Methods /\ step.tx \in Nat /\ step.tx # NoTx
      /\ Sound(step) /\ 1 \in DOMAIN run.sent /\ step = run.sent[1]
  BY <1>1, <1>2, SentHeadIs DEF StepType
<1>4. PICK row : row = Row(status, step.method, step.tx, e)
  OBVIOUS
<1>5. /\ row.method = step.method /\ row.artifact = run.artifact /\ row.tx = step.tx
      /\ row.status = (IF status = "SUBMITTED" THEN "FINALIZING" ELSE status)
      /\ row.evidence = e
  BY <1>1, <1>3, <1>4, RowIs
<1>6. PICK n : /\ SavedAt(attempts, attempts', row, n)
               /\ n \notin DOMAIN attempts => Adds(attempts, status, step.method)
  <2>1. attempts' = SavedIn(attempts, status, step.method, step.tx, e)
    BY <1>2 DEF Settled, Saved
  <2>2. \E n \in DOMAIN SavedIn(attempts, status, step.method, step.tx, e) :
          /\ SavedAt(attempts, SavedIn(attempts, status, step.method, step.tx, e),
                     Row(status, step.method, step.tx, e), n)
          /\ n \notin DOMAIN attempts => Adds(attempts, status, step.method)
    <3>1. run.artifact \in Artifacts /\ attempts \in Seq(RowType)
      BY <1>1
    <3>2. step.method \in Methods /\ step.tx \in Nat
      BY <1>3
    <3> QED
      BY ONLY <3>1, <3>2, SavedIs, status \in {"SUBMITTED", "FINALIZED", "FAILED"}, e \in Nat
  <2> QED
    BY <1>4, <2>1, <2>2
<1>7. ChainGrows
  BY <1>1 DEF ChainGrows
<1>8. RowIsTrue(row)'
  <2>1. RowIsTrue(row)
    BY <1>2, <1>3, <1>5 DEF RowIsTrue, Sound
  <2> QED
    BY <1>1, <1>7, <2>1, TrueStays
<1>9. n \notin DOMAIN attempts => Unwritten(step.method)
  <2> SUFFICES ASSUME Adds(attempts, status, step.method), ~StoredRevoked(step.method, run.artifact),
                      NEW i \in RowsOf(step.method), Live(i)
               PROVE  FALSE
    BY <1>6 DEF Unwritten
  <2>1. /\ i \in DOMAIN attempts /\ attempts[i].method = step.method
        /\ attempts[i].artifact = run.artifact
    BY DEF RowsOf, RowsIn
  <2>2. PICK j \in RowsOf(step.method) :
          /\ status = "SUBMITTED" /\ \A k \in RowsOf(step.method) : k <= j
          /\ attempts[j].status # "FINALIZING"
    BY DEF Adds, RowsOf
  <2>3. /\ j \in DOMAIN attempts /\ attempts[j].method = step.method
        /\ attempts[j].artifact = run.artifact
    BY DEF RowsOf, RowsIn
  <2>4. j <= i /\ i <= j
    BY <2>1, <2>2, <2>3 DEF ReporterInv, LastIsLive, SameWrite
  <2>5. i = j
    BY <1>1, <2>1, <2>3, <2>4
  <2>6. attempts[i].status = "FINALIZED"
    BY <1>1, <2>1, <2>2, <2>5 DEF Live, RowType
  <2>7. attempts[i].tx = step.tx
    BY <1>3 DEF Sound, Covered
  <2>8. txs[step.tx].status = "FINALIZED"
    BY <2>1, <2>6, <2>7 DEF ReporterInv, RowsAreTheirs, RowsAreTrue
  <2> QED
    BY <1>2, <2>2, <2>8
<1>10. PICK todo, sent, verified, failed :
         /\ run' = [run EXCEPT !.sent = sent, !.verified = verified, !.failed = failed,
                               !.todo = todo]
         /\ todo = run.todo \/ todo = <<>>
         /\ sent = Tail(run.sent)
         /\ verified = IF ok THEN run.verified \cup {step.method} ELSE run.verified
         /\ failed \in BOOLEAN
  BY <1>2 DEF Settled
<1>11. /\ sent \in Seq(StepType) /\ Apart(sent)
       /\ \A k \in DOMAIN sent :
            \E j \in DOMAIN run.sent : sent[k] = run.sent[j] /\ run.sent[j].method # step.method
  BY <1>1, <1>2, <1>10, SentHeadIs
<1>12. /\ todo \in Seq(StepType) /\ Len(todo) \in Nat /\ Len(todo) <= Len(run.todo)
       /\ DOMAIN todo \subseteq DOMAIN run.todo /\ \A k \in DOMAIN todo : todo[k] = run.todo[k]
  <2>1. CASE todo = run.todo
    BY <1>1, <2>1
  <2>2. CASE todo = <<>>
    BY <1>1, <2>2, EmptySteps
  <2> QED
    BY <1>10, <2>1, <2>2
<1>13. verified \in SUBSET Methods
  BY <1>1, <1>3, <1>10 DEF RunType
<1>14. /\ run' \in RunType /\ run'.pc = "writing" /\ run'.todo = todo /\ run'.sent = sent
       /\ run'.artifact = run.artifact /\ run'.verified = verified /\ run'.result = run.result
  BY <1>1, <1>10, <1>11, <1>12, <1>13 DEF RunType
<1>15. \A k \in DOMAIN run.todo : run.todo[k].method # step.method
  BY <1>3 DEF ReporterInv, StepsApart
<1>16. StepsApart'
  <2>1. Apart(run.todo) /\ \A j \in DOMAIN run.todo, k \in DOMAIN run.sent :
                             run.todo[j].method # run.sent[k].method
    BY DEF ReporterInv, StepsApart
  <2>2. Apart(todo)
    BY <1>12, <2>1 DEF Apart
  <2>3. \A j \in DOMAIN todo, k \in DOMAIN sent : todo[j].method # sent[k].method
    BY <1>11, <1>12, <2>1
  <2> QED
    BY <1>11, <1>14, <2>2, <2>3 DEF StepsApart, Apart
<1>17. RoomLeft'
  <2>1. Len(run.todo) <= 2 /\ Len(txs) + Len(run.todo) <= MaxTxs
    BY <1>1, RoomIs
  <2>2. Len(todo) <= 2 /\ Len(txs) + Len(todo) <= MaxTxs
    BY <1>1, <1>12, <2>1
  <2>3. Len(run'.todo) <= 2 /\ Len(txs') + Len(run'.todo) <= MaxTxs
    BY <1>1, <1>14, <2>2
  <2> QED
    BY <1>1, <1>14, <2>3, RoomKept
<1>18. \A m : m # step.method => RowsRest(m)
  BY <1>5, <1>6, SavedRests
<1>19. StepsSound'
  <2>1. \A k \in DOMAIN run'.todo :
          \E j \in DOMAIN run.todo :
            run'.todo[k] = run.todo[j] /\ RowsRest(run.todo[j].method)
    BY <1>12, <1>14, <1>15, <1>18
  <2>2. \A k \in DOMAIN run'.sent :
          \E j \in DOMAIN run.sent :
            run'.sent[k] = run.sent[j] /\ RowsRest(run.sent[j].method)
    BY <1>11, <1>14, <1>18
  <2> QED
    BY <1>7, <1>14, <2>1, <2>2, StepsKept
<1>20. VerifiedIsProven'
  <2> SUFFICES ASSUME NEW m \in verified
               PROVE  Proven(m)'
    BY <1>14 DEF VerifiedIsProven
  <2>1. Proven(m)
    BY <1>2, <1>10 DEF ReporterInv, VerifiedIsProven
  <2> QED
    BY <1>1, <1>7, <1>14, <2>1, ProvenKept
<1>21. PassIsProven'
  BY <1>1, <1>14 DEF ReporterInv, PassIsProven, RecordOf, TxOf
<1>22. Len(txs') <= MaxTxs
  BY <1>1 DEF ReporterInv, ReporterTypeOK
<1> QED
  BY <1>3, <1>5, <1>6, <1>8, <1>9, <1>14, <1>16, <1>17, <1>19, <1>20, <1>21, <1>22, SaveKeeps

LEMMA WaitExpiresKeeps ==
  ASSUME ReporterInv, WaitExpires
  PROVE  ReporterInv'
<1>1. [ReporterNext]_reporterVars
  BY Zenon DEF ReporterNext, RunStep
<1> QED
  BY <1>1, SettledKeeps DEF WaitExpires, NoEvidence

LEMMA WriteRejectedKeeps ==
  ASSUME ReporterInv, WriteRejected
  PROVE  ReporterInv'
<1>1. [ReporterNext]_reporterVars
  BY Zenon DEF ReporterNext, RunStep
<1> QED
  BY <1>1, SettledKeeps DEF WriteRejected, NoEvidence

LEMMA WriteFinalizedKeeps ==
  ASSUME ReporterInv, WriteFinalized
  PROVE  ReporterInv'
<1>1. [ReporterNext]_reporterVars
  BY Zenon DEF ReporterNext, RunStep
<1>2. ChainTypes /\ MaySettle /\ txs[Head(run.sent).tx].status = "FINALIZED"
  BY Facts DEF WriteFinalized
<1> DEFINE young == {e \in Matching(Head(run.sent).method) : e > run.before}
<1>3. CASE young = {}
  BY <1>1, <1>2, <1>3, SettledKeeps DEF WriteFinalized, NoEvidence
<1>4. CASE young # {}
  <2>1. /\ DOMAIN evidence = 1 .. Len(evidence) /\ Len(evidence) \in Nat
    BY <1>2, LenProperties DEF ChainTypes
  <2>2. young \in SUBSET Nat
    BY <2>1 DEF Matching
  <2>3. Min(young) \in young
    BY <1>4, <2>2, MinIs
  <2>4. PICK e : e = Min(young)
    OBVIOUS
  <2>5. e \in DOMAIN evidence /\ e \in Nat /\ RecordOf(e, Head(run.sent).method, run.artifact)
    BY <2>1, <2>3, <2>4 DEF Matching, Matches, RecordOf
  <2>6. ReadsBack(e) \in BOOLEAN
    BY <1>2, <2>5, TxOfRecord DEF ReadsBack
  <2>7. ReadsBack(e) => Proven(Head(run.sent).method)
    BY <2>5 DEF ReadsBack, Proven
  <2>8. Settled("FINALIZED", e, ReadsBack(e))
    BY <1>4, <2>4 DEF WriteFinalized
  <2> QED
    BY <1>1, <1>2, <2>5, <2>6, <2>7, <2>8, SettledKeeps
<1> QED
  BY <1>3, <1>4

LEMMA ReporterInvStarts ==
  ASSUME ReporterInit
  PROVE  ReporterInv
<1>1. /\ txs = <<>> /\ evidence = <<>> /\ window = TRUE /\ authorized = TRUE
      /\ attempts = <<>> /\ run = IdleRun(NoArtifact, "NONE") /\ second = 1
      /\ left = MaxTroubles
  BY DEF ReporterInit
<1>2. /\ run \in RunType /\ run.pc = "idle"
      /\ run.todo = <<>> /\ run.sent = <<>> /\ run.verified = {} /\ run.result = "NONE"
  BY <1>1, IdleRunIs
<1>3. /\ DOMAIN <<>> = {} /\ Len(<<>>) = 0
  BY EmptySteps
<1>4. /\ txs \in Seq(TxType) /\ attempts \in Seq(RowType)
      /\ evidence \in Seq([tx : DOMAIN txs, authorized : BOOLEAN])
  BY <1>1, EmptySeq
<1>5. ReporterTypeOK
  BY <1>1, <1>2, <1>3, <1>4, ReporterAssumption DEF ReporterTypeOK, Artifacts
<1>6. RoomLeft /\ StepsApart /\ StepsSound /\ VerifiedIsProven /\ PassIsProven
  BY <1>2, <1>3 DEF RoomLeft, StepsApart, StepsSound, VerifiedIsProven, PassIsProven, Apart
<1>7. RowsAreTheirs /\ AcceptedIsStored /\ LastIsLive
  BY <1>1, <1>3 DEF RowsAreTheirs, RowsAreTrue, AcceptedIsStored, LastIsLive
<1> QED
  BY <1>5, <1>6, <1>7 DEF ReporterInv

LEMMA ReporterInvKept ==
  ASSUME ReporterInv, [ReporterNext]_reporterVars
  PROVE  ReporterInv'
<1>1. /\ Len(txs) \in Nat /\ ChainTypes /\ AcceptedIsStored /\ authorized \in BOOLEAN
  BY Facts DEF ReporterInv, ReporterTypeOK
<1>2. CASE CloseWindow \/ ChangeAuthorization \/ UNCHANGED reporterVars
  <2>1. UNCHANGED <<attempts, run, txs>>
    BY <1>2 DEF CloseWindow, ChangeAuthorization, reporterVars
  <2> QED
    BY <2>1, OutsideKeeps
<1>3. CASE NodeStep
  <2>1. UNCHANGED <<attempts, run>>
    BY <1>3 DEF NodeStep, Accept, Reject, Finalize
  <2>2. Len(txs') = Len(txs)
    BY <1>1, <1>3, NodeKeeps DEF NodeStep
  <2> QED
    BY <2>1, <2>2, OutsideKeeps
<1>4. CASE FileElsewhere
  <2>1. UNCHANGED <<attempts, run>> /\ Len(txs) + 2 < MaxTxs
    BY <1>4, MethodsAre DEF FileElsewhere
  <2>2. Len(txs') = Len(txs) + 1
    BY <1>1, <1>4, BroadcastKeeps DEF FileElsewhere
  <2> QED
    BY <2>1, <2>2, OutsideKeeps
<1>5. CASE StartRun
  BY <1>5, StartRunKeeps
<1>6. CASE RunStep
  BY <1>6, ResolvePlanKeeps, CheckSecondWriteKeeps, TakeSnapshotKeeps, ReconcileKeeps, SendKeeps,
     SaveSubmittedKeeps, SaveFailedKeeps, WaitExpiresKeeps, WriteRejectedKeeps, WriteFinalizedKeeps, FinishRunKeeps
     DEF RunStep
<1>7. CASE TroubleStep
  BY <1>7, SendThrowsKeeps, SaveThrowsKeeps, CrashKeeps DEF TroubleStep
<1> QED
  BY <1>2, <1>3, <1>4, <1>5, <1>6, <1>7, Zenon DEF ReporterNext

\* The invariant holds in every reachable state.
THEOREM ReporterInvariant == ReporterSpec => []ReporterInv
<1>1. ReporterInit => ReporterInv
  BY ReporterInvStarts
<1>2. ReporterInv /\ [ReporterNext]_reporterVars => ReporterInv'
  BY ReporterInvKept
<1> QED
  BY <1>1, <1>2, PTL DEF ReporterSpec

\* Every variable of the reporter keeps its type, and the writes of a run fit
\* into what the account may send (runReporterEvidenceSubmission).
THEOREM ReporterTyped == ReporterSpec => []ReporterTypeOK
<1>1. ReporterInv => ReporterTypeOK
  BY DEF ReporterInv
<1> QED
  BY <1>1, ReporterInvariant, PTL

\* What the table says of an attempt is so, in any order of answers, failures,
\* crashes and retries (settleStep, createPrismaAttemptStore).
THEOREM TableIsTrue == ReporterSpec => []RowsAreTrue
<1>1. ReporterInv => RowsAreTrue
  BY DEF ReporterInv, RowsAreTheirs
<1> QED
  BY <1>1, ReporterInvariant, PTL

\* A run that passes leaves an authorized record of each type on the incident
\* (runReporterEvidenceSubmission, resolveAlreadyOnchainSteps).
THEOREM PassesAreProven == ReporterSpec => []PassIsProven
<1>1. ReporterInv => PassIsProven
  BY DEF ReporterInv
<1> QED
  BY <1>1, ReporterInvariant, PTL

\* The table never remembers two live transactions of one artifact and method
\* (planEvidenceSubmissions, createPrismaAttemptStore).
THEOREM AttemptsAreSingle == ReporterSpec => []OneLiveAttempt
<1>1. ASSUME ReporterInv
      PROVE  OneLiveAttempt
  <2> SUFFICES ASSUME NEW i \in DOMAIN attempts, NEW j \in DOMAIN attempts,
                      SameWrite(i, j), Live(i), Live(j),
                      ~StoredRevoked(attempts[i].method, attempts[i].artifact)
               PROVE  i = j
    BY DEF OneLiveAttempt, SameWrite, Live
  <2>1. PICK m, a : m = attempts[i].method /\ a = attempts[i].artifact
    OBVIOUS
  <2>2. ~StoredRevoked(m, a) /\ attempts[j].method = m /\ attempts[j].artifact = a
    BY <2>1 DEF SameWrite
  <2>3. ~StoredRevoked(attempts[j].method, attempts[j].artifact)
    BY <2>2
  <2>4. i <= j /\ j <= i
    BY <1>1, <2>3 DEF ReporterInv, LastIsLive, SameWrite
  <2>5. DOMAIN attempts = 1 .. Len(attempts)
    BY <1>1, Facts, LenProperties
  <2> QED
    BY <1>1, <2>4, <2>5, Facts, LenProperties
<1> QED
  BY <1>1, ReporterInvariant, PTL
-----------------------------------------------------------------------------
(* Live attempts stay known *)

\* A save writes over a live row only what that row awaits.
Advances(row) ==
  /\ row.artifact = run.artifact
  /\ \/ StoredRevoked(row.method, run.artifact)
     \/ \A i \in RowsOf(row.method) : Live(i) => attempts[i].tx = row.tx

Advanced == \E row, n : SavedAt(attempts, attempts', row, n) /\ Advances(row)

\* The save in the catch of sendStep may write over the row of its own write.
Disowned ==
  /\ run.pc = "failing" /\ run.todo # <<>>
  /\ \E row, n : /\ SavedAt(attempts, attempts', row, n)
                 /\ row.method = Head(run.todo).method /\ row.artifact = run.artifact

LEMMA SubmittedAdvances ==
  ASSUME ReporterInv, NEW m \in Methods, Unwritten(m), NEW tx \in Nat, run.artifact \in Artifacts,
         NEW row, row = Row("SUBMITTED", m, tx, NoEvidence)
  PROVE  Advances(row)
<1>1. row.method = m /\ row.artifact = run.artifact
  BY RowIs DEF NoEvidence
<1> QED
  BY <1>1 DEF Advances, Unwritten

LEMMA SettledAdvances ==
  ASSUME ReporterInv, MaySettle, NEW status \in {"SUBMITTED", "FINALIZED", "FAILED"},
         NEW e \in Nat, NEW ok, Settled(status, e, ok)
  PROVE  Advanced
<1>1. run.sent # <<>> /\ run.artifact \in Artifacts /\ attempts \in Seq(RowType)
  BY Facts DEF MaySettle
<1>2. PICK step : step = Head(run.sent)
  OBVIOUS
<1>3. step.method \in Methods /\ step.tx \in Nat /\ Sound(step)
  BY <1>1, <1>2, SentHeadIs DEF StepType
<1>4. PICK row : row = Row(status, step.method, step.tx, e)
  OBVIOUS
<1>5. row.method = step.method /\ row.artifact = run.artifact /\ row.tx = step.tx
  BY <1>1, <1>3, <1>4, RowIs
<1>6. \E n : SavedAt(attempts, attempts', row, n)
  <2>1. attempts' = SavedIn(attempts, status, step.method, step.tx, e)
    BY <1>2 DEF Settled, Saved
  <2>2. \E n \in DOMAIN SavedIn(attempts, status, step.method, step.tx, e) :
          SavedAt(attempts, SavedIn(attempts, status, step.method, step.tx, e),
                  Row(status, step.method, step.tx, e), n)
    BY <1>1, <1>3, SavedIs
  <2> QED
    BY <1>4, <2>1, <2>2
<1>7. Advances(row)
  BY <1>3, <1>5 DEF Advances, Sound, Covered
<1> QED
  BY <1>6, <1>7 DEF Advanced

LEMMA TableSteps ==
  ASSUME ReporterInv, [ReporterNext]_reporterVars
  PROVE  UNCHANGED attempts \/ Advanced \/ Disowned
<1>1. attempts \in Seq(RowType) /\ NoTx \in Nat /\ NoEvidence \in Nat
  BY Facts DEF NoTx, NoEvidence
<1>2. CASE SaveSubmitted \/ SaveThrows
  <2>1. /\ run.todo # <<>> /\ run.todo[1].tx # NoTx /\ Unwritten(run.todo[1].method)
        /\ run.artifact \in Artifacts
    BY <1>2, Facts DEF SaveSubmitted, SaveThrows, ReporterInv, StepsSound
  <2>2. PICK step : step = Head(run.todo)
    OBVIOUS
  <2>3. step.method \in Methods /\ step.tx \in Nat /\ Unwritten(step.method)
    BY <2>1, <2>2, HeadIs DEF StepType
  <2>4. CASE attempts' = SavedIn(attempts, "SUBMITTED", step.method, step.tx, NoEvidence)
    <3>1. PICK row, n : /\ SavedAt(attempts, attempts', row, n)
                        /\ row = Row("SUBMITTED", step.method, step.tx, NoEvidence)
      BY <1>1, <2>1, <2>3, <2>4, SavedIs
    <3> QED
      BY <2>1, <2>3, <3>1, SubmittedAdvances DEF Advanced
  <2> QED
    BY <1>2, <2>2, <2>4 DEF SaveSubmitted, SaveThrows, Saved
<1>3. CASE SaveFailed
  <2>1. /\ run.pc = "failing" /\ run.todo # <<>> /\ run.artifact \in Artifacts
        /\ attempts' = SavedIn(attempts, "FAILED", Head(run.todo).method, NoTx, NoEvidence)
    BY <1>3, Facts DEF SaveFailed, Saved, ReporterInv, StepsSound
  <2>2. PICK m : m = Head(run.todo).method
    OBVIOUS
  <2>3. m \in Methods
    BY <2>1, <2>2, HeadIs DEF StepType
  <2>4. PICK row, n : SavedAt(attempts, attempts', row, n) /\ row = Row("FAILED", m, NoTx, NoEvidence)
    BY <1>1, <2>1, <2>2, <2>3, SavedIs
  <2>5. row.method = m /\ row.artifact = run.artifact
    BY <1>1, <2>1, <2>3, <2>4, RowIs
  <2> QED
    BY <2>1, <2>2, <2>4, <2>5 DEF Disowned
<1>4. CASE WaitExpires \/ WriteRejected
  BY <1>1, <1>4, SettledAdvances DEF WaitExpires, WriteRejected
<1>5. CASE WriteFinalized
  <2> DEFINE young == {e \in Matching(Head(run.sent).method) : e > run.before}
  <2>1. MaySettle
    BY <1>5 DEF WriteFinalized
  <2>2. young \in SUBSET Nat
    BY Facts, LenProperties DEF Matching, ChainTypes
  <2>3. young # {} => Min(young) \in Nat
    BY <2>2, MinIs
  <2>4. \E e, ok : e \in Nat /\ Settled("FINALIZED", e, ok)
    BY <1>1, <1>5, <2>3, Zenon DEF WriteFinalized
  <2> QED
    BY <2>1, <2>4, SettledAdvances
<1>6. \/ UNCHANGED attempts
      \/ SaveSubmitted \/ SaveThrows \/ SaveFailed \/ WaitExpires \/ WriteRejected \/ WriteFinalized
  BY Zenon DEF ReporterNext, RunStep, TroubleStep, NodeStep, reporterVars, Accept, Reject,
     Finalize, CloseWindow, ChangeAuthorization, FileElsewhere, StartRun, ResolvePlan,
     CheckSecondWrite, TakeSnapshot, Reconcile, Send, SendThrows, FinishRun, Crash
<1> QED
  BY <1>2, <1>3, <1>4, <1>5, <1>6

\* A live transaction the table knew of stays known, whatever step is taken, but for
\* the row a run has just committed and takes for unsaved (planEvidenceSubmissions,
\* createPrismaAttemptStore, sendStep).
THEOREM AttemptsStay == ReporterSpec => LiveAttemptsKept
<1> DEFINE Kept ==
      \A i \in DOMAIN attempts :
        LET t == attempts[i].tx IN
        /\ t # NoTx /\ txs[t].status \in {"PENDING", "ACCEPTED"}
        /\ ~StoredRevoked(attempts[i].method, attempts[i].artifact)
        /\ ~(run.pc = "failing" /\ Head(run.todo).tx = t)
        => \E j \in DOMAIN attempts' : attempts'[j].tx = t
<1>1. ASSUME ReporterInv, [ReporterNext]_reporterVars
      PROVE  Kept
  <2> SUFFICES ASSUME NEW i \in DOMAIN attempts, attempts[i].tx # NoTx,
                      txs[attempts[i].tx].status \in {"PENDING", "ACCEPTED"},
                      ~StoredRevoked(attempts[i].method, attempts[i].artifact),
                      ~(run.pc = "failing" /\ Head(run.todo).tx = attempts[i].tx)
               PROVE  \E j \in DOMAIN attempts' : attempts'[j].tx = attempts[i].tx
    OBVIOUS
  <2>1. CASE UNCHANGED attempts
    BY <2>1
  <2>2. ASSUME NEW row, NEW n, SavedAt(attempts, attempts', row, n),
               row.artifact = run.artifact,
               i \in RowsOf(row.method) /\ Live(i) /\ ~StoredRevoked(row.method, run.artifact)
                 => attempts[i].tx = row.tx
        PROVE  \E j \in DOMAIN attempts' : attempts'[j].tx = attempts[i].tx
    <3>1. CASE i # n
      BY <2>2, <3>1 DEF SavedAt
    <3>2. CASE i = n
      <4>1. /\ attempts[i].method = row.method /\ attempts[i].artifact = run.artifact
            /\ n \in DOMAIN attempts' /\ attempts'[n] = row
        BY <2>2, <3>2 DEF SavedAt
      <4>2. Live(i)
        BY <1>1 DEF Live, ReporterInv, RowsAreTheirs, RowsAreTrue
      <4>3. i \in RowsOf(row.method)
        BY <4>1 DEF RowsOf, RowsIn
      <4>4. ~StoredRevoked(row.method, run.artifact)
        BY <4>1
      <4> QED
        BY <2>2, <4>1, <4>2, <4>3, <4>4
    <3> QED
      BY <3>1, <3>2
  <2>3. CASE Advanced
    BY <2>2, <2>3 DEF Advanced, Advances
  <2>4. CASE Disowned
    <3>1. PICK row, n : /\ SavedAt(attempts, attempts', row, n)
                        /\ row.method = Head(run.todo).method /\ row.artifact = run.artifact
      BY <2>4 DEF Disowned
    <3>2. Sound(Head(run.todo))
      BY <1>1, <2>4, HeadIs DEF Disowned
    <3>3. /\ i \in RowsOf(row.method) /\ Live(i) /\ ~StoredRevoked(row.method, run.artifact)
          => attempts[i].tx = Head(run.todo).tx
      BY <3>1, <3>2 DEF Sound, Covered
    <3>4. ~(i \in RowsOf(row.method) /\ Live(i) /\ ~StoredRevoked(row.method, run.artifact))
      BY <2>4, <3>3 DEF Disowned
    <3> QED
      BY <2>2, <3>1, <3>4
  <2> QED
    BY <1>1, <2>1, <2>3, <2>4, TableSteps
<1> QED
  BY <1>1, ReporterInvariant, PTL DEF ReporterSpec, LiveAttemptsKept
=============================================================================
