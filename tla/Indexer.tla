------------------------------ MODULE Indexer ------------------------------
(* The worker's indexer: it copies the contract's entities into database     *)
(* rows, kind by kind behind a cursor per kind, then rereads a few of the     *)
(* rows that may still change (apps/worker/src/indexer.ts).                   *)
(*                                                                            *)
(* The contract moves between any two reads, a read or a write may fail, the  *)
(* node may ask for a pause and the worker may die; the database keeps what   *)
(* was committed. The content of an entity is the number of its changes so    *)
(* far, and a row is the contents that its reads returned, in their order.    *)
EXTENDS Integers, Sequences, FiniteSets

CONSTANTS
  MaxCount,       \* bound on the entities of each kind
  MaxVersion,     \* bound on the changes of an entity of each kind
  EntityCap,      \* options.maxEntityId
  ReconcileLimit, \* options.reconcileLimit, within 1..100
  MaxFaults,      \* bound on failing calls
  MaxCrashes      \* bound on deaths of the worker

entityKinds == <<"provider", "service", "pact", "coverage", "incident", "evidence", "claim">>
Kinds == {entityKinds[n] : n \in 1..7}

ASSUME IndexerAssumption ==
  /\ MaxCount \in [Kinds -> Nat] /\ MaxVersion \in [Kinds -> Nat]
  /\ EntityCap \in Nat /\ ReconcileLimit \in 1..100
  /\ MaxFaults \in Nat /\ MaxCrashes \in Nat

VARIABLES
  chain,    \* per kind, the entities of the contract in the order of their ids
  rows,     \* per kind and id, the projection: what was read, <<>> if there is none
  indexed,  \* per kind, the ids of the rows by indexedAt, oldest first
  cursor,   \* SyncCursor.nextId per kind
  health,   \* SyncCursor.status of "all" and of "reconciliation"
  repaired, \* whether LEGACY_CURSOR_REPAIRED is recorded for the deployment
  worker,   \* where the process is
  pausing,  \* whether the shared cooldown is running
  due,      \* whether the next reconciliation is due
  faults, crashes

cursorVars == <<cursor, health, repaired>>
rowVars == <<rows, indexed>>
clockVars == <<pausing, due>>
indexerVars == <<chain, rowVars, cursorVars, worker, clockVars, faults, crashes>>

----------------------------------------------------------------------------
(* The entities                                                              *)

\* The kinds an entity refers to.
ParentKinds(k) ==
  CASE k = "provider" -> {}
    [] k = "service" -> {"provider"}
    [] k = "pact" -> {"provider", "service"}
    [] k = "coverage" -> {"pact"}
    [] k = "incident" -> {"service"}
    [] k = "evidence" -> {"incident"}
    [] k = "claim" -> {"coverage", "incident"}

\* The reads behind a row: the entity, then the views projected with it.
Reads(k) == IF k \in {"provider", "pact", "incident"} THEN 3 ELSE 1

\* The last content of an entity; where it ends, RELEASED, FINALIZED or decided.
FinalVersion(k) == CASE k = "evidence" -> 0 [] k = "claim" -> 1 [] OTHER -> MaxVersion[k]
Terminal(k, version) == k \in {"coverage", "incident", "claim"} /\ version = FinalVersion(k)

Ids(k) == 1..MaxCount[k]
Entities(k) == 1..Len(chain[k])
HasRow(k, id) == rows[k][id] # <<>>
ParentsOf(k, id) == {<<p, chain[k][id].parents[p]>> : p \in ParentKinds(k)}
ParentsProjected(k, id) == \A p \in ParentsOf(k, id) : HasRow(p[1], p[2])

----------------------------------------------------------------------------
(* The worker: between two cycles, in syncKind, or in reconcile              *)

Idle == [pc |-> "idle", counters |-> [k \in Kinds |-> 0], forced |-> FALSE, at |-> 1,
         id |-> 1, got |-> <<>>, failed |-> FALSE, todo |-> {}]

\* The kind of the scan. The candidates of reconcile are taken in turns: by their
\* position in their group, then by the order of the groups.
Kind == entityKinds[worker.at]
Before(c, d) == c.position < d.position \/ (c.position = d.position /\ c.group < d.group)
Foremost(candidates) == {c \in candidates : \A d \in candidates \ {c} : Before(c, d)}

\* The row that is being read by the scan or by reconcile, if any.
Reading == CASE worker.pc = "read" -> {[kind |-> Kind, id |-> worker.id]}
             [] worker.pc = "reread" -> {[kind |-> c.kind, id |-> c.id] : c \in Foremost(worker.todo)}
             [] OTHER -> {}

\* The highest id of a kind that a cycle scans.
Bounded(w) == LET limit == w.counters[entityKinds[w.at]] IN IF limit > EntityCap THEN EntityCap ELSE limit
\* (Mutant: entities beyond the cap are left out without a word.)
CapIgnored(w) == FALSE
OverCap(w) == w.counters[entityKinds[w.at]] > EntityCap

\* syncKind begins with the n-th kind: at its cursor, or at 1 in the repair.
Enter(w, n) ==
  LET first == IF w.forced THEN 1 ELSE cursor[entityKinds[n]]
      entered == [w EXCEPT !.at = n, !.id = first, !.got = <<>>]
  IN [entered EXCEPT !.pc = IF first <= Bounded(entered) THEN "read" ELSE "save"]

\* A new database, or one that the older version left: it moved its cursors on
\* whether a projection failed or not, so that the rows in "lost" are missing.
IndexerInit ==
  /\ \E made \in 0..7 : \E lost \in SUBSET {entityKinds[n] : n \in 1..made} :
       LET old == {entityKinds[n] : n \in 1..made} IN
       /\ \A k \in old : MaxCount[k] > 0
       /\ chain = [k \in Kinds |-> IF k \in old
                     THEN <<[version |-> 0, parents |-> [p \in ParentKinds(k) |-> 1]]>> ELSE <<>>]
       /\ cursor = [k \in Kinds |-> IF k \in lost THEN 2 ELSE 1]
  /\ rows = [k \in Kinds |-> [id \in Ids(k) |-> <<>>]]
  /\ indexed = [k \in Kinds |-> <<>>]
  /\ health = [job \in {"all", "reconciliation"} |-> "NONE"]
  /\ repaired = FALSE
  /\ worker = Idle /\ pausing = FALSE /\ due = TRUE
  /\ faults = 0 /\ crashes = 0

----------------------------------------------------------------------------
(* The contract                                                              *)

Create(k) ==
  /\ Len(chain[k]) < MaxCount[k]
  /\ \E parents \in [ParentKinds(k) -> UNION {Entities(p) : p \in ParentKinds(k)}] :
       /\ \A p \in ParentKinds(k) : parents[p] \in Entities(p)
       /\ chain' = [chain EXCEPT ![k] = Append(@, [version |-> 0, parents |-> parents])]
  /\ UNCHANGED <<rowVars, cursorVars, worker, clockVars, faults, crashes>>

Change(k, id) ==
  /\ id \in Entities(k) /\ chain[k][id].version < FinalVersion(k)
  /\ chain' = [chain EXCEPT ![k][id].version = @ + 1]
  /\ UNCHANGED <<rowVars, cursorVars, worker, clockVars, faults, crashes>>

ChainStep == \E k \in Kinds : Create(k) \/ \E id \in Ids(k) : Change(k, id)

----------------------------------------------------------------------------
(* syncOnce                                                                  *)

\* (Mutant: the repair begins by removing the rows.)
StartCycleAnew ==
  /\ worker.pc = "idle" /\ ~pausing
  /\ worker' = Enter([Idle EXCEPT !.counters = [k \in Kinds |-> Len(chain[k])],
                                  !.forced = ~repaired], 1)
  /\ rows' = IF repaired THEN rows ELSE [k \in Kinds |-> [id \in Ids(k) |-> <<>>]]
  /\ UNCHANGED <<chain, indexed, cursorVars, clockVars, faults, crashes>>

\* run() waits for the cooldown, then reads the counters once for all kinds.
StartCycle ==
  /\ worker.pc = "idle" /\ ~pausing
  /\ worker' = Enter([Idle EXCEPT !.counters = [k \in Kinds |-> Len(chain[k])],
                                  !.forced = ~repaired], 1)
  /\ UNCHANGED <<chain, rowVars, cursorVars, clockVars, faults, crashes>>

\* One of the reads behind a row, not the last; a missing parent stops it.
ReadPart ==
  /\ \E r \in Reading :
       /\ ParentsProjected(r.kind, r.id)
       /\ Len(worker.got) + 1 < Reads(r.kind)
       /\ worker' = [worker EXCEPT !.got = Append(@, chain[r.kind][r.id].version)]
  /\ UNCHANGED <<chain, rowVars, cursorVars, clockVars, faults, crashes>>

\* (Mutant: the entity is read after the views that are projected with it.)
WriteViewsFirst(k, id, parts) ==
  /\ rows' = [rows EXCEPT ![k][id] = [n \in DOMAIN parts |-> parts[Len(parts) + 1 - n]]]
  /\ indexed' = [indexed EXCEPT ![k] = Append(SelectSeq(@, LAMBDA i : i # id), id)]

\* The transaction that writes a row: the row is the newest of all by indexedAt.
Write(k, id, parts) ==
  /\ rows' = [rows EXCEPT ![k][id] = parts]
  /\ indexed' = [indexed EXCEPT ![k] = Append(SelectSeq(@, LAMBDA i : i # id), id)]

\* The last read behind a row, and the transaction.
ProjectNext ==
  /\ worker.pc = "read"
  /\ ParentsProjected(Kind, worker.id)
  /\ Len(worker.got) + 1 = Reads(Kind)
  /\ Write(Kind, worker.id, Append(worker.got, chain[Kind][worker.id].version))
  /\ worker' = [worker EXCEPT !.id = @ + 1, !.got = <<>>,
                              !.pc = IF worker.id + 1 <= Bounded(worker) THEN "read" ELSE "save"]
  /\ UNCHANGED <<chain, cursorVars, clockVars, faults, crashes>>

\* (Mutant: a failed projection is passed over, as by the older version.)
ScanPasses ==
  /\ worker.pc = "read"
  /\ worker' = [worker EXCEPT !.pc = "save", !.got = <<>>, !.failed = TRUE, !.id = @ + 1]
  /\ UNCHANGED <<chain, rowVars, cursorVars, due, crashes>>

\* A read or the transaction fails, or a parent is missing: the cursor stays at the id.
ScanFails ==
  /\ worker.pc = "read"
  /\ worker' = [worker EXCEPT !.pc = "save", !.got = <<>>, !.failed = TRUE]
  /\ UNCHANGED <<chain, rowVars, cursorVars, due, crashes>>

\* The end of syncKind. A kind that failed ends the scan of the kinds after it.
SaveCursor ==
  /\ worker.pc = "save"
  /\ LET error == worker.failed \/ OverCap(worker) IN
       /\ cursor' = [cursor EXCEPT ![Kind] = worker.id]
       /\ worker' = IF error THEN [worker EXCEPT !.pc = "end", !.failed = TRUE]
                    ELSE IF worker.at < 7 THEN Enter(worker, worker.at + 1)
                    ELSE [worker EXCEPT !.pc = IF worker.forced THEN "repair" ELSE "end"]
  /\ UNCHANGED <<chain, rowVars, health, repaired, clockVars, faults, crashes>>

RecordRepair ==
  /\ worker.pc = "repair"
  /\ repaired' = TRUE
  /\ worker' = [worker EXCEPT !.pc = "end"]
  /\ UNCHANGED <<chain, rowVars, cursor, health, clockVars, faults, crashes>>

EndSync ==
  /\ worker.pc = "end"
  /\ health' = [health EXCEPT !["all"] = IF worker.failed THEN "DEGRADED" ELSE "HEALTHY"]
  /\ worker' = IF worker.failed THEN Idle ELSE [worker EXCEPT !.pc = "synced"]
  /\ UNCHANGED <<chain, rowVars, cursor, repaired, clockVars, faults, crashes>>

----------------------------------------------------------------------------
(* reconcile                                                                 *)

\* The kinds in the order of reconcile's groups; the rows of a kind that may still
\* change, each with its place by indexedAt, of which the query takes the limit.
reconciledKinds == <<"provider", "service", "pact", "coverage", "incident", "claim">>
\* (Mutant: the rows that were read last come first.)
Newer(k, id, other) == \E n \in DOMAIN indexed[k] : \E m \in 1..(n - 1) :
                          indexed[k][m] = other /\ indexed[k][n] = id
Older(k, id, other) == \E n \in DOMAIN indexed[k] : \E m \in 1..(n - 1) :
                          indexed[k][m] = id /\ indexed[k][n] = other
Open(k) == {id \in Ids(k) : HasRow(k, id) /\ ~Terminal(k, rows[k][id][1])}
Place(k, id) == Cardinality({other \in Open(k) : Older(k, other, id)}) + 1
Group(n) == LET k == reconciledKinds[n] IN
  {[kind |-> k, id |-> id, group |-> n, position |-> Place(k, id)] :
     id \in {i \in Open(k) : Place(k, i) <= ReconcileLimit}}

\* The first of every group, then the second of every group, up to the limit.
RoundRobin(candidates, limit) ==
  {c \in candidates : Cardinality({d \in candidates : Before(d, c)}) < limit}

\* The first reconciliation of a process is due at once, later ones after the interval.
StartReconcile ==
  /\ worker.pc = "synced" /\ due /\ ~pausing
  /\ worker' = [Idle EXCEPT !.pc = "reread",
                            !.todo = RoundRobin(UNION {Group(n) : n \in 1..6}, ReconcileLimit)]
  /\ UNCHANGED <<chain, rowVars, cursorVars, clockVars, faults, crashes>>

SkipReconcile ==
  /\ worker.pc = "synced" /\ (~due \/ pausing)
  /\ worker' = Idle
  /\ UNCHANGED <<chain, rowVars, cursorVars, clockVars, faults, crashes>>

RefreshRow ==
  /\ worker.pc = "reread"
  /\ \E c \in Foremost(worker.todo) :
       /\ ParentsProjected(c.kind, c.id)
       /\ Len(worker.got) + 1 = Reads(c.kind)
       /\ Write(c.kind, c.id, Append(worker.got, chain[c.kind][c.id].version))
       /\ worker' = [worker EXCEPT !.todo = @ \ {c}, !.got = <<>>]
  /\ UNCHANGED <<chain, cursorVars, clockVars, faults, crashes>>

\* markReconciliation: the run is over, with or without an error.
EndReconcile(status) ==
  /\ worker.pc = "reread"
  /\ health' = [health EXCEPT !["reconciliation"] = status]
  /\ due' = FALSE
  /\ worker' = Idle
  /\ UNCHANGED <<chain, rowVars, cursor, repaired, crashes>>

AllReread == worker.todo = {} /\ EndReconcile("HEALTHY") /\ UNCHANGED <<pausing, faults>>

----------------------------------------------------------------------------
(* What goes wrong, and time                                                 *)

\* ensureDeployment throws: the deployment is not known or not verified, or a call fails.
DeploymentRefused ==
  /\ worker.pc = "idle"
  /\ UNCHANGED <<chain, rowVars, cursorVars, worker, due, crashes>>

\* syncOnce throws outside a projection: the counters, a cursor, or the last writes.
CycleThrows ==
  /\ worker.pc \in {"idle", "save", "repair", "end"}
  /\ health' = [health EXCEPT !["all"] = "DEGRADED"]
  /\ worker' = Idle
  /\ UNCHANGED <<chain, rowVars, cursor, repaired, due, crashes>>

\* The row that is being read refers to one that is not there: upsert refuses it.
Refused == \E r \in Reading : ~ParentsProjected(r.kind, r.id)

\* A call fails; when it was answered with 429 the shared cooldown begins.
Fault ==
  /\ faults < MaxFaults \/ Refused
  /\ faults' = IF Refused THEN faults ELSE faults + 1
  /\ pausing' \in {pausing, TRUE}
  /\ ScanFails \/ DeploymentRefused \/ CycleThrows \/ EndReconcile("DEGRADED")

\* The worker dies or is told to stop, and is started again.
Crash ==
  /\ crashes < MaxCrashes /\ crashes' = crashes + 1
  /\ worker' = Idle /\ due' = TRUE
  /\ UNCHANGED <<chain, rowVars, cursorVars, pausing, faults>>

CooldownEnds ==
  /\ pausing /\ pausing' = FALSE
  /\ UNCHANGED <<chain, rowVars, cursorVars, worker, due, faults, crashes>>

ReconcileDue ==
  /\ ~due /\ due' = TRUE
  /\ UNCHANGED <<chain, rowVars, cursorVars, worker, pausing, faults, crashes>>

SyncStep == StartCycle \/ ReadPart \/ ProjectNext \/ SaveCursor \/ RecordRepair \/ EndSync
ReconcileStep == StartReconcile \/ SkipReconcile \/ RefreshRow \/ AllReread
WorkerStep == SyncStep \/ ReconcileStep
IndexerNext == ChainStep \/ WorkerStep \/ Fault \/ Crash \/ CooldownEnds \/ ReconcileDue

IndexerSpec == IndexerInit /\ [][IndexerNext]_indexerVars

\* The process runs on, the cooldown ends and the interval passes.
IndexerFairSpec ==
  /\ IndexerSpec
  /\ WF_indexerVars(WorkerStep) /\ WF_indexerVars(CooldownEnds) /\ WF_indexerVars(ReconcileDue)

----------------------------------------------------------------------------
(* What the indexer promises                                                 *)

\* Once the repair is recorded, no cursor has passed an id without its row.
NothingSkipped ==
  repaired => \A k \in Kinds : \A id \in 1..(cursor[k] - 1) : HasRow(k, id)

\* A scan that ends without error has projected all that its counters announced.
HealthyMeansComplete ==
  worker.pc = "synced" =>
    \A k \in Kinds : \A id \in 1..worker.counters[k] : HasRow(k, id)

\* A row that is never read again is whole: its views are the last ones too.
TerminalRowsComplete ==
  \A k \in Kinds : \A id \in Entities(k) :
    HasRow(k, id) /\ Terminal(k, rows[k][id][1]) =>
      \A n \in DOMAIN rows[k][id] : rows[k][id][n] = FinalVersion(k)

\* The rows, by what they say of the entity itself, are such a copy.
ShownOf == [k \in Kinds |-> [id \in Ids(k) |-> IF HasRow(k, id) THEN rows[k][id][1] ELSE -1]]
Copy == INSTANCE Mirror WITH Refers <- ParentKinds, truth <- chain, shown <- ShownOf
ImplementsMirror == Copy!MirrorSpec

Current(k, id) == HasRow(k, id) /\ \A n \in DOMAIN rows[k][id] : rows[k][id][n] = chain[k][id].version

\* When the contract rests, every entity below the cap has its row, and the row
\* tells what the contract tells.
CatchesUp ==
  <>[](\A k \in Kinds : Len(chain[k]) <= EntityCap) =>
    <>[](\A k \in Kinds : \A id \in Entities(k) : Current(k, id))
============================================================================
