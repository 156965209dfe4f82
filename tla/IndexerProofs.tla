--------------------------- MODULE IndexerProofs ---------------------------
(***************************************************************************)
(* The indexer for any number of entities, changes, faults and crashes:    *)
(* its rows are a copy that is late but never wrong, no cursor passes an   *)
(* id without its row, and a scan that reports health left none out.       *)
(***************************************************************************)
EXTENDS Indexer, SequenceTheorems, FiniteSetTheorems, TLAPS

-----------------------------------------------------------------------------
(* The contract's entities *)

Entity(k) == [version : 0..FinalVersion(k), parents : [ParentKinds(k) -> Nat]]

ChainOK ==
  /\ chain = [k \in Kinds |-> chain[k]]
  /\ \A k \in Kinds : chain[k] \in Seq(Entity(k)) /\ Len(chain[k]) <= MaxCount[k]
  /\ \A k \in Kinds : \A id \in Entities(k) : \A p \in ParentKinds(k) :
       chain[k][id].parents[p] \in Entities(p)

\* The contract only adds entities, and changes of an entity.
ChainGrows ==
  \A k \in Kinds :
    /\ Len(chain[k]) <= Len(chain'[k])
    /\ \A id \in Entities(k) :
         /\ chain[k][id].version <= chain'[k][id].version
         /\ chain'[k][id].parents = chain[k][id].parents

LEMMA KindsAre ==
  /\ Kinds = {"provider", "service", "pact", "coverage", "incident", "evidence", "claim"}
  /\ \A n \in 1..7 : entityKinds[n] \in Kinds
  /\ \A m, n \in 1..7 : m # n => entityKinds[m] # entityKinds[n]
  /\ \A k \in Kinds : \E n \in 1..7 : k = entityKinds[n]
<1>1. /\ entityKinds[1] = "provider" /\ entityKinds[2] = "service" /\ entityKinds[3] = "pact"
      /\ entityKinds[4] = "coverage" /\ entityKinds[5] = "incident"
      /\ entityKinds[6] = "evidence" /\ entityKinds[7] = "claim"
  BY DEF entityKinds
<1>2. 1..7 = {1, 2, 3, 4, 5, 6, 7}
  OBVIOUS
<1> QED
  BY <1>1, <1>2 DEF Kinds

LEMMA ParentKindsAre ==
  \A k \in Kinds : ParentKinds(k) \subseteq Kinds
BY KindsAre DEF ParentKinds

LEMMA FinalVersionType ==
  \A k \in Kinds : FinalVersion(k) \in Nat /\ MaxCount[k] \in Nat
BY IndexerAssumption DEF FinalVersion

LEMMA ChainTypes ==
  ASSUME ChainOK, NEW k \in Kinds
  PROVE  /\ Len(chain[k]) \in Nat
         /\ Entities(k) \subseteq Ids(k)
         /\ \A id \in Entities(k) : chain[k][id] \in Entity(k)
                                    /\ chain[k][id].version \in 0..FinalVersion(k)
<1>1. chain[k] \in Seq(Entity(k)) /\ Len(chain[k]) <= MaxCount[k] /\ MaxCount[k] \in Nat
  BY FinalVersionType DEF ChainOK
<1>2. Len(chain[k]) \in Nat
  BY <1>1, LenProperties
<1>3. ASSUME NEW id \in Entities(k)
      PROVE  chain[k][id] \in Entity(k) /\ chain[k][id].version \in 0..FinalVersion(k)
  <2>1. chain[k][id] \in Entity(k)
    BY <1>1, ElementOfSeq DEF Entities
  <2> QED
    BY <2>1 DEF Entity
<1> QED
  BY <1>1, <1>2, <1>3 DEF Entities, Ids

LEMMA CreateKeeps ==
  ASSUME ChainOK, NEW k \in Kinds, Create(k)
  PROVE  ChainOK' /\ ChainGrows
<1>1. PICK parents \in [ParentKinds(k) -> UNION {Entities(p) : p \in ParentKinds(k)}] :
        /\ \A p \in ParentKinds(k) : parents[p] \in Entities(p)
        /\ chain' = [chain EXCEPT ![k] = Append(@, [version |-> 0, parents |-> parents])]
  BY DEF Create
<1> DEFINE new == [version |-> 0, parents |-> parents]
<1>2. new \in Entity(k)
  <2>1. parents \in [ParentKinds(k) -> Nat]
    BY <1>1 DEF Entities
  <2> QED
    BY <2>1, FinalVersionType DEF Entity
<1>3. chain[k] \in Seq(Entity(k)) /\ Len(chain[k]) < MaxCount[k] /\ Len(chain[k]) \in Nat
      /\ MaxCount[k] \in Nat
  BY ChainTypes, FinalVersionType DEF ChainOK, Create
<1> HIDE DEF new
<1>4. /\ Append(chain[k], new) \in Seq(Entity(k))
      /\ Len(Append(chain[k], new)) = Len(chain[k]) + 1
      /\ \A i \in 1..Len(chain[k]) : Append(chain[k], new)[i] = chain[k][i]
      /\ Append(chain[k], new)[Len(chain[k]) + 1] = new
  BY <1>2, <1>3, AppendProperties
<1>5. chain'[k] = Append(chain[k], new) /\ \A j \in Kinds \ {k} : chain'[j] = chain[j]
  BY <1>1 DEF ChainOK, new
<1>6. \A j \in Kinds : Entities(j) \subseteq Entities(j)'
                       /\ \A id \in Entities(j) : chain'[j][id] = chain[j][id]
  <2> SUFFICES ASSUME NEW j \in Kinds
               PROVE  Entities(j) \subseteq Entities(j)'
                      /\ \A id \in Entities(j) : chain'[j][id] = chain[j][id]
    OBVIOUS
  <2>1. CASE j = k
    BY <1>3, <1>4, <1>5, <2>1 DEF Entities
  <2>2. CASE j # k
    BY <1>5, <2>2 DEF Entities
  <2> QED
    BY <2>1, <2>2
<1>7. ChainGrows
  <2> SUFFICES ASSUME NEW j \in Kinds
               PROVE  Len(chain[j]) <= Len(chain'[j])
                      /\ \A id \in Entities(j) : chain[j][id].version <= chain'[j][id].version
                                              /\ chain'[j][id].parents = chain[j][id].parents
    BY DEF ChainGrows
  <2>1. Len(chain[j]) <= Len(chain'[j])
    BY <1>3, <1>4, <1>5, ChainTypes
  <2>2. \A id \in Entities(j) : chain[j][id].version \in 0..FinalVersion(j)
    BY ChainTypes
  <2> QED
    BY <1>6, <2>1, <2>2, FinalVersionType
<1>8. chain' = [j \in Kinds |-> chain'[j]]
  BY <1>1 DEF ChainOK
<1>9. \A j \in Kinds : chain'[j] \in Seq(Entity(j)) /\ Len(chain'[j]) <= MaxCount[j]
  <2> SUFFICES ASSUME NEW j \in Kinds
               PROVE  chain'[j] \in Seq(Entity(j)) /\ Len(chain'[j]) <= MaxCount[j]
    OBVIOUS
  <2>1. CASE j = k
    <3>1. chain'[j] = Append(chain[k], new)
      BY <1>5, <2>1
    <3>2. Len(chain[k]) + 1 <= MaxCount[k]
      BY <1>3
    <3> QED
      BY <1>4, <2>1, <3>1, <3>2, Zenon
  <2>2. CASE j # k
    BY <1>5, <2>2 DEF ChainOK
  <2> QED
    BY <2>1, <2>2
<1>10. ASSUME NEW j \in Kinds, NEW id \in Entities(j)', NEW p \in ParentKinds(j)
       PROVE  chain'[j][id].parents[p] \in Entities(p)'
  <2>1. p \in Kinds
    BY ParentKindsAre
  <2>2. CASE id \in Entities(j)
    BY <1>6, <2>1, <2>2 DEF ChainOK
  <2>3. CASE id \notin Entities(j)
    <3>1. j = k /\ id = Len(chain[k]) + 1
      BY <1>3, <1>4, <1>5, <2>3 DEF Entities
    <3>2. chain'[j][id].parents = parents
      BY <1>4, <1>5, <3>1 DEF new
    <3> QED
      BY <1>1, <1>6, <2>1, <3>1, <3>2
  <2> QED
    BY <2>2, <2>3
<1> QED
  BY <1>7, <1>8, <1>9, <1>10 DEF ChainOK

LEMMA ChangeKeeps ==
  ASSUME ChainOK, NEW k \in Kinds, NEW id \in Ids(k), Change(k, id)
  PROVE  ChainOK' /\ ChainGrows
<1> DEFINE old == chain[k][id]
           new == [old EXCEPT !.version = @ + 1]
<1>1. id \in 1..Len(chain[k]) /\ old.version < FinalVersion(k)
  BY DEF Change, Entities
<1>2. old \in Entity(k) /\ old.version \in 0..FinalVersion(k) /\ FinalVersion(k) \in Nat
  BY <1>1, ChainTypes, FinalVersionType DEF Entities
<1>3. new \in Entity(k) /\ new.version = old.version + 1 /\ new.parents = old.parents
  BY <1>1, <1>2 DEF Entity
<1>4. chain[k] \in Seq(Entity(k)) /\ Len(chain[k]) \in Nat
  BY ChainTypes DEF ChainOK
<1>5. chain' = [chain EXCEPT ![k] = [@ EXCEPT ![id] = new]]
  BY DEF Change
<1> HIDE DEF old, new
<1>6. /\ [chain[k] EXCEPT ![id] = new] \in Seq(Entity(k))
      /\ Len([chain[k] EXCEPT ![id] = new]) = Len(chain[k])
      /\ \A j \in 1..Len(chain[k]) :
           [chain[k] EXCEPT ![id] = new][j] = IF j = id THEN new ELSE chain[k][j]
  BY <1>1, <1>3, <1>4, ExceptSeq
<1>7. /\ chain'[k] = [chain[k] EXCEPT ![id] = new]
      /\ \A j \in Kinds \ {k} : chain'[j] = chain[j]
      /\ chain' = [j \in Kinds |-> chain'[j]]
  BY <1>5 DEF ChainOK
<1>8. \A j \in Kinds : Len(chain'[j]) = Len(chain[j]) /\ Entities(j)' = Entities(j)
  BY <1>6, <1>7 DEF Entities
<1>9. \A j \in Kinds : chain'[j] \in Seq(Entity(j)) /\ Len(chain'[j]) <= MaxCount[j]
  BY <1>6, <1>7, <1>8 DEF ChainOK
<1>10. ASSUME NEW j \in Kinds, NEW i \in Entities(j)
       PROVE  /\ chain[j][i].version <= chain'[j][i].version
              /\ chain'[j][i].parents = chain[j][i].parents
  <2>1. chain[j][i].version \in 0..FinalVersion(j) /\ FinalVersion(j) \in Nat
    BY ChainTypes, FinalVersionType
  <2>2. CASE j = k /\ i = id
    BY <1>1, <1>2, <1>3, <1>6, <1>7, <2>2 DEF old
  <2>3. CASE ~(j = k /\ i = id)
    <3>1. chain'[j][i] = chain[j][i]
      BY <1>6, <1>7, <2>3 DEF Entities
    <3> QED
      BY <2>1, <3>1
  <2> QED
    BY <2>2, <2>3
<1>11. ChainGrows
  <2>1. \A j \in Kinds : Len(chain[j]) \in Nat
    BY ChainTypes
  <2> QED
    BY <1>8, <1>10, <2>1 DEF ChainGrows
<1>12. \A j \in Kinds : \A i \in Entities(j)' : \A p \in ParentKinds(j) :
         chain'[j][i].parents[p] \in Entities(p)'
  <2> SUFFICES ASSUME NEW j \in Kinds, NEW i \in Entities(j)', NEW p \in ParentKinds(j)
               PROVE  chain'[j][i].parents[p] \in Entities(p)'
    OBVIOUS
  <2>1. i \in Entities(j) /\ p \in Kinds
    BY <1>8, ParentKindsAre
  <2>2. chain[j][i].parents[p] \in Entities(p)
    BY <2>1 DEF ChainOK
  <2> QED
    BY <1>8, <1>10, <2>1, <2>2
<1> QED
  BY <1>7, <1>9, <1>11, <1>12 DEF ChainOK

LEMMA ChainKeeps ==
  ASSUME ChainOK, IndexerNext
  PROVE  ChainOK' /\ ChainGrows
<1>1. CASE ChainStep
  BY <1>1, CreateKeeps, ChangeKeeps DEF ChainStep
<1>2. CASE UNCHANGED chain
  <2>1. ChainGrows
    BY <1>2, ChainTypes, FinalVersionType DEF ChainGrows
  <2>2. ChainOK'
    BY <1>2 DEF ChainOK, Entities
  <2> QED
    BY <2>1, <2>2
<1>3. WorkerStep => UNCHANGED chain
  BY DEF WorkerStep, SyncStep, ReconcileStep, StartCycle, ReadPart, ProjectNext, SaveCursor,
     RecordRepair, EndSync, StartReconcile, SkipReconcile, RefreshRow, AllReread, EndReconcile
<1>4. Fault \/ Crash \/ CooldownEnds \/ ReconcileDue => UNCHANGED chain
  BY DEF Fault, ScanFails, DeploymentRefused, CycleThrows, EndReconcile, Crash,
     CooldownEnds, ReconcileDue
<1> QED
  BY <1>1, <1>2, <1>3, <1>4 DEF IndexerNext

-----------------------------------------------------------------------------
(* The rows *)

\* A row's contents were read one after the other.
InOrder(parts, version) == \A n \in 1..Len(parts) : parts[1] <= parts[n] /\ parts[n] <= version

RowsOK ==
  /\ rows = [k \in Kinds |-> [id \in Ids(k) |-> rows[k][id]]]
  /\ \A k \in Kinds : \A id \in Ids(k) :
       /\ rows[k][id] \in Seq(Nat)
       /\ HasRow(k, id) => id \in Entities(k) /\ InOrder(rows[k][id], chain[k][id].version)

\* No row is removed.
RowsGrow == \A k \in Kinds : \A id \in Ids(k) : HasRow(k, id) => HasRow(k, id)'

LEMMA InOrderLater ==
  ASSUME NEW parts \in Seq(Nat), NEW v \in Nat, NEW w \in Nat, v <= w, InOrder(parts, v)
  PROVE  InOrder(parts, w)
<1>1. Len(parts) \in Nat /\ \A n \in 1..Len(parts) : parts[n] \in Nat
  BY ElementOfSeq, LenProperties
<1> QED
  BY <1>1 DEF InOrder

LEMMA InOrderAppend ==
  ASSUME NEW parts \in Seq(Nat), NEW v \in Nat, InOrder(parts, v)
  PROVE  /\ Append(parts, v) \in Seq(Nat)
         /\ Append(parts, v) # <<>>
         /\ InOrder(Append(parts, v), v)
         /\ Append(parts, v)[1] \in Nat
         /\ Append(parts, v)[1] = IF parts = <<>> THEN v ELSE parts[1]
<1> DEFINE more == Append(parts, v)
<1>1. /\ more \in Seq(Nat) /\ Len(more) = Len(parts) + 1
      /\ \A n \in 1..Len(parts) : more[n] = parts[n]
      /\ more[Len(parts) + 1] = v
  BY AppendProperties
<1>2. Len(parts) \in Nat /\ (parts # <<>> => Len(parts) # 0)
      /\ (parts = <<>> => Len(parts) = 0)
  BY LenProperties, EmptySeq
<1>3. \A n \in 1..Len(parts) : parts[n] \in Nat
  BY ElementOfSeq
<1> HIDE DEF more
<1>4. more[1] = IF parts = <<>> THEN v ELSE parts[1]
  BY <1>1, <1>2
<1>5. more[1] \in Nat /\ more[1] <= v
  <2>1. CASE parts = <<>>
    BY <1>4, <2>1
  <2>2. CASE parts # <<>>
    <3>1. 1 \in 1..Len(parts)
      BY <1>2, <2>2
    <3> QED
      BY <1>3, <1>4, <2>2, <3>1 DEF InOrder
  <2> QED
    BY <2>1, <2>2
<1>6. ASSUME NEW n \in 1..Len(more)
      PROVE  more[1] <= more[n] /\ more[n] <= v
  <2>1. CASE n \in 1..Len(parts)
    <3>1. more[n] = parts[n] /\ parts[1] <= parts[n] /\ parts[n] <= v
      BY <1>1, <2>1 DEF InOrder
    <3>2. parts # <<>>
      BY <1>2, <2>1
    <3> QED
      BY <1>4, <3>1, <3>2
  <2>2. CASE n = Len(parts) + 1
    BY <1>1, <1>5, <2>2
  <2> QED
    BY <1>1, <1>2, <2>1, <2>2
<1>7. more # <<>>
  BY <1>1, <1>2, EmptySeq
<1> QED
  BY <1>1, <1>4, <1>5, <1>6, <1>7 DEF more, InOrder

\* The transaction writes one row, and leaves the others.
LEMMA WriteIs ==
  ASSUME RowsOK, NEW k \in Kinds, NEW id \in Ids(k), NEW parts, Write(k, id, parts)
  PROVE  /\ rows'[k][id] = parts
         /\ \A j \in Kinds : \A i \in Ids(j) : ~(j = k /\ i = id) => rows'[j][i] = rows[j][i]
         /\ rows' = [j \in Kinds |-> [i \in Ids(j) |-> rows'[j][i]]]
<1>1. rows' = [rows EXCEPT ![k] = [@ EXCEPT ![id] = parts]]
  BY DEF Write
<1>2. rows = [j \in Kinds |-> [i \in Ids(j) |-> rows[j][i]]]
  BY DEF RowsOK
<1>3. \A j \in Kinds : rows[j] = [i \in Ids(j) |-> rows[j][i]]
  BY <1>2
<1>4. rows'[k] = [rows[k] EXCEPT ![id] = parts] /\ \A j \in Kinds \ {k} : rows'[j] = rows[j]
  BY <1>1, <1>2
<1>5. rows'[k][id] = parts /\ \A i \in Ids(k) \ {id} : rows'[k][i] = rows[k][i]
  BY <1>3, <1>4
<1>6. \A j \in Kinds : rows'[j] = [i \in Ids(j) |-> rows'[j][i]]
  <2> SUFFICES ASSUME NEW j \in Kinds
               PROVE  rows'[j] = [i \in Ids(j) |-> rows'[j][i]]
    OBVIOUS
  <2>1. CASE j = k
    BY <1>3, <1>4, <2>1
  <2>2. CASE j # k
    BY <1>3, <1>4, <2>2
  <2> QED
    BY <2>1, <2>2
<1>7. rows' = [j \in Kinds |-> rows'[j]]
  BY <1>1, <1>2
<1> QED
  BY <1>4, <1>5, <1>6, <1>7

-----------------------------------------------------------------------------
(* The worker *)

Phases == {"idle", "read", "save", "repair", "end", "synced", "reread"}
Candidate == [kind : Kinds, id : Nat, group : Nat, position : Nat]
WorkerType ==
  [pc : Phases, counters : [Kinds -> Nat], forced : BOOLEAN, at : 1..7, id : Nat \ {0},
   got : Seq(Nat), failed : BOOLEAN, todo : SUBSET Candidate]

CursorOK ==
  /\ cursor \in [Kinds -> Nat \ {0}] /\ repaired \in BOOLEAN
  /\ \A k \in Kinds : cursor[k] <= Len(chain[k]) + 1

\* The counters are not ahead of the contract, and the candidates have rows.
WorkerOK ==
  /\ worker \in WorkerType
  /\ \A k \in Kinds : worker.counters[k] <= Len(chain[k])
  /\ \A c \in worker.todo : c.id \in Ids(c.kind) /\ HasRow(c.kind, c.id)
  /\ worker.pc = "read" => worker.id <= Bounded(worker)

\* What was read of the row at hand is in order, and not older than the row.
GotFor(k, id) ==
  /\ InOrder(worker.got, chain[k][id].version)
  /\ worker.got # <<>> /\ HasRow(k, id) => rows[k][id][1] <= worker.got[1]
GotOK == \A r \in Reading : GotFor(r.kind, r.id)

StateOK == ChainOK /\ RowsOK /\ CursorOK /\ WorkerOK /\ GotOK

LEMMA KindType ==
  ASSUME worker \in WorkerType
  PROVE  Kind \in Kinds
BY KindsAre DEF Kind, WorkerType

LEMMA BoundedIs ==
  ASSUME NEW w \in WorkerType
  PROVE  /\ Bounded(w) \in Nat
         /\ Bounded(w) <= w.counters[entityKinds[w.at]]
         /\ ~OverCap(w) => Bounded(w) = w.counters[entityKinds[w.at]]
<1>1. w.counters[entityKinds[w.at]] \in Nat /\ EntityCap \in Nat
  BY KindsAre, IndexerAssumption DEF WorkerType
<1> QED
  BY <1>1 DEF Bounded, OverCap

LEMMA IdleType ==
  /\ Idle \in WorkerType /\ Idle.pc = "idle" /\ Idle.todo = {} /\ Idle.got = <<>>
  /\ \A k \in Kinds : Idle.counters[k] = 0
  /\ Idle.failed = FALSE
<1>1. <<>> \in Seq(Nat)
  BY EmptySeq
<1> QED
  BY <1>1 DEF Idle, WorkerType, Phases

\* syncKind begins with a kind.
LEMMA EnterIs ==
  ASSUME NEW w \in WorkerType, NEW n \in 1..7, CursorOK
  PROVE  LET e == Enter(w, n) IN
         /\ e \in WorkerType
         /\ e.at = n /\ e.got = <<>> /\ e.counters = w.counters /\ e.forced = w.forced
         /\ e.failed = w.failed /\ e.todo = w.todo
         /\ e.id = IF w.forced THEN 1 ELSE cursor[entityKinds[n]]
         /\ \/ e.pc = "read" /\ e.id <= Bounded(e)
            \/ e.pc = "save" /\ e.id > Bounded(e)
<1> DEFINE first == IF w.forced THEN 1 ELSE cursor[entityKinds[n]]
           entered == [w EXCEPT !.at = n, !.id = first, !.got = <<>>]
           phase == IF first <= Bounded(entered) THEN "read" ELSE "save"
<1>1. first \in Nat \ {0}
  <2>1. entityKinds[n] \in Kinds
    BY KindsAre
  <2>2. cursor[entityKinds[n]] \in Nat \ {0}
    BY <2>1 DEF CursorOK
  <2> QED
    BY <2>2
<1>2. <<>> \in Seq(Nat)
  BY EmptySeq
<1> HIDE DEF first
<1>3. /\ entered \in WorkerType /\ entered.at = n /\ entered.id = first /\ entered.got = <<>>
      /\ entered.counters = w.counters /\ entered.forced = w.forced
      /\ entered.failed = w.failed /\ entered.todo = w.todo
  BY <1>1, <1>2 DEF WorkerType
<1>4. Bounded(entered) \in Nat
  BY <1>3, BoundedIs
<1> HIDE DEF entered
<1>5. phase \in {"read", "save"} /\ Enter(w, n) = [entered EXCEPT !.pc = phase]
  BY DEF Enter, entered, first
<1>6. /\ phase = "read" => first <= Bounded(entered)
      /\ phase = "save" => first > Bounded(entered)
  BY <1>1, <1>4
<1> HIDE DEF phase
<1> DEFINE e == [entered EXCEPT !.pc = phase]
<1>7. /\ e \in WorkerType /\ e.at = n /\ e.id = first /\ e.got = <<>>
      /\ e.counters = w.counters /\ e.forced = w.forced
      /\ e.failed = w.failed /\ e.todo = w.todo /\ e.pc = phase
  BY <1>3, <1>5 DEF WorkerType, Phases
<1>8. Bounded(e) = Bounded(entered)
  BY <1>3, <1>7 DEF Bounded
<1> HIDE DEF e
<1> QED
  BY <1>5, <1>6, <1>7, <1>8 DEF e, first

LEMMA PlaceType ==
  ASSUME NEW k \in Kinds, NEW id
  PROVE  Place(k, id) \in Nat
<1> DEFINE S == {other \in Open(k) : Older(k, other, id)}
<1>1. S \in SUBSET (1..MaxCount[k])
  BY DEF Open, Ids
<1>2. IsFiniteSet(S)
  <2>1. MaxCount[k] \in Int
    BY FinalVersionType
  <2>2. IsFiniteSet(1..MaxCount[k])
    BY <2>1, FS_Interval
  <2> HIDE DEF S
  <2> QED
    BY <1>1, <2>2, FS_Subset
<1>3. Cardinality(S) \in Nat
  BY <1>2, FS_CardinalityType
<1> QED
  BY <1>3 DEF Place

\* What reconcile takes up has a row.
LEMMA GroupIs ==
  ASSUME NEW n \in 1..6, NEW c \in Group(n)
  PROVE  c \in Candidate /\ c.id \in Ids(c.kind) /\ HasRow(c.kind, c.id)
<1> DEFINE k == reconciledKinds[n]
<1>1. k \in Kinds
  BY KindsAre DEF reconciledKinds
<1> HIDE DEF k
<1>2. PICK id \in Open(k) : c = [kind |-> k, id |-> id, group |-> n, position |-> Place(k, id)]
  BY DEF Group, k
<1>3. id \in Ids(k) /\ id \in Nat /\ HasRow(k, id)
  BY DEF Open, Ids
<1>4. Place(k, id) \in Nat
  BY <1>1, PlaceType
<1> QED
  BY <1>1, <1>2, <1>3, <1>4 DEF Candidate

\* At most one row is read at a time, and the contract has its entity.
LEMMA ReadingIs ==
  ASSUME StateOK, NEW r \in Reading
  PROVE  /\ r.kind \in Kinds /\ r.id \in Ids(r.kind) /\ r.id \in Entities(r.kind)
         /\ \A s \in Reading : s = r
         /\ worker.pc \in {"read", "reread"}
         /\ worker.pc = "read" => r.kind = Kind /\ r.id = worker.id
<1> USE DEF StateOK
<1>1. CASE worker.pc = "read"
  <2>1. Reading = {[kind |-> Kind, id |-> worker.id]}
    BY <1>1 DEF Reading
  <2>2. Kind \in Kinds
    BY KindType DEF WorkerOK
  <2>3. worker.id \in Nat \ {0} /\ worker.id <= Bounded(worker)
        /\ Bounded(worker) \in Nat /\ Bounded(worker) <= worker.counters[Kind]
    BY <1>1, BoundedIs DEF WorkerOK, WorkerType, Kind
  <2>4. worker.counters[Kind] <= Len(chain[Kind]) /\ worker.counters[Kind] \in Nat
        /\ Len(chain[Kind]) \in Nat
    BY <2>2, ChainTypes DEF WorkerOK, WorkerType
  <2>5. worker.id \in Entities(Kind)
    BY <2>3, <2>4 DEF Entities
  <2>6. worker.id \in Ids(Kind)
    BY <2>2, <2>5, ChainTypes
  <2> QED
    BY <1>1, <2>1, <2>2, <2>5, <2>6
<1>2. CASE worker.pc = "reread"
  <2>1. Reading = {[kind |-> c.kind, id |-> c.id] : c \in Foremost(worker.todo)}
    BY <1>2 DEF Reading
  <2>2. PICK c \in Foremost(worker.todo) : r = [kind |-> c.kind, id |-> c.id]
    BY <2>1
  <2>3. c \in Candidate /\ c \in worker.todo
    BY DEF Foremost, WorkerOK, WorkerType
  <2>4. c.kind \in Kinds /\ c.id \in Ids(c.kind) /\ HasRow(c.kind, c.id)
    BY <2>3 DEF WorkerOK, Candidate
  <2>5. c.id \in Entities(c.kind)
    BY <2>4 DEF RowsOK
  <2>6. ASSUME NEW d \in Foremost(worker.todo)
        PROVE  d = c
    <3>1. d \in Candidate /\ d \in worker.todo
      BY DEF Foremost, WorkerOK, WorkerType
    <3>2. d # c => Before(c, d) /\ Before(d, c)
      BY <2>3, <3>1 DEF Foremost
    <3>3. ~(Before(c, d) /\ Before(d, c))
      BY <2>3, <3>1 DEF Before, Candidate
    <3> QED
      BY <3>2, <3>3
  <2> QED
    BY <1>2, <2>1, <2>2, <2>4, <2>5, <2>6
<1>3. worker.pc \in {"read", "reread"}
  BY DEF Reading
<1> QED
  BY <1>1, <1>2, <1>3

\* The transaction keeps the rows in order, and tells something newer than before.
LEMMA WriteKeeps ==
  ASSUME StateOK, NEW r \in Reading, UNCHANGED chain,
         Write(r.kind, r.id, Append(worker.got, chain[r.kind][r.id].version))
  PROVE  /\ RowsOK' /\ RowsGrow
         /\ rows'[r.kind][r.id] # <<>>
         /\ rows'[r.kind][r.id][1] \in 0..chain[r.kind][r.id].version
         /\ HasRow(r.kind, r.id) => rows[r.kind][r.id][1] <= rows'[r.kind][r.id][1]
         /\ \A j \in Kinds : \A i \in Ids(j) :
              ~(j = r.kind /\ i = r.id) => rows'[j][i] = rows[j][i]
<1> DEFINE k == r.kind
           id == r.id
           v == chain[k][id].version
           parts == Append(worker.got, v)
<1>1. k \in Kinds /\ id \in Ids(k) /\ id \in Entities(k)
  BY ReadingIs
<1>2. v \in Nat
  BY <1>1, ChainTypes, FinalVersionType DEF StateOK
<1>3. worker.got \in Seq(Nat) /\ GotFor(k, id)
  BY DEF StateOK, WorkerOK, WorkerType, GotOK
<1> HIDE DEF v
<1>4. /\ parts \in Seq(Nat) /\ parts # <<>> /\ InOrder(parts, v) /\ parts[1] \in Nat
      /\ parts[1] = IF worker.got = <<>> THEN v ELSE worker.got[1]
  BY <1>2, <1>3, InOrderAppend DEF GotFor, v
<1>5. /\ rows'[k][id] = parts
      /\ \A j \in Kinds : \A i \in Ids(j) : ~(j = k /\ i = id) => rows'[j][i] = rows[j][i]
      /\ rows' = [j \in Kinds |-> [i \in Ids(j) |-> rows'[j][i]]]
  BY <1>1, WriteIs DEF StateOK, v
<1>6. parts[1] <= v
  <2>1. Len(parts) \in Nat \ {0}
    BY <1>4, EmptySeq
  <2>2. 1 \in 1..Len(parts)
    BY <2>1
  <2> QED
    BY <1>4, <2>2 DEF InOrder
<1> HIDE DEF parts, k, id
<1>7. RowsGrow
  <2> SUFFICES ASSUME NEW j \in Kinds, NEW i \in Ids(j), HasRow(j, i)
               PROVE  rows'[j][i] # <<>>
    BY DEF RowsGrow, HasRow
  <2>1. CASE j = k /\ i = id
    BY <1>4, <1>5, <2>1
  <2>2. CASE ~(j = k /\ i = id)
    BY <1>5, <2>2 DEF HasRow
  <2> QED
    BY <2>1, <2>2
<1>8. ASSUME NEW j \in Kinds, NEW i \in Ids(j)
      PROVE  /\ rows'[j][i] \in Seq(Nat)
             /\ HasRow(j, i)' => i \in Entities(j)' /\ InOrder(rows'[j][i], chain'[j][i].version)
  <2>1. CASE j = k /\ i = id
    BY <1>1, <1>4, <1>5, <2>1 DEF Entities, v
  <2>2. CASE ~(j = k /\ i = id)
    <3>1. rows'[j][i] = rows[j][i]
      BY <1>5, <2>2
    <3> QED
      BY <3>1 DEF StateOK, RowsOK, HasRow, Entities
  <2> QED
    BY <2>1, <2>2
<1>9. RowsOK'
  BY <1>5, <1>8 DEF RowsOK
<1>10. HasRow(k, id) => rows[k][id][1] <= parts[1]
  <2> HAVE HasRow(k, id)
  <2>1. CASE worker.got = <<>>
    <3>1. rows[k][id] \in Seq(Nat) /\ rows[k][id] # <<>> /\ InOrder(rows[k][id], v)
      BY <1>1 DEF StateOK, RowsOK, HasRow, v
    <3>2. Len(rows[k][id]) \in Nat \ {0}
      BY <3>1, EmptySeq
    <3>3. 1 \in 1..Len(rows[k][id])
      BY <3>2
    <3> QED
      BY <1>4, <2>1, <3>1, <3>3 DEF InOrder
  <2>2. CASE worker.got # <<>>
    BY <1>3, <1>4, <2>2 DEF GotFor
  <2> QED
    BY <2>1, <2>2
<1>11. parts[1] \in 0..v
  BY <1>2, <1>4, <1>6
<1> QED
  BY <1>4, <1>5, <1>7, <1>9, <1>10, <1>11 DEF k, id, v

\* Both kinds of write are such a transaction.
LEMMA WritesOfReading ==
  ASSUME StateOK, ProjectNext \/ RefreshRow
  PROVE  \E r \in Reading :
           /\ Write(r.kind, r.id, Append(worker.got, chain[r.kind][r.id].version))
           /\ ParentsProjected(r.kind, r.id) /\ UNCHANGED chain
<1>1. CASE ProjectNext
  <2> DEFINE r == [kind |-> Kind, id |-> worker.id]
  <2>1. r \in Reading
    BY <1>1 DEF ProjectNext, Reading
  <2> QED
    BY <1>1, <2>1 DEF ProjectNext
<1>2. CASE RefreshRow
  <2>1. worker.pc = "reread" /\ UNCHANGED chain
    BY <1>2 DEF RefreshRow
  <2>2. PICK c \in Foremost(worker.todo) :
          /\ ParentsProjected(c.kind, c.id)
          /\ Write(c.kind, c.id, Append(worker.got, chain[c.kind][c.id].version))
    BY <1>2 DEF RefreshRow
  <2> DEFINE r == [kind |-> c.kind, id |-> c.id]
  <2>3. r \in Reading
    BY <2>1 DEF Reading
  <2> QED
    BY <2>1, <2>2, <2>3
<1> QED
  BY <1>1, <1>2

LEMMA RowsStay ==
  ASSUME StateOK, ChainGrows, ChainOK', UNCHANGED rows
  PROVE  RowsOK' /\ RowsGrow
<1>1. RowsGrow
  BY DEF RowsGrow, HasRow
<1>2. ASSUME NEW k \in Kinds, NEW id \in Ids(k), HasRow(k, id)
      PROVE  id \in Entities(k)' /\ InOrder(rows[k][id], chain'[k][id].version)
  <2>1. id \in Entities(k) /\ InOrder(rows[k][id], chain[k][id].version) /\ rows[k][id] \in Seq(Nat)
    BY <1>2 DEF StateOK, RowsOK
  <2>2. chain[k][id].version \in Nat /\ chain[k][id].version <= chain'[k][id].version
    BY <2>1, ChainTypes, FinalVersionType DEF StateOK, ChainGrows
  <2>3. Len(chain[k]) \in Nat /\ Len(chain'[k]) \in Nat /\ Len(chain[k]) <= Len(chain'[k])
    <3>1. chain'[k] \in Seq(Entity(k))
      BY DEF ChainOK
    <3> QED
      BY <3>1, LenProperties, ChainTypes DEF StateOK, ChainGrows
  <2>4. id \in Entities(k)'
    BY <2>1, <2>3 DEF Entities
  <2>5. chain'[k][id].version \in Nat
    <3>1. chain'[k][id] \in Entity(k)
      BY <2>4, ElementOfSeq DEF ChainOK, Entities
    <3> QED
      BY <3>1, FinalVersionType DEF Entity
  <2> QED
    BY <2>1, <2>2, <2>4, <2>5, InOrderLater
<1>3. RowsOK'
  BY <1>2 DEF StateOK, RowsOK, HasRow
<1> QED
  BY <1>1, <1>3

LEMMA StepRows ==
  ASSUME StateOK, IndexerNext
  PROVE  RowsOK' /\ RowsGrow
<1>1. ChainGrows /\ ChainOK'
  BY ChainKeeps DEF StateOK
<1>2. CASE ProjectNext \/ RefreshRow
  BY <1>2, WritesOfReading, WriteKeeps
<1>3. CASE UNCHANGED rows
  BY <1>1, <1>3, RowsStay
<1> QED
  BY <1>2, <1>3 DEF IndexerNext, ChainStep, Create, Change, WorkerStep, SyncStep, ReconcileStep,
     StartCycle, ReadPart, SaveCursor, RecordRepair, EndSync, StartReconcile, SkipReconcile,
     AllReread, EndReconcile, Fault, ScanFails, DeploymentRefused, CycleThrows, Crash,
     CooldownEnds, ReconcileDue, rowVars

\* Where the worker may be after a step.
LEMMA WorkerNext ==
  ASSUME StateOK, ChainOK', ChainGrows, RowsGrow, worker' \in WorkerType,
         \A k \in Kinds : worker'.counters[k] <= Len(chain[k]),
         \A c \in worker'.todo : c.id \in Ids(c.kind) /\ HasRow(c.kind, c.id),
         worker'.pc = "read" => worker'.id <= Bounded(worker')
  PROVE  WorkerOK'
<1>1. \A k \in Kinds : worker'.counters[k] <= Len(chain'[k])
  <2> SUFFICES ASSUME NEW k \in Kinds
               PROVE  worker'.counters[k] <= Len(chain'[k])
    OBVIOUS
  <2>1. worker'.counters[k] \in Nat /\ Len(chain[k]) \in Nat /\ Len(chain[k]) <= Len(chain'[k])
    BY ChainTypes DEF StateOK, ChainGrows, WorkerType
  <2>2. Len(chain'[k]) \in Nat
    <3>1. chain'[k] \in Seq(Entity(k))
      BY DEF ChainOK
    <3> QED
      BY <3>1, LenProperties
  <2> QED
    BY <2>1, <2>2
<1>2. \A c \in worker'.todo : c.id \in Ids(c.kind) /\ HasRow(c.kind, c.id)'
  <2>1. \A c \in worker'.todo : c.kind \in Kinds
    BY DEF WorkerType, Candidate
  <2> QED
    BY <2>1 DEF RowsGrow
<1> QED
  BY <1>1, <1>2 DEF WorkerOK, Bounded

LEMMA StepWorker ==
  ASSUME StateOK, IndexerNext
  PROVE  WorkerOK'
<1>1. ChainOK' /\ ChainGrows /\ RowsOK' /\ RowsGrow
  BY ChainKeeps, StepRows DEF StateOK
<1>2. /\ worker \in WorkerType
      /\ \A k \in Kinds : worker.counters[k] <= Len(chain[k])
      /\ \A c \in worker.todo : c.id \in Ids(c.kind) /\ HasRow(c.kind, c.id)
      /\ worker.pc = "read" => worker.id <= Bounded(worker)
  BY DEF StateOK, WorkerOK
<1>3. /\ <<>> \in Seq(Nat)
      /\ \A v \in Nat : Append(worker.got, v) \in Seq(Nat)
  <2>1. worker.got \in Seq(Nat)
    BY <1>2 DEF WorkerType
  <2> QED
    BY <2>1, EmptySeq, AppendProperties
<1>4. \A k \in Kinds : 0 <= Len(chain[k])
  BY ChainTypes DEF StateOK
<1>5. CASE UNCHANGED worker
  BY <1>1, <1>2, <1>5, WorkerNext
<1>6. CASE worker' = Idle
  BY <1>1, <1>4, <1>6, WorkerNext, IdleType
<1>7. CASE StartCycle
  <2> DEFINE w == [Idle EXCEPT !.counters = [k \in Kinds |-> Len(chain[k])],
                               !.forced = ~repaired]
  <2>1. worker' = Enter(w, 1)
    BY <1>7 DEF StartCycle
  <2>2. \A k \in Kinds : Len(chain[k]) \in Nat
    BY ChainTypes DEF StateOK
  <2>3. w \in WorkerType /\ w.todo = {} /\ w.counters = [k \in Kinds |-> Len(chain[k])]
    BY <2>2, IdleType DEF StateOK, CursorOK, WorkerType
  <2> HIDE DEF w
  <2>4. /\ worker' \in WorkerType /\ worker'.todo = {} /\ worker'.counters = w.counters
        /\ worker'.pc = "read" => worker'.id <= Bounded(worker')
    BY <2>1, <2>3, EnterIs DEF StateOK
  <2>5. \A k \in Kinds : worker'.counters[k] <= Len(chain[k])
    BY <2>2, <2>3, <2>4
  <2> QED
    BY <1>1, <2>4, <2>5, WorkerNext
<1>8. CASE ReadPart
  <2>1. PICK r \in Reading : worker' = [worker EXCEPT !.got = Append(@, chain[r.kind][r.id].version)]
    BY <1>8 DEF ReadPart
  <2>2. chain[r.kind][r.id].version \in Nat
    BY ReadingIs, ChainTypes, FinalVersionType DEF StateOK
  <2>3. Append(worker.got, chain[r.kind][r.id].version) \in Seq(Nat)
    BY <1>3, <2>2
  <2>4. /\ worker' \in WorkerType /\ worker'.todo = worker.todo /\ worker'.at = worker.at
        /\ worker'.counters = worker.counters /\ worker'.pc = worker.pc /\ worker'.id = worker.id
    BY <1>2, <2>1, <2>3 DEF WorkerType
  <2>5. Bounded(worker') = Bounded(worker)
    BY <2>4 DEF Bounded
  <2> QED
    BY <1>1, <1>2, <2>4, <2>5, WorkerNext
<1>9. CASE ProjectNext
  <2> DEFINE phase == IF worker.id + 1 <= Bounded(worker) THEN "read" ELSE "save"
  <2>1. worker' = [worker EXCEPT !.id = @ + 1, !.got = <<>>, !.pc = phase]
    BY <1>9 DEF ProjectNext
  <2>2. phase \in {"read", "save"} /\ (phase = "read" => worker.id + 1 <= Bounded(worker))
    OBVIOUS
  <2> HIDE DEF phase
  <2>3. /\ worker' \in WorkerType /\ worker'.todo = worker.todo /\ worker'.at = worker.at
        /\ worker'.counters = worker.counters /\ worker'.pc = phase /\ worker'.id = worker.id + 1
    <3> DEFINE next == worker.id + 1
    <3>1. next \in Nat \ {0} /\ worker' = [worker EXCEPT !.id = next, !.got = <<>>, !.pc = phase]
      BY <1>2, <2>1 DEF WorkerType
    <3> HIDE DEF next
    <3>2. /\ worker' \in WorkerType /\ worker'.todo = worker.todo /\ worker'.at = worker.at
          /\ worker'.counters = worker.counters /\ worker'.pc = phase /\ worker'.id = next
      BY <1>2, <1>3, <2>2, <3>1 DEF WorkerType, Phases
    <3> QED
      BY <3>2 DEF next
  <2>4. Bounded(worker') = Bounded(worker)
    BY <2>3 DEF Bounded
  <2> QED
    BY <1>1, <1>2, <2>2, <2>3, <2>4, WorkerNext
<1>10. CASE ScanFails
  <2>1. worker' = [worker EXCEPT !.pc = "save", !.got = <<>>, !.failed = TRUE]
    BY <1>10 DEF ScanFails
  <2>2. /\ worker' \in WorkerType /\ worker'.todo = worker.todo
        /\ worker'.counters = worker.counters /\ worker'.pc = "save"
    BY <1>2, <1>3, <2>1 DEF WorkerType, Phases
  <2> QED
    BY <1>1, <1>2, <2>2, WorkerNext
<1>11. CASE SaveCursor
  <2>1. CASE worker' = [worker EXCEPT !.pc = "end", !.failed = TRUE]
    <3>1. /\ worker' \in WorkerType /\ worker'.todo = worker.todo
          /\ worker'.counters = worker.counters /\ worker'.pc = "end"
      BY <1>2, <2>1 DEF WorkerType, Phases
    <3> QED
      BY <1>1, <1>2, <3>1, WorkerNext
  <2>2. CASE worker.at < 7 /\ worker' = Enter(worker, worker.at + 1)
    <3>1. worker.at + 1 \in 1..7
      BY <1>2, <2>2 DEF WorkerType
    <3>2. /\ worker' \in WorkerType /\ worker'.todo = worker.todo
          /\ worker'.counters = worker.counters
          /\ worker'.pc = "read" => worker'.id <= Bounded(worker')
      BY <1>2, <2>2, <3>1, EnterIs DEF StateOK
    <3> QED
      BY <1>1, <1>2, <3>2, WorkerNext
  <2>3. CASE worker' = [worker EXCEPT !.pc = IF worker.forced THEN "repair" ELSE "end"]
    <3>1. /\ worker' \in WorkerType /\ worker'.todo = worker.todo
          /\ worker'.counters = worker.counters /\ worker'.pc \in {"repair", "end"}
      BY <1>2, <2>3 DEF WorkerType, Phases
    <3> QED
      BY <1>1, <1>2, <3>1, WorkerNext
  <2> QED
    BY <1>11, <2>1, <2>2, <2>3 DEF SaveCursor
<1>12. CASE RecordRepair \/ EndSync
  <2>1. CASE worker' = [worker EXCEPT !.pc = "end"] \/ worker' = [worker EXCEPT !.pc = "synced"]
    <3>1. /\ worker' \in WorkerType /\ worker'.todo = worker.todo
          /\ worker'.counters = worker.counters /\ worker'.pc \in {"end", "synced"}
      BY <1>2, <2>1 DEF WorkerType, Phases
    <3> QED
      BY <1>1, <1>2, <3>1, WorkerNext
  <2> QED
    BY <1>6, <1>12, <2>1 DEF RecordRepair, EndSync
<1>13. CASE StartReconcile
  <2> DEFINE all == UNION {Group(n) : n \in 1..6}
             chosen == RoundRobin(all, ReconcileLimit)
  <2>1. worker' = [Idle EXCEPT !.pc = "reread", !.todo = chosen]
    BY <1>13 DEF StartReconcile
  <2>2. \A c \in chosen : c \in Candidate /\ c.id \in Ids(c.kind) /\ HasRow(c.kind, c.id)
    <3>1. \A c \in chosen : \E n \in 1..6 : c \in Group(n)
      BY DEF RoundRobin
    <3> HIDE DEF chosen
    <3> QED
      BY <3>1, GroupIs
  <2> HIDE DEF chosen
  <2>3. /\ worker' \in WorkerType /\ worker'.todo = chosen
        /\ worker'.counters = Idle.counters /\ worker'.pc = "reread"
    BY <2>1, <2>2, IdleType DEF WorkerType, Phases
  <2> QED
    BY <1>1, <1>4, <2>2, <2>3, IdleType, WorkerNext
<1>14. CASE RefreshRow
  <2>1. PICK c \in Foremost(worker.todo) : worker' = [worker EXCEPT !.todo = @ \ {c}, !.got = <<>>]
    BY <1>14 DEF RefreshRow
  <2>2. /\ worker' \in WorkerType /\ worker'.todo \subseteq worker.todo
        /\ worker'.counters = worker.counters /\ worker'.pc = "reread"
    BY <1>2, <1>3, <1>14, <2>1 DEF WorkerType, RefreshRow
  <2> QED
    BY <1>1, <1>2, <2>2, WorkerNext
<1>15. SkipReconcile \/ AllReread \/ CycleThrows \/ EndReconcile("DEGRADED") \/ Crash => worker' = Idle
  BY DEF SkipReconcile, AllReread, EndReconcile, CycleThrows, Crash
<1>16. ChainStep \/ DeploymentRefused \/ CooldownEnds \/ ReconcileDue => UNCHANGED worker
  BY DEF ChainStep, Create, Change, DeploymentRefused, CooldownEnds, ReconcileDue
<1> QED
  BY <1>5, <1>6, <1>7, <1>8, <1>9, <1>10, <1>11, <1>12, <1>13, <1>14, <1>15, <1>16
     DEF IndexerNext, WorkerStep, SyncStep, ReconcileStep, Fault

\* After a step the worker has read nothing, goes on reading the same row, or did nothing.
LEMMA GotSteps ==
  ASSUME StateOK, IndexerNext
  PROVE  \/ worker'.got = <<>> \/ worker'.pc \notin {"read", "reread"}
         \/ ReadPart
         \/ UNCHANGED <<worker, rows>>
<1>1. worker \in WorkerType
  BY DEF StateOK, WorkerOK
<1>2. CASE StartCycle
  <2> DEFINE w == [Idle EXCEPT !.counters = [k \in Kinds |-> Len(chain[k])],
                               !.forced = ~repaired]
  <2>1. worker' = Enter(w, 1)
    BY <1>2 DEF StartCycle
  <2>2. \A k \in Kinds : Len(chain[k]) \in Nat
    BY ChainTypes DEF StateOK
  <2>3. w \in WorkerType
    BY <2>2, IdleType DEF StateOK, CursorOK, WorkerType
  <2> HIDE DEF w
  <2> QED
    BY <2>1, <2>3, EnterIs DEF StateOK
<1>3. CASE SaveCursor
  <2>1. CASE worker.at < 7 /\ worker' = Enter(worker, worker.at + 1)
    <3>1. worker.at + 1 \in 1..7
      BY <1>1, <2>1 DEF WorkerType
    <3> QED
      BY <1>1, <2>1, <3>1, EnterIs DEF StateOK
  <2>2. CASE worker' = [worker EXCEPT !.pc = "end", !.failed = TRUE]
             \/ worker' = [worker EXCEPT !.pc = IF worker.forced THEN "repair" ELSE "end"]
    BY <1>1, <2>2 DEF WorkerType
  <2> QED
    BY <1>3, <2>1, <2>2 DEF SaveCursor
<1>4. CASE ProjectNext \/ ScanFails
  BY <1>1, <1>4 DEF ProjectNext, ScanFails, WorkerType
<1>5. CASE RecordRepair \/ EndSync
  BY <1>1, <1>5, IdleType DEF RecordRepair, EndSync, WorkerType
<1>6. CASE StartReconcile
  <2>1. worker'.got = Idle.got
    BY <1>6 DEF StartReconcile, Idle
  <2> QED
    BY <2>1, IdleType
<1>7. CASE RefreshRow
  BY <1>1, <1>7 DEF RefreshRow, WorkerType
<1>8. CASE worker' = Idle
  BY <1>8, IdleType
<1>9. SkipReconcile \/ AllReread \/ CycleThrows \/ EndReconcile("DEGRADED") \/ Crash => worker' = Idle
  BY DEF SkipReconcile, AllReread, EndReconcile, CycleThrows, Crash
<1>10. ChainStep \/ DeploymentRefused \/ CooldownEnds \/ ReconcileDue => UNCHANGED <<worker, rows>>
  BY DEF ChainStep, Create, Change, DeploymentRefused, CooldownEnds, ReconcileDue, rowVars
<1> QED
  BY <1>2, <1>3, <1>4, <1>5, <1>6, <1>7, <1>8, <1>9, <1>10
     DEF IndexerNext, WorkerStep, SyncStep, ReconcileStep, Fault

LEMMA StepGot ==
  ASSUME StateOK, IndexerNext
  PROVE  GotOK'
<1>1. ChainOK' /\ ChainGrows /\ RowsOK' /\ RowsGrow
  BY ChainKeeps, StepRows DEF StateOK
<1>2. worker \in WorkerType /\ worker.got \in Seq(Nat)
  BY DEF StateOK, WorkerOK, WorkerType
<1>3. CASE worker'.got = <<>>
  BY <1>3, EmptySeq DEF GotOK, GotFor, InOrder
<1>4. CASE worker'.pc \notin {"read", "reread"}
  BY <1>4 DEF GotOK, Reading
<1>5. CASE ReadPart
  <2>1. PICK r \in Reading :
          worker' = [worker EXCEPT !.got = Append(@, chain[r.kind][r.id].version)]
    BY <1>5 DEF ReadPart
  <2> DEFINE v == chain[r.kind][r.id].version
  <2>2. UNCHANGED <<chain, rows>>
    BY <1>5 DEF ReadPart, rowVars
  <2>3. Reading' = Reading
    BY <1>2, <2>1 DEF WorkerType, Reading, Kind
  <2>4. /\ r.kind \in Kinds /\ r.id \in Ids(r.kind) /\ r.id \in Entities(r.kind)
        /\ \A s \in Reading : s = r
    BY ReadingIs
  <2>5. v \in Nat /\ GotFor(r.kind, r.id)
    BY <2>4, ChainTypes, FinalVersionType DEF StateOK, GotOK
  <2> HIDE DEF v
  <2>6. /\ InOrder(Append(worker.got, v), v)
        /\ Append(worker.got, v)[1] = IF worker.got = <<>> THEN v ELSE worker.got[1]
    BY <1>2, <2>5, InOrderAppend DEF GotFor, v
  <2>7. worker'.got = Append(worker.got, v)
    BY <1>2, <2>1 DEF WorkerType, v
  <2>8. HasRow(r.kind, r.id) => rows[r.kind][r.id][1] <= Append(worker.got, v)[1]
    <3> HAVE HasRow(r.kind, r.id)
    <3>1. CASE worker.got = <<>>
      <4>1. rows[r.kind][r.id] \in Seq(Nat) /\ InOrder(rows[r.kind][r.id], v)
            /\ rows[r.kind][r.id] # <<>>
        BY <2>4 DEF StateOK, RowsOK, HasRow, v
      <4>2. Len(rows[r.kind][r.id]) \in Nat \ {0}
        BY <4>1, EmptySeq
      <4>3. 1 \in 1..Len(rows[r.kind][r.id])
        BY <4>2
      <4> QED
        BY <2>6, <3>1, <4>1, <4>3 DEF InOrder
    <3>2. CASE worker.got # <<>>
      BY <2>5, <2>6, <3>2 DEF GotFor
    <3> QED
      BY <3>1, <3>2
  <2> QED
    BY <2>2, <2>3, <2>4, <2>6, <2>7, <2>8 DEF GotOK, GotFor, HasRow, v
<1>6. CASE UNCHANGED <<worker, rows>>
  <2> SUFFICES ASSUME NEW r \in Reading
               PROVE  GotFor(r.kind, r.id)'
    BY <1>6 DEF GotOK, Reading, Kind
  <2>1. r.kind \in Kinds /\ r.id \in Entities(r.kind) /\ r.id \in Ids(r.kind)
    BY ReadingIs
  <2>2. /\ chain[r.kind][r.id].version \in Nat
        /\ chain[r.kind][r.id].version <= chain'[r.kind][r.id].version
    BY <1>1, <2>1, ChainTypes, FinalVersionType DEF StateOK, ChainGrows
  <2>3. chain'[r.kind][r.id].version \in Nat
    <3>1. Len(chain[r.kind]) \in Nat /\ Len(chain'[r.kind]) \in Nat
          /\ Len(chain[r.kind]) <= Len(chain'[r.kind]) /\ chain'[r.kind] \in Seq(Entity(r.kind))
      BY <1>1, <2>1, ChainTypes, LenProperties DEF StateOK, ChainGrows, ChainOK
    <3>2. r.id \in 1..Len(chain'[r.kind])
      BY <2>1, <3>1 DEF Entities
    <3>3. chain'[r.kind][r.id] \in Entity(r.kind)
      BY <3>1, <3>2, ElementOfSeq
    <3> QED
      BY <2>1, <3>3, FinalVersionType DEF Entity
  <2>4. GotFor(r.kind, r.id)
    BY DEF StateOK, GotOK
  <2>5. InOrder(worker.got, chain'[r.kind][r.id].version)
    BY <1>2, <2>2, <2>3, <2>4, InOrderLater DEF GotFor
  <2> QED
    BY <1>6, <2>4, <2>5 DEF GotFor, HasRow
<1> QED
  BY <1>3, <1>4, <1>5, <1>6, GotSteps

-----------------------------------------------------------------------------
(* The scan *)

\* The first n - 1 kinds have rows for all that the counters announced.
DoneBefore(n) ==
  \A m \in 1..(n - 1) : \A id \in 1..worker.counters[entityKinds[m]] : HasRow(entityKinds[m], id)

\* Their cursors, or those of all kinds, have passed only ids with rows.
PassedBefore(n) ==
  \A m \in 1..(n - 1) : \A id \in 1..(cursor[entityKinds[m]] - 1) : HasRow(entityKinds[m], id)

ScanOK ==
  /\ worker.pc \in {"read", "save"} =>
       /\ worker.forced \/ repaired
       /\ worker.id <= Len(chain[Kind]) + 1
       /\ \A id \in 1..(worker.id - 1) : HasRow(Kind, id)
       /\ DoneBefore(worker.at) /\ PassedBefore(worker.at)
  /\ worker.pc = "read" => ~worker.failed
  /\ worker.pc = "save" /\ ~worker.failed => worker.id > Bounded(worker)
  /\ worker.pc = "repair" => DoneBefore(8) /\ PassedBefore(8)
  /\ worker.pc = "end" /\ ~worker.failed => DoneBefore(8)
  /\ worker.pc = "synced" => DoneBefore(8)

LEMMA StepCursor ==
  ASSUME StateOK, ScanOK, IndexerNext
  PROVE  CursorOK'
<1>1. ChainOK' /\ ChainGrows
  BY ChainKeeps DEF StateOK
<1>2. \A k \in Kinds : Len(chain[k]) \in Nat /\ Len(chain'[k]) \in Nat /\ Len(chain[k]) <= Len(chain'[k])
  <2>1. \A k \in Kinds : chain'[k] \in Seq(Entity(k))
    BY <1>1 DEF ChainOK
  <2> QED
    BY <1>1, <2>1, ChainTypes, LenProperties DEF StateOK, ChainGrows
<1>3. CASE SaveCursor
  <2>1. cursor' = [cursor EXCEPT ![Kind] = worker.id] /\ repaired' = repaired
    BY <1>3 DEF SaveCursor
  <2>2. Kind \in Kinds /\ worker.id \in Nat \ {0}
    BY KindType DEF StateOK, WorkerOK, WorkerType
  <2>3. worker.id <= Len(chain[Kind]) + 1
    BY <1>3 DEF ScanOK, SaveCursor
  <2> QED
    BY <1>2, <2>1, <2>2, <2>3 DEF StateOK, CursorOK
<1>4. CASE UNCHANGED cursor /\ repaired' \in BOOLEAN
  <2> SUFFICES ASSUME NEW k \in Kinds
               PROVE  cursor[k] <= Len(chain'[k]) + 1
    BY <1>4 DEF StateOK, CursorOK
  <2>1. cursor[k] \in Nat /\ cursor[k] <= Len(chain[k]) + 1
    BY DEF StateOK, CursorOK
  <2> QED
    BY <1>2, <2>1
<1>5. RecordRepair => UNCHANGED cursor /\ repaired' \in BOOLEAN
  BY DEF RecordRepair
<1>6. ~SaveCursor /\ ~RecordRepair => UNCHANGED <<cursor, repaired>>
  BY DEF IndexerNext, ChainStep, Create, Change, WorkerStep, SyncStep, ReconcileStep,
     StartCycle, ReadPart, ProjectNext, EndSync, StartReconcile, SkipReconcile, RefreshRow,
     AllReread, EndReconcile, Fault, ScanFails, DeploymentRefused, CycleThrows, Crash,
     CooldownEnds, ReconcileDue, cursorVars
<1> QED
  BY <1>3, <1>4, <1>5, <1>6 DEF StateOK, CursorOK

\* Ids that a counter or a cursor has passed are ids of entities, and keep their rows.
LEMMA RowsKept ==
  ASSUME StateOK, RowsGrow, NEW k \in Kinds, NEW n \in Nat, n <= Len(chain[k]),
         NEW id \in 1..n, HasRow(k, id)
  PROVE  HasRow(k, id)'
<1>1. id \in Entities(k)
  BY ChainTypes DEF StateOK, Entities
<1>2. id \in Ids(k)
  BY <1>1, ChainTypes DEF StateOK
<1> QED
  BY <1>2 DEF RowsGrow

LEMMA DoneKept ==
  ASSUME StateOK, RowsGrow, NEW n \in 1..8, DoneBefore(n), worker'.counters = worker.counters
  PROVE  DoneBefore(n)'
<1> SUFFICES ASSUME NEW m \in 1..(n - 1), NEW id \in 1..worker.counters[entityKinds[m]]
             PROVE  HasRow(entityKinds[m], id)'
  BY DEF DoneBefore
<1>1. m \in 1..7
  OBVIOUS
<1>2. entityKinds[m] \in Kinds
  BY <1>1, KindsAre
<1>3. worker.counters[entityKinds[m]] \in Nat
      /\ worker.counters[entityKinds[m]] <= Len(chain[entityKinds[m]])
  BY <1>2 DEF StateOK, WorkerOK, WorkerType
<1>4. HasRow(entityKinds[m], id)
  BY DEF DoneBefore
<1> QED
  BY <1>2, <1>3, <1>4, RowsKept

LEMMA PassedKept ==
  ASSUME StateOK, RowsGrow, NEW n \in 1..8, PassedBefore(n),
         \A m \in 1..(n - 1) : cursor'[entityKinds[m]] = cursor[entityKinds[m]]
  PROVE  PassedBefore(n)'
<1> SUFFICES ASSUME NEW m \in 1..(n - 1), NEW id \in 1..(cursor[entityKinds[m]] - 1)
             PROVE  HasRow(entityKinds[m], id)'
  BY DEF PassedBefore
<1> DEFINE k == entityKinds[m]
<1>1. m \in 1..7
  OBVIOUS
<1>2. k \in Kinds
  BY <1>1, KindsAre
<1>3. cursor[k] - 1 \in Nat /\ cursor[k] - 1 <= Len(chain[k])
  BY <1>2, ChainTypes DEF StateOK, CursorOK
<1>4. HasRow(k, id)
  BY DEF PassedBefore
<1> HIDE DEF k
<1> QED
  BY <1>2, <1>3, <1>4, RowsKept DEF k

\* A step that leaves the cursors and the record of the repair skips nothing.
LEMMA SkippedKept ==
  ASSUME StateOK, RowsGrow, NothingSkipped, UNCHANGED <<cursor, repaired>>
  PROVE  NothingSkipped'
<1> SUFFICES ASSUME repaired, NEW k \in Kinds, NEW id \in 1..(cursor[k] - 1)
             PROVE  HasRow(k, id)'
  BY DEF NothingSkipped
<1>1. cursor[k] - 1 \in Nat /\ cursor[k] - 1 <= Len(chain[k])
  BY ChainTypes DEF StateOK, CursorOK
<1>2. HasRow(k, id)
  BY DEF NothingSkipped
<1> QED
  BY <1>1, <1>2, RowsKept

\* Nothing skipped is nothing skipped in the first kinds, and in all of them.
LEMMA PassedAre ==
  /\ NothingSkipped /\ repaired => \A n \in 1..8 : PassedBefore(n)
  /\ PassedBefore(8) => \A k \in Kinds : \A id \in 1..(cursor[k] - 1) : HasRow(k, id)
<1>1. ASSUME NothingSkipped, repaired, NEW n \in 1..8
      PROVE  PassedBefore(n)
  <2>1. \A m \in 1..(n - 1) : entityKinds[m] \in Kinds
    BY KindsAre
  <2> QED
    BY <1>1, <2>1 DEF PassedBefore, NothingSkipped
<1>2. ASSUME PassedBefore(8), NEW k \in Kinds
      PROVE  \A id \in 1..(cursor[k] - 1) : HasRow(k, id)
  <2>1. PICK n \in 1..7 : k = entityKinds[n]
    BY KindsAre
  <2>2. n \in 1..(8 - 1)
    OBVIOUS
  <2> QED
    BY <1>2, <2>1, <2>2 DEF PassedBefore
<1> QED
  BY <1>1, <1>2

\* The scan begins with a kind whose predecessors are done.
LEMMA EnterScan ==
  ASSUME StateOK, ChainOK', ChainGrows, RowsGrow,
         NEW w \in WorkerType, NEW n \in 1..7, worker' = Enter(w, n), ~w.failed,
         w.forced \/ (repaired /\ repaired'), repaired => NothingSkipped,
         DoneBefore(n)', PassedBefore(n)'
  PROVE  ScanOK'
<1> DEFINE k == entityKinds[n]
<1>1. k \in Kinds
  BY KindsAre
<1>2. /\ worker'.at = n /\ worker'.forced = w.forced /\ worker'.failed = w.failed
      /\ worker'.id = IF w.forced THEN 1 ELSE cursor[k]
      /\ \/ worker'.pc = "read" /\ worker'.id <= Bounded(worker')
         \/ worker'.pc = "save" /\ worker'.id > Bounded(worker')
  BY EnterIs DEF StateOK
<1>3. cursor[k] \in Nat \ {0} /\ cursor[k] <= Len(chain[k]) + 1 /\ Len(chain[k]) \in Nat
  BY <1>1, ChainTypes DEF StateOK, CursorOK
<1>4. Len(chain'[k]) \in Nat /\ Len(chain[k]) <= Len(chain'[k])
  BY <1>1, LenProperties DEF ChainOK, ChainGrows
<1>5. worker'.id <= Len(chain'[k]) + 1
  BY <1>2, <1>3, <1>4
<1>6. ASSUME NEW id \in 1..(worker'.id - 1)
      PROVE  HasRow(k, id)'
  <2>1. CASE w.forced
    BY <1>2, <2>1
  <2>2. CASE ~w.forced
    <3>1. repaired /\ NothingSkipped /\ worker'.id = cursor[k]
      BY <1>2, <2>2
    <3>2. HasRow(k, id)
      BY <1>1, <3>1 DEF NothingSkipped
    <3>3. cursor[k] - 1 \in Nat /\ cursor[k] - 1 <= Len(chain[k])
      BY <1>3
    <3> QED
      BY <1>1, <3>1, <3>2, <3>3, RowsKept
  <2> QED
    BY <2>1, <2>2
<1>7. Kind' = k
  BY <1>2 DEF Kind
<1>8. DoneBefore(worker.at)' /\ PassedBefore(worker.at)'
  BY <1>2
<1>9. worker'.forced \/ repaired'
  BY <1>2
<1> HIDE DEF k
<1> QED
  BY <1>2, <1>5, <1>6, <1>7, <1>8, <1>9 DEF ScanOK

\* A step that leaves the scan where it is.
LEMMA ScanKept ==
  ASSUME StateOK, ScanOK, ChainOK', ChainGrows, RowsGrow, UNCHANGED <<cursor, repaired>>,
         worker'.pc = worker.pc, worker'.forced = worker.forced, worker'.at = worker.at,
         worker'.id = worker.id, worker'.failed = worker.failed,
         worker'.counters = worker.counters
  PROVE  ScanOK'
<1>1. Kind \in Kinds /\ worker.at \in 1..7 /\ worker.id \in Nat \ {0}
  BY KindType DEF StateOK, WorkerOK, WorkerType
<1>2. Kind' = Kind /\ Bounded(worker') = Bounded(worker)
  BY DEF Kind, Bounded
<1>3. Len(chain[Kind]) \in Nat /\ Len(chain'[Kind]) \in Nat
      /\ Len(chain[Kind]) <= Len(chain'[Kind])
  BY <1>1, ChainTypes, LenProperties DEF StateOK, ChainOK, ChainGrows
<1>4. \A n \in 1..8 : DoneBefore(n) => DoneBefore(n)'
  BY DoneKept
<1>5. \A n \in 1..8 : PassedBefore(n) => PassedBefore(n)'
  BY PassedKept
<1>6. ASSUME worker.pc \in {"read", "save"}
      PROVE  /\ worker'.id <= Len(chain'[Kind]) + 1
             /\ \A id \in 1..(worker'.id - 1) : HasRow(Kind, id)'
             /\ DoneBefore(worker.at)' /\ PassedBefore(worker.at)'
  <2>1. worker.id - 1 \in Nat /\ worker.id - 1 <= Len(chain[Kind])
    BY <1>1, <1>3, <1>6 DEF ScanOK
  <2>2. \A id \in 1..(worker.id - 1) : HasRow(Kind, id)'
    <3> SUFFICES ASSUME NEW id \in 1..(worker.id - 1)
                 PROVE  HasRow(Kind, id)'
      OBVIOUS
    <3>1. HasRow(Kind, id)
      BY <1>6 DEF ScanOK
    <3> DEFINE n == worker.id - 1
    <3>2. n \in Nat /\ n <= Len(chain[Kind]) /\ id \in 1..n
      BY <2>1
    <3> HIDE DEF n
    <3>3. rows'[Kind][id] # <<>>
      BY <1>1, <3>1, <3>2, RowsKept DEF HasRow
    <3> QED
      BY <1>2, <3>3 DEF HasRow
  <2>3. DoneBefore(worker.at) /\ PassedBefore(worker.at) /\ worker.at \in 1..8
    BY <1>1, <1>6 DEF ScanOK
  <2>4. DoneBefore(worker.at)' /\ PassedBefore(worker.at)'
    BY <2>3, DoneKept, PassedKept DEF DoneBefore, PassedBefore
  <2> QED
    BY <1>1, <1>3, <2>1, <2>2, <2>4
<1>7. (worker.pc = "repair" => DoneBefore(8) /\ PassedBefore(8))'
      /\ (worker.pc = "end" /\ ~worker.failed => DoneBefore(8))'
      /\ (worker.pc = "synced" => DoneBefore(8))'
  BY <1>4, <1>5 DEF ScanOK
<1> QED
  BY <1>2, <1>6, <1>7 DEF ScanOK

LEMMA StepScan ==
  ASSUME StateOK, ScanOK, NothingSkipped, IndexerNext
  PROVE  ScanOK' /\ NothingSkipped'
<1>1. ChainOK' /\ ChainGrows /\ RowsOK' /\ RowsGrow
  BY ChainKeeps, StepRows DEF StateOK
<1>2. /\ worker \in WorkerType /\ Kind \in Kinds /\ worker.at \in 1..7
      /\ worker.id \in Nat \ {0} /\ worker.counters \in [Kinds -> Nat]
      /\ worker.counters[Kind] <= Len(chain[Kind]) /\ worker.failed \in BOOLEAN
  BY KindType DEF StateOK, WorkerOK, WorkerType
<1>3. Len(chain[Kind]) \in Nat /\ Len(chain'[Kind]) \in Nat
      /\ Len(chain[Kind]) <= Len(chain'[Kind])
  BY <1>1, <1>2, ChainTypes, LenProperties DEF StateOK, ChainOK, ChainGrows
<1>4. Bounded(worker) \in Nat /\ Bounded(worker) <= worker.counters[Kind]
      /\ (~OverCap(worker) => Bounded(worker) = worker.counters[Kind])
  BY <1>2, BoundedIs DEF Kind
<1>5. CASE UNCHANGED <<worker, cursor, repaired>>
  BY <1>1, <1>5, ScanKept, SkippedKept
<1>6. CASE ReadPart
  <2>1. /\ worker'.pc = worker.pc /\ worker'.forced = worker.forced /\ worker'.at = worker.at
        /\ worker'.id = worker.id /\ worker'.failed = worker.failed
        /\ worker'.counters = worker.counters /\ UNCHANGED <<cursor, repaired>>
    BY <1>2, <1>6 DEF ReadPart, WorkerType, cursorVars
  <2> QED
    BY <1>1, <2>1, ScanKept, SkippedKept
<1>7. CASE worker'.pc \in {"idle", "reread"} /\ UNCHANGED <<cursor, repaired>>
  BY <1>1, <1>7, SkippedKept DEF ScanOK
<1>8. CASE StartCycle
  <2> DEFINE w == [Idle EXCEPT !.counters = [k \in Kinds |-> Len(chain[k])],
                               !.forced = ~repaired]
  <2>1. worker' = Enter(w, 1) /\ UNCHANGED <<cursor, repaired>>
    BY <1>8 DEF StartCycle, cursorVars
  <2>2. \A k \in Kinds : Len(chain[k]) \in Nat
    BY ChainTypes DEF StateOK
  <2>3. repaired \in BOOLEAN
    BY DEF StateOK, CursorOK
  <2>4. w \in WorkerType /\ w.failed = FALSE /\ w.forced = ~repaired
    BY <2>2, <2>3, IdleType DEF WorkerType
  <2>5. DoneBefore(1)' /\ PassedBefore(1)'
    BY DEF DoneBefore, PassedBefore
  <2> HIDE DEF w
  <2>6. w.forced \/ (repaired /\ repaired')
    BY <2>1, <2>3, <2>4
  <2>7. ScanOK'
    BY <1>1, <2>1, <2>4, <2>5, <2>6, EnterScan
  <2> QED
    BY <1>1, <2>1, <2>7, SkippedKept
<1>9. CASE ProjectNext
  <2>1. worker.pc = "read" /\ UNCHANGED <<cursor, repaired, chain>>
    BY <1>9 DEF ProjectNext, cursorVars
  <2>2. /\ worker'.forced = worker.forced /\ worker'.at = worker.at
        /\ worker'.id = worker.id + 1 /\ worker'.failed = worker.failed
        /\ worker'.counters = worker.counters
        /\ worker'.pc = IF worker.id + 1 <= Bounded(worker) THEN "read" ELSE "save"
    BY <1>2, <1>9 DEF ProjectNext, WorkerType
  <2>3. Kind' = Kind /\ Bounded(worker') = Bounded(worker)
    BY <2>2 DEF Kind, Bounded
  <2>4. /\ worker.forced \/ repaired
        /\ \A id \in 1..(worker.id - 1) : HasRow(Kind, id)
        /\ DoneBefore(worker.at) /\ PassedBefore(worker.at) /\ ~worker.failed
    BY <2>1 DEF ScanOK
  <2>5. worker.id <= Bounded(worker)
    BY <2>1 DEF StateOK, WorkerOK
  <2>6. worker'.id <= Len(chain'[Kind]) + 1
    BY <1>2, <1>3, <1>4, <2>2, <2>5
  <2>7. rows'[Kind][worker.id] # <<>>
    <3>1. Write(Kind, worker.id, Append(worker.got, chain[Kind][worker.id].version))
      BY <1>9 DEF ProjectNext
    <3> DEFINE r == [kind |-> Kind, id |-> worker.id]
    <3>2. r \in Reading
      BY <2>1 DEF Reading
    <3>3. rows'[r.kind][r.id] # <<>>
      BY <2>1, <3>1, <3>2, WriteKeeps
    <3> QED
      BY <3>3
  <2>8. ASSUME NEW id \in 1..(worker'.id - 1)
        PROVE  rows'[Kind][id] # <<>>
    <3>1. CASE id = worker.id
      BY <2>7, <3>1
    <3>2. CASE id \in 1..(worker.id - 1)
      <4> DEFINE n == worker.id - 1
      <4>1. n \in Nat /\ n <= Len(chain[Kind]) /\ id \in 1..n /\ HasRow(Kind, id)
        BY <1>2, <1>3, <1>4, <2>4, <2>5, <3>2
      <4> HIDE DEF n
      <4>2. rows'[Kind][id] # <<>>
        BY <1>1, <1>2, <4>1, RowsKept DEF HasRow
      <4> QED
        BY <4>2
    <3> QED
      BY <1>2, <2>2, <3>1, <3>2
  <2>9. DoneBefore(worker.at)' /\ PassedBefore(worker.at)'
    <3> PICK a \in 1..8 : a = worker.at
      BY <1>2
    <3>1. DoneBefore(a) /\ PassedBefore(a)
      BY <2>4
    <3>2. DoneBefore(a)' /\ PassedBefore(a)'
      BY <1>1, <2>1, <2>2, <3>1, DoneKept, PassedKept
    <3> QED
      BY <2>2, <3>2
  <2>10. worker'.pc = "save" => worker'.id > Bounded(worker')
    BY <1>2, <1>4, <2>2, <2>3
  <2>11. NothingSkipped'
    BY <1>1, <2>1, SkippedKept
  <2> QED
    BY <2>1, <2>2, <2>3, <2>4, <2>6, <2>8, <2>9, <2>10, <2>11 DEF ScanOK, HasRow
<1>10. CASE ScanFails
  <2>1. worker.pc = "read" /\ UNCHANGED <<cursor, repaired, chain, rows>>
    BY <1>10 DEF ScanFails, cursorVars, rowVars
  <2>2. /\ worker'.forced = worker.forced /\ worker'.at = worker.at
        /\ worker'.id = worker.id /\ worker'.failed = TRUE
        /\ worker'.counters = worker.counters /\ worker'.pc = "save"
    BY <1>2, <1>10 DEF ScanFails, WorkerType
  <2>3. /\ worker.forced \/ repaired
        /\ worker.id <= Len(chain[Kind]) + 1
        /\ \A id \in 1..(worker.id - 1) : HasRow(Kind, id)
        /\ DoneBefore(worker.at) /\ PassedBefore(worker.at)
    BY <2>1 DEF ScanOK
  <2>4. (worker.id <= Len(chain[Kind]) + 1
         /\ (\A id \in 1..(worker.id - 1) : HasRow(Kind, id))
         /\ DoneBefore(worker.at) /\ PassedBefore(worker.at))'
    BY <2>1, <2>2, <2>3 DEF HasRow, DoneBefore, PassedBefore, Kind
  <2>5. NothingSkipped'
    BY <1>1, <2>1, SkippedKept
  <2> QED
    BY <2>1, <2>2, <2>3, <2>4, <2>5 DEF ScanOK
<1>11. CASE RecordRepair
  <2>1. worker.pc = "repair" /\ repaired' = TRUE /\ UNCHANGED <<cursor, rows>>
    BY <1>11 DEF RecordRepair, rowVars
  <2>2. worker'.pc = "end" /\ worker'.counters = worker.counters
    BY <1>2, <1>11 DEF RecordRepair, WorkerType
  <2>3. DoneBefore(8) /\ PassedBefore(8)
    BY <2>1 DEF ScanOK
  <2>4. NothingSkipped'
    BY <2>1, <2>3, PassedAre DEF NothingSkipped, HasRow
  <2>5. DoneBefore(8)'
    BY <2>1, <2>2, <2>3 DEF DoneBefore, HasRow
  <2> QED
    BY <2>2, <2>4, <2>5 DEF ScanOK
<1>12. CASE EndSync
  <2>1. worker.pc = "end" /\ UNCHANGED <<cursor, repaired, rows>>
    BY <1>12 DEF EndSync, rowVars
  <2>2. CASE worker.failed
    <3>1. worker' = Idle
      BY <1>12, <2>2 DEF EndSync
    <3> QED
      BY <1>7, <2>1, <3>1, IdleType
  <2>3. CASE ~worker.failed
    <3>1. worker'.pc = "synced" /\ worker'.counters = worker.counters
      BY <1>2, <1>12, <2>3 DEF EndSync, WorkerType
    <3>2. DoneBefore(8)
      BY <2>1, <2>3 DEF ScanOK
    <3>3. DoneBefore(8)'
      BY <2>1, <3>1, <3>2 DEF DoneBefore, HasRow
    <3>4. NothingSkipped'
      BY <1>1, <2>1, SkippedKept
    <3> QED
      BY <3>1, <3>3, <3>4 DEF ScanOK
  <2> QED
    BY <2>2, <2>3
<1>13. CASE SaveCursor
  <2> USE <1>13
  <2>1. /\ worker.pc = "save" /\ cursor' = [cursor EXCEPT ![Kind] = worker.id]
        /\ UNCHANGED <<chain, rows, repaired>>
    BY DEF SaveCursor, rowVars
  <2>2. /\ worker.forced \/ repaired
        /\ \A id \in 1..(worker.id - 1) : HasRow(Kind, id)
        /\ DoneBefore(worker.at) /\ PassedBefore(worker.at)
        /\ ~worker.failed => worker.id > Bounded(worker)
    BY <2>1 DEF ScanOK
  <2>3. cursor'[Kind] = worker.id /\ \A k \in Kinds \ {Kind} : cursor'[k] = cursor[k]
    BY <1>2, <2>1 DEF StateOK, CursorOK
  <2>4. NothingSkipped'
    <3> SUFFICES ASSUME repaired, NEW k \in Kinds, NEW id \in 1..(cursor'[k] - 1)
                 PROVE  HasRow(k, id)
      BY <2>1 DEF NothingSkipped, HasRow
    <3>1. CASE k = Kind
      BY <2>2, <2>3, <3>1
    <3>2. CASE k # Kind
      BY <2>3, <3>2 DEF NothingSkipped
    <3> QED
      BY <3>1, <3>2
  <2>5. \A m \in 1..(worker.at - 1) : cursor'[entityKinds[m]] = cursor[entityKinds[m]]
    <3> SUFFICES ASSUME NEW m \in 1..(worker.at - 1)
                 PROVE  cursor'[entityKinds[m]] = cursor[entityKinds[m]]
      OBVIOUS
    <3>1. m \in 1..7 /\ m # worker.at
      BY <1>2
    <3>2. entityKinds[m] \in Kinds \ {Kind}
      BY <1>2, <3>1, KindsAre DEF Kind
    <3> QED
      BY <2>3, <3>2
  <2>6. CASE worker.failed \/ OverCap(worker)
    <3>1. worker' = [worker EXCEPT !.pc = "end", !.failed = TRUE]
      BY <2>6 DEF SaveCursor
    <3>2. worker'.pc = "end" /\ worker'.failed = TRUE
      BY <1>2, <3>1 DEF WorkerType
    <3> QED
      BY <2>4, <3>2 DEF ScanOK
  <2>7. CASE ~worker.failed /\ ~OverCap(worker)
    <3>1. worker.id > worker.counters[Kind] /\ worker.counters[Kind] \in Nat
      BY <1>2, <1>4, <2>2, <2>7
    <3>2. \A id \in 1..worker.counters[Kind] : HasRow(Kind, id)
      BY <1>2, <2>2, <3>1
    <3> PICK n \in 1..8 : n = worker.at + 1
      BY <1>2
    <3>4. DoneBefore(n)
      <4> SUFFICES ASSUME NEW m \in 1..(n - 1), NEW id \in 1..worker.counters[entityKinds[m]]
                   PROVE  HasRow(entityKinds[m], id)
        BY DEF DoneBefore
      <4>1. CASE m = worker.at
        BY <3>2, <4>1 DEF Kind
      <4>2. CASE m \in 1..(worker.at - 1)
        BY <2>2, <4>2 DEF DoneBefore
      <4> QED
        BY <1>2, <4>1, <4>2
    <3>5. PassedBefore(n)'
      <4> SUFFICES ASSUME NEW m \in 1..(n - 1), NEW id \in 1..(cursor'[entityKinds[m]] - 1)
                   PROVE  HasRow(entityKinds[m], id)
        BY <2>1 DEF PassedBefore, HasRow
      <4>1. CASE m = worker.at
        BY <2>2, <2>3, <4>1 DEF Kind
      <4>2. CASE m \in 1..(worker.at - 1)
        BY <2>2, <2>5, <4>2 DEF PassedBefore
      <4> QED
        BY <1>2, <4>1, <4>2
    <3>6. CASE worker.at < 7
      <4>1. n \in 1..7
        BY <1>2, <3>6
      <4>2. worker' = Enter(worker, n)
        BY <2>7, <3>6 DEF SaveCursor
      <4>3. worker'.counters = worker.counters
        BY <1>2, <4>1, <4>2, EnterIs DEF StateOK
      <4>4. DoneBefore(n)'
        BY <1>1, <3>4, <4>3, DoneKept
      <4>5. ScanOK'
        BY <1>1, <1>2, <2>1, <2>2, <2>7, <3>5, <4>1, <4>2, <4>4, EnterScan
      <4> QED
        BY <2>4, <4>5
    <3>7. CASE ~(worker.at < 7)
      <4>1. n = 8
        BY <1>2, <3>7
      <4>2. worker' = [worker EXCEPT !.pc = IF worker.forced THEN "repair" ELSE "end"]
        BY <2>7, <3>7 DEF SaveCursor
      <4>3. worker'.pc \in {"repair", "end"} /\ worker'.counters = worker.counters
        BY <1>2, <4>2 DEF WorkerType
      <4>4. DoneBefore(8)' /\ PassedBefore(8)'
        BY <1>1, <3>4, <3>5, <4>1, <4>3, DoneKept
      <4> QED
        BY <2>4, <4>3, <4>4 DEF ScanOK
    <3> QED
      BY <3>6, <3>7
  <2> QED
    BY <2>6, <2>7
<1>14. CASE StartReconcile
  <2>1. worker'.pc = "reread" /\ UNCHANGED <<cursor, repaired>>
    BY <1>14, IdleType DEF StartReconcile, cursorVars, WorkerType
  <2> QED
    BY <1>7, <2>1
<1>15. CASE RefreshRow
  <2>1. worker'.pc = "reread" /\ UNCHANGED <<cursor, repaired>>
    BY <1>2, <1>15 DEF RefreshRow, cursorVars, WorkerType
  <2> QED
    BY <1>7, <2>1
<1>16. CASE SkipReconcile \/ AllReread \/ CycleThrows \/ EndReconcile("DEGRADED") \/ Crash
  <2>1. worker' = Idle /\ UNCHANGED <<cursor, repaired>>
    BY <1>16 DEF SkipReconcile, AllReread, EndReconcile, CycleThrows, Crash, cursorVars
  <2> QED
    BY <1>7, <2>1, IdleType
<1>17. ChainStep \/ DeploymentRefused \/ CooldownEnds \/ ReconcileDue
         => UNCHANGED <<worker, cursor, repaired>>
  BY DEF ChainStep, Create, Change, DeploymentRefused, CooldownEnds, ReconcileDue, cursorVars
<1> QED
  BY <1>5, <1>6, <1>8, <1>9, <1>10, <1>11, <1>12, <1>13, <1>14, <1>15, <1>16, <1>17
     DEF IndexerNext, WorkerStep, SyncStep, ReconcileStep, Fault

-----------------------------------------------------------------------------
(* The theorems *)

IndexerInv == StateOK /\ ScanOK /\ NothingSkipped

\* The kinds an entity refers to come before its own.
LEMMA ParentsEarlier ==
  \A m \in 1..7 : \A p \in ParentKinds(entityKinds[m]) : \E j \in 1..(m - 1) : p = entityKinds[j]
<1>1. /\ entityKinds[1] = "provider" /\ entityKinds[2] = "service" /\ entityKinds[3] = "pact"
      /\ entityKinds[4] = "coverage" /\ entityKinds[5] = "incident"
      /\ entityKinds[6] = "evidence" /\ entityKinds[7] = "claim"
  BY DEF entityKinds
<1> SUFFICES ASSUME NEW m \in 1..7, NEW p \in ParentKinds(entityKinds[m])
             PROVE  \E j \in 1..(m - 1) : p = entityKinds[j]
  OBVIOUS
<1>2. CASE m = 1
  BY <1>1, <1>2 DEF ParentKinds
<1>3. CASE m = 2
  <2>1. p = entityKinds[1] /\ 1 \in 1..(m - 1)
    BY <1>1, <1>3 DEF ParentKinds
  <2> QED
    BY <2>1
<1>4. CASE m = 3
  <2>1. p \in {entityKinds[1], entityKinds[2]} /\ 1 \in 1..(m - 1) /\ 2 \in 1..(m - 1)
    BY <1>1, <1>4 DEF ParentKinds
  <2> QED
    BY <2>1
<1>5. CASE m = 4
  <2>1. p = entityKinds[3] /\ 3 \in 1..(m - 1)
    BY <1>1, <1>5 DEF ParentKinds
  <2> QED
    BY <2>1
<1>6. CASE m = 5
  <2>1. p = entityKinds[2] /\ 2 \in 1..(m - 1)
    BY <1>1, <1>6 DEF ParentKinds
  <2> QED
    BY <2>1
<1>7. CASE m = 6
  <2>1. p = entityKinds[5] /\ 5 \in 1..(m - 1)
    BY <1>1, <1>7 DEF ParentKinds
  <2> QED
    BY <2>1
<1>8. CASE m = 7
  <2>1. p \in {entityKinds[4], entityKinds[5]} /\ 4 \in 1..(m - 1) /\ 5 \in 1..(m - 1)
    BY <1>1, <1>8 DEF ParentKinds
  <2> QED
    BY <2>1
<1> QED
  BY <1>2, <1>3, <1>4, <1>5, <1>6, <1>7, <1>8

LEMMA InitChain ==
  ASSUME IndexerInit
  PROVE  ChainOK /\ CursorOK
<1> PICK made \in 0..7 : \E lost \in SUBSET {entityKinds[n] : n \in 1..made} :
      LET old == {entityKinds[n] : n \in 1..made} IN
      /\ \A k \in old : MaxCount[k] > 0
      /\ chain = [k \in Kinds |-> IF k \in old
                    THEN <<[version |-> 0, parents |-> [p \in ParentKinds(k) |-> 1]]>> ELSE <<>>]
      /\ cursor = [k \in Kinds |-> IF k \in lost THEN 2 ELSE 1]
  BY DEF IndexerInit
<1> PICK lost \in SUBSET {entityKinds[n] : n \in 1..made} :
      LET old == {entityKinds[n] : n \in 1..made} IN
      /\ \A k \in old : MaxCount[k] > 0
      /\ chain = [k \in Kinds |-> IF k \in old
                    THEN <<[version |-> 0, parents |-> [p \in ParentKinds(k) |-> 1]]>> ELSE <<>>]
      /\ cursor = [k \in Kinds |-> IF k \in lost THEN 2 ELSE 1]
  OBVIOUS
<1> DEFINE old == {entityKinds[n] : n \in 1..made}
           first(k) == [version |-> 0, parents |-> [p \in ParentKinds(k) |-> 1]]
<1>1. ASSUME NEW k \in Kinds
      PROVE  /\ chain[k] \in Seq(Entity(k)) /\ Len(chain[k]) <= MaxCount[k]
             /\ k \in old => Len(chain[k]) = 1 /\ chain[k][1] = first(k)
             /\ k \notin old => Len(chain[k]) = 0
  <2>1. first(k) \in Entity(k)
    BY FinalVersionType DEF Entity
  <2> HIDE DEF first
  <2>2. CASE k \in old
    <3>1. chain[k] = <<first(k)>>
      BY <2>2 DEF first
    <3>2. MaxCount[k] > 0 /\ MaxCount[k] \in Nat
      BY <2>2, FinalVersionType
    <3> QED
      BY <2>1, <2>2, <3>1, <3>2
  <2>3. CASE k \notin old
    <3>1. chain[k] = <<>>
      BY <2>3
    <3> QED
      BY <2>3, <3>1, EmptySeq, FinalVersionType
  <2> QED
    BY <2>2, <2>3
<1>2. ASSUME NEW k \in Kinds, NEW id \in Entities(k), NEW p \in ParentKinds(k)
      PROVE  chain[k][id].parents[p] \in Entities(p)
  <2>1. k \in old /\ id = 1
    BY <1>1 DEF Entities
  <2>2. PICK m \in 1..made : k = entityKinds[m]
    BY <2>1
  <2>3. m \in 1..7
    BY <2>2
  <2>4. PICK j \in 1..(m - 1) : p = entityKinds[j]
    BY <2>2, <2>3, ParentsEarlier
  <2>5. p \in old /\ p \in Kinds
    <3>1. j \in 1..made
      BY <2>2
    <3> QED
      BY <2>4, <3>1, ParentKindsAre
  <2>6. chain[k][id].parents[p] = 1
    BY <1>1, <2>1
  <2> QED
    BY <1>1, <2>5, <2>6 DEF Entities
<1>3. chain = [k \in Kinds |-> chain[k]]
  OBVIOUS
<1>4. ChainOK
  BY <1>1, <1>2, <1>3 DEF ChainOK
<1>5. ASSUME NEW k \in Kinds
      PROVE  cursor[k] \in Nat \ {0} /\ cursor[k] <= Len(chain[k]) + 1
  <2>1. CASE k \in lost
    BY <1>1, <2>1
  <2>2. CASE k \notin lost
    BY <1>1, <2>2
  <2> QED
    BY <2>1, <2>2
<1>6. cursor = [k \in Kinds |-> cursor[k]]
  OBVIOUS
<1>7. repaired \in BOOLEAN
  BY DEF IndexerInit
<1> HIDE DEF old, first
<1> QED
  BY <1>4, <1>5, <1>6, <1>7 DEF CursorOK

LEMMA InitInv ==
  ASSUME IndexerInit
  PROVE  IndexerInv
<1>1. rows = [k \in Kinds |-> [id \in Ids(k) |-> <<>>]] /\ worker = Idle /\ ~repaired
  BY DEF IndexerInit
<1>2. RowsOK
  BY <1>1, EmptySeq DEF RowsOK, HasRow
<1>3. WorkerOK
  <2>1. \A k \in Kinds : Len(chain[k]) \in Nat
    BY InitChain, ChainTypes
  <2> QED
    BY <1>1, <2>1, IdleType DEF WorkerOK
<1>4. GotOK
  BY <1>1, IdleType DEF GotOK, Reading
<1>5. ScanOK
  BY <1>1, IdleType DEF ScanOK
<1>6. NothingSkipped
  BY <1>1 DEF NothingSkipped
<1> QED
  BY <1>2, <1>3, <1>4, <1>5, <1>6, InitChain DEF IndexerInv, StateOK

LEMMA StepInv ==
  ASSUME IndexerInv, [IndexerNext]_indexerVars
  PROVE  IndexerInv'
<1>1. CASE IndexerNext
  BY <1>1, ChainKeeps, StepRows, StepWorker, StepGot, StepCursor, StepScan DEF IndexerInv, StateOK
<1>2. CASE UNCHANGED indexerVars
  <2>1. UNCHANGED <<chain, rows, cursor, repaired, worker>>
    BY <1>2 DEF indexerVars, rowVars, cursorVars
  <2> QED
    BY <2>1 DEF IndexerInv, StateOK, ChainOK, RowsOK, CursorOK, WorkerOK, GotOK, GotFor, ScanOK,
       NothingSkipped, Entities, HasRow, Reading, Kind, Bounded, DoneBefore, PassedBefore
<1> QED
  BY <1>1, <1>2

\* The indexer's state is always in order: types, rows, what is being read, the scan.
THEOREM IndexerInvariant == IndexerSpec => []IndexerInv
BY InitInv, StepInv, PTL DEF IndexerSpec

\* Once the repair is recorded, no cursor has passed an id without its row: whatever
\* fails, and wherever the worker dies.
THEOREM NothingIsSkipped == IndexerSpec => []NothingSkipped
<1>1. IndexerInv => NothingSkipped
  BY DEF IndexerInv
<1> QED
  BY <1>1, IndexerInvariant, PTL

\* A scan that ends without error has projected all that its counters announced.
THEOREM HealthIsComplete == IndexerSpec => []HealthyMeansComplete
<1>1. IndexerInv => HealthyMeansComplete
  <2> SUFFICES ASSUME IndexerInv, worker.pc = "synced",
                      NEW k \in Kinds, NEW id \in 1..worker.counters[k]
               PROVE  HasRow(k, id)
    BY DEF HealthyMeansComplete
  <2>1. PICK n \in 1..7 : k = entityKinds[n]
    BY KindsAre
  <2>2. DoneBefore(8) /\ n \in 1..(8 - 1)
    BY DEF IndexerInv, ScanOK
  <2> QED
    BY <2>1, <2>2 DEF DoneBefore
<1> QED
  BY <1>1, IndexerInvariant, PTL

\* A row that is never read again is whole: the views projected with it are the last ones.
THEOREM TerminalIsComplete == IndexerSpec => []TerminalRowsComplete
<1>1. IndexerInv => TerminalRowsComplete
  <2> SUFFICES ASSUME IndexerInv, NEW k \in Kinds, NEW id \in Entities(k), HasRow(k, id),
                      Terminal(k, rows[k][id][1]), NEW n \in DOMAIN rows[k][id]
               PROVE  rows[k][id][n] = FinalVersion(k)
    BY DEF TerminalRowsComplete
  <2>1. id \in Ids(k) /\ chain[k][id].version \in 0..FinalVersion(k) /\ FinalVersion(k) \in Nat
    BY ChainTypes, FinalVersionType DEF IndexerInv, StateOK
  <2>2. rows[k][id] \in Seq(Nat) /\ InOrder(rows[k][id], chain[k][id].version)
    BY <2>1 DEF IndexerInv, StateOK, RowsOK
  <2>3. n \in 1..Len(rows[k][id]) /\ rows[k][id][n] \in Nat
    BY <2>2, LenProperties, ElementOfSeq
  <2>4. rows[k][id][1] = FinalVersion(k)
    BY DEF Terminal
  <2>5. rows[k][id][1] <= rows[k][id][n] /\ rows[k][id][n] <= chain[k][id].version
    BY <2>2, <2>3 DEF InOrder
  <2> QED
    BY <2>1, <2>3, <2>4, <2>5
<1> QED
  BY <1>1, IndexerInvariant, PTL

-----------------------------------------------------------------------------
(* The indexer implements Mirror: by what they say of the entity itself, its  *)
(* rows are a copy of the contract that never goes back, never tells what has *)
(* not happened, and never shows an entity before its parents.                *)

\* What readers see of a row.
LEMMA ShownIs ==
  /\ \A k \in Kinds : \A id \in Ids(k) :
       /\ HasRow(k, id) => ShownOf[k][id] = rows[k][id][1]
       /\ ~HasRow(k, id) => ShownOf[k][id] = -1
BY DEF ShownOf

LEMMA InitRefines ==
  ASSUME IndexerInit
  PROVE  Copy!MirrorInit
<1>1. \A k \in Kinds : \A id \in 1..Len(chain[k]) : chain[k][id].version = 0
  <2> PICK made \in 0..7 :
        chain = [k \in Kinds |-> IF k \in {entityKinds[n] : n \in 1..made}
                  THEN <<[version |-> 0, parents |-> [p \in ParentKinds(k) |-> 1]]>> ELSE <<>>]
    BY DEF IndexerInit
  <2> SUFFICES ASSUME NEW k \in Kinds, NEW id \in 1..Len(chain[k])
               PROVE  chain[k][id].version = 0
    OBVIOUS
  <2>1. CASE chain[k] = <<>>
    BY <2>1
  <2>2. CASE chain[k] = <<[version |-> 0, parents |-> [p \in ParentKinds(k) |-> 1]]>>
    BY <2>2
  <2> QED
    BY <2>1, <2>2
<1>2. ShownOf = [k \in Kinds |-> [id \in Ids(k) |-> -1]]
  BY DEF IndexerInit, ShownOf, HasRow
<1> QED
  BY <1>1, <1>2 DEF Copy!MirrorInit, Copy!None

\* A row that is written shows a content that the entity had, and not an older one.
LEMMA WriteRefines ==
  ASSUME StateOK, NEW r \in Reading, UNCHANGED chain, ParentsProjected(r.kind, r.id),
         Write(r.kind, r.id, Append(worker.got, chain[r.kind][r.id].version))
  PROVE  Copy!Shows(r.kind, r.id) \/ UNCHANGED <<chain, ShownOf>>
<1> DEFINE content == rows'[r.kind][r.id][1]
<1> PICK k \in Kinds : k = r.kind
  BY ReadingIs
<1> PICK id \in Ids(k) : id = r.id
  BY ReadingIs
<1>1. id \in Entities(k)
  BY ReadingIs
<1>2. /\ rows'[k][id] # <<>> /\ content \in 0..chain[k][id].version
      /\ HasRow(k, id) => rows[k][id][1] <= content
      /\ \A j \in Kinds : \A i \in Ids(j) : ~(j = k /\ i = id) => rows'[j][i] = rows[j][i]
  BY WriteKeeps
<1>3. ShownOf' = [ShownOf EXCEPT ![k] = [@ EXCEPT ![id] = content]]
  <2>1. \A j \in Kinds : \A i \in Ids(j) :
          ShownOf'[j][i] = IF j = k /\ i = id THEN content ELSE ShownOf[j][i]
    BY <1>2 DEF ShownOf, HasRow
  <2>2. /\ ShownOf = [j \in Kinds |-> ShownOf[j]] /\ ShownOf' = [j \in Kinds |-> ShownOf'[j]]
        /\ \A j \in Kinds : ShownOf[j] = [i \in Ids(j) |-> ShownOf[j][i]]
        /\ \A j \in Kinds : ShownOf'[j] = [i \in Ids(j) |-> ShownOf'[j][i]]
    BY DEF ShownOf
  <2> HIDE DEF content
  <2>3. ShownOf'[k] = [ShownOf[k] EXCEPT ![id] = content]
    BY <2>1, <2>2
  <2>4. \A j \in Kinds \ {k} : ShownOf'[j] = ShownOf[j]
    <3> SUFFICES ASSUME NEW j \in Kinds \ {k}
                 PROVE  ShownOf'[j] = ShownOf[j]
      OBVIOUS
    <3>1. \A i \in Ids(j) : ShownOf'[j][i] = ShownOf[j][i]
      BY <2>1
    <3> QED
      BY <2>2, <3>1
  <2> QED
    BY <2>2, <2>3, <2>4
<1>4. ShownOf[k][id] <= content /\ content \in Int /\ ShownOf[k][id] \in Int
  <2>1. chain[k][id].version \in Nat
    BY <1>1, ChainTypes, FinalVersionType DEF StateOK
  <2>2. CASE HasRow(k, id)
    <3>1. rows[k][id] \in Seq(Nat) /\ rows[k][id] # <<>>
      BY <2>2 DEF StateOK, RowsOK, HasRow
    <3>2. 1 \in 1..Len(rows[k][id])
      BY <3>1, EmptySeq
    <3>3. rows[k][id][1] \in Nat
      BY <3>1, <3>2, ElementOfSeq
    <3> QED
      BY <1>2, <2>1, <2>2, <3>3, ShownIs
  <2>3. CASE ~HasRow(k, id)
    BY <1>2, <2>1, <2>3, ShownIs
  <2> QED
    BY <2>2, <2>3
<1>5. \A p \in ParentKinds(k) : ShownOf[p][chain[k][id].parents[p]] # -1
  <2> SUFFICES ASSUME NEW p \in ParentKinds(k)
               PROVE  ShownOf[p][chain[k][id].parents[p]] # -1
    OBVIOUS
  <2> DEFINE i == chain[k][id].parents[p]
  <2>1. p \in Kinds /\ i \in Entities(p)
    BY <1>1, ParentKindsAre DEF StateOK, ChainOK
  <2>2. i \in Ids(p)
    BY <2>1, ChainTypes DEF StateOK
  <2>3. HasRow(p, i)
    <3>1. <<p, i>> \in ParentsOf(k, id)
      BY DEF ParentsOf
    <3> QED
      BY <3>1 DEF ParentsProjected
  <2> HIDE DEF i
  <2>4. rows[p][i] \in Seq(Nat) /\ rows[p][i] # <<>>
    BY <2>1, <2>2, <2>3 DEF StateOK, RowsOK, HasRow
  <2>5. 1 \in 1..Len(rows[p][i])
    BY <2>4, EmptySeq
  <2>6. rows[p][i][1] \in Nat
    BY <2>4, <2>5, ElementOfSeq
  <2>7. ShownOf[p][i] = rows[p][i][1]
    BY <2>1, <2>2, <2>3, ShownIs
  <2>8. ShownOf[p][i] # -1
    <3>1. \A n \in Nat : n # -1
      OBVIOUS
    <3> QED
      BY ONLY <2>6, <2>7, <3>1
  <2> QED
    BY <2>8 DEF i
<1> HIDE DEF content
<1>6. CASE ShownOf[k][id] = content
  <2>1. ShownOf' = ShownOf
    BY <1>3, <1>6 DEF ShownOf
  <2> QED
    BY <2>1
<1>7. CASE ShownOf[k][id] # content
  <2>1. ShownOf[k][id] < content
    BY <1>4, <1>7
  <2>2. Copy!ParentsShown(k, id)
    BY <1>5 DEF Copy!ParentsShown, Copy!None
  <2> QED
    BY <1>1, <1>2, <1>3, <2>1, <2>2 DEF Copy!Shows, Entities
<1> QED
  BY <1>6, <1>7

\* Every step of the indexer is a step of the copy, or none.
LEMMA StepRefines ==
  ASSUME IndexerInv, [IndexerNext]_indexerVars
  PROVE  [Copy!MirrorNext]_<<chain, ShownOf>>
<1> USE DEF IndexerInv
<1>1. ASSUME NEW k \in Kinds, Create(k)
      PROVE  Copy!Appears(k)
  <2>1. ShownOf' = ShownOf
    BY <1>1 DEF Create, rowVars, ShownOf, HasRow
  <2> QED
    BY <1>1, <2>1 DEF Create, Entities, Copy!Appears
<1>2. ASSUME NEW k \in Kinds, NEW id \in Ids(k), Change(k, id)
      PROVE  Copy!Changes(k, id)
  <2>1. ShownOf' = ShownOf
    BY <1>2 DEF Change, rowVars, ShownOf, HasRow
  <2> QED
    BY <1>2, <2>1 DEF Change, Entities, Copy!Changes
<1>3. CASE ChainStep
  BY <1>1, <1>2, <1>3 DEF ChainStep, Copy!MirrorNext
<1>4. CASE ProjectNext \/ RefreshRow
  <2>1. PICK r \in Reading :
          /\ Write(r.kind, r.id, Append(worker.got, chain[r.kind][r.id].version))
          /\ ParentsProjected(r.kind, r.id) /\ UNCHANGED chain
    BY <1>4, WritesOfReading
  <2>2. Copy!Shows(r.kind, r.id) \/ UNCHANGED <<chain, ShownOf>>
    BY <2>1, WriteRefines
  <2>3. r.kind \in Kinds /\ r.id \in Ids(r.kind)
    BY ReadingIs
  <2> QED
    BY <2>2, <2>3 DEF Copy!MirrorNext
<1>5. CASE UNCHANGED <<chain, rows>>
  BY <1>5 DEF ShownOf, HasRow
<1>6. ~ChainStep /\ ~ProjectNext /\ ~RefreshRow => UNCHANGED <<chain, rows>>
  BY DEF indexerVars, IndexerNext, WorkerStep, SyncStep, ReconcileStep,
     StartCycle, ReadPart, SaveCursor, RecordRepair, EndSync, StartReconcile, SkipReconcile,
     AllReread, EndReconcile, Fault, ScanFails, DeploymentRefused, CycleThrows, Crash,
     CooldownEnds, ReconcileDue, rowVars
<1> QED
  BY <1>3, <1>4, <1>5, <1>6

\* The indexer implements Mirror, for any number of entities, changes, faults and crashes.
THEOREM CopyIsTrue == IndexerSpec => ImplementsMirror
<1>1. IndexerInit => Copy!MirrorInit
  BY InitRefines
<1>2. IndexerInv /\ [IndexerNext]_indexerVars => [Copy!MirrorNext]_<<chain, ShownOf>>
  BY StepRefines
<1> QED
  BY <1>1, <1>2, IndexerInvariant, PTL
     DEF IndexerSpec, ImplementsMirror, Copy!MirrorSpec, Copy!mirrorVars
=============================================================================
