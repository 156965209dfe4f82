------------------------------- MODULE Mirror -------------------------------
(* What a copy of the contract's entities promises a reader. The copy may be *)
(* late and it may be incomplete, but it never tells what has not happened,  *)
(* never goes back, and never shows an entity before those it refers to.     *)
EXTENDS Integers, Sequences

CONSTANTS
  Kinds,      \* the kinds of entities
  Ids(_),     \* the ids that an entity of a kind can have
  Refers(_)   \* the kinds an entity of a kind refers to

VARIABLES
  truth,  \* per kind, the entities in the order of their ids
  shown   \* per kind and id, the content that readers see, None before it is shown

mirrorVars == <<truth, shown>>

None == -1

MirrorInit ==
  /\ \A k \in Kinds : \A id \in 1..Len(truth[k]) :
       truth[k][id].version = 0
  /\ shown = [k \in Kinds |-> [id \in Ids(k) |-> None]]

\* The entities that an entity refers to are shown.
ParentsShown(k, id) == \A p \in Refers(k) : shown[p][truth[k][id].parents[p]] # None

Appears(k) ==
  /\ \E parents \in [Refers(k) -> UNION {1..Len(truth[p]) : p \in Refers(k)}] :
       /\ \A p \in Refers(k) : parents[p] \in 1..Len(truth[p])
       /\ truth' = [truth EXCEPT ![k] = Append(@, [version |-> 0, parents |-> parents])]
  /\ UNCHANGED shown

Changes(k, id) ==
  /\ id \in 1..Len(truth[k])
  /\ truth' = [truth EXCEPT ![k][id].version = @ + 1]
  /\ UNCHANGED shown

\* A reader is shown a newer content, not necessarily the newest.
Shows(k, id) ==
  /\ id \in 1..Len(truth[k]) /\ ParentsShown(k, id)
  /\ \E content \in 0..truth[k][id].version :
       /\ shown[k][id] < content
       /\ shown' = [shown EXCEPT ![k][id] = content]
  /\ UNCHANGED truth

MirrorNext == \E k \in Kinds : Appears(k) \/ \E id \in Ids(k) : Changes(k, id) \/ Shows(k, id)

MirrorSpec == MirrorInit /\ [][MirrorNext]_mirrorVars
=============================================================================
