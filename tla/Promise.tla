------------------------------ MODULE Promise -------------------------------
(* What a coverage promises its buyer. Its limit is held for it from the sale *)
(* on and leaves only into claims, each decided once, or when no claim can    *)
(* come any more and none is undecided. Where capital, disputes, settings and *)
(* the listing stand meanwhile is of no concern to it.                        *)
EXTENDS Totals

CONSTANTS Coverages, Claims

VARIABLES
  now,
  cover,  \* per coverage: stage, limit, what is held, what was paid, deadline
  filed   \* per claim: stage, the coverage it is on, and what it was paid

promiseVars == <<now, cover, filed>>

PromiseInit ==
  /\ \A c \in Coverages : cover[c].stage = "unsold" /\ cover[c].paid = 0
  /\ \A k \in Claims : filed[k].stage = "none" /\ filed[k].amount = 0

Open(k) == filed[k].stage = "open"

\* All of the limit is held, for claims until a deadline.
Sells(c) ==
  /\ cover[c].stage = "unsold"
  /\ cover' = [cover EXCEPT ![c] = [stage |-> "running", limit |-> cover'[c].limit,
                                    held |-> cover'[c].limit, paid |-> 0,
                                    deadline |-> cover'[c].deadline]]
  /\ cover'[c].limit \in Nat /\ cover'[c].deadline >= now
  /\ UNCHANGED <<now, filed>>

Files(k, c) ==
  /\ filed[k].stage = "none"
  /\ cover[c].stage = "running" /\ now <= cover[c].deadline
  /\ filed' = [filed EXCEPT ![k] = [stage |-> "open", on |-> c, amount |-> 0]]
  /\ UNCHANGED <<now, cover>>

Pays(k) ==
  /\ Open(k)
  /\ \E amount \in 1 .. cover[filed[k].on].held :
       /\ cover' = [cover EXCEPT ![filed[k].on].held = @ - amount,
                                 ![filed[k].on].paid = @ + amount]
       /\ filed' = [filed EXCEPT ![k].stage = "paid", ![k].amount = amount]
  /\ UNCHANGED now

\* One claim that nothing is due for, or all that waited for an incident that
\* nobody decided.
Refuses(some) ==
  /\ filed' = [k \in Claims |-> IF k \in some THEN [filed[k] EXCEPT !.stage = "refused"]
                                ELSE filed[k]]
  /\ UNCHANGED <<now, cover>>

Frees(c) ==
  /\ cover[c].stage = "running" /\ now >= cover[c].deadline
  /\ \A k \in Claims : Open(k) => filed[k].on # c
  /\ cover' = [cover EXCEPT ![c].stage = "closed", ![c].held = 0]
  /\ UNCHANGED <<now, filed>>

Passes == now' > now /\ UNCHANGED <<cover, filed>>

PromiseNext ==
  \/ \E c \in Coverages : Sells(c) \/ Frees(c) \/ \E k \in Claims : Files(k, c)
  \/ \E k \in Claims : Pays(k)
  \/ \E some \in SUBSET {k \in Claims : Open(k)} : Refuses(some)
  \/ Passes

PromiseSpec == PromiseInit /\ [][PromiseNext]_promiseVars
-----------------------------------------------------------------------------

\* What the promise comes to: what a coverage paid is what its claims were paid, and
\* with what it holds is its limit; no claim waits on a coverage that holds nothing.
Kept ==
  \A c \in Coverages :
    /\ cover[c].paid = Total([k \in Claims |-> IF filed[k].on = c THEN filed[k].amount ELSE 0])
    /\ cover[c].stage = "running" => cover[c].held + cover[c].paid = cover[c].limit
    /\ cover[c].stage # "running" => \A k \in Claims : Open(k) => filed[k].on # c
=============================================================================
