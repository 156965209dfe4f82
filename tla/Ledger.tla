------------------------------- MODULE Ledger -------------------------------
(***************************************************************************)
(* The part every operation of the FaultPact contract shares: the block    *)
(* timestamp, the native tokens the contract holds, and the credits it     *)
(* owes to accounts (src/contracts/FaultPact.py, _now, _credit,            *)
(* _debit_credit, withdraw_credit).                                        *)
(*                                                                         *)
(* A write method of the contract is one transaction: it either performs   *)
(* all of its assignments or reverts on a failed _require and changes      *)
(* nothing.  Every such method is therefore one atomic action here, and a  *)
(* reverted call is no step at all.                                        *)
(***************************************************************************)
EXTENDS Integers, FiniteSets, Totals

CONSTANTS
  Accounts,   \* the addresses that call the contract, the zero address excluded
  EOAs,       \* those that sign transactions themselves (sender = origin)
  MaxTime     \* bound: the last timestamp a behaviour reaches

ASSUME LedgerAssumption ==
  /\ IsFiniteSet(Accounts)
  /\ EOAs \subseteq Accounts
  /\ MaxTime \in Nat

VARIABLES
  now,        \* the block timestamp
  balance,    \* native tokens the contract holds
  credits     \* credits[a]: what a may withdraw

ledgerVars == <<now, balance, credits>>

LedgerTypeOK ==
  /\ now \in 0 .. MaxTime
  /\ balance \in Nat
  /\ credits \in [Accounts -> Nat]

LedgerInit ==
  /\ now = 0
  /\ balance = 0
  /\ credits = [a \in Accounts |-> 0]

\* (Mutant: a new credit replaces the old one.)
CreditLatest(cr, who, amount) == [cr EXCEPT ![who] = amount]
\* cr after crediting who; _credit skips an amount of 0, which adds nothing.
Credit(cr, who, amount) == [cr EXCEPT ![who] = @ + amount]

\* Deadlines lie within the modelled time (a bound, not a check of the code).
WithinHorizon(t) == t <= MaxTime

\* Blocks are produced: the timestamp read by the next transaction is later.
Tick ==
  /\ now < MaxTime
  /\ now' = now + 1
  /\ UNCHANGED <<balance, credits>>

\* withdraw_credit: only an externally owned account, only from its credit.
\* The credit is debited before the transfer message leaves the contract.
WithdrawCredit(who, amount) ==
  /\ amount > 0
  /\ who \in EOAs
  /\ credits[who] >= amount
  /\ credits' = [credits EXCEPT ![who] = @ - amount]
  /\ balance' = balance - amount
  /\ UNCHANGED now
=============================================================================
