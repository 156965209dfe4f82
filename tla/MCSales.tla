------------------------------- MODULE MCSales -------------------------------
(* Underwriting on a small instance: constants for Sales_money.cfg.        *)
EXTENDS Underwriting

CONSTANTS alice, bob, none

MCServiceProvider == [s \in Services |-> 1]
MCPactService == [d \in Pacts |-> 1]

\* A coverage lasts one second and costs one and a half times its limit,
\* rounded up.
Terms(threshold) ==
  [threshold |-> [k \in Clauses |-> IF k = "AVAILABILITY" THEN threshold ELSE 0],
   scope |-> "global", minIncident |-> 0, claimWindow |-> 1,
   minDuration |-> 1, maxDuration |-> 1, minAmount |-> 1, maxAmount |-> 2,
   premiumBps |-> 3, deductibleBps |-> 0, maxPayoutBps |-> 2]

\* Two acceptable drafts and one without any clause.
MCTermsInputs == {Terms(0), Terms(1), Terms(2)}

\* Bound: time passes and money moves only while alice owns everything, proposes
\* nobody and has published both pacts with the first terms.
OnSale ==
  /\ owner[1] = alice /\ pendingOwner[1] = none
  /\ config.role = [r \in Roles |-> alice] /\ config.pending = [r \in Roles |-> none]
  /\ \A d \in Pacts : pact[d].frozen /\ pact[d].terms = Terms(1) /\ pact[d].parent = 0

TradeWhileOnSale == (balance = 0 /\ now = 0) \/ OnSale
=============================================================================
