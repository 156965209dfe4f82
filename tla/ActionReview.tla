--------------------------- MODULE ActionReview ---------------------------
(* One write from the browser: the review panel of the purchase page, the     *)
(* user's wallet, the session storage that remembers a sent transaction, and  *)
(* the wait for finality and for the indexed record (apps/web).               *)
(*                                                                            *)
(* The account, the network, the transactions and the indexed records change  *)
(* between any two awaits; requests fail; the page may be reloaded; and the   *)
(* panel is mounted anew when the inputs are edited and when the page loads   *)
(* its pact again, at any await, while the task of the old panel runs on.     *)
EXTENDS Integers, SequencesExt

CONSTANTS
  Accounts,       \* the accounts of the wallet
  Account,        \* the one that is selected at first
  MaxSends,       \* bound on the transactions that the wallet sends
  MaxDisturbances \* bound on all of: reloads, edits, changes of the wallet, failing requests;
                  \* a wallet that is on another network at first counts as one

ASSUME ActionReviewAssumption == MaxSends \in Nat /\ MaxDisturbances \in Nat /\ Account \in Accounts

VARIABLES
  wallet,  \* the selected account, and whether the network is FAULTPACT_CHAIN_ID
  txs,     \* the transactions sent: from, stage, whether the record is indexed, and
           \* whether the mounted panel is older than the hash and not its sender
  slot,    \* the item under storageKey: a transaction and an address, or Empty
  panels,  \* the panels with a running task, then the one that is mounted
  page,    \* known: previousCoverageIds, the buyer's records before the write;
           \* stale: refreshKey was raised, the pact is about to be loaded again
  history, \* what happened so far: reloaded, switched, lost (a hash), and a review
           \* or a signature interrupted (its panel replaced)
  disturbances  \* what MaxDisturbances bounds

reviewVars == <<wallet, txs, slot, panels, page, history, disturbances>>

Empty == [tx |-> 0, address |-> "none"]
Blank == [status |-> "idle", address |-> "none", hash |-> 0, again |-> FALSE, terminal |-> FALSE,
          pc |-> "none", flow |-> "none", owner |-> "none", expected |-> "none", checked |-> FALSE]

\* The page shows no panel while it loads.
Loading == [Blank EXCEPT !.pc = "loading"]

mounted == Len(panels)
Mounted == panels[mounted]
Settled(t) == txs[t].stage \in {"REVERTED", "REJECTED", "SUCCEEDED", "FAILED"}

\* monitor: the panel waits for a transaction on behalf of an address.
Monitoring(panel, tx, address) ==
  [panel EXCEPT !.hash = tx, !.address = address, !.owner = address, !.status = "processing",
                !.terminal = FALSE, !.pc = "status", !.checked = FALSE,
                !.flow = "none", !.expected = "none"]

\* A panel that mounts resumes what the storage remembers.
Fresh == IF slot # Empty THEN Monitoring(Blank, slot.tx, slot.address) ELSE Blank

ReviewInit ==
  /\ wallet \in [account : {Account}, ours : BOOLEAN]
  /\ txs = <<>> /\ slot = Empty /\ page = [known |-> {}, stale |-> FALSE]
  /\ panels = <<Blank>>
  /\ history = [reloaded |-> FALSE, switched |-> FALSE, lost |-> FALSE, interrupted |-> FALSE]
  /\ disturbances = IF wallet.ours THEN 0 ELSE 1

Disturb == disturbances < MaxDisturbances /\ disturbances' = disturbances + 1

----------------------------------------------------------------------------
(* The button                                                                *)

\* (Mutant: after an error the purchase is offered anew, although a hash is held.)
ButtonForgets(panel) ==
  IF panel.pc # "none" THEN "disabled"
  ELSE IF panel.status = "wrongNetwork" THEN "switch"
  ELSE IF panel.terminal THEN "clear"
  ELSE IF panel.status = "ready" THEN "sign"
  ELSE IF panel.status = "finalized" THEN (IF panel.again THEN "check" ELSE "disabled")
  ELSE "review"

\* The first that applies, in the order in which the page asks.
Button(panel) ==
  IF panel.pc # "none" THEN "disabled"
  ELSE IF panel.status = "wrongNetwork" THEN "switch"
  ELSE IF panel.terminal THEN "clear"
  ELSE IF panel.status = "ready" THEN "sign"
  ELSE IF panel.hash # 0 /\ (panel.status = "error" \/ panel.again) THEN "check"
  ELSE IF panel.status = "finalized" THEN "disabled"
  ELSE "review"

Press(label, panel) ==
  /\ Button(Mounted) = label
  /\ panels' = [panels EXCEPT ![mounted] = panel]
  /\ UNCHANGED <<wallet, txs, slot, page, history, disturbances>>

Review == Press("review", [Mounted EXCEPT !.status = "connecting", !.flow = "review", !.pc = "accounts"])
SwitchNetwork == Press("switch", [Mounted EXCEPT !.status = "connecting", !.flow = "switch", !.pc = "switch"])
\* sign keeps the address that the panel shows when it is pressed.
Sign == Press("sign", [Mounted EXCEPT !.status = "signing", !.flow = "sign", !.pc = "accounts",
                                      !.expected = Mounted.address])
CheckAgain == Press("check", Monitoring(Mounted, Mounted.hash, Mounted.address))
ClearTerminalFailure == Press("clear", [Mounted EXCEPT !.status = "idle", !.terminal = FALSE, !.hash = 0])

Click == Review \/ SwitchNetwork \/ Sign \/ CheckAgain \/ ClearTerminalFailure

----------------------------------------------------------------------------
(* The tasks. A task that ends leaves nothing of its own, and a panel that is *)
(* not mounted shows nothing and goes with it.                                *)

Hidden(panel) ==
  [panel EXCEPT !.status = "idle", !.address = "none", !.again = FALSE, !.terminal = FALSE]
Ended(panel) == [panel EXCEPT !.flow = "none", !.owner = "none", !.expected = "none", !.checked = FALSE]

Become(p, panel) ==
  panels' = IF p = mounted THEN [panels EXCEPT ![p] = IF panel.pc # "none" THEN panel ELSE Ended(panel)]
            ELSE IF panel.pc # "none" THEN [panels EXCEPT ![p] = Hidden(panel)]
            ELSE RemoveAt(panels, p)

Stop(p, status) == Become(p, [panels[p] EXCEPT !.status = status, !.pc = "none"])
Go(p, pc) == Become(p, [panels[p] EXCEPT !.pc = pc])

\* The steps of review, switchNetwork and sign. switchToFaultPact moves the wallet.
SwitchToFaultPact(p) ==
  /\ panels[p].pc = "switch"
  /\ wallet' = [wallet EXCEPT !.ours = TRUE]
  /\ Go(p, "accounts")
  /\ UNCHANGED <<txs, slot, page, history, disturbances>>

ConnectWallet(p) ==
  /\ panels[p].pc = "accounts"
  /\ Become(p, [panels[p] EXCEPT !.owner = wallet.account, !.pc = "chain"])
  /\ UNCHANGED <<wallet, txs, slot, page, history, disturbances>>

WalletChainId(p) ==
  /\ panels[p].pc = "chain"
  /\ Become(p, [panels[p] EXCEPT !.address = panels[p].owner,
                                 !.pc = IF wallet.ours THEN "known" ELSE "none",
                                 !.status = IF wallet.ours THEN @ ELSE "wrongNetwork"])
  /\ UNCHANGED <<wallet, txs, slot, page, history, disturbances>>

\* The records that the API lists for a buyer.
Listed(buyer) == {t \in DOMAIN txs : txs[t].from = buyer /\ txs[t].indexed}

\* (Mutant: the buyer's earlier records are not noted.)
OnWalletConnectedUnnoted(p) ==
  /\ panels[p].pc = "known"
  /\ Go(p, IF panels[p].flow = "sign" THEN "check" ELSE "fees")
  /\ UNCHANGED <<wallet, txs, slot, page, history, disturbances>>

OnWalletConnected(p) ==
  /\ panels[p].pc = "known"
  /\ page' = [page EXCEPT !.known = Listed(panels[p].owner)]
  /\ Go(p, IF panels[p].flow = "sign" THEN "check" ELSE "fees")
  /\ UNCHANGED <<wallet, txs, slot, history, disturbances>>

GetStudioFeePreset(p) ==
  /\ panels[p].pc = "fees"
  /\ Stop(p, "ready")
  /\ UNCHANGED <<wallet, txs, slot, page, history, disturbances>>

\* sendFaultPactTransaction: the checks, then the wallet's own confirmation.
CheckSender(p) ==
  /\ panels[p].pc = "check"
  /\ IF wallet.account = panels[p].expected /\ wallet.ours THEN Go(p, "send") ELSE Stop(p, "error")
  /\ UNCHANGED <<wallet, txs, slot, page, history, disturbances>>

Confirm(p) ==
  /\ panels[p].pc = "send" /\ Len(txs) < MaxSends
  /\ txs' = Append(txs, [from |-> panels[p].expected, stage |-> "UNKNOWN",
                          indexed |-> FALSE, behind |-> p # mounted])
  /\ Become(p, [panels[p] EXCEPT !.hash = Len(txs) + 1, !.pc = "store"])
  /\ UNCHANGED <<wallet, slot, page, history, disturbances>>

Refuse(p) ==
  /\ panels[p].pc = "send" /\ Stop(p, "error")
  /\ UNCHANGED <<wallet, txs, slot, page, history, disturbances>>

\* The hash arrives: it is stored, over any other one, and the panel waits for
\* the transaction.
Store(p) ==
  /\ panels[p].pc = "store"
  /\ slot' = [tx |-> panels[p].hash, address |-> panels[p].owner]
  /\ history' = [history EXCEPT !.lost = @ \/ slot.tx \notin {0, panels[p].hash}]
  /\ Become(p, Monitoring(panels[p], panels[p].hash, panels[p].owner))
  /\ UNCHANGED <<wallet, txs, page, disturbances>>

----------------------------------------------------------------------------
(* waitForGenLayerFinalization, then onFinalized                             *)

stage(p) == txs[panels[p].hash].stage

\* The storage forgets a transaction, whichever it holds.
RemoveItem(p) ==
  /\ slot' = Empty
  /\ history' = [history EXCEPT !.lost = @ \/ slot.tx \notin {0, panels[p].hash}]

KeepItem == UNCHANGED <<slot, history>>

TerminalFailure(p) ==
  /\ Become(p, [panels[p] EXCEPT !.status = "error", !.again = FALSE, !.terminal = TRUE, !.pc = "none"])
  /\ RemoveItem(p)

\* Any other error before finality: the hash stays, to be checked again.
MonitorFails(p) ==
  /\ Become(p, [panels[p] EXCEPT !.status = "error", !.again = FALSE, !.pc = "none"])
  /\ KeepItem

\* A status answer that decides something; any other leaves the loop where it is.
\* Studio does not find the transaction: the receipt is asked for, once.
PollStatus(p) ==
  /\ panels[p].pc = "status"
  /\ \/ /\ stage(p) \in {"UNKNOWN", "REVERTED"} /\ ~panels[p].checked
        /\ Become(p, [panels[p] EXCEPT !.checked = TRUE, !.pc = "receipt"])
        /\ KeepItem
     \/ stage(p) \in {"SUCCEEDED", "FAILED"} /\ Go(p, "result") /\ KeepItem
     \/ stage(p) = "REJECTED" /\ TerminalFailure(p)
  /\ UNCHANGED <<wallet, txs, page, disturbances>>

ReadReceipt(p) ==
  /\ panels[p].pc = "receipt"
  /\ IF stage(p) = "REVERTED" THEN TerminalFailure(p) ELSE Go(p, "status") /\ KeepItem
  /\ UNCHANGED <<wallet, txs, page, disturbances>>

\* (Mutant: an action that failed on the chain is taken for a request that failed.)
GetExecutionResult(p) ==
  /\ panels[p].pc = "result"
  /\ \/ stage(p) = "FAILED" /\ MonitorFails(p)
     \/ /\ stage(p) = "SUCCEEDED"
        /\ Become(p, [panels[p] EXCEPT !.status = "converging", !.pc = "index"])
        /\ KeepItem
  /\ UNCHANGED <<wallet, txs, page, disturbances>>

GetFinalizedExecutionResult(p) ==
  /\ panels[p].pc = "result"
  /\ \/ stage(p) = "FAILED" /\ TerminalFailure(p)
     \/ /\ stage(p) = "SUCCEEDED"
        /\ Become(p, [panels[p] EXCEPT !.status = "converging", !.pc = "index"])
        /\ KeepItem
  /\ UNCHANGED <<wallet, txs, page, disturbances>>

\* The attempts of the loop are over; a revert that came after the receipt was
\* asked for is not seen.
AttemptsOver(p) ==
  /\ panels[p].pc = "status"
  /\ ~Settled(panels[p].hash) \/ (stage(p) = "REVERTED" /\ panels[p].checked)
  /\ MonitorFails(p)
  /\ UNCHANGED <<wallet, txs, page, disturbances>>

\* waitForIndexed looks for a record of the buyer that was not known before; when
\* it finds one, onFinalized has the page load the pact again.
WaitForIndexed(p) ==
  /\ panels[p].pc = "index"
  /\ IF Listed(panels[p].owner) \subseteq page.known
     THEN /\ Become(p, [panels[p] EXCEPT !.status = "finalized", !.again = TRUE, !.pc = "none"])
          /\ KeepItem /\ UNCHANGED page
     ELSE /\ Become(p, [panels[p] EXCEPT !.status = "finalized", !.again = FALSE, !.pc = "none"])
          /\ RemoveItem(p) /\ page' = [page EXCEPT !.stale = TRUE]
  /\ UNCHANGED <<wallet, txs, disturbances>>

\* A request of a task fails. Before the transaction is sent the task ends; a wallet
\* that sent it and answers with an error loses the hash, and storage that fails leaves
\* it to the page alone; while the panel waits, a 429 is another attempt and any other
\* error ends the wait.
RequestFails(p) ==
  /\ Disturb
  /\ \/ /\ panels[p].pc \in {"switch", "accounts", "chain", "known", "fees", "check"}
        /\ Stop(p, IF panels[p].flow = "switch" THEN "wrongNetwork" ELSE "error")
        /\ KeepItem
     \/ /\ panels[p].pc = "store"
        /\ \/ Become(p, [panels[p] EXCEPT !.hash = 0, !.status = "error", !.pc = "none"])
           \/ Become(p, Monitoring(panels[p], panels[p].hash, panels[p].owner))
        /\ history' = [history EXCEPT !.lost = TRUE]
        /\ UNCHANGED slot
     \/ /\ panels[p].pc \in {"status", "receipt", "result"}
        /\ MonitorFails(p) \/ (panels[p].pc # "status" /\ Go(p, "status") /\ KeepItem)
  /\ UNCHANGED <<wallet, txs, page>>

TaskStep(p) ==
  \/ SwitchToFaultPact(p) \/ ConnectWallet(p) \/ WalletChainId(p) \/ OnWalletConnected(p)
  \/ GetStudioFeePreset(p) \/ CheckSender(p) \/ Confirm(p) \/ Refuse(p) \/ Store(p)
  \/ PollStatus(p) \/ ReadReceipt(p) \/ GetFinalizedExecutionResult(p)
  \/ AttemptsOver(p) \/ WaitForIndexed(p)

----------------------------------------------------------------------------
(* Mounting                                                                   *)

\* The panel on the page goes, with a review or a signature that may run on.
Leaves ==
  history' = [history EXCEPT !.interrupted =
    @ \/ Mounted.pc \notin {"none", "loading", "status", "receipt", "result", "index"}]

Left == IF Mounted.pc = "none" THEN Front(panels) ELSE Append(Front(panels), Hidden(Mounted))

\* The next panel reads the storage: it knows of the transaction there, and not of
\* one whose hash is still to come.
Overlook ==
  txs' = [t \in DOMAIN txs |->
    [txs[t] EXCEPT !.behind = /\ @ \/ (Mounted.pc = "store" /\ t = Mounted.hash)
                              /\ t # slot.tx]]

\* The key of the panel is made of the inputs: an edit mounts another panel.
Edit ==
  /\ Mounted.pc # "loading" /\ Disturb
  /\ panels' = Append(Left, Fresh) /\ Leaves /\ Overlook
  /\ UNCHANGED <<wallet, slot, page>>

\* The page loads the pact again, and shows nothing else meanwhile.
Refresh ==
  /\ page.stale /\ page' = [page EXCEPT !.stale = FALSE]
  /\ panels' = IF Mounted.pc = "loading" THEN panels ELSE Append(Left, Loading)
  /\ Leaves /\ Overlook
  /\ UNCHANGED <<wallet, slot, disturbances>>

\* The pact is there and a panel is mounted. (If the inputs are set to the pact's
\* minimum only then, and the key with them, an Edit follows. A page that fails to
\* load stays without a panel until it is reloaded.)
Mount ==
  /\ Mounted.pc = "loading"
  /\ panels' = Append(Front(panels), Fresh) /\ Overlook
  /\ UNCHANGED <<wallet, slot, page, history, disturbances>>

----------------------------------------------------------------------------
(* The user, the wallet and the network                                      *)

\* The mounted panel follows an accountsChanged or chainChanged event, if one comes.
Notify(panel, noticed) == panels' = IF noticed THEN [panels EXCEPT ![mounted] = panel] ELSE panels
Reviewed == Mounted.status \in {"ready", "wrongNetwork"}

SwitchWallet ==
  /\ Disturb
  /\ \E noticed \in BOOLEAN :
       \/ \E a \in Accounts \ {wallet.account} :
            /\ wallet' = [wallet EXCEPT !.account = a]
            /\ Notify([Mounted EXCEPT !.address = a, !.status = IF Reviewed THEN "idle" ELSE @], noticed)
            /\ history' = [history EXCEPT !.switched = TRUE]
       \/ /\ wallet' = [wallet EXCEPT !.ours = ~@]
          /\ Notify([Mounted EXCEPT !.status = IF wallet.ours /\ Reviewed THEN "wrongNetwork" ELSE @],
                    noticed)
          /\ UNCHANGED history
  /\ UNCHANGED <<txs, slot, page>>

Reload ==
  /\ Disturb
  /\ panels' = <<Loading>>
  /\ page' = [known |-> {}, stale |-> FALSE]
  /\ history' = [history EXCEPT !.reloaded = TRUE,
                                !.lost = @ \/ \E p \in DOMAIN panels : panels[p].pc = "store"]
  /\ UNCHANGED <<wallet, txs, slot>>

\* GenLayer decides a transaction; the worker indexes its record, which it reads
\* from the latest state, final or not.
Decide(t) ==
  /\ t \in DOMAIN txs
  /\ \E next \in (CASE txs[t].stage = "UNKNOWN" -> {"PENDING", "REVERTED"}
                    [] txs[t].stage = "PENDING" -> {"REJECTED", "SUCCEEDED", "FAILED"}
                    [] OTHER -> {}) :
       txs' = [txs EXCEPT ![t].stage = next]
  /\ UNCHANGED <<wallet, slot, panels, page, history, disturbances>>

Index(t) ==
  /\ t \in DOMAIN txs /\ txs[t].stage \in {"PENDING", "SUCCEEDED"} /\ ~txs[t].indexed
  /\ txs' = [txs EXCEPT ![t].indexed = TRUE]
  /\ UNCHANGED <<wallet, slot, panels, page, history, disturbances>>

ReviewNext ==
  \/ Click \/ SwitchWallet \/ Edit \/ Refresh \/ Mount \/ Reload
  \/ \E p \in DOMAIN panels : TaskStep(p) \/ RequestFails(p)
  \/ \E t \in 1..MaxSends : Decide(t) \/ Index(t)

\* The tasks and the page run on, transactions are decided and indexed, and a user who is told
\* to keep the hash checks it again.
ReviewSpec ==
  /\ ReviewInit /\ [][ReviewNext]_reviewVars
  /\ WF_reviewVars(\E p \in DOMAIN panels : TaskStep(p)) /\ WF_reviewVars(CheckAgain)
  /\ WF_reviewVars(Refresh) /\ WF_reviewVars(Mount)
  /\ \A t \in 1..MaxSends : WF_reviewVars(Decide(t)) /\ WF_reviewVars(Index(t))

----------------------------------------------------------------------------
(* What the panel promises                                                   *)

\* No hash was lost: between the wallet, the page and its storage, or by the task of
\* an older panel that removed it or stored its own over it.
EveryWriteRemembered == ~history.lost

\* Then a purchase is offered or signed only when every earlier one is decided,
\* however often the inputs were edited and the page reloaded and whatever failed;
\* except one whose hash came while the mounted panel, which did not send it, was
\* there already: the panel learns of a hash at its own mounting only.
OfferedOnlyWhenSettled ==
  EveryWriteRemembered /\ (Mounted.status = "ready" \/ Mounted.pc = "send") =>
    \A t \in DOMAIN txs : Settled(t) \/ txs[t].behind

\* Then "Finalized and reflected in the indexed product state" is true of the
\* transaction that the panel shows, unless a reload emptied previousCoverageIds, the
\* account changed, or a review or signature ran on after its panel was replaced and
\* shared previousCoverageIds with the next.
ReflectedIsIndexed ==
  EveryWriteRemembered /\ ~history.reloaded /\ ~history.switched /\ ~history.interrupted =>
    (Mounted.status = "finalized" /\ ~Mounted.again => txs[Mounted.hash].indexed)

\* A stored transaction is followed to its end and forgotten then, whatever failed
\* and however often the page was reloaded, unless the account changed or a review
\* or signature was interrupted.
StoredWriteEnds ==
  []~history.switched /\ []~history.interrupted => (slot # Empty ~> slot = Empty)
============================================================================
