# FaultPact in TLA+

Specifications, model-checking configurations and proofs kept beside the
FaultPact repository. FaultPact sells coverage against outages: a provider
deposits capital, allocates it to *pacts* (SLA terms for one of its services) and
sells *coverages* out of it; an outage is reported as an *incident*, decided by
language models on the reports of authorized reporters, possibly challenged once,
and buyers file *claims* that are settled from the capital by arithmetic alone.
The money and the decisions are in one contract, `contracts/FaultPact.py`. Around
it, a worker probes endpoints and files reports, an indexer copies the chain into
a database, an API serves the copy, and a web application shows it and has the
user's wallet sign calls.

Contents: [the system](#the-system), [modules](#modules), [runs](#runs),
[fairness](#fairness), [proofs](#proofs), [abstractions](#abstractions),
[where code and documents differ](#where-code-and-documents-differ),
[plan](#plan), [how to run](#how-to-run).

## The system

### Components, state, operations

| Component | Source | State | Operations that change it |
|---|---|---|---|
| Ledger | `FaultPact.py`: `_credit`, `withdraw_credit` | native balance, credits per account, block time | credit, withdraw |
| Governance | `FaultPact.py` 912-1059 | `ProtocolConfig`, authorized reporters | pause/resume sales, fee, three two-step role hand-overs, cooldown, bonds, windows, resolution policy, authorize/revoke |
| Registries | 1061-1385 | providers, services, pacts | register, hand over, create/pause/resume/retire service, draft, update, revise, publish, pause/resume/retire pact |
| Underwriting | 1387-1647 | `ProviderVault`, allocation and reserve per pact, coverages | deposit, allocate, deallocate, request/cancel/execute withdrawal, buy, expire, release |
| Incidents | 1649-1766, 2573-2895 | incidents, resolutions, challenges | open, acknowledge, seal, resolve, challenge, resolve the challenge, finalize, time out |
| Evidence and adjudication | 1731-2560 | evidence per incident | submit (four ways), select, fetch, adjudicate |
| Claims | 2897-3121 | claims | file, settle, settle all as inconclusive |
| Reporter | `apps/worker/src/reporter-submit.ts`, `reporter-runtime.ts`, `packages/monitoring/src/reporter.ts`, `packages/contract/src/transactions.ts` | attempt table, the run itself | two writes per run, waiting, read-back, reconciliation |
| RPC scheduler | `packages/contract/src/rpc.ts` | shared state file, lock file, local limits | reserve a slot, send, finish the lease |
| Indexer | `apps/worker/src/indexer.ts` | a row per entity, cursors, health, repair and reconciliation records | scan kind by kind, repair, reconcile, wait for the cooldown |
| Monitor | `apps/worker/src/monitor.ts`, `packages/monitoring/src/index.ts` | samples, incident candidates, heartbeat, aggregates and artifacts | probe or suppress, store, aggregate, update the candidate, prune, tell of the heartbeat |
| Review panel | `apps/web/components/actions.tsx`, `purchase.tsx`, `lib/wallet.ts`, `lib/api.ts` | the panel, a remembered transaction in session storage | review, switch network, sign, monitor, check again, clear |
| Contract client | `packages/contract/src/rpc.ts`, `legacy.ts`, `index.ts`; `apps/web/lib/format.ts` | none | encode and decode values and calls, read and write numbers of forms |
| API, other pages, database, shared, scripts | `apps/api`, `apps/web`, `packages/db`, `packages/shared`, `scripts` | none of their own beyond the database | read, show |

### How they interact

* A write method of the contract is one transaction. A failed `_require` reverts
  it. The components of the contract share its storage and call each other's
  helpers inside one transaction: selling reserves capital, settling debits the
  vault, timing an incident out settles its claims.
* The reporter calls `attach_incident_report` and `submit_evidence`, polls the
  transactions, reads the incident back, and keeps one row per attempt in the
  database. Between any two of its awaits the node, the contract's owner, other
  accounts and the operator act, and the process may die.
* Every process that talks to the node goes through `StudioRpcTransport`. With a
  state path configured the processes of a host share a JSON file under a lock
  file.
* The indexer reads entities through the scheduler and writes rows; API and web
  read those. The contract changes between any two of its reads, and a pause that
  the scheduler announces stops scans and Studio probes alike.
* The monitor probes targets one after the other, stores a sample, and moves one
  candidate per target by rereading what it stored.
* The review panel reads the indexed records before a write, lets the wallet send
  it, remembers its hash, waits for finality at the node and then for the indexed
  record. Wallet, page and node act on their own between any two awaits.

### What is hard, and what correctness is

* *Ledger, underwriting.* Three books (coverage, pact, vault) move together while
  capital is deposited, allocated, promised to a withdrawal, sold against and
  paid out. Correct: the books agree, what is sold is backed, no reserve goes
  while a claim may need it, every token is owed to exactly one party.
* *Registries, governance.* A claim is judged by the terms the pact was
  published with, perhaps long ago; roles change hands in two steps. Correct:
  terms freeze, control passes by consent.
* *Incidents.* Decision, challenge, timeout and governance race; every window was
  fixed at an earlier moment. Correct: the records agree, bonds are paid once,
  windows are honoured, a decision stands, and every incident ends although no
  adjudication ever succeeds.
* *Evidence.* Models answer anything, bodies disappear, others crowd the incident,
  texts are too long for a prompt, reporters are revoked. Correct: a decision rests
  on a quorum of distinct reporters, and a quorum is heard where the prompt has room.
* *Claims.* Several claims on one coverage and several incidents. Correct: decided
  once, paid only if entitled and only from what is reserved.
* *Reporter.* Crashes, lost answers, late answers. Correct: the table tells the
  truth, a pass is proven by the chain, live attempts are not forgotten or
  doubled by later attempts, runs end, evidence arrives.
* *RPC scheduler.* A lock that its owner may leave behind, midnight, crashes
  between sending and reporting. Correct: one request at a time, spaced, delays
  kept, budget kept, and as little as possible lost of each when a lock is left behind.
* *Indexer.* Crashes between projections and cursors, an entity that changes
  between the reads that make its row, a limited choice of rows to read again.
  Correct: nothing is skipped, health is told truly, rows never go back and never
  show an entity before those it refers to, and they catch up.
* *Monitor.* Counts in rows, calls that fail in between, pauses, restarts.
  Correct: nobody is accused for less than three failures, probes keep their
  distance, every target is observed unless another's rate limits suppress it.
* *Review panel.* Reloads, edits that mount another panel at any await, switched
  accounts, failing requests while a purchase is under way. Correct: no second purchase
  is offered while one the panel could know of is undecided, what is shown as reflected
  is, a stored write is followed to its end.
* *Client, metrics.* Edges of encodings and of roundings. Correct: what is sent is
  what was meant, and no rounding costs the provider or accuses it.

`PROJECT.json` lists each hazard with its line and the properties about it.

## Modules

```
Totals    Rates
   |        |
 Ledger ----+-- Governance -- Registry --+-- Underwriting --+-- FaultPact --> Promise
                                         |                  |
                                         +-- Incidents -----+
                                                 |
                                              Evidence

 Reporter    RpcScheduler    Indexer --> Mirror    Monitor    ActionReview

 Rates -- Metrics -- Rounding --+
      |                         +-- MCFunctions
      +-- Client ---------------+
```
(`-->` is a refinement: `Indexer` instantiates `Mirror`, and `FaultPact` `Promise`.)

A component of the contract EXTENDS those whose state it uses, so that a method
that crosses components is one action, as it is one transaction. Each has its own
`Init`, `Next` and `Spec` over the state it needs (`ListingSpec`, `SalesSpec`,
`DisputeSpec`, `HearingSpec`); `FaultPact` puts all of them together.

| Module | Models | Notes |
|---|---|---|
| `Totals` | sums | the wei of `f` are numbered; `Total` is their cardinality. No recursion, so sums can be proved about |
| `Rates` | `_safe_mul_div`, premium, fee, matching, payout | pure operators |
| `Ledger` | time, balance, credits | `Tick` is the next block |
| `Governance` | every setter and the role hand-overs | the three propose/accept pairs are one action with the role as a parameter |
| `Registry` | providers, services, pacts | ids are taken in order like the `next_*_id` counters |
| `Underwriting` | vaults and coverages | `BuyCoverage` includes the quote, the reserve, the fee split and the refund |
| `Incidents` | incident life and challenges | a decision is any finding in `Findings(i)`; an adjudication that fails is a reverted call, no step |
| `Evidence` | admission, selection, support, the length of a prompt, decision | refines `Incidents`: which findings evidence can bring about. An item has a size (what it takes of a prompt when its body is usable), the incident's own texts have theirs (`prose`); an adjudication that does not fit (`FitsPrompt`) fails |
| `FaultPact` | claims, and the whole contract | `FinalizeInconclusiveTimeout` is the incident's timeout together with the settlement of its claims |
| `Promise` | what a coverage and its claims are to a buyer | abstract specification, implemented by `FaultPact`: the limit is held until the deadline and until every claim is decided, leaves only into claims, and each claim is decided once |
| `Reporter` | one worker, its attempt table, and the node, owner and operator around it | one action per await: a save that commits and throws, and the catch's save after it (`SaveThrows`, `SaveFailed`), are two. A run that is refused before its first write changes nothing and is no step |
| `RpcScheduler` | processes, state file, lock file | stat and unlink of a stale lock are two steps, as they are two awaits; a process may die inside the lock before its state is renamed into place or after it (`Leave`); a retry is a new request |
| `Indexer` | the worker's indexer, and the contract it reads | one action per read, transaction and end of a phase. The content of an entity is the number of its changes, a row the contents its reads returned, in order |
| `Mirror` | what a copy of the contract promises a reader | abstract specification, implemented by `Indexer`: late and incomplete is allowed; untrue, backwards or without parents is not |
| `Monitor` | the probe cycle | one action per database call or probe; `truth` is what an observer of the probes notes, and no action reads it but for its stored age. Whether the reference endpoint is Studio's is chosen at the start and stays |
| `ActionReview` | one purchase from the browser | one action per await of the panel's task; an edit, at any await, and the reload of the pact after a purchase mount a new panel while the old one's task runs on (`panels`, of which the last is on the page); user, wallet, node and index are actions of their own |
| `Client` | calldata, decoding, RLP, forms | pure operators; the only module with RECURSIVE operators, used by TLC alone |
| `Metrics` | aggregate of a window of samples and the evidence made of it | pure operators |
| `Rounding` | the purchase form's estimate, and the walk over the inputs of `Rates` and `Metrics` | its property says for whom each of them rounds |
| `MC*` | constants and bounds for TLC | each says from which state its instance starts; `MCFunctions` gives `Rounding` its grid and `Client` its values |
| `IncidentProofs` | proofs about `Registry`, `Governance` and `Incidents` | extended by the next |
| `UnderwritingProofs` | proofs about `Underwriting`, after the lemmas about `Total` | extended by the next |
| `ClaimProofs` | proofs about `FaultPact`, the whole contract | with its refinement of `Promise` |
| `EvidenceProofs`, `IndexerProofs`, `ReporterProofs`, `SchedulerProofs` | proofs about `Evidence`, `Indexer`, `Reporter`, `RpcScheduler` | the indexer's include its refinement of `Mirror` |
| `FollowingProofs` | proofs about `Monitor`, `ActionReview` and `Rounding` | the two components that follow what others do, targets and transactions, and the arithmetic beneath them |

Inside a module, an operator under a comment `(Mutant: ...)` is a plausible bug in
the definition that follows it. Every property of every passing run is violated
when one such operator takes the place of the definition, so no property holds by
the shape of the model.

Names follow the code: `OpenIncident` is `open_incident`, `cov[c].open` is
`open_claims`. `PROJECT.json` maps each definition to its lines.

## Runs

`CHECK_DEADLOCK FALSE` stands in every configuration: the clock, ids, transactions,
faults and grids are bounded, so a behaviour may use them up and stop; nothing in
the code must go on for ever. That something which must happen does happen is left
to the liveness properties.

| Run | Asks | Result and bounds |
|---|---|---|
| `sales_money` | frozen terms, control by consent, backing and conservation without claims | from an empty contract: one provider and service, two pacts (one may revise the other) that compete for its capital with two coverages. `TradeWhileOnSale` keeps time and money still until both pacts are on sale with the first terms, so listing in every order and trading in every order both occur, not their product; pauses, retirements and settings also change while money moves. Two coverages are the least at which a pact's counter differs from a coverage's |
| `functions_grid` | do roundings, estimates, measurements and encodings come out as meant | every point of a grid of amounts, durations, rates and deductibles around the denominators, so that every rounding occurs; windows of up to 21 samples of four kinds (from 20 on the 95 % rank is no longer the last); numbers to 4000, texts and maps around every length at which an encoding changes its form; every read of the schema by length; calls of the wallet up to 300 bytes of text |
| `claims_market` | books, payouts, calls that nobody may be refused, windows, decisions, conservation of the whole contract | two coverages, incidents and claims. `WithinBound` limits how much is unlike the start *at the same time* (`MaxLoad` 3), not how long behaviours are; a window or bond that governance made unlike the others leaves room for one incident, which is enough for a value read from the configuration instead of from the incident to show. Credits are not withdrawn here (`EOAs` empty); they are in `sales_money` |
| `claims_progress` | every incident ends, every reserve is freed, the promise to a buyer is kept | see [Fairness](#fairness); two coverages and two claims over one incident, the registries at rest |
| `hearing` | quorum, evidence, refinement of the incident component | reports that disagree, an answer that mixes them, one that neither says; quorum 1 and 2; at most 3 items (`FewItems`; 2 with a challenge), caps small enough to be hit; governance changes the policy while incidents are heard. A prompt has room for 5 and 1 more for the rest, a report takes 1, an item without one 1 or 4: beside a long one there is room for one report and not for two. One item besides the reports (`OneOther`) is enough for each rule of selection and of length; who opened and who challenged tells hearings nothing (`Plain`) |
| `reporter_faults` | truth of the table, proof of a pass, runs end, evidence arrives | any two troubles (crash, send or save that throws before or after its effect, rejected write, revocation, a record filed elsewhere) at any await, both strategies, four transactions: two runs that both write, in the same second or in two. `EvidenceArrives` is for behaviours with one trouble |
| `reporter_duplicate` | "a retry never duplicates evidence" | violated, see below |
| `scheduler_shared` | serialization, spacing, delays, budget | two processes over midnight, one may die anywhere. The lock's patience (2 units) is longer than the lease's grace (1) and the interval of requests (1), shorter than a lease (3) and the lock's stale age (3); in the code patience and grace are 5 s each, to which the time of the calls that find the lock adds, the interval 3 s, a lease the timeout of the request and 5 s, the stale age 30 s. So the run takes the order that is worst for the properties |
| `indexer_faults` | nothing skipped, health, whole rows, copy, catching up | from a new database, or one of the older version whose cursors passed entities of which there is no row; one provider, one service, up to three incidents that change once, a cap of two: a parent chain of three kinds, rows of one and of three reads, more entities than the cap, more candidates than `ReconcileLimit` 3; a failing call and a crash anywhere |
| `purchase_review` | no second purchase, reflection, end of a stored write | two accounts, two sent transactions, any two of: reload, edit, change of account or network (noticed or not), failing request, a wallet that starts on another network. A reload stands for a page that failed to load, a second edit for inputs that are reset when the pact comes back (`Mount`) |
| `monitor_faults` | accusation, spacing, observation | two targets, one of them Studio's with a longer interval, the reference Studio's or not: with it both targets need Studio, and each can suppress the other; retention 3, just above that interval; two of: failing call, crash, pause from elsewhere. Probes answer or fail at will |
| `candidate_recovery` | "two recovery signals" | violated, see below |

Two processes are interchangeable in every property of the scheduler, hence the
symmetry set `AnyProcess`; no run with a liveness property uses symmetry.

Types are not a question of a run of their own: each is implied by a proved
invariant (`ListingInv`, `SalesInv`, `MoneyInv`, `HearingInv`, `IndexerInv`,
`ReporterInv`, `SchedulerInv`, `MonitorInv`, `ReviewInv`).

## Fairness

* `claims_progress` (`Fairness` in `FaultPact`): blocks keep coming (`TimeStep`),
  and someone makes the calls that are open to anyone: finalize, time out, settle
  and release. Those who wait for their money have the reason to make them. No
  fairness is given to resolving, challenging or anything a provider, owner or
  reporter does, so the result holds if every adjudication fails for ever.
* `reporter_faults` (`RunFairness`): a process that was started goes on. Nothing
  is asked of the node, so `EveryRunEnds` rests on the bounded wait.
  `EvidenceArrives` states its further assumptions in the formula
  (`RetryFairness`, window open, reporter authorized, one trouble at most): the
  operator starts the command again and the node decides what it was sent.
* `indexer_faults` (`IndexerFairSpec`): the worker's loop goes on, a pause ends and
  the interval of reconciliation passes. Nothing is asked of the contract;
  `CatchesUp` speaks of behaviours in which it comes to rest, as it does within
  the bounds, and in which every counter is within the cap, beyond which the code
  reports an error for ever. Faults are bounded: an entity whose read fails for
  ever holds up those behind it.
* `monitor_faults` (`MonitorSpec`): the cycle goes on, the cooldown ends again and
  again, and sleep is over at last. Studio may answer every probe with another pause.
  Pauses that do not come from a probe are bounded, so where one target alone needs
  Studio it is probed once a pause has ended, before the next. Where two do, the one
  with the smaller id may be answered by a rate limit in each cycle, and the cooldown it
  begins is over only when the other's turn has passed; the fairness the code gives does
  not exclude that, so `EveryTargetObserved` says so.
* `purchase_review` (`ReviewSpec`): tasks run on, the page loads its pact again when
  it was told to (`Refresh`) and mounts a panel then (`Mount`), GenLayer decides and the
  worker indexes what was sent, and a user who is told to keep the hash presses "check
  again"; nothing else of the user is assumed.
* No other run needs fairness.

## Proofs

Proved by TLAPS for every number of accounts, providers, services, pacts, coverages,
incidents, claims, reporters, entities, targets, processes and faults, every amount and
every setting that the assumptions allow. The assumptions are the named `ASSUME`s of
the modules: finite sets of ids, natural inputs, a positive denominator, findings that
include what a timeout decides, and for the scheduler that the patience for its lock is
shorter than a lease and than the age of a stale lock (`SchedulerAssumption`). TLC evaluates them in every run. Liveness conjuncts of a
specification are not used.

### The contract

| Theorem | Says | Argument |
|---|---|---|
| `ListingTypes` | `ListingSpec => []ListingTypeOK` | `ListingInv` is `ListingTypeOK /\ FrozenPublished /\ Registered`; the last two are not needed for types but for the theorems built on it |
| `ListingKeepsTerms` | `ListingSpec => PublishedTermsFrozen` | freezing is not inductive: an update is refused by *status*, so `FrozenPublished` (a frozen pact is published) must hold with it |
| `ListingByConsent`, `SalesByConsent`, `ControlNeedsConsent` | `ControlByConsent`, of registries, sales and the whole contract | an action property that each method's guard grants; the second and third show that no method of another component writes a role or an owner |
| `SalesTypes` | `SalesSpec => []SalesTypeOK` | types are not inductive: a withdrawal leaves a natural balance only because the balance covers all credits. The invariant is `SalesInv == Typed /\ SalesConservation`; `Typed` adds that a sold coverage has a pact whose provider has an owner, and that unsold ids hold nothing |
| `SalesConserve` | `SalesSpec => []SalesConservation` | one lemma per method: it changes the balance by as much as what is owed (`CapitalBalance`, `CoverageBalance`), with the laws of `Total` (a change at one holder changes the sum by the same amount) |
| `SalesBacked` | `SalesSpec => []FullyBacked` | inductive once the amounts are typed: capital leaves a vault or a pact only from what is free or unreserved (`CapitalBacked`), a sale reserves only what is allocated and free (`CoverageKeepsBacked`) |
| `SalesBooks` | `SalesSpec => []BooksAgree` | the sums over the coverages of a pact and over the pacts of a provider follow each method (`Books`), given that coverages keep their pact and pacts their provider |
| `WindowsRun`, `DecisionsAreFinal` | `Spec => []WindowsHonoured`, `Spec => DecisionsStand` | neither is inductive. `DisputeInv` adds what the stage of an incident says (`StageTells`): before a decision there is neither resolution nor challenge; a sealed incident has passed its evidence deadline; a preliminary one has the challenge deadline that its window gives and no challenge; a challenged one times out only after its own evidence deadline. One lemma per operation (`...Handles`) shows it for the incident at hand; `StepSplits` that every other step leaves the disputes alone |
| `OnlyEntitledArePaid` | `Spec => []PaidOnlyIfEntitled` | entitlement is checked when a claim is paid and must last. `ClaimInv` says what it rests on: the final facts (`DisputeInv`: a final incident is never touched), the terms (`SoldFrozen`: what was sold is frozen, `FrozenPublished`, `RegistryKeepsTerms`) and the term of the coverage (`CoversKept`). Cover precedes the report because a claim's coverage overlaps an interval that was over when it was reported |
| `BooksNeverDrift`, `CapitalStaysBacked`, `OpenClaimsAreCounted`, `EveryTokenIsOwed` | `Spec => []P` for `BooksAgree`, `FullyBacked`, `OpenClaimsMatch`, `Conservation` | all from `MoneyInv`, whose parts hold only together. A payout is subtracted from three books at once, and none goes below zero only because the books agree (`Books`) and the claim's coverage still holds its reserve. It does because a release asks for no open claim, and the counter it asks is right (`OpenClaimsMatch`). A timeout decides any number of claims at once, and each coverage's counter falls by as many (`closed` in the lemma of the timeout). A bond is paid back once, to a known account, and only where the incident or the challenge ends (`Bonded`), so `Conservation` survives every end |
| `NobodyIsRefused` | `Spec => []NobodyRefused`: no call that is open to anyone fails for the books once time and decisions allow it | from `MoneyInv`. What a claim is due is at most what its coverage has reserved (`DueWithin`) and has left of its limit (`DueWithinLimit`); the coverage's reserve is part of its pact's and that of the vault's (`CountedWithin`: one term of a sum is at most the sum), so every `_require` of `_debit_provider_capital` and `_release_reserve` passes and the vault stays sound after it (`ClaimPayable`, `ReserveFreeable`). The claims a timeout ends are among those the coverage counts. A credit is at most all credits, and those the balance holds (`CreditIsHeld`) |
| `PromiseInvariant`, `PromiseIsKept` | `Spec => []PromiseInv`, `Spec => ImplementsPromise` | refinement. The mapping shows of a coverage its stage, limit, reserve, what it paid and its deadline, and of a claim its stage, coverage and payout. `PromiseInv` adds to `MoneyInv` that a released coverage holds nothing and counts no claim (`Closed`). One lemma per method that a buyer sees (`BuySells`, `ReleaseFrees`, `FileFiles`, `PaidPays`, `IneligibleRefuses`, `InconclusiveRefuses`) shows which step of `Promise` it is; every other method changes nothing that is shown (`UnseenAllowed`) |
| `PromiseAddsUp` | `Spec => []Buyer!Kept` | a property of the abstract specification, so it is proved there, step by step (`SellsKeeps`, `FilesKeeps`, `PaysKeeps`, `RefusesKeeps`, `FreesKeeps`), and holds of the contract because every step of it is one of those. What a coverage paid is a sum over claims: a payment changes it at one claim, and no other step changes a claim's amount or coverage |

### Evidence

| Theorem | Says | Argument |
|---|---|---|
| `HearingsAreDisputes` | `HearingSpec => HearingIsDispute` | every step with evidence is a step of `Incidents` or leaves its state alone: what adjudication returns is in `Findings(i)`, whatever the models answer. It carries the theorems about disputes over to hearings |
| `QuorumStands` | `HearingSpec => []QuorumBehindDecision` | `HearingInv == HearingTyped /\ QuorumBehindDecision`: a decision is written with its witnesses there, evidence only grows, so they stay (`MoreWitnesses`), and an incident keeps the quorum it was opened with whatever the policy becomes |
| `EvidenceIsFinal` | `HearingSpec => EvidenceStands` | each submission appends one item, under the stage and the deadline that its type asks for |
| `ReportsAreHeard` | `HearingSpec => []QuorumIsHeard` | the selection keeps every report and limits only the other items, so every report is asked for. Of those that are fetched, whichever they are, each fact a quorum states is supported by all of its reports (`SentCount`), and with a quorum of at least one (`QuorumSet`) there is a report to reconcile with. That the prompt fits is a hypothesis inside the property, for what others wrote can prevent it |
| `HearingWindowsRun`, `HearingDecisionsStand` | `HearingSpec => []WindowsHonoured`, `HearingSpec => DecisionsStand` | what `DisputeInv` gives the contract it gives a hearing, whose steps are steps of `Incidents`; `HearingSplits` says which of them handle an incident and leave the others alone |

### The worker and the scheduler

| Theorem | Says | Argument |
|---|---|---|
| `NothingIsSkipped`, `HealthIsComplete`, `TerminalIsComplete` | the three invariants of `indexer_faults`, of `IndexerSpec` | all from `IndexerInvariant`. `NothingSkipped` says nothing until the repair is recorded, so it is not inductive; `IndexerInv` adds `StateOK` (types; a row's contents are in the order of the chain's history and none is newer than the chain; parents of rows have rows; what was read so far belongs to the row being read) and `ScanOK` (a scan is forced or the repair is recorded; the ids before the one at hand, and in a finished kind all ids announced, have rows). That rows never vanish and contents never shrink (`RowsGrow`, `ChainGrows`) carries both over the steps of others |
| `CopyIsTrue` | `IndexerSpec => ImplementsMirror` | every step is a `Mirror` step or leaves what is shown alone. A write shows a newer content or the same because reads are in order (`StateOK`), and its parents are shown because a read is refused without them |
| `ReporterTyped`, `TableIsTrue`, `PassesAreProven`, `AttemptsAreSingle`, `AttemptsStay` | `ReporterTypeOK`, `RowsAreTrue`, `PassIsProven`, `OneLiveAttempt`, `LiveAttemptsKept`, of `ReporterSpec` | all from `ReporterInvariant`. What a run remembers between two awaits must stay true while the chain moves: rows tell the truth about the transaction they name, which carries their artifact (`RowsAreTheirs`); accepted transactions are stored (`AcceptedIsStored`); of the rows of one write only the last can be live (`LastIsLive`), and a step of the run names that one, or finds none (`StepsSound`); steps of one run concern different methods (`StepsApart`); a verified method has its authorized record (`VerifiedIsProven`). A save replaces the last row of its method, so no live one is lost but where that row is of the write at hand: that is the catch's save, which the property excepts. Statuses of the chain only advance and records stay (`ChainGrows`) |
| `SchedulerTyped`, `Serialization`, `BudgetKept`, `RequestsApart`, `DelaysKept` | `SchedulerTypeOK`, `SerializedUnlessRaced`, `BudgetCarried`, `Spaced`, `DelaysHonoured`, of `SchedulerSpec` | `SchedulerInv` says, until two processes race for a stale lock: at most one process is inside the lock, works on what the file still says, and a held lock without one was left behind (`LockSafe`); a process that sleeps for its slot or sends has the lease, or is past its timeout and grace but for the slack (`LeaseSafe`); the next slot, and one slept for, is an interval after the last request (`SlotsApart`); a delay that was announced is in the file or with a process whose lease still runs (`DelayKnown`); the file counts the day's requests but perhaps one (`CountIsKept`). A process that read the clock before it waited for a lock left behind works with a time that is old by at most the lock's patience, and each bound has that slack then: the lease of a request may end that much before its timeout and grace do, so two requests meet only in what patience exceeds grace. The first part of `DelaysHonoured` needs none of this (`HeldBack`): a process starts no request while it knows of a delay, and learns of none between that and its slot |
| `MonitorTypes`, `AccusationsRest`, `ProbesKeepDistance` | types of `Monitor`; `AccusedOnlyAfterFailures`; `ProbesSpaced` | the properties compare the stored state with what an observer saw, so the invariant relates them: a candidate's count, with the probe under way, is at most the failures observed (`CountsAreTrue`); a stored sample is as old as the last probe unless that probe's sample was lost (`SamplesAreTrue`) |

### The review panel

| Theorem | Says | Argument |
|---|---|---|
| `OneAtATime`, `ReflectedIsTrue` | `ReviewSpec => []P` for `OfferedOnlyWhenSettled`, `ReflectedIsIndexed` | `ReviewInv` says of every panel, on the page or not, that its status, the place of its task and its transaction agree, and that the tasks of replaced panels only wait unless a review or a signature was interrupted (`PanelsSound`). While no hash was lost, an undecided transaction that is not `behind` is the mounted panel's, and stored once the panel has its hash, or is there for the next panel while the page loads (`UndecidedIsHeld`); so a panel that could know of it holds its hash and offers nothing. If in addition nothing was reloaded, switched or interrupted, each transaction is indexed, failed, stored or about to be, and the records other than the panel's own are in `previousCoverageIds` (`Followed`), so a record that appears is the purchase's |

### The arithmetic

| Theorem | Says | Argument |
|---|---|---|
| `RoundingFavoursProvider` | `RoundingSpec => []RoundedForTheProvider`, for every amount, duration, rate, cut, unit and window of samples | the steps only give the inputs their types (`RoundingTypeHolds`); the rest is about one state. Quotients are bounded by products (`MulDivUpIs`, `MulDivIs`), and products grow with their factors (`TimesGrows`), so a rounded-up amount is the least one (`LeastMultiple`) and a payout, rounded down once for the fraction and with its deductible rounded up, misses what is due by less than two. `GridIsEntitled` says that these payouts are not 0 for another reason. Of the measurements: a rate below a threshold in parts per million is so exactly (`RateIs`); the value of rank `ceil(95 n / 100)` is above a limit just when more than one in twenty samples are (`RankIs`, over the cardinalities of the samples below a value); the newest blocks lag by no more than some sample does (`LagIs`) |

The assumptions of `Rounding` say what the code fixes: the minimum of a premium is at
most the 1 that the form puts in its place (in the contract it is 1), a sample with a
reference has a block of its own, and no sample is beyond the bounds of
`validateProbeEvidence`, which throws there.

### Checked but not proved

* Liveness under fairness and `ENABLED` are out of the prover's reach:
  `EveryIncidentEnds`, `EveryReserveFreed`, `EveryRunEnds`, `EvidenceArrives`,
  `CatchesUp`, `EveryTargetObserved`, `StoredWriteEnds`.
* `SentAsMeant` is checked over a set of values and calls. That decoding undoes
  encoding is by induction over a number's groups of seven bits and over the nesting
  of a value; no installed prover does induction over data, and `Client` writes the
  two with RECURSIVE operators, so no module with a theorem reaches it.
* `NoDuplicateEvidence` and `TwoRecoveriesEnd` are violated.

Every other property of the runs is stated by a theorem above.

## Abstractions

* *Time* is a natural number that grows by one; deadlines must lie within
  `MaxTime` (`WithinHorizon`, a bound of the model). A second in which nothing
  happens is a `Tick`.
* *Names, URIs, hashes, texts* carry no behaviour. A report body is what it says.
* *Integers* are unbounded in Python and the sums of all runs are far below the
  storage width, so overflow is not modelled.
* *The language models* answer anything the schema admits (`Answers`); leader and
  validators agree or the call reverts. Which bodies can be fetched is chosen
  anew at each adjudication.
* *Support is by field*: the quorum behind one fact may be other reporters than
  the quorum behind another. So it is in `_validate_fact_support`, and the
  findings of `hearing` contain such a mixture.
* `Incidents.Findings` stands for all of adjudication in the `claims`
  runs. `HearingIsDispute` checks that every step with evidence is a step
  it allows.
* *Length of a prompt*: an item has one size, what it takes of the prompt when its body
  is fetched and usable; otherwise it takes `StatusSize`. The summary of an incident and
  the reason of its challenge take from `ProseSizes`, the fixed rest of the prompt
  nothing: it is the same in each and can be taken off `PromptRest`. The limits on the
  bytes of an URI, a summary and a body (`ERR_..._LEN`) only make submissions revert.
* *Terms*: the upper bounds of the thresholds in a pact's terms (`FaultPact.py:786-789`)
  are left out of `TermsAllowed`; without them there are more terms, not fewer.
* *Reporter*: the dry run, the check of artifact bytes before the first write, two
  command-line runs of the same reporter at once, and a transaction whose
  acceptance an appeal undoes are not modelled. Only this account's records and
  transactions are in the state; other accounts' cannot match.
* *Scheduler*: file operations under the lock take no time, though the process may die
  between any two of them; the time of the calls that find the lock there is part of
  `LockPatience`. The identity of a lease is its process; in-process deduplication and
  queueing are left out. Three variables note what happened, and no action reads them:
  `orphaned` that a process died and left its lock behind, `raced` that a process removed
  as stale a lock that another had just taken, `forgotten` that a process died between
  the answer that told it a delay and the file.
* *Indexer*: a row is written in one transaction, as in the code; its fields are
  abstracted to the moments at which they were read. Ids that the contract took
  are never given back, and state that an appeal undoes does not occur. One worker
  runs at a time.
* *Monitor*: what a probe does on the wire is its result, and the thresholds of
  pacts are not part of the cycle. A sample is its age, since aggregates and
  artifacts feed nothing back (`Metrics` has their arithmetic). Pruning takes only
  samples that are older than every interval, since `MonitorAssumption` has `Retention`
  above them; the environment's schema does not ask for it
  (`packages/shared/src/index.ts:55`, 61), and with a shorter retention a pruned target
  would be probed before its interval is over. The callback of
  the shared scheduler is always there. Time passes while a probe's answer is
  awaited and while the loop sleeps, in ticks that are large against a database
  call.
* *Review panel*: the purchase page's use of it. `history`, and `behind` of a
  transaction, are for the properties; no guard reads them.
* *Client*: a text is its code points below 2048 (one and two bytes in UTF-8), and
  numbers are bounded as TLC's are; where the code throws, the operator has no
  value, and TLC would stop.

### Not modelled

* The API's views and the pages that show records: they keep no state, and the
  property one would state, that they show what the database holds, restates them.
* `main.ts`, the command line, configuration, database schema: start-up, parsing
  and declarations. Their loops and restarts are actions of the worker's modules.
* The contract's `get_*` views; the JSON of the terms; the text of prompts; the votes of
  validators.
* `bridge.ts`, `schema.ts`, the typed getters of `packages/contract`, the dry run
  of the reporter, `artifacts.ts`: validation and hashing without state.
* Appeals that undo an accepted state: nothing in the repository says what such a
  state looks like afterwards.

## Where code and documents differ

Two differences are runs:

* `reporter_duplicate`: a process that dies between broadcasting a write
  (`reporter-submit.ts:402`) and saving its hash (403) leaves nothing the next run
  could find before that transaction is accepted; it files the same evidence
  twice. The comment at 165-166 says a retry never does.
* `candidate_recovery`: `updateCandidate` counts recoveries as one after a success
  and none otherwise (`monitor.ts:122`), while it asks for two (123); a candidate
  that is ACTIVE stays so whatever is probed. `docs/PHASE_1_2_CERTIFICATION.md:113`
  promises "two recovery signals".

Others were met while modelling and are noted here for whoever maintains the code:

* The parent of a revision need not have been published: `create_pact_revision`
  (`FaultPact.py:1335`) takes a RETIRED parent and `retire_pact` (1380-1383)
  retires drafts; `docs/CODEX_PHASE_0_2_REAUDIT.md:508` says "Published parent".
* A record stored while the reporter was revoked matches but does not read back,
  so each later run writes another (`docs/EVIDENCE_PIPELINE.md:150-151`). Hence
  the exception `StoredRevoked` in `OneLiveAttempt` and `LiveAttemptsKept`.
* A save that commits its row and then throws (`reporter-submit.ts:403`) is followed by
  the catch's save (408), which writes FAILED and no hash over that row
  (`reporter-runtime.ts:177`): the table knew of a live transaction and forgets it, and a
  later run may send again. The comment at 399 says that the attempt is persisted
  "before any waiting". `LiveAttemptsKept` excepts that one save.
* One supplemental text of 4096 characters that are not ASCII, escaped, makes every
  prompt that contains it too long (`FaultPact.py:2507`, 2544), and the incident is left
  to its timeout; `docs/CODEX_PHASE_0_2_REAUDIT.md:313-318` records it and calls it
  accepted. `QuorumIsHeard` promises a decision where the prompt has room.
* With `PROBE_REPORT` as evidence type one record satisfies both methods
  (`monitoring/src/reporter.ts:341`; `EVIDENCE_PIPELINE.md:82-85` speaks of two).
* A run passes on reads of the latest non-final state (`rpc.ts:667`,
  `README.md:84`).
* `existing + pending >= limit` (`monitoring/src/reporter.ts:374`) refuses the last
  free place: `pending` already counts the record about to be written.
* A row whose record is found on the chain by a later run stays FINALIZING
  (`monitoring/src/reporter.ts:342-346`; `EVIDENCE_PIPELINE.md:151`).
* The clock is read before the wait for the lock (`rpc.ts:452-457`). As long as
  processes live, the wait is for others' short updates, and `Spaced` is exact. After
  a wait for a lock left behind, spacing and lease are shortened by up to the lock's
  patience, which `Spaced` then allows. The lease of such a request ends as much too
  early. Patience and grace are both 5 s (`rpc.ts:478`, 644-653), and the calls that find
  the lock take time besides, so another process can send while the first request still
  waits for its answer; `docs/INDEXER.md:53` says the scheduler serializes requests.
  `SerializedUnlessRaced` allows it after a process left its lock behind, and only when
  the first request has had its timeout but for what the patience exceeds the grace.
* A process that dies before `finishLease` loses the delay it was told
  (`rpc.ts:391-393`), and `finishLease` gives up in silence while another process's lock
  is left behind (606); `reports/RPC_REMEDIATION.md:33` says that explicit server delays
  are never shortened. `DelaysHonoured` asks for the last announced delay unless one of
  these happened, and always for those a process knows itself.
* A slot reserved before midnight and used after counts for the day before
  (`rpc.ts:480`, `docs/OPERATIONS.md:97-99`): `BudgetCarried` allows for one. A
  process that read the clock before midnight and then waited for a lock left behind
  sets the day in the file back, and the count of the new day starts over, so more
  than the daily ceiling can be sent; `BudgetCarried` is stated for behaviours without
  such a lock.
* The age of a stale lock is read (`rpc.ts:648`) and the file removed (650) in two
  awaits. A second waiter removes the lock a first one has just taken, and two
  requests are under way at once; `docs/INDEXER.md:53` says the scheduler
  serializes requests. `SerializedUnlessRaced` is stated but for that race.
* A `reconcileLimit` below the number of kinds that have rows never reaches the
  kinds behind it (`indexer.ts:85-96`), since each run starts with the first kind
  again. The run has a limit of three. A row whose read always fails stays the
  oldest of its kind, and ends every reconciliation when its turn comes (436).
* The indexer's check of missing parents (`indexer.ts:293-295` and its like) is a
  second line of defence: in reachable states of `indexer_faults` it never stops a
  scan, because kinds are scanned in the order of their references behind counters
  that were read together; it does matter to `ImplementsMirror`'s proof.
* A candidate that is SUSPECTED never becomes HEALTHY again
  (`monitoring/src/index.ts:357-364`); a success whose candidate update failed is
  forgotten, as `AccusedOnlyAfterFailures` allows ("acted upon").
* A target that needs Studio, because of its own endpoint or the reference's
  (`monitor.ts:43`), is left out while the cooldown runs (52-54). If another such target,
  with a smaller id, is answered by a rate limit in each cycle, the cooldown that begins
  suppresses the later one each time; nothing in the code takes turns.
  `EveryTargetObserved` excepts it.
* A lag above 10,000,000 blocks makes `validateProbeEvidence` throw, which ends the
  cycle: targets with larger ids are not probed while it lasts
  (`monitoring/src/index.ts:338`, `monitor.ts:38-81`). `EveryTargetObserved` is for
  bounded failures.
* A rate limit of Studio's own is no signal for the candidate, but its sample is
  stored and aggregated as a failure (`monitor.ts:75-80`), and a failed sample has
  no reference block, so the next probe starts without one.
* The error rate is rounded down (`monitoring/src/index.ts:257-260`), so a
  violation by less than a millionth is missed; it is never invented.
* `rpc.ts:113-119` writes the bytes themselves where RLP wants their length, from
  56 bytes on; `legacy.ts:87-94` has it right. The longest read of the schema,
  `is_authorized_reporter`, has exactly 55 bytes of calldata. `SentAsMeant` holds for
  the schema's reads, and would fail for a longer one.
* `decodeValue` (`rpc.ts:145-178`) shortens a truncated text or byte string without
  a word, and `decodeLegacyReturn` ignores what follows the value.
* The wallet's encoder (`legacy.ts`) knows no address: one would be sent as
  text. No call of the web application passes one.
* A reload empties `previousCoverageIds` (`purchase.tsx:16`), so any coverage the
  buyer had before is then taken for the new one and "reflected" is said early
  (`actions.tsx:53`); `ReflectedIsIndexed` is stated without a reload.
* An older panel's task may end after a newer one stored its hash, and removes
  that (`actions.tsx:50`, 62), or stores its own over it (130); a wallet that reports an
  error after it broadcast, or storage that fails, loses the hash too.
  `OfferedOnlyWhenSettled` is stated for behaviours in which no hash was lost
  (`EveryWriteRemembered`).
* The inputs stay enabled while a review or a signature is under way
  (`purchase.tsx:76-84`), and the panel's key is made of them (94): an edit, also while
  the wallet asks for confirmation, mounts a new panel, and `review()` or `sign()` of the
  old one runs on (`actions.tsx:102-138`). The new panel reads storage once, when it
  mounts (66-75), so it does not know of a hash that comes later, and offers another
  purchase while that one is undecided. The two panels share `previousCoverageIds`
  (`purchase.tsx:16`): the new one may show "reflected" on the record of the first
  purchase, and a record noted before it is waited for leaves the wait without an end and
  its hash in storage. `OfferedOnlyWhenSettled` excepts hashes that came to a replaced
  panel (`behind`); `ReflectedIsIndexed` and `StoredWriteEnds` are stated without such an
  interruption (`interrupted`).
* After a switch of the account "check again" looks for records of the new account
  (`actions.tsx:173`).

## Plan

Done: every part of the repository that keeps state is modelled, alone or in
composition, and checked. Every safety property and every action property that a run
checks of such a part is proved.

What a continuation would take up, in this order:

1. That each step of `FaultPact` is one of `Registry` or leaves its state alone, and
   likewise for `Incidents`, as `HearingsAreDisputes` says of hearings, so that
   theorems about them need not be carried over one by one. (Sales are not like that:
   paying a claim takes capital in a way no sale does.)
2. What a change of the code brings: the actions a method changes, then the lemma of
   that method, as each invariant's proof has one per method.

## How to run

In this directory, with TLC, the community modules and TLAPS at hand:

    tlc -workers 2 -config Claims_market.cfg MCFaultPact
    tlapm IndexerProofs.tla

`PROJECT.json` names the module of each configuration.
