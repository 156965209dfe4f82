------------------------------ MODULE Monitor ------------------------------
(* The worker's monitor: it probes the targets one after the other, keeps a   *)
(* sample of each probe, and moves an incident candidate per target           *)
(* (apps/worker/src/monitor.ts, packages/monitoring/src/index.ts).            *)
(*                                                                            *)
(* Targets answer or not, Studio's shared cooldown begins and ends, database  *)
(* calls fail, the worker dies; the samples and candidates stay. Time is in   *)
(* ticks and passes while the worker probes or sleeps. A sample is reduced to *)
(* its age, since the aggregates and artifacts made of it feed nothing back.  *)
EXTENDS Integers

CONSTANTS
  Targets,        \* the enabled targets, 1..n in the order of their ids
  Studio,         \* those whose endpoint is Studio's
  Serviced,       \* those that belong to a service
  Interval,       \* per target, intervalMs
  StudioInterval, \* genlayerProbeIntervalMs
  CycleInterval,  \* the sleep between two cycles
  Retention,      \* rawRetentionSeconds
  MaxFaults       \* bound on failing calls, crashes and pauses

requiredFailures == 3
requiredRecoveries == 2

ASSUME MonitorAssumption ==
  /\ Targets \subseteq Nat \ {0} /\ \A t \in Targets : 1..t \subseteq Targets
  /\ Studio \subseteq Targets /\ Serviced \subseteq Targets
  /\ Interval \in [Targets -> Nat] /\ StudioInterval \in Nat /\ CycleInterval \in Nat
  /\ MaxFaults \in Nat
  /\ Retention \in Nat /\ Retention > StudioInterval /\ \A t \in Targets : Retention > Interval[t]

VARIABLES
  age,       \* per target, the age of its last sample, Never if there is none
  candidate, \* per target, its incident candidate: state and consecutiveFailures
  pausing,   \* whether the shared cooldown is running
  proc,      \* where the cycle is, at which target, what the probe returned
  truth,     \* per target, what an observer notes: time since the probe, failures, recoveries
  faults,
  referenceIsStudio \* whether the reference endpoint is Studio's; it stays what it is

monitorVars == <<age, candidate, pausing, proc, truth, faults, referenceIsStudio>>

\* Ages and counts stop where nothing tells them from more.
Never == Retention + 1
Older(ticks) == IF ticks < Never THEN ticks + 1 ELSE Never
More(n) == IF n < requiredFailures THEN n + 1 ELSE n

Idle == [pc |-> "start", at |-> 1, result |-> "none", left |-> 0]

MonitorInit ==
  /\ age = [t \in Targets |-> Never]
  /\ candidate = [t \in Targets |-> [state |-> "HEALTHY", consecutiveFailures |-> 0]]
  /\ pausing \in BOOLEAN
  /\ proc = Idle
  /\ truth = [t \in Targets |-> [probed |-> Never, failures |-> 0, recovered |-> 0]]
  /\ faults = 0 /\ referenceIsStudio \in BOOLEAN

UsesGenLayer(t) == t \in Studio \/ referenceIsStudio
ProbeInterval(t) ==
  IF t \in Studio /\ StudioInterval > Interval[t] THEN StudioInterval ELSE Interval[t]

----------------------------------------------------------------------------
(* runOnce                                                                   *)

\* The target after this one, or the heartbeat.
NextTarget == [proc EXCEPT !.at = @ + 1, !.result = "none",
                           !.pc = IF proc.at + 1 \in Targets THEN "target" ELSE "heartbeat"]

\* Samples beyond the retention are deleted.
StartCycle ==
  /\ proc.pc = "start"
  /\ age' = [t \in Targets |-> IF age[t] > Retention THEN Never ELSE age[t]]
  /\ proc' = [Idle EXCEPT !.pc = IF Targets = {} THEN "heartbeat" ELSE "target"]
  /\ UNCHANGED <<candidate, pausing, truth, faults, referenceIsStudio>>

\* (Mutants: Studio's longer interval is forgotten; one target's sample serves for all.)
DueByInterval(t) == age[t] = Never \/ age[t] >= Interval[t]
DueOnceForAll(t) == \A u \in Targets : age[u] = Never \/ age[u] >= ProbeInterval(t)
Due(t) == age[t] = Never \/ age[t] >= ProbeInterval(t)

Suppress ==
  /\ proc.pc = "target"
  /\ ~Due(proc.at) \/ (UsesGenLayer(proc.at) /\ pausing)
  /\ proc' = NextTarget
  /\ UNCHANGED <<age, candidate, pausing, truth, faults, referenceIsStudio>>

\* A probe that tells of the target; a rate limit of Studio's own does not.
Signal(t, result) ==
  CASE result = "SUCCESS" -> "SUCCESS"
    [] result = "HTTP_429" /\ UsesGenLayer(t) -> "none"
    [] OTHER -> "FAILURE"

\* What an observer of the probes notes: the failures since a success was acted upon,
\* the rate limits of Studio's not among them.
Observed(seen, t, result) ==
  [seen EXCEPT !.probed = 0,
               !.failures = IF result = "SUCCESS" \/ (result = "HTTP_429" /\ UsesGenLayer(t))
                            THEN @ ELSE More(@)]

\* What a probe reports: that all was answered as expected, that a rate limit was met,
\* or that something else was wrong with the transport, the answer or the chain.
Results == {"SUCCESS", "HTTP_429", "PROBE_ERROR"}

\* probeRpc never throws: it reports what went wrong. The target's endpoint and the
\* reference's are called, Studio's through the shared scheduler, whose rate limit has
\* begun the cooldown.
Probe ==
  /\ proc.pc = "target"
  /\ Due(proc.at) /\ ~(UsesGenLayer(proc.at) /\ pausing)
  /\ \E result \in Results, throughScheduler \in {proc.at \in Studio, referenceIsStudio} :
       /\ proc' = [proc EXCEPT !.pc = "store", !.result = result]
       /\ pausing' = (pausing \/ (throughScheduler /\ result = "HTTP_429"))
       /\ truth' = [truth EXCEPT ![proc.at] = Observed(@, proc.at, result)]
  /\ UNCHANGED <<age, candidate, faults, referenceIsStudio>>

\* The sample carries the time at which the probe began.
StoreSample ==
  /\ proc.pc = "store"
  /\ age' = [age EXCEPT ![proc.at] = truth[proc.at].probed]
  /\ proc' = [proc EXCEPT !.pc = "evidence"]
  /\ UNCHANGED <<candidate, pausing, truth, faults, referenceIsStudio>>

\* aggregateTarget and storeEvidenceArtifact: any of their calls may fail.
AggregateAndKeepEvidence ==
  /\ proc.pc = "evidence"
  /\ proc' = IF proc.at \in Serviced /\ Signal(proc.at, proc.result) # "none"
             THEN [proc EXCEPT !.pc = "candidate"] ELSE NextTarget
  /\ UNCHANGED <<age, candidate, pausing, truth, faults, referenceIsStudio>>

nextCandidateState(state, failures, recoveries) ==
  CASE state = "HEALTHY" /\ failures >= requiredFailures -> "SUSPECTED"
    [] state \in {"SUSPECTED", "RECOVERING"} /\ failures >= requiredFailures -> "ACTIVE"
    [] state = "ACTIVE" /\ recoveries >= requiredRecoveries -> "RECOVERING"
    [] state = "RECOVERING" /\ recoveries >= requiredRecoveries -> "CLOSED"
    [] OTHER -> state

\* (Mutant: a success leaves the count of failures where it is.)
FailuresKept(t, success) ==
  IF success THEN candidate[t].consecutiveFailures ELSE More(candidate[t].consecutiveFailures)
Failures(t, success) == IF success THEN 0 ELSE More(candidate[t].consecutiveFailures)

UpdateCandidate ==
  /\ proc.pc = "candidate"
  /\ LET t == proc.at
         success == proc.result = "SUCCESS"
         failures == Failures(t, success)
         recoveries == IF success /\ candidate[t].state \in {"ACTIVE", "RECOVERING"} THEN 1 ELSE 0
     IN /\ candidate' = [candidate EXCEPT ![t] =
             [state |-> nextCandidateState(@.state, failures, recoveries),
              consecutiveFailures |-> failures]]
        /\ truth' = [truth EXCEPT ![t].failures = IF success THEN 0 ELSE @,
                                  ![t].recovered = IF success /\ candidate[t].state = "ACTIVE"
                                                   THEN More(@) ELSE 0]
  /\ proc' = NextTarget
  /\ UNCHANGED <<age, pausing, faults, referenceIsStudio>>

\* The heartbeat is written, with what happened in the cycle; nothing reads it here.
Heartbeat ==
  /\ proc.pc = "heartbeat"
  /\ proc' = [Idle EXCEPT !.pc = "sleep", !.left = CycleInterval]
  /\ UNCHANGED <<age, candidate, pausing, truth, faults, referenceIsStudio>>

WakeUp ==
  /\ proc.pc = "sleep" /\ proc.left = 0
  /\ proc' = Idle
  /\ UNCHANGED <<age, candidate, pausing, truth, faults, referenceIsStudio>>

CycleStep == StartCycle \/ Suppress \/ Probe \/ StoreSample \/ AggregateAndKeepEvidence
               \/ UpdateCandidate \/ Heartbeat \/ WakeUp

----------------------------------------------------------------------------
(* What goes wrong, and time                                                 *)

Fault == faults < MaxFaults /\ faults' = faults + 1

\* What was observed once a cycle ends at its present point: a probe whose sample was
\* not stored leaves no trace, and neither does a signal that reached no candidate.
Lost == IF proc.pc = "store" THEN [truth EXCEPT ![proc.at].probed = Never] ELSE truth

\* A database call fails: the cycle is over, and its heartbeat is not written.
CycleFails ==
  /\ Fault /\ proc.pc # "sleep"
  /\ proc' = [Idle EXCEPT !.pc = "sleep", !.left = CycleInterval]
  /\ truth' = Lost
  /\ UNCHANGED <<age, candidate, pausing, referenceIsStudio>>

\* The worker dies or is told to stop, and is started again.
Crash ==
  /\ Fault /\ proc # Idle
  /\ proc' = Idle /\ truth' = Lost
  /\ UNCHANGED <<age, candidate, pausing, referenceIsStudio>>

\* Another process met a rate limit, or the scheduler's state could not be read.
PauseBegins ==
  /\ Fault /\ ~pausing /\ pausing' = TRUE
  /\ UNCHANGED <<age, candidate, proc, truth, referenceIsStudio>>

PauseEnds ==
  /\ pausing /\ pausing' = FALSE
  /\ UNCHANGED <<age, candidate, proc, truth, faults, referenceIsStudio>>

Tick ==
  /\ proc.pc = "store" \/ (proc.pc = "sleep" /\ proc.left > 0)
  /\ age' = [t \in Targets |-> Older(age[t])]
  /\ truth' = [t \in Targets |-> [truth[t] EXCEPT !.probed = Older(@)]]
  /\ proc' = [proc EXCEPT !.left = IF @ > 0 THEN @ - 1 ELSE 0]
  /\ UNCHANGED <<candidate, pausing, faults, referenceIsStudio>>

MonitorNext == CycleStep \/ CycleFails \/ Crash \/ PauseBegins \/ PauseEnds \/ Tick

\* The cycle runs on, the cooldown ends again and again, and sleep is over at last.
MonitorSpec ==
  /\ MonitorInit /\ [][MonitorNext]_monitorVars
  /\ WF_monitorVars(CycleStep) /\ WF_monitorVars(PauseEnds) /\ WF_monitorVars(proc.pc = "sleep" /\ Tick)

----------------------------------------------------------------------------
(* What the monitor promises                                                 *)

\* A target is suspected, or called active, after three failures with no success acted
\* upon in between: never for Studio's own rate limits, and whatever fails, crashes or
\* is pruned.
AccusedOnlyAfterFailures ==
  [][\A t \in Targets :
       candidate'[t].state \in {"SUSPECTED", "ACTIVE"} \ {candidate[t].state} =>
         truth[t].failures >= requiredFailures]_monitorVars

\* Two probes of a target are its interval apart, Studio's the longer one, across
\* cycles, restarts and pruning, unless the sample of the first could not be stored.
ProbesSpaced ==
  [][\A t \in Targets :
       truth'[t].probed = 0 /\ truth[t].probed # 0 =>
         truth[t].probed = Never \/ truth[t].probed >= ProbeInterval(t)]_monitorVars

RateLimited(t) ==
  proc.pc = "store" /\ proc.at = t /\ proc.result = "HTTP_429" /\ UsesGenLayer(t)

\* Every target is probed, and its sample kept, again and again; one that needs Studio
\* at least if no other target goes on being answered by a rate limit. (If one does,
\* the cooldown that it begins can suppress this target in every cycle.)
EveryTargetObserved ==
  \A t \in Targets :
    \/ []<>(proc.pc = "evidence" /\ proc.at = t)
    \/ UsesGenLayer(t) /\ \E u \in Targets \ {t} : []<>RateLimited(u)

\* "Persistence requires three consecutive failure signals and two recovery signals."
TwoRecoveriesEnd ==
  \A t \in Targets : candidate[t].state = "ACTIVE" => truth[t].recovered < requiredRecoveries
============================================================================
