-------------------------- MODULE FollowingProofs --------------------------
(***************************************************************************)
(* Those that follow what others decide.  First the monitor: what it says  *)
(* of a target rests on what it saw of it, and its probes keep their       *)
(* distance, for any number of targets, any intervals and retention, any   *)
(* number of faults, crashes and pauses.                                   *)
(*                                                                         *)
(* Then the review panel of the web application: it offers one purchase at *)
(* a time and says only of an indexed one that it is, for any number of    *)
(* accounts, transactions, older panels, failures, edits and reloads; with *)
(* the exceptions that the two properties name.                            *)
(*                                                                         *)
(* Last the arithmetic that all of them count on: whom roundings favour,   *)
(* for any amounts, units and windows of samples.                          *)
(***************************************************************************)
EXTENDS Monitor, ActionReview, Rounding, SequenceTheorems, FiniteSetTheorems,
        WellFoundedInduction, TLAPS

States == {"HEALTHY", "SUSPECTED", "ACTIVE", "RECOVERING", "CLOSED"}

CandidateType == [state : States, consecutiveFailures : 0..requiredFailures]
TruthType == [probed : 0..Never, failures : 0..requiredFailures, recovered : 0..requiredFailures]
ProcType ==
  [pc : {"start", "target", "store", "evidence", "candidate", "heartbeat", "sleep"},
   at : Nat, result : {"none"} \cup Results, left : Nat]

MonitorTypeOK ==
  /\ age \in [Targets -> 0..Never]
  /\ candidate \in [Targets -> CandidateType]
  /\ truth \in [Targets -> TruthType]
  /\ proc \in ProcType
  /\ referenceIsStudio \in BOOLEAN
  /\ proc.pc \in {"target", "store", "evidence", "candidate"} => proc.at \in Targets
  /\ proc.pc \in {"store", "evidence", "candidate"} => proc.result \in Results
  /\ proc.pc = "candidate" => Signal(proc.at, proc.result) # "none"

\* A probe under way whose failure the candidate has not counted yet.
Uncounted(t) ==
  /\ proc.pc \in {"store", "evidence", "candidate"} /\ proc.at = t
  /\ Signal(t, proc.result) = "FAILURE"

\* The candidate has counted no failure that was not observed.
CountsAreTrue ==
  \A t \in Targets :
    (IF Uncounted(t) THEN More(candidate[t].consecutiveFailures)
     ELSE candidate[t].consecutiveFailures) <= truth[t].failures

\* The last sample is as old as the last probe, once it is stored.
SamplesAreTrue ==
  \A t \in Targets :
    \/ proc.pc = "store" /\ proc.at = t
    \/ truth[t].probed = Never
    \/ age[t] = truth[t].probed

MonitorInv == MonitorTypeOK /\ CountsAreTrue /\ SamplesAreTrue

LEMMA MoreBounds ==
  /\ \A n \in 0..requiredFailures : More(n) \in 0..requiredFailures /\ n <= More(n)
  /\ \A n, m \in 0..requiredFailures : n <= m => More(n) <= More(m)
  BY DEF More, requiredFailures

LEMMA OlderBounds ==
  /\ Never \in Nat /\ Never # 0
  /\ \A n \in 0..Never : Older(n) \in 0..Never /\ Older(n) # 0
  BY MonitorAssumption DEF Never, Older

LEMMA NextStates ==
  \A s \in States, f, r \in 0..requiredFailures :
    /\ nextCandidateState(s, f, r) \in States
    /\ nextCandidateState(s, f, r) \in {"SUSPECTED", "ACTIVE"} \ {s} => f >= requiredFailures
  BY DEF nextCandidateState, States, requiredFailures, requiredRecoveries

\* The process moves on to a target that exists, or to the heartbeat.
LEMMA NextTargetTypes ==
  ASSUME MonitorTypeOK, proc' = NextTarget
  PROVE  /\ proc' \in ProcType
         /\ proc'.pc \in {"target", "heartbeat"}
         /\ proc'.pc = "target" => proc'.at \in Targets
<1>1. proc' = [pc |-> IF proc.at + 1 \in Targets THEN "target" ELSE "heartbeat",
               at |-> proc.at + 1, result |-> "none", left |-> proc.left]
  BY DEF NextTarget, MonitorTypeOK, ProcType
<1> QED
  BY <1>1 DEF MonitorTypeOK, ProcType

LEMMA SignalIs ==
  ASSUME NEW t \in Targets, NEW result \in Results
  PROVE  /\ Signal(t, result) = "SUCCESS" <=> result = "SUCCESS"
         /\ Signal(t, result) = "none" <=> (result = "HTTP_429" /\ UsesGenLayer(t))
         /\ Signal(t, result) = "FAILURE" <=>
              ~(result = "SUCCESS" \/ (result = "HTTP_429" /\ UsesGenLayer(t)))
BY DEF Signal, Results

-----------------------------------------------------------------------------
(* Types *)

LEMMA InitTypes ==
  ASSUME MonitorInit
  PROVE  MonitorTypeOK
BY OlderBounds DEF MonitorInit, MonitorTypeOK, ProcType, Idle, States, CandidateType,
   TruthType, requiredFailures

LEMMA IdleTypes ==
  /\ Idle \in ProcType /\ Idle.pc = "start"
  /\ LET w == [Idle EXCEPT !.pc = "sleep", !.left = CycleInterval]
     IN w \in ProcType /\ w.pc = "sleep"
  /\ \A p \in {"target", "heartbeat"} :
       LET w == [Idle EXCEPT !.pc = p] IN w \in ProcType /\ w.pc = p /\ w.at = 1
<1>1. Idle \in ProcType /\ Idle.pc = "start" /\ Idle.at = 1
  BY DEF Idle, ProcType
<1> HIDE DEF Idle
<1>2. /\ [Idle EXCEPT !.pc = "sleep", !.left = CycleInterval] \in ProcType
      /\ [Idle EXCEPT !.pc = "sleep", !.left = CycleInterval].pc = "sleep"
  BY <1>1, MonitorAssumption DEF ProcType
<1>3. ASSUME NEW p \in {"target", "heartbeat"}
      PROVE  [Idle EXCEPT !.pc = p] \in ProcType
             /\ [Idle EXCEPT !.pc = p].pc = p /\ [Idle EXCEPT !.pc = p].at = 1
  BY <1>1, <1>3 DEF ProcType
<1> QED
  BY <1>1, <1>2, <1>3

LEMMA ObservedTypes ==
  ASSUME NEW seen \in TruthType, NEW t, NEW result
  PROVE  Observed(seen, t, result) \in TruthType
<1> DEFINE uncounted == result = "SUCCESS" \/ (result = "HTTP_429" /\ UsesGenLayer(t))
<1>1. ASSUME NEW f \in 0..requiredFailures
      PROVE  [seen EXCEPT !.probed = 0, !.failures = f] \in TruthType
  <2> DEFINE r == [seen EXCEPT !.probed = 0]
  <2>1. r \in TruthType
    BY OlderBounds DEF TruthType
  <2> HIDE DEF r
  <2>2. [r EXCEPT !.failures = f] \in TruthType
    BY <1>1, <2>1 DEF TruthType
  <2> QED
    BY <2>2 DEF r
<1>2. seen.failures \in 0..requiredFailures /\ More(seen.failures) \in 0..requiredFailures
  BY MoreBounds DEF TruthType
<1>3. CASE uncounted
  <2>1. Observed(seen, t, result) = [seen EXCEPT !.probed = 0, !.failures = seen.failures]
    BY <1>3 DEF Observed, TruthType
  <2> QED
    BY <1>1, <1>2, <2>1
<1>4. CASE ~uncounted
  <2>1. Observed(seen, t, result) = [seen EXCEPT !.probed = 0, !.failures = More(seen.failures)]
    BY <1>4 DEF Observed, TruthType
  <2> QED
    BY <1>1, <1>2, <2>1
<1> QED
  BY <1>3, <1>4

LEMMA LostTypes ==
  ASSUME MonitorTypeOK
  PROVE  Lost \in [Targets -> TruthType]
BY OlderBounds DEF Lost, MonitorTypeOK, TruthType

LEMMA StepTypes ==
  ASSUME MonitorTypeOK, MonitorNext
  PROVE  MonitorTypeOK'
<1>0. referenceIsStudio' = referenceIsStudio
  BY DEF MonitorNext, CycleStep, StartCycle, Suppress, Probe, StoreSample, UpdateCandidate,
     AggregateAndKeepEvidence, Heartbeat, WakeUp, CycleFails, Crash, PauseBegins, PauseEnds, Tick
<1> USE <1>0, OlderBounds DEF MonitorTypeOK
<1>1. CASE StartCycle
  <2>1. proc' \in ProcType /\ proc'.pc \in {"target", "heartbeat"} /\ proc'.at = 1
    BY <1>1, IdleTypes DEF StartCycle
  <2>2. ASSUME NEW t \in Targets
        PROVE  1 \in Targets
    <3>1. t \in Nat \ {0} /\ 1..t \subseteq Targets
      BY MonitorAssumption
    <3>2. 1 \in 1..t
      BY <3>1
    <3> QED
      BY <3>1, <3>2
  <2>3. proc'.pc = "target" => Targets # {}
    <3>1. CASE Targets = {}
      <4>1. proc'.pc = "heartbeat"
        BY <1>1, <3>1, IdleTypes DEF StartCycle
      <4> QED
        BY <4>1
    <3> QED
      BY <3>1
  <2>4. age' \in [Targets -> 0..Never]
    BY <1>1 DEF StartCycle
  <2> QED
    BY <1>1, <2>1, <2>2, <2>3, <2>4 DEF StartCycle
<1>2. CASE Suppress
  BY <1>2, NextTargetTypes DEF Suppress
<1>3. CASE Probe
  <2>1. proc.pc = "target" /\ UNCHANGED <<age, candidate>>
    BY <1>3 DEF Probe
  <2>2. PICK result \in Results, throughScheduler \in {proc.at \in Studio, referenceIsStudio} :
        /\ proc' = [proc EXCEPT !.pc = "store", !.result = result]
        /\ truth' = [truth EXCEPT ![proc.at] = Observed(@, proc.at, result)]
    BY <1>3 DEF Probe
  <2>3. proc' \in ProcType /\ proc'.pc = "store" /\ proc'.at = proc.at /\ proc'.result = result
    BY <2>2 DEF ProcType
  <2>4. Observed(truth[proc.at], proc.at, result) \in TruthType
    BY <2>1, ObservedTypes
  <2> QED
    BY <2>1, <2>2, <2>3, <2>4
<1>4. CASE StoreSample
  <2>1. proc' \in ProcType /\ proc'.pc = "evidence" /\ proc'.at = proc.at
        /\ proc'.result = proc.result
    BY <1>4 DEF StoreSample, ProcType
  <2>2. truth[proc.at].probed \in 0..Never
    BY <1>4 DEF StoreSample, TruthType
  <2> QED
    BY <1>4, <2>1, <2>2 DEF StoreSample
<1>5. CASE AggregateAndKeepEvidence
  <2>1. CASE proc' = NextTarget
    BY <1>5, <2>1, NextTargetTypes DEF AggregateAndKeepEvidence
  <2>2. CASE proc' = [proc EXCEPT !.pc = "candidate"] /\ Signal(proc.at, proc.result) # "none"
    <3>1. proc' \in ProcType /\ proc'.pc = "candidate" /\ proc'.at = proc.at
          /\ proc'.result = proc.result
      BY <2>2 DEF ProcType
    <3>2. Signal(proc'.at, proc'.result) # "none"
      BY <2>2, <3>1
    <3> QED
      BY <1>5, <3>1, <3>2 DEF AggregateAndKeepEvidence, Signal, UsesGenLayer
  <2> QED
    BY <1>5, <2>1, <2>2 DEF AggregateAndKeepEvidence
<1>6. CASE UpdateCandidate
  <2> DEFINE t == proc.at
             success == proc.result = "SUCCESS"
             failures == Failures(t, success)
             recoveries == IF success /\ candidate[t].state \in {"ACTIVE", "RECOVERING"}
                           THEN 1 ELSE 0
  <2>1. t \in Targets
    BY <1>6 DEF UpdateCandidate
  <2>2. failures \in 0..requiredFailures /\ recoveries \in 0..requiredFailures
    BY <2>1, MoreBounds DEF Failures, CandidateType, requiredFailures
  <2>3. nextCandidateState(candidate[t].state, failures, recoveries) \in States
    BY <2>1, <2>2, NextStates DEF CandidateType
  <2> HIDE DEF failures, recoveries, success
  <2>4. /\ candidate' = [candidate EXCEPT ![t] =
              [state |-> nextCandidateState(@.state, failures, recoveries),
               consecutiveFailures |-> failures]]
        /\ truth' = [truth EXCEPT ![t].failures = IF success THEN 0 ELSE @,
                                  ![t].recovered = IF success /\ candidate[t].state = "ACTIVE"
                                                   THEN More(@) ELSE 0]
        /\ UNCHANGED age
    BY <1>6 DEF UpdateCandidate, failures, recoveries, success
  <2>5. candidate' \in [Targets -> CandidateType]
    BY <2>2, <2>3, <2>4 DEF CandidateType
  <2>6. truth' \in [Targets -> TruthType]
    BY <2>1, <2>4, MoreBounds DEF TruthType, requiredFailures
  <2>7. proc' = NextTarget
    BY <1>6 DEF UpdateCandidate
  <2> QED
    BY <2>4, <2>5, <2>6, <2>7, NextTargetTypes
<1>7. CASE Heartbeat \/ WakeUp
  BY <1>7, IdleTypes DEF Heartbeat, WakeUp
<1>8. CASE CycleFails \/ Crash
  <2>1. truth' \in [Targets -> TruthType]
    BY <1>8, LostTypes DEF CycleFails, Crash
  <2>2. proc' \in ProcType /\ proc'.pc \in {"start", "sleep"}
    BY <1>8, IdleTypes DEF CycleFails, Crash
  <2> QED
    BY <1>8, <2>1, <2>2 DEF CycleFails, Crash
<1>9. CASE PauseBegins \/ PauseEnds
  BY <1>9 DEF PauseBegins, PauseEnds, Signal, UsesGenLayer
<1>10. CASE Tick
  <2>1. age' \in [Targets -> 0..Never] /\ truth' \in [Targets -> TruthType]
    BY <1>10 DEF Tick, TruthType
  <2>2. proc' \in ProcType /\ proc'.pc = proc.pc /\ proc'.at = proc.at
        /\ proc'.result = proc.result /\ proc.pc # "candidate"
    BY <1>10 DEF Tick, ProcType
  <2> QED
    BY <1>10, <2>1, <2>2 DEF Tick
<1> QED
  BY <1>1, <1>2, <1>3, <1>4, <1>5, <1>6, <1>7, <1>8, <1>9, <1>10 DEF MonitorNext, CycleStep

-----------------------------------------------------------------------------
(* The candidates and the samples tell no more than was observed *)

\* What becomes of a target's entry when its probe is observed.
LEMMA ObservedFields ==
  ASSUME NEW seen \in TruthType, NEW t \in Targets, NEW result \in Results
  PROVE  /\ Observed(seen, t, result).probed = 0
         /\ Signal(t, result) = "FAILURE" => Observed(seen, t, result).failures = More(seen.failures)
         /\ Observed(seen, t, result).failures \in {seen.failures, More(seen.failures)}
BY SignalIs DEF Observed, TruthType

\* Whatever is lost of what was observed, the failures stay.
LEMMA LostFields ==
  ASSUME MonitorTypeOK, NEW t \in Targets
  PROVE  /\ Lost[t].failures = truth[t].failures
         /\ Lost[t].probed \in {truth[t].probed, Never}
         /\ proc.pc = "store" /\ proc.at = t => Lost[t].probed = Never
BY DEF Lost, MonitorTypeOK, TruthType

LEMMA StepCounts ==
  ASSUME MonitorTypeOK, MonitorTypeOK', CountsAreTrue, MonitorNext
  PROVE  CountsAreTrue'
<1> SUFFICES ASSUME NEW t \in Targets
             PROVE  (IF Uncounted(t) THEN More(candidate[t].consecutiveFailures)
                     ELSE candidate[t].consecutiveFailures)' <= truth'[t].failures
  BY DEF CountsAreTrue
<1> DEFINE count == candidate[t].consecutiveFailures
           seen == truth[t].failures
<1>1. /\ count \in 0..requiredFailures /\ seen \in 0..requiredFailures
      /\ count' \in 0..requiredFailures /\ seen' \in 0..requiredFailures
  BY DEF MonitorTypeOK, CandidateType, TruthType
<1>2. count <= seen /\ (Uncounted(t) => More(count) <= seen)
  BY <1>1, MoreBounds DEF CountsAreTrue, requiredFailures
<1>0. referenceIsStudio' = referenceIsStudio
  BY DEF MonitorNext, CycleStep, StartCycle, Suppress, Probe, StoreSample, UpdateCandidate,
     AggregateAndKeepEvidence, Heartbeat, WakeUp, CycleFails, Crash, PauseBegins, PauseEnds, Tick
<1> USE <1>0
<1> SUFFICES count' <= seen' /\ (Uncounted(t)' => More(count') <= seen')
  BY DEF More
<1>3. CASE UNCHANGED <<candidate, truth>> /\ (Uncounted(t)' => Uncounted(t))
  BY <1>2, <1>3
<1>4. CASE StartCycle \/ Suppress \/ Heartbeat \/ WakeUp
  <2>1. proc'.pc \notin {"store", "evidence", "candidate"}
    <3>1. CASE Suppress
      BY <3>1, NextTargetTypes DEF Suppress
    <3>2. CASE StartCycle \/ Heartbeat \/ WakeUp
      BY <3>2, IdleTypes DEF StartCycle, Heartbeat, WakeUp
    <3> QED
      BY <1>4, <3>1, <3>2
  <2>2. UNCHANGED <<candidate, truth>>
    BY <1>4 DEF StartCycle, Suppress, Heartbeat, WakeUp
  <2> QED
    BY <1>3, <2>1, <2>2 DEF Uncounted
<1>5. CASE Probe
  <2>1. PICK result \in Results, throughScheduler \in {proc.at \in Studio, referenceIsStudio} :
          /\ proc' = [proc EXCEPT !.pc = "store", !.result = result]
          /\ truth' = [truth EXCEPT ![proc.at] = Observed(@, proc.at, result)]
    BY <1>5 DEF Probe
  <2>2. candidate' = candidate /\ proc.pc = "target" /\ proc.at \in Targets
    BY <1>5 DEF Probe, MonitorTypeOK
  <2>3. proc'.at = proc.at /\ proc'.result = result
    BY <2>1 DEF MonitorTypeOK, ProcType
  <2>4. CASE t = proc.at
    <3>1. truth'[t] = Observed(truth[t], t, result) /\ truth[t] \in TruthType
      BY <2>1, <2>4 DEF MonitorTypeOK
    <3>2. seen' \in {seen, More(seen)} /\ (Signal(t, result) = "FAILURE" => seen' = More(seen))
      BY <3>1, ObservedFields
    <3>3. More(count) <= More(seen) /\ seen <= More(seen)
      BY <1>1, <1>2, MoreBounds
    <3>4. Uncounted(t)' => Signal(t, result) = "FAILURE"
      BY <2>3 DEF Uncounted, Signal, UsesGenLayer
    <3>5. More(seen) \in 0..requiredFailures
      BY <1>1, MoreBounds
    <3>6. count' = count
      BY <2>2
    <3> HIDE DEF count, seen
    <3> QED
      BY <1>1, <1>2, <3>2, <3>3, <3>4, <3>5, <3>6 DEF requiredFailures
  <2>5. CASE t # proc.at
    <3>1. truth'[t] = truth[t]
      BY <2>1, <2>5 DEF MonitorTypeOK
    <3> QED
      BY <1>2, <2>2, <2>3, <2>5, <3>1 DEF Uncounted
  <2> QED
    BY <2>4, <2>5
<1>6. CASE StoreSample \/ PauseBegins \/ PauseEnds
  <2>1. UNCHANGED <<candidate, truth>> /\ proc'.at = proc.at /\ proc'.result = proc.result
    BY <1>6 DEF StoreSample, PauseBegins, PauseEnds, MonitorTypeOK, ProcType
  <2>2. proc'.pc = proc.pc \/ proc.pc = "store"
    BY <1>6 DEF StoreSample, PauseBegins, PauseEnds
  <2> QED
    BY <1>3, <2>1, <2>2 DEF Uncounted, Signal, UsesGenLayer
<1>7. CASE AggregateAndKeepEvidence
  <2>1. UNCHANGED <<candidate, truth>> /\ proc.pc = "evidence"
    BY <1>7 DEF AggregateAndKeepEvidence
  <2>2. CASE proc' = NextTarget
    BY <1>3, <2>1, <2>2, NextTargetTypes DEF Uncounted
  <2>3. CASE proc' = [proc EXCEPT !.pc = "candidate"]
    <3>1. proc'.at = proc.at /\ proc'.result = proc.result
      BY <2>3 DEF MonitorTypeOK, ProcType
    <3> QED
      BY <1>3, <2>1, <3>1 DEF Uncounted, Signal, UsesGenLayer
  <2> QED
    BY <1>7, <2>2, <2>3 DEF AggregateAndKeepEvidence
<1>8. CASE UpdateCandidate
  <2>1. /\ proc.pc = "candidate" /\ proc.at \in Targets /\ proc.result \in Results
        /\ Signal(proc.at, proc.result) # "none" /\ proc' = NextTarget
    BY <1>8 DEF UpdateCandidate, MonitorTypeOK
  <2>2. ~Uncounted(t)'
    BY <2>1, NextTargetTypes DEF Uncounted
  <2>3. CASE t # proc.at
    <3>1. candidate'[t] = candidate[t] /\ seen' = seen
      BY <1>8, <2>3 DEF UpdateCandidate, MonitorTypeOK
    <3> QED
      BY <1>2, <2>2, <3>1
  <2>4. CASE t = proc.at
    <3> DEFINE success == proc.result = "SUCCESS"
    <3>1. count' = Failures(t, success)
      BY <1>8, <2>1, <2>4 DEF UpdateCandidate, MonitorTypeOK
    <3>2. seen' = IF success THEN 0 ELSE seen
      BY <1>8, <2>1, <2>4 DEF UpdateCandidate, MonitorTypeOK, TruthType
    <3>3. CASE success
      BY <2>2, <3>1, <3>2, <3>3 DEF Failures
    <3>4. CASE ~success
      <4>1. Uncounted(t)
        BY <2>1, <2>4, <3>4, SignalIs DEF Uncounted
      <4> QED
        BY <1>2, <2>2, <3>1, <3>2, <3>4, <4>1 DEF Failures
    <3> QED
      BY <3>3, <3>4
  <2> QED
    BY <2>3, <2>4
<1>9. CASE CycleFails \/ Crash
  <2>1. candidate' = candidate /\ seen' = seen
    BY <1>9, LostFields DEF CycleFails, Crash
  <2>2. proc'.pc \in {"start", "sleep"}
    BY <1>9, IdleTypes DEF CycleFails, Crash
  <2> QED
    BY <1>2, <2>1, <2>2 DEF Uncounted
<1>10. CASE Tick
  <2>1. candidate' = candidate /\ seen' = seen
    BY <1>10 DEF Tick, MonitorTypeOK, TruthType
  <2>2. proc'.pc = proc.pc /\ proc'.at = proc.at /\ proc'.result = proc.result
    BY <1>10 DEF Tick, MonitorTypeOK, ProcType
  <2> QED
    BY <1>2, <2>1, <2>2 DEF Uncounted, Signal, UsesGenLayer
<1> QED
  BY <1>4, <1>5, <1>6, <1>7, <1>8, <1>9, <1>10 DEF MonitorNext, CycleStep

LEMMA StepSamples ==
  ASSUME MonitorTypeOK, MonitorTypeOK', SamplesAreTrue, MonitorNext
  PROVE  SamplesAreTrue'
<1> SUFFICES ASSUME NEW t \in Targets
             PROVE  (\/ proc.pc = "store" /\ proc.at = t
                     \/ truth[t].probed = Never
                     \/ age[t] = truth[t].probed)'
  BY DEF SamplesAreTrue
<1>0. /\ (proc.pc = "store" /\ proc.at = t) \/ truth[t].probed = Never \/ age[t] = truth[t].probed
      /\ age[t] \in 0..Never /\ truth[t].probed \in 0..Never
  BY DEF SamplesAreTrue, MonitorTypeOK, TruthType
<1>1. CASE StartCycle
  <2>1. age'[t] = age[t]
    BY <1>0, <1>1, MonitorAssumption DEF StartCycle, Never
  <2>2. proc.pc # "store" /\ truth' = truth
    BY <1>1 DEF StartCycle
  <2> QED
    BY <1>0, <2>1, <2>2
<1>2. CASE Suppress \/ AggregateAndKeepEvidence \/ Heartbeat \/ WakeUp
  BY <1>0, <1>2 DEF Suppress, AggregateAndKeepEvidence, Heartbeat, WakeUp
<1>3. CASE UpdateCandidate
  <2>1. age' = age /\ truth'[t].probed = truth[t].probed /\ proc.pc # "store"
    BY <1>3 DEF UpdateCandidate, MonitorTypeOK, TruthType
  <2> QED
    BY <1>0, <2>1
<1>4. CASE Probe
  <2>1. PICK result \in Results, throughScheduler \in {proc.at \in Studio, referenceIsStudio} :
          /\ proc' = [proc EXCEPT !.pc = "store", !.result = result]
          /\ truth' = [truth EXCEPT ![proc.at] = Observed(@, proc.at, result)]
    BY <1>4 DEF Probe
  <2>2. age' = age /\ proc.pc = "target"
    BY <1>4 DEF Probe
  <2>3. proc'.at = proc.at /\ proc'.pc = "store"
    BY <2>1 DEF MonitorTypeOK, ProcType
  <2>4. t # proc.at => truth'[t] = truth[t]
    BY <2>1 DEF MonitorTypeOK
  <2> QED
    BY <1>0, <2>2, <2>3, <2>4
<1>5. CASE StoreSample
  <2>1. /\ t = proc.at => age'[t] = truth[t].probed
        /\ t # proc.at => age'[t] = age[t]
        /\ truth' = truth
    BY <1>5 DEF StoreSample, MonitorTypeOK
  <2> QED
    BY <1>0, <2>1
<1>6. CASE CycleFails \/ Crash
  <2>1. age' = age /\ truth' = Lost
    BY <1>6 DEF CycleFails, Crash
  <2> QED
    BY <1>0, <2>1, LostFields
<1>7. CASE PauseBegins \/ PauseEnds
  BY <1>0, <1>7 DEF PauseBegins, PauseEnds
<1>8. CASE Tick
  <2>1. /\ age'[t] = Older(age[t]) /\ truth'[t].probed = Older(truth[t].probed)
        /\ proc'.pc = proc.pc /\ proc'.at = proc.at
    BY <1>8 DEF Tick, MonitorTypeOK, TruthType, ProcType
  <2>2. Older(Never) = Never
    BY OlderBounds DEF Older
  <2> QED
    BY <1>0, <2>1, <2>2
<1> QED
  BY <1>1, <1>2, <1>3, <1>4, <1>5, <1>6, <1>7, <1>8 DEF MonitorNext, CycleStep

-----------------------------------------------------------------------------
(* The theorems *)

LEMMA InitInv ==
  ASSUME MonitorInit
  PROVE  MonitorInv
<1>1. CountsAreTrue
  <2> SUFFICES ASSUME NEW t \in Targets
               PROVE  (IF Uncounted(t) THEN More(candidate[t].consecutiveFailures)
                       ELSE candidate[t].consecutiveFailures) <= truth[t].failures
    BY DEF CountsAreTrue
  <2>1. ~Uncounted(t)
    BY IdleTypes DEF MonitorInit, Uncounted
  <2>2. candidate[t].consecutiveFailures = 0 /\ truth[t].failures = 0
    BY DEF MonitorInit
  <2> QED
    BY <2>1, <2>2
<1>2. SamplesAreTrue
  BY DEF MonitorInit, SamplesAreTrue
<1> QED
  BY <1>1, <1>2, InitTypes DEF MonitorInv

LEMMA StepInv ==
  ASSUME MonitorInv, [MonitorNext]_monitorVars
  PROVE  MonitorInv'
<1>1. CASE MonitorNext
  BY <1>1, StepTypes, StepCounts, StepSamples DEF MonitorInv
<1>2. CASE UNCHANGED monitorVars
  BY <1>2 DEF monitorVars, MonitorInv, MonitorTypeOK, CountsAreTrue, SamplesAreTrue,
     Uncounted, Signal, UsesGenLayer
<1> QED
  BY <1>1, <1>2

\* The types of the monitor's state, and what its candidates and samples rest on,
\* hold always.
THEOREM MonitorTypes == MonitorSpec => []MonitorInv
BY InitInv, StepInv, PTL DEF MonitorSpec

LEMMA StepAccuses ==
  ASSUME MonitorInv, MonitorNext, NEW t \in Targets,
         candidate'[t].state \in {"SUSPECTED", "ACTIVE"} \ {candidate[t].state}
  PROVE  truth[t].failures >= requiredFailures
<1> USE DEF MonitorInv
<1>1. UpdateCandidate
  BY DEF MonitorNext, CycleStep, StartCycle, Suppress, Probe, StoreSample,
     AggregateAndKeepEvidence, Heartbeat, WakeUp, CycleFails, Crash, PauseBegins, PauseEnds, Tick
<1>2. /\ proc.pc = "candidate" /\ proc.result \in Results
      /\ Signal(proc.at, proc.result) # "none"
  BY <1>1 DEF UpdateCandidate, MonitorTypeOK
<1>3. t = proc.at
  BY <1>1 DEF UpdateCandidate, MonitorTypeOK
<1> DEFINE success == proc.result = "SUCCESS"
           failures == Failures(t, success)
           recoveries == IF success /\ candidate[t].state \in {"ACTIVE", "RECOVERING"} THEN 1 ELSE 0
<1>4. candidate'[t].state = nextCandidateState(candidate[t].state, failures, recoveries)
  BY <1>1, <1>3 DEF UpdateCandidate, MonitorTypeOK
<1>5. /\ candidate[t].state \in States /\ candidate[t].consecutiveFailures \in 0..requiredFailures
      /\ truth[t].failures \in 0..requiredFailures
  BY DEF MonitorTypeOK, CandidateType, TruthType
<1>6. failures \in 0..requiredFailures /\ recoveries \in 0..requiredFailures
  BY <1>5, MoreBounds DEF Failures, requiredFailures
<1>7. failures >= requiredFailures
  <2> HIDE DEF failures, recoveries
  <2> QED
    BY <1>4, <1>5, <1>6, NextStates
<1>8. ~success /\ failures = More(candidate[t].consecutiveFailures)
  BY <1>7 DEF Failures, requiredFailures
<1>9. Uncounted(t)
  BY <1>2, <1>3, <1>8, SignalIs DEF Uncounted
<1>10. More(candidate[t].consecutiveFailures) <= truth[t].failures
  BY <1>9 DEF CountsAreTrue
<1> QED
  BY <1>5, <1>6, <1>7, <1>8, <1>10 DEF requiredFailures

\* A target is suspected, or called active, after three failures with no success acted
\* upon in between, for any number of targets and of faults.
THEOREM AccusationsRest == MonitorSpec => AccusedOnlyAfterFailures
<1>1. MonitorInv /\ [MonitorNext]_monitorVars =>
        [\A t \in Targets :
           candidate'[t].state \in {"SUSPECTED", "ACTIVE"} \ {candidate[t].state} =>
             truth[t].failures >= requiredFailures]_monitorVars
  BY StepAccuses
<1> QED
  BY <1>1, MonitorTypes, PTL DEF MonitorSpec, AccusedOnlyAfterFailures

LEMMA StepProbes ==
  ASSUME MonitorInv, MonitorNext, NEW t \in Targets,
         truth'[t].probed = 0, truth[t].probed # 0
  PROVE  truth[t].probed = Never \/ truth[t].probed >= ProbeInterval(t)
<1> USE DEF MonitorInv
<1>1. truth[t].probed \in 0..Never
  BY DEF MonitorTypeOK, TruthType
<1>2. Probe
  <2>1. CASE UpdateCandidate
    BY <2>1 DEF UpdateCandidate, MonitorTypeOK, TruthType
  <2>2. CASE CycleFails \/ Crash
    BY <2>2, LostFields, OlderBounds DEF CycleFails, Crash
  <2>3. CASE Tick
    BY <1>1, <2>3, OlderBounds DEF Tick, MonitorTypeOK, TruthType
  <2>4. CASE UNCHANGED truth
    BY <2>4
  <2> QED
    BY <2>1, <2>2, <2>3, <2>4 DEF MonitorNext, CycleStep, StartCycle, Suppress, StoreSample,
       AggregateAndKeepEvidence, Heartbeat, WakeUp, PauseBegins, PauseEnds
<1>3. proc.pc = "target" /\ Due(proc.at)
  BY <1>2 DEF Probe
<1>4. t = proc.at
  BY <1>2 DEF Probe, MonitorTypeOK
<1> QED
  BY <1>3, <1>4 DEF Due, SamplesAreTrue

\* Two probes of a target are its interval apart, across cycles, crashes and pruning.
THEOREM ProbesKeepDistance == MonitorSpec => ProbesSpaced
<1>1. MonitorInv /\ [MonitorNext]_monitorVars =>
        [\A t \in Targets :
           truth'[t].probed = 0 /\ truth[t].probed # 0 =>
             truth[t].probed = Never \/ truth[t].probed >= ProbeInterval(t)]_monitorVars
  BY StepProbes
<1> QED
  BY <1>1, MonitorTypes, PTL DEF MonitorSpec, ProbesSpaced

-----------------------------------------------------------------------------
(* The review panel                                                            *)

Statuses == {"idle", "connecting", "signing", "ready", "wrongNetwork", "processing",
             "converging", "finalized", "error"}
Asking == {"switch", "accounts", "chain", "known", "fees"}
Sending == {"check", "send", "store"}
Following == {"status", "receipt", "result", "index"}
Stages == {"UNKNOWN", "PENDING", "REVERTED", "REJECTED", "SUCCEEDED", "FAILED"}
Addresses == Accounts \cup {"none"}

TxType == [from : Addresses, stage : Stages, indexed : BOOLEAN, behind : BOOLEAN]
PanelType ==
  [status : Statuses, address : Addresses, hash : Nat, again : BOOLEAN, terminal : BOOLEAN,
   pc : {"none", "loading"} \cup Asking \cup Sending \cup Following,
   flow : {"none", "review", "switch", "sign"}, owner : Addresses, expected : Addresses,
   checked : BOOLEAN]
HistoryType ==
  [reloaded : BOOLEAN, switched : BOOLEAN, lost : BOOLEAN, interrupted : BOOLEAN]

ReviewTypeOK ==
  /\ wallet \in [account : Accounts, ours : BOOLEAN]
  /\ txs \in Seq(TxType)
  /\ slot \in {Empty} \cup [tx : DOMAIN txs, address : Addresses]
  /\ panels \in Seq(PanelType) /\ mounted > 0
  /\ page \in [known : SUBSET Nat, stale : BOOLEAN]
  /\ history \in HistoryType

\* Where a task is agrees with its transaction.
Task(sent, x) ==
  /\ x.hash \in {0} \cup DOMAIN sent
  /\ x.pc \in Sending => x.flow = "sign"
  /\ x.pc \in {"store"} \cup Following => x.hash # 0
  /\ x.pc \in Asking \cup {"check", "send", "loading"} => x.hash = 0
  /\ x.pc = "result" => sent[x.hash].stage \in {"SUCCEEDED", "FAILED"}
  /\ x.pc = "index" => sent[x.hash].stage = "SUCCEEDED"

\* What the mounted panel shows agrees with its task.
Shown(sent, x) ==
  /\ x.pc \in Asking => x.status \in {"connecting", "signing"}
  /\ x.pc \in Asking \cup Sending /\ x.flow = "sign" => x.status = "signing"
  /\ x.pc \in Following => x.status \in {"processing", "converging"}
  /\ x.pc = "loading" => x.status = "idle"
  /\ x.pc = "none" /\ x.hash # 0 => x.status \in {"error", "finalized"}
  /\ x.status = "finalized" => x.pc = "none" /\ x.hash # 0 /\ sent[x.hash].stage = "SUCCEEDED"
  /\ x.terminal => /\ x.pc = "none" /\ x.hash # 0 /\ x.status = "error"
                   /\ sent[x.hash].stage \in {"REVERTED", "REJECTED", "FAILED"}

\* The panels that are not mounted any more.
Detached == {panels[p] : p \in 1 .. mounted - 1}

\* They only wait, unless a review or a signature was interrupted.
Runs(x, interrupted) == x.pc \in Following \/ (interrupted /\ x.pc \in Asking \cup Sending)

PanelsSound ==
  /\ Task(txs, Mounted) /\ Shown(txs, Mounted)
  /\ \A x \in Detached : Task(txs, x) /\ Runs(x, history.interrupted)

\* An undecided transaction that the mounted panel should know of is that panel's, and
\* stored once the panel has its hash; or it is there for the next panel to resume.
UndecidedIsHeld ==
  \A t \in DOMAIN txs : ~Settled(t) /\ ~txs[t].behind =>
    \/ Mounted.hash = t /\ (slot.tx = t \/ Mounted.pc = "store")
    \/ Mounted.pc = "loading" /\ slot.tx = t

\* The storage remembers a transaction that the mounted panel holds.
SlotIsHeld ==
  slot.tx # 0 /\ Mounted.pc # "loading" =>
    Mounted.hash = slot.tx /\ Mounted.pc # "store" /\ ~Mounted.terminal

\* Decided, and no record of it will be.
Dead(t) == txs[t].stage \in {"REVERTED", "REJECTED", "FAILED"} /\ ~txs[t].indexed

\* The records of all but one transaction are among previousCoverageIds, if they ever are.
OthersKnown(hash) == \A t \in DOMAIN txs : t # hash => t \in page.known \/ Dead(t)

OneAccount ==
  /\ wallet.account = Account
  /\ \A t \in DOMAIN txs : txs[t].from = Account
  /\ Mounted.pc \in {"chain", "known"} => Mounted.owner = Account
  /\ Mounted.pc = "send" => Mounted.expected = Account

RecordsFollowed ==
  /\ \A t \in DOMAIN txs :
       txs[t].indexed \/ Dead(t) \/ slot.tx = t \/ (Mounted.pc = "store" /\ Mounted.hash = t)
  /\ Mounted.hash # 0 \/ Mounted.pc \in {"check", "send"} => OthersKnown(Mounted.hash)
  /\ slot.tx # 0 => OthersKnown(slot.tx)
  /\ Mounted.status = "finalized" /\ ~Mounted.again => txs[Mounted.hash].indexed

Held == ~history.lost => UndecidedIsHeld
Undisturbed == ~history.lost /\ ~history.reloaded /\ ~history.switched /\ ~history.interrupted
Followed == Undisturbed => SlotIsHeld /\ RecordsFollowed
Accounted == ~history.switched /\ ~history.interrupted => OneAccount

ReviewInv == ReviewTypeOK /\ PanelsSound /\ Accounted /\ Held /\ Followed

-----------------------------------------------------------------------------
(* The panels *)

LEMMA Taken ==
  ASSUME NEW S, NEW s \in Seq(S), NEW p \in DOMAIN s
  PROVE  /\ RemoveAt(s, p) \in Seq(S) /\ Len(RemoveAt(s, p)) = Len(s) - 1
         /\ \A i \in 1 .. Len(s) - 1 : RemoveAt(s, p)[i] = IF i < p THEN s[i] ELSE s[i + 1]
<1> DEFINE a == SubSeq(s, 1, p - 1)
           b == SubSeq(s, p + 1, Len(s))
<1>1. p \in 1 .. Len(s) /\ Len(s) \in Nat /\ \A i \in 1 .. Len(s) : s[i] \in S
  BY LenProperties
<1>2. a \in Seq(S) /\ Len(a) = p - 1 /\ \A i \in 1 .. p - 1 : a[i] = s[i]
  <2>1. \A i \in 1 .. p - 1 : s[i] \in S
    BY <1>1
  <2> QED
    BY <1>1, <2>1, SubSeqProperties
<1>3. b \in Seq(S) /\ Len(b) = Len(s) - p /\ \A i \in 1 .. Len(s) - p : b[i] = s[p + i]
  <2>1. \A i \in p + 1 .. Len(s) : s[i] \in S
    BY <1>1
  <2>2. p + 1 \in Int /\ Len(s) \in Int
    BY <1>1
  <2> HIDE DEF b
  <2>3. /\ b \in Seq(S) /\ Len(b) = IF p + 1 <= Len(s) THEN Len(s) - (p + 1) + 1 ELSE 0
        /\ \A i \in 1 .. Len(s) - (p + 1) + 1 : b[i] = s[(p + 1) + i - 1]
    BY ONLY <2>1, <2>2, SubSeqProperties DEF b
  <2> QED
    BY <1>1, <2>3
<1> HIDE DEF a, b
<1>4. /\ a \o b \in Seq(S) /\ Len(a \o b) = Len(a) + Len(b)
      /\ \A i \in 1 .. Len(a) + Len(b) :
           (a \o b)[i] = IF i <= Len(a) THEN a[i] ELSE b[i - Len(a)]
  BY ONLY <1>2, <1>3, ConcatProperties
<1>5. RemoveAt(s, p) = a \o b
  BY DEF RemoveAt, a, b
<1>6. Len(a) + Len(b) = Len(s) - 1
  BY <1>1, <1>2, <1>3
<1>7. ASSUME NEW i \in 1 .. Len(s) - 1
      PROVE  (a \o b)[i] = IF i < p THEN s[i] ELSE s[i + 1]
  <2>1. (a \o b)[i] = IF i <= Len(a) THEN a[i] ELSE b[i - Len(a)]
    BY <1>4, <1>6
  <2>2. CASE i < p
    BY <1>1, <1>2, <2>1, <2>2
  <2>3. CASE i >= p
    <3>1. i - Len(a) \in 1 .. Len(s) - p /\ p + (i - Len(a)) = i + 1
      BY <1>1, <1>2, <2>3
    <3>2. b[i - Len(a)] = s[i + 1]
      BY <1>3, <3>1
    <3>3. ~(i <= Len(a)) /\ ~(i < p)
      BY <1>1, <1>2, <2>3
    <3> QED
      BY <2>1, <3>2, <3>3
  <2>4. i < p \/ i >= p
    <3>1. i \in Int /\ p \in Int
      BY <1>1
    <3> QED
      BY ONLY <3>1
  <2> QED
    BY <2>2, <2>3, <2>4
<1> QED
  BY <1>4, <1>5, <1>6, <1>7

\* Neither a task's end nor its panel's replacement changes where it was.
LEMMA EndedIs ==
  ASSUME NEW x \in PanelType
  PROVE  /\ Ended(x) \in PanelType /\ Hidden(x) \in PanelType
         /\ Ended(x).pc = x.pc /\ Ended(x).hash = x.hash /\ Ended(x).terminal = x.terminal
         /\ Ended(x).status = x.status /\ Ended(x).again = x.again
         /\ Hidden(x).pc = x.pc /\ Hidden(x).hash = x.hash /\ Hidden(x).flow = x.flow
BY DEF Ended, Hidden, PanelType, Addresses, Statuses

LEMMA MonitoringIs ==
  ASSUME NEW x \in PanelType, NEW tx \in Nat, NEW a \in Addresses
  PROVE  /\ Monitoring(x, tx, a) \in PanelType
         /\ Monitoring(x, tx, a).hash = tx /\ Monitoring(x, tx, a).pc = "status"
         /\ ~Monitoring(x, tx, a).terminal /\ Monitoring(x, tx, a).status = "processing"
<1> PICK y : y = [x EXCEPT !.hash = tx, !.address = a, !.owner = a, !.status = "processing"]
  OBVIOUS
<1>1. y \in PanelType /\ y.hash = tx /\ y.status = "processing"
  BY DEF PanelType, Statuses
<1> PICK z : z = [y EXCEPT !.terminal = FALSE, !.pc = "status", !.checked = FALSE]
  OBVIOUS
<1>2. /\ z \in PanelType /\ z.hash = tx /\ z.status = "processing"
      /\ z.pc = "status" /\ ~z.terminal
  BY ONLY <1>1, z = [y EXCEPT !.terminal = FALSE, !.pc = "status", !.checked = FALSE]
  DEF PanelType, Following
<1>3. Monitoring(x, tx, a) = [z EXCEPT !.flow = "none", !.expected = "none"]
  BY DEF Monitoring
<1>4. "none" \in Addresses
  BY DEF Addresses
<1> QED
  BY ONLY <1>2, <1>3, <1>4 DEF PanelType

\* A panel that is mounted stays so when an older one ends.
LEMMA BecomeDoes ==
  ASSUME panels \in Seq(PanelType), mounted > 0,
         NEW p \in DOMAIN panels, NEW x \in PanelType, Become(p, x)
  PROVE  /\ panels' \in Seq(PanelType) /\ mounted' > 0
         /\ p = mounted => Mounted' \in {x, Ended(x)} /\ (x.pc # "none" => Mounted' = x)
         /\ p # mounted => Mounted' = Mounted
         /\ \A y \in Detached' : y \in Detached \/ (y = Hidden(x) /\ p # mounted /\ x.pc # "none")
<1>1. mounted \in Nat /\ p \in 1 .. mounted /\ \A i \in 1 .. mounted : panels[i] \in PanelType
  BY LenProperties DEF mounted
<1>2. Ended(x) \in PanelType /\ Hidden(x) \in PanelType
  BY EndedIs
<1>3. CASE x.pc # "none" \/ p = mounted
  <2> PICK y \in {x, Ended(x), Hidden(x)} :
        /\ panels' = [panels EXCEPT ![p] = y]
        /\ p = mounted => y \in {x, Ended(x)} /\ (x.pc # "none" => y = x)
        /\ p # mounted => y = Hidden(x)
    BY <1>3 DEF Become
  <2>1. panels' \in Seq(PanelType) /\ Len(panels') = Len(panels)
        /\ \A i \in 1 .. mounted : panels'[i] = IF i = p THEN y ELSE panels[i]
    BY <1>1, <1>2, ExceptSeq DEF mounted
  <2> HIDE DEF Hidden, Ended
  <2>2. mounted' = mounted /\ Mounted' = IF p = mounted THEN y ELSE Mounted
    BY <1>1, <2>1 DEF mounted, Mounted
  <2>3. ASSUME NEW z \in Detached'
        PROVE  z \in Detached \/ (z = Hidden(x) /\ p # mounted /\ x.pc # "none")
    <3>1. PICK i \in 1 .. mounted - 1 : z = panels'[i]
      BY <2>2 DEF Detached
    <3>2. i \in 1 .. mounted /\ i # mounted
      BY <1>1
    <3> QED
      BY <1>3, <2>1, <3>1, <3>2 DEF Detached
  <2> QED
    BY <1>1, <2>1, <2>2, <2>3
<1>4. CASE x.pc = "none" /\ p # mounted
  <2>1. panels' = RemoveAt(panels, p)
    BY <1>4 DEF Become
  <2>2. panels' \in Seq(PanelType) /\ Len(panels') = mounted - 1
        /\ \A i \in 1 .. mounted - 1 : panels'[i] = IF i < p THEN panels[i] ELSE panels[i + 1]
    BY <2>1, Taken DEF mounted
  <2> QED
    BY <1>1, <1>4, <2>2 DEF mounted, Mounted, Detached
<1> QED
  BY <1>3, <1>4

\* The transactions are only added to, and a decided one stays as it is.
Grows(sent, after) ==
  /\ DOMAIN sent \subseteq DOMAIN after
  /\ \A t \in DOMAIN sent :
       sent[t].stage \in {"REVERTED", "REJECTED", "SUCCEEDED", "FAILED"} =>
         after[t].stage = sent[t].stage

LEMMA TaskStays ==
  ASSUME NEW sent, NEW after, NEW x, Task(sent, x), Grows(sent, after)
  PROVE  Task(after, x) /\ (Shown(sent, x) => Shown(after, x))
<1>1. x.hash \in {0} \cup DOMAIN after
  BY DEF Task, Grows
<1>2. /\ x.pc = "result" => x.hash # 0 /\ x.hash \in DOMAIN sent
      /\ x.pc = "index" => x.hash # 0 /\ x.hash \in DOMAIN sent
  BY DEF Task, Following
<1>3. /\ x.pc = "result" => after[x.hash].stage \in {"SUCCEEDED", "FAILED"}
      /\ x.pc = "index" => after[x.hash].stage = "SUCCEEDED"
  BY <1>2 DEF Task, Grows
<1>4. Task(after, x)
  BY <1>1, <1>3 DEF Task
<1>5. ASSUME Shown(sent, x)
      PROVE  Shown(after, x)
  <2>1. /\ x.status = "finalized" => x.hash \in DOMAIN sent
        /\ x.terminal => x.hash \in DOMAIN sent
    BY <1>5 DEF Task, Shown
  <2>2. /\ x.status = "finalized" => after[x.hash].stage = "SUCCEEDED"
        /\ x.terminal => after[x.hash].stage \in {"REVERTED", "REJECTED", "FAILED"}
    BY <1>5, <2>1 DEF Shown, Grows
  <2> QED
    BY <1>5, <2>2 DEF Shown
<1> QED
  BY <1>4, <1>5

\* What a panel is after its task ended, or after it was replaced, is as sound as before.
LEMMA TaskEnds ==
  ASSUME NEW sent, NEW x \in PanelType, Task(sent, x)
  PROVE  /\ Task(sent, Hidden(x))
         /\ x.pc = "none" /\ Shown(sent, x) => Task(sent, Ended(x)) /\ Shown(sent, Ended(x))
<1> PICK y, z : y = Hidden(x) /\ z = Ended(x)
  OBVIOUS
<1>1. y.hash = x.hash /\ y.pc = x.pc /\ y.flow = x.flow
  BY EndedIs
<1>2. Task(sent, y)
  BY <1>1 DEF Task
<1>3. ASSUME x.pc = "none", Shown(sent, x)
      PROVE  Task(sent, z) /\ Shown(sent, z)
  <2>1. z.hash = x.hash /\ z.pc = "none" /\ z.status = x.status /\ z.terminal = x.terminal
    BY <1>3, EndedIs
  <2>2. "none" \notin Asking \cup Sending \cup Following \cup {"loading"} /\ "none" # "store"
    BY DEF Asking, Sending, Following
  <2>3. Task(sent, z)
    BY <2>1, <2>2 DEF Task
  <2>4. Shown(sent, z)
    BY <1>3, <2>1, <2>2 DEF Shown
  <2> QED
    BY <2>3, <2>4
<1> QED
  BY <1>2, <1>3

\* A step of a task leaves all panels sound if it leaves its own so.
LEMMA PanelsKept ==
  ASSUME panels \in Seq(PanelType), mounted > 0, PanelsSound, Grows(txs, txs'),
         NEW p \in DOMAIN panels, NEW x \in PanelType, Become(p, x),
         Task(txs', x), p = mounted => Shown(txs', x),
         p # mounted /\ x.pc # "none" => Runs(x, history.interrupted),
         history'.interrupted = history.interrupted
  PROVE  PanelsSound'
<1>1. Task(txs', Mounted') /\ Shown(txs', Mounted')
  <2>1. CASE p = mounted
    <3>1. CASE x.pc # "none"
      BY <2>1, <3>1, BecomeDoes
    <3>2. CASE x.pc = "none"
      BY <2>1, <3>2, BecomeDoes, TaskEnds
    <3> QED
      BY <3>1, <3>2
  <2>2. CASE p # mounted
    BY <2>2, BecomeDoes, TaskStays DEF PanelsSound
  <2> QED
    BY <2>1, <2>2
<1>2. ASSUME NEW y \in Detached'
      PROVE  Task(txs', y) /\ Runs(y, history.interrupted)
  <2>1. CASE y \in Detached
    BY <2>1, TaskStays DEF PanelsSound
  <2>2. CASE y = Hidden(x) /\ p # mounted /\ x.pc # "none"
    <3>1. Task(txs', y) /\ y.pc = x.pc
      BY <2>2, TaskEnds, EndedIs
    <3> QED
      BY <2>2, <3>1 DEF Runs
  <2> QED
    BY <2>1, <2>2, BecomeDoes
<1> QED
  BY <1>1, <1>2 DEF PanelsSound, Runs

-----------------------------------------------------------------------------
(* What a step of the mounted panel or another does to what is held *)

\* The panel y holds what x held, no more and no less, and promises no more.
Keeps(x, y) ==
  /\ y.hash = x.hash /\ (y.pc = "store" <=> x.pc = "store") /\ (y.terminal => x.terminal)
  /\ y.pc = "loading" <=> x.pc = "loading"
  /\ y.pc \in {"check", "send"} => x.pc \in {"check", "send"}
  /\ y.status = "finalized" /\ ~y.again => x.status = "finalized" /\ ~x.again

LEMMA StillHeld ==
  ASSUME txs' = txs, slot' = slot, page'.known = page.known, Keeps(Mounted, Mounted'),
         history.lost => history'.lost, history.reloaded => history'.reloaded,
         history.switched => history'.switched, history.interrupted => history'.interrupted,
         Held, Followed
  PROVE  Held' /\ Followed'
<1>1. Held'
  BY DEF Held, UndecidedIsHeld, Settled, Keeps
<1>2. Undisturbed' => Undisturbed
  BY DEF Undisturbed
<1>3. SlotIsHeld => SlotIsHeld'
  BY DEF SlotIsHeld, Keeps
<1>4. RecordsFollowed => RecordsFollowed'
  BY DEF RecordsFollowed, OthersKnown, Dead, Keeps
<1> QED
  BY <1>1, <1>2, <1>3, <1>4 DEF Followed

LEMMA ThePanel ==
  ASSUME ReviewTypeOK, PanelsSound, NEW p \in DOMAIN panels
  PROVE  /\ panels[p] \in PanelType /\ Task(txs, panels[p])
         /\ p # mounted => Runs(panels[p], history.interrupted)
         /\ p = mounted => panels[p] = Mounted /\ Shown(txs, panels[p])
<1>1. p \in 1 .. mounted /\ mounted \in Nat /\ panels[p] \in PanelType
  BY LenProperties DEF ReviewTypeOK, mounted
<1>2. CASE p = mounted
  BY <1>1, <1>2 DEF PanelsSound, Mounted
<1>3. CASE p # mounted
  <2>1. panels[p] \in Detached
    BY <1>1, <1>3 DEF Detached
  <2> QED
    BY <1>1, <1>3, <2>1 DEF PanelsSound
<1> QED
  BY <1>2, <1>3

\* The address that the panel y acts for, as far as it is of account.
ActsForAccount(y) ==
  /\ y.pc \in {"chain", "known"} => y.owner = Account
  /\ y.pc = "send" => y.expected = Account

\* A step that sends nothing, stores nothing and forgets nothing.
LEMMA QuietStep ==
  ASSUME ReviewInv, NEW p \in DOMAIN panels, NEW x \in PanelType, Become(p, x),
         UNCHANGED <<txs, slot, page, history>>,
         wallet' \in [account : Accounts, ours : BOOLEAN], wallet'.account = wallet.account,
         Task(txs, x), p # mounted /\ x.pc # "none" => Runs(x, history.interrupted),
         p = mounted => Shown(txs, x) /\ Keeps(Mounted, x),
         p = mounted /\ ~history.switched /\ ~history.interrupted => ActsForAccount(x)
  PROVE  ReviewInv'
<1>1. panels' \in Seq(PanelType) /\ mounted' > 0 /\ panels \in Seq(PanelType) /\ mounted > 0
  BY BecomeDoes DEF ReviewInv, ReviewTypeOK
<1>2. ReviewTypeOK'
  BY <1>1 DEF ReviewInv, ReviewTypeOK
<1>3. PanelsSound'
  BY <1>1, PanelsKept DEF ReviewInv, Grows
<1> PICK m, n : m = Mounted /\ n = Mounted'
  OBVIOUS
<1>4. p # mounted => n = m
  BY <1>1, BecomeDoes
<1>5. p = mounted => n \in {x, Ended(x)} /\ (x.pc # "none" => n = x)
  BY <1>1, BecomeDoes
<1>6. /\ Ended(x).pc = x.pc /\ Ended(x).hash = x.hash /\ Ended(x).terminal = x.terminal
      /\ Ended(x).status = x.status /\ Ended(x).again = x.again
  BY EndedIs
<1>7. Keeps(m, n)
  BY <1>4, <1>5, <1>6 DEF Keeps
<1>8. Held' /\ Followed'
  BY <1>7, StillHeld DEF ReviewInv
<1>9. Accounted'
  <2> SUFFICES ASSUME ~history.switched, ~history.interrupted
               PROVE  OneAccount'
    BY DEF Accounted
  <2>1. ActsForAccount(m) /\ OneAccount
    BY DEF ReviewInv, Accounted, OneAccount, ActsForAccount
  <2>2. ActsForAccount(n)
    BY <1>4, <1>5, <1>6, <2>1, Zenon DEF ActsForAccount
  <2> QED
    BY <2>1, <2>2 DEF OneAccount, ActsForAccount
<1> QED
  BY <1>2, <1>3, <1>8, <1>9 DEF ReviewInv

\* A step at which the storage forgets a transaction that ended.
LEMMA ForgettingStep ==
  ASSUME ReviewInv, NEW p \in DOMAIN panels, NEW x \in PanelType, Become(p, x), RemoveItem(p),
         UNCHANGED <<wallet, txs>>, page' \in [known : SUBSET Nat, stale : BOOLEAN],
         page'.known = page.known, Task(txs, x), p = mounted => Shown(txs, x),
         x.pc = "none", x.hash = panels[p].hash, panels[p].pc \in Following,
         x.hash # 0, Settled(x.hash),
         Undisturbed =>
           /\ slot.tx = x.hash => txs[x.hash].indexed \/ Dead(x.hash)
           /\ p = mounted /\ x.status = "finalized" /\ ~x.again => txs[x.hash].indexed
  PROVE  ReviewInv'
<1>1. panels' \in Seq(PanelType) /\ mounted' > 0 /\ panels \in Seq(PanelType) /\ mounted > 0
  BY BecomeDoes DEF ReviewInv, ReviewTypeOK
<1>8. /\ slot' = Empty /\ slot'.tx = 0 /\ history' \in HistoryType
      /\ history.lost => history'.lost
      /\ ~history'.lost => slot.tx \in {0, x.hash}
      /\ history'.reloaded = history.reloaded /\ history'.switched = history.switched
      /\ history'.interrupted = history.interrupted
  BY DEF RemoveItem, Empty, ReviewInv, ReviewTypeOK, HistoryType
<1>2. ReviewTypeOK'
  BY <1>1, <1>8 DEF ReviewInv, ReviewTypeOK
<1>3. PanelsSound'
  BY <1>1, <1>8, PanelsKept DEF ReviewInv, Grows
<1> PICK m, n : m = Mounted /\ n = Mounted'
  OBVIOUS
<1>4. p # mounted => n = m
  BY <1>1, BecomeDoes
<1>5. p = mounted => n \in {x, Ended(x)} /\ m.hash = x.hash /\ m.pc \notin {"store", "loading"}
  BY <1>1, BecomeDoes DEF Mounted, Following
<1>6. /\ Ended(x).pc = x.pc /\ Ended(x).hash = x.hash /\ Ended(x).terminal = x.terminal
      /\ Ended(x).status = x.status /\ Ended(x).again = x.again
  BY EndedIs
<1>7. /\ n.hash = m.hash /\ (m.pc \in {"store", "loading"} => n = m)
      /\ n = m \/ (n.pc = "none" /\ n.hash = x.hash /\ n.status = x.status /\ n.again = x.again
                  /\ p = mounted)
  BY <1>4, <1>5, <1>6
<1>9. Held'
  BY <1>7, <1>8 DEF ReviewInv, Held, UndecidedIsHeld, Settled
<1>10. Followed'
  <2> SUFFICES ASSUME Undisturbed'
               PROVE  SlotIsHeld' /\ RecordsFollowed'
    BY DEF Followed
  <2>1. RecordsFollowed /\ Undisturbed /\ ~history'.lost
    BY <1>8 DEF ReviewInv, Followed, Undisturbed
  <2>2. ASSUME NEW t \in DOMAIN txs
        PROVE  txs[t].indexed \/ Dead(t) \/ (n.pc = "store" /\ n.hash = t)
    <3>1. t # 0
      BY LenProperties DEF ReviewInv, ReviewTypeOK
    <3> QED
      BY <1>7, <1>8, <2>1, <3>1 DEF RecordsFollowed
  <2>3. n.hash # 0 \/ n.pc \in {"check", "send"} => OthersKnown(n.hash)
    BY <1>7, <2>1 DEF RecordsFollowed
  <2>4. n.status = "finalized" /\ ~n.again => txs[n.hash].indexed
    BY <1>7, <1>8, <2>1 DEF RecordsFollowed
  <2> QED
    BY <1>8, <2>2, <2>3, <2>4 DEF SlotIsHeld, RecordsFollowed, OthersKnown, Dead
<1>11. Accounted'
  BY <1>7, <1>8 DEF ReviewInv, Accounted, OneAccount
<1> QED
  BY <1>2, <1>3, <1>9, <1>10, <1>11 DEF ReviewInv

-----------------------------------------------------------------------------
(* The tasks before a transaction is sent *)

\* A panel that reviews, signs or sends is mounted, or its task was interrupted.
LEMMA BusyPanel ==
  ASSUME ReviewInv, NEW p \in DOMAIN panels, panels[p].pc \in Asking \cup Sending
  PROVE  /\ panels[p] \in PanelType /\ Task(txs, panels[p])
         /\ p = mounted => panels[p] = Mounted /\ Shown(txs, panels[p])
         /\ p # mounted => history.interrupted
         /\ p = mounted /\ ~history.switched /\ ~history.interrupted =>
              ActsForAccount(panels[p]) /\ wallet.account = Account
<1>1. ReviewTypeOK /\ PanelsSound
  BY DEF ReviewInv
<1>2. p # mounted => history.interrupted
  BY <1>1, ThePanel DEF Runs, Asking, Sending, Following
<1>3. p = mounted /\ ~history.switched /\ ~history.interrupted =>
        ActsForAccount(panels[p]) /\ wallet.account = Account
  BY <1>1, ThePanel DEF ReviewInv, Accounted, OneAccount, ActsForAccount
<1> QED
  BY <1>1, <1>2, <1>3, ThePanel

LEMMA AskingKeeps ==
  ASSUME ReviewInv, NEW p \in DOMAIN panels,
         \/ SwitchToFaultPact(p) \/ ConnectWallet(p) \/ WalletChainId(p)
         \/ GetStudioFeePreset(p) \/ CheckSender(p) \/ Refuse(p)
  PROVE  ReviewInv'
<1> PICK m : m = panels[p]
  OBVIOUS
<1>1. panels[p].pc \in Asking \cup Sending
  BY DEF SwitchToFaultPact, ConnectWallet, WalletChainId, GetStudioFeePreset, CheckSender,
         Refuse, Asking, Sending
<1>2. /\ m \in PanelType /\ Task(txs, m) /\ (p = mounted => m = Mounted /\ Shown(txs, m))
      /\ p # mounted => history.interrupted
      /\ p = mounted /\ ~history.switched /\ ~history.interrupted =>
           ActsForAccount(m) /\ wallet.account = Account
  BY <1>1, BusyPanel
<1>3. /\ wallet \in [account : Accounts, ours : BOOLEAN] /\ wallet.account \in Addresses
  BY DEF ReviewInv, ReviewTypeOK, Addresses
<1>q. ASSUME NEW x \in PanelType, Become(p, x), UNCHANGED <<txs, slot, page, history>>,
             wallet' \in [account : Accounts, ours : BOOLEAN], wallet'.account = wallet.account,
             Task(txs, x), x.pc \in Asking \cup {"send", "none"},
             p = mounted => Shown(txs, x) /\ Keeps(m, x),
             p = mounted /\ ~history.switched /\ ~history.interrupted => ActsForAccount(x)
      PROVE  ReviewInv'
  <2>1. p # mounted /\ x.pc # "none" => Runs(x, history.interrupted)
    BY <1>2, <1>q DEF Runs, Sending
  <2> QED
    BY <1>2, <1>q, <2>1, QuietStep
<1>4. CASE SwitchToFaultPact(p)
  <2> PICK x : x = [m EXCEPT !.pc = "accounts"]
    OBVIOUS
  <2>1. Become(p, x) /\ UNCHANGED <<txs, slot, page, history>> /\ m.pc = "switch"
        /\ wallet' = [wallet EXCEPT !.ours = TRUE]
    BY <1>4 DEF SwitchToFaultPact, Go
  <2>2. x \in PanelType /\ Keeps(m, x) /\ ActsForAccount(x) /\ x.pc \in Asking
    BY <1>2, <2>1 DEF PanelType, Keeps, ActsForAccount, Asking
  <2>3. Task(txs, x)
    BY <1>2, <2>1 DEF Task, PanelType, Asking, Sending, Following
  <2>4. p = mounted => Shown(txs, x)
    BY <1>2, <2>1 DEF Task, Shown, PanelType, Asking, Sending, Following
  <2>5. wallet' \in [account : Accounts, ours : BOOLEAN] /\ wallet'.account = wallet.account
    BY <1>3, <2>1
  <2> QED
    BY <1>q, <2>1, <2>2, <2>3, <2>4, <2>5
<1>5. CASE ConnectWallet(p)
  <2> PICK x : x = [m EXCEPT !.owner = wallet.account, !.pc = "chain"]
    OBVIOUS
  <2>1. Become(p, x) /\ UNCHANGED <<wallet, txs, slot, page, history>> /\ m.pc = "accounts"
    BY <1>5 DEF ConnectWallet
  <2>2. x \in PanelType /\ Keeps(m, x) /\ x.pc = "chain" /\ x.owner = wallet.account
    BY <1>2, <1>3, <2>1 DEF PanelType, Keeps, Asking
  <2>3. Task(txs, x)
    BY <1>2, <2>1 DEF Task, PanelType, Asking, Sending, Following
  <2>4. p = mounted => Shown(txs, x)
    BY <1>2, <2>1 DEF Task, Shown, PanelType, Asking, Sending, Following
  <2>5. p = mounted /\ ~history.switched /\ ~history.interrupted => ActsForAccount(x)
    BY <1>2, <2>2 DEF ActsForAccount
  <2> QED
    BY <1>q, <1>3, <2>1, <2>2, <2>3, <2>4, <2>5 DEF Asking
<1>6. CASE WalletChainId(p)
  <2> PICK pc \in {"known", "none"}, status \in Statuses :
        /\ Become(p, [m EXCEPT !.address = m.owner, !.pc = pc, !.status = status])
        /\ status = m.status \/ (pc = "none" /\ status = "wrongNetwork")
        /\ pc = "none" => status = "wrongNetwork"
    <3>1. m.status \in Statuses /\ "wrongNetwork" \in Statuses
      BY <1>2 DEF PanelType, Statuses
    <3>2. CASE wallet.ours
      <4>1. Become(p, [m EXCEPT !.address = m.owner, !.pc = "known", !.status = m.status])
        BY <1>6, <3>2 DEF WalletChainId
      <4> QED
        BY <3>1, <4>1
    <3>3. CASE ~wallet.ours
      <4>1. Become(p, [m EXCEPT !.address = m.owner, !.pc = "none", !.status = "wrongNetwork"])
        BY <1>6, <3>3 DEF WalletChainId
      <4> QED
        BY <3>1, <4>1
    <3> QED
      BY <3>2, <3>3
  <2> PICK x : x = [m EXCEPT !.address = m.owner, !.pc = pc, !.status = status]
    OBVIOUS
  <2>1. Become(p, x) /\ UNCHANGED <<wallet, txs, slot, page, history>> /\ m.pc = "chain"
    BY <1>6 DEF WalletChainId
  <2>2. /\ x \in PanelType /\ x.pc = pc /\ x.status = status /\ x.hash = m.hash
        /\ x.owner = m.owner /\ x.terminal = m.terminal /\ x.flow = m.flow
    BY <1>2 DEF PanelType, Asking
  <2>3. p = mounted /\ ~history.switched /\ ~history.interrupted => ActsForAccount(x)
    BY <1>2, <2>1, <2>2 DEF ActsForAccount
  <2>4. Task(txs, x)
    BY <1>2, <2>1, <2>2 DEF Task, Asking, Sending, Following
  <2>5. p = mounted => Shown(txs, x) /\ Keeps(m, x)
    <3>1. p = mounted => m.status # "finalized" /\ ~m.terminal
      BY <1>2, <2>1 DEF Shown, Asking
    <3>2. m.hash = 0
      BY <1>2, <2>1 DEF Task, Asking
    <3>3. p = mounted => Shown(txs, x)
      BY <1>2, <2>1, <2>2, <3>1, <3>2 DEF Shown, Asking, Sending, Following
    <3>4. p = mounted => Keeps(m, x)
      BY <2>1, <2>2, <3>1 DEF Keeps
    <3> QED
      BY <3>3, <3>4
  <2>6. x.pc \in Asking \cup {"none"}
    BY <2>2 DEF Asking
  <2> QED
    BY <1>q, <1>3, <2>1, <2>2, <2>3, <2>4, <2>5, <2>6
<1>7. CASE GetStudioFeePreset(p)
  <2> PICK x : x = [m EXCEPT !.status = "ready", !.pc = "none"]
    OBVIOUS
  <2>1. Become(p, x) /\ UNCHANGED <<wallet, txs, slot, page, history>> /\ m.pc = "fees"
    BY <1>7 DEF GetStudioFeePreset, Stop
  <2>2. x \in PanelType /\ Keeps(m, x) /\ ActsForAccount(x) /\ x.pc = "none"
    BY <1>2, <2>1 DEF PanelType, Keeps, ActsForAccount, Statuses
  <2>3. Task(txs, x)
    BY <1>2, <2>1 DEF Task, PanelType, Asking, Sending, Following
  <2>4. p = mounted => Shown(txs, x)
    BY <1>2, <2>1 DEF Task, Shown, PanelType, Asking, Sending, Following
  <2> QED
    BY <1>q, <1>3, <2>1, <2>2, <2>3, <2>4
<1>8. CASE CheckSender(p) /\ wallet.account = m.expected /\ wallet.ours
  <2> PICK x : x = [m EXCEPT !.pc = "send"]
    OBVIOUS
  <2>1. Become(p, x) /\ UNCHANGED <<wallet, txs, slot, page, history>> /\ m.pc = "check"
    BY <1>8 DEF CheckSender, Go
  <2>2. x \in PanelType /\ Keeps(m, x) /\ x.pc = "send" /\ x.expected = wallet.account
    BY <1>2, <1>8, <2>1 DEF PanelType, Keeps, Sending
  <2>3. Task(txs, x)
    BY <1>2, <2>1 DEF Task, PanelType, Asking, Sending, Following
  <2>4. p = mounted => Shown(txs, x)
    BY <1>2, <2>1 DEF Task, Shown, PanelType, Asking, Sending, Following
  <2>5. p = mounted /\ ~history.switched /\ ~history.interrupted => ActsForAccount(x)
    BY <1>2, <2>2 DEF ActsForAccount
  <2> QED
    BY <1>q, <1>3, <2>1, <2>2, <2>3, <2>4, <2>5
<1>9. CASE (CheckSender(p) /\ ~(wallet.account = m.expected /\ wallet.ours)) \/ Refuse(p)
  <2> PICK x : x = [m EXCEPT !.status = "error", !.pc = "none"]
    OBVIOUS
  <2>1. Become(p, x) /\ UNCHANGED <<wallet, txs, slot, page, history>> /\ m.pc \in {"check", "send"}
    BY <1>9 DEF CheckSender, Refuse, Stop
  <2>2. x \in PanelType /\ Keeps(m, x) /\ ActsForAccount(x) /\ x.pc = "none"
    BY <1>2, <2>1 DEF PanelType, Keeps, ActsForAccount, Statuses
  <2>3. Task(txs, x)
    BY <1>2, <2>1 DEF Task, PanelType, Asking, Sending, Following
  <2>4. p = mounted => Shown(txs, x)
    BY <1>2, <2>1 DEF Task, Shown, PanelType, Asking, Sending, Following
  <2> QED
    BY <1>q, <1>3, <2>1, <2>2, <2>3, <2>4
<1> QED
  BY <1>4, <1>5, <1>6, <1>7, <1>8, <1>9

\* previousCoverageIds are noted when every record there will be is listed.
LEMMA NotingKeeps ==
  ASSUME ReviewInv, NEW p \in DOMAIN panels, OnWalletConnected(p)
  PROVE  ReviewInv'
<1> PICK m : m = panels[p]
  OBVIOUS
<1>1. m.pc = "known" /\ m.pc \in Asking
  BY DEF OnWalletConnected, Asking
<1>2. /\ m \in PanelType /\ Task(txs, m) /\ (p = mounted => m = Mounted /\ Shown(txs, m))
      /\ p # mounted => history.interrupted
  BY <1>1, BusyPanel
<1>3. PICK pc \in {"check", "fees"} :
        Become(p, [m EXCEPT !.pc = pc]) /\ (pc = "check" => m.flow = "sign")
  <2>1. CASE m.flow = "sign"
    <3>1. Become(p, [m EXCEPT !.pc = "check"])
      BY <2>1 DEF OnWalletConnected, Go
    <3> QED
      BY <2>1, <3>1
  <2>2. CASE m.flow # "sign"
    <3>1. Become(p, [m EXCEPT !.pc = "fees"])
      BY <2>2 DEF OnWalletConnected, Go
    <3> QED
      BY <3>1
  <2> QED
    BY <2>1, <2>2
<1> PICK x : x = [m EXCEPT !.pc = pc]
  OBVIOUS
<1>4. /\ UNCHANGED <<wallet, txs, slot, history>> /\ page'.known = Listed(m.owner)
      /\ page' \in [known : SUBSET Nat, stale : BOOLEAN]
  <2>1. Listed(m.owner) \subseteq Nat
    BY LenProperties DEF ReviewInv, ReviewTypeOK, Listed
  <2> QED
    BY <2>1 DEF OnWalletConnected, ReviewInv, ReviewTypeOK
<1>5. x \in PanelType /\ x.pc \in {"check", "fees"} /\ x.hash = m.hash /\ x.terminal = m.terminal
      /\ x.status = m.status
  BY <1>2 DEF PanelType, Asking, Sending
<1>6. m.hash = 0 /\ (p = mounted => m.status # "finalized" /\ ~m.terminal)
  BY <1>1, <1>2 DEF Task, Shown, Asking, Following
<1>7. Task(txs, x) /\ (p = mounted => Shown(txs, x))
  BY <1>1, <1>2, <1>3 DEF Task, Shown, PanelType, Asking, Sending, Following
<1>8. /\ panels' \in Seq(PanelType) /\ mounted' > 0
      /\ p = mounted => Mounted' = x
      /\ p # mounted => Mounted' = Mounted
  BY <1>2, <1>3, <1>5, BecomeDoes DEF ReviewInv, ReviewTypeOK
<1>9. ReviewTypeOK'
  BY <1>4, <1>8 DEF ReviewInv, ReviewTypeOK
<1>10. PanelsSound'
  <2>1. p # mounted => Runs(x, history.interrupted)
    BY <1>2, <1>5 DEF Runs, Asking, Sending
  <2> QED
    BY <1>2, <1>3, <1>4, <1>5, <1>7, <2>1, PanelsKept DEF ReviewInv, ReviewTypeOK, Grows
<1>11. Held'
  BY <1>1, <1>2, <1>4, <1>5, <1>6, <1>8 DEF ReviewInv, Held, UndecidedIsHeld, Settled
<1>12. Followed'
  <2> SUFFICES ASSUME Undisturbed
               PROVE  SlotIsHeld' /\ RecordsFollowed'
    BY <1>4 DEF Followed, Undisturbed
  <2>1. RecordsFollowed /\ SlotIsHeld /\ OneAccount /\ p = mounted /\ m = Mounted
    BY <1>2 DEF ReviewInv, Followed, Accounted, Undisturbed
  <2>2. slot.tx = 0
    BY <1>1, <1>6, <2>1 DEF SlotIsHeld, ReviewInv, ReviewTypeOK
  <2>3. ASSUME NEW t \in DOMAIN txs
        PROVE  txs[t].indexed \/ Dead(t)
    <3>1. t # 0
      BY LenProperties DEF ReviewInv, ReviewTypeOK
    <3> QED
      BY <1>1, <2>1, <2>2, <3>1 DEF RecordsFollowed
  <2>4. \A t \in DOMAIN txs : txs[t].indexed => t \in page'.known
    BY <1>1, <1>4, <2>1 DEF OneAccount, Listed
  <2> QED
    BY <1>4, <1>5, <1>6, <1>8, <2>1, <2>2, <2>3, <2>4
    DEF SlotIsHeld, RecordsFollowed, OthersKnown, Dead
<1>13. Accounted'
  BY <1>2, <1>4, <1>5, <1>8 DEF ReviewInv, Accounted, OneAccount
<1> QED
  BY <1>9, <1>10, <1>11, <1>12, <1>13 DEF ReviewInv

\* A transaction is sent by the mounted panel when every earlier one is decided; one that an
\* older panel sends is behind the mounted one's back.
LEMMA ConfirmKeeps ==
  ASSUME ReviewInv, NEW p \in DOMAIN panels, Confirm(p)
  PROVE  ReviewInv'
<1> PICK m : m = panels[p]
  OBVIOUS
<1> PICK x : x = [m EXCEPT !.hash = Len(txs) + 1, !.pc = "store"]
  OBVIOUS
<1> PICK tx : tx = [from |-> m.expected, stage |-> "UNKNOWN", indexed |-> FALSE,
                    behind |-> p # mounted]
  OBVIOUS
<1>1. m.pc = "send" /\ Become(p, x) /\ txs' = Append(txs, tx)
      /\ UNCHANGED <<wallet, slot, page, history>>
  BY DEF Confirm
<1>2. /\ m \in PanelType /\ Task(txs, m) /\ (p = mounted => m = Mounted /\ Shown(txs, m))
      /\ p # mounted => history.interrupted
      /\ p = mounted /\ ~history.switched /\ ~history.interrupted => ActsForAccount(m)
  BY <1>1, BusyPanel DEF Sending
<1>3. tx \in TxType /\ tx.stage = "UNKNOWN" /\ ~tx.indexed /\ tx.from = m.expected
      /\ tx.behind = (p # mounted)
  BY <1>2 DEF PanelType, TxType, Stages
<1> PICK new : new = Len(txs) + 1
  OBVIOUS
<1>4. /\ txs \in Seq(TxType) /\ DOMAIN txs = 1 .. Len(txs) /\ Len(txs) \in Nat
      /\ new \in Nat \ {0} /\ new \notin DOMAIN txs
  BY LenProperties DEF ReviewInv, ReviewTypeOK
<1>5. /\ txs' \in Seq(TxType) /\ DOMAIN txs' = DOMAIN txs \cup {new} /\ txs'[new] = tx
      /\ \A t \in DOMAIN txs : txs'[t] = txs[t]
  <2>1. /\ txs' \in Seq(TxType) /\ Len(txs') = Len(txs) + 1 /\ txs'[Len(txs) + 1] = tx
        /\ \A t \in 1 .. Len(txs) : txs'[t] = txs[t]
    BY <1>1, <1>3, <1>4, AppendProperties
  <2>2. DOMAIN txs' = 1 .. Len(txs')
    BY <2>1, LenProperties
  <2> QED
    BY <1>4, <2>1, <2>2
<1>6. /\ x \in PanelType /\ x.hash = new /\ x.pc = "store" /\ x.status = m.status
      /\ x.terminal = m.terminal /\ x.flow = m.flow
  BY <1>2, <1>4 DEF PanelType, Sending
<1>7. /\ m.hash = 0 /\ m.flow = "sign"
      /\ p = mounted => m.status = "signing" /\ ~m.terminal
  BY <1>1, <1>2 DEF Task, Shown, Sending, Following
<1>8. Grows(txs, txs')
  BY <1>5 DEF Grows
<1>9. Task(txs', x) /\ (p = mounted => Shown(txs', x))
  BY <1>4, <1>5, <1>6, <1>7 DEF Task, Shown, Asking, Sending, Following
<1>10. /\ panels' \in Seq(PanelType) /\ mounted' > 0
       /\ p = mounted => Mounted' = x
       /\ p # mounted => Mounted' = Mounted
  BY <1>1, <1>2, <1>6, BecomeDoes DEF ReviewInv, ReviewTypeOK
<1>11. ReviewTypeOK'
  BY <1>1, <1>5, <1>10 DEF ReviewInv, ReviewTypeOK
<1>12. PanelsSound'
  <2>1. p # mounted => Runs(x, history.interrupted)
    BY <1>2, <1>6 DEF Runs, Sending
  <2> QED
    BY <1>1, <1>2, <1>6, <1>8, <1>9, <2>1, PanelsKept DEF ReviewInv, ReviewTypeOK
<1>13. Held'
  <2> SUFFICES ASSUME ~history.lost, NEW t \in DOMAIN txs', ~Settled(t)', ~txs'[t].behind
               PROVE  (\/ Mounted.hash = t /\ (slot.tx = t \/ Mounted.pc = "store")
                       \/ Mounted.pc = "loading" /\ slot.tx = t)'
    BY <1>1 DEF Held, UndecidedIsHeld
  <2>1. CASE t = new
    BY <1>3, <1>5, <1>6, <1>10, <2>1
  <2>2. CASE t \in DOMAIN txs
    <3>1. /\ ~Settled(t) /\ ~txs[t].behind /\ t # 0
      BY <1>4, <1>5, <2>2 DEF Settled
    <3>2. \/ Mounted.hash = t /\ (slot.tx = t \/ Mounted.pc = "store")
          \/ Mounted.pc = "loading" /\ slot.tx = t
      BY <2>2, <3>1 DEF ReviewInv, Held, UndecidedIsHeld
    <3>3. p # mounted
      BY <1>1, <1>2, <1>7, <3>1, <3>2
    <3> QED
      BY <1>1, <1>10, <3>2, <3>3
  <2> QED
    BY <1>5, <2>1, <2>2
<1>14. Followed'
  <2> SUFFICES ASSUME Undisturbed
               PROVE  SlotIsHeld' /\ RecordsFollowed'
    BY <1>1 DEF Followed, Undisturbed
  <2>1. RecordsFollowed /\ SlotIsHeld /\ p = mounted /\ m = Mounted /\ Mounted' = x
    BY <1>2, <1>10 DEF ReviewInv, Followed, Undisturbed
  <2>2. OthersKnown(0)
    BY <1>1, <1>7, <2>1 DEF RecordsFollowed
  <2>3. slot.tx = 0 /\ \A t \in DOMAIN txs : txs[t].indexed \/ Dead(t) \/ slot.tx = t
    BY <1>1, <1>7, <2>1 DEF RecordsFollowed, SlotIsHeld
  <2>4. OthersKnown(new)'
    BY <1>1, <1>4, <1>5, <2>2 DEF OthersKnown, Dead
  <2> QED
    BY <1>1, <1>5, <1>6, <1>7, <2>1, <2>3, <2>4 DEF SlotIsHeld, RecordsFollowed, Dead
<1>15. Accounted'
  <2> SUFFICES ASSUME ~history.switched, ~history.interrupted
               PROVE  OneAccount'
    BY <1>1 DEF Accounted
  <2>1. OneAccount /\ p = mounted /\ m.expected = Account
    BY <1>1, <1>2 DEF ReviewInv, Accounted, ActsForAccount
  <2>2. wallet'.account = Account /\ Mounted'.pc = "store"
    BY <1>1, <1>6, <1>10, <2>1 DEF OneAccount
  <2>3. \A t \in DOMAIN txs' : txs'[t].from = Account
    BY <1>3, <1>5, <2>1 DEF OneAccount
  <2> QED
    BY <2>2, <2>3 DEF OneAccount
<1> QED
  BY <1>11, <1>12, <1>13, <1>14, <1>15 DEF ReviewInv

LEMMA StoreKeeps ==
  ASSUME ReviewInv, NEW p \in DOMAIN panels, Store(p)
  PROVE  ReviewInv'
<1> PICK m : m = panels[p]
  OBVIOUS
<1> PICK x : x = Monitoring(m, m.hash, m.owner)
  OBVIOUS
<1>1. m.pc = "store" /\ Become(p, x) /\ slot' = [tx |-> m.hash, address |-> m.owner]
      /\ history' = [history EXCEPT !.lost = history.lost \/ slot.tx \notin {0, m.hash}]
      /\ UNCHANGED <<wallet, txs, page>>
  BY DEF Store
<1>2. /\ m \in PanelType /\ Task(txs, m) /\ (p = mounted => m = Mounted /\ Shown(txs, m))
      /\ p # mounted => history.interrupted
  BY <1>1, BusyPanel DEF Sending
<1>3. /\ x \in PanelType /\ x.hash = m.hash /\ x.pc = "status" /\ ~x.terminal
      /\ x.status = "processing"
  <2>1. m.hash \in Nat /\ m.owner \in Addresses
    BY <1>2 DEF PanelType
  <2> QED
    BY <1>2, <2>1, MonitoringIs
<1>4. m.hash \in DOMAIN txs /\ m.hash # 0 /\ m.owner \in Addresses /\ slot'.tx = m.hash
  <2>1. slot'.tx = m.hash
    BY <1>1
  <2>2. m.hash \in DOMAIN txs /\ m.hash # 0
    BY <1>1, <1>2 DEF Task
  <2>3. m.owner \in Addresses
    BY <1>2 DEF PanelType
  <2> QED
    BY <2>1, <2>2, <2>3
<1>5. Task(txs, x) /\ Shown(txs, x) /\ Runs(x, history.interrupted)
  BY <1>3, <1>4 DEF Task, Shown, Runs, Asking, Sending, Following
<1>6. /\ panels' \in Seq(PanelType) /\ mounted' > 0
      /\ p = mounted => Mounted' = x
      /\ p # mounted => Mounted' = Mounted
  BY <1>1, <1>2, <1>3, BecomeDoes DEF ReviewInv, ReviewTypeOK
<1>7. /\ history' \in HistoryType /\ history'.interrupted = history.interrupted
      /\ history'.switched = history.switched /\ history'.reloaded = history.reloaded
      /\ ~history'.lost => ~history.lost /\ slot.tx \in {0, m.hash}
  BY <1>1 DEF ReviewInv, ReviewTypeOK, HistoryType
<1>8. ReviewTypeOK'
  BY <1>1, <1>4, <1>6, <1>7 DEF ReviewInv, ReviewTypeOK
<1>9. PanelsSound'
  BY <1>1, <1>2, <1>3, <1>5, <1>7, PanelsKept DEF ReviewInv, ReviewTypeOK, Grows
<1>10. Held'
  <2> SUFFICES ASSUME ~history'.lost, NEW t \in DOMAIN txs, ~Settled(t), ~txs[t].behind
               PROVE  (\/ Mounted.hash = t /\ (slot.tx = t \/ Mounted.pc = "store")
                       \/ Mounted.pc = "loading" /\ slot.tx = t)'
    BY <1>1 DEF Held, UndecidedIsHeld, Settled
  <2>1. t # 0
    BY LenProperties DEF ReviewInv, ReviewTypeOK
  <2>2. \/ Mounted.hash = t /\ (slot.tx = t \/ Mounted.pc = "store")
        \/ Mounted.pc = "loading" /\ slot.tx = t
    BY <1>7 DEF ReviewInv, Held, UndecidedIsHeld
  <2>3. CASE p = mounted
    BY <1>1, <1>2, <1>3, <1>4, <1>6, <2>2, <2>3
  <2>4. CASE p # mounted
    BY <1>4, <1>6, <1>7, <2>1, <2>2, <2>4
  <2> QED
    BY <2>3, <2>4
<1>11. Followed'
  <2> SUFFICES ASSUME Undisturbed'
               PROVE  SlotIsHeld' /\ RecordsFollowed'
    BY DEF Followed
  <2>1. RecordsFollowed /\ SlotIsHeld /\ p = mounted /\ m = Mounted /\ Mounted' = x
    BY <1>2, <1>6, <1>7 DEF ReviewInv, Followed, Undisturbed
  <2>2. slot.tx = 0 /\ \A t \in DOMAIN txs : t # 0
    BY <1>1, <2>1, LenProperties DEF ReviewInv, ReviewTypeOK, SlotIsHeld
  <2>3. \A t \in DOMAIN txs : txs[t].indexed \/ Dead(t) \/ t = m.hash
    BY <2>1, <2>2 DEF RecordsFollowed
  <2>4. OthersKnown(m.hash)
    BY <1>4, <2>1, <2>2 DEF RecordsFollowed
  <2>5. SlotIsHeld'
    BY <1>3, <1>4, <2>1 DEF SlotIsHeld
  <2>6. (\A t \in DOMAIN txs :
           txs[t].indexed \/ Dead(t) \/ slot.tx = t \/ (Mounted.pc = "store" /\ Mounted.hash = t))'
    BY <1>1, <1>4, <2>3 DEF Dead
  <2>7. OthersKnown(m.hash)'
    BY <1>1, <2>4 DEF OthersKnown, Dead
  <2> QED
    BY <1>3, <1>4, <2>1, <2>5, <2>6, <2>7 DEF RecordsFollowed
<1>12. Accounted'
  BY <1>1, <1>3, <1>6, <1>7 DEF ReviewInv, Accounted, OneAccount
<1> QED
  BY <1>8, <1>9, <1>10, <1>11, <1>12 DEF ReviewInv

-----------------------------------------------------------------------------
(* The wait for a transaction *)

\* A panel goes on waiting, or gives up for now.
LEMMA WaitsOn ==
  ASSUME ReviewInv, NEW p \in DOMAIN panels, panels[p].pc \in Following,
         UNCHANGED <<wallet, txs, slot, page, history>>,
         \/ Become(p, [panels[p] EXCEPT !.checked = TRUE, !.pc = "receipt"])
         \/ Become(p, [panels[p] EXCEPT !.pc = "status"])
         \/ /\ stage(p) \in {"SUCCEEDED", "FAILED"}
            /\ Become(p, [panels[p] EXCEPT !.pc = "result"])
         \/ /\ stage(p) = "SUCCEEDED"
            /\ Become(p, [panels[p] EXCEPT !.status = "converging", !.pc = "index"])
         \/ Become(p, [panels[p] EXCEPT !.status = "error", !.again = FALSE, !.pc = "none"])
         \/ /\ panels[p].pc = "index"
            /\ Become(p, [panels[p] EXCEPT !.status = "finalized", !.again = TRUE, !.pc = "none"])
  PROVE  ReviewInv'
<1> PICK m : m = panels[p]
  OBVIOUS
<1>1. /\ m \in PanelType /\ Task(txs, m) /\ m.pc \in Following
      /\ p = mounted => m = Mounted /\ Shown(txs, m)
      /\ wallet \in [account : Accounts, ours : BOOLEAN]
  BY ThePanel DEF ReviewInv, ReviewTypeOK
<1>2. /\ m.hash # 0 /\ m.hash \in DOMAIN txs /\ stage(p) = txs[m.hash].stage
      /\ p = mounted => ~m.terminal /\ m.status \in {"processing", "converging"}
  BY <1>1 DEF Task, Shown, Following, stage
<1> DEFINE Waits(x) ==
      /\ x \in PanelType /\ x.hash = m.hash /\ x.terminal = m.terminal
      /\ \/ x.pc \in {"status", "receipt"} /\ x.status = m.status
         \/ /\ x.pc = "result" /\ x.status = m.status /\ stage(p) \in {"SUCCEEDED", "FAILED"}
         \/ x.pc = "index" /\ x.status = "converging" /\ stage(p) = "SUCCEEDED"
         \/ x.pc = "none" /\ x.status = "error"
         \/ x.pc = "none" /\ x.status = "finalized" /\ x.again /\ stage(p) = "SUCCEEDED"
<1>3. PICK x : Become(p, x) /\ Waits(x)
  <2>1. CASE Become(p, [m EXCEPT !.checked = TRUE, !.pc = "receipt"])
    <3> PICK x : x = [m EXCEPT !.checked = TRUE, !.pc = "receipt"]
      OBVIOUS
    <3>1. x \in PanelType /\ x.hash = m.hash /\ x.terminal = m.terminal /\ x.status = m.status /\ x.pc = "receipt"
      BY <1>1, <1>2 DEF PanelType, Statuses, Following
    <3>2. Waits(x)
      BY <1>2, <2>1, <3>1
    <3> QED
      BY <2>1, <3>2
  <2>2. CASE Become(p, [m EXCEPT !.pc = "status"])
    <3> PICK x : x = [m EXCEPT !.pc = "status"]
      OBVIOUS
    <3>1. x \in PanelType /\ x.hash = m.hash /\ x.terminal = m.terminal /\ x.status = m.status /\ x.pc = "status"
      BY <1>1, <1>2 DEF PanelType, Statuses, Following
    <3>2. Waits(x)
      BY <1>2, <2>2, <3>1
    <3> QED
      BY <2>2, <3>2
  <2>3. CASE stage(p) \in {"SUCCEEDED", "FAILED"} /\ Become(p, [m EXCEPT !.pc = "result"])
    <3> PICK x : x = [m EXCEPT !.pc = "result"]
      OBVIOUS
    <3>1. x \in PanelType /\ x.hash = m.hash /\ x.terminal = m.terminal /\ x.status = m.status /\ x.pc = "result"
      BY <1>1, <1>2 DEF PanelType, Statuses, Following
    <3>2. Waits(x)
      BY <1>2, <2>3, <3>1
    <3> QED
      BY <2>3, <3>2
  <2>4. CASE stage(p) = "SUCCEEDED" /\ Become(p, [m EXCEPT !.status = "converging", !.pc = "index"])
    <3> PICK x : x = [m EXCEPT !.status = "converging", !.pc = "index"]
      OBVIOUS
    <3>1. x \in PanelType /\ x.hash = m.hash /\ x.terminal = m.terminal /\ x.status = "converging" /\ x.pc = "index"
      BY <1>1, <1>2 DEF PanelType, Statuses, Following
    <3>2. Waits(x)
      BY <1>2, <2>4, <3>1
    <3> QED
      BY <2>4, <3>2
  <2>5. CASE Become(p, [m EXCEPT !.status = "error", !.again = FALSE, !.pc = "none"])
    <3> PICK x : x = [m EXCEPT !.status = "error", !.again = FALSE, !.pc = "none"]
      OBVIOUS
    <3>1. x \in PanelType /\ x.hash = m.hash /\ x.terminal = m.terminal /\ x.status = "error" /\ x.pc = "none"
      BY <1>1, <1>2 DEF PanelType, Statuses, Following
    <3>2. Waits(x)
      BY <1>2, <2>5, <3>1
    <3> QED
      BY <2>5, <3>2
  <2>6. CASE m.pc = "index" /\ Become(p, [m EXCEPT !.status = "finalized", !.again = TRUE, !.pc = "none"])
    <3> PICK x : x = [m EXCEPT !.status = "finalized", !.again = TRUE, !.pc = "none"]
      OBVIOUS
    <3>1. x \in PanelType /\ x.hash = m.hash /\ x.terminal = m.terminal /\ x.status = "finalized" /\ x.again /\ x.pc = "none"
      BY <1>1, <1>2 DEF PanelType, Statuses, Following
    <3>2. txs[m.hash].stage = "SUCCEEDED"
      BY <1>1, <2>6 DEF Task
    <3>3. Waits(x)
      BY <1>2, <2>6, <3>1, <3>2
    <3> QED
      BY <2>6, <3>3
  <2> HIDE DEF Waits
  <2> QED
    BY <2>1, <2>2, <2>3, <2>4, <2>5, <2>6
<1>4. Task(txs, x) /\ x \in PanelType /\ (x.pc # "none" => Runs(x, history.interrupted))
  BY <1>2, <1>3 DEF Task, Runs, Asking, Sending, Following
<1>5. p = mounted => Shown(txs, x) /\ Keeps(m, x)
  BY <1>1, <1>2, <1>3 DEF Shown, Keeps, Asking, Sending, Following
<1>6. ActsForAccount(x)
  BY <1>3 DEF ActsForAccount
<1> QED
  BY <1>1, <1>3, <1>4, <1>5, <1>6, QuietStep

\* A terminal failure: no record of the transaction will be, if there is none.
LEMMA TerminalKeeps ==
  ASSUME ReviewInv, NEW p \in DOMAIN panels, panels[p].pc \in Following, TerminalFailure(p),
         stage(p) \in {"REVERTED", "REJECTED", "FAILED"}, UNCHANGED <<wallet, txs, page>>
  PROVE  ReviewInv'
<1> PICK m : m = panels[p]
  OBVIOUS
<1> PICK x : x = [m EXCEPT !.status = "error", !.again = FALSE, !.terminal = TRUE, !.pc = "none"]
  OBVIOUS
<1>1. m \in PanelType /\ Task(txs, m) /\ m.pc \in Following /\ txs \in Seq(TxType)
      /\ page \in [known : SUBSET Nat, stale : BOOLEAN]
  BY ThePanel DEF ReviewInv, ReviewTypeOK
<1>2. m.hash # 0 /\ m.hash \in DOMAIN txs /\ stage(p) = txs[m.hash].stage
  BY <1>1 DEF Task, Following, stage
<1>3. Become(p, x) /\ RemoveItem(p)
  BY DEF TerminalFailure
<1>4. /\ x \in PanelType /\ x.hash = m.hash /\ x.pc = "none" /\ x.status = "error"
  BY <1>1 DEF PanelType, Statuses
<1>5. Task(txs, x) /\ Shown(txs, x)
  BY <1>2, <1>4 DEF Task, Shown, Asking, Sending, Following
<1>6. Settled(x.hash)
  BY <1>2, <1>4 DEF Settled
<1>7. txs[x.hash].indexed \/ Dead(x.hash)
  BY <1>2, <1>4 DEF Dead
<1> QED
  BY <1>1, <1>2, <1>3, <1>4, <1>5, <1>6, <1>7, ForgettingStep

\* A record that was not known before is the transaction's own.
LEMMA ReflectedKeeps ==
  ASSUME ReviewInv, NEW p \in DOMAIN panels, WaitForIndexed(p)
  PROVE  ReviewInv'
<1> PICK m : m = panels[p]
  OBVIOUS
<1>1. /\ m \in PanelType /\ Task(txs, m) /\ m.pc = "index" /\ txs \in Seq(TxType)
      /\ p = mounted => m = Mounted /\ Shown(txs, m)
      /\ page \in [known : SUBSET Nat, stale : BOOLEAN]
  BY ThePanel DEF ReviewInv, ReviewTypeOK, WaitForIndexed
<1>2. m.hash # 0 /\ m.hash \in DOMAIN txs /\ txs[m.hash].stage = "SUCCEEDED" /\ m.pc \in Following
  BY <1>1 DEF Task, Following
<1>3. CASE Listed(m.owner) \subseteq page.known
  <2>1. Become(p, [m EXCEPT !.status = "finalized", !.again = TRUE, !.pc = "none"])
        /\ UNCHANGED <<wallet, txs, slot, page, history>>
    BY <1>3 DEF WaitForIndexed, KeepItem
  <2> QED
    BY <1>1, <1>2, <2>1, WaitsOn
<1>4. CASE ~(Listed(m.owner) \subseteq page.known)
  <2> PICK x : x = [m EXCEPT !.status = "finalized", !.again = FALSE, !.pc = "none"]
    OBVIOUS
  <2>1. Become(p, x) /\ RemoveItem(p) /\ UNCHANGED <<wallet, txs>>
        /\ page' = [page EXCEPT !.stale = TRUE]
    BY <1>4 DEF WaitForIndexed
  <2>2. /\ x \in PanelType /\ x.hash = m.hash /\ x.pc = "none" /\ x.status = "finalized"
        /\ x.terminal = m.terminal
    BY <1>1 DEF PanelType, Statuses
  <2>3. Task(txs, x) /\ (p = mounted => Shown(txs, x))
    BY <1>1, <1>2, <2>2 DEF Task, Shown, Asking, Sending, Following
  <2>4. Settled(x.hash)
    BY <1>2, <2>2 DEF Settled
  <2>5. ASSUME OthersKnown(m.hash)
        PROVE  txs[m.hash].indexed
    <3>1. PICK t \in DOMAIN txs : txs[t].indexed /\ t \notin page.known
      BY <1>4 DEF Listed
    <3> QED
      BY <2>5, <3>1 DEF OthersKnown, Dead
  <2>6. ASSUME Undisturbed
        PROVE  /\ slot.tx = m.hash => txs[m.hash].indexed
               /\ p = mounted => txs[m.hash].indexed
    <3>1. RecordsFollowed
      BY <2>6 DEF ReviewInv, Followed
    <3> QED
      BY <1>1, <1>2, <2>5, <3>1 DEF RecordsFollowed
  <2>7. page' \in [known : SUBSET Nat, stale : BOOLEAN] /\ page'.known = page.known
    BY <1>1, <2>1
  <2> QED
    BY <1>1, <1>2, <2>1, <2>2, <2>3, <2>4, <2>6, <2>7, ForgettingStep
<1> QED
  BY <1>3, <1>4

LEMMA FollowingKeeps ==
  ASSUME ReviewInv, NEW p \in DOMAIN panels,
         PollStatus(p) \/ ReadReceipt(p) \/ GetFinalizedExecutionResult(p) \/ AttemptsOver(p)
  PROVE  ReviewInv'
<1>1. CASE PollStatus(p)
  <2>1. panels[p].pc \in Following /\ UNCHANGED <<wallet, txs, page>>
    BY <1>1 DEF PollStatus, Following
  <2>2. \/ Become(p, [panels[p] EXCEPT !.checked = TRUE, !.pc = "receipt"]) /\ KeepItem
        \/ /\ stage(p) \in {"SUCCEEDED", "FAILED"} /\ KeepItem
           /\ Become(p, [panels[p] EXCEPT !.pc = "result"])
        \/ stage(p) = "REJECTED" /\ TerminalFailure(p)
    BY <1>1 DEF PollStatus, Go
  <2> QED
    BY <2>1, <2>2, WaitsOn, TerminalKeeps DEF KeepItem
<1>2. CASE ReadReceipt(p)
  <2>1. panels[p].pc \in Following /\ UNCHANGED <<wallet, txs, page>>
    BY <1>2 DEF ReadReceipt, Following
  <2>2. \/ stage(p) = "REVERTED" /\ TerminalFailure(p)
        \/ Become(p, [panels[p] EXCEPT !.pc = "status"]) /\ KeepItem
    BY <1>2 DEF ReadReceipt, Go
  <2> QED
    BY <2>1, <2>2, WaitsOn, TerminalKeeps DEF KeepItem
<1>3. CASE GetFinalizedExecutionResult(p)
  <2>1. panels[p].pc \in Following /\ UNCHANGED <<wallet, txs, page>>
    BY <1>3 DEF GetFinalizedExecutionResult, Following
  <2>2. \/ stage(p) = "FAILED" /\ TerminalFailure(p)
        \/ /\ stage(p) = "SUCCEEDED" /\ KeepItem
           /\ Become(p, [panels[p] EXCEPT !.status = "converging", !.pc = "index"])
    BY <1>3 DEF GetFinalizedExecutionResult
  <2> QED
    BY <2>1, <2>2, WaitsOn, TerminalKeeps DEF KeepItem
<1>4. CASE AttemptsOver(p)
  <2>1. panels[p].pc \in Following /\ UNCHANGED <<wallet, txs, page>>
    BY <1>4 DEF AttemptsOver, Following
  <2>2. Become(p, [panels[p] EXCEPT !.status = "error", !.again = FALSE, !.pc = "none"]) /\ KeepItem
    BY <1>4 DEF AttemptsOver, MonitorFails
  <2> QED
    BY <2>1, <2>2, WaitsOn DEF KeepItem
<1> QED
  BY <1>1, <1>2, <1>3, <1>4

-----------------------------------------------------------------------------
(* The button and the surroundings *)

LEMMA MountedChanges ==
  ASSUME panels \in Seq(PanelType), mounted > 0, NEW x \in PanelType,
         panels' = [panels EXCEPT ![mounted] = x]
  PROVE  panels' \in Seq(PanelType) /\ mounted' > 0 /\ Mounted' = x /\ Detached' = Detached
<1>1. mounted \in Nat /\ \A i \in 1 .. mounted : panels[i] \in PanelType
  BY LenProperties DEF mounted
<1>2. panels' \in Seq(PanelType) /\ Len(panels') = Len(panels)
      /\ \A i \in 1 .. mounted : panels'[i] = IF i = mounted THEN x ELSE panels[i]
  BY <1>1, ExceptSeq DEF mounted
<1>3. mounted' = mounted /\ Mounted' = x
  BY <1>1, <1>2 DEF mounted, Mounted
<1>4. \A i \in 1 .. mounted - 1 : panels'[i] = panels[i]
  BY <1>1, <1>2
<1>5. Detached' = Detached
  BY <1>3, <1>4 DEF Detached
<1> QED
  BY <1>1, <1>2, <1>3, <1>5 DEF mounted

\* The button offers nothing new on a panel that holds a hash.
LEMMA ClickKeeps ==
  ASSUME ReviewInv, Click
  PROVE  ReviewInv'
<1> PICK m : m = Mounted
  OBVIOUS
<1>1. /\ m \in PanelType /\ Task(txs, m) /\ Shown(txs, m) /\ panels \in Seq(PanelType) /\ mounted > 0
      /\ mounted \in DOMAIN panels /\ panels[mounted] = m
      /\ wallet \in [account : Accounts, ours : BOOLEAN]
      /\ ~history.switched /\ ~history.interrupted => ActsForAccount(m)
  <2>1. panels \in Seq(PanelType) /\ mounted > 0 /\ mounted \in DOMAIN panels
    BY LenProperties DEF ReviewInv, ReviewTypeOK, mounted
  <2> QED
    BY <2>1, ThePanel
    DEF ReviewInv, ReviewTypeOK, Accounted, OneAccount, ActsForAccount, Mounted
<1>2. ASSUME NEW x \in PanelType, panels' = [panels EXCEPT ![mounted] = x],
             UNCHANGED <<wallet, txs, slot, page, history>>,
             x.pc # "none", Task(txs, x), Shown(txs, x), Keeps(m, x), ActsForAccount(x)
      PROVE  ReviewInv'
  <2>1. Become(mounted, x)
    BY <1>2 DEF Become
  <2> QED
    BY <1>1, <1>2, <2>1, QuietStep
<1>3. CASE Review
  <2> PICK x : x = [m EXCEPT !.status = "connecting", !.flow = "review", !.pc = "accounts"]
    OBVIOUS
  <2>1. /\ panels' = [panels EXCEPT ![mounted] = x] /\ Button(m) = "review"
        /\ UNCHANGED <<wallet, txs, slot, page, history>>
    BY <1>3 DEF Review, Press
  <2>2. m.pc = "none" /\ ~m.terminal /\ m.status # "finalized" /\ ~(m.hash # 0 /\ m.status = "error")
    BY <2>1 DEF Button
  <2>3. m.hash = 0
    BY <1>1, <2>2 DEF Shown
  <2>4. x \in PanelType /\ Keeps(m, x) /\ ActsForAccount(x) /\ x.pc # "none"
    BY <1>1, <2>2 DEF PanelType, Keeps, ActsForAccount, Asking, Statuses
  <2>5. Task(txs, x) /\ Shown(txs, x)
    BY <1>1, <2>2, <2>3 DEF Task, Shown, PanelType, Asking, Sending, Following
  <2> QED
    BY <1>2, <2>1, <2>4, <2>5
<1>4. CASE SwitchNetwork
  <2> PICK x : x = [m EXCEPT !.status = "connecting", !.flow = "switch", !.pc = "switch"]
    OBVIOUS
  <2>1. /\ panels' = [panels EXCEPT ![mounted] = x] /\ Button(m) = "switch"
        /\ UNCHANGED <<wallet, txs, slot, page, history>>
    BY <1>4 DEF SwitchNetwork, Press
  <2>2. m.pc = "none" /\ m.status = "wrongNetwork"
    BY <2>1 DEF Button
  <2>3. m.hash = 0 /\ ~m.terminal
    BY <1>1, <2>2 DEF Shown
  <2>4. x \in PanelType /\ Keeps(m, x) /\ ActsForAccount(x) /\ x.pc # "none"
    BY <1>1, <2>2 DEF PanelType, Keeps, ActsForAccount, Asking, Statuses
  <2>5. Task(txs, x) /\ Shown(txs, x)
    BY <1>1, <2>2, <2>3 DEF Task, Shown, PanelType, Asking, Sending, Following
  <2> QED
    BY <1>2, <2>1, <2>4, <2>5
<1>5. CASE Sign
  <2> PICK x : x = [m EXCEPT !.status = "signing", !.flow = "sign", !.pc = "accounts",
                             !.expected = m.address]
    OBVIOUS
  <2>1. /\ panels' = [panels EXCEPT ![mounted] = x] /\ Button(m) = "sign"
        /\ UNCHANGED <<wallet, txs, slot, page, history>>
    BY <1>5 DEF Sign, Press
  <2>2. m.pc = "none" /\ m.status = "ready"
    BY <2>1 DEF Button
  <2>3. m.hash = 0 /\ ~m.terminal
    BY <1>1, <2>2 DEF Shown
  <2>4. x \in PanelType /\ Keeps(m, x) /\ ActsForAccount(x) /\ x.pc # "none"
    BY <1>1, <2>2 DEF PanelType, Keeps, ActsForAccount, Asking, Statuses
  <2>5. Task(txs, x) /\ Shown(txs, x)
    BY <1>1, <2>2, <2>3 DEF Task, Shown, PanelType, Asking, Sending, Following
  <2> QED
    BY <1>2, <2>1, <2>4, <2>5
<1>6. CASE CheckAgain
  <2> PICK x : x = Monitoring(m, m.hash, m.address)
    OBVIOUS
  <2>1. /\ panels' = [panels EXCEPT ![mounted] = x] /\ Button(m) = "check"
        /\ UNCHANGED <<wallet, txs, slot, page, history>>
    BY <1>6 DEF CheckAgain, Press
  <2>2. m.pc = "none" /\ m.hash # 0
    BY <2>1 DEF Button
  <2>3. /\ x \in PanelType /\ x.hash = m.hash /\ x.pc = "status" /\ ~x.terminal
        /\ x.status = "processing"
    <3>1. m.hash \in Nat /\ m.address \in Addresses
      BY <1>1 DEF PanelType
    <3> QED
      BY <1>1, <3>1, MonitoringIs
  <2>4. Keeps(m, x) /\ ActsForAccount(x)
    BY <2>2, <2>3 DEF Keeps, ActsForAccount
  <2>5. Task(txs, x) /\ Shown(txs, x)
    BY <1>1, <2>2, <2>3 DEF Task, Shown, Asking, Sending, Following
  <2> QED
    BY <1>2, <2>1, <2>3, <2>4, <2>5
<1>7. CASE ClearTerminalFailure
  <2> PICK x : x = [m EXCEPT !.status = "idle", !.terminal = FALSE, !.hash = 0]
    OBVIOUS
  <2>1. /\ panels' = [panels EXCEPT ![mounted] = x] /\ Button(m) = "clear"
        /\ UNCHANGED <<wallet, txs, slot, page, history>>
    BY <1>7 DEF ClearTerminalFailure, Press
  <2>2. m.pc = "none" /\ m.terminal
    BY <2>1 DEF Button
  <2>3. /\ m.hash # 0 /\ m.hash \in DOMAIN txs
        /\ txs[m.hash].stage \in {"REVERTED", "REJECTED", "FAILED"}
    BY <1>1, <2>2 DEF Task, Shown
  <2>4. /\ x \in PanelType /\ x.hash = 0 /\ x.pc = "none" /\ ~x.terminal /\ x.status = "idle"
    BY <1>1, <2>2 DEF PanelType, Statuses
  <2>5. Task(txs, x) /\ Shown(txs, x)
    BY <2>4 DEF Task, Shown, Asking, Sending, Following
  <2>6. panels' \in Seq(PanelType) /\ mounted' > 0 /\ Mounted' = x /\ Detached' = Detached
    BY <1>1, <2>1, <2>4, MountedChanges
  <2>7. ReviewTypeOK'
    BY <2>1, <2>6 DEF ReviewInv, ReviewTypeOK
  <2>8. PanelsSound'
    BY <2>1, <2>5, <2>6 DEF ReviewInv, PanelsSound
  <2>9. Held'
    BY <2>1, <2>2, <2>3, <2>4, <2>6 DEF ReviewInv, Held, UndecidedIsHeld, Settled
  <2>10. Followed'
    <3> SUFFICES ASSUME Undisturbed
                 PROVE  SlotIsHeld' /\ RecordsFollowed'
      BY <2>1 DEF Followed, Undisturbed
    <3>1. RecordsFollowed /\ slot.tx = 0
      BY <2>2 DEF ReviewInv, Followed, SlotIsHeld
    <3>2. \A t \in DOMAIN txs : txs[t].indexed \/ Dead(t) \/ slot.tx = t
      BY <2>2, <3>1 DEF RecordsFollowed
    <3> QED
      BY <2>1, <2>4, <2>6, <3>1, <3>2 DEF SlotIsHeld, RecordsFollowed, Dead
  <2>11. Accounted'
    BY <2>1, <2>4, <2>6 DEF ReviewInv, Accounted, OneAccount
  <2> QED
    BY <2>7, <2>8, <2>9, <2>10, <2>11 DEF ReviewInv
<1> QED
  BY <1>3, <1>4, <1>5, <1>6, <1>7 DEF Click

LEMMA SwitchWalletKeeps ==
  ASSUME ReviewInv, SwitchWallet
  PROVE  ReviewInv'
<1> PICK m : m = Mounted
  OBVIOUS
<1>1. /\ m \in PanelType /\ Task(txs, m) /\ Shown(txs, m) /\ panels \in Seq(PanelType) /\ mounted > 0
      /\ wallet \in [account : Accounts, ours : BOOLEAN]
      /\ history \in HistoryType
  <2>1. panels \in Seq(PanelType) /\ mounted > 0 /\ mounted \in DOMAIN panels
    BY LenProperties DEF ReviewInv, ReviewTypeOK, mounted
  <2> QED
    BY <2>1, ThePanel DEF ReviewInv, ReviewTypeOK
<1>2. UNCHANGED <<txs, slot, page>>
  BY DEF SwitchWallet
\* The panel y follows an event that came.
<1> DEFINE Follows(y) ==
      /\ y \in PanelType
      /\ y.pc = m.pc /\ y.hash = m.hash /\ y.again = m.again /\ y.terminal = m.terminal
      /\ y.owner = m.owner /\ y.expected = m.expected /\ y.flow = m.flow
      /\ \/ y.status = m.status
         \/ m.status \in {"ready", "wrongNetwork"} /\ y.status \in {"idle", "wrongNetwork"}
<1>3. ASSUME NEW y, NEW noticed \in BOOLEAN, y \in PanelType => Follows(y), y \in PanelType,
             Notify(y, noticed), history'.lost = history.lost,
             history'.reloaded = history.reloaded, history'.interrupted = history.interrupted,
             history' \in HistoryType,
             wallet' \in [account : Accounts, ours : BOOLEAN],
             history'.switched \/ (history' = history /\ wallet'.account = wallet.account)
      PROVE  ReviewInv'
  <2> PICK n : n = Mounted'
    OBVIOUS
  <2>1. /\ panels' \in Seq(PanelType) /\ mounted' > 0 /\ Detached' = Detached
        /\ n = m \/ (n = y /\ Follows(n))
    BY <1>1, <1>3, MountedChanges DEF Notify, mounted, Mounted, Detached
  <2> HIDE DEF Follows
  <2>2. Task(txs, n) /\ Shown(txs, n)
    <3>1. CASE n = m
      BY <1>1, <3>1
    <3>2. CASE Follows(n)
      <4>1. n.status = m.status \/ (m.pc = "none" /\ m.hash = 0)
        BY <1>1, <3>2 DEF Follows, Task, Shown, PanelType, Asking, Sending, Following
      <4>2. Task(txs, n)
        BY <1>1, <3>2 DEF Follows, Task
      <4>3. CASE n.status = m.status
        BY <1>1, <3>2, <4>2, <4>3 DEF Follows, Shown
      <4>4. CASE n.status # m.status
        BY <1>1, <3>2, <4>1, <4>2, <4>4 DEF Follows, Shown, Asking, Sending, Following
      <4> QED
        BY <4>2, <4>3, <4>4
    <3> QED
      BY <2>1, <3>1, <3>2
  <2>3. Keeps(m, n) /\ n.pc = m.pc /\ n.owner = m.owner /\ n.expected = m.expected
    BY <2>1 DEF Keeps, Follows
  <2>4. ReviewTypeOK'
    BY <1>2, <1>3, <2>1 DEF ReviewInv, ReviewTypeOK
  <2>5. PanelsSound'
    BY <1>2, <1>3, <2>1, <2>2 DEF ReviewInv, PanelsSound, Runs
  <2>6. Held' /\ Followed'
    BY <1>2, <1>3, <2>3, StillHeld DEF ReviewInv
  <2>7. Accounted'
    BY <1>1, <1>2, <1>3, <2>3 DEF ReviewInv, Accounted, OneAccount
  <2> QED
    BY <2>4, <2>5, <2>6, <2>7 DEF ReviewInv
<1>4. ASSUME NEW noticed \in BOOLEAN, NEW a \in Accounts \ {wallet.account},
             wallet' = [wallet EXCEPT !.account = a],
             Notify([m EXCEPT !.address = a, !.status = IF Reviewed THEN "idle" ELSE m.status],
                    noticed),
             history' = [history EXCEPT !.switched = TRUE]
      PROVE  ReviewInv'
  <2> PICK status : status = IF Reviewed THEN "idle" ELSE m.status
    OBVIOUS
  <2> PICK y : y = [m EXCEPT !.address = a, !.status = status]
    OBVIOUS
  <2>1. /\ status \in Statuses
        /\ status = m.status \/ (m.status \in {"ready", "wrongNetwork"} /\ status = "idle")
    BY <1>1 DEF PanelType, Statuses, Reviewed
  <2>2. Follows(y)
    <3>1. y \in PanelType
      <4>1. a \in Addresses
        BY DEF Addresses
      <4>2. m \in PanelType /\ status \in Statuses
        BY <1>1, <2>1
      <4> QED
        BY <4>1, <4>2 DEF PanelType
    <3>2. y.status = status
      BY <1>1 DEF PanelType
    <3>3. /\ y.pc = m.pc /\ y.hash = m.hash /\ y.again = m.again /\ y.terminal = m.terminal
          /\ y.owner = m.owner /\ y.expected = m.expected /\ y.flow = m.flow
      OBVIOUS
    <3> QED
      BY <2>1, <3>1, <3>2, <3>3
  <2>3. history' \in HistoryType /\ history'.lost = history.lost /\ history'.switched
        /\ history'.reloaded = history.reloaded /\ history'.interrupted = history.interrupted
    BY <1>1, <1>4 DEF HistoryType
  <2>4. wallet' \in [account : Accounts, ours : BOOLEAN]
    BY <1>1, <1>4
  <2>5. Notify(y, noticed)
    BY <1>4
  <2>6. y \in PanelType
    BY <2>2
  <2> QED
    BY <1>3, <2>2, <2>3, <2>4, <2>5, <2>6
<1>5. ASSUME NEW noticed \in BOOLEAN, wallet' = [wallet EXCEPT !.ours = ~wallet.ours],
             Notify([m EXCEPT !.status =
                       IF wallet.ours /\ Reviewed THEN "wrongNetwork" ELSE m.status], noticed),
             history' = history
      PROVE  ReviewInv'
  <2> PICK y : y = [m EXCEPT !.status =
                      IF wallet.ours /\ Reviewed THEN "wrongNetwork" ELSE m.status]
    OBVIOUS
  <2>1. Follows(y)
    BY <1>1 DEF PanelType, Statuses, Reviewed
  <2> QED
    BY <1>1, <1>3, <1>5, <2>1
<1> QED
  BY <1>4, <1>5 DEF SwitchWallet

-----------------------------------------------------------------------------
(* Mounting *)

\* The panel y is as one is when it is mounted.
Mounts(y) ==
  /\ y \in PanelType /\ Task(txs, y) /\ Shown(txs, y)
  /\ y.pc \in {"none", "status", "loading"} /\ (y.pc # "loading" => y.hash = slot.tx)
  /\ y.status \in {"idle", "processing"} /\ ~y.terminal

\* What a new panel takes over from the storage.
LEMMA FreshIs ==
  ASSUME ReviewInv
  PROVE  Mounts(Fresh) /\ Fresh.pc # "loading"
<1> PICK b : b = Blank
  OBVIOUS
<1>1. b \in PanelType /\ b.hash = 0 /\ b.pc = "none" /\ b.status = "idle" /\ ~b.terminal
  BY DEF Blank, PanelType, Addresses, Statuses
<1>2. CASE slot = Empty
  <2>1. Task(txs, b) /\ Shown(txs, b)
    BY <1>1 DEF Task, Shown, Asking, Sending, Following
  <2>2. Fresh = b /\ slot.tx = 0
    BY <1>2 DEF Fresh, Empty
  <2> QED
    BY <1>1, <2>1, <2>2 DEF Mounts
<1>3. CASE slot # Empty
  <2> PICK y : y = Monitoring(b, slot.tx, slot.address)
    OBVIOUS
  <2>1. slot.tx \in DOMAIN txs /\ slot.tx \in Nat \ {0} /\ slot.address \in Addresses
    BY <1>3, LenProperties DEF ReviewInv, ReviewTypeOK
  <2>2. /\ y \in PanelType /\ y.hash = slot.tx /\ y.pc = "status" /\ y.status = "processing"
        /\ ~y.terminal
    BY <1>1, <2>1, MonitoringIs
  <2>3. Task(txs, y) /\ Shown(txs, y)
    BY <2>1, <2>2 DEF Task, Shown, Asking, Sending, Following
  <2>4. Fresh = y
    BY <1>3 DEF Fresh
  <2> QED
    BY <2>2, <2>3, <2>4 DEF Mounts
<1> QED
  BY <1>2, <1>3

LEMMA LoadingIs == Mounts(Loading) /\ Loading.pc = "loading"
<1> PICK y : y = Loading
  OBVIOUS
<1>1. y \in PanelType /\ y.hash = 0 /\ y.pc = "loading" /\ y.status = "idle" /\ ~y.terminal
  BY DEF Loading, Blank, PanelType, Addresses, Statuses
<1>2. Task(txs, y) /\ Shown(txs, y)
  BY <1>1 DEF Task, Shown, Asking, Sending, Following
<1> QED
  BY <1>1, <1>2 DEF Mounts

LEMMA OverlookIs ==
  ASSUME txs \in Seq(TxType), Overlook
  PROVE  /\ txs' \in Seq(TxType) /\ DOMAIN txs' = DOMAIN txs /\ Grows(txs, txs')
         /\ \A t \in DOMAIN txs :
              /\ txs'[t].stage = txs[t].stage /\ txs'[t].indexed = txs[t].indexed
              /\ txs'[t].from = txs[t].from
              /\ ~txs'[t].behind =>
                   t = slot.tx \/ (~txs[t].behind /\ ~(Mounted.pc = "store" /\ t = Mounted.hash))
<1>1. Len(txs) \in Nat /\ DOMAIN txs = 1 .. Len(txs) /\ \A t \in DOMAIN txs : txs[t] \in TxType
  BY LenProperties
<1> PICK f : f = [t \in DOMAIN txs |-> (txs[t].behind \/ (Mounted.pc = "store" /\ t = Mounted.hash))
                                         /\ t # slot.tx]
  OBVIOUS
<1>2. /\ \A t \in DOMAIN txs : f[t] \in BOOLEAN
      /\ \A t \in DOMAIN txs :
           ~f[t] => t = slot.tx \/ (~txs[t].behind /\ ~(Mounted.pc = "store" /\ t = Mounted.hash))
  OBVIOUS
<1>3. txs' = [t \in DOMAIN txs |-> [txs[t] EXCEPT !.behind = f[t]]]
  BY DEF Overlook
<1>4. ASSUME NEW t \in DOMAIN txs
      PROVE  /\ txs'[t] \in TxType /\ txs'[t].behind = f[t]
             /\ txs'[t].stage = txs[t].stage /\ txs'[t].indexed = txs[t].indexed
             /\ txs'[t].from = txs[t].from
  <2>1. txs'[t] = [txs[t] EXCEPT !.behind = f[t]]
    BY <1>3
  <2> QED
    BY ONLY <1>1, <1>2, <2>1, t \in DOMAIN txs DEF TxType
<1>5. DOMAIN txs' = DOMAIN txs /\ txs' \in [1 .. Len(txs) -> TxType]
  BY ONLY <1>1, <1>3, <1>4
<1>6. txs' \in Seq(TxType)
  BY <1>1, <1>5, IsASeq
<1> QED
  BY <1>2, <1>4, <1>5, <1>6 DEF Grows

LEMMA FrontIs ==
  ASSUME panels \in Seq(PanelType), mounted > 0
  PROVE  /\ Front(panels) \in Seq(PanelType)
         /\ \A i \in 1 .. Len(Front(panels)) : Front(panels)[i] \in Detached
<1>1. mounted \in Nat /\ \A i \in 1 .. mounted : panels[i] \in PanelType
  BY LenProperties DEF mounted
<1>2. Front(panels) = SubSeq(panels, 1, mounted - 1)
  BY DEF Front, mounted
<1>3. /\ Front(panels) \in Seq(PanelType) /\ Len(Front(panels)) = mounted - 1
      /\ \A i \in 1 .. mounted - 1 : Front(panels)[i] = panels[i]
  BY <1>1, <1>2, SubSeqProperties
<1> QED
  BY <1>3 DEF Detached

LEMMA LeftIs ==
  ASSUME panels \in Seq(PanelType), mounted > 0
  PROVE  /\ Left \in Seq(PanelType)
         /\ \A i \in 1 .. Len(Left) :
              Left[i] \in Detached \/ (Left[i] = Hidden(Mounted) /\ Mounted.pc # "none")
<1>1. CASE Mounted.pc = "none"
  BY <1>1, FrontIs DEF Left
<1>2. CASE Mounted.pc # "none"
  <2> PICK h : h = Hidden(Mounted)
    OBVIOUS
  <2>1. Mounted \in PanelType
    BY LenProperties DEF mounted, Mounted
  <2>2. h \in PanelType /\ Left = Append(Front(panels), h)
    BY <1>2, <2>1, EndedIs DEF Left
  <2>3. /\ Left \in Seq(PanelType) /\ Len(Left) = Len(Front(panels)) + 1
        /\ \A i \in 1 .. Len(Front(panels)) : Left[i] = Front(panels)[i]
        /\ Left[Len(Front(panels)) + 1] = h /\ Len(Front(panels)) \in Nat
    BY <2>2, FrontIs, AppendProperties, LenProperties
  <2> QED
    BY <1>2, <2>3, FrontIs
<1> QED
  BY <1>1, <1>2

LEMMA Appended ==
  ASSUME NEW old \in Seq(PanelType), NEW y \in PanelType, panels' = Append(old, y)
  PROVE  /\ panels' \in Seq(PanelType) /\ mounted' > 0 /\ Mounted' = y
         /\ \A x \in Detached' : \E i \in 1 .. Len(old) : x = old[i]
<1>1. /\ Len(old) \in Nat /\ panels' \in Seq(PanelType) /\ Len(panels') = Len(old) + 1
      /\ panels'[Len(old) + 1] = y /\ \A i \in 1 .. Len(old) : panels'[i] = old[i]
  BY AppendProperties, LenProperties
<1>2. mounted' = Len(old) + 1
  BY <1>1 DEF mounted
<1>3. mounted' - 1 = Len(old)
  BY <1>1, <1>2
<1> QED
  BY <1>1, <1>2, <1>3 DEF Mounted, Detached

\* A panel that is replaced leaves what is held to the storage and so to the next, and
\* its task to run on.
LEMMA Replaced ==
  ASSUME ReviewInv, NEW y, Mounts(y), Overlook, UNCHANGED <<wallet, slot>>,
         panels' \in Seq(PanelType), mounted' > 0, Mounted' = y,
         \A x \in Detached' :
           \/ x \in Detached
           \/ x = Hidden(Mounted) /\ Mounted.pc \notin {"none", "loading"},
         page' \in [known : SUBSET Nat, stale : BOOLEAN], page'.known = page.known,
         history' \in HistoryType, history'.lost = history.lost,
         history'.reloaded = history.reloaded, history'.switched = history.switched,
         history.interrupted => history'.interrupted,
         Mounted.pc \in Asking \cup Sending => history'.interrupted
  PROVE  ReviewInv'
<1> PICK m : m = Mounted
  OBVIOUS
<1>1. /\ m \in PanelType /\ Task(txs, m) /\ txs \in Seq(TxType)
      /\ \A t \in DOMAIN txs : t # 0
  <2>1. panels \in Seq(PanelType) /\ mounted > 0
    BY DEF ReviewInv, ReviewTypeOK
  <2>2. m \in PanelType
    BY <2>1, LenProperties DEF mounted, Mounted
  <2> QED
    BY <2>2, LenProperties DEF ReviewInv, ReviewTypeOK, PanelsSound
<1>2. /\ txs' \in Seq(TxType) /\ DOMAIN txs' = DOMAIN txs /\ Grows(txs, txs')
      /\ \A t \in DOMAIN txs :
           /\ txs'[t].stage = txs[t].stage /\ txs'[t].indexed = txs[t].indexed
           /\ txs'[t].from = txs[t].from
           /\ ~txs'[t].behind =>
                t = slot.tx \/ (~txs[t].behind /\ ~(m.pc = "store" /\ t = m.hash))
  BY <1>1, OverlookIs
<1>3. /\ y \in PanelType /\ Task(txs', y) /\ Shown(txs', y)
      /\ y.pc \in {"none", "status", "loading"} /\ (y.pc # "loading" => y.hash = slot.tx)
      /\ (y.pc = "loading" => y.hash = 0)
      /\ y.status \in {"idle", "processing"} /\ ~y.terminal
  <2>1. Task(txs', y) /\ Shown(txs', y)
    BY <1>2, TaskStays DEF Mounts
  <2>2. y.pc = "loading" => y.hash = 0
    BY DEF Mounts, Task
  <2> QED
    BY <2>1, <2>2 DEF Mounts
<1>4. ReviewTypeOK'
  BY <1>2 DEF ReviewInv, ReviewTypeOK
<1>5. PanelsSound'
  <2> SUFFICES ASSUME NEW x \in Detached'
               PROVE  Task(txs', x) /\ Runs(x, history'.interrupted)
    BY <1>3 DEF PanelsSound
  <2>1. CASE x \in Detached
    BY <1>2, <2>1, TaskStays DEF ReviewInv, PanelsSound, Runs
  <2>2. CASE x = Hidden(m) /\ m.pc \notin {"none", "loading"}
    <3>1. Task(txs', x)
      BY <1>1, <1>2, <2>2, TaskStays, TaskEnds
    <3>2. x.pc = m.pc
      BY <1>1, <2>2, EndedIs
    <3>3. m.pc \in Asking \cup Sending \cup Following
      BY <1>1, <2>2 DEF PanelType
    <3> QED
      BY <3>1, <3>2, <3>3 DEF Runs
  <2> QED
    BY <2>1, <2>2
<1>6. Held'
  <2> SUFFICES ASSUME ~history.lost, NEW t \in DOMAIN txs, ~Settled(t), ~txs'[t].behind
               PROVE  t = slot.tx
    BY <1>1, <1>2, <1>3 DEF Held, UndecidedIsHeld, Settled
  <2>1. t = slot.tx \/ (~txs[t].behind /\ ~(m.pc = "store" /\ t = m.hash))
    BY <1>2
  <2>2. ~txs[t].behind => \/ m.hash = t /\ (slot.tx = t \/ m.pc = "store")
                          \/ m.pc = "loading" /\ slot.tx = t
    BY DEF ReviewInv, Held, UndecidedIsHeld
  <2> QED
    BY <2>1, <2>2
<1>7. Followed'
  <2> SUFFICES ASSUME Undisturbed'
               PROVE  SlotIsHeld' /\ RecordsFollowed'
    BY DEF Followed
  <2>1. RecordsFollowed /\ m.pc # "store"
    BY DEF ReviewInv, Followed, Undisturbed, Sending
  <2>2. SlotIsHeld'
    BY <1>3 DEF SlotIsHeld
  <2>3. \A t \in DOMAIN txs : Dead(t) => Dead(t)'
    BY <1>2 DEF Dead
  <2>4. \A hash : OthersKnown(hash) => OthersKnown(hash)'
    BY <1>2, <2>3 DEF OthersKnown
  <2>5. \A t \in DOMAIN txs' : txs'[t].indexed \/ Dead(t)' \/ slot.tx = t
    BY <1>2, <2>1, <2>3 DEF RecordsFollowed
  <2>6. slot.tx # 0 => OthersKnown(slot.tx)'
    BY <2>1, <2>4 DEF RecordsFollowed
  <2>7. y.hash # 0 => y.hash = slot.tx
    BY <1>3
  <2>8. OthersKnown(y.hash)' <=> \A t \in DOMAIN txs' : t # y.hash => t \in page'.known \/ Dead(t)'
    BY DEF OthersKnown
  <2> QED
    BY <1>3, <2>2, <2>5, <2>6, <2>7, <2>8 DEF RecordsFollowed, OthersKnown
<1>8. Accounted'
  BY <1>2, <1>3 DEF ReviewInv, Accounted, OneAccount
<1> QED
  BY <1>4, <1>5, <1>6, <1>7, <1>8 DEF ReviewInv

LEMMA LeavesIs ==
  ASSUME ReviewInv, Leaves
  PROVE  /\ history' \in HistoryType /\ history'.lost = history.lost
         /\ history'.reloaded = history.reloaded /\ history'.switched = history.switched
         /\ history.interrupted => history'.interrupted
         /\ Mounted.pc \in Asking \cup Sending => history'.interrupted
<1> PICK gone \in BOOLEAN :
      /\ gone = (history.interrupted \/ Mounted.pc \notin
                   {"none", "loading", "status", "receipt", "result", "index"})
      /\ history' = [history EXCEPT !.interrupted = gone]
  BY DEF Leaves
<1>1. history \in HistoryType
  BY DEF ReviewInv, ReviewTypeOK
<1>2. history' \in HistoryType /\ history'.lost = history.lost /\ history'.interrupted = gone
      /\ history'.reloaded = history.reloaded /\ history'.switched = history.switched
  BY ONLY <1>1, gone \in BOOLEAN, history' = [history EXCEPT !.interrupted = gone] DEF HistoryType
<1>3. Mounted.pc \in Asking \cup Sending => gone
  BY DEF Asking, Sending
<1> QED
  BY <1>2, <1>3

LEMMA EditKeeps ==
  ASSUME ReviewInv, Edit
  PROVE  ReviewInv'
<1> PICK y : y = Fresh
  OBVIOUS
<1>1. panels \in Seq(PanelType) /\ mounted > 0 /\ page \in [known : SUBSET Nat, stale : BOOLEAN]
  BY DEF ReviewInv, ReviewTypeOK
<1>2. /\ panels' = Append(Left, y) /\ Leaves /\ Overlook /\ UNCHANGED <<wallet, slot, page>>
      /\ Mounted.pc # "loading" /\ Mounts(y) /\ y \in PanelType
  BY FreshIs DEF Edit, Mounts
<1>3. /\ panels' \in Seq(PanelType) /\ mounted' > 0 /\ Mounted' = y
      /\ \A x \in Detached' : \E i \in 1 .. Len(Left) : x = Left[i]
  BY <1>1, <1>2, LeftIs, Appended
<1>4. \A x \in Detached' : \/ x \in Detached
                           \/ x = Hidden(Mounted) /\ Mounted.pc \notin {"none", "loading"}
  BY <1>1, <1>2, <1>3, LeftIs
<1> QED
  BY <1>1, <1>2, <1>3, <1>4, LeavesIs, Replaced

LEMMA RefreshKeeps ==
  ASSUME ReviewInv, Refresh
  PROVE  ReviewInv'
<1>1. /\ panels \in Seq(PanelType) /\ mounted > 0 /\ Leaves /\ Overlook
      /\ page' \in [known : SUBSET Nat, stale : BOOLEAN] /\ page'.known = page.known
      /\ UNCHANGED <<wallet, slot>>
  BY DEF ReviewInv, ReviewTypeOK, Refresh
<1>2. PICK y : /\ Mounts(y) /\ panels' \in Seq(PanelType) /\ mounted' > 0 /\ Mounted' = y
               /\ \A x \in Detached' :
                    \/ x \in Detached
                    \/ x = Hidden(Mounted) /\ Mounted.pc \notin {"none", "loading"}
  <2>1. CASE Mounted.pc = "loading"
    <3> PICK y : y = Mounted
      OBVIOUS
    <3>1. y \in PanelType /\ Task(txs, y) /\ Shown(txs, y)
      <4>1. y \in PanelType
        BY <1>1, LenProperties DEF mounted, Mounted
      <4> QED
        BY <4>1 DEF ReviewInv, PanelsSound
    <3>2. Mounts(y)
      BY <2>1, <3>1 DEF Mounts, Shown
    <3>3. panels' = panels
      BY <2>1 DEF Refresh
    <3> QED
      BY <1>1, <3>2, <3>3 DEF mounted, Mounted, Detached
  <2>2. CASE Mounted.pc # "loading"
    <3> PICK y : y = Loading
      OBVIOUS
    <3>1. Mounts(y) /\ y \in PanelType /\ panels' = Append(Left, y)
      BY <2>2, LoadingIs DEF Refresh, Mounts
    <3>2. /\ panels' \in Seq(PanelType) /\ mounted' > 0 /\ Mounted' = y
          /\ \A x \in Detached' : \E i \in 1 .. Len(Left) : x = Left[i]
      BY <1>1, <3>1, LeftIs, Appended
    <3> QED
      BY <1>1, <2>2, <3>1, <3>2, LeftIs
  <2> QED
    BY <2>1, <2>2
<1> QED
  BY <1>1, <1>2, LeavesIs, Replaced

LEMMA MountKeeps ==
  ASSUME ReviewInv, Mount
  PROVE  ReviewInv'
<1> PICK y : y = Fresh
  OBVIOUS
<1>1. /\ panels \in Seq(PanelType) /\ mounted > 0 /\ history \in HistoryType
      /\ page \in [known : SUBSET Nat, stale : BOOLEAN]
  BY DEF ReviewInv, ReviewTypeOK
<1>2. /\ panels' = Append(Front(panels), y) /\ Overlook
      /\ UNCHANGED <<wallet, slot, page, history>>
      /\ Mounted.pc = "loading" /\ Mounts(y) /\ y \in PanelType
  BY FreshIs DEF Mount, Mounts
<1>3. /\ panels' \in Seq(PanelType) /\ mounted' > 0 /\ Mounted' = y
      /\ \A x \in Detached' : x \in Detached
  BY <1>1, <1>2, FrontIs, Appended
<1>4. Mounted.pc \notin Asking \cup Sending
  BY <1>2 DEF Asking, Sending
<1> QED
  BY <1>1, <1>2, <1>3, <1>4, Replaced

-----------------------------------------------------------------------------
(* Reloads, failing requests and the chain *)

LEMMA ReloadKeeps ==
  ASSUME ReviewInv, Reload
  PROVE  ReviewInv'
<1> PICK y : y = Loading
  OBVIOUS
<1>1. /\ y \in PanelType /\ Task(txs, y) /\ Shown(txs, y) /\ y.pc = "loading"
  BY LoadingIs DEF Mounts
<1>2. /\ panels' = <<y>> /\ page' = [known |-> {}, stale |-> FALSE] /\ UNCHANGED <<wallet, txs, slot>>
      /\ history' = [history EXCEPT !.reloaded = TRUE,
             !.lost = history.lost \/ \E p \in DOMAIN panels : panels[p].pc = "store"]
  BY DEF Reload
<1>3. panels' \in Seq(PanelType) /\ mounted' > 0 /\ Mounted' = y /\ Detached' = {}
  BY <1>1, <1>2 DEF mounted, Mounted, Detached
<1>4. /\ history' \in HistoryType /\ history'.interrupted = history.interrupted
      /\ history'.reloaded /\ history'.switched = history.switched
      /\ ~history'.lost => ~history.lost /\ Mounted.pc # "store"
  <2>1. mounted \in DOMAIN panels
    BY LenProperties DEF ReviewInv, ReviewTypeOK, mounted
  <2>2. Mounted.pc = "store" => \E p \in DOMAIN panels : panels[p].pc = "store"
    BY <2>1 DEF Mounted
  <2>3. /\ history' \in HistoryType /\ history'.interrupted = history.interrupted
        /\ history'.reloaded /\ history'.switched = history.switched
        /\ history'.lost = (history.lost \/ \E p \in DOMAIN panels : panels[p].pc = "store")
    <3> PICK lost \in BOOLEAN :
          lost = (history.lost \/ \E p \in DOMAIN panels : panels[p].pc = "store")
      BY DEF ReviewInv, ReviewTypeOK, HistoryType
    <3>1. history \in HistoryType /\ history' = [history EXCEPT !.reloaded = TRUE, !.lost = lost]
      BY <1>2 DEF ReviewInv, ReviewTypeOK
    <3>2. /\ history' \in HistoryType /\ history'.interrupted = history.interrupted
          /\ history'.reloaded /\ history'.switched = history.switched /\ history'.lost = lost
      BY ONLY <3>1, lost \in BOOLEAN DEF HistoryType
    <3> QED
      BY <3>2
  <2> QED
    BY <2>2, <2>3
<1>5. ReviewTypeOK'
  BY <1>2, <1>3, <1>4 DEF ReviewInv, ReviewTypeOK
<1>6. PanelsSound'
  BY <1>1, <1>2, <1>3 DEF PanelsSound
<1>7. Held'
  BY <1>1, <1>2, <1>3, <1>4 DEF ReviewInv, Held, UndecidedIsHeld, Settled
<1>8. Followed' /\ Accounted'
  BY <1>1, <1>2, <1>3, <1>4 DEF ReviewInv, Followed, Undisturbed, Accounted, OneAccount
<1> QED
  BY <1>5, <1>6, <1>7, <1>8 DEF ReviewInv

LEMMA RequestFailsKeeps ==
  ASSUME ReviewInv, NEW p \in DOMAIN panels, RequestFails(p)
  PROVE  ReviewInv'
<1> PICK m : m = panels[p]
  OBVIOUS
<1>1. /\ UNCHANGED <<wallet, txs, page>>
      /\ wallet \in [account : Accounts, ours : BOOLEAN]
  BY DEF RequestFails, ReviewInv, ReviewTypeOK
<1>2. ASSUME NEW status \in {"wrongNetwork", "error"}, m.pc \in Asking \cup {"check"},
             Become(p, [m EXCEPT !.status = status, !.pc = "none"]), UNCHANGED <<slot, history>>
      PROVE  ReviewInv'
  <2> PICK x : x = [m EXCEPT !.status = status, !.pc = "none"]
    OBVIOUS
  <2>1. m \in PanelType /\ Task(txs, m) /\ (p = mounted => m = Mounted /\ Shown(txs, m))
    BY <1>2, BusyPanel DEF Sending
  <2>2. /\ x \in PanelType /\ x.hash = m.hash /\ x.terminal = m.terminal /\ x.pc = "none"
        /\ x.status = status
    BY <1>2, <2>1 DEF PanelType, Statuses
  <2>3. m.hash = 0 /\ (p = mounted => ~m.terminal)
    BY <1>2, <2>1 DEF Task, Shown, Asking
  <2>4. Keeps(m, x) /\ ActsForAccount(x)
    BY <1>2, <2>2 DEF Keeps, ActsForAccount, Asking
  <2>5. Task(txs, x) /\ (p = mounted => Shown(txs, x))
    BY <2>2, <2>3 DEF Task, Shown, Asking, Sending, Following
  <2> QED
    BY <1>1, <1>2, <2>1, <2>2, <2>4, <2>5, QuietStep
<1>3. ASSUME NEW x, m.pc = "store", Become(p, x), history' = [history EXCEPT !.lost = TRUE],
             UNCHANGED slot,
             \/ x = [m EXCEPT !.hash = 0, !.status = "error", !.pc = "none"]
             \/ x = Monitoring(m, m.hash, m.owner)
      PROVE  ReviewInv'
  <2>1. m \in PanelType /\ Task(txs, m) /\ (p = mounted => m = Mounted /\ Shown(txs, m))
    BY <1>3, BusyPanel DEF Sending
  <2>2. /\ x \in PanelType /\ (p = mounted => ~x.terminal)
        /\ \/ x.hash = 0 /\ x.status = "error" /\ x.pc = "none"
           \/ x.hash = m.hash /\ x.status = "processing" /\ x.pc = "status"
    <3>1. /\ p = mounted => ~m.terminal
          /\ m.hash \in Nat /\ m.owner \in Addresses
      BY <1>3, <2>1 DEF Shown, PanelType
    <3>2. CASE x = [m EXCEPT !.hash = 0, !.status = "error", !.pc = "none"]
      BY <2>1, <3>1, <3>2 DEF PanelType, Statuses
    <3>3. CASE x = Monitoring(m, m.hash, m.owner)
      BY <2>1, <3>1, <3>3, MonitoringIs
    <3> QED
      BY <1>3, <3>2, <3>3
  <2>3. Task(txs, x) /\ (p = mounted => Shown(txs, x)) /\ (x.pc # "none" => Runs(x, history.interrupted))
    <3>1. m.hash # 0 /\ m.hash \in DOMAIN txs
      BY <1>3, <2>1 DEF Task
    <3> QED
      BY <2>2, <3>1 DEF Task, Shown, Runs, Asking, Sending, Following
  <2>4. /\ panels' \in Seq(PanelType) /\ mounted' > 0
        /\ p = mounted => Mounted' \in {x, Ended(x)}
        /\ p # mounted => Mounted' = Mounted
        /\ panels \in Seq(PanelType) /\ mounted > 0
    BY <1>3, <2>1, <2>2, BecomeDoes DEF ReviewInv, ReviewTypeOK
  <2>5. p = mounted => Mounted'.pc \in {"none", "status"}
    <3>1. Ended(x).pc = x.pc
      BY <2>2, EndedIs
    <3> QED
      BY <2>2, <2>4, <3>1
  <2>6. /\ history' \in HistoryType /\ history'.interrupted = history.interrupted
        /\ history'.lost /\ history'.switched = history.switched
    BY <1>3 DEF ReviewInv, ReviewTypeOK, HistoryType
  <2>7. ReviewTypeOK'
    BY <1>1, <1>3, <2>4, <2>6 DEF ReviewInv, ReviewTypeOK
  <2>8. PanelsSound'
    BY <1>1, <1>3, <2>2, <2>3, <2>4, <2>6, PanelsKept DEF ReviewInv, Grows
  <2>9. Held' /\ Followed'
    BY <2>6 DEF Held, Followed, Undisturbed
  <2>10. Accounted'
    BY <1>1, <2>4, <2>5, <2>6 DEF ReviewInv, Accounted, OneAccount
  <2> QED
    BY <2>7, <2>8, <2>9, <2>10 DEF ReviewInv
<1>4. CASE /\ panels[p].pc \in {"switch", "accounts", "chain", "known", "fees", "check"}
           /\ Stop(p, IF panels[p].flow = "switch" THEN "wrongNetwork" ELSE "error")
           /\ KeepItem
  <2> PICK status : status = IF m.flow = "switch" THEN "wrongNetwork" ELSE "error"
    OBVIOUS
  <2>1. Become(p, [m EXCEPT !.status = status, !.pc = "none"]) /\ UNCHANGED <<slot, history>>
    BY <1>4 DEF Stop, KeepItem
  <2>2. m.pc \in Asking \cup {"check"} /\ status \in {"wrongNetwork", "error"}
    BY <1>4 DEF Asking
  <2> QED
    BY <1>2, <2>1, <2>2
<1>5. CASE /\ panels[p].pc = "store"
           /\ \/ Become(p, [panels[p] EXCEPT !.hash = 0, !.status = "error", !.pc = "none"])
              \/ Become(p, Monitoring(panels[p], panels[p].hash, panels[p].owner))
           /\ history' = [history EXCEPT !.lost = TRUE]
           /\ UNCHANGED slot
  <2> PICK x, y : /\ x = [m EXCEPT !.hash = 0, !.status = "error", !.pc = "none"]
                  /\ y = Monitoring(m, m.hash, m.owner)
    OBVIOUS
  <2>1. Become(p, x) \/ Become(p, y)
    BY <1>5
  <2> QED
    BY <1>3, <1>5, <2>1
<1>6. CASE /\ panels[p].pc \in {"status", "receipt", "result"}
           /\ MonitorFails(p) \/ (panels[p].pc # "status" /\ Go(p, "status") /\ KeepItem)
  <2>1. /\ UNCHANGED <<slot, history>> /\ panels[p].pc \in Following
        /\ \/ Become(p, [panels[p] EXCEPT !.status = "error", !.again = FALSE, !.pc = "none"])
           \/ Become(p, [panels[p] EXCEPT !.pc = "status"])
    BY <1>6 DEF MonitorFails, Go, KeepItem, Following
  <2> QED
    BY <1>1, <2>1, WaitsOn
<1> QED
  BY <1>4, <1>5, <1>6 DEF RequestFails

\* The chain and the worker: what is decided stays so, and what is dead is not indexed.
LEMMA ChainKeeps ==
  ASSUME ReviewInv, NEW t, Decide(t) \/ Index(t)
  PROVE  ReviewInv'
<1>1. /\ UNCHANGED <<wallet, slot, panels, page, history>> /\ txs \in Seq(TxType)
      /\ t \in DOMAIN txs
  BY DEF Decide, Index, ReviewInv, ReviewTypeOK
<1>2. PICK tx \in TxType :
        /\ txs' = [txs EXCEPT ![t] = tx] /\ tx.from = txs[t].from /\ tx.behind = txs[t].behind
        /\ Settled(t) => tx.stage = txs[t].stage
        /\ txs[t].indexed => tx.indexed
        /\ Dead(t) => ~tx.indexed
  <2>1. txs[t] \in TxType
    BY <1>1, LenProperties
  <2>2. CASE Decide(t)
    <3> PICK next \in Stages : /\ txs[t].stage \in {"UNKNOWN", "PENDING"}
                               /\ txs' = [txs EXCEPT ![t].stage = next]
      BY <2>1, <2>2 DEF Decide, TxType, Stages
    <3> PICK tx : tx = [txs[t] EXCEPT !.stage = next]
      OBVIOUS
    <3>1. /\ tx \in TxType /\ tx.from = txs[t].from /\ tx.indexed = txs[t].indexed
          /\ tx.behind = txs[t].behind
      BY <2>1 DEF TxType
    <3>2. txs' = [txs EXCEPT ![t] = tx]
      BY <1>1
    <3> QED
      BY <3>1, <3>2 DEF Settled, Dead
  <2>3. CASE Index(t)
    <3> PICK tx : tx = [txs[t] EXCEPT !.indexed = TRUE]
      OBVIOUS
    <3>1. /\ tx \in TxType /\ tx.from = txs[t].from /\ tx.stage = txs[t].stage /\ tx.indexed
          /\ tx.behind = txs[t].behind
      BY <2>1 DEF TxType
    <3>2. txs' = [txs EXCEPT ![t] = tx] /\ txs[t].stage \in {"PENDING", "SUCCEEDED"}
      BY <1>1, <2>3 DEF Index
    <3> QED
      BY <3>1, <3>2 DEF Settled, Dead
  <2> QED
    BY <2>2, <2>3
<1>3. /\ txs' \in Seq(TxType) /\ DOMAIN txs' = DOMAIN txs
      /\ \A u \in DOMAIN txs : txs'[u] = IF u = t THEN tx ELSE txs[u]
  BY <1>1, <1>2, ExceptSeq
<1>4. \A u \in DOMAIN txs : /\ Settled(u) => txs'[u].stage = txs[u].stage
                            /\ txs[u].indexed => txs'[u].indexed
                            /\ Dead(u) => ~txs'[u].indexed
                            /\ txs'[u].from = txs[u].from
                            /\ txs'[u].behind = txs[u].behind
  BY <1>2, <1>3 DEF Dead
<1>5. \A u \in DOMAIN txs : /\ Dead(u) => Dead(u)' 
                            /\ Settled(u) => Settled(u)'
  BY <1>4 DEF Settled, Dead
<1>6. Grows(txs, txs')
  BY <1>3, <1>4 DEF Grows, Settled
<1>7. mounted' = mounted /\ Mounted' = Mounted /\ Detached' = Detached
  BY <1>1 DEF mounted, Mounted, Detached
<1>8. ReviewTypeOK'
  BY <1>1, <1>3, <1>7 DEF ReviewInv, ReviewTypeOK
<1>9. PanelsSound'
  BY <1>1, <1>6, <1>7, TaskStays DEF ReviewInv, PanelsSound
<1>10. Held'
  BY <1>1, <1>3, <1>4, <1>5, <1>7 DEF ReviewInv, Held, UndecidedIsHeld
<1>11. Followed'
  <2> SUFFICES ASSUME Undisturbed
               PROVE  SlotIsHeld' /\ RecordsFollowed'
    BY <1>1 DEF Followed, Undisturbed
  <2>1. RecordsFollowed /\ SlotIsHeld
    BY DEF ReviewInv, Followed
  <2>0. SlotIsHeld'
    BY <1>1, <1>7, <2>1 DEF SlotIsHeld
  <2>2. \A u \in DOMAIN txs' : txs'[u].indexed \/ Dead(u)' \/ slot.tx = u
                                \/ (Mounted.pc = "store" /\ Mounted.hash = u)
    BY <1>3, <1>4, <1>5, <2>1 DEF RecordsFollowed
  <2>3. \A hash : OthersKnown(hash) => \A u \in DOMAIN txs' : u # hash => u \in page.known \/ Dead(u)'
    BY <1>3, <1>5 DEF OthersKnown
  <2>4. Mounted.status = "finalized" /\ ~Mounted.again => txs'[Mounted.hash].indexed
    <3>1. Mounted.status = "finalized" => Mounted.hash \in DOMAIN txs
      BY DEF ReviewInv, PanelsSound, Task, Shown
    <3> QED
      BY <1>4, <2>1, <3>1 DEF RecordsFollowed
  <2>5. Mounted.hash # 0 \/ Mounted.pc \in {"check", "send"} =>
          \A u \in DOMAIN txs' : u # Mounted.hash => u \in page.known \/ Dead(u)'
    BY <2>1, <2>3 DEF RecordsFollowed
  <2>6. slot.tx # 0 => \A u \in DOMAIN txs' : u # slot.tx => u \in page.known \/ Dead(u)'
    BY <2>1, <2>3 DEF RecordsFollowed
  <2> QED
    BY <1>1, <1>7, <2>0, <2>2, <2>4, <2>5, <2>6 DEF RecordsFollowed, OthersKnown
<1>12. Accounted'
  BY <1>1, <1>3, <1>4, <1>7 DEF ReviewInv, Accounted, OneAccount
<1> QED
  BY <1>8, <1>9, <1>10, <1>11, <1>12 DEF ReviewInv

LEMMA ReviewStarts ==
  ASSUME ReviewInit
  PROVE  ReviewInv
<1> PICK y : y = Blank
  OBVIOUS
<1>1. /\ y \in PanelType /\ y.hash = 0 /\ y.pc = "none" /\ y.status = "idle" /\ ~y.terminal
  BY DEF Blank, PanelType, Addresses, Statuses
<1>2. panels \in Seq(PanelType) /\ mounted = 1 /\ Mounted = y /\ Detached = {}
  BY <1>1 DEF ReviewInit, mounted, Mounted, Detached
<1>3. /\ wallet \in [account : Accounts, ours : BOOLEAN] /\ wallet.account = Account
      /\ txs = <<>> /\ txs \in Seq(TxType) /\ DOMAIN txs = {} /\ slot = Empty /\ slot.tx = 0
      /\ history = [reloaded |-> FALSE, switched |-> FALSE, lost |-> FALSE, interrupted |-> FALSE]
      /\ page = [known |-> {}, stale |-> FALSE]
  BY ActionReviewAssumption DEF ReviewInit, Empty
<1>4. ReviewTypeOK
  BY <1>2, <1>3 DEF ReviewTypeOK, HistoryType
<1>5. PanelsSound
  <2>1. Task(txs, y) /\ Shown(txs, y)
    BY <1>1 DEF Task, Shown, Asking, Sending, Following
  <2> QED
    BY <1>2, <2>1 DEF PanelsSound
<1>6. Held
  BY <1>3 DEF Held, UndecidedIsHeld
<1>7. Followed /\ Accounted
  BY <1>1, <1>2, <1>3 DEF Followed, Accounted, SlotIsHeld, RecordsFollowed, OthersKnown, OneAccount
<1> QED
  BY <1>4, <1>5, <1>6, <1>7 DEF ReviewInv

LEMMA ReviewKept ==
  ASSUME ReviewInv, ReviewNext
  PROVE  ReviewInv'
<1>1. ASSUME NEW p \in DOMAIN panels, TaskStep(p)
      PROVE  ReviewInv'
  BY <1>1, AskingKeeps, NotingKeeps, ConfirmKeeps, StoreKeeps, FollowingKeeps, ReflectedKeeps
  DEF TaskStep
<1> QED
  BY <1>1, ClickKeeps, SwitchWalletKeeps, EditKeeps, RefreshKeeps, MountKeeps, ReloadKeeps,
     RequestFailsKeeps, ChainKeeps
  DEF ReviewNext

LEMMA ReviewInvariant == ReviewSpec => []ReviewInv
<1>1. ReviewInv /\ UNCHANGED reviewVars => ReviewInv'
  <2> SUFFICES ASSUME ReviewInv, UNCHANGED reviewVars
               PROVE  ReviewInv'
    OBVIOUS
  <2>1. /\ UNCHANGED <<wallet, txs, slot, panels, page, history>>
        /\ mounted' = mounted /\ Mounted' = Mounted /\ Detached' = Detached
    BY DEF reviewVars, mounted, Mounted, Detached
  <2>2. ReviewTypeOK' /\ PanelsSound'
    BY <2>1 DEF ReviewInv, ReviewTypeOK, PanelsSound
  <2>3. Accounted'
    BY <2>1 DEF ReviewInv, Accounted, OneAccount
  <2>4. Held' /\ Followed'
    BY <2>1, StillHeld DEF ReviewInv, Keeps
  <2> QED
    BY <2>2, <2>3, <2>4 DEF ReviewInv
<1> QED
  BY <1>1, ReviewStarts, ReviewKept, PTL DEF ReviewSpec

\* However often the page is reloaded, the inputs are edited and requests fail, and
\* whichever task runs on from a panel that was replaced: while no hash is lost, a
\* purchase is offered or signed only when every earlier one is decided, except one whose
\* hash came to a replaced panel while the mounted one was there already (actions.tsx, the
\* button and the storage).
THEOREM OneAtATime == ReviewSpec => []OfferedOnlyWhenSettled
<1>1. ReviewInv => OfferedOnlyWhenSettled
  <2> SUFFICES ASSUME ReviewInv, ~history.lost, Mounted.status = "ready" \/ Mounted.pc = "send",
                      NEW t \in DOMAIN txs, ~Settled(t), ~txs[t].behind
               PROVE  FALSE
    BY DEF OfferedOnlyWhenSettled, EveryWriteRemembered
  <2>1. Task(txs, Mounted) /\ Shown(txs, Mounted) /\ t # 0
    BY LenProperties DEF ReviewInv, PanelsSound, ReviewTypeOK
  <2>2. \/ Mounted.hash = t
        \/ Mounted.pc = "loading"
    BY DEF ReviewInv, Held, UndecidedIsHeld
  <2>3. Mounted.pc # "loading"
    BY <2>1 DEF Shown
  <2>4. Mounted.pc # "send" /\ Mounted.status = "ready"
    BY <2>1, <2>2, <2>3 DEF Task
  <2>5. Mounted.pc \in {"none", "loading"} \cup Asking \cup Sending \cup Following
    <3>1. Mounted \in PanelType
      BY LenProperties DEF ReviewInv, ReviewTypeOK, mounted, Mounted
    <3> QED
      BY <3>1 DEF PanelType
  <2> QED
    BY <2>1, <2>2, <2>3, <2>4, <2>5 DEF Task, Shown
<1> QED
  BY <1>1, ReviewInvariant, PTL

\* What the panel calls reflected in the indexed state is indexed, as long as no hash
\* was lost, no reload emptied previousCoverageIds, the account stayed the same, and no
\* review or signature ran on after its panel was replaced (purchase.tsx, the noted
\* records; actions.tsx, onFinalized).
THEOREM ReflectedIsTrue == ReviewSpec => []ReflectedIsIndexed
<1>1. ReviewInv => ReflectedIsIndexed
  BY DEF ReviewInv, ReflectedIsIndexed, EveryWriteRemembered, Followed, Undisturbed, RecordsFollowed
<1> QED
  BY <1>1, ReviewInvariant, PTL

-----------------------------------------------------------------------------
(* Whom roundings favour: integers *)

\* A quotient is rounded down.
LEMMA DivIs ==
  ASSUME NEW a \in Int, NEW b \in Nat \ {0}
  PROVE  /\ a \div b \in Int
         /\ (a \div b) * b <= a /\ a < (a \div b) * b + b
OBVIOUS

LEMMA TimesGrows ==
  ASSUME NEW n \in Int, NEW m \in Int, NEW b \in Nat
  PROVE  /\ n < m => n * b + b <= m * b
         /\ n <= m => n * b <= m * b
         /\ n * b \in Int
<1>1. ASSUME n < m PROVE n * b + b <= m * b
  <2>1. m - n - 1 >= 0
    BY <1>1
  <2>2. (m - n - 1) * b >= 0
    BY <2>1
  <2>3. (m - n - 1) * b = m * b - n * b - b
    OBVIOUS
  <2> QED
    BY <2>2, <2>3
<1>2. n * b \in Int /\ m * b \in Int
  OBVIOUS
<1> QED
  BY <1>1, <1>2

\* What lies below a quotient, and what above it.
LEMMA DivLess ==
  ASSUME NEW a \in Int, NEW b \in Nat \ {0}, NEW n \in Int
  PROVE  a \div b < n <=> a < n * b
<1> PICK q : q = a \div b
  OBVIOUS
<1>1. q \in Int /\ q * b <= a /\ a < q * b + b
  BY DivIs
<1>2. n * b \in Int /\ q * b \in Int
  BY <1>1, TimesGrows
<1>3. CASE q < n
  <2>1. q * b + b <= n * b
    BY <1>1, <1>3, TimesGrows
  <2> QED
    BY <1>1, <1>2, <1>3, <2>1
<1>4. CASE n <= q
  <2>1. n * b <= q * b
    BY <1>1, <1>4, TimesGrows
  <2> QED
    BY <1>1, <1>2, <1>4, <2>1
<1> QED
  BY <1>1, <1>3, <1>4

\* A product divided and rounded up: the least whose multiple is not below it.
LEMMA MulDivUpIs ==
  ASSUME NEW a \in Nat, NEW b \in Nat, NEW d \in Nat \ {0}, NEW n, n = MulDivUp(a, b, d)
  PROVE  /\ n \in Nat /\ n * d >= a * b
         /\ n = 0 \/ (n - 1) * d < a * b
         /\ n * d < a * b + d
<1> PICK exact \in Nat : exact = a * b
  OBVIOUS
<1>1. n = (exact + d - 1) \div d
  BY DEF MulDivUp
<1>2. n \in Int /\ n * d <= exact + d - 1 /\ exact + d - 1 < n * d + d
  BY <1>1, DivIs
<1>3. (n - 1) * d = n * d - d
  BY <1>2
<1>4. n * d \in Int
  BY <1>2
<1>5. ~(n < 0)
  <2>1. n < 0 => n * d + d <= 0 * d
    BY <1>2, TimesGrows
  <2> QED
    BY <1>2, <1>4, <2>1
<1> QED
  BY <1>2, <1>3, <1>4, <1>5

LEMMA MulDivIs ==
  ASSUME NEW a \in Nat, NEW b \in Nat, NEW d \in Nat \ {0}, NEW n, n = MulDiv(a, b, d)
  PROVE  n \in Nat /\ n * d <= a * b /\ a * b < n * d + d
<1> PICK exact \in Nat : exact = a * b
  OBVIOUS
<1>1. n \in Int /\ n * d <= exact /\ exact < n * d + d
  BY DivIs DEF MulDiv
<1>2. ~(n < 0)
  <2>1. n < 0 => n * d + d <= 0 * d
    BY <1>1, TimesGrows
  <2>2. n * d \in Int
    BY <1>1
  <2> QED
    BY <1>1, <2>1, <2>2
<1> QED
  BY <1>1, <1>2

LEMMA LeastNumber ==
  ASSUME NEW S \in SUBSET Nat, S # {}
  PROVE  \E x \in S : \A y \in S : x <= y
<1> DEFINE R == OpToRel(<, Nat)
<1>1. IsWellFoundedOn(R, Nat)
  BY NatLessThanWellFounded
<1> HIDE DEF R
<1>2. PICK x \in S : \A y \in S : ~ (<<y, x>> \in R)
  BY <1>1, WFMin
<1>3. \A y \in S : ~(y < x)
  BY <1>2 DEF R, OpToRel
<1> QED
  BY <1>3

LEMMA MinIs ==
  ASSUME NEW S \in SUBSET Nat, S # {}
  PROVE  Min(S) \in S /\ \A y \in S : Min(S) <= y
BY LeastNumber DEF Min

LEMMA MaxIs ==
  ASSUME NEW S \in SUBSET Nat, S # {}, NEW n \in Nat, \A y \in S : y <= n
  PROVE  Max(S) \in S /\ \A y \in S : y <= Max(S)
<1> DEFINE gaps == {n - y : y \in S}
<1>1. \A y \in S : n - y \in Nat
  OBVIOUS
<1>2. gaps \in SUBSET Nat /\ gaps # {}
  BY <1>1
<1>3. \E g \in gaps : \A h \in gaps : g <= h
  <2> HIDE DEF gaps
  <2> QED
    BY <1>2, LeastNumber
<1>4. PICK x \in S : \A y \in S : n - x <= n - y
  BY <1>3
<1>5. \A y \in S : x >= y
  BY <1>4
<1> QED
  BY <1>5 DEF Max

-----------------------------------------------------------------------------
(* Premiums, fees and payouts *)

LEMMA TypesOfRates ==
  /\ BpsDenom \in Nat \ {0} /\ YearSeconds \in Nat \ {0}
  /\ MinPremium \in Nat /\ MinPremium <= 1 /\ Unknown \notin Int
  /\ BpsDenom * YearSeconds \in Nat \ {0}
<1>1. BpsDenom \in Nat \ {0} /\ YearSeconds \in Nat \ {0} /\ MinPremium \in Nat
  BY RatesAssumption
<1>2. BpsDenom * YearSeconds > 0
  BY <1>1
<1> QED
  BY <1>1, <1>2, RoundingAssumption

\* The least number whose multiple is not below an amount is the only one that is
\* not below it and whose predecessor is.
LEMMA LeastMultiple ==
  ASSUME NEW exact \in Nat, NEW unit \in Nat \ {0}, NEW n \in Nat,
         n * unit >= exact, n = 0 \/ (n - 1) * unit < exact
  PROVE  (CHOOSE m \in 0 .. exact : m * unit >= exact /\ (m = 0 \/ (m - 1) * unit < exact)) = n
<1>1. n <= exact
  <2> SUFFICES ASSUME n > exact PROVE FALSE
    OBVIOUS
  <2>1. (n - 1) * unit >= (n - 1) * 1
    <3>1. (n - 1) * (unit - 1) >= 0
      OBVIOUS
    <3>2. (n - 1) * (unit - 1) = (n - 1) * unit - (n - 1)
      OBVIOUS
    <3>3. (n - 1) * unit \in Int
      OBVIOUS
    <3> QED
      BY <3>1, <3>2, <3>3
  <2>2. (n - 1) * unit \in Int
    OBVIOUS
  <2> QED
    BY <2>1, <2>2
<1>2. ASSUME NEW m \in 0 .. exact, m * unit >= exact, m = 0 \/ (m - 1) * unit < exact
      PROVE  m = n
  <2>1. ~(m < n)
    <3> SUFFICES ASSUME m < n PROVE FALSE
      OBVIOUS
    <3>1. m * unit <= (n - 1) * unit /\ m * unit \in Int
      BY TimesGrows, m <= n - 1, n - 1 \in Int, m \in Int
    <3>2. (n - 1) * unit \in Int
      OBVIOUS
    <3> QED
      BY <1>2, <3>1, <3>2
  <2>2. ~(n < m)
    <3> SUFFICES ASSUME n < m PROVE FALSE
      OBVIOUS
    <3>1. n * unit <= (m - 1) * unit /\ n * unit \in Int
      BY TimesGrows, n <= m - 1, m - 1 \in Int, n \in Int
    <3>2. (m - 1) * unit \in Int
      OBVIOUS
    <3> QED
      BY <1>2, <3>1, <3>2
  <2> QED
    BY <2>1, <2>2
<1> QED
  BY <1>1, <1>2

\* A share of at most all, rounded up, is at most all.
LEMMA PartIs ==
  ASSUME NEW a \in Nat, NEW c \in Nat, NEW B \in Nat \ {0}, c <= B,
         NEW n, n = MulDivUp(a, c, B)
  PROVE  n \in Nat /\ n <= a
<1>1. n \in Nat /\ (n = 0 \/ (n - 1) * B < a * c)
  BY MulDivUpIs
<1>2. c * a <= B * a /\ c * a \in Int
  BY TimesGrows
<1>3. c * a = a * c /\ B * a = a * B
  OBVIOUS
<1>4. ~(n > a)
  <2> SUFFICES ASSUME n > a PROVE FALSE
    OBVIOUS
  <2>1. a * B <= (n - 1) * B /\ a * B \in Int
    BY <1>1, TimesGrows, a <= n - 1, n - 1 \in Int, a \in Int
  <2>2. (n - 1) * B \in Int
    BY <1>1
  <2>3. a * c \in Int
    OBVIOUS
  <2> QED
    BY <1>1, <1>2, <1>3, <2>1, <2>2, <2>3
<1> QED
  BY <1>1, <1>4

RoundingType ==
  /\ amount \in Nat /\ duration \in Nat \ {0} /\ rate \in Nat /\ cut \in 0 .. BpsDenom
  /\ samples \in Seq(DOMAIN Sample)

LEMMA RoundingTypeHolds == RoundingSpec => []RoundingType
<1>1. RoundingInit => RoundingType
  BY TypesOfRates, EmptySeq DEF RoundingInit, GridOrigin, RoundingType
<1>2. RoundingType /\ [RoundingStep]_roundingVars => RoundingType'
  <2> SUFFICES ASSUME RoundingType, [RoundingStep]_roundingVars PROVE RoundingType'
    OBVIOUS
  <2>1. CASE GridStep
    BY <2>1, TypesOfRates DEF RoundingType, GridStep
  <2>2. CASE SampleStep
    <3>1. samples' \in Seq(DOMAIN Sample)
      BY <2>2, AppendProperties DEF RoundingType, SampleStep
    <3> QED
      BY <2>2, <3>1 DEF RoundingType, SampleStep, gridVars
  <2>3. CASE UNCHANGED roundingVars
    BY <2>3 DEF RoundingType, roundingVars, gridVars
  <2> QED
    BY <2>1, <2>2, <2>3 DEF RoundingStep
<1> QED
  BY <1>1, <1>2, PTL DEF RoundingSpec

LEMMA PremiumIsRoundedUp ==
  ASSUME RoundingType
  PROVE  PremiumRoundsUp
<1> PICK unit \in Nat \ {0} : unit = BpsDenom * YearSeconds
  BY TypesOfRates
<1> PICK product \in Nat : product = amount * rate
  BY DEF RoundingType
<1> PICK exact \in Nat : exact = product * duration
  BY DEF RoundingType
<1> PICK gross : gross = MulDivUp(product, duration, unit)
  OBVIOUS
<1> DEFINE least == CHOOSE n \in 0 .. exact : n * unit >= exact /\ (n = 0 \/ (n - 1) * unit < exact)
<1>1. gross \in Nat /\ gross * unit >= exact /\ (gross = 0 \/ (gross - 1) * unit < exact)
  BY MulDivUpIs DEF RoundingType
<1>2. least = gross
  BY <1>1, LeastMultiple
<1>3. Quote = IF rate > 0 /\ least < MinPremium THEN MinPremium ELSE least
  BY <1>2 DEF Quote, Premium
<1> PICK fee : fee = MulDivUp(amount, cut, BpsDenom)
  OBVIOUS
<1>4. cut \in Nat /\ cut <= BpsDenom /\ amount \in Nat
  BY TypesOfRates DEF RoundingType
<1>5. fee \in Nat /\ fee <= amount
  BY <1>4, TypesOfRates, PartIs
<1>6. FeeOf(amount, cut) = fee
  BY <1>4, <1>5 DEF FeeOf
<1>7. fee * BpsDenom >= amount * cut /\ (fee = 0 \/ (fee - 1) * BpsDenom < amount * cut)
  BY <1>4, TypesOfRates, MulDivUpIs
<1> QED
  BY <1>3, <1>4, <1>5, <1>6, <1>7 DEF PremiumRoundsUp

LEMMA OfferIsEnough ==
  ASSUME RoundingType
  PROVE  OfferCovers
<1> SUFFICES ASSUME amount > 0 PROVE OfferedPremium(amount, duration, rate) >= Quote
  BY DEF OfferCovers
<1> PICK unit \in Nat \ {0} : unit = BpsDenom * YearSeconds
  BY TypesOfRates
<1> PICK product \in Nat : product = amount * rate
  BY DEF RoundingType
<1> PICK gross : gross = MulDivUp(product, duration, unit)
  OBVIOUS
<1>1. gross \in Nat
  BY MulDivUpIs DEF RoundingType
<1>2. OfferedPremium(amount, duration, rate) = IF gross = 0 THEN 1 ELSE gross
  BY DEF OfferedPremium, MulDivUp, RoundingType
<1>3. Quote = IF gross < MinPremium /\ rate > 0 THEN MinPremium ELSE gross
  BY DEF Quote, Premium
<1> QED
  BY <1>1, <1>2, <1>3, TypesOfRates

\* What the provider's fault pays, on its own numbers.
LEMMA NetIs ==
  ASSUME NEW a \in Nat, NEW f \in Nat, NEW c \in Nat, NEW B \in Nat \ {0}, f <= B, c <= B,
         NEW capped, capped = MulDiv(a, f, B),
         NEW taken, taken = MulDivUp(capped, c, B)
  PROVE  /\ capped \in Nat /\ taken \in Nat /\ taken <= capped /\ capped <= a
         /\ (capped - taken) * (B * B) <= a * f * (B - c)
         /\ (capped - taken + 2) * (B * B) > a * f * (B - c)
<1>1. capped \in Nat /\ capped * B <= a * f /\ a * f < capped * B + B
  BY MulDivIs
<1>2. taken \in Nat /\ taken <= capped
  BY <1>1, PartIs
<1>3. taken * B >= capped * c /\ taken * B < capped * c + B
  BY <1>1, MulDivUpIs
<1>4. capped <= a
  <2> SUFFICES ASSUME capped > a PROVE FALSE
    BY <1>1
  <2>1. a * B + B <= capped * B /\ a * B \in Int
    BY <1>1, TimesGrows
  <2>2. f * a <= B * a /\ f * a \in Int
    BY TimesGrows
  <2>3. f * a = a * f /\ B * a = a * B
    OBVIOUS
  <2>4. capped * B \in Int
    BY <1>1
  <2> QED
    BY <1>1, <2>1, <2>2, <2>3, <2>4
<1> PICK net \in Nat : net = capped - taken
  BY <1>1, <1>2
<1> PICK rest \in Nat : rest = B - c
  OBVIOUS
<1> PICK due \in Nat : due = a * f
  OBVIOUS
<1> PICK whole \in Nat : whole = capped * B
  BY <1>1
<1>5. capped * rest = whole - capped * c
  BY <1>1
<1>6. net * B = whole - taken * B
  BY <1>1, <1>2
<1>7. net * B \in Int /\ capped * rest \in Int /\ taken * B \in Int /\ capped * c \in Int
  BY <1>1, <1>2
<1>8. net * B <= capped * rest /\ capped * rest < net * B + B
  BY <1>3, <1>5, <1>6, <1>7
<1>9. (net * B) * B <= (capped * rest) * B
  BY <1>7, <1>8, TimesGrows
<1>10. (capped * rest) * B + B <= (net * B + B) * B
  BY <1>7, <1>8, TimesGrows, net * B + B \in Int
<1>11. (capped * rest) * B = whole * rest
  BY <1>1
<1>12. whole * rest <= due * rest
  BY <1>1, TimesGrows
<1>13. due * rest + rest <= (whole + B) * rest
  BY <1>1, TimesGrows, whole + B \in Int
<1>14. (whole + B) * rest = whole * rest + B * rest
  OBVIOUS
<1>15. B * rest <= B * B
  <2>1. rest * B <= B * B
    BY TimesGrows, rest <= B
  <2> QED
    BY <2>1
<1>16. (net * B) * B = net * (B * B) /\ (net * B + B) * B = net * (B * B) + B * B
  OBVIOUS
<1>17. (net + 2) * (B * B) = net * (B * B) + 2 * (B * B)
  OBVIOUS
<1>18. net * (B * B) \in Int /\ B * B \in Int /\ whole * rest \in Int /\ due * rest \in Int /\ B * rest \in Int
  OBVIOUS
<1>19. net * (B * B) <= due * rest
  BY ONLY <1>9, <1>11, <1>12, <1>16, <1>18
<1>20. (net + 2) * (B * B) > due * rest
  BY ONLY <1>10, <1>11, <1>13, <1>14, <1>15, <1>16, <1>17, <1>18, B \in Nat \ {0}, rest \in Nat
<1> QED
  BY <1>1, <1>2, <1>4, <1>19, <1>20

LEMMA GridIsEntitled ==
  ASSUME RoundingType, NEW fault \in {"PROVIDER", "SHARED"}
  PROVE  Entitled(0, 1, GridTerms, GridFacts(fault))
<1>1. "AVAILABILITY" \in Clauses
  BY DEF Clauses
<1>2. GridTerms.threshold["AVAILABILITY"] = 1 /\ GridFacts(fault).observed["AVAILABILITY"] = 0
  BY <1>1 DEF GridTerms, GridFacts
<1>3. "AVAILABILITY" \in MatchedClauses(GridTerms, GridFacts(fault))
  BY <1>1, <1>2, TypesOfRates DEF MatchedClauses
<1>4. /\ GridTerms.scope = "global" /\ GridTerms.minIncident = 0
      /\ GridFacts(fault).scope = "eu" /\ GridFacts(fault).start = 0 /\ GridFacts(fault).end = 1
      /\ GridFacts(fault).status = "INCIDENT_CONFIRMED" /\ GridFacts(fault).fault = fault
      /\ GridFacts(fault).chainFailure = FALSE
  BY DEF GridTerms, GridFacts
<1> QED
  BY <1>3, <1>4 DEF Entitled, WindowsOverlap, ScopeCovered

LEMMA PayoutIsRoundedDown ==
  ASSUME RoundingType
  PROVE  PayoutRoundsDown
<1> PICK B \in Nat \ {0} : B = BpsDenom
  BY TypesOfRates
<1> PICK f : f = GridTerms.maxPayoutBps
  OBVIOUS
<1>1. f \in Nat /\ f <= B /\ cut \in Nat /\ cut <= B /\ amount \in Nat
  BY DEF RoundingType, GridTerms
<1> PICK capped : capped = MulDiv(amount, f, B)
  OBVIOUS
<1> PICK taken : taken = MulDivUp(capped, cut, B)
  OBVIOUS
<1>2. /\ capped \in Nat /\ taken \in Nat /\ taken <= capped /\ capped <= amount
      /\ (capped - taken) * (B * B) <= amount * f * (B - cut)
      /\ (capped - taken + 2) * (B * B) > amount * f * (B - cut)
  BY ONLY <1>1, B \in Nat \ {0}, capped = MulDiv(amount, f, B), taken = MulDivUp(capped, cut, B), NetIs
<1> PICK net \in Nat : net = capped - taken
  BY <1>2
<1>3. GridTerms.deductibleBps = cut
  BY DEF GridTerms
<1>4. net <= amount
  BY <1>1, <1>2
<1>5. Amount(amount, amount, GridTerms, "PROVIDER") = net
  BY <1>1, <1>2, <1>3, <1>4 DEF Amount
<1>6. net \div 2 \in Nat /\ 2 * (net \div 2) \in {net - 1, net}
  OBVIOUS
<1>7. Amount(amount, amount, GridTerms, "SHARED") = net \div 2
  BY <1>1, <1>2, <1>3, <1>4, <1>6 DEF Amount
<1>8. GridFacts("PROVIDER").fault = "PROVIDER" /\ GridFacts("SHARED").fault = "SHARED"
  BY DEF GridFacts
<1>9. Entitled(0, 1, GridTerms, GridFacts("PROVIDER")) /\ Entitled(0, 1, GridTerms, GridFacts("SHARED"))
  BY GridIsEntitled
<1>10. CASE amount > 0
  <2>1. Paid(amount, "PROVIDER") = net /\ Paid(amount, "SHARED") = net \div 2
    BY <1>5, <1>7, <1>8, <1>9, <1>10 DEF Paid, Payout
  <2> QED
    BY <1>1, <1>2, <1>4, <1>6, <2>1 DEF PayoutRoundsDown
<1>11. CASE amount = 0
  <2>1. Paid(amount, "PROVIDER") = 0 /\ Paid(amount, "SHARED") = 0
    BY <1>11 DEF Paid, Payout
  <2>2. amount * f * (B - cut) = 0
    BY <1>1, <1>11
  <2>3. (0 + 2) * (B * B) > 0 /\ 0 * (B * B) = 0
    <3>1. B * B > 0
      OBVIOUS
    <3> QED
      BY <3>1
  <2> QED
    BY <1>11, <2>1, <2>2, <2>3 DEF PayoutRoundsDown
<1> QED
  BY <1>1, <1>10, <1>11

-----------------------------------------------------------------------------
(* Measurements *)

SampleType ==
  [success : BOOLEAN, latency : 0..MaxLatency,
   target : (0..MaxBlock) \cup {Unknown}, reference : (0..MaxBlock) \cup {Unknown}]

LEMMA TypesOfMetrics ==
  /\ Million \in Nat \ {0} /\ MaxLatency \in Nat /\ MaxLag \in Nat /\ MaxBlock \in Nat
  /\ Sample \in Seq(SampleType)
BY MetricsAssumption, RoundingAssumption DEF SampleType

\* A window of samples, each of a kind there is.
LEMMA WindowIs ==
  ASSUME RoundingType
  PROVE  /\ Len(samples) \in Nat /\ DOMAIN samples = 1 .. Len(samples)
         /\ DOMAIN Window = DOMAIN samples /\ Len(Window) = Len(samples)
         /\ \A i \in DOMAIN samples :
              /\ Window[i] \in SampleType
              /\ Window[i].reference # Unknown =>
                   Window[i].target # Unknown /\ Window[i].reference - Window[i].target <= MaxLag
         /\ samples # <<>> => Len(samples) > 0
<1>1. /\ Len(samples) \in Nat /\ DOMAIN samples = 1 .. Len(samples)
      /\ \A i \in DOMAIN samples : samples[i] \in DOMAIN Sample
  BY LenProperties, ElementOfSeq DEF RoundingType
<1>2. DOMAIN Window = DOMAIN samples
  BY DEF Window
<1>3. \A i \in DOMAIN samples : Window[i] = Sample[samples[i]]
  BY DEF Window
<1>4. \A j \in DOMAIN Sample : Sample[j] \in SampleType /\ Sample[j] \in Range(Sample)
  BY TypesOfMetrics, LenProperties, ElementOfSeq DEF Range
<1>5. Window \in Seq(SampleType)
  <2>1. Window = [i \in 1 .. Len(samples) |-> Sample[samples[i]]]
    BY <1>1 DEF Window
  <2>2. \A i \in 1 .. Len(samples) : Sample[samples[i]] \in SampleType
    BY <1>1, <1>4
  <2> QED
    BY <1>1, <2>1, <2>2, IsASeq
<1>6. Len(Window) = Len(samples)
  BY <1>1, <1>2, <1>5, LenProperties
<1>7. samples # <<>> => Len(samples) > 0
  BY <1>1, EmptySeq DEF RoundingType
<1> QED
  BY <1>1, <1>2, <1>3, <1>4, <1>6, <1>7, RoundingAssumption

\* The elements of 1 .. n that are counted, and those that are not.
LEMMA Counted ==
  ASSUME NEW n \in Nat, NEW S \in SUBSET (1 .. n)
  PROVE  /\ IsFiniteSet(S) /\ Cardinality(S) \in 0 .. n
         /\ Cardinality((1 .. n) \ S) = n - Cardinality(S)
<1>1. IsFiniteSet(1 .. n) /\ Cardinality(1 .. n) = n
  BY FS_Interval
<1>2. IsFiniteSet(S) /\ Cardinality(S) <= n /\ Cardinality(S) \in Nat
  BY <1>1, FS_Subset, FS_CardinalityType
<1>3. (1 .. n) \cap S = S
  OBVIOUS
<1>4. Cardinality((1 .. n) \ S) = Cardinality(1 .. n) - Cardinality((1 .. n) \cap S)
  <2> PICK U : U = 1 .. n
    OBVIOUS
  <2>1. IsFiniteSet(U)
    BY <1>1
  <2>2. Cardinality(U \ S) = Cardinality(U) - Cardinality(U \cap S)
    BY ONLY <2>1, FS_Difference
  <2> QED
    BY <2>2
<1>5. Cardinality((1 .. n) \ S) = n - Cardinality(S)
  BY <1>1, <1>3, <1>4, Zenon
<1>6. Cardinality(S) \in 0 .. n
  BY <1>2
<1> QED
  BY <1>2, <1>5, <1>6

\* A threshold for one clause is violated by what is known and beyond it.
LEMMA ViolatedIs ==
  ASSUME NEW k \in Clauses, NEW limit \in Nat \ {0}, NEW e
  PROVE  MatchedClauses([threshold |-> [c \in Clauses |-> IF c = k THEN limit ELSE 0]],
                        [observed |-> e]) # {}
           <=> /\ e[k] # Unknown
               /\ IF k = "AVAILABILITY" THEN e[k] < limit ELSE e[k] > limit
<1> DEFINE T == [c \in Clauses |-> IF c = k THEN limit ELSE 0]
           M == MatchedClauses([threshold |-> T], [observed |-> e])
<1>1. \A c \in Clauses : T[c] = IF c = k THEN limit ELSE 0
  OBVIOUS
<1> HIDE DEF T
<1>2. M = {c \in Clauses : /\ T[c] > 0 /\ e[c] # Unknown
                           /\ IF c = "AVAILABILITY" THEN e[c] < T[c] ELSE e[c] > T[c]}
  BY DEF MatchedClauses
<1>3. \A c \in M : c = k
  BY <1>1, <1>2
<1>4. M # {} <=> k \in M
  BY <1>3
<1>5. k \in M <=> e[k] # Unknown /\ IF k = "AVAILABILITY" THEN e[k] < limit ELSE e[k] > limit
  BY <1>1, <1>2
<1> QED
  BY <1>4, <1>5 DEF T

\* A rate in parts of a million lies below a threshold when the exact rate does.
LEMMA RateIs ==
  ASSUME NEW n \in Nat \ {0}, NEW part \in 0 .. n, NEW limit \in Nat
  PROVE  /\ ppm(part, n) \in 0 .. Million
         /\ ppm(part, n) < limit <=> part * Million < limit * n
         /\ ppm(part, n) > limit => part * Million > limit * n
<1> PICK whole \in Nat : whole = part * Million
  BY TypesOfMetrics
<1> PICK q : q = ppm(part, n)
  OBVIOUS
<1>1. q = whole \div n
  BY DEF ppm
<1>2. q \in Int /\ q * n <= whole /\ whole < q * n + n
  BY ONLY <1>1, whole \in Int, n \in Nat \ {0}, DivIs
<1>3. q < limit <=> whole < limit * n
  BY <1>1, DivLess
<1>4. q < 0 <=> whole < 0 * n
  BY <1>1, DivLess, 0 \in Int
<1>5. q > limit => whole > limit * n
  <2> SUFFICES ASSUME limit < q PROVE whole > limit * n
    BY <1>2
  <2>1. limit * n + n <= q * n /\ limit * n \in Int
    BY <1>2, TimesGrows
  <2>2. q * n \in Int
    BY <1>2
  <2> QED
    BY <1>2, <2>1, <2>2
<1>6. whole < (Million + 1) * n
  <2>1. part * Million <= n * Million /\ n * Million \in Int
    BY TypesOfMetrics, TimesGrows
  <2>2. (Million + 1) * n = n * Million + n
    BY TypesOfMetrics
  <2> QED
    BY <2>1, <2>2
<1>7. q < Million + 1
  BY <1>1, <1>6, DivLess, TypesOfMetrics
<1> QED
  BY <1>2, <1>3, <1>4, <1>5, <1>7, TypesOfMetrics

\* The 95th percentile lies above a limit when more than one in twenty values does.
LEMMA RankIs ==
  ASSUME NEW n \in Nat \ {0}, NEW m \in Nat, NEW v \in [1 .. n -> 0 .. m]
  PROVE  /\ nearestRank(v, 95) \in 0 .. m
         /\ \A limit \in Nat :
              nearestRank(v, 95) > limit <=> 20 * Cardinality({i \in 1 .. n : v[i] > limit}) > n
<1> PICK p : p = nearestRank(v, 95)
  OBVIOUS
<1> DEFINE AtMost(x) == Cardinality({i \in 1 .. n : v[i] <= x})
<1> PICK rank : rank = (95 * n + 99) \div 100
  OBVIOUS
<1>1. rank \in Int /\ rank >= 1 /\ rank <= n /\ \A A \in Int : A < rank <=> 100 * A < 95 * n
  OBVIOUS
<1> DEFINE Good == {x \in Range(v) : AtMost(x) >= rank}
<1>2. DOMAIN v = 1 .. n /\ 1 \in 1 .. n /\ Cardinality(1 .. n) = n
  BY FS_Interval
<1>3. \A x : x \in Range(v) <=> \E i \in 1 .. n : x = v[i]
  BY <1>2 DEF Range
<1>4. Range(v) \in SUBSET (0 .. m)
  BY <1>3
<1>5. p = Min(Good)
  BY <1>2 DEF nearestRank
<1>6. \A x : AtMost(x) \in 0 .. n
  <2> SUFFICES ASSUME NEW x PROVE AtMost(x) \in 0 .. n
    OBVIOUS
  <2>1. {i \in 1 .. n : v[i] <= x} \in SUBSET (1 .. n)
    OBVIOUS
  <2> QED
    BY <2>1, Counted
<1>7. Good # {}
  <2> PICK top : top = Max(Range(v))
    OBVIOUS
  <2>1. Range(v) # {}
    BY <1>2, <1>3
  <2>2. Range(v) \in SUBSET Nat /\ \A y \in Range(v) : y <= m
    BY ONLY <1>4, m \in Nat
  <2>3. top \in Range(v) /\ \A y \in Range(v) : y <= top
    BY <2>1, <2>2, MaxIs
  <2>4. {i \in 1 .. n : v[i] <= top} = 1 .. n
    BY <1>3, <2>3
  <2>5. AtMost(top) = n
    BY <1>2, <2>4
  <2>6. top \in Good
    BY <1>1, <2>3, <2>5
  <2> QED
    BY <2>6
<1>8. p \in Good /\ \A y \in Good : p <= y
  <2>1. Good \in SUBSET Nat
    BY <1>4
  <2> HIDE DEF Good
  <2> QED
    BY <1>5, <1>7, <2>1, MinIs
<1>9. p \in Range(v) /\ p \in 0 .. m /\ AtMost(p) >= rank
  BY <1>4, <1>8
<1>10. ASSUME NEW limit \in Nat
       PROVE  p > limit <=> 20 * Cardinality({i \in 1 .. n : v[i] > limit}) > n
  <2> DEFINE L == {i \in 1 .. n : v[i] <= limit}
  <2> PICK A : A = AtMost(limit)
    OBVIOUS
  <2>1. L \in SUBSET (1 .. n) /\ A = Cardinality(L) /\ A \in 0 .. n
    BY <1>6
  <2>2. {i \in 1 .. n : v[i] > limit} = (1 .. n) \ L
    OBVIOUS
  <2>3. Cardinality({i \in 1 .. n : v[i] > limit}) = n - A
    <3> HIDE DEF L
    <3>1. Cardinality((1 .. n) \ L) = n - Cardinality(L)
      BY ONLY <2>1, n \in Nat \ {0}, Counted
    <3> QED
      BY <2>1, <2>2, <3>1, Zenon
  <2>4. 20 * (n - A) > n <=> A < rank
    BY <1>1, <2>1
  <2>5. ASSUME A < rank PROVE p > limit
    <3> SUFFICES ASSUME p <= limit PROVE FALSE
      BY <1>9
    <3> DEFINE P == {i \in 1 .. n : v[i] <= p}
    <3>1. P \in SUBSET L
      BY <1>9
    <3>2. IsFiniteSet(L)
      BY <2>1, Counted
    <3>3. Cardinality(P) <= Cardinality(L)
      <4> HIDE DEF P, L
      <4> QED
        BY <3>1, <3>2, FS_Subset
    <3>4. AtMost(p) = Cardinality(P)
      OBVIOUS
    <3>5. AtMost(p) \in 0 .. n
      BY <1>6
    <3> HIDE DEF P, L, AtMost
    <3> QED
      BY <1>1, <1>9, <2>1, <2>5, <3>3, <3>4, <3>5
  <2>6. ASSUME A >= rank PROVE p <= limit
    <3> DEFINE low == {v[i] : i \in L}
    <3>1. L # {}
      <4>1. L = {} => Cardinality(L) = 0
        BY FS_EmptySet
      <4> QED
        BY <1>1, <2>1, <2>6, <4>1
    <3>2. low \in SUBSET Nat /\ low # {} /\ \A y \in low : y <= limit
      <4>1. \A i \in L : v[i] \in Nat /\ v[i] <= limit
        OBVIOUS
      <4> HIDE DEF L
      <4> QED
        BY <3>1, <4>1
    <3> PICK x : x = Max(low)
      OBVIOUS
    <3>3. x \in low /\ \A y \in low : y <= x
      <4> HIDE DEF low
      <4> QED
        BY <3>2, MaxIs
    <3>4. x \in Range(v) /\ x \in Nat /\ x <= limit
      BY <1>3, <3>2, <3>3
    <3>5. {i \in 1 .. n : v[i] <= x} = L
      <4>1. \A i \in 1 .. n : v[i] \in Nat
        OBVIOUS
      <4>2. \A i \in 1 .. n : v[i] <= x => v[i] <= limit
        BY <3>4, <4>1
      <4>3. \A i \in 1 .. n : v[i] <= limit => v[i] <= x
        BY <3>3
      <4> QED
        BY <4>2, <4>3
    <3>6. AtMost(x) = A
      BY <2>1, <3>5
    <3>7. x \in Good
      BY <2>6, <3>4, <3>6
    <3>8. p <= x
      BY <1>8, <3>7
    <3> QED
      BY <1>9, <3>4, <3>8
  <2>7. p > limit <=> A < rank
    BY <1>1, <1>9, <2>1, <2>5, <2>6
  <2> QED
    BY <2>3, <2>4, <2>7
<1> QED
  BY <1>9, <1>10

\* The largest value of a metric, when some sample knows it.
LEMMA HighestIs ==
  ASSUME RoundingType, NEW metric \in {"target", "reference"}, NEW h, h = Highest(Of(Window, metric))
  PROVE  \/ /\ h = Unknown
            /\ \A i \in DOMAIN samples : Window[i][metric] = Unknown
         \/ /\ h \in Nat
            /\ \A i \in DOMAIN samples : Window[i][metric] # Unknown => Window[i][metric] <= h
            /\ \E i \in DOMAIN samples : Window[i][metric] = h
<1> PICK S : S = Of(Window, metric)
  OBVIOUS
<1>1. \A x : x \in S <=> x # Unknown /\ \E i \in DOMAIN samples : x = Window[i][metric]
  BY WindowIs DEF Of
<1>2. \A i \in DOMAIN samples : Window[i][metric] \in (0 .. MaxBlock) \cup {Unknown}
  BY WindowIs DEF SampleType
<1>3. S \in SUBSET (0 .. MaxBlock)
  BY <1>1, <1>2
<1>4. CASE S = {}
  BY <1>1, <1>4 DEF Highest
<1>5. CASE S # {}
  <2>1. S \in SUBSET Nat /\ \A y \in S : y <= MaxBlock
    BY ONLY <1>3, TypesOfMetrics
  <2>2. h = Max(S)
    BY <1>5 DEF Highest
  <2>3. h \in S /\ \A y \in S : y <= h
    BY ONLY <1>5, <2>1, <2>2, TypesOfMetrics, MaxIs
  <2> QED
    BY <1>1, <2>1, <2>3
<1> QED
  BY <1>4, <1>5

\* The lag that the evidence states is at most that of some sample.
LEMMA LagIs ==
  ASSUME RoundingType, NEW lag, lag = Evidence(Aggregate(Window)).BLOCK_LAG
  PROVE  /\ lag \in (0 .. MaxLag) \cup {Unknown}
         /\ \A limit \in Nat : lag # Unknown /\ lag > limit =>
              \E i \in DOMAIN samples :
                Window[i].reference # Unknown /\ Window[i].reference - Window[i].target > limit
<1> PICK latest : latest = Highest(Of(Window, "target"))
  OBVIOUS
<1> PICK reference : reference = Highest(Of(Window, "reference"))
  OBVIOUS
<1>1. \/ latest = Unknown
      \/ /\ latest \in Nat
         /\ \A i \in DOMAIN samples : Window[i].target # Unknown => Window[i].target <= latest
  BY HighestIs
<1>2. \/ reference = Unknown
      \/ reference \in Nat /\ \E i \in DOMAIN samples : Window[i].reference = reference
  BY HighestIs
<1>3. \/ lag = Unknown
      \/ /\ latest # Unknown /\ reference # Unknown
         /\ lag = IF reference > latest THEN reference - latest ELSE 0
  BY DEF Evidence, Aggregate
<1>4. CASE lag = Unknown
  BY <1>4
<1>5. CASE lag # Unknown
  <2>1. latest \in Nat /\ reference \in Nat /\ lag = IF reference > latest THEN reference - latest ELSE 0
    BY <1>1, <1>2, <1>3, <1>5
  <2>2. PICK i \in DOMAIN samples : Window[i].reference = reference
    BY <1>2, <2>1, TypesOfRates
  <2>3. /\ Window[i].reference # Unknown
        /\ Window[i].target # Unknown /\ Window[i].reference - Window[i].target <= MaxLag
        /\ Window[i].target \in Nat
    <3>1. Window[i].reference # Unknown
      BY <2>1, <2>2, TypesOfRates
    <3>2. Window[i] \in SampleType
      BY WindowIs
    <3>3. Window[i].target \in (0 .. MaxBlock) \cup {Unknown}
      BY <3>2 DEF SampleType
    <3>4. Window[i].target # Unknown /\ Window[i].reference - Window[i].target <= MaxLag
      BY <3>1, WindowIs
    <3> QED
      BY <3>1, <3>3, <3>4, TypesOfMetrics
  <2>4. Window[i].target <= latest
    BY <1>1, <2>1, <2>3, TypesOfRates
  <2>5. lag \in 0 .. MaxLag
    BY <2>1, <2>2, <2>3, <2>4, TypesOfMetrics
  <2>6. \A limit \in Nat : lag > limit => Window[i].reference - Window[i].target > limit
    BY <2>1, <2>2, <2>3, <2>4
  <2> QED
    BY <2>3, <2>5, <2>6
<1> QED
  BY <1>4, <1>5

LEMMA MeasuresAreFair ==
  ASSUME RoundingType
  PROVE  MeasuresNeverAccuse
<1> SUFFICES ASSUME samples # <<>> PROVE MeasuresNeverAccuse
  BY DEF MeasuresNeverAccuse
<1> PICK n : n = Len(samples)
  OBVIOUS
<1>1. /\ n \in Nat \ {0} /\ DOMAIN samples = 1 .. n /\ DOMAIN Window = 1 .. n /\ Len(Window) = n
      /\ \A i \in 1 .. n : Window[i] \in SampleType
  BY WindowIs
<1> PICK good : good = Succeeded(Window)
  OBVIOUS
<1>2. good \in 0 .. n /\ n - good \in 0 .. n
  <2>1. good = Cardinality({i \in 1 .. n : Window[i].success})
    BY <1>1 DEF Succeeded
  <2>2. {i \in 1 .. n : Window[i].success} \in SUBSET (1 .. n)
    OBVIOUS
  <2>3. good \in 0 .. n
    BY <1>1, <2>1, <2>2, Counted
  <2> QED
    BY <1>1, <2>3
<1> PICK evidence : evidence = Evidence(Aggregate(Window))
  OBVIOUS
<1>3. /\ evidence.AVAILABILITY = ppm(good, n) /\ evidence.ERROR_RATE = ppm(n - good, n)
      /\ evidence.P95_LATENCY = nearestRank(Latencies(Window), 95)
  BY <1>1 DEF Evidence, Aggregate
<1>4. /\ evidence.BLOCK_LAG \in (0 .. MaxLag) \cup {Unknown}
      /\ \A limit \in Nat : evidence.BLOCK_LAG # Unknown /\ evidence.BLOCK_LAG > limit =>
           \E i \in DOMAIN samples :
             Window[i].reference # Unknown /\ Window[i].reference - Window[i].target > limit
  BY LagIs
<1> DEFINE Violated(k, limit) == MatchedClauses(
             [threshold |-> [c \in Clauses |-> IF c = k THEN limit ELSE 0]], [observed |-> evidence]) # {}
           Slower(limit) == Cardinality({i \in DOMAIN samples : Window[i].latency > limit})
<1>5. \A limit \in Nat \ {0} :
        /\ Violated("AVAILABILITY", limit) <=> evidence.AVAILABILITY # Unknown /\ evidence.AVAILABILITY < limit
        /\ Violated("ERROR_RATE", limit) <=> evidence.ERROR_RATE # Unknown /\ evidence.ERROR_RATE > limit
        /\ Violated("P95_LATENCY", limit) <=> evidence.P95_LATENCY # Unknown /\ evidence.P95_LATENCY > limit
        /\ Violated("BLOCK_LAG", limit) <=> evidence.BLOCK_LAG # Unknown /\ evidence.BLOCK_LAG > limit
  <2> SUFFICES ASSUME NEW limit \in Nat \ {0}, NEW k \in Clauses
               PROVE  Violated(k, limit) <=> evidence[k] # Unknown
                        /\ IF k = "AVAILABILITY" THEN evidence[k] < limit ELSE evidence[k] > limit
    BY DEF Clauses
  <2> QED
    BY ViolatedIs
<1> HIDE DEF Violated
<1>6. ASSUME NEW limit \in 1 .. Million
      PROVE  /\ Violated("AVAILABILITY", limit) <=> good * Million < limit * n
             /\ Violated("ERROR_RATE", limit) => (n - good) * Million > limit * n
  <2>1. limit \in Nat \ {0}
    BY TypesOfMetrics
  <2>2. /\ ppm(good, n) \in 0 .. Million
        /\ ppm(good, n) < limit <=> good * Million < limit * n
    BY ONLY <1>1, <1>2, <2>1, RateIs
  <2>3. /\ ppm(n - good, n) \in 0 .. Million
        /\ ppm(n - good, n) > limit => (n - good) * Million > limit * n
    BY ONLY <1>1, <1>2, <2>1, RateIs
  <2> QED
    BY <1>3, <1>5, <2>1, <2>2, <2>3, TypesOfRates, TypesOfMetrics
<1>7. /\ evidence.P95_LATENCY \in 0 .. MaxLatency
      /\ \A limit \in Nat : evidence.P95_LATENCY > limit <=> 20 * Slower(limit) > n
  <2> PICK v : v = Latencies(Window)
    OBVIOUS
  <2>1. v \in [1 .. n -> 0 .. MaxLatency] /\ \A i \in 1 .. n : v[i] = Window[i].latency
    <3>1. \A i \in 1 .. n : Window[i].latency \in 0 .. MaxLatency
      BY <1>1 DEF SampleType
    <3>2. {j \in DOMAIN Window : Window[j].latency # Unknown} = 1 .. n
      BY <1>1, <3>1, TypesOfRates, TypesOfMetrics
    <3> QED
      BY <1>1, <3>1, <3>2 DEF Latencies
  <2> PICK p : p = nearestRank(v, 95)
    OBVIOUS
  <2> PICK m \in Nat : m = MaxLatency
    BY TypesOfMetrics
  <2>2. /\ p \in 0 .. m
        /\ \A limit \in Nat : p > limit <=> 20 * Cardinality({i \in 1 .. n : v[i] > limit}) > n
    <3>1. n \in Nat \ {0} /\ v \in [1 .. n -> 0 .. m]
      BY <1>1, <2>1
    <3> QED
      BY ONLY <3>1, m \in Nat, p = nearestRank(v, 95), RankIs
  <2>3. \A limit \in Nat : Slower(limit) = Cardinality({i \in 1 .. n : v[i] > limit})
    <3> SUFFICES ASSUME NEW limit \in Nat
                 PROVE  Slower(limit) = Cardinality({i \in 1 .. n : v[i] > limit})
      OBVIOUS
    <3>1. {i \in DOMAIN samples : Window[i].latency > limit} = {i \in 1 .. n : v[i] > limit}
      BY <1>1, <2>1
    <3> QED
      BY <3>1
  <2> HIDE DEF Slower
  <2> QED
    BY <1>3, <2>2, <2>3
<1>8. ASSUME NEW limit \in 1 .. MaxLatency
      PROVE  Violated("P95_LATENCY", limit) <=> 20 * Slower(limit) > n
  <2>1. limit \in Nat \ {0}
    BY TypesOfMetrics
  <2>2. evidence.P95_LATENCY # Unknown
    BY <1>7, TypesOfRates, TypesOfMetrics
  <2> HIDE DEF Slower
  <2> QED
    BY <1>5, <1>7, <2>1, <2>2
<1>9. ASSUME NEW limit \in 1 .. MaxLag, Violated("BLOCK_LAG", limit)
      PROVE  \E i \in DOMAIN samples :
               Window[i].reference # Unknown /\ Window[i].reference - Window[i].target > limit
  <2>1. limit \in Nat \ {0}
    BY TypesOfMetrics
  <2> QED
    BY <1>4, <1>5, <1>9, <2>1
<1>10. ValidEvidence(evidence)
  <2>1. ppm(good, n) \in 0 .. Million
    BY ONLY <1>1, <1>2, 0 \in Nat, RateIs
  <2>2. ppm(n - good, n) \in 0 .. Million
    BY ONLY <1>1, <1>2, 0 \in Nat, RateIs
  <2> QED
    BY <1>3, <1>4, <1>7, <2>1, <2>2 DEF ValidEvidence
<1> QED
  BY <1>6, <1>8, <1>9, <1>10 DEF MeasuresNeverAccuse, Violated

\* For every amount, duration, rate, cut and window of samples, whatever the units and
\* the bounds: premiums and fees are rounded up by less than one unit, payouts down
\* by less than two, the offer covers the premium, and no threshold is violated by
\* rounding a measurement (contracts/FaultPact.py: _safe_mul_div and its callers;
\* purchase.tsx; packages/monitoring: aggregateSamples).
THEOREM RoundingFavoursProvider == RoundingSpec => []RoundedForTheProvider
<1>1. RoundingType => RoundedForTheProvider
  BY PremiumIsRoundedUp, PayoutIsRoundedDown, OfferIsEnough, MeasuresAreFair DEF RoundedForTheProvider
<1> QED
  BY <1>1, RoundingTypeHolds, PTL
=============================================================================
