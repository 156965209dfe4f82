-------------------------- MODULE SchedulerProofs --------------------------
(***************************************************************************)
(* The scheduler shared by any number of processes.                        *)
(***************************************************************************)
EXTENDS RpcScheduler, TLAPS

-----------------------------------------------------------------------------
(* Types *)

PcType == {"idle", "polling", "sleeping", "sending"} \cup Waiting \cup Inside

\* What a process is left with is well typed if the fields that changed are.
LEMMA ProcTyped ==
  ASSUME proc \in [Procs -> ProcType], NEW p \in Procs, NEW local \in ProcType,
         proc' = [proc EXCEPT ![p] = local]
  PROVE  proc' \in [Procs -> ProcType]
OBVIOUS

LEMMA DayOf ==
  /\ \A t \in Nat : Day(t) \in Nat /\ Day(t) <= Day(t + 1)
                    /\ NextDay(t) \in Nat /\ Day(t) * DayLength <= t
  /\ \A t \in Nat, u \in Nat : t <= u => Day(t) <= Day(u)
BY SchedulerAssumption DEF Day, NextDay

LEMMA FreshTyped == FreshProc \in ProcType
BY SchedulerAssumption DEF FreshProc, ProcType, EmptyFile, FileType

LEMMA LeaveTyped ==
  ASSUME SchedulerTypeOK, NEW p \in Procs, NEW state \in FileType, NEW local \in ProcType,
         Leave(p, state, local)
  PROVE  SchedulerTypeOK'
<1>1. proc' \in [Procs -> ProcType]
  BY FreshTyped DEF Leave, SchedulerTypeOK
<1>2. lock' \in [held : BOOLEAN, since : 0..MaxTime]
  <2>1. lock' = NoLock \/ lock' = lock
    BY Zenon DEF Leave
  <2>2. NoLock \in [held : BOOLEAN, since : 0..MaxTime]
    BY SchedulerAssumption DEF NoLock
  <2> QED
    BY <2>1, <2>2 DEF SchedulerTypeOK
<1>3. crashes' \in 0..MaxCrashes
  BY SchedulerAssumption DEF Leave, SchedulerTypeOK
<1>4. orphaned' \in BOOLEAN
  BY Zenon DEF Leave, SchedulerTypeOK
<1> QED
  BY <1>1, <1>2, <1>3, <1>4 DEF Leave, SchedulerTypeOK

LEMMA RequestTyped ==
  ASSUME SchedulerTypeOK, NEW p \in Procs, Request(p)
  PROVE  SchedulerTypeOK'
<1> DEFINE today == Day(now)
           count == IF proc[p].day # today THEN 0 ELSE proc[p].count
           spent == count >= DailyBudget
           after == [proc[p] EXCEPT !.day = today, !.count = count,
                       !.pc = IF spent THEN "idle" ELSE "reserving",
                       !.seen = IF spent THEN proc[p].seen ELSE now,
                       !.blockedUntil = IF spent THEN Later(proc[p].blockedUntil, NextDay(now))
                                        ELSE proc[p].blockedUntil]
<1>1. now \in Nat /\ proc[p] \in ProcType
  BY SchedulerAssumption DEF SchedulerTypeOK
<1>2. today \in Nat /\ NextDay(now) \in Nat /\ count \in 0..DailyBudget
  <2>1. today \in Nat /\ NextDay(now) \in Nat
    BY <1>1, DayOf
  <2>2. count \in 0..DailyBudget
    BY <1>1, SchedulerAssumption DEF ProcType
  <2> QED
    BY <2>1, <2>2
<1>3. after \in ProcType
  BY <1>1, <1>2 DEF ProcType, Waiting, Inside, Later
<1>4. proc' = [proc EXCEPT ![p] = after]
  BY DEF Request
<1> HIDE DEF after
<1> QED
  BY <1>3, <1>4 DEF Request, SchedulerTypeOK

LEMMA LockStepTyped ==
  ASSUME SchedulerTypeOK, NEW p \in Procs, LockStep(p)
  PROVE  SchedulerTypeOK'
<1>1. proc[p] \in ProcType
  BY DEF SchedulerTypeOK
<1>2. CASE TakeLock(p)
  <2> DEFINE after == [proc[p] EXCEPT !.pc = IF proc[p].pc = "reserving" THEN "reserve" ELSE "finish",
                                      !.copy = file]
  <2>1. after \in ProcType
    BY <1>1 DEF SchedulerTypeOK, ProcType, Inside
  <2>2. proc' = [proc EXCEPT ![p] = after]
    BY <1>2 DEF TakeLock
  <2> HIDE DEF after
  <2> QED
    BY <1>2, <2>1, <2>2 DEF TakeLock, SchedulerTypeOK
<1>3. CASE SeeStaleLock(p)
  BY <1>1, <1>3 DEF SeeStaleLock, SchedulerTypeOK, ProcType
<1>4. CASE BreakLock(p)
  <2>1. [proc[p] EXCEPT !.breaking = FALSE] \in ProcType
    BY <1>1 DEF ProcType
  <2>2. proc' = [proc EXCEPT ![p] = [proc[p] EXCEPT !.breaking = FALSE]]
    BY <1>4 DEF BreakLock
  <2>3. raced' \in BOOLEAN
    BY <1>4, Zenon DEF BreakLock, SchedulerTypeOK
  <2> QED
    BY <1>4, <2>1, <2>2, <2>3, SchedulerAssumption DEF BreakLock, SchedulerTypeOK, NoLock
<1>5. CASE GiveUp(p)
  BY <1>1, <1>5 DEF GiveUp, SchedulerTypeOK, ProcType
<1> QED
  BY <1>2, <1>3, <1>4, <1>5 DEF LockStep

\* What a reservation leaves in the file and in the process.
LEMMA CountTyped ==
  ASSUME NEW state \in FileType, NEW today
  PROVE  CountOn(state, today) \in 0..DailyBudget
BY SchedulerAssumption DEF CountOn, FileType

LEMMA ReserveStepTyped ==
  ASSUME SchedulerTypeOK, NEW p \in Procs, ReserveStep(p)
  PROVE  SchedulerTypeOK'
<1> DEFINE me == proc[p]
           today == Day(me.seen)
<1>1. me \in ProcType /\ me.copy \in FileType /\ me.seen \in Nat /\ now \in Nat
  BY SchedulerAssumption DEF SchedulerTypeOK, ProcType
<1>2. today \in Nat /\ NextDay(me.seen) \in Nat
  BY <1>1, DayOf
<1>3. CountOn(me.copy, today) \in 0..DailyBudget
  BY <1>1, CountTyped
<1>4. CASE CooldownOrSpent(p)
  <2> DEFINE retryAt == IF me.copy.cooldownUntil > me.seen THEN me.copy.cooldownUntil
                        ELSE Later(me.copy.cooldownUntil, NextDay(me.seen) + 1)
             rejected == [me EXCEPT !.pc = "idle", !.blockedUntil = Later(@, retryAt)]
             spent == [me.copy EXCEPT !.day = today, !.count = CountOn(me.copy, today),
                                      !.cooldownUntil = retryAt]
  <2>1. retryAt \in Nat
    BY <1>1, <1>2 DEF FileType, Later
  <2>2. rejected \in ProcType
    BY <1>1, <2>1 DEF ProcType, Later
  <2>3. spent \in FileType /\ file \in FileType
    BY <1>1, <1>2, <1>3, <2>1 DEF FileType, SchedulerTypeOK
  <2>4. Leave(p, file, rejected) \/ Leave(p, spent, rejected)
    BY <1>4 DEF CooldownOrSpent
  <2> QED
    BY <2>2, <2>3, <2>4, LeaveTyped
<1>5. CASE AwaitLease(p)
  <2>1. [me EXCEPT !.pc = "polling"] \in ProcType /\ file \in FileType
    BY <1>1 DEF ProcType, SchedulerTypeOK
  <2> QED
    BY <1>5, <2>1, LeaveTyped DEF AwaitLease
<1>6. CASE PollAgain(p)
  BY <1>1, <1>6 DEF PollAgain, SchedulerTypeOK, ProcType, Waiting
<1>7. CASE ReserveSlot(p)
  <2> DEFINE startAt == SlotOf(me)
             count == CountOn(me.copy, today) + 1
             state == [me.copy EXCEPT !.day = today, !.count = count, !.lease = p,
                         !.leaseUntil = startAt + RequestTimeout + LeaseGrace,
                         !.nextRequestAt = startAt + MinInterval]
             local == [me EXCEPT !.pc = "sleeping", !.until = now + (startAt - me.seen),
                                 !.day = today, !.count = count]
  <2>1. count \in 0..DailyBudget
    BY <1>3, <1>7, SchedulerAssumption DEF ReserveSlot, Open
  <2>2. startAt \in Nat /\ startAt >= me.seen
    BY <1>1 DEF SlotOf, Later, FileType
  <2>3. state \in FileType
    <3>1. /\ startAt + RequestTimeout + LeaseGrace \in Nat
          /\ startAt + MinInterval \in Nat
      BY <2>2, SchedulerAssumption
    <3> HIDE DEF startAt, count
    <3> QED
      BY <1>1, <1>2, <2>1, <3>1 DEF FileType
  <2>4. now + (startAt - me.seen) \in Nat
    BY <1>1, <2>2
  <2>5. local \in ProcType
    BY <1>1, <1>2, <2>1, <2>4 DEF ProcType
  <2>6. Leave(p, state, local)
    BY <1>7 DEF ReserveSlot
  <2> QED
    BY <2>3, <2>5, <2>6, LeaveTyped
<1> QED
  BY <1>4, <1>5, <1>6, <1>7 DEF ReserveStep

LEMMA ExchangeTyped ==
  ASSUME SchedulerTypeOK, NEW p \in Procs,
         SendOnce(p) \/ Answer(p) \/ FinishLease(p) \/ CrashProcess(p)
  PROVE  SchedulerTypeOK'
<1>1. proc[p] \in ProcType /\ now \in Nat
  BY SchedulerAssumption DEF SchedulerTypeOK
<1>2. CASE SendOnce(p)
  <2>1. Day(now) \in Days
    <3>1. now <= MaxTime /\ MaxTime \in Nat /\ DayLength \in Nat
      BY SchedulerAssumption DEF SchedulerTypeOK
    <3>2. Day(now) \in Nat /\ Day(MaxTime) \in Nat /\ Day(now) <= Day(MaxTime)
      BY <1>1, <3>1, DayOf
    <3> QED
      BY <3>2 DEF Days, Day
  <2>2. sent' \in [Days -> Nat]
    BY <1>2, <2>1 DEF SendOnce, SchedulerTypeOK
  <2>3. proc' \in [Procs -> ProcType]
    BY <1>1, <1>2, SchedulerAssumption DEF SendOnce, SchedulerTypeOK, ProcType
  <2> QED
    BY <1>2, <2>2, <2>3 DEF SendOnce, SchedulerTypeOK
<1>3. CASE Answer(p)
  <2> PICK end \in Nat :
        /\ proc' = [proc EXCEPT ![p] = [proc[p] EXCEPT
             !.pc = "finishing", !.seen = now, !.cooldown = end,
             !.blockedUntil = Later(proc[p].blockedUntil, end)]]
        /\ delayed' = Later(delayed, end)
    <3> PICK delay \in Delays :
          LET end == IF delay = 0 THEN 0 ELSE now + delay IN
          /\ proc' = [proc EXCEPT ![p] = [proc[p] EXCEPT
               !.pc = "finishing", !.seen = now, !.cooldown = end,
               !.blockedUntil = Later(proc[p].blockedUntil, end)]]
          /\ delayed' = Later(delayed, end)
      BY <1>3 DEF Answer
    <3>1. delay \in Nat
      BY SchedulerAssumption
    <3>2. (IF delay = 0 THEN 0 ELSE now + delay) \in Nat
      BY <1>1, <3>1
    <3> QED
      BY <3>2
  <2>1. [proc[p] EXCEPT !.pc = "finishing", !.seen = now, !.cooldown = end,
                        !.blockedUntil = Later(proc[p].blockedUntil, end)] \in ProcType
    BY <1>1 DEF ProcType, Waiting, Later
  <2>2. delayed' \in Nat
    BY DEF SchedulerTypeOK, Later
  <2> QED
    BY <1>3, <2>1, <2>2 DEF Answer, SchedulerTypeOK
<1>4. CASE FinishLease(p)
  <2> DEFINE me == proc[p]
             mine == me.copy.lease = p
             state == [me.copy EXCEPT !.lease = IF mine THEN NoProc ELSE @,
                                      !.leaseUntil = IF mine THEN 0 ELSE @,
                                      !.cooldownUntil = CooldownShared(me)]
             local == [me EXCEPT !.pc = "idle", !.cooldown = 0]
  <2>1. state \in FileType /\ local \in ProcType
    BY <1>1 DEF ProcType, FileType, CooldownShared, Later
  <2>2. Leave(p, state, local)
    BY <1>4 DEF FinishLease
  <2> QED
    BY <2>1, <2>2, LeaveTyped
<1>5. CASE CrashProcess(p)
  <2>1. orphaned' \in BOOLEAN /\ forgotten' \in BOOLEAN
    BY <1>5, Zenon DEF CrashProcess, SchedulerTypeOK
  <2> QED
    BY <1>5, <2>1, FreshTyped, SchedulerAssumption DEF CrashProcess, SchedulerTypeOK
<1> QED
  BY <1>2, <1>3, <1>4, <1>5

LEMMA SchedulerTypesStart ==
  ASSUME SchedulerInit
  PROVE  SchedulerTypeOK
<1>1. EmptyFile \in FileType
  BY SchedulerAssumption DEF EmptyFile, FileType
<1>2. FreshProc \in ProcType
  BY FreshTyped
<1> HIDE DEF FreshProc, EmptyFile
<1>3. raced \in BOOLEAN /\ orphaned \in BOOLEAN /\ forgotten \in BOOLEAN
  BY Zenon DEF SchedulerInit
<1>4. /\ now \in 0..MaxTime /\ lastSent \in 0..MaxTime /\ delayed \in Nat
      /\ crashes \in 0..MaxCrashes
      /\ lock \in [held : BOOLEAN, since : 0..MaxTime]
  BY SchedulerAssumption DEF SchedulerInit, NoLock, Never
<1>5. /\ file \in FileType /\ proc \in [Procs -> ProcType]
      /\ sent \in [Days -> Nat]
  BY <1>1, <1>2 DEF SchedulerInit
<1> QED
  BY <1>3, <1>4, <1>5 DEF SchedulerTypeOK

LEMMA SchedulerTypesKept ==
  ASSUME SchedulerTypeOK, [SchedulerNext]_schedulerVars
  PROVE  SchedulerTypeOK'
<1>1. CASE UNCHANGED schedulerVars
  BY <1>1 DEF schedulerVars, SchedulerTypeOK
<1>2. CASE Clock
  BY <1>2, SchedulerAssumption DEF Clock, SchedulerTypeOK
<1>3. ASSUME NEW p \in Procs,
             \/ Request(p) \/ LockStep(p) \/ ReserveStep(p)
             \/ SendOnce(p) \/ Answer(p) \/ FinishLease(p) \/ CrashProcess(p)
      PROVE  SchedulerTypeOK'
  BY <1>3, RequestTyped, LockStepTyped, ReserveStepTyped, ExchangeTyped
<1> QED
  BY <1>1, <1>2, <1>3 DEF SchedulerNext

-----------------------------------------------------------------------------
(* The lock.  A process inside it has just come, since it leaves in the same *)
(* unit of time, and works on what the file still says; and a process waits  *)
(* from one unit to the next only for a lock that was left behind.           *)

\* How long ago a process may have read the clock when it gets the lock.
Slack == IF orphaned THEN LockPatience ELSE 0

At(pcs) == {p \in Procs : proc[p].pc \in pcs}

OneInside == \A p, q \in At(Inside) : p = q

InsideIsFresh ==
  \A p \in At(Inside) : lock.held /\ lock.since = now /\ proc[p].copy = file

LockIsSomebodys == lock.held /\ ~orphaned => At(Inside) # {}

Timely ==
  /\ \A p \in At(Waiting \cup Inside) : proc[p].seen <= now /\ now <= proc[p].seen + Slack
  /\ \A p \in At({"sleeping", "sending"}) : now <= proc[p].until

LockSafe == OneInside /\ InsideIsFresh /\ LockIsSomebodys /\ Timely

-----------------------------------------------------------------------------
(* The lease.  It outlives the sleep of the process that took it, and its    *)
(* request but for what the process may have waited too long for the lock.   *)

SleeperLeased ==
  \A p \in At({"sleeping"}) :
    /\ file.lease = p
    /\ proc[p].until + RequestTimeout + LeaseGrace <= file.leaseUntil + Slack
    /\ proc[p].until + MinInterval <= file.nextRequestAt + Slack

\* The request has had so much of its timeout that its lease may be over.
Late(p) == now + Slack >= proc[p].until + LeaseGrace

SenderLeased ==
  \A p \in At({"sending"}) :
    \/ file.lease = p /\ proc[p].until + LeaseGrace <= file.leaseUntil + Slack
    \/ Late(p)

Overlapping(p, q) == p # q /\ proc[p].pc = "sending" /\ proc[q].pc = "sending"

LeaseSafe == SleeperLeased /\ SenderLeased

-----------------------------------------------------------------------------
(* What was sent, what was announced, what was counted *)

SlotsApart ==
  (\E d \in Days : sent[d] > 0) =>
    /\ lastSent + MinInterval <= file.nextRequestAt + Slack
    /\ \A p \in At({"sleeping"}) : lastSent + MinInterval <= proc[p].until + Slack

Finishing == At({"finishing", "finish"})

\* Who was told a delay still holds the lease, and the delay is in the file, or
\* his alone.
DelayKnown ==
  ~orphaned /\ ~forgotten =>
    /\ \A p \in Finishing : file.lease = p /\ now < file.leaseUntil
    /\ delayed <= file.cooldownUntil \/ \E p \in Finishing : delayed <= proc[p].cooldown
    /\ \A p \in At({"sleeping"}) : delayed <= proc[p].until

\* A process that has begun a request knows of no delay that ends after its slot.
HeldBack ==
  \A p \in Procs :
    /\ proc[p].pc \in {"reserving", "reserve", "polling"} => proc[p].blockedUntil <= now
    /\ proc[p].pc = "sleeping" => proc[p].blockedUntil <= proc[p].until

\* What the file has counted of today's requests.
Counted == IF file.day = Day(now) THEN file.count ELSE 0

\* One request of today was perhaps counted yesterday; a slot that is still slept
\* for is counted, today or as that one.
CountIsKept ==
  ~orphaned =>
    /\ file.day <= Day(now)
    /\ \A d \in Days : d > Day(now) => sent[d] = 0
    /\ sent[Day(now)] <= Counted + (IF At({"sleeping"}) = {} THEN 1 ELSE 0)
    /\ \A d \in Days : sent[d] <= DailyBudget + 1

SchedulerInv ==
  /\ SchedulerTypeOK /\ HeldBack
  /\ ~raced => LockSafe /\ LeaseSafe /\ SlotsApart /\ DelayKnown /\ CountIsKept

-----------------------------------------------------------------------------
(* What the steps do, as far as the invariant is concerned *)

OthersKept(p) == \A q \in Procs \ {p} : proc'[q] = proc[q]

NothingSent == UNCHANGED <<now, sent, lastSent>>

Begins(p) ==
  /\ OthersKept(p) /\ NothingSent /\ UNCHANGED <<file, lock, delayed, crashes, raced, orphaned, forgotten>>
  /\ proc[p].pc \in {"idle", "polling"} /\ proc'[p].pc \in {"idle", "reserving"}
  /\ proc'[p].pc = "reserving" => proc'[p].seen = now

Enters(p) ==
  /\ OthersKept(p) /\ NothingSent /\ UNCHANGED <<file, delayed, crashes, raced, orphaned, forgotten>>
  /\ ~lock.held /\ lock'.held /\ lock'.since = now
  /\ \/ proc[p].pc = "reserving" /\ proc'[p].pc = "reserve"
     \/ proc[p].pc = "finishing" /\ proc'[p].pc = "finish"
  /\ proc'[p].copy = file
  /\ proc'[p].seen = proc[p].seen /\ proc'[p].cooldown = proc[p].cooldown

\* SeeStaleLock, BreakLock
Waits(p) ==
  /\ OthersKept(p) /\ NothingSent /\ UNCHANGED <<file, delayed, crashes, orphaned, forgotten>>
  /\ proc'[p].pc = proc[p].pc /\ proc'[p].seen = proc[p].seen
  /\ proc'[p].copy = proc[p].copy /\ proc'[p].cooldown = proc[p].cooldown
  /\ proc'[p].until = proc[p].until
  /\ raced => raced'
  /\ \/ UNCHANGED lock
     \/ ~lock'.held /\ (~raced' => ~lock.held \/ lock.since < now)

GivesUp(p) ==
  /\ OthersKept(p) /\ NothingSent /\ UNCHANGED <<file, lock, delayed, crashes, raced, orphaned, forgotten>>
  /\ proc[p].pc \in Waiting /\ proc'[p].pc = "idle"
  /\ now >= proc[p].seen + LockPatience

\* The critical section ends without a slot.
Leaves(p) ==
  /\ OthersKept(p) /\ NothingSent /\ UNCHANGED <<delayed, crashes, raced, orphaned, forgotten>>
  /\ proc[p].pc = "reserve" /\ proc'[p].pc \in {"idle", "polling"}
  /\ ~lock'.held
  /\ \/ UNCHANGED file
     \/ /\ file'.lease = proc[p].copy.lease /\ file'.leaseUntil = proc[p].copy.leaseUntil
        /\ file'.nextRequestAt = proc[p].copy.nextRequestAt
        /\ file'.cooldownUntil >= proc[p].copy.cooldownUntil
        /\ file'.day = proc[p].copy.day /\ file'.count = proc[p].copy.count

Reserves(p) ==
  \E startAt \in Nat :
    /\ OthersKept(p) /\ NothingSent /\ UNCHANGED <<delayed, crashes, raced, orphaned, forgotten>>
    /\ proc[p].pc = "reserve" /\ proc'[p].pc = "sleeping"
    /\ ~lock'.held
    /\ proc[p].copy.leaseUntil <= proc[p].seen /\ proc[p].copy.cooldownUntil <= proc[p].seen
    /\ startAt >= proc[p].seen /\ startAt >= proc[p].copy.nextRequestAt
    /\ proc'[p].until = now + (startAt - proc[p].seen)
    /\ file'.lease = p /\ file'.leaseUntil = startAt + RequestTimeout + LeaseGrace
    /\ file'.nextRequestAt = startAt + MinInterval
    /\ file'.cooldownUntil = proc[p].copy.cooldownUntil
    /\ file'.day = Day(proc[p].seen)
    /\ file'.count = CountOn(proc[p].copy, Day(proc[p].seen)) + 1

Sends(p) ==
  /\ OthersKept(p) /\ UNCHANGED <<now, file, lock, delayed, crashes, raced, orphaned, forgotten>>
  /\ proc[p].pc = "sleeping" /\ proc'[p].pc = "sending"
  /\ now >= proc[p].until /\ proc'[p].until = now + RequestTimeout
  /\ sent' = [sent EXCEPT ![Day(now)] = @ + 1] /\ lastSent' = now

Answers(p) ==
  /\ OthersKept(p) /\ NothingSent /\ UNCHANGED <<file, lock, crashes, raced, orphaned, forgotten>>
  /\ proc[p].pc = "sending" /\ proc'[p].pc = "finishing" /\ proc'[p].seen = now
  /\ delayed' = Later(delayed, proc'[p].cooldown)

Finishes(p) ==
  /\ OthersKept(p) /\ NothingSent /\ UNCHANGED <<delayed, crashes, raced, orphaned, forgotten>>
  /\ proc[p].pc = "finish" /\ proc'[p].pc = "idle"
  /\ ~lock'.held
  /\ IF proc[p].copy.lease = p
     THEN file'.lease = NoProc /\ file'.leaseUntil = 0
     ELSE file'.lease = proc[p].copy.lease /\ file'.leaseUntil = proc[p].copy.leaseUntil
  /\ file'.nextRequestAt = proc[p].copy.nextRequestAt
  /\ file'.cooldownUntil = Later(proc[p].copy.cooldownUntil, proc[p].cooldown)
  /\ file'.day = proc[p].copy.day /\ file'.count = proc[p].copy.count

\* A process dies between two steps.
Dies(p) ==
  /\ OthersKept(p) /\ NothingSent /\ UNCHANGED <<file, lock, delayed, raced>>
  /\ crashes' = crashes + 1 /\ proc'[p].pc = "idle"
  /\ (orphaned => orphaned') /\ (forgotten => forgotten')
  /\ ~orphaned' => proc[p].pc \notin Inside
  /\ ~forgotten' /\ proc[p].pc \in {"finishing", "finish"} => proc[p].cooldown = 0

\* A process dies with the state written and the lock still there.
Expires(p) ==
  /\ OthersKept(p) /\ NothingSent /\ UNCHANGED <<lock, delayed, raced, forgotten>>
  /\ crashes' = crashes + 1 /\ proc[p].pc \in Inside /\ proc'[p].pc = "idle" /\ orphaned'

\* What it may have written: nothing new of the lease, a slot, or its lease back.
Unleased(p) ==
  file'.lease = proc[p].copy.lease /\ file'.leaseUntil = proc[p].copy.leaseUntil
Slotted(p) == proc[p].pc = "reserve" /\ proc[p].copy.leaseUntil <= proc[p].seen
ExpiresWriting(p) ==
  /\ Expires(p)
  /\ file' = file \/ file'.nextRequestAt >= proc[p].copy.nextRequestAt
  /\ file' = file \/ Unleased(p) \/ Slotted(p) \/ proc[p].copy.lease = p

Ticks ==
  /\ now' = now + 1 /\ \A p \in Procs : MayWait(p)
  /\ UNCHANGED <<file, lock, proc, sent, lastSent, delayed, crashes, raced, orphaned, forgotten>>

Effect(p) ==
  \/ Begins(p) \/ Enters(p) \/ Waits(p) \/ GivesUp(p) \/ Leaves(p) \/ Reserves(p)
  \/ Sends(p) \/ Answers(p) \/ Finishes(p) \/ Dies(p) \/ ExpiresWriting(p)

LEMMA WaitingEffects ==
  ASSUME SchedulerTypeOK, NEW p \in Procs, Request(p) \/ LockStep(p) \/ PollAgain(p)
  PROVE  Begins(p) \/ Enters(p) \/ Waits(p) \/ GivesUp(p)
<1> USE DEF OthersKept, NothingSent
<1>1. proc \in [Procs -> ProcType] /\ proc[p] \in ProcType
  BY DEF SchedulerTypeOK
<1>2. CASE Request(p)
  <2> DEFINE today == Day(now)
             count == IF proc[p].day # today THEN 0 ELSE proc[p].count
             spent == count >= DailyBudget
  <2> PICK blocked :
        proc' = [proc EXCEPT ![p] = [proc[p] EXCEPT
                  !.day = today, !.count = count,
                  !.pc = IF spent THEN "idle" ELSE "reserving",
                  !.seen = IF spent THEN proc[p].seen ELSE now,
                  !.blockedUntil = blocked]]
    BY <1>2 DEF Request
  <2> HIDE DEF today, count, spent
  <2>1. /\ proc'[p].pc \in {"idle", "reserving"}
        /\ proc'[p].pc = "reserving" => proc'[p].seen = now
        /\ OthersKept(p)
    BY <1>1 DEF ProcType
  <2> QED
    BY <1>2, <2>1 DEF Request, Begins
<1>3. CASE PollAgain(p)
  BY <1>1, <1>3 DEF PollAgain, Begins, ProcType
<1>4. CASE TakeLock(p)
  BY <1>1, <1>4 DEF TakeLock, Enters, ProcType, Waiting
<1>5. CASE SeeStaleLock(p)
  BY <1>1, <1>5 DEF SeeStaleLock, Waits, ProcType
<1>6. CASE BreakLock(p)
  <2>1. /\ OthersKept(p)
        /\ proc'[p].pc = proc[p].pc /\ proc'[p].seen = proc[p].seen
        /\ proc'[p].copy = proc[p].copy /\ proc'[p].cooldown = proc[p].cooldown
        /\ proc'[p].until = proc[p].until
    BY <1>1, <1>6 DEF BreakLock, ProcType
  <2>2. raced' = (raced \/ (lock.held /\ ~Stale)) /\ ~lock'.held
    BY <1>6 DEF BreakLock, NoLock
  <2>3. raced => raced'
    BY <2>2, Zenon
  <2>4. lock.held /\ ~raced' => Stale
    BY <2>2, Zenon
  <2>5. Stale => lock.since < now
    BY SchedulerAssumption DEF Stale, SchedulerTypeOK
  <2> QED
    BY <1>6, <2>1, <2>2, <2>3, <2>4, <2>5 DEF BreakLock, Waits
<1>7. CASE GiveUp(p)
  BY <1>1, <1>7 DEF GiveUp, GivesUp, ProcType
<1> QED
  BY <1>2, <1>3, <1>4, <1>5, <1>6, <1>7 DEF LockStep

LEMMA InsideEffects ==
  ASSUME SchedulerTypeOK, NEW p \in Procs,
         CooldownOrSpent(p) \/ AwaitLease(p) \/ ReserveSlot(p) \/ FinishLease(p)
  PROVE  Leaves(p) \/ Reserves(p) \/ Finishes(p) \/ ExpiresWriting(p)
<1> USE DEF OthersKept, NothingSent
<1> DEFINE me == proc[p]
           today == Day(me.seen)
<1>1. /\ proc \in [Procs -> ProcType] /\ me \in ProcType /\ me.copy \in FileType
      /\ me.seen \in Nat /\ now \in Nat
  BY SchedulerAssumption DEF SchedulerTypeOK, ProcType
<1> DEFINE Done(state, local) ==
             /\ file' = state /\ proc'[p] = local /\ ~lock'.held
             /\ OthersKept(p) /\ NothingSent
             /\ UNCHANGED <<delayed, crashes, raced, orphaned, forgotten>>
<1>2. \A state, local :
        Leave(p, state, local) /\ me.pc \in Inside =>
          Done(state, local) \/ (file' = state /\ Expires(p))
  <2> SUFFICES ASSUME NEW state, NEW local, Leave(p, state, local), me.pc \in Inside
               PROVE  Done(state, local) \/ (file' = state /\ Expires(p))
    OBVIOUS
  <2>1. CASE lock' = NoLock /\ proc' = [proc EXCEPT ![p] = local] /\ UNCHANGED <<crashes, orphaned>>
    BY <1>1, <2>1 DEF Leave, NoLock
  <2>2. CASE /\ crashes' = crashes + 1 /\ proc' = [proc EXCEPT ![p] = FreshProc]
             /\ orphaned' = TRUE /\ UNCHANGED lock
    <3>1. proc'[p].pc = "idle" /\ OthersKept(p)
      BY <1>1, <2>2 DEF FreshProc
    <3> QED
      BY <2>2, <3>1 DEF Leave, Expires
  <2> QED
    BY <2>1, <2>2 DEF Leave
<1> HIDE DEF Done
<1>3. CASE CooldownOrSpent(p)
  <2> DEFINE retryAt == IF me.copy.cooldownUntil > me.seen THEN me.copy.cooldownUntil
                        ELSE Later(me.copy.cooldownUntil, NextDay(me.seen) + 1)
             rejected == [me EXCEPT !.pc = "idle", !.blockedUntil = Later(@, retryAt)]
             spent == [me.copy EXCEPT !.day = today, !.count = CountOn(me.copy, today),
                                      !.cooldownUntil = retryAt]
  <2>1. rejected.pc = "idle" /\ me.pc = "reserve" /\ me.pc \in Inside
    BY <1>1, <1>3 DEF CooldownOrSpent, ProcType, Inside
  <2>2. CASE Leave(p, file, rejected)
    <3> HIDE DEF rejected
    <3>1. Done(file, rejected) \/ (file' = file /\ Expires(p))
      BY <1>2, <2>1, <2>2
    <3> QED
      BY <2>1, <3>1 DEF Done, Leaves, ExpiresWriting
  <2>3. CASE CountOn(me.copy, today) >= DailyBudget /\ Leave(p, spent, rejected)
    <3>1. me.copy.day = today /\ CountOn(me.copy, today) = me.copy.count
      BY <2>3, SchedulerAssumption DEF CountOn
    <3>2. NextDay(me.seen) \in Nat /\ me.copy.cooldownUntil \in Nat /\ me.copy.nextRequestAt \in Nat
      BY <1>1, DayOf DEF FileType
    <3>3. retryAt >= me.copy.cooldownUntil
      BY <3>2 DEF Later
    <3>4. /\ spent.lease = me.copy.lease /\ spent.leaseUntil = me.copy.leaseUntil
          /\ spent.nextRequestAt = me.copy.nextRequestAt
          /\ spent.cooldownUntil >= me.copy.cooldownUntil
          /\ spent.day = me.copy.day /\ spent.count = me.copy.count
      BY <1>1, <3>1, <3>3 DEF FileType
    <3> HIDE DEF spent, rejected
    <3>5. Done(spent, rejected) \/ (file' = spent /\ Expires(p))
      BY <1>2, <2>1, <2>3
    <3>6. CASE Done(spent, rejected)
      BY <2>1, <3>4, <3>6 DEF Done, Leaves
    <3>7. CASE file' = spent /\ Expires(p)
      BY <3>2, <3>4, <3>7 DEF ExpiresWriting, Unleased
    <3> QED
      BY <3>5, <3>6, <3>7
  <2> QED
    BY <1>3, <2>2, <2>3 DEF CooldownOrSpent
<1>4. CASE AwaitLease(p)
  <2> DEFINE local == [me EXCEPT !.pc = "polling"]
  <2>1. /\ local.pc = "polling" /\ me.pc = "reserve" /\ me.pc \in Inside
        /\ Leave(p, file, local)
    BY <1>1, <1>4 DEF AwaitLease, Open, ProcType, Inside
  <2> HIDE DEF local
  <2>2. Done(file, local) \/ (file' = file /\ Expires(p))
    BY <1>2, <2>1
  <2> QED
    BY <2>1, <2>2 DEF Done, Leaves, ExpiresWriting
<1>5. CASE ReserveSlot(p)
  <2> DEFINE startAt == SlotOf(me)
             count == CountOn(me.copy, today) + 1
             state == [me.copy EXCEPT !.day = today, !.count = count, !.lease = p,
                         !.leaseUntil = startAt + RequestTimeout + LeaseGrace,
                         !.nextRequestAt = startAt + MinInterval]
             local == [me EXCEPT !.pc = "sleeping", !.until = now + (startAt - me.seen),
                                 !.day = today, !.count = count]
  <2>1. /\ startAt \in Nat /\ startAt >= me.seen /\ startAt >= me.copy.nextRequestAt
        /\ me.copy.nextRequestAt \in Nat
        /\ me.copy.leaseUntil <= me.seen /\ me.copy.cooldownUntil <= me.seen
        /\ me.pc = "reserve"
    BY <1>1, <1>5 DEF SlotOf, Later, FileType, ReserveSlot, Open, Leased
  <2>2. /\ state.lease = p /\ state.leaseUntil = startAt + RequestTimeout + LeaseGrace
        /\ state.nextRequestAt = startAt + MinInterval
        /\ state.cooldownUntil = me.copy.cooldownUntil
        /\ state.day = today /\ state.count = count
    <3> HIDE DEF startAt, count, today
    <3> QED
      BY <1>1 DEF FileType
  <2>3. local.pc = "sleeping" /\ local.until = now + (startAt - me.seen)
    <3> HIDE DEF startAt, count, today
    <3> QED
      BY <1>1 DEF ProcType
  <2>4. Leave(p, state, local)
    BY <1>5 DEF ReserveSlot
  <2> HIDE DEF state, local
  <2>5. Done(state, local) \/ (file' = state /\ Expires(p))
    BY <1>2, <2>1, <2>4 DEF Inside
  <2> HIDE DEF startAt
  <2>6. CASE Done(state, local)
    BY <2>1, <2>2, <2>3, <2>6 DEF Done, Reserves
  <2>7. CASE file' = state /\ Expires(p)
    <3>1. file'.nextRequestAt >= me.copy.nextRequestAt
      BY <2>1, <2>2, <2>7, SchedulerAssumption
    <3> QED
      BY <2>1, <2>7, <3>1 DEF ExpiresWriting, Slotted
  <2> QED
    BY <2>5, <2>6, <2>7
<1>6. CASE FinishLease(p)
  <2> DEFINE mine == me.copy.lease = p
             state == [me.copy EXCEPT !.lease = IF mine THEN NoProc ELSE @,
                                      !.leaseUntil = IF mine THEN 0 ELSE @,
                                      !.cooldownUntil = CooldownShared(me)]
             local == [me EXCEPT !.pc = "idle", !.cooldown = 0]
  <2>1. /\ IF mine THEN state.lease = NoProc /\ state.leaseUntil = 0
                   ELSE state.lease = me.copy.lease /\ state.leaseUntil = me.copy.leaseUntil
        /\ state.nextRequestAt = me.copy.nextRequestAt /\ me.copy.nextRequestAt \in Nat
        /\ state.cooldownUntil = Later(me.copy.cooldownUntil, me.cooldown)
        /\ state.day = me.copy.day /\ state.count = me.copy.count
    BY <1>1 DEF FileType, CooldownShared
  <2>2. /\ local.pc = "idle" /\ me.pc = "finish" /\ me.pc \in Inside
        /\ Leave(p, state, local)
    BY <1>1, <1>6 DEF FinishLease, ProcType, Inside
  <2> HIDE DEF state, local
  <2>3. Done(state, local) \/ (file' = state /\ Expires(p))
    BY <1>2, <2>2
  <2>4. CASE Done(state, local)
    BY <2>1, <2>2, <2>4 DEF Done, Finishes
  <2>5. CASE file' = state /\ Expires(p)
    BY <2>1, <2>5 DEF ExpiresWriting, Unleased
  <2> QED
    BY <2>3, <2>4, <2>5
<1> QED
  BY <1>3, <1>4, <1>5, <1>6

LEMMA OutsideEffects ==
  ASSUME SchedulerTypeOK, NEW p \in Procs, SendOnce(p) \/ Answer(p) \/ CrashProcess(p)
  PROVE  Sends(p) \/ Answers(p) \/ Dies(p)
<1> USE DEF OthersKept, NothingSent
<1>1. proc \in [Procs -> ProcType] /\ proc[p] \in ProcType
  BY DEF SchedulerTypeOK
<1>2. CASE SendOnce(p)
  BY <1>1, <1>2 DEF SendOnce, Sends, ProcType
<1>3. CASE Answer(p)
  <2> PICK end :
        /\ proc' = [proc EXCEPT ![p] = [proc[p] EXCEPT
             !.pc = "finishing", !.seen = now, !.cooldown = end,
             !.blockedUntil = Later(proc[p].blockedUntil, end)]]
        /\ delayed' = Later(delayed, end)
    BY <1>3 DEF Answer
  <2>1. /\ proc'[p].pc = "finishing" /\ proc'[p].seen = now /\ proc'[p].cooldown = end
        /\ OthersKept(p)
    BY <1>1 DEF ProcType
  <2> QED
    BY <1>3, <2>1 DEF Answer, Answers
<1>4. CASE CrashProcess(p)
  <2>1. proc'[p].pc = "idle" /\ OthersKept(p)
    BY <1>1, <1>4 DEF CrashProcess, FreshProc
  <2>2. /\ orphaned' = (orphaned \/ proc[p].pc \in Inside)
        /\ forgotten' = (forgotten \/ (proc[p].pc \in {"finishing", "finish"} /\ proc[p].cooldown > 0))
    BY <1>4 DEF CrashProcess
  <2>3. /\ orphaned => orphaned'
        /\ ~orphaned' => proc[p].pc \notin Inside
        /\ forgotten => forgotten'
        /\ ~forgotten' /\ proc[p].pc \in {"finishing", "finish"} => ~(proc[p].cooldown > 0)
    BY <2>2, Zenon
  <2>4. proc[p].cooldown \in Nat
    BY <1>1 DEF ProcType
  <2> QED
    BY <1>4, <2>1, <2>3, <2>4 DEF CrashProcess, Dies
<1> QED
  BY <1>2, <1>3, <1>4

LEMMA StepEffects ==
  ASSUME SchedulerTypeOK, SchedulerNext
  PROVE  Ticks \/ \E p \in Procs : Effect(p)
<1>1. CASE Clock
  BY <1>1 DEF Clock, Ticks
<1>2. ASSUME NEW p \in Procs,
             \/ Request(p) \/ LockStep(p) \/ ReserveStep(p)
             \/ SendOnce(p) \/ Answer(p) \/ FinishLease(p) \/ CrashProcess(p)
      PROVE  Effect(p)
  <2>1. CASE Request(p) \/ LockStep(p) \/ PollAgain(p)
    BY <2>1, WaitingEffects, Zenon DEF Effect
  <2>2. CASE CooldownOrSpent(p) \/ AwaitLease(p) \/ ReserveSlot(p) \/ FinishLease(p)
    BY <2>2, InsideEffects, Zenon DEF Effect
  <2>3. CASE SendOnce(p) \/ Answer(p) \/ CrashProcess(p)
    BY <2>3, OutsideEffects, Zenon DEF Effect
  <2> QED
    BY <1>2, <2>1, <2>2, <2>3, Zenon DEF ReserveStep
<1> QED
  BY <1>1, <1>2, Zenon DEF SchedulerNext

-----------------------------------------------------------------------------
(* The lock *)

\* The fields of the processes, the file and the constants that count.
LEMMA Numbers ==
  ASSUME SchedulerTypeOK
  PROVE  /\ now \in Nat /\ lastSent \in Nat /\ delayed \in Nat /\ crashes \in Nat
         /\ Slack \in Nat /\ Slack < RequestTimeout + LeaseGrace /\ Slack <= LockPatience
         /\ MinInterval \in Nat /\ RequestTimeout \in Nat /\ RequestTimeout > 0
         /\ LeaseGrace \in Nat /\ LeaseGrace > 0 /\ LockPatience \in Nat /\ LockPatience > 0
         /\ \A p \in Procs : /\ proc[p].seen \in Nat /\ proc[p].until \in Nat
                             /\ proc[p].cooldown \in Nat /\ proc[p].copy \in FileType
         /\ file \in FileType
BY SchedulerAssumption DEF SchedulerTypeOK, ProcType, Slack

LEMMA FileNumbers ==
  ASSUME NEW state \in FileType
  PROVE  /\ state.nextRequestAt \in Nat /\ state.leaseUntil \in Nat /\ state.cooldownUntil \in Nat
         /\ state.day \in Nat /\ state.count \in Nat /\ state.count <= DailyBudget
         /\ state.lease \in Procs \cup {NoProc}
BY SchedulerAssumption DEF FileType

\* The room for waiting never shrinks.
LEMMA SlackGrows ==
  ASSUME SchedulerTypeOK, orphaned => orphaned'
  PROVE  Slack <= Slack' /\ Slack' \in Nat /\ (orphaned' = orphaned => Slack' = Slack)
BY Numbers DEF Slack

\* Time passes only where nobody is inside, nobody is late and whoever waits
\* waits for a lock left behind.
LEMMA TickKeepsLock ==
  ASSUME SchedulerTypeOK, LockSafe, Ticks
  PROVE  /\ LockSafe' /\ At(Inside) = {}
         /\ At(Waiting) # {} => orphaned
<1> USE DEF At
<1>1. At(Inside) = {}
  BY DEF Ticks, MayWait, Waiting, Inside
<1>2. lock.held => orphaned
  BY <1>1 DEF LockSafe, LockIsSomebodys
<1>3. OneInside' /\ InsideIsFresh' /\ LockIsSomebodys'
  BY <1>1, <1>2 DEF Ticks, OneInside, InsideIsFresh, LockIsSomebodys
<1>4. \A p \in At(Waiting) : orphaned /\ now < proc[p].seen + LockPatience
  BY <1>2 DEF Ticks, MayWait, Waiting
<1>5. Timely'
  <2>1. \A p \in At({"sleeping", "sending"}) : now < proc[p].until
    BY DEF Ticks, MayWait, Waiting
  <2>2. \A p \in Procs : proc[p].until \in Nat /\ proc[p].seen \in Nat
    BY Numbers
  <2> QED
    BY <1>1, <1>4, <2>1, <2>2, Numbers DEF Ticks, Timely, LockSafe, Slack
<1> QED
  BY <1>1, <1>3, <1>4, <1>5 DEF LockSafe

LEMMA LockStays ==
  ASSUME SchedulerTypeOK, LockSafe, ~raced', NEW p \in Procs, Effect(p)
  PROVE  LockSafe'
<1> USE Numbers DEF At, LockSafe, OthersKept, NothingSent
<1>1. CASE Begins(p)
  BY <1>1 DEF Begins, OneInside, InsideIsFresh, LockIsSomebodys, Timely, Slack, Waiting, Inside
<1>2. CASE Enters(p)
  <2>1. At(Inside) = {}
    BY <1>2 DEF Enters, InsideIsFresh
  <2> QED
    BY <1>2, <2>1 DEF Enters, OneInside, InsideIsFresh, LockIsSomebodys, Timely, Slack, Waiting, Inside
<1>3. CASE Waits(p)
  <2>1. ~lock'.held /\ lock.held => At(Inside) = {}
    BY <1>3 DEF Waits, InsideIsFresh
  <2> QED
    BY <1>3, <2>1 DEF Waits, OneInside, InsideIsFresh, LockIsSomebodys, Timely, Slack, Waiting, Inside
<1>4. CASE GivesUp(p)
  BY <1>4 DEF GivesUp, OneInside, InsideIsFresh, LockIsSomebodys, Timely, Slack, Waiting, Inside
<1>5. CASE Leaves(p) \/ Reserves(p) \/ Finishes(p)
  <2>1. \A q \in Procs : q # p => proc[q].pc \notin Inside
    BY <1>5 DEF Leaves, Reserves, Finishes, OneInside, Inside
  <2>2. At(Inside)' = {}
    BY <1>5, <2>1 DEF Leaves, Reserves, Finishes, Inside
  <2>3. OneInside' /\ InsideIsFresh' /\ LockIsSomebodys'
    BY <1>5, <2>2 DEF Leaves, Reserves, Finishes, OneInside, InsideIsFresh, LockIsSomebodys
  <2>4. Timely'
    BY <1>5 DEF Leaves, Reserves, Finishes, Timely, Slack, Waiting, Inside
  <2> QED
    BY <2>3, <2>4
<1>6. CASE Sends(p) \/ Answers(p)
  BY <1>6 DEF Sends, Answers, OneInside, InsideIsFresh, LockIsSomebodys, Timely, Slack, Waiting, Inside
<1>7. CASE Dies(p)
  BY <1>7, SlackGrows DEF Dies, OneInside, InsideIsFresh, LockIsSomebodys, Timely, Waiting, Inside
<1>8. CASE ExpiresWriting(p)
  <2>1. \A q \in Procs : proc'[q].pc \notin Inside
    BY <1>8 DEF ExpiresWriting, Expires, OneInside, Inside
  <2>2. OneInside' /\ InsideIsFresh' /\ LockIsSomebodys'
    BY <1>8, <2>1 DEF ExpiresWriting, Expires, OneInside, InsideIsFresh, LockIsSomebodys
  <2>3. Timely'
    BY <1>8, SlackGrows DEF ExpiresWriting, Expires, Timely, Waiting, Inside
  <2> QED
    BY <2>2, <2>3
<1> QED
  BY <1>1, <1>2, <1>3, <1>4, <1>5, <1>6, <1>7, <1>8 DEF Effect

-----------------------------------------------------------------------------
(* The lease *)

\* A lease that runs keeps every other process from a slot, whatever the clock
\* said when that process read it: when a slot is taken nobody sleeps for one,
\* and who still sends is late.
LEMMA LeaseExcludes ==
  ASSUME SchedulerTypeOK, LockSafe, LeaseSafe, NEW p \in Procs, Slotted(p)
  PROVE  /\ At({"sleeping"}) = {}
         /\ \A q \in At({"sending"}) : Late(q)
<1>1. proc[p].copy = file /\ proc[p].seen <= now /\ file.leaseUntil <= now
  <2>1. p \in At(Inside) /\ p \in At(Waiting \cup Inside)
    BY DEF Slotted, At, Inside
  <2>2. proc[p].copy = file /\ proc[p].seen <= now
    BY <2>1 DEF LockSafe, InsideIsFresh, Timely
  <2> QED
    BY <2>2, Numbers, FileNumbers DEF Slotted
<1>2. \A q \in At({"sleeping", "sending"}) : now <= proc[q].until /\ proc[q].until \in Nat
  BY Numbers DEF LockSafe, Timely, At
<1>3. file.leaseUntil \in Nat
  BY Numbers, FileNumbers
<1>4. ASSUME NEW q \in At({"sleeping"})
      PROVE  FALSE
  <2>1. /\ now <= proc[q].until /\ proc[q].until \in Nat
        /\ proc[q].until + RequestTimeout + LeaseGrace <= file.leaseUntil + Slack
    BY <1>2 DEF At, LeaseSafe, SleeperLeased
  <2> QED
    BY <1>1, <1>3, <2>1, Numbers
<1>5. ASSUME NEW q \in At({"sending"})
      PROVE  Late(q)
  <2>1. proc[q].until \in Nat
    BY <1>2 DEF At
  <2>2. proc[q].until + LeaseGrace <= file.leaseUntil + Slack \/ Late(q)
    BY DEF LeaseSafe, SenderLeased
  <2> QED
    BY <1>1, <1>3, <2>1, <2>2, Numbers DEF Late
<1> QED
  BY <1>4, <1>5

LEMMA LeaseStays ==
  ASSUME SchedulerTypeOK, SchedulerTypeOK', LockSafe, LeaseSafe, NEW p \in Procs, Effect(p)
  PROVE  LeaseSafe'
<1> USE DEF At, OthersKept, NothingSent
<1> DEFINE S(q) == /\ file.lease = q
                   /\ proc[q].until + RequestTimeout + LeaseGrace <= file.leaseUntil + Slack
                   /\ proc[q].until + MinInterval <= file.nextRequestAt + Slack
           T(q) == \/ file.lease = q /\ proc[q].until + LeaseGrace <= file.leaseUntil + Slack
                   \/ Late(q)
<1>1. /\ \A q \in Procs : proc[q].pc = "sleeping" => S(q)
      /\ \A q \in Procs : proc[q].pc = "sending" => T(q)
  BY DEF LeaseSafe, SleeperLeased, SenderLeased
<1>2. SUFFICES /\ \A q \in Procs : proc'[q].pc = "sleeping" => S(q)'
               /\ \A q \in Procs : proc'[q].pc = "sending" => T(q)'
  BY DEF LeaseSafe, SleeperLeased, SenderLeased
<1>3. p \in At(Inside) => proc[p].copy = file
  BY DEF LockSafe, InsideIsFresh
<1>4. CASE Begins(p) \/ Enters(p) \/ Waits(p) \/ GivesUp(p) \/ Answers(p)
  <2>1. UNCHANGED <<file, orphaned, now>>
    BY <1>4 DEF Begins, Enters, Waits, GivesUp, Answers
  <2>2. proc'[p].pc \in {"sleeping", "sending"} =>
          proc'[p].pc = proc[p].pc /\ proc'[p].until = proc[p].until
    BY <1>4 DEF Begins, Enters, Waits, GivesUp, Answers
  <2>3. OthersKept(p)
    BY <1>4 DEF Begins, Enters, Waits, GivesUp, Answers
  <2> QED
    BY <1>1, <2>1, <2>2, <2>3 DEF Slack, Late
<1>5. CASE Leaves(p)
  <2>1. /\ file'.lease = file.lease /\ file'.leaseUntil = file.leaseUntil
        /\ file'.nextRequestAt = file.nextRequestAt /\ Slack' = Slack
    BY <1>3, <1>5 DEF Leaves, Inside, Slack
  <2> QED
    BY <1>1, <1>5, <2>1 DEF Leaves, Late
<1>6. CASE Reserves(p)
  <2>1. /\ \A q \in Procs \ {p} : proc'[q].pc # "sleeping"
        /\ \A q \in Procs : proc'[q].pc = "sending" => Late(q)'
    BY <1>6, LeaseExcludes DEF Reserves, Slotted, Slack, Late
  <2>2. S(p)'
    <3> PICK startAt \in Nat :
          /\ startAt >= proc[p].seen
          /\ proc'[p].until = now + (startAt - proc[p].seen)
          /\ file'.lease = p /\ file'.leaseUntil = startAt + RequestTimeout + LeaseGrace
          /\ file'.nextRequestAt = startAt + MinInterval
          /\ orphaned' = orphaned
      BY <1>6 DEF Reserves
    <3>1. now <= proc[p].seen + Slack /\ Slack' = Slack
      BY <1>6 DEF Reserves, LockSafe, Timely, Inside, Slack
    <3> QED
      BY <3>1, Numbers
  <2> QED
    BY <2>1, <2>2
<1>7. CASE Sends(p)
  <2>1. S(p) /\ now = proc[p].until /\ proc'[p].until = now + RequestTimeout
        /\ file' = file /\ Slack' = Slack /\ now' = now
    BY <1>1, <1>7, Numbers DEF Sends, LockSafe, Timely, Slack
  <2>2. T(p)'
    BY <2>1, Numbers, FileNumbers
  <2>3. \A q \in Procs \ {p} : proc'[q] = proc[q] /\ (T(q) => T(q)')
    BY <1>7, <2>1 DEF Sends, Late
  <2> QED
    BY <1>1, <1>7, <2>1, <2>2, <2>3 DEF Sends
<1>8. CASE Finishes(p)
  <2>1. /\ Slack' = Slack /\ now' = now /\ file'.nextRequestAt = file.nextRequestAt
        /\ file.lease # p => file'.lease = file.lease /\ file'.leaseUntil = file.leaseUntil
    BY <1>3, <1>8 DEF Finishes, Inside, Slack
  <2> QED
    BY <1>1, <1>8, <2>1 DEF Finishes, Late
<1>9. CASE Dies(p)
  <2>1. file' = file /\ now' = now /\ Slack <= Slack' /\ Slack' \in Nat
    BY <1>9, SlackGrows DEF Dies
  <2>2. \A q \in Procs : proc'[q].pc # "idle" => q # p /\ proc'[q] = proc[q]
    BY <1>9 DEF Dies
  <2>3. ASSUME NEW q \in Procs \ {p} PROVE (S(q) => S(q)') /\ (T(q) => T(q)')
    BY <1>9, <2>1, Numbers, FileNumbers DEF Dies, Late
  <2> QED
    BY <1>1, <2>2, <2>3
<1>10. CASE ExpiresWriting(p)
  <2>1. now' = now /\ Slack <= Slack' /\ Slack' \in Nat
    BY <1>10, SlackGrows DEF ExpiresWriting, Expires
  <2>2. \A q \in Procs : proc'[q].pc # "idle" => q # p /\ proc'[q] = proc[q]
    BY <1>10 DEF ExpiresWriting, Expires
  <2>3. proc[p].copy = file
    BY <1>3, <1>10 DEF ExpiresWriting, Expires
  <2>4. ASSUME NEW q \in Procs \ {p} PROVE Late(q) => Late(q)'
    BY <2>1, Numbers, <1>10 DEF ExpiresWriting, Expires, Late
  <2>5. CASE Slotted(p)
    <3>1. /\ \A q \in Procs : proc[q].pc # "sleeping"
          /\ \A q \in Procs : proc[q].pc = "sending" => Late(q)
      BY <2>5, LeaseExcludes
    <3> QED
      BY <2>2, <2>4, <3>1
  <2>6. CASE ~Slotted(p)
    <3>1. /\ file'.nextRequestAt >= file.nextRequestAt
          /\ file.lease # p => file'.lease = file.lease /\ file'.leaseUntil = file.leaseUntil
      BY <1>10, <2>3, <2>6, Numbers, FileNumbers DEF ExpiresWriting, Unleased
    <3>2. /\ file.nextRequestAt \in Nat /\ file'.nextRequestAt \in Nat
          /\ file.leaseUntil \in Nat /\ MinInterval \in Nat
      BY Numbers, FileNumbers DEF SchedulerTypeOK
    <3>3. ASSUME NEW q \in Procs \ {p}, S(q) PROVE S(q)'
      <4>1. proc'[q] = proc[q] /\ proc[q].until \in Nat
        BY <1>10, Numbers DEF ExpiresWriting, Expires
      <4>2. file'.lease = q /\ file'.leaseUntil = file.leaseUntil
        BY <3>1, <3>3
      <4> QED
        BY <2>1, <3>1, <3>2, <3>3, <4>1, <4>2, Numbers
    <3>4. ASSUME NEW q \in Procs \ {p}, T(q) PROVE T(q)'
      <4>1. proc'[q] = proc[q] /\ proc[q].until \in Nat
        BY <1>10, Numbers DEF ExpiresWriting, Expires
      <4>2. CASE Late(q)
        BY <2>4, <4>2
      <4>3. CASE file.lease = q /\ proc[q].until + LeaseGrace <= file.leaseUntil + Slack
        BY <2>1, <3>1, <3>2, <4>1, <4>3, Numbers
      <4> QED
        BY <3>4, <4>2, <4>3
    <3> QED
      BY <1>1, <2>2, <3>3, <3>4
  <2> QED
    BY <2>5, <2>6
<1> QED
  BY <1>4, <1>5, <1>6, <1>7, <1>8, <1>9, <1>10 DEF Effect

\* Time alone moves neither the file nor a slot.
LEMMA TickKeepsLease ==
  ASSUME SchedulerTypeOK, LeaseSafe, Ticks
  PROVE  LeaseSafe'
<1>1. SleeperLeased'
  BY DEF Ticks, LeaseSafe, SleeperLeased, At, Slack
<1>2. \A p \in Procs : Late(p) => Late(p)'
  BY Numbers DEF Ticks, Late, Slack
<1>3. SenderLeased'
  BY <1>2 DEF Ticks, LeaseSafe, SenderLeased, At, Slack
<1> QED
  BY <1>1, <1>3 DEF LeaseSafe

-----------------------------------------------------------------------------
(* The interval *)

Somebody == \E d \in Days : sent[d] > 0

LEMMA TickKeepsSlots ==
  ASSUME SlotsApart, Ticks
  PROVE  SlotsApart'
BY DEF Ticks, SlotsApart, At, Slack

LEMMA SlotsStay ==
  ASSUME SchedulerTypeOK, SchedulerTypeOK', LockSafe, LeaseSafe, SlotsApart,
         NEW p \in Procs, Effect(p)
  PROVE  SlotsApart'
<1> USE DEF At, OthersKept
<1> DEFINE Room == lastSent + MinInterval <= file.nextRequestAt + Slack
           Apart(q) == lastSent + MinInterval <= proc[q].until + Slack
<1>1. Somebody => Room /\ \A q \in Procs : proc[q].pc = "sleeping" => Apart(q)
  BY DEF SlotsApart, Somebody
<1>2. SUFFICES Somebody' => Room' /\ \A q \in Procs : proc'[q].pc = "sleeping" => Apart(q)'
  BY DEF SlotsApart, Somebody
<1>3. p \in At(Inside) => proc[p].copy = file
  BY DEF LockSafe, InsideIsFresh
<1>4. CASE \/ Begins(p) \/ Enters(p) \/ Waits(p) \/ GivesUp(p) \/ Answers(p)
           \/ Leaves(p) \/ Finishes(p)
  <2>1. /\ file'.nextRequestAt = file.nextRequestAt /\ lastSent' = lastSent
        /\ sent' = sent /\ Slack' = Slack
    BY <1>3, <1>4 DEF Begins, Enters, Waits, GivesUp, Answers, Leaves, Finishes, NothingSent,
                      Inside, Slack
  <2>2. proc'[p].pc = "sleeping" => proc[p].pc = "sleeping" /\ proc'[p].until = proc[p].until
    BY <1>4 DEF Begins, Enters, Waits, GivesUp, Answers, Leaves, Finishes
  <2>3. OthersKept(p)
    BY <1>4 DEF Begins, Enters, Waits, GivesUp, Answers, Leaves, Finishes
  <2> QED
    BY <1>1, <2>1, <2>2, <2>3 DEF Somebody
<1>5. CASE Reserves(p)
  <2> PICK startAt \in Nat :
        /\ startAt >= proc[p].seen /\ startAt >= proc[p].copy.nextRequestAt
        /\ proc'[p].until = now + (startAt - proc[p].seen)
        /\ file'.nextRequestAt = startAt + MinInterval
    BY <1>5 DEF Reserves
  <2>1. /\ sent' = sent /\ lastSent' = lastSent /\ Slack' = Slack
        /\ proc[p].copy = file /\ proc[p].seen <= now
        /\ \A q \in Procs \ {p} : proc'[q].pc # "sleeping"
    BY <1>3, <1>5, LeaseExcludes DEF Reserves, Slotted, NothingSent, Inside, Slack, LockSafe, Timely
  <2>2. Room => Room' /\ Apart(p)'
    BY <2>1, Numbers, FileNumbers
  <2> QED
    BY <1>1, <2>1, <2>2 DEF Somebody
<1>6. CASE Sends(p)
  <2>1. /\ now = proc[p].until /\ lastSent' = now /\ file' = file /\ Slack' = Slack
        /\ now + MinInterval <= file.nextRequestAt + Slack
    BY <1>6, Numbers DEF Sends, LockSafe, Timely, LeaseSafe, SleeperLeased, Slack
  <2>2. \A q \in Procs : proc'[q].pc # "sleeping"
    BY <1>6 DEF Sends, LeaseSafe, SleeperLeased
  <2> QED
    BY <2>1, <2>2
<1>7. CASE Dies(p)
  <2>1. file' = file /\ sent' = sent /\ lastSent' = lastSent /\ Slack <= Slack' /\ Slack' \in Nat
    BY <1>7, SlackGrows DEF Dies, NothingSent
  <2>2. \A q \in Procs : proc'[q].pc = "sleeping" =>
          proc[q].pc = "sleeping" /\ proc'[q].until = proc[q].until
    BY <1>7 DEF Dies
  <2> QED
    BY <1>1, <2>1, <2>2, Numbers, FileNumbers DEF Somebody
<1>8. CASE ExpiresWriting(p)
  <2>1. /\ sent' = sent /\ lastSent' = lastSent /\ Slack <= Slack' /\ Slack' \in Nat
        /\ p \in At(Inside) /\ OthersKept(p) /\ proc'[p].pc = "idle"
    BY <1>8, SlackGrows DEF ExpiresWriting, Expires, NothingSent
  <2>2. /\ file'.nextRequestAt >= file.nextRequestAt
        /\ file.nextRequestAt \in Nat /\ file'.nextRequestAt \in Nat
    BY <1>3, <1>8, <2>1, Numbers, FileNumbers DEF ExpiresWriting, SchedulerTypeOK
  <2>3. Room => Room'
    BY <2>1, <2>2, Numbers
  <2>4. \A q \in Procs : proc'[q].pc = "sleeping" =>
          proc[q].pc = "sleeping" /\ proc'[q].until = proc[q].until
    BY <2>1
  <2> QED
    BY <1>1, <2>1, <2>3, <2>4, Numbers DEF Somebody
<1> QED
  BY <1>4, <1>5, <1>6, <1>7, <1>8 DEF Effect

-----------------------------------------------------------------------------
(* The delays *)

LEMMA TickKeepsDelay ==
  ASSUME SchedulerTypeOK, LockSafe, DelayKnown, Ticks
  PROVE  DelayKnown'
<1>1. ~orphaned => Finishing = {}
  <2>1. At(Inside) = {} /\ (At(Waiting) # {} => orphaned)
    BY TickKeepsLock
  <2> QED
    BY <2>1 DEF DelayKnown, Finishing, At, Waiting, Inside
<1> QED
  BY <1>1 DEF Ticks, DelayKnown, Finishing, At

LEMMA DelayStays ==
  ASSUME SchedulerTypeOK, SchedulerTypeOK', LockSafe, LeaseSafe, DelayKnown,
         NEW p \in Procs, Effect(p)
  PROVE  DelayKnown'
<1> USE DEF At, OthersKept, NothingSent
<1> SUFFICES ASSUME ~orphaned', ~forgotten' PROVE DelayKnown'
  BY DEF DelayKnown
<1> DEFINE Held(q) == file.lease = q /\ now < file.leaseUntil
           Known == \/ delayed <= file.cooldownUntil
                    \/ \E q \in Procs : proc[q].pc \in {"finishing", "finish"} /\ delayed <= proc[q].cooldown
           Past(q) == delayed <= proc[q].until
           All == /\ \A q \in Procs : proc[q].pc \in {"finishing", "finish"} => Held(q)
                  /\ Known
                  /\ \A q \in Procs : proc[q].pc = "sleeping" => Past(q)
<1>1. ~orphaned /\ ~forgotten
  BY DEF Effect, Begins, Enters, Waits, GivesUp, Leaves, Reserves, Sends, Answers, Finishes, Dies,
         ExpiresWriting, Expires
<1>2. now' = now /\ ~ExpiresWriting(p)
  BY DEF Effect, Begins, Enters, Waits, GivesUp, Leaves, Reserves, Sends, Answers, Finishes, Dies,
         ExpiresWriting, Expires
<1>3. All
  BY <1>1 DEF DelayKnown, Finishing
<1>4. SUFFICES All'
  BY DEF DelayKnown, Finishing
<1>5. p \in At(Inside) => proc[p].copy = file
  BY DEF LockSafe, InsideIsFresh
<1>6. Slack = 0
  BY <1>1 DEF Slack
<1>7. CASE Begins(p) \/ Enters(p) \/ Waits(p)
  <2>1. UNCHANGED <<now, file, delayed>> /\ OthersKept(p)
    BY <1>7 DEF Begins, Enters, Waits
  <2>2. /\ proc'[p].pc \in {"finishing", "finish"} <=> proc[p].pc \in {"finishing", "finish"}
        /\ proc[p].pc \in {"finishing", "finish"} => proc'[p].cooldown = proc[p].cooldown
        /\ proc'[p].pc = "sleeping" => proc[p].pc = "sleeping" /\ proc'[p].until = proc[p].until
    BY <1>7 DEF Begins, Enters, Waits
  <2> QED
    BY <1>2, <1>3, <2>1, <2>2
<1>8. CASE GivesUp(p)
  <2>1. proc[p].pc = "reserving"
    BY <1>6, <1>8, Numbers DEF GivesUp, Waiting, LockSafe, Timely
  <2> QED
    BY <1>2, <1>3, <1>8, <2>1 DEF GivesUp
<1>9. CASE Leaves(p)
  <2>1. /\ file'.lease = file.lease /\ file'.leaseUntil = file.leaseUntil
        /\ file'.cooldownUntil >= file.cooldownUntil
    BY <1>5, <1>9, Numbers, FileNumbers DEF Leaves, Inside
  <2>2. delayed <= file.cooldownUntil => delayed <= file'.cooldownUntil
    <3>1. file.cooldownUntil \in Nat /\ file'.cooldownUntil \in Nat /\ delayed \in Nat
      BY Numbers, FileNumbers DEF SchedulerTypeOK
    <3> QED
      BY <2>1, <3>1
  <2>3. UNCHANGED <<now, delayed>> /\ OthersKept(p)
        /\ proc[p].pc = "reserve" /\ proc'[p].pc \in {"idle", "polling"}
    BY <1>9 DEF Leaves
  <2> QED
    BY <1>2, <1>3, <2>1, <2>2, <2>3
<1>10. CASE Reserves(p)
  <2> PICK startAt \in Nat :
        /\ startAt >= proc[p].seen /\ proc[p].copy.leaseUntil <= proc[p].seen
        /\ proc[p].copy.cooldownUntil <= proc[p].seen
        /\ proc'[p].until = now + (startAt - proc[p].seen)
        /\ file'.cooldownUntil = proc[p].copy.cooldownUntil
    BY <1>10 DEF Reserves
  <2>1. proc[p].copy = file /\ proc[p].seen = now
    BY <1>5, <1>6, <1>10, Numbers DEF Reserves, Inside, LockSafe, Timely
  <2>2. \A q \in Procs : proc[q].pc \notin {"finishing", "finish", "sleeping"}
    <3>1. Slotted(p) /\ file.leaseUntil <= now
      BY <1>10, <2>1 DEF Reserves, Slotted
    <3>2. \A q \in Procs : proc[q].pc # "sleeping"
      BY <3>1, LeaseExcludes
    <3> QED
      BY <1>3, <3>1, <3>2, Numbers, FileNumbers
  <2>3. delayed <= file.cooldownUntil
    BY <1>3, <2>2
  <2>4. Past(p)'
    BY <1>10, <2>1, <2>3, Numbers, FileNumbers DEF Reserves
  <2>5. UNCHANGED delayed /\ OthersKept(p) /\ proc'[p].pc = "sleeping"
    BY <1>10 DEF Reserves
  <2> QED
    BY <1>2, <1>3, <2>1, <2>2, <2>3, <2>4, <2>5
<1>11. CASE Sends(p)
  BY <1>2, <1>3, <1>11 DEF Sends
<1>12. CASE Answers(p)
  <2>1. file.lease = p /\ proc[p].until + LeaseGrace <= file.leaseUntil /\ now <= proc[p].until
    <3>1. now <= proc[p].until
      BY <1>12 DEF Answers, LockSafe, Timely
    <3>2. ~Late(p)
      BY <1>6, <3>1, Numbers DEF Late
    <3> QED
      BY <1>6, <1>12, <3>1, <3>2, Numbers, FileNumbers DEF Answers, LeaseSafe, SenderLeased
  <2>2. now < file.leaseUntil
    BY <2>1, Numbers, FileNumbers
  <2>3. \A q \in Procs : proc[q].pc \notin {"finishing", "finish", "sleeping"}
    BY <1>3, <1>12, <2>1 DEF Answers, LeaseSafe, SleeperLeased
  <2>4. delayed <= file.cooldownUntil
    BY <1>3, <2>3
  <2>5. delayed' <= file.cooldownUntil \/ delayed' <= proc'[p].cooldown
    <3>1. /\ delayed \in Nat /\ proc'[p].cooldown \in Nat
          /\ delayed' = Later(delayed, proc'[p].cooldown)
      BY <1>12, Numbers DEF SchedulerTypeOK, ProcType, Answers
    <3> QED
      BY <2>4, <3>1 DEF Later
  <2> QED
    BY <1>2, <1>3, <1>12, <2>1, <2>2, <2>3, <2>5 DEF Answers
<1>13. CASE Finishes(p)
  <2>1. proc[p].copy = file /\ file.lease = p
    BY <1>3, <1>5, <1>13 DEF Finishes, Inside
  <2>2. \A q \in Procs \ {p} : proc[q].pc \notin {"finishing", "finish", "sleeping"}
    BY <1>3, <2>1 DEF LeaseSafe, SleeperLeased
  <2>3. delayed <= file.cooldownUntil \/ delayed <= proc[p].cooldown
    BY <1>3, <2>2
  <2>4. file'.cooldownUntil = Later(file.cooldownUntil, proc[p].cooldown)
    BY <1>13, <2>1 DEF Finishes
  <2>5. delayed <= file'.cooldownUntil
    BY <2>3, <2>4, Numbers, FileNumbers DEF Later
  <2> QED
    BY <1>2, <1>3, <1>13, <2>2, <2>5 DEF Finishes
<1>14. CASE Dies(p)
  <2>1. UNCHANGED <<file, delayed>> /\ OthersKept(p) /\ proc'[p].pc = "idle"
    BY <1>14 DEF Dies
  <2>2. proc[p].pc \in {"finishing", "finish"} => proc[p].cooldown = 0
    BY <1>14 DEF Dies
  <2>3. proc[p].pc \in {"finishing", "finish"} /\ delayed <= proc[p].cooldown
          => delayed <= file.cooldownUntil
    BY <2>2, Numbers, FileNumbers
  <2>4. Known'
    BY <1>3, <2>1, <2>3
  <2> QED
    BY <1>2, <1>3, <2>1, <2>4
<1> QED
  BY <1>2, <1>7, <1>8, <1>9, <1>10, <1>11, <1>12, <1>13, <1>14 DEF Effect

-----------------------------------------------------------------------------
(* The budget *)

Asleep == \E p \in Procs : proc[p].pc = "sleeping"

LEMMA DayIsOne ==
  ASSUME SchedulerTypeOK
  PROVE  Day(now) \in Nat /\ Day(now) \in Days /\ Counted \in Nat /\ Counted <= DailyBudget
<1>1. now \in Nat /\ now <= MaxTime /\ MaxTime \in Nat /\ DayLength \in Nat
  BY SchedulerAssumption DEF SchedulerTypeOK
<1>2. Day(now) \in Nat /\ Day(MaxTime) \in Nat /\ Day(now) <= Day(MaxTime)
  BY <1>1, DayOf
<1>3. Day(now) \in Days
  BY <1>2 DEF Days, Day
<1>4. Counted \in Nat /\ Counted <= DailyBudget
  BY Numbers, FileNumbers, SchedulerAssumption DEF Counted
<1> QED
  BY <1>2, <1>3, <1>4

\* A new day has seen no request, and nothing is counted on it yet.
LEMMA TickKeepsCount ==
  ASSUME SchedulerTypeOK, SchedulerTypeOK', CountIsKept, Ticks
  PROVE  CountIsKept'
<1> SUFFICES ASSUME ~orphaned' PROVE CountIsKept'
  BY DEF CountIsKept
<1> DEFINE today == Day(now)
           later == Day(now + 1)
           room == IF At({"sleeping"}) = {} THEN 1 ELSE 0
<1>1. /\ now \in Nat /\ today \in Nat /\ later \in Nat /\ today <= later
      /\ later \in Days /\ today \in Days
      /\ file.day \in Nat /\ file.count \in Nat
      /\ sent \in [Days -> Nat]
  <2>1. now \in Nat /\ file.day \in Nat /\ file.count \in Nat /\ sent \in [Days -> Nat]
    BY Numbers, FileNumbers DEF SchedulerTypeOK
  <2>2. today \in Nat /\ later \in Nat /\ today <= later /\ today \in Days
    BY <2>1, DayOf, DayIsOne
  <2>3. now + 1 \in Nat /\ now + 1 <= MaxTime /\ MaxTime \in Nat
    BY SchedulerAssumption DEF Ticks, SchedulerTypeOK
  <2>4. later <= Day(MaxTime) /\ Day(MaxTime) \in Nat
    BY <2>3, DayOf
  <2>5. later \in Days
    BY <2>2, <2>4 DEF Days, Day
  <2> QED
    BY <2>1, <2>2, <2>5
<1>2. /\ file.day <= today
      /\ \A d \in Days : d > today => sent[d] = 0
      /\ sent[today] <= Counted + room
      /\ \A d \in Days : sent[d] <= DailyBudget + 1
      /\ now' = now + 1 /\ file' = file /\ sent' = sent /\ proc' = proc
  BY DEF CountIsKept, Ticks
<1>3. \A d \in Days : d > later => sent[d] = 0
  <2> SUFFICES ASSUME NEW d \in Days, d > later PROVE sent[d] = 0
    OBVIOUS
  <2>1. d > today
    BY <1>1 DEF Days, Day
  <2> QED
    BY <1>2, <2>1
<1>4. sent[later] <= (IF file.day = later THEN file.count ELSE 0) + room
  <2>1. CASE later = today
    BY <1>2, <2>1 DEF Counted
  <2>2. CASE later > today
    <3>1. sent[later] = 0
      BY <1>1, <1>2, <2>2
    <3> QED
      BY <1>1, <3>1
  <2> QED
    BY <1>1, <2>1, <2>2
<1> QED
  BY <1>1, <1>2, <1>3, <1>4 DEF CountIsKept, Counted, At

LEMMA CountStays ==
  ASSUME SchedulerTypeOK, SchedulerTypeOK', LockSafe, LeaseSafe, CountIsKept,
         NEW p \in Procs, Effect(p)
  PROVE  CountIsKept'
<1> USE DEF OthersKept
<1> SUFFICES ASSUME ~orphaned' PROVE CountIsKept'
  BY DEF CountIsKept
<1> DEFINE today == Day(now)
           room == IF At({"sleeping"}) = {} THEN 1 ELSE 0
<1>1. ~orphaned
  BY DEF Effect, Begins, Enters, Waits, GivesUp, Leaves, Reserves, Sends, Answers, Finishes, Dies,
         ExpiresWriting, Expires
<1>2. /\ file.day <= today
      /\ \A d \in Days : d > today => sent[d] = 0
      /\ sent[today] <= Counted + room
      /\ \A d \in Days : sent[d] <= DailyBudget + 1
  BY <1>1 DEF CountIsKept
<1>3. /\ today \in Nat /\ today \in Days /\ sent \in [Days -> Nat]
      /\ Counted \in Nat /\ Counted <= DailyBudget /\ DailyBudget \in Nat
      /\ room \in {0, 1}
  BY DayIsOne, SchedulerAssumption DEF SchedulerTypeOK
<1>4. p \in At(Inside) => proc[p].copy = file /\ proc[p].seen = now
  <2>1. Slack = 0
    BY <1>1 DEF Slack
  <2> QED
    BY <2>1, Numbers DEF LockSafe, InsideIsFresh, Timely, At
<1>5. now' = now
  BY DEF Effect, Begins, Enters, Waits, GivesUp, Leaves, Reserves, Sends, Answers, Finishes, Dies,
         ExpiresWriting, Expires, NothingSent
<1>a. ~ExpiresWriting(p)
  BY DEF ExpiresWriting, Expires
<1>6. CASE ~Reserves(p) /\ ~Sends(p)
  <2>1. /\ sent' = sent /\ file'.day = file.day /\ file'.count = file.count
    BY <1>4, <1>a, <1>6 DEF Effect, Begins, Enters, Waits, GivesUp, Leaves, Answers, Finishes, Dies,
                      NothingSent, At, Inside
  <2>2. proc'[p].pc = "sleeping" => proc[p].pc = "sleeping"
    BY <1>a, <1>6 DEF Effect, Begins, Enters, Waits, GivesUp, Leaves, Answers, Finishes, Dies
  <2>3. OthersKept(p)
    BY <1>a, <1>6 DEF Effect, Begins, Enters, Waits, GivesUp, Leaves, Answers, Finishes, Dies
  <2>4. room <= room'
    BY <2>2, <2>3 DEF At
  <2>5. room' \in {0, 1} /\ Counted' = Counted
    BY <1>5, <2>1 DEF Counted
  <2> QED
    BY <1>2, <1>3, <1>5, <2>1, <2>4, <2>5 DEF CountIsKept
<1>7. CASE Reserves(p)
  <2>1. /\ sent' = sent /\ proc[p].copy = file /\ proc[p].seen = now
        /\ At({"sleeping"}) = {} /\ proc'[p].pc = "sleeping"
        /\ file'.day = today /\ file'.count = CountOn(file, today) + 1
    BY <1>4, <1>7, LeaseExcludes DEF Reserves, Slotted, NothingSent, At, Inside
  <2>2. CountOn(file, today) = Counted
    BY DEF CountOn, Counted
  <2>3. Counted' = Counted + 1
    BY <1>5, <2>1, <2>2 DEF Counted
  <2>4. sent[today] <= Counted + 1
    BY <1>2, <2>1
  <2>5. room' \in {0, 1}
    OBVIOUS
  <2> QED
    BY <1>2, <1>3, <1>5, <2>1, <2>3, <2>4, <2>5 DEF CountIsKept
<1>8. CASE Sends(p)
  <2>1. /\ file' = file /\ sent' = [sent EXCEPT ![today] = sent[today] + 1]
        /\ At({"sleeping"}) # {} /\ At({"sleeping"})' = {}
    BY <1>8 DEF Sends, At, LeaseSafe, SleeperLeased
  <2>2. sent[today] <= Counted
    BY <1>2, <1>3, <2>1
  <2>3. Counted' = Counted /\ room' = 1
    BY <1>5, <2>1 DEF Counted
  <2>4. /\ sent'[today] = sent[today] + 1
        /\ \A d \in Days \ {today} : sent'[d] = sent[d]
    BY <1>3, <2>1
  <2>5. \A d \in Days : sent'[d] <= DailyBudget + 1
    BY <1>2, <1>3, <2>2, <2>4
  <2>6. \A d \in Days : d > today => sent'[d] = 0
    BY <1>2, <1>3, <2>4 DEF Days, Day
  <2> QED
    BY <1>2, <1>3, <1>5, <2>1, <2>2, <2>3, <2>4, <2>5, <2>6 DEF CountIsKept
<1> QED
  BY <1>6, <1>7, <1>8

-----------------------------------------------------------------------------

\* A process is held back while it waits, and a slot is not before the reading of
\* the clock it was taken with.
LEMMA HeldBackKept ==
  ASSUME SchedulerTypeOK, HeldBack, [SchedulerNext]_schedulerVars
  PROVE  HeldBack'
<1> DEFINE Early == {"reserving", "reserve", "polling"}
           Fine(q) == /\ proc[q].pc \in Early => proc[q].blockedUntil <= now
                      /\ proc[q].pc = "sleeping" => proc[q].blockedUntil <= proc[q].until
<1>1. /\ \A q \in Procs : Fine(q)
      /\ now \in Nat /\ \A q \in Procs : proc[q] \in ProcType /\ proc[q].blockedUntil \in Nat
  BY Numbers DEF HeldBack, SchedulerTypeOK, ProcType
<1>2. SUFFICES \A q \in Procs : Fine(q)'
  BY DEF HeldBack
<1>3. CASE UNCHANGED schedulerVars
  BY <1>1, <1>3 DEF schedulerVars
<1>4. CASE Clock
  BY <1>1, <1>4 DEF Clock
<1>5. ASSUME NEW p \in Procs,
             \/ Request(p) \/ LockStep(p) \/ ReserveStep(p)
             \/ SendOnce(p) \/ Answer(p) \/ FinishLease(p) \/ CrashProcess(p)
      PROVE  \A q \in Procs : Fine(q)'
  <2>1. now' = now /\ \A q \in Procs \ {p} : proc'[q] = proc[q]
    BY <1>1, <1>5
    DEF Request, LockStep, TakeLock, SeeStaleLock, BreakLock, GiveUp, ReserveStep,
        CooldownOrSpent, AwaitLease, PollAgain, ReserveSlot, Leave, SendOnce, Answer, FinishLease,
        CrashProcess, SchedulerTypeOK
  <2>2. SUFFICES Fine(p)'
    BY <1>1, <2>1
  <2>3. proc \in [Procs -> ProcType] /\ Fine(p) /\ proc[p] \in ProcType
    BY <1>1 DEF SchedulerTypeOK
  <2>4. CASE Request(p) \/ PollAgain(p)
    <3>1. /\ proc'[p].pc \in {"idle", "reserving"}
          /\ proc'[p].pc = "reserving" => proc'[p].blockedUntil = proc[p].blockedUntil
          /\ proc[p].blockedUntil <= now
      <4>1. CASE Request(p)
        <5> DEFINE count == IF proc[p].day # Day(now) THEN 0 ELSE proc[p].count
                   spent == count >= DailyBudget
                   after == [proc[p] EXCEPT
                     !.day = Day(now), !.count = count,
                     !.pc = IF spent THEN "idle" ELSE "reserving",
                     !.seen = IF spent THEN proc[p].seen ELSE now,
                     !.blockedUntil = IF spent THEN Later(proc[p].blockedUntil, NextDay(now))
                                      ELSE proc[p].blockedUntil]
        <5>1. proc' = [proc EXCEPT ![p] = after] /\ now >= proc[p].blockedUntil
          BY <4>1 DEF Request
        <5> HIDE DEF count, spent
        <5>2. /\ after.pc \in {"idle", "reserving"}
              /\ after.pc = "reserving" => after.blockedUntil = proc[p].blockedUntil
          BY <2>3 DEF ProcType
        <5> HIDE DEF after
        <5> QED
          BY <1>1, <2>3, <5>1, <5>2
      <4>2. CASE PollAgain(p)
        BY <2>3, <4>2 DEF PollAgain, ProcType
      <4> QED
        BY <2>4, <4>1, <4>2
    <3> QED
      BY <2>1, <3>1
  <2>5. CASE LockStep(p)
    <3>1. /\ proc'[p].pc \in {"sleeping"} \cup Early =>
               proc[p].pc \in Early \/ proc'[p].pc = proc[p].pc
          /\ proc'[p].pc = "sleeping" => proc[p].pc = "sleeping"
          /\ proc'[p].blockedUntil = proc[p].blockedUntil
          /\ proc'[p].until = proc[p].until
      <4>1. CASE TakeLock(p)
        BY <2>3, <4>1 DEF TakeLock, ProcType, Waiting
      <4>2. CASE SeeStaleLock(p) \/ BreakLock(p)
        BY <2>3, <4>2 DEF SeeStaleLock, BreakLock, ProcType
      <4>3. CASE GiveUp(p)
        BY <2>3, <4>3 DEF GiveUp, ProcType
      <4> QED
        BY <2>5, <4>1, <4>2, <4>3 DEF LockStep
    <3> QED
      BY <2>1, <2>3, <3>1
  <2>6. CASE CooldownOrSpent(p) \/ FinishLease(p) \/ CrashProcess(p)
    <3>1. proc'[p].pc = "idle"
      <4>1. FreshProc.pc = "idle"
        BY DEF FreshProc
      <4> HIDE DEF FreshProc
      <4> QED
        <5>1. \A state, local :
                Leave(p, state, local) => proc'[p] = local \/ proc'[p] = FreshProc
          BY <2>3 DEF Leave
        <5>2. CASE CooldownOrSpent(p)
          <6> DEFINE local(t) == [proc[p] EXCEPT !.pc = "idle", !.blockedUntil = Later(@, t)]
          <6>1. \A t : local(t).pc = "idle"
            BY <2>3 DEF ProcType
          <6>2. \E state, t : Leave(p, state, local(t))
            BY <5>2 DEF CooldownOrSpent
          <6> HIDE DEF local
          <6> QED
            BY <4>1, <5>1, <6>1, <6>2
        <5>3. CASE FinishLease(p)
          <6> DEFINE local == [proc[p] EXCEPT !.pc = "idle", !.cooldown = 0]
          <6>1. local.pc = "idle"
            BY <2>3 DEF ProcType
          <6>2. \E state : Leave(p, state, local)
            BY <5>3 DEF FinishLease
          <6> HIDE DEF local
          <6> QED
            BY <4>1, <5>1, <6>1, <6>2
        <5>4. CASE CrashProcess(p)
          BY <2>3, <4>1, <5>4 DEF CrashProcess
        <5> QED
          BY <2>6, <5>2, <5>3, <5>4
    <3> QED
      BY <3>1
  <2>7. CASE AwaitLease(p)
    <3>1. \/ proc'[p].pc = "idle"
          \/ proc'[p].pc = "polling" /\ proc'[p].blockedUntil = proc[p].blockedUntil
      BY <2>3, <2>7 DEF AwaitLease, Leave, FreshProc, ProcType
    <3>2. proc[p].blockedUntil <= now
      BY <2>3, <2>7 DEF AwaitLease, Open
    <3> QED
      BY <2>1, <3>1, <3>2
  <2>8. CASE ReserveSlot(p)
    <3> DEFINE startAt == SlotOf(proc[p])
    <3>1. startAt \in Nat /\ proc[p].seen \in Nat /\ startAt >= proc[p].seen
      BY <2>3 DEF SlotOf, Later, FileType, ProcType
    <3>2. \/ proc'[p].pc = "idle"
          \/ /\ proc'[p].pc = "sleeping" /\ proc'[p].blockedUntil = proc[p].blockedUntil
             /\ proc'[p].until = now + (startAt - proc[p].seen)
      <4> DEFINE local == [proc[p] EXCEPT
                   !.pc = "sleeping", !.until = now + (startAt - proc[p].seen),
                   !.day = Day(proc[p].seen),
                   !.count = CountOn(proc[p].copy, Day(proc[p].seen)) + 1]
      <4>1. \E state : Leave(p, state, local)
        BY <2>8 DEF ReserveSlot
      <4>2. proc'[p] = local \/ proc'[p] = FreshProc
        <5> HIDE DEF local
        <5> QED
          BY <2>3, <4>1 DEF Leave
      <4>3. FreshProc.pc = "idle"
        BY DEF FreshProc
      <4>4. /\ local.pc = "sleeping" /\ local.blockedUntil = proc[p].blockedUntil
            /\ local.until = now + (startAt - proc[p].seen)
        <5> HIDE DEF startAt
        <5> QED
          BY <2>3 DEF ProcType
      <4> HIDE DEF local, startAt
      <4> QED
        BY <4>2, <4>3, <4>4
    <3>3. proc[p].blockedUntil <= now
      BY <2>3, <2>8 DEF ReserveSlot, Open
    <3> QED
      BY <1>1, <3>1, <3>2, <3>3
  <2>9. CASE SendOnce(p) \/ Answer(p)
    <3>1. proc'[p].pc \in {"sending", "finishing"}
      BY <2>3, <2>9 DEF SendOnce, Answer, ProcType
    <3> QED
      BY <3>1
  <2> QED
    BY <1>5, <2>4, <2>5, <2>6, <2>7, <2>8, <2>9 DEF ReserveStep
<1> QED
  BY <1>3, <1>4, <1>5 DEF SchedulerNext

LEMMA SchedulerStarts ==
  ASSUME SchedulerInit
  PROVE  SchedulerInv
<1>1. SchedulerTypeOK
  BY SchedulerTypesStart
<1>2. /\ now = 0 /\ ~lock.held /\ delayed = 0 /\ orphaned = FALSE
      /\ file.day = 0 /\ file.cooldownUntil = 0
      /\ \A p \in Procs : proc[p].pc = "idle"
      /\ sent = [d \in Days |-> 0]
  BY DEF SchedulerInit, NoLock, FreshProc, EmptyFile, Never
<1>3. \A pcs : "idle" \notin pcs => At(pcs) = {}
  BY <1>2 DEF At
<1>4. LockSafe
  BY <1>2, <1>3 DEF LockSafe, OneInside, InsideIsFresh, LockIsSomebodys, Timely, Waiting, Inside
<1>5. LeaseSafe
  BY <1>3 DEF LeaseSafe, SleeperLeased, SenderLeased
<1>6. SlotsApart
  BY <1>2 DEF SlotsApart
<1>7. DelayKnown
  BY <1>2, <1>3 DEF DelayKnown, Finishing
<1>8. CountIsKept
  <2>1. Day(now) \in Days /\ Day(now) \in Nat /\ Counted \in Nat /\ DailyBudget \in Nat
    BY <1>1, DayIsOne, SchedulerAssumption
  <2> QED
    BY <1>2, <2>1 DEF CountIsKept
<1>9. HeldBack
  BY <1>2 DEF HeldBack
<1> QED
  BY <1>1, <1>4, <1>5, <1>6, <1>7, <1>8, <1>9 DEF SchedulerInv

LEMMA SchedulerKept ==
  ASSUME SchedulerInv, [SchedulerNext]_schedulerVars
  PROVE  SchedulerInv'
<1>1. SchedulerTypeOK /\ SchedulerTypeOK' /\ HeldBack'
  BY SchedulerTypesKept, HeldBackKept DEF SchedulerInv
<1>2. SUFFICES ASSUME ~raced'
               PROVE  LockSafe' /\ LeaseSafe' /\ SlotsApart' /\ DelayKnown' /\ CountIsKept'
  BY <1>1 DEF SchedulerInv
<1>3. CASE UNCHANGED schedulerVars
  BY <1>2, <1>3
  DEF SchedulerInv, schedulerVars, LockSafe, OneInside, InsideIsFresh, LockIsSomebodys, Timely,
      LeaseSafe, SleeperLeased, SenderLeased, Late, SlotsApart, DelayKnown, Finishing,
      CountIsKept, Counted, At, Slack
<1>4. CASE Ticks
  <2>1. LockSafe /\ LeaseSafe /\ SlotsApart /\ DelayKnown /\ CountIsKept
    BY <1>2, <1>4 DEF SchedulerInv, Ticks
  <2> QED
    BY <1>1, <1>4, <2>1, TickKeepsLock, TickKeepsLease, TickKeepsSlots, TickKeepsDelay,
       TickKeepsCount
<1>5. ASSUME NEW p \in Procs, Effect(p)
      PROVE  LockSafe' /\ LeaseSafe' /\ SlotsApart' /\ DelayKnown' /\ CountIsKept'
  <2>1. ~raced
    BY <1>2, <1>5 DEF Effect, Begins, Enters, Waits, GivesUp, Leaves, Reserves, Sends, Answers,
                      Finishes, Dies, ExpiresWriting, Expires
  <2>2. LockSafe /\ LeaseSafe /\ SlotsApart /\ DelayKnown /\ CountIsKept
    BY <2>1 DEF SchedulerInv
  <2> QED
    BY <1>1, <1>2, <1>5, <2>2, LockStays, LeaseStays, SlotsStay, DelayStays, CountStays
<1> QED
  BY <1>1, <1>3, <1>4, <1>5, StepEffects

LEMMA SchedulerInvariant == SchedulerSpec => []SchedulerInv
<1>1. SchedulerInit => SchedulerInv
  BY SchedulerStarts
<1>2. SchedulerInv /\ [SchedulerNext]_schedulerVars => SchedulerInv'
  BY SchedulerKept
<1> QED
  BY <1>1, <1>2, PTL DEF SchedulerSpec

\* The file, the lock and the processes have their types, and the file never
\* counts more than the budget, for any number of processes and crashes.
THEOREM SchedulerTyped == SchedulerSpec => []SchedulerTypeOK
<1>1. SchedulerInv => SchedulerTypeOK
  BY DEF SchedulerInv
<1> QED
  BY <1>1, SchedulerInvariant, PTL

\* Two requests are at the node at once only after a process died inside the
\* lock, and then the earlier has had all of its timeout but for what the patience
\* for the lock exceeds the grace of the lease; for any patience and any grace,
\* unless a waiter removed a lock that was not stale.
THEOREM Serialization == SchedulerSpec => []SerializedUnlessRaced
<1>1. SchedulerInv => SerializedUnlessRaced
  <2> SUFFICES ASSUME SchedulerInv, ~raced, NEW p \in Procs, NEW q \in Procs, Overlapping(p, q)
               PROVE  /\ orphaned
                      /\ \E r \in {p, q} : now + LockPatience >= proc[r].until + LeaseGrace
    BY DEF SerializedUnlessRaced, Overlapping
  <2>1. PICK r \in {p, q} : Late(r)
    BY DEF Overlapping, SchedulerInv, LeaseSafe, SenderLeased, At
  <2>2. now <= proc[r].until /\ proc[r].until \in Nat
    BY Numbers DEF Overlapping, SchedulerInv, LockSafe, Timely, At
  <2>3. now + Slack >= proc[r].until + LeaseGrace
    BY <2>1 DEF Late
  <2>4. Slack # 0
    BY <2>2, <2>3, Numbers DEF SchedulerInv
  <2> QED
    BY <2>3, <2>4 DEF Slack
<1> QED
  BY <1>1, SchedulerInvariant, PTL

\* A day sees at most its budget and one request more, through every restart that
\* leaves no lock behind: what the file counts and who still sleeps bound what
\* was sent.
THEOREM BudgetKept == SchedulerSpec => []BudgetCarried
<1>1. SchedulerInv => BudgetCarried
  BY DEF SchedulerInv, CountIsKept, BudgetCarried
<1> QED
  BY <1>1, SchedulerInvariant, PTL

\* What a request that is sent finds, by the invariant.
LEMMA SendFinds ==
  ASSUME SchedulerInv, SchedulerNext, sent' # sent
  PROVE  /\ ~raced /\ Somebody => now + Slack >= lastSent + MinInterval
         /\ ~raced /\ ~orphaned /\ ~forgotten => now >= delayed
         /\ \A q \in Procs :
              proc[q].pc = "sleeping" /\ proc'[q].pc = "sending" => now >= proc[q].blockedUntil
<1>1. \E p \in Procs : Sends(p)
  <2>1. ~Ticks
    BY DEF Ticks
  <2>2. ASSUME NEW p \in Procs, Effect(p)
        PROVE  Sends(p)
    BY <2>2 DEF Effect, Begins, Enters, Waits, GivesUp, Leaves, Reserves, Sends, Answers,
                Finishes, Dies, ExpiresWriting, Expires, NothingSent
  <2> QED
    BY <2>1, <2>2, StepEffects DEF SchedulerInv
<1>2. PICK p \in Procs : Sends(p)
  BY <1>1
<1>3. p \in At({"sleeping"}) /\ now >= proc[p].until
  BY <1>2 DEF Sends, At
<1>4. ~raced /\ Somebody => lastSent + MinInterval <= proc[p].until + Slack
  BY <1>3 DEF SchedulerInv, SlotsApart, Somebody
<1>5. ~raced /\ ~orphaned /\ ~forgotten => delayed <= proc[p].until
  BY <1>3 DEF SchedulerInv, DelayKnown
<1>6. \A q \in Procs : proc[q].pc = "sleeping" /\ proc'[q].pc = "sending" => q = p
  BY <1>2 DEF Sends, OthersKept
<1>7. now >= proc[p].blockedUntil
  <2>1. proc[p].blockedUntil \in Nat /\ proc[p].until \in Nat /\ now \in Nat
    BY Numbers DEF SchedulerInv, SchedulerTypeOK, ProcType
  <2>2. proc[p].blockedUntil <= proc[p].until
    BY <1>3 DEF SchedulerInv, HeldBack, At
  <2> QED
    BY <1>3, <2>1, <2>2
<1> QED
  BY <1>3, <1>4, <1>5, <1>6, <1>7, Numbers DEF SchedulerInv

\* Two requests in a row lie an interval apart, whichever processes send them;
\* after a lock was left behind, less what a process may wait for a lock.
THEOREM RequestsApart == SchedulerSpec => Spaced
<1>1. SchedulerInv /\ [SchedulerNext]_schedulerVars =>
        [sent' # sent /\ ~raced /\ (\E d \in Days : sent[d] > 0)
           => now + (IF orphaned THEN LockPatience ELSE 0) >= lastSent + MinInterval]_schedulerVars
  BY SendFinds DEF Somebody, Slack
<1> QED
  BY <1>1, SchedulerInvariant, PTL DEF SchedulerSpec, Spaced

\* A process sends nothing before the delays it knows of have passed, whatever
\* dies and whatever happens to the lock; and until a delay the node announced
\* to one process has passed no process sends, if that one did not die before it
\* wrote the delay down and no lock was left behind.
THEOREM DelaysKept == SchedulerSpec => DelaysHonoured
<1>1. SchedulerInv /\ [SchedulerNext]_schedulerVars =>
        [sent' # sent =>
           /\ \A p \in Procs :
                proc[p].pc = "sleeping" /\ proc'[p].pc = "sending" => now >= proc[p].blockedUntil
           /\ ~raced /\ ~orphaned /\ ~forgotten => now >= delayed]_schedulerVars
  BY SendFinds
<1> QED
  BY <1>1, SchedulerInvariant, PTL DEF SchedulerSpec, DelaysHonoured
=============================================================================
