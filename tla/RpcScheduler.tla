---------------------------- MODULE RpcScheduler ----------------------------
(* StudioRpcTransport with a shared state file: the processes of one host     *)
(* (API, worker, reporter) take turns at the node.  A process reserves a slot *)
(* in the file under a lock file, sleeps until the slot, sends, and gives the *)
(* lease back under the lock again.  Time is counted in whole units; a        *)
(* process that can go on goes on within the unit: the file operations under  *)
(* the lock take no time, but the lock may be left behind.                    *)
EXTENDS Naturals

CONSTANTS
  Procs,           \* processes that share the state file
  NoProc,
  MinInterval, DailyBudget, RequestTimeout,
  LeaseGrace,      \* added to the request timeout for the lease (5 s)
  LockStale,       \* age after which a lock file is taken for abandoned (30 s)
  LockPatience,    \* how long a process polls for the lock (250 times 20 ms, and
                   \* what the calls take that find it there)
  DayLength,
  Delays,          \* what the node may announce in Retry-After; 0: no limit hit
  MaxTime,         \* bound on the clock
  MaxCrashes       \* bound on the crashes

ASSUME SchedulerAssumption ==
  /\ NoProc \notin Procs
  /\ MinInterval \in Nat /\ DailyBudget \in Nat \ {0}
  /\ RequestTimeout \in Nat \ {0} /\ LeaseGrace \in Nat \ {0}
  /\ LockStale \in Nat
  /\ LockPatience \in Nat \ {0} /\ LockPatience < LockStale
  /\ LockPatience < RequestTimeout + LeaseGrace
  /\ DayLength \in Nat \ {0} /\ Delays \subseteq Nat
  /\ MaxTime \in Nat /\ MaxCrashes \in Nat

VARIABLES
  now,
  file,     \* the shared state file
  lock,     \* the lock file: nobody's name is in it, only its mtime
  proc,     \* the processes
  sent,     \* requests sent, by day
  lastSent, \* when the last one was sent, and the latest end of a delay
  delayed,  \* the node announced
  crashes,
  raced,    \* history: a lock file was removed that was not stale
  orphaned, \* history: a process died and left its lock file behind
  forgotten \* history: a process that was told a delay died before it wrote it

schedulerVars == <<now, file, lock, proc, sent, lastSent, delayed, crashes, raced,
                   orphaned, forgotten>>

Days == 0..(MaxTime \div DayLength)
Day(t) == t \div DayLength
NextDay(t) == (Day(t) + 1) * DayLength
Later(a, b) == IF a > b THEN a ELSE b
Never == 0
NoLock == [held |-> FALSE, since |-> 0]

FileType == [day : Nat, count : 0..DailyBudget, cooldownUntil : Nat, nextRequestAt : Nat,
             lease : Procs \cup {NoProc}, leaseUntil : Nat]
Waiting == {"reserving", "finishing"}
Inside == {"reserve", "finish"}
ProcType == [pc : {"idle", "polling", "sleeping", "sending"} \cup Waiting \cup Inside,
             seen : Nat,           \* the reading of the clock it works with
             until : Nat,          \* when the present pc ends at the latest
             breaking : BOOLEAN,    \* it has seen that the lock is stale
             copy : FileType, cooldown : Nat, blockedUntil : Nat, day : Nat, count : 0..DailyBudget]

EmptyFile == [day |-> 0, count |-> 0, cooldownUntil |-> 0, nextRequestAt |-> 0,
              lease |-> NoProc, leaseUntil |-> 0]
FreshProc == [pc |-> "idle", seen |-> 0, until |-> 0, breaking |-> FALSE,
              copy |-> EmptyFile, cooldown |-> 0, blockedUntil |-> 0, day |-> 0, count |-> 0]

SchedulerInit ==
  /\ now = 0 /\ file = EmptyFile /\ lock = NoLock
  /\ proc = [p \in Procs |-> FreshProc]
  /\ sent = [d \in Days |-> 0] /\ lastSent = Never /\ delayed = Never /\ crashes = 0
  /\ raced = FALSE /\ orphaned = FALSE /\ forgotten = FALSE

-----------------------------------------------------------------------------
\* localRejectionReason, then waitForReservation reads the clock.
Request(p) ==
  LET me == proc[p]
      today == Day(now)
      count == IF me.day # today THEN 0 ELSE me.count
      spent == count >= DailyBudget
  IN  /\ me.pc = "idle" /\ now >= me.blockedUntil
      /\ proc' = [proc EXCEPT ![p] = [me EXCEPT
           !.day = today, !.count = count,
           !.pc = IF spent THEN "idle" ELSE "reserving",
           !.seen = IF spent THEN me.seen ELSE now,
           !.blockedUntil = IF spent THEN Later(me.blockedUntil, NextDay(now))
                            ELSE me.blockedUntil]]
      /\ UNCHANGED <<now, file, lock, sent, lastSent, delayed, crashes, raced, orphaned, forgotten>>

TakeLock(p) ==
  /\ proc[p].pc \in Waiting /\ ~proc[p].breaking /\ ~lock.held
  /\ lock' = [held |-> TRUE, since |-> now]
  /\ proc' = [proc EXCEPT ![p] = [proc[p] EXCEPT
       !.pc = IF proc[p].pc = "reserving" THEN "reserve" ELSE "finish",
       !.copy = file]]
  /\ UNCHANGED <<now, file, sent, lastSent, delayed, crashes, raced, orphaned, forgotten>>

Stale == lock.held /\ now > lock.since + LockStale

\* Two awaits: stat sees an old mtime, unlink removes whatever file is there.
SeeStaleLock(p) ==
  /\ proc[p].pc \in Waiting /\ ~proc[p].breaking
  /\ Stale
  /\ proc' = [proc EXCEPT ![p].breaking = TRUE]
  /\ UNCHANGED <<now, file, lock, sent, lastSent, delayed, crashes, raced, orphaned, forgotten>>

BreakLock(p) ==
  /\ proc[p].breaking
  /\ lock' = NoLock
  /\ proc' = [proc EXCEPT ![p].breaking = FALSE]
  /\ raced' = (raced \/ (lock.held /\ ~Stale))
  /\ UNCHANGED <<now, file, sent, lastSent, delayed, crashes, orphaned, forgotten>>

\* The lock stays busy: no request is sent; a lease is not given back.
GiveUp(p) ==
  /\ proc[p].pc \in Waiting /\ ~proc[p].breaking
  /\ lock.held /\ now >= proc[p].seen + LockPatience
  /\ proc' = [proc EXCEPT ![p].pc = "idle"]
  /\ UNCHANGED <<now, file, lock, sent, lastSent, delayed, crashes, raced, orphaned, forgotten>>

\* The critical section ends: the state is renamed into place, then the lock
\* file, whoever made it, is removed; the process may die between the two.
Leave(p, state, local) ==
  /\ file' = state
  /\ \/ /\ lock' = NoLock
        /\ proc' = [proc EXCEPT ![p] = local]
        /\ UNCHANGED <<crashes, orphaned>>
     \/ /\ crashes < MaxCrashes /\ crashes' = crashes + 1
        /\ proc' = [proc EXCEPT ![p] = FreshProc] /\ orphaned' = TRUE
        /\ UNCHANGED lock
  /\ UNCHANGED <<now, sent, lastSent, delayed, raced, forgotten>>

\* (Mutant: every process starts its day from nothing.)
CountForgotten(state, today) == 0
\* What is left of the count on the day the process works with.
CountOn(state, today) == IF state.day # today THEN 0 ELSE state.count

CooldownOrSpent(p) ==
  LET me == proc[p]
      today == Day(me.seen)
      retryAt == IF me.copy.cooldownUntil > me.seen THEN me.copy.cooldownUntil
                 ELSE Later(me.copy.cooldownUntil, NextDay(me.seen) + 1)
      rejected == [me EXCEPT !.pc = "idle", !.blockedUntil = Later(@, retryAt)]
  IN  /\ me.pc = "reserve"
      /\ \/ /\ me.copy.cooldownUntil > me.seen
            /\ Leave(p, file, rejected)
         \/ /\ me.copy.cooldownUntil <= me.seen /\ CountOn(me.copy, today) >= DailyBudget
            /\ Leave(p, [me.copy EXCEPT !.day = today, !.count = CountOn(me.copy, today),
                                        !.cooldownUntil = retryAt], rejected)

Open(me) ==
  /\ me.pc = "reserve" /\ me.copy.cooldownUntil <= me.seen
  /\ CountOn(me.copy, Day(me.seen)) < DailyBudget

\* (Mutant: another process's lease is not waited for.)
NeverLeased(me) == FALSE
Leased(me) == me.copy.leaseUntil > me.seen

\* Somebody's lease runs: nothing is written, and the clock is read again later.
AwaitLease(p) ==
  /\ Open(proc[p]) /\ Leased(proc[p])
  /\ Leave(p, file, [proc[p] EXCEPT !.pc = "polling"])

PollAgain(p) ==
  /\ proc[p].pc = "polling"
  /\ proc' = [proc EXCEPT ![p].pc = "reserving", ![p].seen = now]
  /\ UNCHANGED <<now, file, lock, sent, lastSent, delayed, crashes, raced, orphaned, forgotten>>

\* (Mutant: the slot is counted from the reading of the clock alone.)
SlotAtOnce(me) == me.seen
SlotOf(me) == Later(me.seen, me.copy.nextRequestAt)

ReserveSlot(p) ==
  LET me == proc[p]
      today == Day(me.seen)
      startAt == SlotOf(me)
      count == CountOn(me.copy, today) + 1
  IN  /\ Open(me) /\ ~Leased(me)
      /\ Leave(p, [me.copy EXCEPT !.day = today, !.count = count, !.lease = p,
                                  !.leaseUntil = startAt + RequestTimeout + LeaseGrace,
                                  !.nextRequestAt = startAt + MinInterval],
               [me EXCEPT !.pc = "sleeping", !.until = now + (startAt - me.seen),
                          !.day = today, !.count = count])

SendOnce(p) ==
  /\ proc[p].pc = "sleeping" /\ now >= proc[p].until
  /\ proc' = [proc EXCEPT ![p].pc = "sending", ![p].until = now + RequestTimeout]
  /\ sent' = [sent EXCEPT ![Day(now)] = @ + 1]
  /\ lastSent' = now
  /\ UNCHANGED <<now, file, lock, delayed, crashes, raced, orphaned, forgotten>>

\* The answer, a transport error or the timeout; with it perhaps a delay, which
\* this process observes at once and the others once finishLease has written it.
Answer(p) ==
  \E delay \in Delays :
    LET end == IF delay = 0 THEN 0 ELSE now + delay IN
    /\ proc[p].pc = "sending"
    /\ proc' = [proc EXCEPT ![p] = [proc[p] EXCEPT
         !.pc = "finishing", !.seen = now, !.cooldown = end,
         !.blockedUntil = Later(proc[p].blockedUntil, end)]]
    /\ delayed' = Later(delayed, end)
    /\ UNCHANGED <<now, file, lock, sent, lastSent, crashes, raced, orphaned, forgotten>>

\* (Mutant: the delay stays with the process that was told.)
CooldownKept(me) == me.copy.cooldownUntil
CooldownShared(me) == Later(me.copy.cooldownUntil, me.cooldown)

FinishLease(p) ==
  LET me == proc[p]
      mine == me.copy.lease = p
  IN  /\ me.pc = "finish"
      /\ Leave(p, [me.copy EXCEPT !.lease = IF mine THEN NoProc ELSE @,
                                  !.leaseUntil = IF mine THEN 0 ELSE @,
                                  !.cooldownUntil = CooldownShared(me)],
               [me EXCEPT !.pc = "idle", !.cooldown = 0])

\* The process is restarted; a lock file it made stays.
CrashProcess(p) ==
  /\ crashes < MaxCrashes /\ proc[p].pc # "idle"
  /\ crashes' = crashes + 1
  /\ proc' = [proc EXCEPT ![p] = FreshProc]
  /\ orphaned' = (orphaned \/ proc[p].pc \in Inside)
  /\ forgotten' = (forgotten \/ (proc[p].pc \in {"finishing", "finish"} /\ proc[p].cooldown > 0))
  /\ UNCHANGED <<now, file, lock, sent, lastSent, delayed, raced>>

\* The unit may end for the process: it has nothing left to do in it.
MayWait(p) ==
  \/ proc[p].pc \in {"idle", "polling"}
  \/ proc[p].pc \in {"sleeping", "sending"} /\ now < proc[p].until
  \/ /\ proc[p].pc \in Waiting /\ ~proc[p].breaking
     /\ lock.held /\ ~Stale /\ now < proc[p].seen + LockPatience

Clock ==
  /\ now < MaxTime /\ \A p \in Procs : MayWait(p)
  /\ now' = now + 1
  /\ UNCHANGED <<file, lock, proc, sent, lastSent, delayed, crashes, raced, orphaned, forgotten>>

LockStep(p) == TakeLock(p) \/ SeeStaleLock(p) \/ BreakLock(p) \/ GiveUp(p)
ReserveStep(p) == CooldownOrSpent(p) \/ AwaitLease(p) \/ PollAgain(p) \/ ReserveSlot(p)
SchedulerNext ==
  \/ \E p \in Procs :
       \/ Request(p) \/ LockStep(p) \/ ReserveStep(p)
       \/ SendOnce(p) \/ Answer(p) \/ FinishLease(p) \/ CrashProcess(p)
  \/ Clock

SchedulerSpec == SchedulerInit /\ [][SchedulerNext]_schedulerVars

-----------------------------------------------------------------------------
\* Every variable has its type; the count never passes the budget.
SchedulerTypeOK ==
  /\ now \in 0..MaxTime /\ file \in FileType
  /\ lock \in [held : BOOLEAN, since : 0..MaxTime]
  /\ proc \in [Procs -> ProcType]
  /\ sent \in [Days -> Nat] /\ lastSent \in 0..MaxTime /\ delayed \in Nat
  /\ crashes \in 0..MaxCrashes /\ raced \in BOOLEAN /\ orphaned \in BOOLEAN
  /\ forgotten \in BOOLEAN

\* "It serializes requests" (docs/INDEXER.md): two requests are at the node at
\* once only if a process died inside the lock, and then the earlier of them has
\* had its timeout but for what the patience for the lock exceeds the grace of
\* the lease; or if a waiter removed a lock that was not stale
\* (waitForReservation, finishLease).
SerializedUnlessRaced ==
  ~raced =>
    \A p, q \in Procs :
      p # q /\ proc[p].pc = "sending" /\ proc[q].pc = "sending" =>
        /\ orphaned
        /\ \E r \in {p, q} : now + LockPatience >= proc[r].until + LeaseGrace

\* "enforces a configurable minimum interval": two requests in a row lie that
\* far apart, whichever processes send them and die; less what the later one may
\* have waited for a lock left behind after it read the clock, and unless a
\* waiter removed a lock that was not stale (waitForReservation).
Spaced ==
  [][sent' # sent /\ ~raced /\ (\E d \in Days : sent[d] > 0)
     => now + (IF orphaned THEN LockPatience ELSE 0) >= lastSent + MinInterval]_schedulerVars

\* "Explicit server delays are never shortened": a process sends nothing until
\* the delays it knows of have passed, whatever happens to the lock; and no
\* process sends until the last delay the node announced has passed, unless the
\* process that was told died before it wrote it down, a process died inside the
\* lock, so that finishLease may have given up in silence, or a waiter removed a
\* lock that was not stale (localRejectionReason, finishLease).
DelaysHonoured ==
  [][sent' # sent =>
       /\ \A p \in Procs :
            proc[p].pc = "sleeping" /\ proc'[p].pc = "sending" => now >= proc[p].blockedUntil
       /\ ~raced /\ ~orphaned /\ ~forgotten => now >= delayed]_schedulerVars

\* A day sees at most its budget, and one request whose slot was reserved late
\* on the day before (reserve and send are two steps), through restarts too; but
\* a process that read the clock before midnight and waited for a lock left
\* behind sets the file back to the day before (waitForReservation).
BudgetCarried == ~raced /\ ~orphaned => \A d \in Days : sent[d] <= DailyBudget + 1
=============================================================================
