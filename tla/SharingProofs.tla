---------------------------- MODULE SharingProofs ----------------------------
(***************************************************************************)
(* That the scheduler implements CpuSharing, that it counts processes and   *)
(* children, and that nobody of orderly programs is left blocked, for every *)
(* number of processes, of priority levels and of ticks.                    *)
(*                                                                          *)
(* A well placed table needs no queues to say who is ready and who is       *)
(* blocked: the states say it.  So what each function does to the states is *)
(* all that the proofs below use of it.                                     *)
(***************************************************************************)
EXTENDS SchedulerProofs, MCScheduler, FiniteSetTheorems

-----------------------------------------------------------------------------
(* The timer handler. *)

LEMMA Lists ==
  ASSUME NEW t, WellPlaced(t), NEW p \in Pid
  PROVE  /\ p \in Rdy(t) <=> t.proc[p].state = "READY" /\ p \notin {t.running, Halt}
         /\ p \in Blk(t) <=> t.proc[p].state = "BLOCKED" /\ p # t.running
BY DEF WellPlaced, Rdy, Blk

AtMostOne(S) == {{}} \cup {{x} : x \in S}

\* The timer handler makes at most one blocked process ready.
LEMMA WakeDueEffect ==
  ASSUME NEW t \in Table, WellPlaced(t), OnCpu(t), NEW s \in Seq(SleepEntry)
  PROVE  \E late \in AtMostOne(Blk(t)) :
           LET u == WakeDue(t, s)
           IN  /\ u \in Table
               /\ WellPlaced(u)
               /\ u.running = t.running
               /\ SameStructs(t, u)
               /\ \A p \in Pid :
                    u.proc[p].state = IF p \in late THEN "READY" ELSE t.proc[p].state
<1>1. CASE Due(s) = {}
  <2>1. WakeDue(t, s) = t
    BY <1>1 DEF WakeDue
  <2>2. {} \in AtMostOne(Blk(t))
    BY DEF AtMostOne
  <2> QED
    BY <2>1, <2>2 DEF SameStructs
<1>2. CASE Due(s) # {}
  <2> DEFINE pid == s[Min(Due(s))].pid
             u == Unblock(t, pid)
             late == IF IsBlocked(t, pid) THEN {pid} ELSE {}
  <2>1. Due(s) \subseteq 1 .. Len(s) /\ Len(s) \in Nat
    BY EntryTypes DEF Due
  <2>2. Min(Due(s)) \in 1 .. Len(s)
    BY <1>2, <2>1, FirstOf
  <2>3. pid \in Pid
    BY <2>2, EntryTypes
  <2>4. WakeDue(t, s) = u
    BY <1>2 DEF WakeDue
  <2> HIDE DEF pid
  <2>5. late \in AtMostOne(Blk(t))
    BY <2>3 DEF AtMostOne, Blk
  <2>6. /\ u \in Table
        /\ WellPlaced(u)
        /\ u.running = t.running
        /\ SameStructs(t, u)
        /\ \A p \in Pid : u.proc[p].state = IF p \in late THEN "READY" ELSE t.proc[p].state
    BY <2>3, UnblockEffect
  <2> HIDE DEF u, late
  <2> QED
    BY <2>4, <2>5, <2>6
<1> QED
  BY <1>1, <1>2

-----------------------------------------------------------------------------
(* What an interrupt does, as sets of processes. *)

\* The process that gives up the cpu to wait.
Stopped(t) == IF t.proc[t.running].state = "BLOCKED" THEN {t.running} ELSE {}

\* The cpu goes to one of the processes in r, or to the halt process if there is none.
Chosen(w, r, late) ==
  \/ r = {} /\ w.running = Halt /\ Rdy(w) = late
  \/ \E p \in r : w.running = p /\ Rdy(w) = (r \ {p}) \cup late

\* The cpu stays, or goes to one of the processes in r.
KeptOrGiven(t, w, r, late) ==
  \/ w.running = t.running /\ Rdy(w) = r \cup late
  \/ \E p \in r : w.running = p /\ Rdy(w) = (r \ {p}) \cup {t.running} \cup late

LEMMA SchedulerSets ==
  ASSUME NEW t \in Table, WellPlaced(t), t.proc[Halt].priority = 0
  PROVE  LET u == PriorityScheduler(t)
         IN  /\ Blk(u) = Blk(t) \cup Stopped(t)
             /\ OnCpu(t) /\ t.running # Halt => KeptOrGiven(t, u, Rdy(t), {})
             /\ t.running = Halt \/ ~ OnCpu(t) => Chosen(u, Rdy(t), {})
<1> DEFINE u == PriorityScheduler(t)
<1>1. /\ u \in Table
      /\ WellPlaced(u)
      /\ OnCpu(u)
      /\ \A p \in Pid \ {t.running} : p # u.running => u.proc[p].state = t.proc[p].state
      /\ \/ u.running \in Rdy(t)
         \/ u.running = t.running /\ OnCpu(t) /\ t.running # Halt
         \/ u.running = Halt /\ Rdy(t) = {} /\ (t.running = Halt \/ ~ OnCpu(t))
      /\ u.running # t.running =>
           u.proc[t.running].state = IF t.proc[t.running].state = "EXITED" THEN "FREE"
                                     ELSE IF OnCpu(t) THEN "READY"
                                     ELSE "BLOCKED"
  BY PrioritySchedulerEffect
<1>2. /\ t.running \in Pid /\ u.running \in Pid /\ Halt \in Pid
      /\ t.proc[t.running].state \in ProcessState \ {"FREE"}
      /\ t.proc[Halt].state = "READY"
  BY <1>1, TableFields, ProcessFields, PidNat DEF WellPlaced, IsLive
<1> HIDE DEF u
<1>3. ~ OnCpu(t) /\ t.proc[t.running].state # "EXITED" <=> t.proc[t.running].state = "BLOCKED"
  BY <1>2 DEF OnCpu, ProcessState
<1>4. Blk(u) = Blk(t) \cup Stopped(t)
  <2>1. u.running \notin Blk(u) /\ u.running \notin Blk(t) \cup Stopped(t)
    BY <1>1, <1>2, <1>3, Lists DEF Stopped
  <2>2. ASSUME NEW p \in Pid, p # u.running
        PROVE  p \in Blk(u) <=> p \in Blk(t) \cup Stopped(t)
    <3>1. CASE p = t.running
      BY <1>1, <1>2, <1>3, <2>2, <3>1, Lists DEF Stopped
    <3>2. CASE p # t.running
      BY <1>1, <2>2, <3>2, Lists DEF Stopped
    <3> QED
      BY <3>1, <3>2
  <2> QED
    BY <1>2, <2>1, <2>2 DEF Blk, Stopped
<1>5. CASE u.running \in Rdy(t)
  <2>1. u.running # t.running /\ u.running \notin Rdy(u)
    BY <1>1, <1>2, <1>5, Lists
  <2>2. t.running \in Rdy(u) <=> OnCpu(t) /\ t.running # Halt
    BY <1>1, <1>2, <1>3, <2>1, Lists DEF OnCpu
  <2>3. t.running \notin Rdy(t)
    BY <1>2, Lists
  <2>4. \A p \in Pid \ {t.running, u.running} : p \in Rdy(u) <=> p \in Rdy(t)
    BY <1>1, Lists
  <2>5. OnCpu(t) /\ t.running # Halt =>
          Rdy(u) = (Rdy(t) \ {u.running}) \cup {t.running} \cup {}
    BY <1>2, <2>1, <2>2, <2>3, <2>4 DEF Rdy
  <2>6. t.running = Halt \/ ~ OnCpu(t) => Rdy(u) = (Rdy(t) \ {u.running}) \cup {}
    BY <1>2, <2>1, <2>2, <2>3, <2>4 DEF Rdy
  <2> QED
    BY <1>4, <1>5, <2>5, <2>6 DEF KeptOrGiven, Chosen, u
<1>6. CASE u.running = t.running /\ OnCpu(t) /\ t.running # Halt
  <2>1. t.running \notin Rdy(u) /\ t.running \notin Rdy(t)
    BY <1>1, <1>2, <1>6, Lists
  <2>2. \A p \in Pid \ {t.running} : p \in Rdy(u) <=> p \in Rdy(t)
    BY <1>1, <1>6, Lists
  <2>3. Rdy(u) = Rdy(t) \cup {}
    BY <2>1, <2>2 DEF Rdy
  <2> QED
    BY <1>4, <1>6, <2>3 DEF KeptOrGiven, u
<1>7. CASE u.running = Halt /\ Rdy(t) = {} /\ (t.running = Halt \/ ~ OnCpu(t))
  <2>1. t.running \notin Rdy(u)
    BY <1>1, <1>2, <1>3, <1>7, Lists DEF OnCpu
  <2>2. \A p \in Pid \ {t.running} : p \in Rdy(u) <=> p \in Rdy(t)
    BY <1>1, <1>2, <1>7, Lists
  <2>3. Rdy(u) = {}
    BY <1>7, <2>1, <2>2 DEF Rdy
  <2> QED
    BY <1>4, <1>7, <2>3 DEF Chosen, u
<1> QED
  BY <1>1, <1>5, <1>6, <1>7

\* The whole interrupt, timer handler included.
LEMMA InterruptSets ==
  ASSUME NEW t \in Table, WellPlaced(t), t.proc[Halt].priority = 0,
         NEW s \in Seq(SleepEntry)
  PROVE  LET w == WakeDue(PriorityScheduler(t), s)
         IN  \E late \in AtMostOne(Blk(t) \cup Stopped(t)) :
               /\ Blk(w) = (Blk(t) \cup Stopped(t)) \ late
               /\ OnCpu(t) /\ t.running # Halt => KeptOrGiven(t, w, Rdy(t), late)
               /\ t.running = Halt \/ ~ OnCpu(t) => Chosen(w, Rdy(t), late)
<1> DEFINE u == PriorityScheduler(t)
           w == WakeDue(u, s)
<1>1. /\ u \in Table
      /\ WellPlaced(u)
      /\ OnCpu(u)
  BY PrioritySchedulerEffect
<1>2. /\ Blk(u) = Blk(t) \cup Stopped(t)
      /\ OnCpu(t) /\ t.running # Halt => KeptOrGiven(t, u, Rdy(t), {})
      /\ t.running = Halt \/ ~ OnCpu(t) => Chosen(u, Rdy(t), {})
  BY SchedulerSets
<1> HIDE DEF u
<1>3. PICK late \in AtMostOne(Blk(u)) :
        /\ w \in Table
        /\ WellPlaced(w)
        /\ w.running = u.running
        /\ \A p \in Pid : w.proc[p].state = IF p \in late THEN "READY" ELSE u.proc[p].state
  BY <1>1, WakeDueEffect
<1> HIDE DEF w
<1>4. late \subseteq Blk(u) /\ late \subseteq Pid
  BY <1>3 DEF AtMostOne, Blk
<1>5. Halt \notin late /\ u.running \notin late
  <2>1. u.proc[Halt].state = "READY"
    BY <1>1 DEF WellPlaced
  <2> QED
    BY <1>1, <1>4, <2>1, PidNat, TableFields, Lists
<1>6. Rdy(w) = Rdy(u) \cup late
  <2>1. \A p \in Pid : p \in Rdy(w) <=> p \in Rdy(u) \/ p \in late
    BY <1>1, <1>3, <1>5, Lists
  <2> QED
    BY <1>4, <2>1 DEF Rdy
<1>7. Blk(w) = Blk(u) \ late
  <2>1. \A p \in Pid : p \in Blk(w) <=> p \in Blk(u) /\ p \notin late
    BY <1>1, <1>3, <1>5, Lists
  <2> QED
    BY <2>1 DEF Blk
<1>8. OnCpu(t) /\ t.running # Halt => KeptOrGiven(t, w, Rdy(t), late)
  BY <1>2, <1>3, <1>6 DEF KeptOrGiven
<1>9. t.running = Halt \/ ~ OnCpu(t) => Chosen(w, Rdy(t), late)
  BY <1>2, <1>3, <1>6 DEF Chosen
<1> QED
  BY <1>2, <1>3, <1>7, <1>8, <1>9 DEF u, w

Gone(t) == {p \in Pid : p < t.nextPid /\ ~ IsLive(t, p)}

\* The process that gives up the cpu for good.
Died(t) == IF t.proc[t.running].state = "EXITED" THEN {t.running} ELSE {}

LEMMA Born ==
  ASSUME NEW t \in Table, WellPlaced(t), NEW p \in Pid, IsLive(t, p)
  PROVE  p < t.nextPid /\ p \notin Gone(t)
BY PidNat, TableFields DEF WellPlaced, Gone

LEMMA InterruptGone ==
  ASSUME NEW t \in Table, WellPlaced(t), t.proc[Halt].priority = 0,
         NEW s \in Seq(SleepEntry)
  PROVE  LET w == WakeDue(PriorityScheduler(t), s)
         IN  /\ Gone(w) = Gone(t) \cup Died(t)
             /\ w.proc[Halt].priority = 0
             /\ w.nextPid = t.nextPid
             /\ w.processCount = IF t.proc[t.running].state = "EXITED"
                                 THEN t.processCount - 1 ELSE t.processCount
             /\ \A p \in Pid :
                  /\ IsLive(w, p) <=> IsLive(t, p) /\ p \notin Died(t)
                  /\ IsLive(w, p) =>
                       /\ w.proc[p].parentPID = t.proc[p].parentPID
                       /\ w.proc[p].kidsCount = t.proc[p].kidsCount
<1> DEFINE u == PriorityScheduler(t)
           w == WakeDue(u, s)
           exited == t.proc[t.running].state = "EXITED"
<1>1. /\ u \in Table
      /\ WellPlaced(u)
      /\ OnCpu(u)
      /\ u.nextPid = t.nextPid
      /\ u.proc[Halt].priority = 0
      /\ u.processCount = IF exited THEN t.processCount - 1 ELSE t.processCount
      /\ \A p \in Pid \ {t.running} :
           /\ p # u.running => u.proc[p].state = t.proc[p].state
           /\ u.proc[p].parentPID = t.proc[p].parentPID
           /\ u.proc[p].kidsCount = t.proc[p].kidsCount
      /\ ~ exited =>
           /\ u.proc[t.running].parentPID = t.proc[t.running].parentPID
           /\ u.proc[t.running].kidsCount = t.proc[t.running].kidsCount
      /\ \/ u.running \in Rdy(t)
         \/ u.running = t.running /\ OnCpu(t) /\ t.running # Halt
         \/ u.running = Halt /\ Rdy(t) = {} /\ (t.running = Halt \/ ~ OnCpu(t))
      /\ u.running # t.running =>
           u.proc[t.running].state = IF exited THEN "FREE"
                                     ELSE IF OnCpu(t) THEN "READY"
                                     ELSE "BLOCKED"
  BY PrioritySchedulerEffect
<1>2. /\ t.running \in Pid /\ u.running \in Pid /\ Halt \in Pid
      /\ IsLive(t, t.running) /\ IsLive(u, u.running)
      /\ t.proc[Halt].state = "READY"
      /\ t.running < t.nextPid
  BY <1>1, TableFields, PidNat, Born DEF WellPlaced
<1> HIDE DEF u
<1>3. IsLive(t, u.running) /\ u.running \notin Died(t)
  BY <1>1, <1>2, Lists DEF IsLive, Died, OnCpu
<1>4. ASSUME NEW p \in Pid
      PROVE  IsLive(u, p) <=> IsLive(t, p) /\ p \notin Died(t)
  <2>1. CASE p = u.running
    BY <1>2, <1>3, <2>1
  <2>2. CASE p # u.running /\ p = t.running
    BY <1>1, <1>2, <2>2 DEF IsLive, Died
  <2>3. CASE p # u.running /\ p # t.running
    BY <1>1, <2>3 DEF IsLive, Died
  <2> QED
    BY <2>1, <2>2, <2>3
<1>5. PICK late \in AtMostOne(Blk(u)) :
        /\ w \in Table
        /\ SameStructs(u, w)
        /\ \A p \in Pid : w.proc[p].state = IF p \in late THEN "READY" ELSE u.proc[p].state
  BY <1>1, WakeDueEffect
<1> HIDE DEF w
<1>6. \A p \in Pid : IsLive(w, p) <=> IsLive(u, p)
  <2>1. \A p \in late : p \in Pid /\ u.proc[p].state = "BLOCKED"
    BY <1>1, <1>5, Lists DEF AtMostOne, Blk
  <2> QED
    BY <1>5, <2>1 DEF IsLive
<1>7. /\ w.nextPid = t.nextPid
      /\ w.proc[Halt].priority = 0
      /\ w.processCount = IF exited THEN t.processCount - 1 ELSE t.processCount
  BY <1>1, <1>2, <1>5 DEF SameStructs
<1>8. \A p \in Pid : IsLive(w, p) =>
        /\ w.proc[p].parentPID = t.proc[p].parentPID
        /\ w.proc[p].kidsCount = t.proc[p].kidsCount
  BY <1>1, <1>4, <1>5, <1>6 DEF SameStructs, Died
<1>9. Gone(w) = Gone(t) \cup Died(t)
  BY <1>2, <1>4, <1>6, <1>7 DEF Gone, Died
<1> QED
  BY <1>4, <1>6, <1>7, <1>8, <1>9 DEF w, u

-----------------------------------------------------------------------------
(* The kinds of steps. *)

Interrupt(t) == \E s \in Seq(SleepEntry) : pcb' = WakeDue(PriorityScheduler(t), s)

Blocking(t) == SetState(t, t.running, "BLOCKED")

LEMMA FireIsInterrupt ==
  ASSUME NEW t, NEW s \in Seq(SleepEntry), NEW call, FireTimerInt(t, s, call)
  PROVE  Interrupt(t)
BY DEF FireTimerInt, Interrupt

LEMMA BlockInIsInterrupt ==
  ASSUME NEW t, NEW s \in Seq(SleepEntry), NEW call, BlockIn(t, s, call)
  PROVE  Running # Halt /\ Interrupt(Blocking(t))
BY FireIsInterrupt DEF BlockIn, Blocking

\* Each step changes the table in one of these ways.
LEMMA StepKinds ==
  ASSUME IInv, Next
  PROVE  \/ Interrupt(pcb)
         \/ /\ Running # Halt
            /\ \/ Interrupt(ExitRunning(pcb))
               \/ Interrupt(KillRunning(pcb))
               \/ Interrupt(Blocking(pcb))
               \/ /\ PidsLeft(1)
                  /\ \E priority \in AnyPriority :
                       \/ pcb' = CreateProcess(pcb, priority)
                       \/ Interrupt(Blocking(CreateProcess(pcb, priority)))
               \/ /\ PidsLeft(2)
                  /\ Interrupt(Blocking(CreateProcess(CreateProcess(pcb, 0), 0)))
               \/ \E pid \in Pid, priority \in AnyPriority :
                    pcb' = ChangePriority(pcb, pid, priority)
         \/ \E pid \in Pid : \/ pcb' = BlockReady(pcb, pid)
                             \/ pcb' = Unblock(pcb, pid)
                             \/ pcb' = KillOther(pcb, pid)
<1>1. sleeped \in Seq(SleepEntry)
  BY IInvFacts
<1>2. Priority \subseteq AnyPriority
  BY MaxPriorityAssumption DEF Priority, AnyPriority
<1>3. CASE OrderlyStep
  BY <1>1, <1>2, <1>3, FireIsInterrupt, BlockInIsInterrupt
     DEF OrderlyStep, TimerInterrupt, Yield, Exit, CreateBackground, Return,
         CreateWithPipes, Wait
<1>4. CASE ForegroundStep \/ InvalidCreateStep
  BY <1>1, <1>2, <1>4, BlockInIsInterrupt
     DEF ForegroundStep, InvalidCreateStep, CreateBackground, CreateForeground, Return
<1>5. CASE KillStep
  BY <1>1, <1>5, FireIsInterrupt DEF KillStep, KillSelf, KillProcess, Return
<1>6. CASE SleepStep
  <2>1. PICK ticks \in SleepTicks : Sleep(ticks)
    BY <1>6 DEF SleepStep
  <2>2. AddProcSleep(sleeped, Running, ticks) \in Seq(SleepEntry)
    BY <1>1, IInvFacts, SleepTicksAssumption, AddProcSleepType
  <2> QED
    BY <2>1, <2>2, BlockInIsInterrupt DEF Sleep
<1>7. CASE BlockStep
  BY <1>1, <1>7, BlockInIsInterrupt
     DEF BlockStep, BlockSelf, BlockProcess, UnblockProcess, KeyboardWakes, Return
<1>8. CASE PriorityStep
  BY <1>8 DEF PriorityStep, ChangeProcessPriority, Return
<1> QED
  BY <1>3, <1>4, <1>5, <1>6, <1>7, <1>8 DEF Next

\* What the tables that an interrupt is raised on owe to the one before the call.
LEMMA BlockingSets ==
  ASSUME NEW t \in Table, WellPlaced(t), t.running # Halt, t.proc[Halt].priority = 0
  PROVE  LET u == Blocking(t)
         IN  /\ u \in Table
             /\ WellPlaced(u)
             /\ ~ OnCpu(u)
             /\ u.running = t.running
             /\ SameStructs(t, u)
             /\ u.proc[Halt].priority = 0
             /\ \A p \in Pid : IsLive(u, p) <=> IsLive(t, p)
             /\ Stopped(u) = {t.running}
             /\ Died(u) = {}
             /\ Rdy(u) = Rdy(t)
             /\ Blk(u) = Blk(t)
             /\ Gone(u) = Gone(t)
<1> DEFINE u == Blocking(t)
<1>1. t.running \in Pid /\ "BLOCKED" \in ProcessState \ {"FREE"}
  <2>1. "BLOCKED" \in ProcessState \ {"FREE"}
    BY DEF ProcessState
  <2> QED
    BY <2>1, TableFields
<1>2. /\ u \in Table
      /\ WellPlaced(u)
      /\ u.running = t.running
      /\ u.ready = t.ready
      /\ u.blocked = t.blocked
      /\ SameStructs(t, u)
      /\ \A p \in Pid : u.proc[p].state = IF p = t.running THEN "BLOCKED" ELSE t.proc[p].state
  BY <1>1, SetStateFields, SetRunningStateWellPlaced DEF Blocking, SameStructs
<1> HIDE DEF u
<1>3. \A p \in Pid : IsLive(u, p) <=> IsLive(t, p)
  BY <1>2 DEF IsLive, WellPlaced
<1>4. Rdy(u) = Rdy(t) /\ Blk(u) = Blk(t)
  BY <1>2 DEF Rdy, Blk, IsReady, IsBlocked
<1>5. Gone(u) = Gone(t)
  BY <1>2, <1>3 DEF Gone, SameStructs
<1>6. u.proc[Halt].priority = 0
  BY <1>2, PidNat DEF SameStructs
<1>7. ~ OnCpu(u) /\ Stopped(u) = {t.running} /\ Died(u) = {}
  BY <1>1, <1>2 DEF OnCpu, Stopped, Died
<1> QED
  BY <1>2, <1>3, <1>4, <1>5, <1>6, <1>7 DEF u

LEMMA CreateSets ==
  ASSUME NEW t \in Table, WellPlaced(t), t.proc[Halt].priority = 0, t.nextPid \in Pid,
         NEW priority
  PROVE  \E born \in AtMostOne({t.nextPid}) :
           LET u == CreateProcess(t, priority)
           IN  /\ u \in Table
               /\ WellPlaced(u)
               /\ u.running = t.running
               /\ u.nextPid >= t.nextPid
               /\ u.proc[Halt].priority = 0
               /\ OnCpu(u) <=> OnCpu(t)
               /\ Rdy(u) = Rdy(t) \cup born
               /\ Blk(u) = Blk(t)
               /\ Gone(u) = Gone(t)
<1> DEFINE u == CreateProcess(t, priority)
           n == t.nextPid
<1>0. n \in Nat /\ t.running \in Pid
  BY TableFields
<1>1. CASE priority \notin Priority
  <2>1. u = t
    BY <1>1, CreateEffect
  <2>2. {} \in AtMostOne({n})
    BY DEF AtMostOne
  <2>3. u.nextPid >= n /\ Rdy(u) = Rdy(t) \cup {}
    BY <1>0, <2>1
  <2> HIDE DEF u, n
  <2> QED
    BY <2>1, <2>2, <2>3 DEF u, n
<1>2. CASE priority \in Priority
  <2>1. /\ u \in Table
        /\ WellPlaced(u)
        /\ u.running = t.running
        /\ u.nextPid = n + 1
        /\ \A p \in Pid :
             /\ u.proc[p].state = IF p = n THEN "READY" ELSE t.proc[p].state
             /\ p # n => u.proc[p].priority = t.proc[p].priority
    BY <1>2, CreateEffect
  <2> HIDE DEF u
  <2>2. /\ ~ IsLive(t, n)
        /\ IsLive(t, t.running) /\ IsLive(t, Halt)
        /\ n \notin {t.running, Halt}
    BY <1>0 DEF WellPlaced, IsLive
  <2>3. u.proc[Halt].priority = 0 /\ (OnCpu(u) <=> OnCpu(t))
    BY <1>0, <2>1, <2>2, PidNat DEF OnCpu
  <2>4. Rdy(u) = Rdy(t) \cup {n}
    <3>1. \A p \in Pid : p \in Rdy(u) <=> p \in Rdy(t) \/ p = n
      BY <2>1, <2>2, Lists
    <3> QED
      BY <3>1 DEF Rdy
  <2>5. Blk(u) = Blk(t)
    <3>1. \A p \in Pid : p \in Blk(u) <=> p \in Blk(t)
      BY <2>1, <2>2, Lists DEF IsLive
    <3> QED
      BY <3>1 DEF Blk
  <2>6. Gone(u) = Gone(t)
    <3>1. ASSUME NEW p \in Pid \ {n}
          PROVE  p < n + 1 <=> p < n
      <4>1. p \in Nat /\ p # n
        BY PidNat
      <4> QED
        BY <1>0, <4>1
    <3>2. \A p \in Pid : p < u.nextPid /\ ~ IsLive(u, p) <=> p < n /\ ~ IsLive(t, p)
      BY <1>0, <2>1, <3>1 DEF IsLive
    <3> QED
      BY <3>2 DEF Gone
  <2>7. u.nextPid >= n
    BY <1>0, <2>1
  <2>8. {n} \in AtMostOne({n})
    BY DEF AtMostOne
  <2> HIDE DEF n
  <2> QED
    BY <2>1, <2>3, <2>4, <2>5, <2>6, <2>7, <2>8 DEF u, n
<1> QED
  BY <1>1, <1>2

\* The tables that the running process raises an interrupt on.
LEMMA DyingSets ==
  ASSUME NEW t \in Table, WellPlaced(t), t.running # Halt, t.proc[Halt].priority = 0,
         NEW u \in {KillRunning(t), ExitRunning(t)}
  PROVE  /\ u \in Table
         /\ WellPlaced(u)
         /\ ~ OnCpu(u)
         /\ u.running = t.running
         /\ u.nextPid = t.nextPid
         /\ u.processCount = t.processCount
         /\ u.proc[Halt].priority = 0
         /\ Stopped(u) = {}
         /\ Died(u) = {t.running}
         /\ Gone(u) = Gone(t)
         /\ \E parent \in AtMostOne(Blk(t)) :
              Rdy(u) = Rdy(t) \cup parent /\ Blk(u) = Blk(t) \ parent
<1> DEFINE parent == t.proc[t.running].parentPID
           woken == IF parent \in Blk(t) THEN {parent} ELSE {}
<1>0. parent \in Pid /\ t.running \in Pid
  BY TableFields, ProcessFields
<1> HIDE DEF parent
<1>1. /\ u \in Table
      /\ WellPlaced(u)
      /\ u.running = t.running
      /\ u.nextPid = t.nextPid
      /\ u.processCount = t.processCount
      /\ \A p \in Pid :
           /\ u.proc[p].state = IF p = t.running THEN "EXITED"
                                ELSE IF p = parent /\ IsBlocked(t, p) THEN "READY"
                                ELSE t.proc[p].state
           /\ u.proc[p].priority = t.proc[p].priority
  BY KillRunningEffect, ExitRunningEffect DEF SameStructs, parent
<1>2. woken \in AtMostOne(Blk(t)) /\ woken \subseteq Pid
  BY <1>0 DEF AtMostOne, woken
<1>3. \A p \in Pid : u.proc[p].state = IF p = t.running THEN "EXITED"
                                       ELSE IF p \in woken THEN "READY"
                                       ELSE t.proc[p].state
  BY <1>1 DEF Blk, woken
<1>4. \A p \in woken : /\ p # t.running /\ p # Halt
                       /\ p \in Blk(t)
                       /\ t.proc[p].state = "BLOCKED"
  BY <1>0, Lists DEF WellPlaced, woken
<1> HIDE DEF woken
<1>5. \A p \in Pid : IsLive(u, p) <=> IsLive(t, p)
  BY <1>3, <1>4 DEF IsLive, WellPlaced
<1>6. Gone(u) = Gone(t)
  BY <1>1, <1>5 DEF Gone
<1>7. Rdy(u) = Rdy(t) \cup woken
  <2>1. \A p \in Pid : p \in Rdy(u) <=> p \in Rdy(t) \/ p \in woken
    BY <1>1, <1>3, <1>4, Lists
  <2> QED
    BY <1>2, <2>1 DEF Rdy
<1>8. Blk(u) = Blk(t) \ woken
  <2>1. \A p \in Pid : p \in Blk(u) <=> p \in Blk(t) /\ p \notin woken
    BY <1>1, <1>3, <1>4, Lists
  <2> QED
    BY <2>1 DEF Blk
<1>9. ~ OnCpu(u) /\ Stopped(u) = {} /\ Died(u) = {t.running}
  BY <1>0, <1>1 DEF OnCpu, Stopped, Died
<1>10. u.proc[Halt].priority = 0
  BY <1>1, PidNat
<1> QED
  BY <1>1, <1>2, <1>6, <1>7, <1>8, <1>9, <1>10

-----------------------------------------------------------------------------
(* The inductive invariant: the halt process stays at the lowest level, so   *)
(* that every ready process is looked for when it has the cpu.               *)

HaltLowest == pcb.proc[Halt].priority = 0

SInv == IInv /\ HaltLowest

LEMMA InitHaltLowest == Init => HaltLowest
<1> SUFFICES ASSUME Init PROVE HaltLowest
  OBVIOUS
<1> DEFINE r == [FreeProcess EXCEPT !.state = "READY"]
           f == [p \in Pid |-> IF p \in {Halt, Console} THEN r ELSE FreeProcess]
           q == [i \in Priority |-> <<>>]
<1>1. [[p \in Pid |-> FreeProcess] EXCEPT ![Halt].state = "READY",
                                          ![Console].state = "READY"] = f
  BY PidNat
<1>2. f[Halt].priority = 0
  BY PidNat DEF FreeProcess
<1> HIDE DEF f, q
<1>3. pcb = [running |-> Console, ready |-> q, blocked |-> <<>>, proc |-> f,
             processCount |-> 1, nextPid |-> 2]
  BY <1>1 DEF Init, q
<1> QED
  BY <1>2, <1>3 DEF HaltLowest

LEMMA StepHaltLowest ==
  ASSUME SInv, Next
  PROVE  HaltLowest'
<1>1. /\ pcb \in Table
      /\ WellPlaced(pcb)
      /\ Running = pcb.running
      /\ pcb.proc[Halt].priority = 0
      /\ pcb.nextPid \in Nat
  BY IInvFacts DEF SInv, HaltLowest
<1>2. ASSUME NEW t \in Table, WellPlaced(t), t.proc[Halt].priority = 0, Interrupt(t)
      PROVE  HaltLowest'
  BY <1>2, InterruptGone DEF Interrupt, HaltLowest
<1>3. \A n \in {1, 2} : PidsLeft(n) => pcb.nextPid \in Pid
  BY <1>1, MaxPidAssumption DEF PidsLeft, Pid
<1>4. CASE Interrupt(pcb)
  BY <1>1, <1>2, <1>4
<1>5. CASE Running # Halt /\ (Interrupt(ExitRunning(pcb)) \/ Interrupt(KillRunning(pcb)))
  BY <1>1, <1>2, <1>5, DyingSets
<1>6. CASE Running # Halt /\ Interrupt(Blocking(pcb))
  BY <1>1, <1>2, <1>6, BlockingSets
<1>7. ASSUME Running # Halt, PidsLeft(1), NEW priority \in AnyPriority,
             \/ pcb' = CreateProcess(pcb, priority)
             \/ Interrupt(Blocking(CreateProcess(pcb, priority)))
      PROVE  HaltLowest'
  <2> DEFINE u == CreateProcess(pcb, priority)
  <2>1. /\ u \in Table
        /\ WellPlaced(u)
        /\ u.running = pcb.running
        /\ u.proc[Halt].priority = 0
    BY <1>1, <1>3, <1>7, CreateSets
  <2>2. pcb' = u \/ Interrupt(Blocking(u))
    BY <1>7
  <2> HIDE DEF u
  <2> QED
    BY <1>1, <1>2, <1>7, <2>1, <2>2, BlockingSets DEF HaltLowest
<1>8. CASE /\ Running # Halt /\ PidsLeft(2)
           /\ Interrupt(Blocking(CreateProcess(CreateProcess(pcb, 0), 0)))
  <2> DEFINE u == CreateProcess(pcb, 0)
             w == CreateProcess(u, 0)
  <2>1. /\ u \in Table
        /\ WellPlaced(u)
        /\ u.running = pcb.running
        /\ u.proc[Halt].priority = 0
    BY <1>1, <1>3, <1>8, CreateSets
  <2>2. u.nextPid \in Pid
    BY <1>8, CreateKeeps DEF SInv
  <2>3. Interrupt(Blocking(w))
    BY <1>8
  <2> HIDE DEF u
  <2>4. /\ w \in Table
        /\ WellPlaced(w)
        /\ w.running = pcb.running
        /\ w.proc[Halt].priority = 0
    BY <2>1, <2>2, CreateSets
  <2> HIDE DEF w
  <2> QED
    BY <1>1, <1>2, <1>8, <2>3, <2>4, BlockingSets
<1>9. ASSUME Running # Halt, NEW pid \in Pid, NEW priority \in AnyPriority,
             pcb' = ChangePriority(pcb, pid, priority)
      PROVE  HaltLowest'
  <2>1. CASE pid # Halt
    BY <1>1, <1>9, <2>1, PidNat, ChangePriorityWellPlaced DEF HaltLowest
  <2>2. CASE pid = Halt
    <3>1. ~ IsBlocked(pcb, Halt) /\ ~ IsReady(pcb, Halt) /\ pcb.running # Halt
      BY <1>1, <1>9, PidNat, Waiting
    <3>2. pcb' = pcb
      BY <1>9, <2>2, <3>1 DEF ChangePriority, CanChangePriority
    <3> QED
      BY <1>1, <3>2 DEF HaltLowest
  <2> QED
    BY <2>1, <2>2
<1>10. ASSUME NEW pid \in Pid,
              pcb' = BlockReady(pcb, pid) \/ pcb' = Unblock(pcb, pid)
       PROVE  HaltLowest'
  <2>1. SameStructs(pcb, BlockReady(pcb, pid)) /\ SameStructs(pcb, Unblock(pcb, pid))
    BY <1>1, BlockReadyEffect, UnblockEffect
  <2> QED
    BY <1>1, <1>10, <2>1, PidNat DEF SameStructs, HaltLowest
<1>11. ASSUME NEW pid \in Pid, pcb' = KillOther(pcb, pid)
       PROVE  HaltLowest'
  BY <1>1, <1>11, PidNat, KillOtherEffect DEF HaltLowest
<1> QED
  BY <1>4, <1>5, <1>6, <1>7, <1>8, <1>9, <1>10, <1>11, StepKinds DEF SInv

LEMMA SInvariant == Spec => []SInv
<1>1. Init => SInv
  BY InitIInv, InitHaltLowest DEF SInv
<1>2. SInv /\ [Next]_vars => SInv'
  <2> SUFFICES ASSUME SInv, [Next]_vars PROVE SInv'
    OBVIOUS
  <2>1. IInv'
    BY StepIInv DEF SInv
  <2>2. CASE UNCHANGED vars
    BY <2>1, <2>2 DEF SInv, HaltLowest, vars
  <2> QED
    BY <2>1, <2>2, StepHaltLowest DEF SInv
<1> QED
  BY <1>1, <1>2, PTL DEF Spec

-----------------------------------------------------------------------------
(* The steps of CpuSharing. *)

LEMMA SameCardinality ==
  ASSUME NEW S
  PROVE  Sharing!Cardinality(S) = Cardinality(S)
BY DEF Cardinality, Sharing!Cardinality

LEMMA UpToOne ==
  ASSUME NEW S, NEW A \in AtMostOne(S)
  PROVE  A \in Sharing!UpTo(1, S)
<1>1. Cardinality({}) = 0
  BY FS_EmptySet
<1>2. \A x : Cardinality({x}) = 1
  BY FS_Singleton
<1>3. A \in SUBSET S /\ Cardinality(A) <= 1
  BY <1>1, <1>2, SMTT(30) DEF AtMostOne
<1> QED
  BY <1>3, SameCardinality DEF Sharing!UpTo

LEMMA UpToTwo ==
  ASSUME NEW S, NEW A \in AtMostOne(S), NEW B \in AtMostOne(S)
  PROVE  A \cup B \in Sharing!UpTo(2, S)
<1>1. IsFiniteSet({}) /\ Cardinality({}) = 0
  BY FS_EmptySet
<1>2. \A x : IsFiniteSet({x}) /\ Cardinality({x}) = 1
  BY FS_Singleton
<1>3. ASSUME NEW x, NEW y
      PROVE  Cardinality({x} \cup {y}) <= 2
  <2>1. Cardinality({x} \cup {y}) = IF y \in {x} THEN Cardinality({x}) ELSE Cardinality({x}) + 1
    BY <1>2, FS_AddElement
  <2>2. Cardinality({x}) = 1
    BY <1>2
  <2>3. Cardinality({x} \cup {y}) \in {1, 2}
    <3>1. CASE y \in {x}
      BY <2>1, <2>2, <3>1
    <3>2. CASE y \notin {x}
      BY <2>1, <2>2, <3>2
    <3> QED
      BY <3>1, <3>2
  <2> QED
    BY <2>3
<1>4. A \cup B \in SUBSET S
  BY DEF AtMostOne
<1>5. Cardinality(A \cup B) <= 2
  <2>1. CASE A = {} \/ B = {}
    <3>1. A \cup B = A \/ A \cup B = B
      BY <2>1
    <3>2. \A C \in AtMostOne(S) : Cardinality(C) <= 2
      BY <1>1, <1>2 DEF AtMostOne
    <3> QED
      BY <3>1, <3>2
  <2>2. CASE A # {} /\ B # {}
    <3>1. PICK x, y : A = {x} /\ B = {y}
      BY <2>2 DEF AtMostOne
    <3> QED
      BY <1>3, <3>1
  <2> QED
    BY <2>1, <2>2
<1> QED
  BY <1>4, <1>5, SameCardinality DEF Sharing!UpTo

\* Pids that nextPid has not reached are free to be taken.
LEMMA Unused ==
  ASSUME NEW t \in Table, WellPlaced(t), NEW p \in Pid, p >= t.nextPid
  PROVE  p \notin {Halt, t.running} \cup Rdy(t) \cup Blk(t) \cup Gone(t)
<1>1. p \in Nat /\ t.nextPid \in Nat /\ ~ IsLive(t, p)
  BY PidNat, TableFields DEF WellPlaced
<1>2. p \notin Gone(t)
  BY <1>1 DEF Gone
<1>3. p \notin {Halt, t.running} \cup Rdy(t) \cup Blk(t)
  BY <1>1, Lists DEF WellPlaced, IsLive
<1> QED
  BY <1>2, <1>3

LEMMA IsRelease ==
  ASSUME NEW r, NEW late, Chosen(pcb', r, late)
  PROVE  Sharing!Release(r, late)
BY DEF Chosen, Sharing!Release, Rdy, Running

LEMMA IsTick ==
  ASSUME NEW late \in AtMostOne(Blk(pcb)),
         Blk(pcb') = Blk(pcb) \ late,
         Gone(pcb') = Gone(pcb),
         Running = Halt => Chosen(pcb', Rdy(pcb), late),
         Running # Halt => KeptOrGiven(pcb, pcb', Rdy(pcb), late)
  PROVE  Sharing!Tick
<1>1. late \in Sharing!UpTo(1, Blk(pcb))
  BY UpToOne
<1>2. CASE Running = Halt
  <2>1. Sharing!Release(Rdy(pcb), late)
    BY <1>2, IsRelease
  <2> QED
    BY <1>1, <1>2, <2>1 DEF Sharing!Tick, Rdy, Blk, Gone
<1>3. CASE Running # Halt
  <2>1. \/ Running' = Running /\ Rdy(pcb') = Rdy(pcb) \cup late
        \/ \E p \in Rdy(pcb) :
             Running' = p /\ Rdy(pcb') = (Rdy(pcb) \ {p}) \cup {Running} \cup late
    BY <1>3 DEF KeptOrGiven, Running
  <2> QED
    BY <1>1, <1>3, <2>1 DEF Sharing!Tick, Rdy, Blk, Gone
<1> QED
  BY <1>2, <1>3

LEMMA IsSpawnAndBlock ==
  ASSUME Running # Halt,
         NEW born \in Sharing!UpTo(2, Sharing!Unborn),
         NEW late \in AtMostOne(Blk(pcb) \cup {Running}),
         Blk(pcb') = (Blk(pcb) \cup {Running}) \ late,
         Gone(pcb') = Gone(pcb),
         Chosen(pcb', Rdy(pcb) \cup born, late)
  PROVE  Sharing!SpawnAndBlock
<1>1. late \in Sharing!UpTo(1, Blk(pcb) \cup {Running})
  BY UpToOne
<1>2. Sharing!Release(Rdy(pcb) \cup born, late)
  BY IsRelease
<1> QED
  BY <1>1, <1>2 DEF Sharing!SpawnAndBlock, Rdy, Blk, Gone

LEMMA IsDie ==
  ASSUME Running # Halt,
         NEW parent \in AtMostOne(Blk(pcb)),
         NEW late \in AtMostOne(Blk(pcb) \ parent),
         Blk(pcb') = Blk(pcb) \ (parent \cup late),
         Gone(pcb') = Gone(pcb) \cup {Running},
         Chosen(pcb', Rdy(pcb) \cup parent, late)
  PROVE  Sharing!Die
<1>1. parent \in Sharing!UpTo(1, Blk(pcb)) /\ late \in Sharing!UpTo(1, Blk(pcb) \ parent)
  BY UpToOne
<1>2. Sharing!Release(Rdy(pcb) \cup parent, late)
  BY IsRelease
<1> QED
  BY <1>1, <1>2 DEF Sharing!Die, Rdy, Blk, Gone

\* An interrupt that finds a process that has just blocked, born being the children it
\* has created before.
LEMMA BlockingStep ==
  ASSUME SInv, Running # Halt,
         NEW u \in Table, WellPlaced(u), u.running = Running, u.proc[Halt].priority = 0,
         NEW born \in Sharing!UpTo(2, Sharing!Unborn),
         Rdy(u) = Rdy(pcb) \cup born, Blk(u) = Blk(pcb), Gone(u) = Gone(pcb),
         Interrupt(Blocking(u))
  PROVE  Sharing!SpawnAndBlock
<1> DEFINE b == Blocking(u)
<1>1. /\ b \in Table
      /\ WellPlaced(b)
      /\ ~ OnCpu(b)
      /\ b.proc[Halt].priority = 0
      /\ Stopped(b) = {Running}
      /\ Died(b) = {}
      /\ Rdy(b) = Rdy(pcb) \cup born
      /\ Blk(b) = Blk(pcb)
      /\ Gone(b) = Gone(pcb)
  BY BlockingSets
<1> HIDE DEF b
<1>2. PICK s \in Seq(SleepEntry) : pcb' = WakeDue(PriorityScheduler(b), s)
  BY DEF Interrupt, b
<1>3. PICK late \in AtMostOne(Blk(b) \cup Stopped(b)) :
        /\ Blk(pcb') = (Blk(b) \cup Stopped(b)) \ late
        /\ Chosen(pcb', Rdy(b), late)
  BY <1>1, <1>2, InterruptSets
<1>4. Gone(pcb') = Gone(pcb) \cup {}
  BY <1>1, <1>2, InterruptGone
<1>5. /\ late \in AtMostOne(Blk(pcb) \cup {Running})
      /\ Blk(pcb') = (Blk(pcb) \cup {Running}) \ late
      /\ Gone(pcb') = Gone(pcb)
      /\ Chosen(pcb', Rdy(pcb) \cup born, late)
  BY <1>1, <1>3, <1>4
<1> QED
  BY <1>5, IsSpawnAndBlock

LEMMA DyingStep ==
  ASSUME SInv, Running # Halt, NEW u \in {KillRunning(pcb), ExitRunning(pcb)}, Interrupt(u)
  PROVE  Sharing!Die
<1>1. /\ pcb \in Table
      /\ WellPlaced(pcb)
      /\ Running = pcb.running
      /\ pcb.proc[Halt].priority = 0
  BY IInvFacts DEF SInv, HaltLowest
<1>2. /\ u \in Table
      /\ WellPlaced(u)
      /\ ~ OnCpu(u)
      /\ u.proc[Halt].priority = 0
      /\ Stopped(u) = {}
      /\ Died(u) = {Running}
      /\ Gone(u) = Gone(pcb)
  BY <1>1, DyingSets
<1>3. PICK parent \in AtMostOne(Blk(pcb)) :
        Rdy(u) = Rdy(pcb) \cup parent /\ Blk(u) = Blk(pcb) \ parent
  BY <1>1, DyingSets
<1>4. PICK s \in Seq(SleepEntry) : pcb' = WakeDue(PriorityScheduler(u), s)
  BY DEF Interrupt
<1>5. PICK late \in AtMostOne(Blk(u) \cup Stopped(u)) :
        /\ Blk(pcb') = (Blk(u) \cup Stopped(u)) \ late
        /\ Chosen(pcb', Rdy(u), late)
  BY <1>2, <1>4, InterruptSets
<1>6. Gone(pcb') = Gone(pcb) \cup {Running}
  BY <1>2, <1>4, InterruptGone
<1>7. Blk(u) \cup Stopped(u) = Blk(pcb) \ parent
  BY <1>2, <1>3
<1>8. /\ late \in AtMostOne(Blk(pcb) \ parent)
      /\ Blk(pcb') = Blk(pcb) \ (parent \cup late)
      /\ Chosen(pcb', Rdy(pcb) \cup parent, late)
  BY <1>3, <1>5, <1>7
<1> QED
  BY <1>6, <1>8, IsDie

\* A call that leaves the cpu where it is.
LEMMA SameSharing ==
  ASSUME pcb'.running = pcb.running, Rdy(pcb') = Rdy(pcb), Blk(pcb') = Blk(pcb),
         Gone(pcb') = Gone(pcb)
  PROVE  UNCHANGED Sharing!vars
BY DEF Sharing!vars, Running, Rdy, Blk, Gone

\* A change of one state moves one process.
LEMMA MovedSets ==
  ASSUME NEW t \in Table, WellPlaced(t), NEW u \in Table, WellPlaced(u),
         u.running = t.running, u.nextPid = t.nextPid,
         NEW pid \in Pid, pid \notin {t.running, Halt},
         NEW s \in {"READY", "BLOCKED"}, IsLive(t, pid),
         \A p \in Pid : u.proc[p].state = IF p = pid THEN s ELSE t.proc[p].state
  PROVE  /\ Rdy(u) = IF s = "READY" THEN Rdy(t) \cup {pid} ELSE Rdy(t) \ {pid}
         /\ Blk(u) = IF s = "READY" THEN Blk(t) \ {pid} ELSE Blk(t) \cup {pid}
         /\ Gone(u) = Gone(t)
<1>1. \A p \in Pid : /\ p \in Rdy(u) <=> IF p = pid THEN s = "READY" ELSE p \in Rdy(t)
                     /\ p \in Blk(u) <=> IF p = pid THEN s = "BLOCKED" ELSE p \in Blk(t)
  BY Lists
<1>2. \A p \in Pid : IsLive(u, p) <=> IsLive(t, p)
  BY DEF IsLive
<1>3. Rdy(u) = IF s = "READY" THEN Rdy(t) \cup {pid} ELSE Rdy(t) \ {pid}
  BY <1>1 DEF Rdy
<1>4. Blk(u) = IF s = "READY" THEN Blk(t) \ {pid} ELSE Blk(t) \cup {pid}
  BY <1>1 DEF Blk
<1> QED
  BY <1>2, <1>3, <1>4 DEF Gone

LEMMA SInvFacts ==
  ASSUME SInv
  PROVE  /\ pcb \in Table
         /\ WellPlaced(pcb)
         /\ OnCpu(pcb)
         /\ Running = pcb.running
         /\ Running \in Pid
         /\ pcb.proc[Halt].priority = 0
         /\ pcb.nextPid \in Nat
         /\ IInv
         /\ \A n \in {1, 2} : PidsLeft(n) => pcb.nextPid \in Pid
<1>1. \A n \in {1, 2} : PidsLeft(n) /\ pcb.nextPid \in Nat => pcb.nextPid \in Pid
  BY MaxPidAssumption DEF PidsLeft, Pid
<1> QED
  BY <1>1, IInvFacts DEF SInv, HaltLowest

LEMMA UnbornPids ==
  ASSUME SInv, NEW p \in Pid, p >= pcb.nextPid
  PROVE  p \in Sharing!Unborn
<1>1. p \notin {Halt, pcb.running} \cup Rdy(pcb) \cup Blk(pcb) \cup Gone(pcb)
  BY SInvFacts, Unused
<1> QED
  BY <1>1 DEF Sharing!Unborn, Sharing!OnCpu, Running, Rdy, Blk, Gone

\* An interrupt that finds the process on the cpu still there.
LEMMA TickStep ==
  ASSUME SInv, Interrupt(pcb)
  PROVE  Sharing!Tick
<1>1. /\ pcb \in Table
      /\ WellPlaced(pcb)
      /\ OnCpu(pcb)
      /\ pcb.proc[Halt].priority = 0
      /\ Running = pcb.running
  BY SInvFacts
<1>2. Stopped(pcb) = {} /\ Died(pcb) = {}
  BY <1>1 DEF OnCpu, Stopped, Died
<1>3. PICK s \in Seq(SleepEntry) : pcb' = WakeDue(PriorityScheduler(pcb), s)
  BY DEF Interrupt
<1>4. PICK late \in AtMostOne(Blk(pcb) \cup Stopped(pcb)) :
        /\ Blk(pcb') = (Blk(pcb) \cup Stopped(pcb)) \ late
        /\ OnCpu(pcb) /\ pcb.running # Halt => KeptOrGiven(pcb, pcb', Rdy(pcb), late)
        /\ pcb.running = Halt \/ ~ OnCpu(pcb) => Chosen(pcb', Rdy(pcb), late)
  BY <1>1, <1>3, InterruptSets
<1>5. Gone(pcb') = Gone(pcb) \cup Died(pcb)
  BY <1>1, <1>3, InterruptGone
<1>6. /\ late \in AtMostOne(Blk(pcb))
      /\ Blk(pcb') = Blk(pcb) \ late
      /\ Gone(pcb') = Gone(pcb)
  BY <1>2, <1>4, <1>5
<1> QED
  BY <1>1, <1>4, <1>6, IsTick

\* createProcess by the running process of what then runs on.
LEMMA SpawnStep ==
  ASSUME SInv, Running # Halt, PidsLeft(1), NEW priority, pcb' = CreateProcess(pcb, priority)
  PROVE  Sharing!Spawn
<1>1. PICK born \in AtMostOne({pcb.nextPid}) :
        /\ pcb'.running = pcb.running
        /\ Rdy(pcb') = Rdy(pcb) \cup born
        /\ Blk(pcb') = Blk(pcb)
        /\ Gone(pcb') = Gone(pcb)
  BY SInvFacts, CreateSets
<1>2. pcb.nextPid \in Sharing!Unborn
  BY SInvFacts, UnbornPids
<1>3. born \in AtMostOne(Sharing!Unborn)
  BY <1>1, <1>2 DEF AtMostOne
<1>4. {} \in AtMostOne(Sharing!Unborn) /\ born \cup {} = born
  BY DEF AtMostOne
<1>5. born \in Sharing!UpTo(2, Sharing!Unborn)
  BY <1>3, <1>4, UpToTwo
<1> QED
  BY <1>1, <1>5 DEF Sharing!Spawn, Running, Rdy, Blk, Gone

LEMMA ForegroundIsSpawn ==
  ASSUME SInv, Running # Halt, PidsLeft(1), NEW priority,
         Interrupt(Blocking(CreateProcess(pcb, priority)))
  PROVE  Sharing!SpawnAndBlock
<1> DEFINE u == CreateProcess(pcb, priority)
<1>1. PICK born \in AtMostOne({pcb.nextPid}) :
        /\ u \in Table
        /\ WellPlaced(u)
        /\ u.running = pcb.running
        /\ u.proc[Halt].priority = 0
        /\ Rdy(u) = Rdy(pcb) \cup born
        /\ Blk(u) = Blk(pcb)
        /\ Gone(u) = Gone(pcb)
  BY SInvFacts, CreateSets
<1>2. pcb.nextPid \in Sharing!Unborn
  BY SInvFacts, UnbornPids
<1>3. born \in AtMostOne(Sharing!Unborn)
  BY <1>1, <1>2 DEF AtMostOne
<1>4. {} \in AtMostOne(Sharing!Unborn) /\ born \cup {} = born
  BY DEF AtMostOne
<1>5. born \in Sharing!UpTo(2, Sharing!Unborn)
  BY <1>3, <1>4, UpToTwo
<1>6. Interrupt(Blocking(u)) /\ u.running = Running
  BY <1>1, SInvFacts
<1> HIDE DEF u
<1> QED
  BY <1>1, <1>5, <1>6, BlockingStep

LEMMA PipedIsSpawn ==
  ASSUME SInv, Running # Halt, PidsLeft(2),
         Interrupt(Blocking(CreateProcess(CreateProcess(pcb, 0), 0)))
  PROVE  Sharing!SpawnAndBlock
<1> DEFINE u == CreateProcess(pcb, 0)
           w == CreateProcess(u, 0)
<1>1. PICK born \in AtMostOne({pcb.nextPid}) :
        /\ u \in Table
        /\ WellPlaced(u)
        /\ u.running = pcb.running
        /\ u.nextPid >= pcb.nextPid
        /\ u.proc[Halt].priority = 0
        /\ Rdy(u) = Rdy(pcb) \cup born
        /\ Blk(u) = Blk(pcb)
        /\ Gone(u) = Gone(pcb)
  BY SInvFacts, CreateSets
<1>2. u.nextPid \in Pid
  BY CreateKeeps DEF SInv
<1>3. Interrupt(Blocking(w))
  OBVIOUS
<1> HIDE DEF u
<1>4. PICK second \in AtMostOne({u.nextPid}) :
        /\ w \in Table
        /\ WellPlaced(w)
        /\ w.running = u.running
        /\ w.proc[Halt].priority = 0
        /\ Rdy(w) = Rdy(u) \cup second
        /\ Blk(w) = Blk(u)
        /\ Gone(w) = Gone(u)
  BY <1>1, <1>2, CreateSets
<1> HIDE DEF w
<1>5. pcb.nextPid \in Sharing!Unborn /\ u.nextPid \in Sharing!Unborn
  BY <1>1, <1>2, SInvFacts, UnbornPids
<1>6. born \in AtMostOne(Sharing!Unborn) /\ second \in AtMostOne(Sharing!Unborn)
  BY <1>1, <1>4, <1>5 DEF AtMostOne
<1>7. born \cup second \in Sharing!UpTo(2, Sharing!Unborn)
  BY <1>6, UpToTwo
<1>8. /\ w.running = Running
      /\ Rdy(w) = Rdy(pcb) \cup (born \cup second)
      /\ Blk(w) = Blk(pcb)
      /\ Gone(w) = Gone(pcb)
  BY <1>1, <1>4, SInvFacts
<1> QED
  BY <1>3, <1>4, <1>7, <1>8, BlockingStep

LEMMA BlockIsSpawn ==
  ASSUME SInv, Running # Halt, Interrupt(Blocking(pcb))
  PROVE  Sharing!SpawnAndBlock
<1>1. {} \in AtMostOne(Sharing!Unborn) /\ {} \cup {} = {}
  BY DEF AtMostOne
<1>2. {} \in Sharing!UpTo(2, Sharing!Unborn)
  BY <1>1, UpToTwo
<1>3. Rdy(pcb) = Rdy(pcb) \cup {}
  OBVIOUS
<1> QED
  BY <1>2, <1>3, SInvFacts, BlockingStep

LEMMA BlockStepOfSharing ==
  ASSUME SInv, NEW pid \in Pid, pcb' = BlockReady(pcb, pid)
  PROVE  Sharing!Block \/ UNCHANGED Sharing!vars
<1>1. /\ pcb' \in Table
      /\ WellPlaced(pcb')
      /\ pcb'.running = pcb.running
      /\ pcb'.nextPid = pcb.nextPid
      /\ \A p \in Pid : pcb'.proc[p].state = IF p = pid /\ IsReady(pcb, pid)
                                             THEN "BLOCKED" ELSE pcb.proc[p].state
  BY SInvFacts, BlockReadyEffect DEF SameStructs
<1>2. CASE ~ IsReady(pcb, pid)
  <2>1. pcb' = pcb
    BY <1>2 DEF BlockReady
  <2> QED
    BY <2>1, SameSharing
<1>3. CASE IsReady(pcb, pid)
  <2>1. pid \in Rdy(pcb) /\ pid \notin {pcb.running, Halt} /\ IsLive(pcb, pid)
    BY <1>3, SInvFacts DEF Rdy, WellPlaced, IsLive
  <2>2. \A p \in Pid : pcb'.proc[p].state = IF p = pid THEN "BLOCKED" ELSE pcb.proc[p].state
    BY <1>1, <1>3
  <2>3. /\ Rdy(pcb') = Rdy(pcb) \ {pid}
        /\ Blk(pcb') = Blk(pcb) \cup {pid}
        /\ Gone(pcb') = Gone(pcb)
    BY <1>1, <2>1, <2>2, SInvFacts, MovedSets
  <2> QED
    BY <1>1, <2>1, <2>3 DEF Sharing!Block, Running, Rdy, Blk, Gone
<1> QED
  BY <1>2, <1>3

LEMMA WakeStepOfSharing ==
  ASSUME SInv, NEW pid \in Pid, pcb' = Unblock(pcb, pid)
  PROVE  Sharing!Wake \/ UNCHANGED Sharing!vars
<1>1. /\ pcb' \in Table
      /\ WellPlaced(pcb')
      /\ pcb'.running = pcb.running
      /\ pcb'.nextPid = pcb.nextPid
      /\ \A p \in Pid : pcb'.proc[p].state = IF p = pid /\ IsBlocked(pcb, pid)
                                             THEN "READY" ELSE pcb.proc[p].state
  BY SInvFacts, UnblockEffect DEF SameStructs
<1>2. CASE ~ IsBlocked(pcb, pid)
  <2>1. pcb' = pcb
    BY <1>2 DEF Unblock
  <2> QED
    BY <2>1, SameSharing
<1>3. CASE IsBlocked(pcb, pid)
  <2>1. pid \in Blk(pcb) /\ pid \notin {pcb.running, Halt} /\ IsLive(pcb, pid)
    BY <1>3, SInvFacts DEF Blk, WellPlaced, IsLive
  <2>2. \A p \in Pid : pcb'.proc[p].state = IF p = pid THEN "READY" ELSE pcb.proc[p].state
    BY <1>1, <1>3
  <2>3. /\ Rdy(pcb') = Rdy(pcb) \cup {pid}
        /\ Blk(pcb') = Blk(pcb) \ {pid}
        /\ Gone(pcb') = Gone(pcb)
    BY <1>1, <2>1, <2>2, SInvFacts, MovedSets
  <2> QED
    BY <1>1, <2>1, <2>3 DEF Sharing!Wake, Running, Rdy, Blk, Gone
<1> QED
  BY <1>2, <1>3

LEMMA KillStepOfSharing ==
  ASSUME SInv, NEW pid \in Pid, pcb' = KillOther(pcb, pid)
  PROVE  Sharing!Kill \/ UNCHANGED Sharing!vars
<1> DEFINE parent == pcb.proc[pid].parentPID
           woken == IF parent # pid /\ parent \in Blk(pcb) THEN {parent} ELSE {}
<1>1. parent \in Pid /\ pcb \in Table /\ WellPlaced(pcb)
  BY SInvFacts, TableFields, ProcessFields
<1> HIDE DEF parent
<1>2. CASE ~ Killable(pcb, pid)
  <2>1. pcb' = pcb
    BY <1>2 DEF KillOther, Killable
  <2> QED
    BY <2>1, SameSharing
<1>3. CASE Killable(pcb, pid)
  <2>1. /\ pcb' \in Table
        /\ WellPlaced(pcb')
        /\ pcb'.running = pcb.running
        /\ pcb'.nextPid = pcb.nextPid
        /\ pid # pcb.running /\ pid # Halt /\ IsLive(pcb, pid)
        /\ pcb'.proc[pid].state = "FREE"
        /\ \A p \in Pid \ {pid} :
             pcb'.proc[p].state = IF p = parent /\ IsBlocked(pcb, p) THEN "READY"
                                  ELSE pcb.proc[p].state
    BY <1>1, <1>3, KillOtherEffect, SMTT(30) DEF parent
  <2>2. woken \in AtMostOne(Blk(pcb) \ {pid}) /\ woken \subseteq Pid
    BY <1>1 DEF AtMostOne, woken
  <2>3. \A p \in Pid \ {pid} :
          pcb'.proc[p].state = IF p \in woken THEN "READY" ELSE pcb.proc[p].state
    BY <1>1, <2>1 DEF woken, Blk
  <2>4. \A p \in woken : /\ p # pid /\ p # pcb.running /\ p # Halt
                         /\ p \in Blk(pcb)
                         /\ pcb.proc[p].state = "BLOCKED"
    BY <1>1, Lists DEF woken, WellPlaced
  <2> HIDE DEF woken
  <2>5. Rdy(pcb') = (Rdy(pcb) \ {pid}) \cup woken
    <3>1. \A p \in Pid : p \in Rdy(pcb') <=> (p \in Rdy(pcb) /\ p # pid) \/ p \in woken
      BY <1>1, <2>1, <2>3, <2>4, Lists
    <3> QED
      BY <2>2, <3>1 DEF Rdy
  <2>6. Blk(pcb') = Blk(pcb) \ (woken \cup {pid})
    <3>1. \A p \in Pid : p \in Blk(pcb') <=> p \in Blk(pcb) /\ p # pid /\ p \notin woken
      BY <1>1, <2>1, <2>3, <2>4, Lists
    <3> QED
      BY <3>1 DEF Blk
  <2>7. Gone(pcb') = Gone(pcb) \cup {pid}
    <3>1. pid < pcb.nextPid
      BY <1>1, <2>1, Born
    <3>2. \A p \in Pid : IsLive(pcb', p) <=> IsLive(pcb, p) /\ p # pid
      BY <2>1, <2>3, <2>4 DEF IsLive
    <3> QED
      BY <2>1, <3>1, <3>2 DEF Gone
  <2>8. pid \in Rdy(pcb) \cup Blk(pcb)
    BY <1>3 DEF Killable, Rdy, Blk
  <2>9. woken \in Sharing!UpTo(1, Blk(pcb) \ {pid})
    BY <2>2, UpToOne
  <2> QED
    BY <2>1, <2>5, <2>6, <2>7, <2>8, <2>9 DEF Sharing!Kill, Running, Rdy, Blk, Gone
<1> QED
  BY <1>2, <1>3

LEMMA PriorityStepOfSharing ==
  ASSUME SInv, NEW pid \in Pid, NEW priority, pcb' = ChangePriority(pcb, pid, priority)
  PROVE  UNCHANGED Sharing!vars
<1>1. /\ pcb' \in Table
      /\ WellPlaced(pcb')
      /\ pcb'.running = pcb.running
      /\ pcb'.nextPid = pcb.nextPid
      /\ \A p \in Pid : pcb'.proc[p].state = pcb.proc[p].state
  BY SInvFacts, ChangePriorityWellPlaced
<1>2. Rdy(pcb') = Rdy(pcb) /\ Blk(pcb') = Blk(pcb)
  <2>1. \A p \in Pid : /\ p \in Rdy(pcb') <=> p \in Rdy(pcb)
                       /\ p \in Blk(pcb') <=> p \in Blk(pcb)
    BY <1>1, SInvFacts, Lists
  <2> QED
    BY <2>1 DEF Rdy, Blk
<1>3. Gone(pcb') = Gone(pcb)
  BY <1>1 DEF Gone, IsLive
<1> QED
  BY <1>1, <1>2, <1>3, SameSharing

LEMMA InitSharing == Init => Sharing!Init
<1> SUFFICES ASSUME Init PROVE Sharing!Init
  OBVIOUS
<1>1. pcb \in Table /\ WellPlaced(pcb) /\ pcb.running = Console
  BY InitIInv, IInvFacts DEF Init
<1>2. pcb.blocked = <<>> /\ pcb.ready = [i \in Priority |-> <<>>] /\ pcb.nextPid = 2
  BY DEF Init
<1>3. \A p : ~ Contains(<<>>, p)
  BY DEF Contains
<1>4. Rdy(pcb) = {} /\ Blk(pcb) = {}
  BY <1>2, <1>3 DEF Rdy, Blk, IsReady, IsBlocked
<1>5. Gone(pcb) = {}
  <2>1. \A p \in Pid : p < 2 => p \in {Halt, Console}
    BY DEF Pid, Halt, Console
  <2>2. IsLive(pcb, Halt) /\ IsLive(pcb, Console)
    BY <1>1 DEF WellPlaced, IsLive
  <2> QED
    BY <1>2, <2>1, <2>2 DEF Gone
<1>6. Console \in Pid \ {Halt}
  BY PidNat DEF Console, Halt
<1> QED
  BY <1>1, <1>4, <1>5, <1>6 DEF Sharing!Init, Running, Rdy, Blk, Gone

LEMMA StepSharing == SInv /\ [Next]_vars => [Sharing!Next]_Sharing!vars
<1> SUFFICES ASSUME SInv, [Next]_vars PROVE [Sharing!Next]_Sharing!vars
  OBVIOUS
<1>1. CASE Interrupt(pcb)
  BY <1>1, TickStep DEF Sharing!Next
<1>2. CASE Running # Halt /\ (Interrupt(ExitRunning(pcb)) \/ Interrupt(KillRunning(pcb)))
  BY <1>2, DyingStep DEF Sharing!Next
<1>3. CASE Running # Halt /\ Interrupt(Blocking(pcb))
  BY <1>3, BlockIsSpawn DEF Sharing!Next
<1>4. ASSUME Running # Halt, PidsLeft(1), NEW priority \in AnyPriority,
             \/ pcb' = CreateProcess(pcb, priority)
             \/ Interrupt(Blocking(CreateProcess(pcb, priority)))
      PROVE  Sharing!Next
  BY <1>4, SpawnStep, ForegroundIsSpawn DEF Sharing!Next
<1>5. CASE /\ Running # Halt /\ PidsLeft(2)
           /\ Interrupt(Blocking(CreateProcess(CreateProcess(pcb, 0), 0)))
  BY <1>5, PipedIsSpawn DEF Sharing!Next
<1>6. ASSUME NEW pid \in Pid, NEW priority \in AnyPriority,
             pcb' = ChangePriority(pcb, pid, priority)
      PROVE  UNCHANGED Sharing!vars
  BY <1>6, PriorityStepOfSharing
<1>7. ASSUME NEW pid \in Pid,
             \/ pcb' = BlockReady(pcb, pid)
             \/ pcb' = Unblock(pcb, pid)
             \/ pcb' = KillOther(pcb, pid)
      PROVE  [Sharing!Next]_Sharing!vars
  BY <1>7, BlockStepOfSharing, WakeStepOfSharing, KillStepOfSharing DEF Sharing!Next
<1>8. CASE UNCHANGED vars
  <2>1. pcb' = pcb
    BY <1>8 DEF vars
  <2> QED
    BY <2>1, SameSharing
<1> QED
  BY <1>1, <1>2, <1>3, <1>4, <1>5, <1>6, <1>7, <1>8, SInvFacts, StepKinds

\* The scheduler shares the cpu as CpuSharing promises, step by step: every step of the
\* queues, levels and lists is one of its steps or leaves the sets of processes alone.
THEOREM SchedulerSharesCpu == Spec => SharesCpu
BY InitSharing, StepSharing, SInvariant, PTL DEF Spec, SharesCpu, Sharing!Spec

-----------------------------------------------------------------------------
(* Counting processes. *)

Live(t) == {p \in Pid \ {Halt} : IsLive(t, p)}

LEMMA FinitePids ==
  ASSUME NEW S, S \subseteq Pid
  PROVE  IsFiniteSet(S) /\ Cardinality(S) \in Nat
<1>1. IsFiniteSet(Pid)
  BY MaxPidAssumption, FS_Interval DEF Pid
<1> QED
  BY <1>1, FS_Subset, FS_CardinalityType

CountRight(t) == t.processCount = Cardinality(Live(t))

\* Nobody is created or dies.
LEMMA SameLive ==
  ASSUME NEW t, NEW u, \A p \in Pid : IsLive(u, p) <=> IsLive(t, p)
  PROVE  Live(u) = Live(t)
BY DEF Live

LEMMA CreateCounts ==
  ASSUME NEW t \in Table, WellPlaced(t), t.nextPid \in Pid, CountRight(t), NEW priority
  PROVE  CountRight(CreateProcess(t, priority))
<1> DEFINE u == CreateProcess(t, priority)
<1>1. CASE priority \notin Priority
  BY <1>1, CreateEffect
<1>2. CASE priority \in Priority
  <2>1. /\ u.processCount = t.processCount + 1
        /\ \A p \in Pid :
             u.proc[p].state = IF p = t.nextPid THEN "READY" ELSE t.proc[p].state
    BY <1>2, CreateEffect
  <2> HIDE DEF u
  <2>2. t.nextPid \notin Live(t) /\ t.nextPid # Halt
    BY TableFields DEF WellPlaced, Live, IsLive
  <2>3. Live(u) = Live(t) \cup {t.nextPid}
    BY <2>1, <2>2 DEF Live, IsLive
  <2>4. IsFiniteSet(Live(t))
    BY FinitePids DEF Live
  <2>5. Cardinality(Live(u)) = Cardinality(Live(t)) + 1
    BY <2>2, <2>3, <2>4, FS_AddElement
  <2> QED
    BY <2>1, <2>5 DEF CountRight, u
<1> QED
  BY <1>1, <1>2

LEMMA KillOtherCounts ==
  ASSUME NEW t \in Table, WellPlaced(t), CountRight(t), NEW pid \in Pid
  PROVE  CountRight(KillOther(t, pid))
<1> DEFINE u == KillOther(t, pid)
           parent == t.proc[pid].parentPID
<1>1. CASE ~ Killable(t, pid)
  BY <1>1, KillOtherEffect
<1>2. CASE Killable(t, pid)
  <2>1. /\ pid # Halt /\ IsLive(t, pid)
        /\ u.processCount = t.processCount - 1
        /\ u.proc[pid].state = "FREE"
        /\ \A p \in Pid \ {pid} :
             u.proc[p].state = IF p = parent /\ IsBlocked(t, p) THEN "READY"
                               ELSE t.proc[p].state
    BY <1>2, KillOtherEffect
  <2> HIDE DEF u, parent
  <2>2. \A p \in Pid : IsLive(u, p) <=> IsLive(t, p) /\ p # pid
    BY <2>1 DEF IsLive, WellPlaced
  <2>3. pid \in Live(t) /\ Live(u) = Live(t) \ {pid}
    BY <2>1, <2>2 DEF Live
  <2>4. IsFiniteSet(Live(t))
    BY FinitePids DEF Live
  <2>5. Cardinality(Live(u)) = Cardinality(Live(t)) - 1
    BY <2>3, <2>4, FS_RemoveElement
  <2> QED
    BY <2>1, <2>5 DEF CountRight, u
<1> QED
  BY <1>1, <1>2

LEMMA InterruptCounts ==
  ASSUME NEW t \in Table, WellPlaced(t), t.proc[Halt].priority = 0, CountRight(t),
         Interrupt(t)
  PROVE  CountRight(pcb')
<1>1. /\ pcb'.processCount = IF t.proc[t.running].state = "EXITED"
                             THEN t.processCount - 1 ELSE t.processCount
      /\ \A p \in Pid : IsLive(pcb', p) <=> IsLive(t, p) /\ p \notin Died(t)
  BY InterruptGone DEF Interrupt
<1>2. CASE t.proc[t.running].state = "EXITED"
  <2>1. t.running \in Live(t)
    BY <1>2, TableFields DEF WellPlaced, Live
  <2>2. Live(pcb') = Live(t) \ {t.running}
    BY <1>1, <1>2 DEF Live, Died
  <2>3. IsFiniteSet(Live(t))
    BY FinitePids DEF Live
  <2>4. Cardinality(Live(pcb')) = Cardinality(Live(t)) - 1
    BY <2>1, <2>2, <2>3, FS_RemoveElement
  <2> QED
    BY <1>1, <1>2, <2>4 DEF CountRight
<1>3. CASE t.proc[t.running].state # "EXITED"
  <2>1. Live(pcb') = Live(t)
    BY <1>1, <1>3, SameLive DEF Died
  <2> QED
    BY <1>1, <1>3, <2>1 DEF CountRight
<1> QED
  BY <1>2, <1>3

LEMMA SameCounts ==
  ASSUME NEW t, NEW u, CountRight(t), u.processCount = t.processCount,
         \A p \in Pid : IsLive(u, p) <=> IsLive(t, p)
  PROVE  CountRight(u)
BY SameLive DEF CountRight

\* Who dies on the cpu is counted until priorityScheduler frees it.
LEMMA DyingCounts ==
  ASSUME NEW t \in Table, WellPlaced(t), t.running # Halt, CountRight(t),
         NEW u \in {KillRunning(t), ExitRunning(t)}
  PROVE  CountRight(u)
<1> DEFINE parent == t.proc[t.running].parentPID
<1>1. /\ u.processCount = t.processCount
      /\ \A p \in Pid :
           u.proc[p].state = IF p = t.running THEN "EXITED"
                             ELSE IF p = parent /\ IsBlocked(t, p) THEN "READY"
                             ELSE t.proc[p].state
  BY KillRunningEffect, ExitRunningEffect DEF SameStructs
<1> HIDE DEF parent
<1>2. \A p \in Pid : IsLive(u, p) <=> IsLive(t, p)
  BY <1>1 DEF IsLive, WellPlaced
<1> QED
  BY <1>1, <1>2, SameCounts

-----------------------------------------------------------------------------
(* Counting children.  L is who is alive; during an interrupt a process that *)
(* has exited is not, although its struct is still there.                    *)

Alive(t) == Live(t) \ Died(t)

Kids(t, L, p) == {c \in L : t.proc[c].parentPID = p}

\* Parents are older than their children, so a new process has none.
ParentsOlder(t, L) == \A p \in L : t.proc[p].parentPID < t.nextPid

KidsRight(t, L) ==
  /\ ParentsOlder(t, L)
  /\ \A p \in L : t.proc[p].kidsCount >= Cardinality(Kids(t, L, p))

\* As long as nobody is killed the counts are exact.
KidsExact(t, L) == \A p \in L : t.proc[p].kidsCount = Cardinality(Kids(t, L, p))

LEMMA SameKids ==
  ASSUME NEW t, NEW u, NEW L, KidsRight(t, L), u.nextPid = t.nextPid,
         \A p \in L : /\ u.proc[p].parentPID = t.proc[p].parentPID
                      /\ u.proc[p].kidsCount = t.proc[p].kidsCount
  PROVE  KidsRight(u, L) /\ (KidsExact(t, L) => KidsExact(u, L))
<1>1. \A p : Kids(u, L, p) = Kids(t, L, p)
  BY DEF Kids
<1> QED
  BY <1>1 DEF KidsRight, KidsExact, ParentsOlder

\* Process d is gone, and its parent counts one child less or as many as before.
LEMMA FewerKids ==
  ASSUME NEW t, NEW u, NEW L, L \subseteq Pid, KidsRight(t, L), u.nextPid = t.nextPid,
         NEW d \in L,
         \A p \in L \ {d} :
           /\ u.proc[p].parentPID = t.proc[p].parentPID
           /\ t.proc[p].kidsCount \in Int
           /\ \/ u.proc[p].kidsCount = t.proc[p].kidsCount
              \/ /\ p = t.proc[d].parentPID
                 /\ u.proc[p].kidsCount = t.proc[p].kidsCount - 1
  PROVE  /\ KidsRight(u, L \ {d})
         /\ /\ KidsExact(t, L)
            /\ \A p \in L \ {d} :
                 p = t.proc[d].parentPID => u.proc[p].kidsCount = t.proc[p].kidsCount - 1
            => KidsExact(u, L \ {d})
<1>1. ASSUME NEW p \in L \ {d}
      PROVE  /\ u.proc[p].kidsCount >= Cardinality(Kids(u, L \ {d}, p))
             /\ /\ KidsExact(t, L)
                /\ p = t.proc[d].parentPID => u.proc[p].kidsCount = t.proc[p].kidsCount - 1
                => u.proc[p].kidsCount = Cardinality(Kids(u, L \ {d}, p))
  <2>1. Kids(u, L \ {d}, p) = Kids(t, L, p) \ {d}
    BY DEF Kids
  <2>2. IsFiniteSet(Kids(t, L, p)) /\ Cardinality(Kids(t, L, p)) \in Nat
    BY FinitePids DEF Kids
  <2>3. Cardinality(Kids(u, L \ {d}, p)) =
          IF p = t.proc[d].parentPID THEN Cardinality(Kids(t, L, p)) - 1
          ELSE Cardinality(Kids(t, L, p))
    <3> DEFINE K == Kids(t, L, p)
    <3>1. d \in K <=> p = t.proc[d].parentPID
      BY DEF Kids
    <3>2. Kids(u, L \ {d}, p) = K \ {d} /\ IsFiniteSet(K)
      BY <2>1, <2>2
    <3> HIDE DEF K
    <3>3. Cardinality(K \ {d}) = IF d \in K THEN Cardinality(K) - 1 ELSE Cardinality(K)
      BY <3>2, FS_RemoveElement
    <3> QED
      BY <3>1, <3>2, <3>3 DEF K
  <2>4. /\ t.proc[p].kidsCount >= Cardinality(Kids(t, L, p))
        /\ KidsExact(t, L) => t.proc[p].kidsCount = Cardinality(Kids(t, L, p))
    BY DEF KidsRight, KidsExact
  <2> QED
    BY <2>2, <2>3, <2>4
<1>2. ParentsOlder(u, L \ {d})
  BY DEF KidsRight, ParentsOlder
<1> QED
  BY <1>1, <1>2 DEF KidsRight, KidsExact

LEMMA CreateKids ==
  ASSUME NEW t \in Table, WellPlaced(t), t.nextPid \in Pid, t.running # Halt,
         KidsRight(t, Live(t)), NEW priority
  PROVE  LET u == CreateProcess(t, priority)
         IN  KidsRight(u, Live(u)) /\ (KidsExact(t, Live(t)) => KidsExact(u, Live(u)))
<1> DEFINE u == CreateProcess(t, priority)
           n == t.nextPid
           r == t.running
<1>1. CASE priority \notin Priority
  BY <1>1, CreateEffect
<1>2. CASE priority \in Priority
  <2>1. /\ u.nextPid = n + 1
        /\ \A p \in Pid :
             /\ u.proc[p].state = IF p = n THEN "READY" ELSE t.proc[p].state
             /\ u.proc[p].parentPID = IF p = n THEN r ELSE t.proc[p].parentPID
             /\ u.proc[p].kidsCount = IF p = n THEN 0
                                      ELSE IF p = r THEN t.proc[p].kidsCount + 1
                                      ELSE t.proc[p].kidsCount
    BY <1>2, CreateEffect
  <2> HIDE DEF u
  <2>2. n \in Nat /\ r \in Pid /\ r \in Live(t) /\ r < n
    BY TableFields, Born DEF WellPlaced, Live
  <2>3. n \notin Live(t) /\ n # Halt
    BY TableFields DEF WellPlaced, Live, IsLive
  <2>4. Live(u) = Live(t) \cup {n} /\ Live(t) \subseteq Pid
    BY <2>1, <2>3 DEF Live, IsLive
  <2>5. \A p \in Live(t) : t.proc[p].kidsCount \in Int /\ t.proc[p].parentPID \in Nat
    BY <2>4, TableFields, ProcessFields, PidNat
  <2> DEFINE kids(p) == Kids(t, Live(t), p)
             after(p) == Kids(u, Live(u), p)
  <2>6. after(n) = {}
    BY <2>1, <2>2, <2>3, <2>4, <2>5 DEF Kids, KidsRight, ParentsOlder
  <2>7. \A p \in Live(t) : after(p) = IF p = r THEN kids(p) \cup {n} ELSE kids(p)
    BY <2>1, <2>3, <2>4 DEF Kids
  <2>8. \A p \in Live(t) : /\ n \notin kids(p)
                           /\ IsFiniteSet(kids(p))
                           /\ Cardinality(kids(p)) \in Nat
    BY <2>3, <2>4, FinitePids DEF Kids
  <2> HIDE DEF kids, after
  <2>9. Cardinality(after(r)) = Cardinality(kids(r)) + 1
    BY <2>2, <2>7, <2>8, FS_AddElement
  <2>10. ASSUME NEW p \in Live(u)
         PROVE  /\ u.proc[p].kidsCount >= Cardinality(after(p))
                /\ KidsExact(t, Live(t)) => u.proc[p].kidsCount = Cardinality(after(p))
    <3>1. CASE p = n
      <4>1. u.proc[p].kidsCount = 0
        BY <2>1, <3>1
      <4> QED
        BY <2>6, <3>1, <4>1, FS_EmptySet
    <3>2. CASE p = r
      <4>1. /\ t.proc[p].kidsCount >= Cardinality(kids(p))
            /\ KidsExact(t, Live(t)) => t.proc[p].kidsCount = Cardinality(kids(p))
        BY <2>2, <3>2 DEF KidsRight, KidsExact, kids
      <4>2. u.proc[p].kidsCount = t.proc[p].kidsCount + 1
        BY <2>1, <2>2, <2>3, <3>2
      <4> QED
        BY <2>2, <2>5, <2>8, <2>9, <3>2, <4>1, <4>2
    <3>3. CASE p \notin {n, r}
      <4>1. p \in Live(t) /\ u.proc[p].kidsCount = t.proc[p].kidsCount
        BY <2>1, <2>4, <2>10, <3>3
      <4> QED
        BY <2>7, <3>3, <4>1 DEF KidsRight, KidsExact, kids
    <3> QED
      BY <3>1, <3>2, <3>3
  <2>11. ParentsOlder(u, Live(u))
    <3> SUFFICES ASSUME NEW p \in Live(u) PROVE u.proc[p].parentPID < u.nextPid
      BY DEF ParentsOlder
    <3>1. CASE p = n
      <4>0. r \in Nat
        BY <2>2, PidNat
      <4>1. r < n + 1
        BY <2>2, <4>0
      <4> QED
        BY <2>1, <3>1, <4>1
    <3>2. CASE p # n
      <4>1. p \in Live(t) /\ u.proc[p].parentPID = t.proc[p].parentPID
        BY <2>1, <2>4, <3>2
      <4>2. t.proc[p].parentPID < n
        BY <4>1 DEF KidsRight, ParentsOlder
      <4> QED
        BY <2>1, <2>2, <2>5, <4>1, <4>2
    <3> QED
      BY <3>1, <3>2
  <2> QED
    BY <2>10, <2>11 DEF KidsRight, KidsExact, after, u
<1> QED
  BY <1>1, <1>2

LEMMA KillOtherKids ==
  ASSUME NEW t \in Table, WellPlaced(t), KidsRight(t, Live(t)), NEW pid \in Pid
  PROVE  LET u == KillOther(t, pid)
         IN  KidsRight(u, Live(u))
<1> DEFINE u == KillOther(t, pid)
           parent == t.proc[pid].parentPID
<1>1. CASE ~ Killable(t, pid)
  BY <1>1, KillOtherEffect
<1>2. CASE Killable(t, pid)
  <2>1. /\ pid # Halt /\ IsLive(t, pid)
        /\ u.nextPid = t.nextPid
        /\ u.proc[pid].state = "FREE"
        /\ \A p \in Pid \ {pid} :
             /\ u.proc[p].state = IF p = parent /\ IsBlocked(t, p) THEN "READY"
                                  ELSE t.proc[p].state
             /\ u.proc[p].parentPID = t.proc[p].parentPID
             /\ u.proc[p].kidsCount =
                  IF p = parent /\ IsLive(t, p) /\ p \notin {t.running, Halt}
                  THEN t.proc[p].kidsCount - 1 ELSE t.proc[p].kidsCount
    BY <1>2, KillOtherEffect
  <2> HIDE DEF u
  <2>2. \A p \in Pid : IsLive(u, p) <=> IsLive(t, p) /\ p # pid
    BY <2>1 DEF IsLive, WellPlaced
  <2>3. pid \in Live(t) /\ Live(u) = Live(t) \ {pid} /\ Live(t) \subseteq Pid
    BY <2>1, <2>2 DEF Live
  <2>4. \A p \in Live(t) \ {pid} : t.proc[p].kidsCount \in Int
    BY <2>3, TableFields, ProcessFields
  <2>5. KidsRight(u, Live(t) \ {pid})
    BY <2>1, <2>3, <2>4, FewerKids
  <2> QED
    BY <2>3, <2>5 DEF u
<1> QED
  BY <1>1, <1>2

LEMMA DyingKids ==
  ASSUME NEW t \in Table, WellPlaced(t), t.running # Halt, KidsRight(t, Live(t)),
         NEW u \in {KillRunning(t), ExitRunning(t)}
  PROVE  /\ KidsRight(u, Alive(u))
         /\ KidsExact(t, Live(t)) /\ u = ExitRunning(t) => KidsExact(u, Alive(u))
<1> DEFINE parent == t.proc[t.running].parentPID
<1>1. /\ u.running = t.running
      /\ u.nextPid = t.nextPid
      /\ \A p \in Pid :
           /\ u.proc[p].state = IF p = t.running THEN "EXITED"
                                ELSE IF p = parent /\ IsBlocked(t, p) THEN "READY"
                                ELSE t.proc[p].state
           /\ u.proc[p].parentPID = t.proc[p].parentPID
           /\ \/ u.proc[p].kidsCount = t.proc[p].kidsCount
              \/ p = parent /\ u.proc[p].kidsCount = t.proc[p].kidsCount - 1
  BY KillRunningEffect, ExitRunningEffect DEF SameStructs
<1>2. t.running \in Pid
  BY TableFields
<1>3. \A p \in Pid : IsLive(u, p) <=> IsLive(t, p)
  BY <1>1 DEF IsLive, WellPlaced
<1>4. Died(u) = {t.running}
  BY <1>1, <1>2 DEF Died
<1>5. /\ Alive(u) = Live(t) \ {t.running}
      /\ t.running \in Live(t)
      /\ Live(t) \subseteq Pid
  BY <1>2, <1>3, <1>4 DEF Alive, Live, WellPlaced
<1>6. \A p \in Live(t) \ {t.running} : t.proc[p].kidsCount \in Int
  BY <1>5, TableFields, ProcessFields
<1>7. \A p \in Live(t) \ {t.running} :
        /\ u.proc[p].parentPID = t.proc[p].parentPID
        /\ t.proc[p].kidsCount \in Int
        /\ \/ u.proc[p].kidsCount = t.proc[p].kidsCount
           \/ /\ p = t.proc[t.running].parentPID
              /\ u.proc[p].kidsCount = t.proc[p].kidsCount - 1
  BY <1>1, <1>5, <1>6
<1> HIDE DEF parent
<1> DEFINE L == Live(t)
           d == t.running
<1>8. /\ L \subseteq Pid /\ d \in L
      /\ KidsRight(t, L)
      /\ u.nextPid = t.nextPid
      /\ \A p \in L \ {d} :
           /\ u.proc[p].parentPID = t.proc[p].parentPID
           /\ t.proc[p].kidsCount \in Int
           /\ \/ u.proc[p].kidsCount = t.proc[p].kidsCount
              \/ /\ p = t.proc[d].parentPID
                 /\ u.proc[p].kidsCount = t.proc[p].kidsCount - 1
  BY <1>1, <1>5, <1>7
<1> HIDE DEF L, d
<1>9. KidsRight(u, L \ {d})
  BY <1>8, FewerKids, ZenonT(60)
<1>10. KidsExact(t, L) /\ u = ExitRunning(t) => KidsExact(u, L \ {d})
  <2>1. u = ExitRunning(t) =>
          \A p \in L \ {d} :
            p = t.proc[d].parentPID => u.proc[p].kidsCount = t.proc[p].kidsCount - 1
    <3>1. \A p \in L \ {d} : p \in Pid /\ IsLive(t, p) /\ p \notin {t.running, Halt}
      BY DEF L, d, Live
    <3> QED
      BY <3>1, ExitRunningEffect DEF d
  <2> QED
    BY <1>8, <2>1, FewerKids, ZenonT(60)
<1> QED
  BY <1>5, <1>9, <1>10 DEF L, d

LEMMA InterruptKids ==
  ASSUME NEW t \in Table, WellPlaced(t), t.proc[Halt].priority = 0,
         KidsRight(t, Alive(t)), Interrupt(t)
  PROVE  /\ KidsRight(pcb', Live(pcb'))
         /\ KidsExact(t, Alive(t)) => KidsExact(pcb', Live(pcb'))
<1>1. /\ pcb'.nextPid = t.nextPid
      /\ \A p \in Pid : /\ IsLive(pcb', p) <=> IsLive(t, p) /\ p \notin Died(t)
                        /\ IsLive(pcb', p) =>
                             /\ pcb'.proc[p].parentPID = t.proc[p].parentPID
                             /\ pcb'.proc[p].kidsCount = t.proc[p].kidsCount
  BY InterruptGone DEF Interrupt
<1>2. Live(pcb') = Alive(t)
  BY <1>1 DEF Live, Alive
<1>3. \A p \in Alive(t) : /\ pcb'.proc[p].parentPID = t.proc[p].parentPID
                          /\ pcb'.proc[p].kidsCount = t.proc[p].kidsCount
  BY <1>1 DEF Alive, Live
<1> QED
  BY <1>1, <1>2, <1>3, SameKids

CInv == SInv /\ CountRight(pcb) /\ KidsRight(pcb, Live(pcb))

LEMMA InitCounts == Init => CountRight(pcb) /\ KidsRight(pcb, Live(pcb))
<1> SUFFICES ASSUME Init PROVE CountRight(pcb) /\ KidsRight(pcb, Live(pcb))
  OBVIOUS
<1> DEFINE r == [FreeProcess EXCEPT !.state = "READY"]
           f == [p \in Pid |-> IF p \in {Halt, Console} THEN r ELSE FreeProcess]
           q == [i \in Priority |-> <<>>]
<1>1. [[p \in Pid |-> FreeProcess] EXCEPT ![Halt].state = "READY",
                                          ![Console].state = "READY"] = f
  BY PidNat
<1>2. /\ FreeProcess.state = "FREE"
      /\ r.state = "READY" /\ r.parentPID = Halt /\ r.kidsCount = 0
  BY DEF FreeProcess
<1> HIDE DEF r
<1>3. \A p \in Pid : f[p] = IF p \in {Halt, Console} THEN r ELSE FreeProcess
  OBVIOUS
<1> HIDE DEF f, q
<1>4. pcb = [running |-> Console, ready |-> q, blocked |-> <<>>, proc |-> f,
             processCount |-> 1, nextPid |-> 2]
  BY <1>1 DEF Init, q
<1>5. pcb.proc = f /\ pcb.processCount = 1 /\ pcb.nextPid = 2
  BY <1>4
<1>6. Live(pcb) = {Console}
  BY <1>2, <1>3, <1>5, PidNat DEF Live, IsLive
<1>7. CountRight(pcb)
  BY <1>5, <1>6, FS_Singleton DEF CountRight
<1>8. f[Console] = r
  BY <1>3, PidNat
<1>9. Kids(pcb, {Console}, Console) = {}
  BY <1>2, <1>5, <1>8, PidNat DEF Kids
<1>10. KidsRight(pcb, {Console})
  <2>1. Cardinality({}) = 0
    BY FS_EmptySet
  <2> QED
    BY <1>2, <1>5, <1>8, <1>9, <2>1 DEF KidsRight, ParentsOlder, Halt
<1> QED
  BY <1>6, <1>7, <1>10

\* Nobody is created or freed, and nobody's parent or count of children changes.
LEMMA SameCensus ==
  ASSUME NEW t, NEW u, CountRight(t), KidsRight(t, Live(t)),
         u.processCount = t.processCount, u.nextPid = t.nextPid,
         \A p \in Pid : /\ IsLive(u, p) <=> IsLive(t, p)
                        /\ u.proc[p].parentPID = t.proc[p].parentPID
                        /\ u.proc[p].kidsCount = t.proc[p].kidsCount
  PROVE  CountRight(u) /\ KidsRight(u, Live(u))
<1>1. Live(u) = Live(t) /\ Live(t) \subseteq Pid
  BY SameLive DEF Live
<1> QED
  BY <1>1, SameCounts, SameKids

LEMMA StepCounts ==
  ASSUME CInv, Next
  PROVE  CountRight(pcb') /\ KidsRight(pcb', Live(pcb'))
<1> DEFINE Right(t) == CountRight(t) /\ KidsRight(t, Live(t))
<1>1. /\ pcb \in Table
      /\ WellPlaced(pcb)
      /\ OnCpu(pcb)
      /\ pcb.running = Running
      /\ pcb.proc[Halt].priority = 0
      /\ \A n \in {1, 2} : PidsLeft(n) => pcb.nextPid \in Pid
      /\ Right(pcb)
  BY SInvFacts DEF CInv
<1> HIDE DEF Right
<1>2. ASSUME NEW t \in Table, WellPlaced(t), t.proc[Halt].priority = 0, CountRight(t),
             KidsRight(t, Alive(t)), Interrupt(t)
      PROVE  Right(pcb')
  BY <1>2, InterruptCounts, InterruptKids DEF Right
<1>3. ASSUME NEW t \in Table, WellPlaced(t), t.running # Halt, t.proc[Halt].priority = 0,
             Right(t), Interrupt(Blocking(t))
      PROVE  Right(pcb')
  <2> DEFINE b == Blocking(t)
  <2>1. /\ b \in Table
        /\ WellPlaced(b)
        /\ b.proc[Halt].priority = 0
        /\ SameStructs(t, b)
        /\ \A p \in Pid : IsLive(b, p) <=> IsLive(t, p)
        /\ Died(b) = {}
    BY <1>3, BlockingSets
  <2>2. Interrupt(b)
    BY <1>3
  <2> HIDE DEF b
  <2>3. CountRight(b) /\ KidsRight(b, Live(b))
    BY <1>3, <2>1, SameCensus DEF Right, SameStructs
  <2>4. Alive(b) = Live(b)
    BY <2>1 DEF Alive
  <2> QED
    BY <1>2, <2>1, <2>2, <2>3, <2>4
<1>4. ASSUME NEW t \in Table, WellPlaced(t), t.nextPid \in Pid, t.running # Halt,
             t.proc[Halt].priority = 0, Right(t), NEW priority
      PROVE  LET u == CreateProcess(t, priority)
             IN  /\ u \in Table
                 /\ WellPlaced(u)
                 /\ u.running = t.running
                 /\ u.proc[Halt].priority = 0
                 /\ Right(u)
  BY <1>4, CreateSets, CreateCounts, CreateKids DEF Right
<1>5. CASE Interrupt(pcb)
  <2>1. Alive(pcb) = Live(pcb)
    BY <1>1 DEF Alive, Died, OnCpu
  <2> QED
    BY <1>1, <1>2, <1>5, <2>1 DEF Right
<1>6. ASSUME Running # Halt, NEW u \in {ExitRunning(pcb), KillRunning(pcb)}, Interrupt(u)
      PROVE  Right(pcb')
  <2>1. u \in Table /\ WellPlaced(u) /\ u.proc[Halt].priority = 0
    BY <1>1, <1>6, DyingSets
  <2>2. CountRight(u) /\ KidsRight(u, Alive(u))
    BY <1>1, <1>6, DyingCounts, DyingKids DEF Right
  <2> QED
    BY <1>2, <1>6, <2>1, <2>2
<1>7. CASE Running # Halt /\ Interrupt(Blocking(pcb))
  BY <1>1, <1>3, <1>7 DEF Right
<1>8. ASSUME Running # Halt, PidsLeft(1), NEW priority \in AnyPriority,
             \/ pcb' = CreateProcess(pcb, priority)
             \/ Interrupt(Blocking(CreateProcess(pcb, priority)))
      PROVE  Right(pcb')
  <2> DEFINE u == CreateProcess(pcb, priority)
  <2>1. /\ u \in Table
        /\ WellPlaced(u)
        /\ u.running = pcb.running
        /\ u.proc[Halt].priority = 0
        /\ Right(u)
    BY <1>1, <1>4, <1>8
  <2>2. pcb' = u \/ Interrupt(Blocking(u))
    BY <1>8
  <2> HIDE DEF u
  <2> QED
    BY <1>1, <1>3, <1>8, <2>1, <2>2
<1>9. CASE /\ Running # Halt /\ PidsLeft(2)
           /\ Interrupt(Blocking(CreateProcess(CreateProcess(pcb, 0), 0)))
  <2> DEFINE u == CreateProcess(pcb, 0)
             w == CreateProcess(u, 0)
  <2>1. /\ u \in Table
        /\ WellPlaced(u)
        /\ u.running = pcb.running
        /\ u.proc[Halt].priority = 0
        /\ Right(u)
    BY <1>1, <1>4, <1>9
  <2>2. u.nextPid \in Pid
    BY <1>9, SInvFacts, CreateKeeps DEF CInv
  <2>3. Interrupt(Blocking(w))
    BY <1>9
  <2> HIDE DEF u
  <2>4. /\ w \in Table
        /\ WellPlaced(w)
        /\ w.running = u.running
        /\ w.proc[Halt].priority = 0
        /\ Right(w)
    BY <1>1, <1>4, <1>9, <2>1, <2>2
  <2> HIDE DEF w
  <2>5. Right(pcb')
    BY <1>1, <1>3, <1>9, <2>1, <2>3, <2>4
  <2> QED
    BY <2>5 DEF Right
<1>10. ASSUME NEW pid \in Pid, NEW priority \in AnyPriority,
              pcb' = ChangePriority(pcb, pid, priority)
       PROVE  Right(pcb')
  <2>1. /\ pcb'.processCount = pcb.processCount
        /\ pcb'.nextPid = pcb.nextPid
        /\ \A p \in Pid : /\ pcb'.proc[p].state = pcb.proc[p].state
                          /\ pcb'.proc[p].parentPID = pcb.proc[p].parentPID
                          /\ pcb'.proc[p].kidsCount = pcb.proc[p].kidsCount
    BY <1>1, <1>10, ChangePriorityWellPlaced
  <2> QED
    BY <1>1, <2>1, SameCensus DEF Right, IsLive
<1>11. ASSUME NEW pid \in Pid,
              pcb' = BlockReady(pcb, pid) \/ pcb' = Unblock(pcb, pid)
       PROVE  Right(pcb')
  <2> DEFINE Same(u) == /\ SameStructs(pcb, u)
                        /\ \A p \in Pid :
                             \/ u.proc[p].state = pcb.proc[p].state
                             \/ /\ IsBlocked(pcb, p) \/ IsReady(pcb, p)
                                /\ u.proc[p].state \in {"READY", "BLOCKED"}
  <2>1. Same(BlockReady(pcb, pid))
    BY <1>1, BlockReadyEffect
  <2>2. Same(Unblock(pcb, pid))
    BY <1>1, UnblockEffect
  <2>3. Same(pcb')
    <3> HIDE DEF Same
    <3> QED
      BY <1>11, <2>1, <2>2
  <2>4. \A p \in Pid : IsLive(pcb', p) <=> IsLive(pcb, p)
    BY <1>1, <2>3 DEF IsLive, WellPlaced
  <2> QED
    BY <1>1, <2>3, <2>4, SameCensus DEF Right, SameStructs
<1>12. ASSUME NEW pid \in Pid, pcb' = KillOther(pcb, pid)
       PROVE  Right(pcb')
  BY <1>1, <1>12, KillOtherCounts, KillOtherKids DEF Right
<1> QED
  BY <1>5, <1>6, <1>7, <1>8, <1>9, <1>10, <1>11, <1>12, SInvFacts, StepKinds DEF CInv, Right

LEMMA CInvariant == Spec => []CInv
<1>1. Init => CInv
  BY InitIInv, InitHaltLowest, InitCounts DEF CInv, SInv
<1>2. CInv /\ [Next]_vars => CInv'
  <2> SUFFICES ASSUME CInv, [Next]_vars PROVE CInv'
    OBVIOUS
  <2>1. SInv'
    <3>1. IInv'
      BY StepIInv DEF CInv, SInv
    <3> QED
      BY <3>1, StepHaltLowest DEF CInv, SInv, HaltLowest, vars
  <2>2. CASE UNCHANGED vars
    <3>1. pcb' = pcb
      BY <2>2 DEF vars
    <3> QED
      BY <2>1, <3>1 DEF CInv
  <2> QED
    BY <2>1, <2>2, StepCounts DEF CInv
<1> QED
  BY <1>1, <1>2, PTL DEF Spec

\* processCount follows every creation, kill and exit, so that the array of
\* getAllProcessInfo has room for every process, however many there are.
THEOREM ProcessesCounted == Spec => []ProcessCountExact
<1>1. CInv => ProcessCountExact
  BY DEF CInv, CountRight, Live, LivePids, ProcessCountExact
<1> QED
  BY <1>1, CInvariant, PTL

\* No order of creations, exits and kills makes a process count fewer children than it
\* has, so that wait() never turns away a parent of live children.
THEOREM ChildrenCounted == Spec => []KidsNeverUndercounted
<1>1. CInv => KidsNeverUndercounted
  <2>1. LivePids = Live(pcb)
    BY DEF LivePids, Live
  <2> QED
    BY <2>1 DEF CInv, KidsRight, Kids, KidsNeverUndercounted
<1> QED
  BY <1>1, CInvariant, PTL

-----------------------------------------------------------------------------
(* Deaths. *)

\* Whoever dies leaves the cpu by exit or by its own kill, or is killed where it waits.
LEMMA Deaths ==
  ASSUME SInv, Next, NEW c \in Pid, IsLive(pcb, c), ~ IsLive(pcb', c)
  PROVE  \/ /\ Running # Halt /\ c = Running
            /\ \E u \in {KillRunning(pcb), ExitRunning(pcb)} : Interrupt(u)
         \/ Killable(pcb, c) /\ pcb' = KillOther(pcb, c)
<1>1. /\ pcb \in Table
      /\ WellPlaced(pcb)
      /\ OnCpu(pcb)
      /\ pcb.running = Running
      /\ pcb.proc[Halt].priority = 0
      /\ \A n \in {1, 2} : PidsLeft(n) => pcb.nextPid \in Pid
  BY SInvFacts
\* An interrupt frees the process that has exited.
<1>2. ASSUME NEW t \in Table, WellPlaced(t), t.proc[Halt].priority = 0, Died(t) = {},
             IsLive(t, c), Interrupt(t)
      PROVE  FALSE
  BY <1>2, InterruptGone DEF Interrupt
<1>3. ASSUME NEW t \in Table, WellPlaced(t), t.running # Halt, t.proc[Halt].priority = 0,
             IsLive(t, c), Interrupt(Blocking(t))
      PROVE  FALSE
  <2> DEFINE b == Blocking(t)
  <2>1. /\ b \in Table
        /\ WellPlaced(b)
        /\ b.proc[Halt].priority = 0
        /\ IsLive(b, c)
        /\ Died(b) = {}
        /\ Interrupt(b)
    BY <1>3, BlockingSets
  <2> HIDE DEF b
  <2> QED
    BY <1>2, <2>1
<1>4. ASSUME NEW t \in Table, WellPlaced(t), t.nextPid \in Pid, t.proc[Halt].priority = 0,
             IsLive(t, c), NEW priority
      PROVE  LET u == CreateProcess(t, priority)
             IN  /\ u \in Table
                 /\ WellPlaced(u)
                 /\ u.running = t.running
                 /\ u.proc[Halt].priority = 0
                 /\ IsLive(u, c)
  <2> DEFINE u == CreateProcess(t, priority)
  <2>1. /\ u \in Table
        /\ WellPlaced(u)
        /\ u.running = t.running
        /\ u.proc[Halt].priority = 0
    BY <1>4, CreateSets
  <2>2. /\ priority \notin Priority => u = t
        /\ priority \in Priority =>
             u.proc[c].state = IF c = t.nextPid THEN "READY" ELSE t.proc[c].state
    BY <1>4, CreateEffect
  <2> HIDE DEF u
  <2>3. IsLive(u, c)
    BY <1>4, <2>2 DEF IsLive
  <2> QED
    BY <2>1, <2>3 DEF u
<1>5. ~ Interrupt(pcb)
  BY <1>1, <1>2 DEF Died, OnCpu
<1>6. Running # Halt => ~ Interrupt(Blocking(pcb))
  BY <1>1, <1>3
<1>7. ASSUME Running # Halt, PidsLeft(1), NEW priority \in AnyPriority,
             \/ pcb' = CreateProcess(pcb, priority)
             \/ Interrupt(Blocking(CreateProcess(pcb, priority)))
      PROVE  FALSE
  <2> DEFINE u == CreateProcess(pcb, priority)
  <2>1. /\ u \in Table
        /\ WellPlaced(u)
        /\ u.running = pcb.running
        /\ u.proc[Halt].priority = 0
        /\ IsLive(u, c)
    BY <1>1, <1>4, <1>7
  <2>2. pcb' = u \/ Interrupt(Blocking(u))
    BY <1>7
  <2> HIDE DEF u
  <2> QED
    BY <1>1, <1>3, <1>7, <2>1, <2>2
<1>8. ASSUME Running # Halt, PidsLeft(2),
             Interrupt(Blocking(CreateProcess(CreateProcess(pcb, 0), 0)))
      PROVE  FALSE
  <2> DEFINE u == CreateProcess(pcb, 0)
             w == CreateProcess(u, 0)
  <2>1. /\ u \in Table
        /\ WellPlaced(u)
        /\ u.running = pcb.running
        /\ u.proc[Halt].priority = 0
        /\ IsLive(u, c)
    BY <1>1, <1>4, <1>8
  <2>2. u.nextPid \in Pid
    BY <1>8, SInvFacts, CreateKeeps
  <2>3. Interrupt(Blocking(w))
    BY <1>8
  <2> HIDE DEF u
  <2>4. /\ w \in Table
        /\ WellPlaced(w)
        /\ w.running = u.running
        /\ w.proc[Halt].priority = 0
        /\ IsLive(w, c)
    BY <1>4, <2>1, <2>2
  <2> HIDE DEF w
  <2> QED
    BY <1>1, <1>3, <1>8, <2>1, <2>3, <2>4
<1>9. ASSUME NEW pid \in Pid, NEW priority \in AnyPriority,
             pcb' = ChangePriority(pcb, pid, priority)
      PROVE  FALSE
  BY <1>1, <1>9, ChangePriorityWellPlaced DEF IsLive
<1>10. ASSUME NEW pid \in Pid,
              pcb' = BlockReady(pcb, pid) \/ pcb' = Unblock(pcb, pid)
       PROVE  FALSE
  <2>1. IsLive(BlockReady(pcb, pid), c)
    BY <1>1, BlockReadyEffect DEF IsLive
  <2>2. IsLive(Unblock(pcb, pid), c)
    BY <1>1, UnblockEffect DEF IsLive
  <2> QED
    BY <1>10, <2>1, <2>2
<1>11. ASSUME NEW pid \in Pid, pcb' = KillOther(pcb, pid)
       PROVE  Killable(pcb, c) /\ pid = c
  <2>1. Killable(pcb, pid)
    BY <1>1, <1>11, KillOtherEffect
  <2>2. pid # c => pcb'.proc[c].state \in {"READY", pcb.proc[c].state}
    BY <1>1, <1>11, <2>1, KillOtherEffect
  <2> QED
    BY <2>1, <2>2 DEF IsLive
<1>12. ASSUME Running # Halt, NEW u \in {KillRunning(pcb), ExitRunning(pcb)}, Interrupt(u)
       PROVE  c = Running
  <2> DEFINE parent == pcb.proc[pcb.running].parentPID
  <2>1. u \in Table /\ WellPlaced(u) /\ u.proc[Halt].priority = 0 /\ Died(u) = {Running}
    BY <1>1, <1>12, DyingSets
  <2>2. u.proc[c].state = IF c = pcb.running THEN "EXITED"
                          ELSE IF c = parent /\ IsBlocked(pcb, c) THEN "READY"
                          ELSE pcb.proc[c].state
    BY <1>1, <1>12, KillRunningEffect, ExitRunningEffect
  <2>3. IsLive(u, c)
    BY <2>2 DEF IsLive
  <2>4. ~ IsLive(u, c) \/ c \in Died(u)
    BY <1>12, <2>1, InterruptGone DEF Interrupt
  <2> QED
    BY <2>1, <2>3, <2>4
<1> QED
  BY <1>5, <1>6, <1>7, <1>8, <1>9, <1>10, <1>11, <1>12, SInvFacts, StepKinds

\* After a death on the cpu the parent is not blocked, and the interrupt does not block it.
LEMMA ParentOfDying ==
  ASSUME SInv, SInv', Running # Halt, NEW u \in {KillRunning(pcb), ExitRunning(pcb)},
         Interrupt(u)
  PROVE  pcb'.proc[pcb.proc[Running].parentPID].state # "BLOCKED"
<1> DEFINE parent == pcb.proc[pcb.running].parentPID
<1>1. /\ pcb \in Table
      /\ WellPlaced(pcb)
      /\ pcb.running = Running
      /\ pcb.proc[Halt].priority = 0
      /\ parent \in Pid
  BY SInvFacts, TableFields, ProcessFields
<1>2. /\ u \in Table
      /\ WellPlaced(u)
      /\ u.proc[Halt].priority = 0
      /\ Stopped(u) = {}
  BY <1>1, DyingSets
<1>3. \A p \in Pid :
        u.proc[p].state = IF p = pcb.running THEN "EXITED"
                          ELSE IF p = parent /\ IsBlocked(pcb, p) THEN "READY"
                          ELSE pcb.proc[p].state
  BY <1>1, KillRunningEffect, ExitRunningEffect
<1> HIDE DEF parent
<1>4. u.proc[parent].state # "BLOCKED"
  BY <1>1, <1>3 DEF WellPlaced
<1>5. parent \notin Blk(u)
  BY <1>1, <1>2, <1>4, Lists
<1>6. Blk(pcb') \subseteq Blk(u)
  <2>1. PICK s \in Seq(SleepEntry) : pcb' = WakeDue(PriorityScheduler(u), s)
    BY DEF Interrupt
  <2>2. PICK late \in AtMostOne(Blk(u) \cup Stopped(u)) :
          Blk(pcb') = (Blk(u) \cup Stopped(u)) \ late
    BY <1>2, <2>1, InterruptSets
  <2> QED
    BY <1>2, <2>2
<1>7. WellPlaced(pcb') /\ OnCpu(pcb')
  BY DEF SInv, IInv, Placement, OnCpu, Running
<1>8. parent \notin Blk(pcb')
  BY <1>5, <1>6
<1>9. pcb'.proc[parent].state = "BLOCKED" => parent # pcb'.running
  BY <1>7 DEF OnCpu
<1> QED
  BY <1>1, <1>7, <1>8, <1>9, Lists DEF parent

\* No death, by exit, by suicide or by another's kill, leaves the parent blocked.
THEOREM ParentsAreWoken == Spec => ChildDeathWakesParent
<1>1. SInv /\ SInv' /\ [Next]_vars =>
        [\A c \in Pid :
           Dies(c) => pcb'.proc[pcb.proc[c].parentPID].state # "BLOCKED"]_vars
  <2> SUFFICES ASSUME SInv, SInv', Next, NEW c \in Pid, Dies(c)
               PROVE  pcb'.proc[pcb.proc[c].parentPID].state # "BLOCKED"
    OBVIOUS
  <2>1. IsLive(pcb, c) /\ ~ IsLive(pcb', c)
    BY DEF Dies, IsLive
  <2>2. CASE Killable(pcb, c) /\ pcb' = KillOther(pcb, c)
    <3> DEFINE parent == pcb.proc[c].parentPID
    <3>1. pcb \in Table /\ WellPlaced(pcb) /\ OnCpu(pcb) /\ parent \in Pid
      BY SInvFacts, TableFields, ProcessFields
    <3>2. /\ pcb'.proc[c].state = "FREE"
          /\ \A p \in Pid \ {c} :
               pcb'.proc[p].state = IF p = parent /\ IsBlocked(pcb, p) THEN "READY"
                                    ELSE pcb.proc[p].state
      BY <2>2, <3>1, KillOtherEffect
    <3> HIDE DEF parent
    <3>3. pcb.proc[parent].state = "BLOCKED" => IsBlocked(pcb, parent)
      BY <3>1 DEF WellPlaced, OnCpu
    <3>4. pcb'.proc[parent].state # "BLOCKED"
      BY <3>1, <3>2, <3>3
    <3> QED
      BY <3>4 DEF parent
  <2>3. ASSUME Running # Halt, NEW u \in {KillRunning(pcb), ExitRunning(pcb)},
               Interrupt(u), c = Running
        PROVE  pcb'.proc[pcb.proc[c].parentPID].state # "BLOCKED"
    BY <2>3, ParentOfDying
  <2> QED
    BY <2>1, <2>2, <2>3, Deaths
<1> QED
  BY <1>1, SInvariant, PTL DEF Spec, ChildDeathWakesParent

\* A set that the timer may wake has one member at most.
LEMMA OneAtMost ==
  ASSUME NEW S, S \subseteq Pid, NEW A \in Sharing!UpTo(1, S), NEW p \in A, NEW q \in A
  PROVE  p = q
<1>1. IsFiniteSet(A) /\ Cardinality(A) <= 1 /\ Cardinality(A) \in Nat
  BY FinitePids, SameCardinality DEF Sharing!UpTo
<1>2. Cardinality(A \ {p}) = Cardinality(A) - 1 /\ IsFiniteSet(A \ {p})
  BY <1>1, FS_RemoveElement
<1>3. Cardinality(A \ {p}) \in Nat
  BY <1>2, FS_CardinalityType
<1>4. Cardinality(A \ {p}) = 0
  BY <1>1, <1>2, <1>3
<1>5. A \ {p} = {}
  BY <1>2, <1>4, FS_EmptySet
<1> QED
  BY <1>5

\* CpuSharing leaves the cpu idle only if nobody is ready, so the scheduler does too.
THEOREM IdleOnlyIfNobodyReady == Spec => HaltOnlyWhenIdle
<1> DEFINE Idle == \A p, q \in Pid : IsReady(pcb', p) /\ IsReady(pcb', q)
                                       => p = q /\ ~ IsReady(pcb, p)
<1>1. ASSUME NEW r, Rdy(pcb) \subseteq r, NEW S, S \subseteq Pid,
             NEW late \in Sharing!UpTo(1, S), Running' = Halt, r \subseteq Pid \ {Halt},
             Sharing!Release(r, late)
      PROVE  Idle
  <2>1. r = {} /\ Rdy(pcb') = late
    BY <1>1 DEF Sharing!Release, Rdy, Running
  <2>2. \A p \in Pid : /\ ~ IsReady(pcb, p)
                       /\ IsReady(pcb', p) => p \in late
    BY <1>1, <2>1 DEF Rdy
  <2> QED
    BY <1>1, <2>2, OneAtMost
<1>2. ASSUME SInv
      PROVE  /\ Rdy(pcb) \subseteq Pid \ {Halt}
             /\ Sharing!Unborn \subseteq Pid \ {Halt}
             /\ Blk(pcb) \subseteq Pid \ {Halt}
             /\ Running \in Pid
  <2>1. Halt \notin Blk(pcb) /\ Halt \notin Rdy(pcb)
    BY <1>2, SInvFacts, PidNat DEF Rdy, Blk, WellPlaced
  <2> QED
    BY <1>2, <2>1, SInvFacts DEF Rdy, Blk, Sharing!Unborn
<1>3. ASSUME SInv, Sharing!Tick, Running' = Halt
      PROVE  Idle
  <2>1. PICK late \in Sharing!UpTo(1, Blk(pcb)) :
          \/ Running = Halt /\ Sharing!Release(Rdy(pcb), late)
          \/ Running # Halt /\ Running' = Running
          \/ \E p \in Rdy(pcb) : Running' = p
    BY <1>3 DEF Sharing!Tick, Rdy, Blk
  <2> QED
    BY <1>1, <1>2, <1>3, <2>1
<1>4. ASSUME SInv, Sharing!SpawnAndBlock, Running' = Halt
      PROVE  Idle
  <2>1. PICK born \in Sharing!UpTo(2, Sharing!Unborn),
             late \in Sharing!UpTo(1, Blk(pcb) \cup {Running}) :
          Sharing!Release(Rdy(pcb) \cup born, late)
    BY <1>4 DEF Sharing!SpawnAndBlock, Rdy, Blk
  <2>2. born \subseteq Sharing!Unborn
    BY DEF Sharing!UpTo
  <2> QED
    BY <1>1, <1>2, <1>4, <2>1, <2>2
<1>5. ASSUME SInv, Sharing!Die, Running' = Halt
      PROVE  Idle
  <2>1. PICK parent \in Sharing!UpTo(1, Blk(pcb)) :
          \E late \in Sharing!UpTo(1, Blk(pcb) \ parent) :
            Sharing!Release(Rdy(pcb) \cup parent, late)
    BY <1>5 DEF Sharing!Die, Rdy, Blk
  <2>2. parent \subseteq Blk(pcb)
    BY DEF Sharing!UpTo
  <2> QED
    BY <1>1, <1>2, <1>5, <2>1, <2>2
<1>6. ASSUME SInv, Next, TimerInterrupt \/ Running # Halt, Running' = Halt
      PROVE  Idle
  <2>1. CASE TimerInterrupt
    <3>1. Interrupt(pcb)
      BY <1>6, <2>1, SInvFacts, IInvFacts, FireIsInterrupt DEF TimerInterrupt
    <3> QED
      BY <1>3, <1>6, <3>1, TickStep
  <2>2. CASE Running # Halt
    <3>1. Sharing!Next \/ UNCHANGED Sharing!vars
      BY <1>6, StepSharing
    <3>2. ~ UNCHANGED Running
      BY <1>6, <2>2
    <3>3. Sharing!Tick \/ Sharing!SpawnAndBlock \/ Sharing!Die
      BY <3>1, <3>2 DEF Sharing!Next, Sharing!vars, Sharing!Spawn, Sharing!Block,
                        Sharing!Wake, Sharing!Kill
    <3> QED
      BY <1>3, <1>4, <1>5, <1>6, <3>3
  <2> QED
    BY <1>6, <2>1, <2>2
<1>7. SInv /\ [Next]_vars =>
        [(TimerInterrupt \/ Running # Halt) /\ Running' = Halt =>
           \A p, q \in Pid :
             IsReady(pcb', p) /\ IsReady(pcb', q) => p = q /\ ~IsReady(pcb, p)]_vars
  BY <1>6
<1> QED
  BY <1>7, SInvariant, PTL DEF Spec, HaltOnlyWhenIdle

-----------------------------------------------------------------------------
(* Orderly programs: somebody or something is left to wake each process that *)
(* is blocked.                                                               *)

WaitsForChild == {"wait", "create_foreground", "create_with_pipes"}

\* Who blocks in the given call with table t and timers s will be woken.
WillWake(t, s, call, p) ==
  /\ call \in WaitsForChild => Kids(t, Alive(t), p) # {}
  /\ call = "sleep" => EntriesOf(s, p) # {}

Minded(t, s) == \A p \in Blk(t) : WillWake(t, s, inCall[p], p)

OInv == CInv /\ KidsExact(pcb, Live(pcb)) /\ Minded(pcb, sleeped)

\* checkTimers unlinks no entry but the one that is due.
LEMMA CheckTimersKeeps ==
  ASSUME NEW s \in Seq(SleepEntry), NEW p, EntriesOf(s, p) # {},
         Due(s) # {} => s[Min(Due(s))].pid # p
  PROVE  EntriesOf(CheckTimers(s), p) # {}
<1> DEFINE m == Min(Due(s))
           r == CheckTimers(s)
<1>1. DOMAIN s = 1 .. Len(s) /\ Len(s) \in Nat
  BY EntryTypes
<1>2. PICK i \in 1 .. Len(s) : s[i].pid = p
  BY <1>1 DEF EntriesOf
<1>3. \A j \in 1 .. Len(s) : CountDown(s[j]).pid = s[j].pid
  <2> TAKE j \in 1 .. Len(s)
  <2>1. s[j] \in SleepEntry
    BY EntryTypes
  <2> QED
    BY <2>1 DEF SleepEntry, CountDown
<1>4. CASE Due(s) = {}
  <2>1. r = [j \in DOMAIN s |-> CountDown(s[j])]
    BY <1>4 DEF CheckTimers
  <2> HIDE DEF r
  <2>2. i \in DOMAIN r /\ r[i].pid = p
    BY <1>1, <1>2, <1>3, <2>1
  <2> QED
    BY <2>2 DEF EntriesOf, r
<1>5. CASE Due(s) # {}
  <2>1. m \in 1 .. Len(s)
    <3>1. Due(s) \subseteq 1 .. Len(s)
      BY <1>1 DEF Due
    <3> QED
      BY <1>1, <1>5, <3>1, FirstOf
  <2>2. i # m
    BY <1>2, <1>5
  <2>3. r = [j \in 1 .. Len(s) - 1 |-> IF j < m THEN CountDown(s[j]) ELSE s[j + 1]]
    BY <1>5 DEF CheckTimers
  <2> HIDE DEF m, r
  <2> DEFINE k == IF i < m THEN i ELSE i - 1
  <2>4. k \in 1 .. Len(s) - 1 /\ (k < m => k = i) /\ (~ (k < m) => k + 1 = i)
    BY <1>1, <1>2, <2>1, <2>2
  <2> HIDE DEF k
  <2>5. k \in DOMAIN r /\ r[k].pid = p
    BY <1>1, <1>2, <1>3, <2>3, <2>4
  <2> QED
    BY <2>5 DEF EntriesOf, r
<1> QED
  BY <1>4, <1>5

\* Who asks for more sleep has an entry, and so has who had one.
LEMMA AddProcSleepKeeps ==
  ASSUME NEW s \in Seq(SleepEntry), NEW pid \in Pid, NEW ticks \in Int, NEW p \in Pid,
         p = pid \/ EntriesOf(s, p) # {}
  PROVE  EntriesOf(AddProcSleep(s, pid, ticks), p) # {}
<1> DEFINE m == Min(EntriesOf(s, pid))
           r == AddProcSleep(s, pid, ticks)
<1>1. DOMAIN s = 1 .. Len(s) /\ Len(s) \in Nat
  BY EntryTypes
<1>2. CASE EntriesOf(s, pid) = {}
  <2> DEFINE e == [pid |-> pid, ticksLeft |-> ticks]
  <2>1. r = Cons(e, s)
    BY <1>2 DEF AddProcSleep
  <2>2. e \in SleepEntry /\ e.pid = pid
    BY DEF SleepEntry
  <2> HIDE DEF e, r
  <2>3. /\ Len(r) = Len(s) + 1
        /\ r \in Seq(SleepEntry)
        /\ \A i \in 1 .. Len(s) + 1 : r[i] = IF i = 1 THEN e ELSE s[i - 1]
    BY <2>1, <2>2 DEF Cons
  <2>4. DOMAIN r = 1 .. Len(s) + 1
    BY <2>3, EntryTypes
  <2>5. CASE p = pid
    <3>1. 1 \in DOMAIN r /\ r[1] = e
      BY <1>1, <2>3, <2>4
    <3> QED
      BY <2>2, <2>5, <3>1 DEF EntriesOf, r
  <2>6. CASE p # pid
    <3>1. PICK i \in 1 .. Len(s) : s[i].pid = p
      BY <1>1, <2>6 DEF EntriesOf
    <3>2. i + 1 \in 1 .. Len(s) + 1 /\ i + 1 # 1 /\ (i + 1) - 1 = i
      BY <1>1, <3>1
    <3>3. i + 1 \in DOMAIN r /\ r[i + 1] = s[i]
      BY <2>3, <2>4, <3>2
    <3> QED
      BY <3>1, <3>3 DEF EntriesOf, r
  <2> QED
    BY <2>5, <2>6
<1>3. CASE EntriesOf(s, pid) # {}
  <2>1. m \in 1 .. Len(s)
    <3>1. EntriesOf(s, pid) \subseteq 1 .. Len(s)
      BY <1>1 DEF EntriesOf
    <3> QED
      BY <1>1, <1>3, <3>1, FirstOf
  <2>2. r = [s EXCEPT ![m].ticksLeft = s[m].ticksLeft + ticks]
    BY <1>3 DEF AddProcSleep
  <2> HIDE DEF m, r
  <2>3. DOMAIN r = DOMAIN s
    BY <2>2
  <2>4. \A i \in DOMAIN s : r[i].pid = s[i].pid
    <3>1. s[m] \in SleepEntry
      BY <2>1, EntryTypes
    <3>2. DOMAIN s[m] = {"pid", "ticksLeft"}
      BY <3>1 DEF SleepEntry
    <3> QED
      BY <1>1, <2>1, <2>2, <3>2
  <2>5. EntriesOf(r, p) = EntriesOf(s, p)
    BY <2>3, <2>4 DEF EntriesOf
  <2> QED
    BY <1>3, <2>5 DEF r
<1> QED
  BY <1>2, <1>3

\* The timer wakes whoever's entry is due.
LEMMA WakeDueWakes ==
  ASSUME NEW t \in Table, WellPlaced(t), NEW s \in Seq(SleepEntry), Due(s) # {}
  PROVE  s[Min(Due(s))].pid \notin Blk(WakeDue(t, s))
<1> DEFINE pid == s[Min(Due(s))].pid
           u == Unblock(t, pid)
<1>1. pid \in Pid
  <2>1. Due(s) \subseteq 1 .. Len(s) /\ Len(s) \in Nat
    BY EntryTypes DEF Due
  <2>2. Min(Due(s)) \in 1 .. Len(s)
    BY <2>1, FirstOf
  <2> QED
    BY <2>2, EntryTypes
<1>2. WakeDue(t, s) = u
  BY DEF WakeDue
<1> HIDE DEF pid
<1>3. /\ WellPlaced(u)
      /\ u.running = t.running
      /\ u.proc[pid].state = IF IsBlocked(t, pid) THEN "READY" ELSE t.proc[pid].state
  BY <1>1, UnblockEffect
<1> HIDE DEF u
<1>4. pid \notin Blk(u)
  BY <1>1, <1>3, Lists DEF Blk
<1> QED
  BY <1>2, <1>4 DEF pid

\* An interrupt leaves nobody blocked whom nothing will wake.
LEMMA FireMinds ==
  ASSUME NEW t \in Table, WellPlaced(t), t.proc[Halt].priority = 0,
         NEW s \in Seq(SleepEntry), NEW call, FireTimerInt(t, s, call), Minded(t, s),
         Stopped(t) # {} => WillWake(t, s, call, t.running)
  PROVE  Minded(pcb, sleeped)'
<1> DEFINE u == PriorityScheduler(t)
<1>1. /\ u \in Table
      /\ WellPlaced(u)
      /\ OnCpu(u)
  BY PrioritySchedulerEffect
<1>2. /\ pcb' = WakeDue(u, s)
      /\ sleeped' = CheckTimers(s)
      /\ inCall' = [p \in Pid |->
                      IF p = pcb'.running \/ pcb'.proc[p].state = "FREE" THEN "none"
                      ELSE IF p = t.running THEN call
                      ELSE inCall[p]]
  BY DEF FireTimerInt
<1>3. /\ WellPlaced(pcb')
      /\ OnCpu(pcb')
      /\ pcb'.running = u.running
  BY <1>1, <1>2, WakeDueWellPlaced
<1>4. Blk(pcb') \subseteq Blk(t) \cup Stopped(t)
  BY <1>2, InterruptSets
<1>5. \A p \in Pid : /\ IsLive(pcb', p) <=> IsLive(t, p) /\ p \notin Died(t)
                     /\ IsLive(pcb', p) => pcb'.proc[p].parentPID = t.proc[p].parentPID
  BY <1>2, InterruptGone
<1>6. Due(s) # {} => s[Min(Due(s))].pid \notin Blk(pcb')
  BY <1>1, <1>2, WakeDueWakes
<1> HIDE DEF u
<1>7. Alive(pcb') = Alive(t)
  <2>1. Died(pcb') = {}
    BY <1>3 DEF Died, OnCpu
  <2> QED
    BY <1>5, <2>1 DEF Alive, Live
<1>8. \A p : Kids(pcb', Alive(pcb'), p) = Kids(t, Alive(t), p)
  BY <1>5, <1>7 DEF Kids, Alive, Live
<1>9. ASSUME NEW p \in Blk(pcb')
      PROVE  WillWake(pcb', sleeped', inCall'[p], p)
  <2>1. /\ p \in Pid
        /\ p # pcb'.running
        /\ pcb'.proc[p].state = "BLOCKED"
    BY <1>3, Lists DEF Blk
  <2>2. inCall'[p] = IF p = t.running THEN call ELSE inCall[p]
    BY <1>2, <2>1
  <2>3. WillWake(t, s, inCall'[p], p)
    <3>1. CASE p = t.running
      <4>1. p \notin Blk(t)
        BY <2>1, <3>1, Lists
      <4> QED
        BY <1>4, <2>2, <3>1, <4>1
    <3>2. CASE p # t.running
      <4>1. p \in Blk(t)
        BY <1>4, <3>2 DEF Stopped
      <4> QED
        BY <2>2, <3>2, <4>1 DEF Minded
    <3> QED
      BY <3>1, <3>2
  <2>4. EntriesOf(s, p) # {} => EntriesOf(sleeped', p) # {}
    BY <1>2, <1>6, CheckTimersKeeps
  <2> QED
    BY <1>8, <2>3, <2>4 DEF WillWake
<1> QED
  BY <1>9 DEF Minded

\* Blocking itself changes nobody's parent.
LEMMA BlockingMinds ==
  ASSUME NEW t \in Table, WellPlaced(t), t.running # Halt, t.proc[Halt].priority = 0,
         OnCpu(t), NEW s
  PROVE  LET u == Blocking(t)
         IN  /\ Minded(t, s) => Minded(u, s)
             /\ \A p : Kids(u, Alive(u), p) = Kids(t, Alive(t), p)
<1> DEFINE u == Blocking(t)
<1>1. /\ SameStructs(t, u)
      /\ \A p \in Pid : IsLive(u, p) <=> IsLive(t, p)
      /\ Died(u) = {}
      /\ Blk(u) = Blk(t)
  BY BlockingSets
<1> HIDE DEF u
<1>2. Alive(u) = Alive(t) /\ Alive(t) \subseteq Pid
  BY <1>1 DEF Alive, Live, Died, OnCpu
<1>3. \A p : Kids(u, Alive(u), p) = Kids(t, Alive(t), p)
  BY <1>1, <1>2 DEF Kids, SameStructs
<1> QED
  BY <1>1, <1>3 DEF Minded, WillWake, u

\* The parent of a process that exits is woken, so nobody who stays blocked loses a child.
LEMMA ExitMinds ==
  ASSUME NEW t \in Table, WellPlaced(t), t.running # Halt, t.proc[Halt].priority = 0,
         OnCpu(t), NEW s, Minded(t, s)
  PROVE  Minded(ExitRunning(t), s)
<1> DEFINE u == ExitRunning(t)
           parent == t.proc[t.running].parentPID
<1>1. /\ WellPlaced(u)
      /\ u.running = t.running
      /\ \A p \in Pid :
           /\ u.proc[p].state = IF p = t.running THEN "EXITED"
                                ELSE IF p = parent /\ IsBlocked(t, p) THEN "READY"
                                ELSE t.proc[p].state
           /\ u.proc[p].parentPID = t.proc[p].parentPID
  BY ExitRunningEffect
<1>2. t.running \in Pid /\ Died(t) = {}
  BY TableFields DEF Died, OnCpu
<1> HIDE DEF u, parent
<1>3. Alive(u) = Alive(t) \ {t.running}
  <2>1. \A p \in Pid : IsLive(u, p) <=> IsLive(t, p)
    BY <1>1 DEF IsLive, WellPlaced
  <2>2. Died(u) = {t.running}
    BY <1>1, <1>2 DEF Died
  <2> QED
    BY <1>2, <2>1, <2>2 DEF Alive, Live
<1>4. ASSUME NEW p \in Blk(u)
      PROVE  WillWake(u, s, inCall[p], p)
  <2>1. p \in Pid /\ u.proc[p].state = "BLOCKED" /\ p # t.running
    BY <1>1, Lists DEF Blk
  <2>2. p \in Blk(t) /\ p # parent
    BY <1>1, <2>1, Lists DEF Blk
  <2>3. Kids(u, Alive(u), p) = Kids(t, Alive(t), p)
    BY <1>1, <1>2, <1>3, <2>2 DEF Kids, Alive, Live, parent
  <2> QED
    BY <2>2, <2>3 DEF Minded, WillWake
<1> QED
  BY <1>4 DEF Minded, u

\* A child is created; those that there are stay.
LEMMA CreateMinds ==
  ASSUME NEW t \in Table, WellPlaced(t), t.running # Halt, OnCpu(t), t.nextPid \in Pid,
         NEW s, Minded(t, s), NEW priority
  PROVE  LET u == CreateProcess(t, priority)
         IN  /\ OnCpu(u)
             /\ Minded(u, s)
             /\ priority \in Priority => Kids(u, Alive(u), t.running) # {}
             /\ \A p \in Pid : Kids(t, Alive(t), p) \subseteq Kids(u, Alive(u), p)
<1> DEFINE u == CreateProcess(t, priority)
           n == t.nextPid
<1>1. CASE priority \notin Priority
  BY <1>1, CreateEffect
<1>2. CASE priority \in Priority
  <2>1. /\ WellPlaced(u)
        /\ u.running = t.running
        /\ \A p \in Pid :
             /\ u.proc[p].state = IF p = n THEN "READY" ELSE t.proc[p].state
             /\ u.proc[p].parentPID = IF p = n THEN t.running ELSE t.proc[p].parentPID
    BY <1>2, CreateEffect
  <2> HIDE DEF u
  <2>2. /\ t.running \in Pid
        /\ n # t.running
        /\ n # Halt
        /\ ~ IsLive(t, n)
    BY TableFields DEF WellPlaced, IsLive
  <2>3. OnCpu(u) /\ Died(u) = {} /\ Died(t) = {}
    BY <2>1, <2>2 DEF OnCpu, Died
  <2>4. Alive(u) = Alive(t) \cup {n} /\ n \notin Alive(t) /\ Alive(t) \subseteq Pid
    BY <2>1, <2>2, <2>3 DEF Alive, Live, IsLive
  <2>5. n \in Kids(u, Alive(u), t.running)
    BY <2>1, <2>4 DEF Kids
  <2>6. \A p \in Pid : Kids(t, Alive(t), p) \subseteq Kids(u, Alive(u), p)
    BY <2>1, <2>4 DEF Kids
  <2>7. Blk(u) \subseteq Blk(t) /\ Blk(u) \subseteq Pid
    <3>1. \A p \in Pid : p \in Blk(u) => p \in Blk(t)
      BY <2>1, Lists
    <3> QED
      BY <3>1 DEF Blk
  <2>8. Minded(u, s)
    BY <2>6, <2>7 DEF Minded, WillWake
  <2> QED
    BY <2>3, <2>5, <2>6, <2>8 DEF u
<1> QED
  BY <1>1, <1>2

\* A call that returns at once keeps everybody suspended where he was.
LEMMA ReturnMinds ==
  ASSUME NEW t, WellPlaced(t), Return(t), Minded(t, sleeped)
  PROVE  Minded(pcb, sleeped)'
<1>1. /\ pcb' = t
      /\ sleeped' = sleeped
      /\ \A p \in Pid : inCall'[p] = IF t.proc[p].state = "FREE" THEN "none" ELSE inCall[p]
  BY DEF Return
<1>2. \A p \in Blk(t) : p \in Pid /\ t.proc[p].state = "BLOCKED"
  BY Lists DEF Blk
<1> QED
  BY <1>1, <1>2 DEF Minded

LEMMA InitMinded == Init => KidsExact(pcb, Live(pcb)) /\ Minded(pcb, sleeped)
<1> SUFFICES ASSUME Init PROVE KidsExact(pcb, Live(pcb)) /\ Minded(pcb, sleeped)
  OBVIOUS
<1>1. Blk(pcb) = {}
  BY DEF Init, Blk, IsBlocked, Contains
<1>2. ASSUME NEW p \in Live(pcb)
      PROVE  pcb.proc[p].kidsCount = Cardinality(Kids(pcb, Live(pcb), p))
  <2> DEFINE r == [FreeProcess EXCEPT !.state = "READY"]
             f == [q \in Pid |-> IF q \in {Halt, Console} THEN r ELSE FreeProcess]
  <2>1. [[q \in Pid |-> FreeProcess] EXCEPT ![Halt].state = "READY",
                                            ![Console].state = "READY"] = f
    BY PidNat
  <2>2. pcb.proc = f
    BY <2>1 DEF Init
  <2>3. /\ FreeProcess.state = "FREE"
        /\ r.state = "READY" /\ r.parentPID = Halt /\ r.kidsCount = 0
    BY DEF FreeProcess
  <2> HIDE DEF r
  <2>4. \A q \in Pid : f[q] = IF q \in {Halt, Console} THEN r ELSE FreeProcess
    OBVIOUS
  <2> HIDE DEF f
  <2>5. \A q \in Live(pcb) : q \in Pid \ {Halt} /\ pcb.proc[q] = r
    BY <2>2, <2>3, <2>4 DEF Live, IsLive
  <2>6. Kids(pcb, Live(pcb), p) = {} /\ pcb.proc[p].kidsCount = 0
    BY <2>3, <2>5 DEF Kids
  <2> QED
    BY <2>6, FS_EmptySet
<1> QED
  BY <1>1, <1>2 DEF KidsExact, Minded

OrderlyNext == OrderlyStep \/ ForegroundStep \/ SleepStep

\* What OInv says of the table before a step.
LEMMA OInvFacts ==
  ASSUME OInv
  PROVE  /\ pcb \in Table
         /\ WellPlaced(pcb)
         /\ OnCpu(pcb)
         /\ pcb.running = Running
         /\ pcb.running \in Pid
         /\ pcb.proc[Halt].priority = 0
         /\ KidsRight(pcb, Live(pcb)) /\ KidsExact(pcb, Live(pcb))
         /\ Alive(pcb) = Live(pcb)
         /\ Minded(pcb, sleeped)
         /\ sleeped \in Seq(SleepEntry)
         /\ \A n \in {1, 2} : PidsLeft(n) => pcb.nextPid \in Pid
<1>1. OnCpu(pcb) /\ sleeped \in Seq(SleepEntry)
  BY SInvFacts, IInvFacts DEF OInv, CInv
<1>2. Alive(pcb) = Live(pcb)
  BY <1>1 DEF Alive, Died, OnCpu
<1> QED
  BY <1>1, <1>2, SInvFacts DEF OInv, CInv

\* A parent that counts children has one.
LEMMA CountedKid ==
  ASSUME OInv, Running # Halt, pcb.proc[Running].kidsCount # 0
  PROVE  Kids(pcb, Alive(pcb), Running) # {}
<1>1. Running \in Live(pcb)
  BY OInvFacts DEF Live, WellPlaced
<1>2. Cardinality(Kids(pcb, Live(pcb), Running)) # 0
  BY <1>1, OInvFacts DEF KidsExact
<1> QED
  BY <1>2, OInvFacts, FS_EmptySet

\* Blocking on a table that the call has made.
LEMMA BlockInMinds ==
  ASSUME NEW t \in Table, WellPlaced(t), t.running # Halt, t.proc[Halt].priority = 0,
         OnCpu(t), NEW s \in Seq(SleepEntry), Minded(t, s), NEW call, BlockIn(t, s, call),
         WillWake(t, s, call, t.running)
  PROVE  Minded(pcb, sleeped)'
<1> DEFINE u == Blocking(t)
<1>1. /\ u \in Table
      /\ WellPlaced(u)
      /\ u.running = t.running
      /\ u.proc[Halt].priority = 0
  BY BlockingSets
<1>2. /\ Minded(u, s)
      /\ \A p : Kids(u, Alive(u), p) = Kids(t, Alive(t), p)
  BY BlockingMinds
<1>3. FireTimerInt(u, s, call)
  BY DEF BlockIn, Blocking
<1> HIDE DEF u
<1>4. WillWake(u, s, call, u.running)
  BY <1>1, <1>2 DEF WillWake
<1> QED
  BY <1>1, <1>2, <1>3, <1>4, FireMinds

\* What each call of an orderly program keeps on the way to giving up the cpu.
Good(t, s) ==
  /\ t \in Table
  /\ WellPlaced(t)
  /\ t.running # Halt
  /\ t.proc[Halt].priority = 0
  /\ OnCpu(t)
  /\ KidsRight(t, Live(t))
  /\ KidsExact(t, Live(t))
  /\ Minded(t, s)

LEMMA GoodCreate ==
  ASSUME NEW t, NEW s, Good(t, s), t.nextPid \in Pid, NEW priority
  PROVE  LET u == CreateProcess(t, priority)
         IN  /\ Good(u, s)
             /\ u.running = t.running
             /\ priority \in Priority =>
                  Kids(u, Alive(u), t.running) # {} /\ u.nextPid = t.nextPid + 1
             /\ \A p \in Pid : Kids(t, Alive(t), p) \subseteq Kids(u, Alive(u), p)
<1> DEFINE u == CreateProcess(t, priority)
<1>1. /\ u \in Table
      /\ WellPlaced(u)
      /\ u.running = t.running
      /\ priority \in Priority => u.nextPid = t.nextPid + 1
  BY CreateEffect DEF Good
<1>2. u.proc[Halt].priority = 0
  BY CreateSets DEF Good
<1>3. KidsRight(u, Live(u)) /\ KidsExact(u, Live(u))
  BY CreateKids DEF Good
<1>4. /\ OnCpu(u)
      /\ Minded(u, s)
      /\ priority \in Priority => Kids(u, Alive(u), t.running) # {}
      /\ \A p \in Pid : Kids(t, Alive(t), p) \subseteq Kids(u, Alive(u), p)
  BY CreateMinds DEF Good
<1> HIDE DEF u
<1>5. Good(u, s)
  BY <1>1, <1>2, <1>3, <1>4 DEF Good
<1> QED
  BY <1>1, <1>4, <1>5 DEF u

Kept == KidsExact(pcb, Live(pcb)) /\ Minded(pcb, sleeped)

LEMMA GoodBlockIn ==
  ASSUME NEW t, NEW s \in Seq(SleepEntry), Good(t, s), NEW call, BlockIn(t, s, call),
         WillWake(t, s, call, t.running)
  PROVE  Kept'
<1> DEFINE b == Blocking(t)
<1>1. /\ b \in Table
      /\ WellPlaced(b)
      /\ b.proc[Halt].priority = 0
      /\ SameStructs(t, b)
      /\ \A p \in Pid : IsLive(b, p) <=> IsLive(t, p)
      /\ Died(b) = {}
  BY BlockingSets DEF Good
<1>2. Interrupt(b)
  BY BlockInIsInterrupt
<1>3. Minded(pcb, sleeped)'
  BY BlockInMinds DEF Good
<1> HIDE DEF b
<1>4. Alive(b) = Live(t) /\ Live(t) \subseteq Pid
  BY <1>1, SameLive DEF Alive, Live
<1>5. KidsRight(b, Live(t)) /\ KidsExact(b, Live(t))
  BY <1>1, <1>4, SameKids DEF Good, SameStructs
<1>6. KidsExact(pcb', Live(pcb'))
  BY <1>1, <1>2, <1>4, <1>5, InterruptKids
<1> QED
  BY <1>3, <1>6 DEF Kept, KidsExact, Live, Kids, IsLive

\* An interrupt that the running process did not ask for, or does not survive.
LEMMA GoodInterrupt ==
  ASSUME NEW t \in Table, WellPlaced(t), t.proc[Halt].priority = 0,
         KidsRight(t, Alive(t)), KidsExact(t, Alive(t)),
         Minded(t, sleeped), Stopped(t) = {}, sleeped \in Seq(SleepEntry), NEW call,
         FireTimerInt(t, sleeped, call)
  PROVE  Kept'
<1>1. Minded(pcb, sleeped)'
  BY FireMinds
<1>2. KidsExact(pcb', Live(pcb'))
  BY FireIsInterrupt, InterruptKids
<1> QED
  BY <1>1, <1>2 DEF Kept, KidsExact, Live, Kids, IsLive

LEMMA StepKept == OInv /\ OrderlyNext => Kept'
<1> SUFFICES ASSUME OInv, OrderlyNext PROVE Kept'
  OBVIOUS
<1>1. Running # Halt => Good(pcb, sleeped)
  BY OInvFacts DEF Good
<1>2. sleeped \in Seq(SleepEntry) /\ pcb.running = Running /\ Running \in Pid
  BY OInvFacts
<1>3. CASE TimerInterrupt \/ Yield
  <2>1. FireTimerInt(pcb, sleeped, "none")
    BY <1>3 DEF TimerInterrupt, Yield
  <2>2. Stopped(pcb) = {}
    BY OInvFacts DEF Stopped, OnCpu
  <2> QED
    BY <2>1, <2>2, OInvFacts, GoodInterrupt
<1>4. CASE Exit
  <2> DEFINE u == ExitRunning(pcb)
  <2>1. Running # Halt /\ FireTimerInt(u, sleeped, "none")
    BY <1>4 DEF Exit
  <2>2. /\ u \in Table
        /\ WellPlaced(u)
        /\ u.proc[Halt].priority = 0
        /\ Stopped(u) = {}
    BY <1>2, <2>1, OInvFacts, DyingSets
  <2>3. KidsRight(u, Alive(u)) /\ KidsExact(u, Alive(u))
    BY <1>2, <2>1, OInvFacts, DyingKids
  <2>4. Minded(u, sleeped)
    BY <1>2, <2>1, OInvFacts, ExitMinds
  <2> HIDE DEF u
  <2> QED
    BY <1>2, <2>1, <2>2, <2>3, <2>4, GoodInterrupt
<1>5. ASSUME NEW priority \in Priority, CreateBackground(priority)
      PROVE  Kept'
  <2> DEFINE u == CreateProcess(pcb, priority)
  <2>1. Running # Halt /\ pcb.nextPid \in Pid /\ Return(u)
    BY <1>5, OInvFacts DEF CreateBackground, Return
  <2>2. Good(u, sleeped)
    BY <1>1, <2>1, GoodCreate
  <2> HIDE DEF u
  <2>3. Minded(pcb, sleeped)' /\ pcb' = u
    BY <2>1, <2>2, ReturnMinds DEF Good, Return
  <2>4. KidsExact(pcb', Live(pcb'))
    BY <2>2, <2>3 DEF Good
  <2> QED
    BY <2>3, <2>4 DEF Kept, KidsExact, Live, Kids, IsLive
<1>6. ASSUME NEW priority \in Priority, CreateForeground(priority)
      PROVE  Kept'
  <2> DEFINE u == CreateProcess(pcb, priority)
  <2>1. /\ pcb.nextPid \in Pid
        /\ BlockIn(u, sleeped, "create_foreground")
    BY <1>6, OInvFacts DEF CreateForeground
  <2>2. Running # Halt
    BY <2>1 DEF BlockIn
  <2>3. /\ Good(u, sleeped)
        /\ u.running = pcb.running
        /\ Kids(u, Alive(u), pcb.running) # {}
    BY <1>1, <2>1, <2>2, GoodCreate
  <2> HIDE DEF u
  <2>4. WillWake(u, sleeped, "create_foreground", u.running)
    BY <2>3 DEF WillWake
  <2> QED
    BY <1>2, <2>1, <2>3, <2>4, GoodBlockIn
<1>7. CASE CreateWithPipes
  <2> DEFINE u == CreateProcess(pcb, 0)
             w == CreateProcess(u, 0)
  <2>1. /\ PidsLeft(2)
        /\ BlockIn(w, sleeped, "create_with_pipes")
    BY <1>7 DEF CreateWithPipes
  <2>2. Running # Halt /\ pcb.nextPid \in Pid
    BY <2>1, OInvFacts DEF BlockIn
  <2>3. 0 \in Priority
    BY PriorityNat
  <2>4. /\ Good(u, sleeped)
        /\ u.running = pcb.running
        /\ u.nextPid = pcb.nextPid + 1
    BY <1>1, <2>2, <2>3, GoodCreate
  <2>5. u.nextPid \in Pid
    BY <2>1, <2>2, <2>4, MaxPidAssumption DEF PidsLeft, Pid
  <2> HIDE DEF u
  <2>6. /\ Good(w, sleeped)
        /\ w.running = u.running
        /\ Kids(w, Alive(w), u.running) # {}
    BY <2>3, <2>4, <2>5, GoodCreate
  <2> HIDE DEF w
  <2>7. WillWake(w, sleeped, "create_with_pipes", w.running)
    BY <2>6 DEF WillWake
  <2> QED
    BY <1>2, <2>1, <2>6, <2>7, GoodBlockIn
<1>8. CASE Wait
  <2>1. /\ pcb.proc[Running].kidsCount # 0
        /\ BlockIn(pcb, sleeped, "wait")
    BY <1>8 DEF Wait
  <2>2. Running # Halt
    BY <2>1 DEF BlockIn
  <2>3. WillWake(pcb, sleeped, "wait", pcb.running)
    BY <1>2, <2>1, <2>2, CountedKid DEF WillWake
  <2> QED
    BY <1>1, <1>2, <2>1, <2>2, <2>3, GoodBlockIn
<1>9. ASSUME NEW ticks \in SleepTicks, Sleep(ticks)
      PROVE  Kept'
  <2> DEFINE s == AddProcSleep(sleeped, Running, ticks)
  <2>1. BlockIn(pcb, s, "sleep") /\ Running # Halt
    BY <1>9 DEF Sleep, BlockIn
  <2>2. ticks \in Int
    BY SleepTicksAssumption
  <2>3. /\ s \in Seq(SleepEntry)
        /\ EntriesOf(s, Running) # {}
        /\ \A p \in Pid : EntriesOf(sleeped, p) # {} => EntriesOf(s, p) # {}
    BY <1>2, <2>2, AddProcSleepType, AddProcSleepKeeps
  <2> HIDE DEF s
  <2>4. Minded(pcb, s)
    BY <2>3, OInvFacts DEF Minded, WillWake, Blk
  <2>5. Good(pcb, s)
    BY <1>1, <2>1, <2>4 DEF Good
  <2>6. WillWake(pcb, s, "sleep", pcb.running)
    BY <1>2, <2>3 DEF WillWake, WaitsForChild
  <2> QED
    BY <2>1, <2>3, <2>5, <2>6, GoodBlockIn
<1> QED
  BY <1>3, <1>4, <1>5, <1>6, <1>7, <1>8, <1>9
  DEF OrderlyNext, OrderlyStep, ForegroundStep, SleepStep

LEMMA OInvariant == OrderlySpec => []OInv
<1>1. Init => OInv
  <2>1. Init => CInv
    BY InitIInv, InitHaltLowest, InitCounts DEF CInv, SInv
  <2> QED
    BY <2>1, InitMinded DEF OInv
<1>2. [OrderlyStep \/ ForegroundStep \/ SleepStep]_vars => [Next]_vars
  BY DEF Next
<1>3. OInv /\ CInv' /\ [OrderlyStep \/ ForegroundStep \/ SleepStep]_vars => OInv'
  <2> SUFFICES ASSUME OInv, CInv', [OrderlyNext]_vars PROVE OInv'
    BY DEF OrderlyNext
  <2>1. CASE OrderlyNext
    BY <2>1, StepKept DEF OInv, Kept
  <2>2. CASE UNCHANGED vars
    BY <2>2 DEF OInv, Minded, WillWake, KidsExact, Kids, Live, IsLive, Alive, Died,
                EntriesOf, Blk, IsBlocked, vars
  <2> QED
    BY <2>1, <2>2
<1>4. OrderlySpec => Spec
  BY <1>2, PTL DEF OrderlySpec, Spec
<1>5. OrderlySpec => []CInv
  BY <1>4, CInvariant, PTL
<1> QED
  BY <1>1, <1>3, <1>5, PTL DEF OrderlySpec

\* Who is suspended in a call is blocked, and not on the cpu.
LEMMA SuspendedMinded ==
  ASSUME OInv, NEW p \in Pid, NEW call, SuspendedIn(p, call)
  PROVE  WillWake(pcb, sleeped, call, p)
<1>1. p \in Blk(pcb)
  BY OInvFacts, Lists DEF SuspendedIn, OnCpu
<1> QED
  BY <1>1, OInvFacts DEF Minded, SuspendedIn

LEMMA KidIsChild ==
  ASSUME OInv, NEW p \in Pid, NEW call \in WaitsForChild, SuspendedIn(p, call)
  PROVE  HasChild(p)
<1>1. PICK c \in Kids(pcb, Alive(pcb), p) : TRUE
  BY SuspendedMinded DEF WillWake
<1>2. c \in LivePids /\ pcb.proc[c].parentPID = p
  BY <1>1 DEF Kids, Alive, Live, LivePids
<1> QED
  BY <1>2 DEF HasChild

\* Programs that end by exit: whoever is blocked in wait() has a child alive, so a count
\* of children never keeps a parent waiting for nobody.
THEOREM WaitersAreWoken == OrderlySpec => []WaiterHasChild
<1>1. OInv => WaiterHasChild
  BY KidIsChild DEF WaiterHasChild, WaitsForChild
<1> QED
  BY <1>1, OInvariant, PTL

\* The shell is never stuck behind a command or a pipeline that has gone.
THEOREM ForegroundIsWoken == OrderlySpec => []ForegroundHasChild
<1>1. OInv => ForegroundHasChild
  BY KidIsChild DEF ForegroundHasChild, WaitsForChild
<1> QED
  BY <1>1, OInvariant, PTL

\* A process blocked in sleep has an entry left, also when a child or an older entry woke
\* it from an earlier sleep.
THEOREM SleepersAreWoken == OrderlySpec => []SleeperHasTimer
<1>1. OInv => SleeperHasTimer
  BY SuspendedMinded DEF SleeperHasTimer, WillWake
<1> QED
  BY <1>1, OInvariant, PTL
=============================================================================
