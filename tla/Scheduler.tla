----------------------------- MODULE Scheduler -----------------------------
(***************************************************************************)
(* The multitasking core of PepsOS: the process table (Kernel/scheduler.c), *)
(* the sleep timers (Kernel/time.c) and the timer interrupt that drives     *)
(* both (Kernel/asm/interrupts.asm).                                        *)
(*                                                                          *)
(* One processor runs one process at a time.  System calls enter through an *)
(* interrupt gate, with interrupts disabled, so each one is a single step;  *)
(* a call that gives up the cpu raises the timer interrupt itself (int 20h) *)
(* and that step goes on until another process runs.  Every interrupt 20h,  *)
(* from the hardware or from a call, runs priorityScheduler and then the    *)
(* timer handler.                                                           *)
(*                                                                          *)
(* Programs are arbitrary: the running process may make any call at any     *)
(* moment, with any argument.                                               *)
(***************************************************************************)
EXTENDS SleepTimers

CONSTANTS SleepTicks,   \* the values programs pass to sleep
          MaxTicks      \* bound: the largest count a sleep entry reaches

ASSUME SleepTicksAssumption == SleepTicks \subseteq Nat
ASSUME MaxTicksAssumption == MaxTicks \in Nat

\* Priorities programs pass, one invalid value on either side included.
AnyPriority == -1 .. MaxPriority

VARIABLES pcb,      \* the process table
          sleeped,  \* the sleep entries
          inCall    \* the system call each process is suspended in, where its
                    \* saved stack pointer leads back to

vars == <<pcb, sleeped, inCall>>

Call == {"none", "create_foreground", "create_with_pipes", "block", "wait",
         "sleep"}

Running == pcb.running

\* After createPCB, the createProcess call of main and startFirstProcess, which
\* does not touch the state of the first process.
Init ==
  /\ pcb = [running |-> Console,
            ready |-> [i \in Priority |-> <<>>],
            blocked |-> <<>>,
            proc |-> [[p \in Pid |-> FreeProcess] EXCEPT
                        ![Halt].state = "READY",
                        ![Console].state = "READY"],
            processCount |-> 1,
            nextPid |-> 2]
  /\ sleeped = <<>>
  /\ inCall = [p \in Pid |-> "none"]

-----------------------------------------------------------------------------
\* int 20h on table t with timers s, out of the given call.
FireTimerInt(t, s, call) ==
  /\ pcb' = WakeDue(PriorityScheduler(t), s)
  /\ sleeped' = CheckTimers(s)
  /\ inCall' = [p \in Pid |->
                  IF p = pcb'.running \/ pcb'.proc[p].state = "FREE" THEN "none"
                  ELSE IF p = t.running THEN call
                  ELSE inCall[p]]

\* A system call that returns to its caller at once.
Return(t) ==
  /\ Running # Halt
  /\ pcb' = t
  /\ inCall' = [p \in Pid |->
                  IF t.proc[p].state = "FREE" THEN "none" ELSE inCall[p]]
  /\ UNCHANGED sleeped

\* A system call that blocks its caller.
BlockIn(t, s, call) ==
  /\ Running # Halt
  /\ FireTimerInt(SetState(t, t.running, "BLOCKED"), s, call)

\* Bound: there are pids left for n more processes.
PidsLeft(n) == pcb.nextPid + n <= MaxPid + 1

TimerInterrupt == FireTimerInt(pcb, sleeped, "none")

Yield ==
  /\ Running # Halt
  /\ FireTimerInt(pcb, sleeped, "none")

Exit ==
  /\ Running # Halt
  /\ FireTimerInt(ExitRunning(pcb), sleeped, "none")

CreateBackground(priority) ==
  /\ PidsLeft(1)
  /\ Return(CreateProcess(pcb, priority))

CreateForeground(priority) ==
  /\ PidsLeft(1)
  /\ BlockIn(CreateProcess(pcb, priority), sleeped, "create_foreground")

CreateWithPipes ==
  /\ PidsLeft(2)
  /\ BlockIn(CreateProcess(CreateProcess(pcb, 0), 0), sleeped,
             "create_with_pipes")

BlockSelf == BlockIn(pcb, sleeped, "block")

BlockProcess(pid) ==
  /\ pid # Running
  /\ Return(BlockReady(pcb, pid))

UnblockProcess(pid) == Return(Unblock(pcb, pid))

\* The keyboard interrupt writes to the STDIN pipe, whose semaphore unblocks a
\* reader.  It finds whoever has the cpu, the halt process included.
KeyboardWakes(pid) ==
  /\ pcb' = Unblock(pcb, pid)
  /\ UNCHANGED <<sleeped, inCall>>

KillSelf ==
  /\ Running \notin {Halt, Console}
  /\ FireTimerInt(KillRunning(pcb), sleeped, "none")

KillProcess(pid) ==
  /\ pid # Running
  /\ Return(KillOther(pcb, pid))

\* wait() returns 0 to a process that counts no children.
Wait ==
  /\ pcb.proc[Running].kidsCount # 0
  /\ BlockIn(pcb, sleeped, "wait")

ChangeProcessPriority(pid, priority) == Return(ChangePriority(pcb, pid, priority))

Sleep(ticks) ==
  /\ ticks > 0
  /\ TicksAfterAdd(sleeped, Running, ticks) <= MaxTicks
  /\ BlockIn(pcb, AddProcSleep(sleeped, Running, ticks), "sleep")

-----------------------------------------------------------------------------
\* Programs that create processes with valid priorities, wait for them and
\* leave the table through exit.
OrderlyStep ==
  \/ TimerInterrupt
  \/ Yield
  \/ Exit
  \/ \E priority \in Priority : CreateBackground(priority)
  \/ CreateWithPipes
  \/ Wait

ForegroundStep == \E priority \in Priority : CreateForeground(priority)

\* An invalid priority creates nothing; the foreground call blocks all the same.
InvalidCreateStep ==
  \E priority \in AnyPriority \ Priority :
    CreateBackground(priority) \/ CreateForeground(priority)

KillStep == KillSelf \/ \E pid \in Pid : KillProcess(pid)

SleepStep == \E ticks \in SleepTicks : Sleep(ticks)

BlockStep ==
  \/ BlockSelf
  \/ \E pid \in Pid : BlockProcess(pid)
  \/ \E pid \in Pid : UnblockProcess(pid)
  \/ \E pid \in Pid : KeyboardWakes(pid)

PriorityStep ==
  \E pid \in Pid, priority \in AnyPriority : ChangeProcessPriority(pid, priority)

Next ==
  \/ OrderlyStep
  \/ ForegroundStep
  \/ InvalidCreateStep
  \/ KillStep
  \/ SleepStep
  \/ BlockStep
  \/ PriorityStep

Spec == Init /\ [][Next]_vars

-----------------------------------------------------------------------------
(* Safety. *)

TypeOK ==
  /\ pcb \in Table
  /\ sleeped \in Seq(SleepEntry)
  /\ inCall \in [Pid -> Call]

LivePids == {p \in Pid \ {Halt} : IsLive(pcb, p)}

\* Between two steps every process is in exactly one place, the one its state
\* names, and the running one is neither blocked nor exited: the list surgery of
\* block, unblock, kill, changePriority and priorityScheduler neither loses nor
\* duplicates a process.  (The first process runs as READY until it has been
\* dispatched once.)
Placement ==
  /\ WellPlaced(pcb)
  /\ pcb.proc[Running].state \in {"READY", "RUNNING"}

\* processCount is the number of processes alive, so the array getAllProcessInfo
\* allocates from it has room for each process it then copies.
ProcessCountExact == pcb.processCount = Cardinality(LivePids)

\* A process never counts fewer children than it has, so wait() never tells a
\* parent of live children that it has none.
KidsNeverUndercounted ==
  \A p \in LivePids :
    pcb.proc[p].kidsCount >=
      Cardinality({c \in LivePids : pcb.proc[c].parentPID = p})

\* Every sleep entry still has ticks to count and no process has two: a count
\* that slipped past zero would never match the test for zero again.
TimersPending ==
  /\ \A i \in DOMAIN sleeped : sleeped[i].ticksLeft > 0
  /\ \A i, j \in DOMAIN sleeped : sleeped[i].pid = sleeped[j].pid => i = j

SuspendedIn(p, call) == pcb.proc[p].state = "BLOCKED" /\ inCall[p] = call

HasChild(p) == \E c \in LivePids : pcb.proc[c].parentPID = p

\* A process that is blocked in wait() has a child left that will wake it.
WaiterHasChild == \A p \in Pid : SuspendedIn(p, "wait") => HasChild(p)

\* A process blocked in createForegroundProcess or createProcessWithPipes has a
\* child left that will wake it: the shell is never stuck behind a command that
\* has gone.
ForegroundHasChild ==
  \A p \in Pid :
    SuspendedIn(p, "create_foreground") \/ SuspendedIn(p, "create_with_pipes")
      => HasChild(p)

\* A process blocked in sleep has an entry that will wake it, however early it
\* was woken from earlier sleeps by a child.
SleeperHasTimer ==
  \A p \in Pid : SuspendedIn(p, "sleep") => EntriesOf(sleeped, p) # {}

-----------------------------------------------------------------------------
(* Action properties. *)

Dies(p) == IsLive(pcb, p) /\ pcb'.proc[p].state = "FREE"

\* No way to die, exit, kill or suicide, leaves the parent blocked: it is woken
\* in the same step.
ChildDeathWakesParent ==
  [][\A c \in Pid :
       Dies(c) => pcb'.proc[pcb.proc[c].parentPID].state # "BLOCKED"]_vars

\* An interrupt leaves the cpu to the halt process only if nothing is ready, save
\* for the one process that the timer woke after priorityScheduler had chosen.
HaltOnlyWhenIdle ==
  [][(TimerInterrupt \/ Running # Halt) /\ Running' = Halt =>
       \A p, q \in Pid :
         IsReady(pcb', p) /\ IsReady(pcb', q) => p = q /\ ~IsReady(pcb, p)]_vars

Before(queue, p, q) ==
  \E i, j \in DOMAIN queue : i < j /\ queue[i] = p /\ queue[j] = q

Moved(p) == \E priority \in Priority : ChangeProcessPriority(p, priority)

\* A process that gets into a ready queue gets into the one of its priority, or the one
\* that changePriority was asked for; while it waits there nothing else takes a level
\* from it.
QueueMatchesPriority ==
  [][\A i \in Priority : \A p \in ToSet(pcb'.ready[i]) :
       \/ ChangeProcessPriority(p, i)
       \/ IF Contains(pcb.ready[i], p)
          THEN pcb'.proc[p].priority = pcb.proc[p].priority
          ELSE pcb'.proc[p].priority = i]_vars

\* Round robin: nobody overtakes a process that stays in its queue, neither on the way
\* to the head nor to the cpu, whatever is put in and taken out around it.
QueueOrderKept ==
  [][\A i \in Priority :
       \A p \in ToSet(pcb.ready[i]) \cap ToSet(pcb'.ready[i]) :
         \/ Moved(p)
         \/ /\ \A q \in ToSet(pcb'.ready[i]) :
                 Before(pcb'.ready[i], q, p) => Before(pcb.ready[i], q, p)
            /\ Running' # Running => ~Before(pcb.ready[i], p, Running')]_vars

\* The level from which a step gives the cpu to p.
Level(p) ==
  IF IsReady(pcb, p)
  THEN CHOOSE i \in Priority : Contains(pcb.ready[i], p)
  ELSE pcb'.proc[p].priority

\* The cpu goes to the highest level: a process that still waits higher than the one
\* that runs after the step was not ready before it (the timer woke it after the
\* choice).
HighestPriorityFirst ==
  [][TimerInterrupt \/ Running' # Running =>
       \A i \in Priority : \A p \in ToSet(pcb'.ready[i]) :
         i > Level(Running') => ~IsReady(pcb, p)]_vars

\* changePriority returns 1 only if it changed the priority
\* (include/scheduler.h: "@return 1 if the priority was changed, 0 if not").
PriorityChanged ==
  [][\A p \in Pid, priority \in Priority :
       /\ ChangeProcessPriority(p, priority)
       /\ CanChangePriority(pcb, p, priority)
       => pcb'.proc[p].priority = priority]_vars

-----------------------------------------------------------------------------
(* Refinement. *)

Sharing == INSTANCE CpuSharing
  WITH Process <- Pid \ {Halt},
       Idle <- Halt,
       cpu <- Running,
       ready <- {p \in Pid : IsReady(pcb, p)},
       blocked <- {p \in Pid : IsBlocked(pcb, p)},
       gone <- {p \in Pid : p < pcb.nextPid /\ ~IsLive(pcb, p)}

\* The queues, levels and lists of the scheduler share the cpu among the
\* processes as CpuSharing promises: nobody is lost, duplicated or revived, only
\* a death, an unblock or the timer wakes a process, and the cpu is not idle
\* while a process is ready.
SharesCpu == Sharing!Spec

-----------------------------------------------------------------------------
(* Liveness.  The only fairness is that the hardware timer keeps ticking:    *)
(* programs run with interrupts enabled and the halt process waits for them. *)

Timer == WF_vars(TimerInterrupt)

NobodySleeps == \A p \in Pid : ~SuspendedIn(p, "sleep")

\* Unless programs sleep again and again, every ready process gets the cpu or is taken
\* out of the ready queues: whoever runs pays for it in levels.
ReadyRuns ==
  <>[]NobodySleeps =>
    \A p \in Pid \ {Halt} : IsReady(pcb, p) ~> ~IsReady(pcb, p)

\* Every sleeper that is still blocked is woken in the end, although entries
\* that other processes insert in front of its own stop the count for a tick.
SleeperWakes ==
  \A p \in Pid : SuspendedIn(p, "sleep") ~> ~SuspendedIn(p, "sleep")
=============================================================================
