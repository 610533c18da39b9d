---------------------------- MODULE ProcessTable ----------------------------
(***************************************************************************)
(* The process table of Kernel/scheduler.c as a value, and each function   *)
(* of that file that changes it as an operator from tables to tables.      *)
(*                                                                         *)
(* A table t is the static variable pcb together with nextPid and the      *)
(* Process structs it points to:                                           *)
(*   t.running       pid of pcb.running                                    *)
(*   t.ready[i]      the list pcb.priorityQueue[i].ready ... lastReady     *)
(*   t.blocked       the list pcb.blocked, newest first                    *)
(*   t.proc[p]       the struct of process p; state "FREE" when there is   *)
(*                   none (not created yet, or given back to freeMemory)   *)
(*   t.processCount, t.nextPid                                             *)
(* Stacks, registers, names and pipes of a process are left out: no        *)
(* function of the scheduler reads them to decide anything.                *)
(***************************************************************************)
EXTENDS Integers, Sequences, SequencesExt

CONSTANTS MaxPid,       \* bound: the largest pid handed out by nextPid++
          MaxPriority   \* MAX_PRIORITY

ASSUME MaxPidAssumption == MaxPid \in Nat \ {0}
ASSUME MaxPriorityAssumption == MaxPriority \in Nat \ {0}

Halt == 0       \* the process that halts the cpu, created first by createPCB
Console == 1    \* CONSOLAPID

Pid == 0 .. MaxPid
Priority == 0 .. MaxPriority - 1

ProcessState == {"READY", "RUNNING", "BLOCKED", "EXITED", "FREE"}

Process == [state : ProcessState, priority : Priority,
            parentPID : Pid, kidsCount : Int]

FreeProcess == [state |-> "FREE", priority |-> 0,
                parentPID |-> Halt, kidsCount |-> 0]

Table == [running : Pid,
          ready : [Priority -> Seq(Pid)],
          blocked : Seq(Pid),
          proc : [Pid -> Process],
          processCount : Int,
          nextPid : Nat]

IsBlocked(t, pid) == Contains(t.blocked, pid)
IsReady(t, pid) == \E i \in Priority : Contains(t.ready[i], pid)
IsLive(t, pid) == t.proc[pid].state # "FREE"

\* Every process is in the one place its state names: it is running, or once in
\* one ready queue, or once in the blocked list; pids not handed out yet have no
\* process.
WellPlaced(t) ==
  /\ IsInjective(t.blocked)
  /\ \A i \in Priority : IsInjective(t.ready[i])
  /\ \A i, j \in Priority, p \in Pid :
       Contains(t.ready[i], p) /\ Contains(t.ready[j], p) => i = j
  /\ \A p \in Pid : IsBlocked(t, p) <=> /\ t.proc[p].state = "BLOCKED"
                                        /\ p # t.running
  /\ \A p \in Pid : IsReady(t, p) <=> /\ t.proc[p].state = "READY"
                                      /\ p \notin {t.running, Halt}
  /\ \A p \in Pid : t.proc[p].state \in {"RUNNING", "EXITED"} => p = t.running
  /\ IsLive(t, t.running)
  /\ t.proc[Halt].state = "READY"
  /\ \A p \in Pid : p >= t.nextPid => ~IsLive(t, p)

-----------------------------------------------------------------------------
(* Queue and struct updates. *)

SetState(t, pid, state) == [t EXCEPT !.proc[pid].state = state]
SetPriority(t, pid, priority) == [t EXCEPT !.proc[pid].priority = priority]
SetKidsCount(t, pid, count) == [t EXCEPT !.proc[pid].kidsCount = count]

\* A struct is allocated for the next pid, or given back to freeMemory.
AddStruct(t, process) == [t EXCEPT !.proc[t.nextPid] = process,
                                   !.processCount = @ + 1,
                                   !.nextPid = @ + 1]
FreeStruct(t, pid) == [t EXCEPT !.proc[pid] = FreeProcess,
                                !.processCount = @ - 1]

\* Mutants of Enqueue: the queue is not chosen by priority, and the head is the newest.
EnqueueLowest(t, pid) == [t EXCEPT !.ready[0] = Append(@, pid)]
EnqueueFirst(t, pid) == [t EXCEPT !.ready[t.proc[pid].priority] = Cons(pid, @)]

\* Tail insertion in the ready queue of the process's own priority.  When that
\* queue is empty priorityScheduler also stores through its NULL lastReady; the
\* store lands on the unused NMI gate at the bottom of memory, and the list
\* that results is the one below.
Enqueue(t, pid) == [t EXCEPT !.ready[t.proc[pid].priority] = Append(@, pid)]

\* Taking a process out of the ready queues: it is in one of them at most.
RemoveReady(t, pid) ==
  [t EXCEPT !.ready = [i \in Priority |-> RemoveFirst(t.ready[i], pid)]]

\* The blocked list grows at its head.
PushBlocked(t, pid) == [t EXCEPT !.blocked = Cons(pid, @)]

RemoveBlocked(t, pid) == [t EXCEPT !.blocked = RemoveFirst(@, pid)]

-----------------------------------------------------------------------------
(* block, unblock, createProcess, kill and exit. *)

\* block(pid) for a process that is not running.
BlockReady(t, pid) ==
  IF IsReady(t, pid)
  THEN PushBlocked(SetState(RemoveReady(t, pid), pid, "BLOCKED"), pid)
  ELSE t

Unblock(t, pid) ==
  IF IsBlocked(t, pid)
  THEN Enqueue(SetState(RemoveBlocked(t, pid), pid, "READY"), pid)
  ELSE t

\* Mutant of CreateProcess: the parent does not count the child.
CreateUncounted(t, priority) ==
  IF priority \in Priority
  THEN LET child == [state |-> "READY", priority |-> priority,
                     parentPID |-> t.running, kidsCount |-> 0]
       IN Enqueue(AddStruct(t, child), t.nextPid)
  ELSE t

\* createProcess by the running process; an invalid priority returns -1.
CreateProcess(t, priority) ==
  IF priority \in Priority
  THEN LET child == [state |-> "READY", priority |-> priority,
                     parentPID |-> t.running, kidsCount |-> 0]
           counted == SetKidsCount(t, t.running, t.proc[t.running].kidsCount + 1)
       IN Enqueue(AddStruct(counted, child), t.nextPid)
  ELSE t

\* Only the blocked list and the ready queues are searched, so the count of a
\* running parent stays as it is.
DecrementKidsCount(t, pid) ==
  IF IsBlocked(t, pid) \/ IsReady(t, pid)
  THEN SetKidsCount(t, pid, t.proc[pid].kidsCount - 1)
  ELSE t

\* Mutant of KillOther: the parent is not unblocked.
KillOtherQuietly(t, pid) ==
  IF pid # Console /\ (IsBlocked(t, pid) \/ IsReady(t, pid))
  THEN DecrementKidsCount(
         FreeStruct(RemoveBlocked(RemoveReady(t, pid), pid), pid),
         t.proc[pid].parentPID)
  ELSE t

\* kill(pid) for a process that is not running: killBlocked or killReady takes
\* it out of its list and frees it.
KillOther(t, pid) ==
  IF pid # Console /\ (IsBlocked(t, pid) \/ IsReady(t, pid))
  THEN LET parent == t.proc[pid].parentPID
           freed == FreeStruct(RemoveBlocked(RemoveReady(t, pid), pid), pid)
       IN Unblock(DecrementKidsCount(freed, parent), parent)
  ELSE t

\* Mutant of KillRunning: the parent is not unblocked.
KillRunningQuietly(t) == SetState(t, t.running, "EXITED")

\* kill(pid) of the running process, up to fireTimerInt, which never returns to
\* it: the parent's kidsCount is left alone.
KillRunning(t) ==
  Unblock(SetState(t, t.running, "EXITED"), t.proc[t.running].parentPID)

\* Mutant of ExitRunning: the parent keeps counting the child.
ExitUncounted(t) == KillRunning(t)

\* exit(), up to fireTimerInt.
ExitRunning(t) ==
  DecrementKidsCount(KillRunning(t), t.proc[t.running].parentPID)

-----------------------------------------------------------------------------
(* priorityScheduler. *)

\* Mutant of Retire: an exited process is freed and still counted.
RetireCounted(t) ==
  CASE t.proc[t.running].state = "EXITED" ->
         [t EXCEPT !.proc[t.running] = FreeProcess, !.running = Halt]
    [] t.proc[t.running].state = "BLOCKED" ->
         [PushBlocked(t, t.running) EXCEPT !.running = Halt]
    [] OTHER -> t

\* An exited process is freed and a blocked one joins the blocked list; the
\* halt process stands in for both.
Retire(t) ==
  CASE t.proc[t.running].state = "EXITED" ->
         [FreeStruct(t, t.running) EXCEPT !.running = Halt]
    [] t.proc[t.running].state = "BLOCKED" ->
         [PushBlocked(t, t.running) EXCEPT !.running = Halt]
    [] OTHER -> t

\* Mutants of Age: the lowest level is left too, and nobody pays.
AgeBelowZero(t) == SetPriority(t, t.running, t.proc[t.running].priority - 1)
AgeNobody(t) == t

\* Whoever holds the cpu pays one priority level for it.
Age(t) ==
  LET priority == t.proc[t.running].priority
  IN IF priority > 0 THEN SetPriority(t, t.running, priority - 1) ELSE t

\* Mutant of Candidates: the running process's own level is not searched.
CandidatesAbove(t) ==
  {i \in Priority : i > t.proc[t.running].priority /\ t.ready[i] # <<>>}

\* The queues the search from MAX_PRIORITY-1 downwards may stop at: it returns
\* to the running process when it reaches its level and finds nothing there.
Candidates(t) ==
  {i \in Priority : i >= t.proc[t.running].priority /\ t.ready[i] # <<>>}

\* Mutants of Requeue: the halt process queues too, and nobody does.
RequeueHalt(t) == Enqueue(SetState(t, t.running, "READY"), t.running)
RequeueNobody(t) == t

Requeue(t) ==
  IF t.running = Halt
  THEN t
  ELSE Enqueue(SetState(t, t.running, "READY"), t.running)

TakeHead(t, i) == [t EXCEPT !.running = Head(t.ready[i]), !.ready[i] = Tail(@)]

\* Mutant of Dispatch: the search goes upwards.
DispatchLowest(t) ==
  IF Candidates(t) = {}
  THEN t
  ELSE LET taken == TakeHead(Requeue(t), Min(Candidates(t)))
       IN SetState(taken, taken.running, "RUNNING")

Dispatch(t) ==
  IF Candidates(t) = {}
  THEN t
  ELSE LET taken == TakeHead(Requeue(t), Max(Candidates(t)))
       IN SetState(taken, taken.running, "RUNNING")

PriorityScheduler(t) == Dispatch(Age(Retire(t)))

-----------------------------------------------------------------------------
(* changePriority. *)

IsHeadOfQueue(t, pid) ==
  \E i \in Priority : t.ready[i] # <<>> /\ Head(t.ready[i]) = pid

MoveToQueue(t, pid, priority) ==
  [RemoveReady(t, pid) EXCEPT !.ready[priority] = Append(@, pid)]

\* changeReadyProcessPriority: the process at the head of its queue moves to
\* the new queue and keeps its old priority, any other one gets both.
ChangeReadyPriority(t, pid, priority) ==
  IF IsHeadOfQueue(t, pid)
  THEN MoveToQueue(t, pid, priority)
  ELSE MoveToQueue(SetPriority(t, pid, priority), pid, priority)

\* changePriority returns 1.
CanChangePriority(t, pid, priority) ==
  /\ priority \in Priority
  /\ pid = t.running \/ IsBlocked(t, pid) \/ IsReady(t, pid)

ChangePriority(t, pid, priority) ==
  IF ~CanChangePriority(t, pid, priority)
  THEN t
  ELSE IF IsReady(t, pid)
       THEN ChangeReadyPriority(t, pid, priority)
       ELSE SetPriority(t, pid, priority)
=============================================================================
